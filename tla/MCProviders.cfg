CONSTANTS
  Task = {t1, t2}
  Party = {p1, p2}
  Inward <- Writes
  Outward <- Rarely
  MaxUpdates = 3
  MaxUpdatesOut = 1
  MaxNotices = 2
  MaxWaits = 2
  MaxTokens = 1
  MaxLogins = 4
  MaxKeys = 2
  Written <- Letters
  Listed <- Casts
  WhoIs <- PeerOf
  Part = 2
  MaxLetters = 1
  MaxNotes = 1
  MaxFloods = 1
  MaxEvents = 3
  MaxSends = 2
  Writer = {"u1"}
  Group = {"g1"}
  Wall <- Posts
  MaxPosts = 4
  MaxPostsOut = 2
  Customer = {"c1"}
  Number = {"n1", "n2"}
  Batched <- Batches
  MaxObj = 2
  MaxBatches = 2
  ChatId = {"c1"}
  Occasion = {"e1"}
  MaxEnds = 2
  MaxChats = 3
  MaxReports = 2
  MaxState = 2
  MaxTold = 3
  MaxFails = 1
SPECIFICATION MCSpec
SYMMETRY Symmetry
INVARIANTS
  TypeOK
  
  
  
  
  
\* Bounded requests: a component with nothing left to do rests.
CHECK_DEADLOCK FALSE
