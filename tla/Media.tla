--------------------------------- MODULE Media ---------------------------------
(***************************************************************************)
(* The upload of files by a web chat: WebChatBot.uploadMultiMedia reads    *)
(* the parts of a request, or its body as the only one, through a          *)
(* limitedReader, and Gateway.uploadFile streams each to the storage, one  *)
(* Read after the other.  The answer lists the files, or is an error.      *)
(***************************************************************************)
EXTENDS Naturals, Integers, Sequences

CONSTANTS
  Limit,      \* media_max_size
  Buf,        \* size of the buffer of uploadFile
  MaxPart,    \* bound on the parts of a request
  MaxSize     \* bound on the size of a part

VARIABLES
  form,       \* the request is multipart; else it is one body
  length,     \* Content-Length of a body; -1: not known
  parts,      \* the sizes of the parts
  pc,         \* "part", "read", "end", "ok" or "error"
  i,          \* the part being read
  n,          \* limitedReader.N
  off,        \* bytes read of the part
  err,        \* the read failed
  files,      \* the files uploaded: what the answer would list
  stored      \* what the storage has: the number and the size of each

mediaVars == <<form, length, parts, pc, i, n, off, err, files, stored>>

TypeOK ==
  /\ form \in BOOLEAN /\ length \in -1 .. MaxSize
  /\ parts \in UNION {[1 .. k -> 0 .. MaxSize] : k \in 0 .. MaxPart}
  /\ pc \in {"part", "read", "end", "ok", "error"}
  /\ i \in 0 .. MaxPart + 1 /\ n \in -1 .. Limit /\ off \in 0 .. MaxSize /\ err \in BOOLEAN
  /\ files \in UNION {[1 .. k -> 1 .. MaxPart] : k \in 0 .. MaxPart}
  /\ \A k \in 1 .. Len(stored) : stored[k] \in (1 .. MaxPart) \X (0 .. MaxSize)

Init ==
  /\ form \in BOOLEAN
  /\ parts \in UNION {[1 .. k -> 0 .. MaxSize] : k \in 0 .. MaxPart}
  /\ ~ form => Len(parts) = 1
  /\ length \in IF form THEN {-1} ELSE {-1, parts[1]}
  /\ pc = "part" /\ i = 0 /\ n = 0 /\ off = 0 /\ err = FALSE
  /\ files = <<>> /\ stored = <<>>
-----------------------------------------------------------------------------
(* Faulty variants: a reader that stops at the limit, a limit shared by all parts. *)
CutOff(left, size) == IF left > size THEN size ELSE left
KeptLeft(k)        == IF k = 1 THEN Limit ELSE n
-----------------------------------------------------------------------------
Least(S) == CHOOSE x \in S : \A y \in S : x <= y

(* At most one byte beyond the limit is asked for, to tell a file that is too large. *)
Asked(left, size) == Least({size, left + 1})

(* The limit that a part starts with. *)
Allowed(k) == Limit

(* NextPart; the end of the parts; or the body, if its declared length is in the limit. *)
NextPart ==
  /\ pc = "part"
  /\ i' = i + 1 /\ off' = 0 /\ err' = FALSE
  /\ IF i + 1 > Len(parts)
     THEN pc' = "ok" /\ UNCHANGED n
     ELSE IF ~ form /\ length > Limit
          THEN pc' = "error" /\ UNCHANGED n
          ELSE pc' = "read" /\ n' = Allowed(i + 1)
  /\ UNCHANGED <<form, length, parts, files, stored>>

(* A part that cannot be parsed ends the upload with an error. *)
PartFails ==
  /\ pc = "part" /\ form
  /\ pc' = "error"
  /\ UNCHANGED <<form, length, parts, i, n, off, err, files, stored>>

(* limitedReader.Read gets k bytes; a body that is no form is read as it is. *)
Read(k) ==
  LET rest == parts[i] - off
      most == IF form THEN Asked(n, Buf) ELSE Buf
  IN
  /\ pc = "read" /\ rest > 0
  /\ k \in 1 .. Least({rest, most})
  /\ n' = IF form THEN n - k ELSE n
  /\ IF form /\ n - k < 0
     THEN pc' = "end" /\ err' = TRUE /\ UNCHANGED off
     ELSE off' = off + k /\ UNCHANGED <<pc, err>>
  /\ UNCHANGED <<form, length, parts, i, files, stored>>

(* The part is at its end, or was asked for no byte: uploadFile takes both for EOF. *)
ReadEnds ==
  /\ pc = "read"
  /\ off = parts[i] \/ (form /\ Asked(n, Buf) = 0)
  /\ pc' = "end"
  /\ UNCHANGED <<form, length, parts, i, n, off, err, files, stored>>

(* The connection of the client breaks. *)
ReadFails ==
  /\ pc = "read"
  /\ pc' = "end" /\ err' = TRUE
  /\ UNCHANGED <<form, length, parts, i, n, off, files, stored>>

(* The stream is closed in any case, and the storage keeps what it was sent; then the error counts. *)
CloseAndRecv ==
  /\ pc = "end"
  /\ stored' = Append(stored, <<i, off>>)
  /\ files' = IF err THEN files ELSE Append(files, i)
  /\ pc' = IF err THEN "error" ELSE "part"
  /\ UNCHANGED <<form, length, parts, i, n, off, err>>

(* The storage refuses the file, by a policy or else (HandleFileUploadError). *)
Refuse ==
  /\ pc = "end"
  /\ pc' = "error"
  /\ UNCHANGED <<form, length, parts, i, n, off, err, files, stored>>

Next ==
  \/ NextPart \/ PartFails \/ ReadEnds \/ ReadFails \/ CloseAndRecv \/ Refuse
  \/ \E k \in 1 .. Buf : Read(k)

Spec == Init /\ [][Next]_mediaVars
-----------------------------------------------------------------------------
(***************************************************************************)
(* Every file of an answer is stored whole, and is within the limit if the *)
(* request said how large it is or came as a form, whatever the pieces the *)
(* reader gets (a body of unknown length is not limited).                  *)
(***************************************************************************)
AnsweredWhole ==
  pc = "ok" =>
    /\ Len(files) = Len(parts)
    /\ \A k \in 1 .. Len(files) :
         /\ \E s \in 1 .. Len(stored) : stored[s] = <<files[k], parts[files[k]]>>
         /\ form \/ length # -1 => parts[files[k]] <= Limit

(* A part is refused by the limit only if it is larger: the limit itself is still allowed. *)
RefusedOnlyLarger == pc = "end" /\ n < 0 => parts[i] > Limit
-----------------------------------------------------------------------------
(* Why it holds: the parts before are stored, and of this one what its limit allowed was read. *)
Typed ==
  /\ form \in BOOLEAN /\ length \in -1 .. MaxSize
  /\ parts \in Seq(0 .. MaxSize) /\ Len(parts) <= MaxPart
  /\ form => length = -1
  /\ ~ form => Len(parts) = 1 /\ length \in {-1, parts[1]}
  /\ pc \in {"part", "read", "end", "ok", "error"}
  /\ i \in 0 .. Len(parts) + 1 /\ n \in -1 .. Limit /\ off \in 0 .. MaxSize /\ err \in BOOLEAN
  /\ files \in Seq(1 .. MaxPart) /\ Len(files) <= Len(parts)
  /\ stored \in Seq((1 .. MaxPart) \X (0 .. MaxSize))

Within(k) == form \/ length # -1 => parts[k] <= Limit
Kept(k)   == \E s \in 1 .. Len(stored) : stored[s] = <<k, parts[k]>>
Done      == \A k \in 1 .. Len(files) : files[k] = k /\ Kept(k) /\ Within(k)

Progress ==
  /\ pc = "part" => Len(files) = i
  /\ pc = "ok" => Len(files) = Len(parts)
  /\ pc \in {"read", "end"} =>
       /\ i \in 1 .. Len(parts) /\ Len(files) = i - 1 /\ off <= parts[i]
       /\ ~ form => n = Limit /\ Within(i)
       /\ form /\ n >= 0 => n = Limit - off
  /\ pc = "read" => n >= 0
  /\ pc = "end" /\ n < 0 => err /\ parts[i] > Limit
  /\ pc = "end" /\ ~ err => off = parts[i]

IInv == Typed /\ Done /\ Progress
===============================================================================
