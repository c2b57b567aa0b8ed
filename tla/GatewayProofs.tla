---------------------------- MODULE GatewayProofs ----------------------------
(***************************************************************************)
(* Proofs about the gateways with most state of their own: the web chat,   *)
(* its files, the chats of Facebook, WhatsApp and Instagram, broadcasts by *)
(* Messenger. For any rooms, tabs, notes, sizes, pages, users, numbers,    *)
(* comments and peers.                                                     *)
(***************************************************************************)
EXTENDS MCGateways, FiniteSetTheorems, TLAPS

-----------------------------------------------------------------------------
(* The web chat *)


LEMMA IntervalSize ==
  ASSUME NEW n \in Nat
  PROVE  IsFiniteSet(1 .. n) /\ Cardinality(1 .. n) = n
<1>1. 1 \in Int /\ n \in Int
  OBVIOUS
<1>2. IsFiniteSet(1 .. n) /\ Cardinality(1 .. n) = IF 1 > n THEN 0 ELSE n - 1 + 1
  BY <1>1, FS_Interval, Zenon
<1> QED
  BY <1>2

(* A sequence without repetitions over 1 .. N is no longer than N. *)
LEMMA NoLongerThan ==
  ASSUME NEW N \in Nat, NEW S, NEW s \in Seq(S), \A k \in DOMAIN s : s[k] \in 1 .. N,
         \A k, l \in DOMAIN s : s[k] = s[l] => k = l
  PROVE  Len(s) <= N
<1>1. DOMAIN s = 1 .. Len(s) /\ Len(s) \in Nat /\ s \in [1 .. Len(s) -> 1 .. N]
  OBVIOUS
<1>2. s \in Injection(1 .. Len(s), 1 .. N)
  BY <1>1 DEF Injection, IsInjective
<1>3. Cardinality(1 .. Len(s)) <= Cardinality(1 .. N)
  BY <1>2, IntervalSize, FS_Injection
<1> QED
  BY <1>1, <1>3, IntervalSize

(* A tab keeps its room, and comes in or stays in; only Open makes it alive. *)
TabsStay ==
  \A t \in Task : /\ v3'[t].room = v3[t].room
                  /\ Web!Inside(t) => v3'[t].pc \notin {"off", "join"}
                  /\ v3'[t].alive => v3[t].alive

(* One room becomes q. *)
LEMMA WebRoomIs ==
  ASSUME Web!Typed, NEW r \in DOMAIN v2, NEW q \in Web!RoomType, v2' = [v2 EXCEPT ![r] = q]
  PROVE  /\ v2' \in Seq(Web!RoomType) /\ Len(v2') = Len(v2) /\ DOMAIN v2' = DOMAIN v2
         /\ v2'[r] = q /\ \A o \in DOMAIN v2 : o # r => v2'[o] = v2[o]
<1>1. v2 \in Seq(Web!RoomType)
  BY DEF Web!Typed
<1> QED
  BY <1>1

LEMMA OfRoomKept ==
  ASSUME NEW r, Web!OfRoom(r), TabsStay, v2[r].conn \in SUBSET Task,
         v2'[r].conn \subseteq v2[r].conn, v2'[r].send \in {v2[r].send, <<>>}
  PROVE  Web!OfRoom(r)'
<1>1. ASSUME NEW c \in Web!Closure, v2'[r].send = <<c>>, c.op \in {"info", "reply", "remove"}
      PROVE  v3'[c.tab].room = r /\ v3'[c.tab].pc \notin {"off", "join"} /\ (c.op = "remove" => ~ v3'[c.tab].alive)
  <2>1. v2[r].send = <<c>> /\ c.tab \in Task
    BY <1>1 DEF Web!Closure
  <2>2. v3[c.tab].room = r /\ Web!Inside(c.tab) /\ (c.op = "remove" => ~ v3[c.tab].alive)
    BY <1>1, <2>1 DEF Web!OfRoom
  <2> QED
    BY <2>1, <2>2 DEF TabsStay
<1>2. ASSUME NEW t \in v2'[r].conn
      PROVE  v3'[t].room = r /\ v3'[t].pc \notin {"off", "join"}
  BY <1>2 DEF Web!OfRoom, TabsStay
<1> QED
  BY <1>1, <1>2 DEF Web!OfRoom, Web!Inside, Web!Closure

(* The notices go on, and no text is new. *)
NotesStay ==
  \A k \in Note : /\ v4'[k].pc # "idle" => v4[k].pc # "idle" /\ v4'[k].room = v4[k].room
                  /\ v4'[k].pc = "text" => v4[k].pc = "text" /\ v4'[k].m = v4[k].m

LEMMA OnceKept ==
  ASSUME NEW r, Web!OnceIn(r), NotesStay, v2'[r].msgs = v2[r].msgs, v2'[r].send \in {v2[r].send, <<>>},
         v2[r].msgs \in Seq(1 .. MaxMsg), MaxMsg \in Nat, v5 \in Nat, v5' \in Nat, v5 <= v5'
  PROVE  Web!OnceIn(r)'
<1>1. \A k \in DOMAIN v2[r].msgs : v2[r].msgs[k] \in Nat /\ v2[r].msgs[k] <= v5'
  BY DEF Web!OnceIn
<1>2. ASSUME NEW c \in Web!Closure, v2'[r].send = <<c>>, c.m # 0
      PROVE  c.m <= v5' /\ ~ \E k \in DOMAIN v2[r].msgs : v2[r].msgs[k] = c.m
  <2>1. v2[r].send = <<c>> /\ c.m \in Nat
    BY <1>2 DEF Web!Closure
  <2> QED
    BY <1>2, <2>1 DEF Web!OnceIn, Web!In
<1>3. ASSUME NEW k \in Note, v4'[k].pc = "text"
      PROVE  /\ ~ \E l \in DOMAIN v2[r].msgs : v2[r].msgs[l] = v4'[k].m
             /\ \A c \in Web!Closure : v2'[r].send = <<c>> => c.m # v4'[k].m
  <2>1. v4[k].pc = "text" /\ v4'[k].m = v4[k].m
    BY <1>3 DEF NotesStay
  <2>2. \A c : <<>> # <<c>>
    OBVIOUS
  <2> QED
    BY <2>1, <2>2, Zenon DEF Web!OnceIn, Web!In
<1> QED
  BY <1>1, <1>2, <1>3 DEF Web!OnceIn, Web!In, Web!Closure

LEMMA OnceNotedKept ==
  ASSUME Web!OnceNoted, NotesStay, v5 \in Nat, v5' \in Nat, v5 <= v5'
  PROVE  Web!OnceNoted'
<1>1. ASSUME NEW k \in Note, v4'[k].pc = "text" PROVE v4'[k].m \in 1 .. v5'
  <2>1. v4'[k].m \in 1 .. v5
    BY <1>1 DEF Web!OnceNoted, NotesStay
  <2> QED
    BY <2>1
<1> QED
  BY <1>1 DEF Web!OnceNoted, NotesStay

LEMMA PlacedKept ==
  ASSUME Web!Placed, NotesStay, DOMAIN v2' = DOMAIN v2,
         \A t \in Task : v3'[t].room = v3[t].room /\ (v3'[t].pc # "off" => v3[t].pc # "off")
  PROVE  Web!Placed'
BY DEF Web!Placed, NotesStay

(* The tabs and notices go on, the rooms are as they were. *)
TabsOnly ==
  /\ v2' = v2 /\ v1' \in 0 .. Len(v2) /\ v6' = v6 /\ v7' \in BOOLEAN /\ v8' \in BOOLEAN /\ (v8 => v8')
  /\ v3' \in [Task -> Web!TabType] /\ v4' \in [Note -> Web!NoteType] /\ v5' \in v5 .. MaxMsg
  /\ TabsStay /\ NotesStay
  /\ \A t \in Task : /\ v3'[t].seen = v3[t].seen /\ (v3'[t].pc # "off" => v3[t].pc # "off")
                     /\ ~ v8' /\ v3'[t].pc \notin {"off", "join"} => Web!Inside(t)

LEMMA WebRoomsKept ==
  ASSUME WebAssumption, Web!IInv, TabsOnly, Web!ListedIsServed'
  PROVE  Web!IInv'
<1>0. /\ MaxMsg \in Nat /\ v2 \in Seq(Web!RoomType) /\ v5 \in Nat /\ v5' \in Nat /\ v5 <= v5'
      /\ \A r \in DOMAIN v2 : v2[r] \in Web!RoomType
  BY DEF WebAssumption, Web!IInv, Web!Typed, TabsOnly
<1>1. Web!Typed'
  <2>1. v2' \in Seq(Web!RoomType) /\ Len(v2') <= MaxRoom /\ v1' \in 0 .. Len(v2')
    BY DEF Web!IInv, Web!Typed, TabsOnly
  <2>2. v5' \in 0 .. MaxMsg /\ v6' \in 0 .. MaxClose
    BY <1>0 DEF Web!IInv, Web!Typed, TabsOnly
  <2>3. \A t \in Task : Len(v3'[t].seen) <= MaxMsg
    BY DEF Web!IInv, Web!Typed, TabsOnly
  <2>4. v8' \in BOOLEAN
    BY DEF Web!IInv, Web!Typed, TabsOnly
  <2> QED
    BY <2>1, <2>2, <2>3, <2>4 DEF TabsOnly, Web!Typed, Web!RoomType, Web!TabType, Web!NoteType, Web!Closure
<1>2. Web!Placed'
  <2>1. \A t \in Task : v3'[t].room = v3[t].room /\ (v3'[t].pc # "off" => v3[t].pc # "off")
    BY DEF TabsStay, TabsOnly
  <2>2. Web!Placed /\ DOMAIN v2' = DOMAIN v2 /\ NotesStay
    BY DEF Web!IInv, TabsOnly
  <2> QED
    BY <2>1, <2>2, PlacedKept, Zenon
<1>3. ASSUME NEW r \in DOMAIN v2 PROVE Web!OfRoom(r)' /\ Web!OnceIn(r)'
  <2>1. v2[r].conn \in SUBSET Task /\ v2[r].msgs \in Seq(1 .. MaxMsg) /\ Web!OfRoom(r) /\ Web!OnceIn(r)
    BY <1>0, <1>3 DEF Web!RoomType, Web!IInv
  <2> QED
    BY <1>0, <2>1, OfRoomKept, OnceKept DEF TabsOnly
<1>4. ASSUME ~ v8', NEW t \in Task PROVE Web!Listed(t)'
  <2>1. ~ v8 /\ v2' = v2
    BY <1>4 DEF TabsOnly
  <2>2. Web!Listed(t)
    BY <2>1 DEF Web!IInv
  <2> QED
    BY <1>4, <2>1, <2>2 DEF Web!Listed, Web!Inside, TabsStay, TabsOnly
<1>5. Web!OnceNoted'
  BY <1>0, OnceNotedKept DEF TabsOnly, Web!IInv
<1>6. Web!TabsInStep'
  BY <1>0 DEF Web!IInv, Web!TabsInStep, TabsStay, Web!RoomType, TabsOnly
<1> QED
  BY <1>1, <1>2, <1>3, <1>4, <1>5, <1>6 DEF Web!IInv, TabsOnly

(* A closure c comes into the free slot of room r. *)
Queues(r, c) ==
  /\ Web!Free(r) /\ v2' = [v2 EXCEPT ![r].send = Append(@, c)]
  /\ v1' = v1 /\ v6' = v6 /\ v7' = v7 /\ v8' = v8
  /\ v3' \in [Task -> Web!TabType] /\ v4' \in [Note -> Web!NoteType] /\ v5' \in v5 .. MaxMsg
  /\ TabsStay /\ NotesStay
  /\ \A t \in Task : /\ v3'[t].seen = v3[t].seen /\ (v3'[t].pc # "off" => v3[t].pc # "off")
                     /\ v3[t].pc = "start" => v3'[t].pc = "start"
                     /\ v3'[t].pc \notin {"off", "join"} =>
                          Web!Inside(t) \/ (v3[t].room = r /\ c = [op |-> "info", tab |-> t, m |-> 0])
  /\ c.op \in {"info", "reply", "remove"} =>
       /\ v3'[c.tab].room = r /\ v3'[c.tab].pc \notin {"off", "join"}
       /\ c.op = "remove" => ~ v3'[c.tab].alive
  /\ c.m # 0 => c.m <= v5' /\ ~ Web!In(c.m, r)
  /\ \A k \in Note : v4'[k].pc = "text" => c.m # v4'[k].m

LEMMA OfRoomPut ==
  ASSUME NEW r, NEW c \in Web!Closure, Web!OfRoom(r), TabsStay, v2[r].conn \in SUBSET Task,
         v2'[r].conn = v2[r].conn, v2'[r].send = <<c>>,
         c.op \in {"info", "reply", "remove"} =>
           /\ v3'[c.tab].room = r /\ v3'[c.tab].pc \notin {"off", "join"}
           /\ c.op = "remove" => ~ v3'[c.tab].alive
  PROVE  Web!OfRoom(r)'
<1>1. ASSUME NEW d \in Web!Closure, v2'[r].send = <<d>>, d.op \in {"info", "reply", "remove"}
      PROVE  v3'[d.tab].room = r /\ v3'[d.tab].pc \notin {"off", "join"} /\ (d.op = "remove" => ~ v3'[d.tab].alive)
  <2>1. d = c
    BY <1>1
  <2> QED
    BY <1>1, <2>1
<1>2. ASSUME NEW t \in v2'[r].conn
      PROVE  v3'[t].room = r /\ v3'[t].pc \notin {"off", "join"}
  BY <1>2 DEF Web!OfRoom, TabsStay
<1> QED
  BY <1>1, <1>2 DEF Web!OfRoom, Web!Inside, Web!Closure

LEMMA OncePut ==
  ASSUME NEW r, NEW c \in Web!Closure, Web!OnceIn(r), NotesStay, v2'[r].msgs = v2[r].msgs, v2'[r].send = <<c>>,
         v2[r].msgs \in Seq(1 .. MaxMsg), MaxMsg \in Nat, v5 \in Nat, v5' \in Nat, v5 <= v5',
         c.m # 0 => c.m <= v5' /\ ~ Web!In(c.m, r),
         \A k \in Note : v4'[k].pc = "text" => c.m # v4'[k].m
  PROVE  Web!OnceIn(r)'
<1>1. \A k \in DOMAIN v2[r].msgs : v2[r].msgs[k] \in Nat /\ v2[r].msgs[k] <= v5'
  BY DEF Web!OnceIn
<1>2. ASSUME NEW d \in Web!Closure, v2'[r].send = <<d>>
      PROVE  /\ d.m # 0 => d.m <= v5' /\ ~ \E k \in DOMAIN v2[r].msgs : v2[r].msgs[k] = d.m
             /\ \A k \in Note : v4'[k].pc = "text" => d.m # v4'[k].m
  <2>1. d = c
    BY <1>2
  <2> QED
    BY <2>1 DEF Web!In
<1>3. \A k \in Note : v4'[k].pc = "text" => ~ \E l \in DOMAIN v2[r].msgs : v2[r].msgs[l] = v4'[k].m
  BY DEF Web!OnceIn, Web!In, NotesStay
<1> QED
  BY <1>1, <1>2, <1>3 DEF Web!OnceIn, Web!In, Web!Closure

LEMMA WebQueued ==
  ASSUME WebAssumption, Web!IInv, ~ v8, NEW r \in DOMAIN v2, NEW c \in Web!Closure, Queues(r, c)
  PROVE  Web!IInv'
<1> DEFINE q == [v2[r] EXCEPT !.send = <<c>>]
<1>0. /\ MaxMsg \in Nat /\ v2 \in Seq(Web!RoomType) /\ v5 \in Nat /\ v5' \in Nat /\ v5 <= v5'
      /\ \A o \in DOMAIN v2 : v2[o] \in Web!RoomType
  BY DEF WebAssumption, Web!IInv, Web!Typed, Queues
<1>1. v2[r].send = <<>>
  <2>1. v2[r].send = <<>> \/ \E d : v2[r].send = <<d>>
    BY <1>0 DEF Web!RoomType
  <2> QED
    BY <2>1 DEF Web!Free, Queues
<1>2. q \in Web!RoomType
  BY <1>0 DEF Web!RoomType
<1>3. v2' = [v2 EXCEPT ![r] = q]
  BY <1>0, <1>1 DEF Web!RoomType, Queues
<1>4. /\ v2' \in Seq(Web!RoomType) /\ Len(v2') = Len(v2) /\ DOMAIN v2' = DOMAIN v2
      /\ v2'[r] = q /\ \A o \in DOMAIN v2 : o # r => v2'[o] = v2[o]
  BY <1>2, <1>3, WebRoomIs DEF Web!IInv
<1>5. /\ q.send = <<c>> /\ q.conn = v2[r].conn /\ q.msgs = v2[r].msgs /\ q.writer = v2[r].writer
  BY <1>0 DEF Web!RoomType
<1> HIDE DEF q
<1>6. Web!Typed'
  <2>1. v2' \in Seq(Web!RoomType) /\ Len(v2') <= MaxRoom /\ v1' \in 0 .. Len(v2')
    BY <1>4 DEF Web!IInv, Web!Typed, Queues
  <2>2. v5' \in 0 .. MaxMsg /\ v6' \in 0 .. MaxClose /\ v7' \in BOOLEAN /\ v8' \in BOOLEAN
    BY <1>0 DEF Web!IInv, Web!Typed, Queues
  <2>3. \A t \in Task : Len(v3'[t].seen) <= MaxMsg
    BY DEF Web!IInv, Web!Typed, Queues
  <2> QED
    BY <2>1, <2>2, <2>3 DEF Queues, Web!Typed, Web!RoomType, Web!TabType, Web!NoteType, Web!Closure
<1>7. Web!Placed'
  <2>1. \A t \in Task : v3'[t].room = v3[t].room /\ (v3'[t].pc # "off" => v3[t].pc # "off")
    BY DEF TabsStay, Queues
  <2>2. Web!Placed
    BY DEF Web!IInv
  <2> QED
    BY <1>4, <2>1, <2>2, PlacedKept, Zenon DEF Queues
<1>8. ASSUME NEW o \in DOMAIN v2, o # r PROVE Web!OfRoom(o)' /\ Web!OnceIn(o)'
  <2>1. v2[o].conn \in SUBSET Task /\ v2[o].msgs \in Seq(1 .. MaxMsg) /\ Web!OfRoom(o) /\ Web!OnceIn(o)
    BY <1>0, <1>8 DEF Web!RoomType, Web!IInv
  <2>2. v2'[o] = v2[o]
    BY <1>4, <1>8
  <2> QED
    BY <1>0, <2>1, <2>2, OfRoomKept, OnceKept DEF Queues
<1>9. Web!OfRoom(r)' /\ Web!OnceIn(r)'
  <2>1. v2[r].conn \in SUBSET Task /\ v2[r].msgs \in Seq(1 .. MaxMsg) /\ Web!OfRoom(r) /\ Web!OnceIn(r)
    BY <1>0 DEF Web!RoomType, Web!IInv
  <2>2. Web!OfRoom(r)'
    BY <1>4, <1>5, <2>1, OfRoomPut DEF Queues
  <2>3. Web!OnceIn(r)'
    BY <1>0, <1>4, <1>5, <2>1, OncePut DEF Queues
  <2> QED
    BY <2>2, <2>3
<1>11. ASSUME NEW t \in Task PROVE Web!Listed(t)'
  <2> SUFFICES ASSUME v3'[t].alive, v3'[t].pc \notin {"off", "join"}
               PROVE  \/ t \in v2'[v3'[t].room].conn
                      \/ v2'[v3'[t].room].send = <<[op |-> "info", tab |-> t, m |-> 0]>>
    BY DEF Web!Listed, Web!Inside
  <2>1. v3'[t].room = v3[t].room /\ v3[t].alive
    BY DEF TabsStay, Queues
  <2>2. CASE ~ Web!Inside(t)
    <3>1. v3[t].room = r /\ c = [op |-> "info", tab |-> t, m |-> 0]
      BY <2>2, Zenon DEF Queues
    <3> QED
      BY <1>4, <1>5, <2>1, <3>1
  <2>3. CASE Web!Inside(t)
    <3>1. v3[t].room \in DOMAIN v2
      BY <2>3 DEF Web!Inside, Web!IInv, Web!Placed
    <3>2. Web!Listed(t)
      BY DEF Web!IInv
    <3>3. CASE v3[t].room = r
      BY <1>1, <1>4, <1>5, <2>1, <2>3, <3>2, <3>3 DEF Web!Listed
    <3>4. CASE v3[t].room # r
      BY <1>4, <2>1, <2>3, <3>1, <3>2, <3>4 DEF Web!Listed
    <3> QED
      BY <3>3, <3>4
  <2> QED
    BY <2>2, <2>3
<1>12. Web!OnceNoted'
  BY <1>0, OnceNotedKept DEF Queues, Web!IInv
<1>13. Web!TabsInStep'
  <2>1. \A o \in DOMAIN v2 : v2'[o].conn = v2[o].conn /\ v2'[o].msgs = v2[o].msgs /\ v2[o].conn \in SUBSET Task
    BY <1>0, <1>4, <1>5 DEF Web!RoomType
  <2> QED
    BY <1>4, <2>1 DEF Web!IInv, Web!TabsInStep, TabsStay, Queues
<1>14. Web!ListedIsServed'
  <2>1. \A o \in DOMAIN v2 : v2'[o].writer = v2[o].writer
    BY <1>4, <1>5
  <2>2. v1 \in Nat /\ (v1 # 0 => v1 \in DOMAIN v2)
    BY <1>0 DEF Web!IInv, Web!Typed, Queues
  <2> QED
    BY <2>1, <2>2 DEF Web!IInv, Web!ListedIsServed, TabsStay, Queues
<1> QED
  BY <1>4, <1>6, <1>7, <1>8, <1>9, <1>11, <1>12, <1>13, <1>14 DEF Web!IInv

(* A tab goes on from one place of its handler to another, its room and what it shows are the same. *)
LEMMA WebJoin ==
  ASSUME WebAssumption, Web!IInv, ~ v8, NEW t \in Task, Web!Join(t)
  PROVE  Web!IInv'
<1> DEFINE r == v3[t].room
           c == [op |-> "info", tab |-> t, m |-> 0]
<1>0. /\ v3 \in [Task -> Web!TabType] /\ v3[t] \in Web!TabType /\ v4 \in [Note -> Web!NoteType]
      /\ v5 \in Nat /\ v5 \in v5 .. MaxMsg /\ v8 \in BOOLEAN /\ v1 \in 0 .. Len(v2) /\ v7 \in BOOLEAN
      /\ r \in DOMAIN v2 /\ c \in Web!Closure
  BY DEF Web!IInv, Web!Typed, Web!Placed, Web!Join, WebAssumption, Web!Closure
<1>1. /\ v3[t].pc = "join" /\ v3' = [v3 EXCEPT ![t].pc = "register", ![t].primary = v2[r].conn = {}]
      /\ v1' = v1 /\ v4' = v4 /\ v5' = v5 /\ v6' = v6 /\ v7' = v7
  BY DEF Web!Join
<1>2. /\ v3' \in [Task -> Web!TabType] /\ v3'[t].pc = "register" /\ v3'[t].room = r
      /\ v3'[t].seen = v3[t].seen /\ v3'[t].alive = v3[t].alive
      /\ \A u \in Task : u # t => v3'[u] = v3[u]
  BY <1>0, <1>1 DEF Web!TabType
<1>3. TabsStay /\ NotesStay
  BY <1>1, <1>2 DEF TabsStay, NotesStay, Web!Inside
<1>4. CASE v2[r].shut
  <2>1. v8' = TRUE /\ v2' = v2
    BY <1>4 DEF Web!Join
  <2>2. Web!ListedIsServed'
    BY <1>1, <1>2, <2>1 DEF Web!IInv, Web!ListedIsServed
  <2>3. \A u \in Task : v3'[u].seen = v3[u].seen /\ (v3'[u].pc # "off" => v3[u].pc # "off")
    BY <1>1, <1>2
  <2> QED
    <3>1. TabsOnly
      BY <1>0, <1>1, <1>2, <1>3, <2>1, <2>3 DEF TabsOnly
    <3> QED
      BY <2>2, <3>1, WebRoomsKept
<1>5. CASE ~ v2[r].shut
  <2>1. v8' = v8 /\ Web!Free(r) /\ v2' = [v2 EXCEPT ![r].send = Append(@, c)]
    BY <1>5 DEF Web!Join, Web!InfoQueued
  <2>2. \A u \in Task : /\ v3'[u].seen = v3[u].seen /\ (v3'[u].pc # "off" => v3[u].pc # "off")
                        /\ v3[u].pc = "start" => v3'[u].pc = "start"
                        /\ v3'[u].pc \notin {"off", "join"} =>
                             Web!Inside(u) \/ (v3[u].room = r /\ c = [op |-> "info", tab |-> u, m |-> 0])
    BY <1>1, <1>2 DEF Web!Inside
  <2>3. c.op = "info" /\ c.tab = t /\ c.m = 0
    OBVIOUS
  <2> HIDE DEF c
  <2>4. \A k \in Note : v4'[k].pc = "text" => c.m # v4'[k].m
    BY <1>0, <1>1, <2>3 DEF Web!IInv, Web!OnceNoted
  <2>5. Queues(r, c)
    BY <1>0, <1>1, <1>2, <1>3, <2>1, <2>2, <2>3, <2>4 DEF Queues
  <2> QED
    BY <1>0, <2>5, WebQueued
<1> QED
  BY <1>4, <1>5

LEMMA WebRecv ==
  ASSUME WebAssumption, Web!IInv, ~ v8, NEW t \in Task, NEW m \in 0 .. MaxMsg, Web!Recv(t, m)
  PROVE  Web!IInv'
<1> DEFINE r == v3[t].room
           c == [op |-> "reply", tab |-> t, m |-> m]
<1>0. /\ v3 \in [Task -> Web!TabType] /\ v3[t] \in Web!TabType /\ v4 \in [Note -> Web!NoteType]
      /\ v5 \in Nat /\ v8 \in BOOLEAN /\ v1 \in 0 .. Len(v2) /\ v7 \in BOOLEAN
      /\ r \in DOMAIN v2 /\ c \in Web!Closure
  BY DEF Web!IInv, Web!Typed, Web!Placed, Web!Recv, WebAssumption, Web!Closure
<1>1. /\ v3[t].pc = "read" /\ v5 < MaxMsg /\ m \in {0, v5 + 1} /\ v5' = v5 + 1
      /\ v1' = v1 /\ v4' = v4 /\ v6' = v6 /\ v7' = v7
  BY DEF Web!Recv
<1>2. v5' \in v5 .. MaxMsg /\ NotesStay
  BY <1>0, <1>1 DEF WebAssumption, NotesStay
<1>3. CASE v3' = v3 /\ v2' = v2 /\ v8' = TRUE
  <2>1. TabsStay /\ Web!ListedIsServed'
    BY <1>1, <1>3 DEF TabsStay, Web!Inside, Web!IInv, Web!ListedIsServed
  <2> QED
    <3>1. TabsOnly
      BY <1>0, <1>1, <1>2, <1>3, <2>1 DEF TabsOnly
    <3> QED
      BY <2>1, <3>1, WebRoomsKept
<1>4. CASE v3' = [v3 EXCEPT ![t].pc = "drop"] /\ v2' = v2 /\ v8' = v8
  <2>1. /\ v3' \in [Task -> Web!TabType] /\ v3'[t].pc = "drop" /\ v3'[t].room = r
        /\ v3'[t].seen = v3[t].seen /\ v3'[t].alive = v3[t].alive
        /\ \A u \in Task : u # t => v3'[u] = v3[u]
    BY <1>0, <1>4 DEF Web!TabType
  <2>2. TabsStay /\ \A u \in Task : /\ v3'[u].seen = v3[u].seen /\ (v3'[u].pc # "off" => v3[u].pc # "off")
                                   /\ v3'[u].pc \notin {"off", "join"} => Web!Inside(u)
    BY <1>1, <2>1 DEF TabsStay, Web!Inside
  <2>3. Web!ListedIsServed'
    BY <1>1, <1>4, <2>1 DEF Web!IInv, Web!ListedIsServed
  <2> QED
    <3>1. TabsOnly
      BY <1>0, <1>1, <1>2, <1>4, <2>1, <2>2 DEF TabsOnly
    <3> QED
      BY <2>3, <3>1, WebRoomsKept
<1>5. CASE v3' = v3 /\ v8' = v8 /\ Web!Free(r) /\ v2' = [v2 EXCEPT ![r].send = Append(@, c)]
  <2>1. TabsStay
    BY <1>5 DEF TabsStay, Web!Inside
  <2>2. m # 0 => m <= v5' /\ ~ Web!In(m, r)
    <3>1. \A k \in DOMAIN v2[r].msgs : v2[r].msgs[k] \in Nat /\ v2[r].msgs[k] <= v5
      <4>1. v2[r] \in Web!RoomType /\ Web!OnceIn(r)
        BY <1>0 DEF Web!IInv, Web!Typed
      <4> QED
        BY <4>1, WebAssumption DEF Web!OnceIn, Web!RoomType
    <3>2. m # 0 => m = v5 + 1 /\ m <= v5' /\ ~ m <= v5
      BY <1>0, <1>1
    <3>3. m # 0 => ~ Web!In(m, r)
      BY <3>1, <3>2 DEF Web!In
    <3> QED
      BY <3>2, <3>3
  <2>3. \A k \in Note : v4'[k].pc = "text" => m # v4'[k].m
    BY <1>0, <1>1 DEF Web!IInv, Web!OnceNoted
  <2>4. \A u \in Task : /\ v3'[u].seen = v3[u].seen /\ (v3'[u].pc # "off" => v3[u].pc # "off")
                        /\ v3[u].pc = "start" => v3'[u].pc = "start"
                        /\ v3'[u].pc \notin {"off", "join"} => Web!Inside(u)
    BY <1>5 DEF Web!Inside
  <2>5. c.tab = t /\ c.op = "reply" /\ c.m = m /\ v3'[t].room = r /\ v3'[t].pc \notin {"off", "join"}
    BY <1>1, <1>5
  <2> HIDE DEF c
  <2>6. Queues(r, c)
    BY <1>0, <1>1, <1>2, <1>5, <2>1, <2>2, <2>3, <2>4, <2>5 DEF Queues
  <2> QED
    BY <1>0, <2>6, WebQueued
<1> QED
  BY <1>3, <1>4, <1>5 DEF Web!Recv, Web!Sent

LEMMA WebDrop ==
  ASSUME WebAssumption, Web!IInv, ~ v8, NEW t \in Task, Web!Drop(t)
  PROVE  Web!IInv'
<1> DEFINE r == v3[t].room
           c == [op |-> "remove", tab |-> t, m |-> 0]
<1>0. /\ v3 \in [Task -> Web!TabType] /\ v3[t] \in Web!TabType /\ v4 \in [Note -> Web!NoteType]
      /\ v5 \in Nat /\ v5 \in v5 .. MaxMsg /\ v8 \in BOOLEAN /\ v1 \in 0 .. Len(v2) /\ v7 \in BOOLEAN
      /\ r \in DOMAIN v2 /\ c \in Web!Closure
  BY DEF Web!IInv, Web!Typed, Web!Placed, Web!Drop, WebAssumption, Web!Closure
<1>1. /\ v3[t].pc = "drop" /\ v3' = [v3 EXCEPT ![t].pc = "gone", ![t].alive = FALSE]
      /\ v1' = v1 /\ v4' = v4 /\ v5' = v5 /\ v6' = v6 /\ v7' = v7
  BY DEF Web!Drop
<1>2. /\ v3' \in [Task -> Web!TabType] /\ v3'[t].pc = "gone" /\ v3'[t].room = r
      /\ v3'[t].seen = v3[t].seen /\ ~ v3'[t].alive
      /\ \A u \in Task : u # t => v3'[u] = v3[u]
  BY <1>0, <1>1 DEF Web!TabType
<1>3. TabsStay /\ NotesStay
  BY <1>1, <1>2 DEF TabsStay, NotesStay, Web!Inside
<1>4. \A u \in Task : /\ v3'[u].seen = v3[u].seen /\ (v3'[u].pc # "off" => v3[u].pc # "off")
                      /\ v3[u].pc = "start" => v3'[u].pc = "start"
                      /\ v3'[u].pc \notin {"off", "join"} => Web!Inside(u)
  BY <1>1, <1>2 DEF Web!Inside
<1>5. CASE v2' = v2 /\ v8' \in BOOLEAN /\ (v8 => v8')
  <2>1. TabsOnly
    BY <1>0, <1>1, <1>2, <1>3, <1>4, <1>5 DEF TabsOnly
  <2>2. Web!ListedIsServed'
    BY <1>1, <1>2, <1>5 DEF Web!IInv, Web!ListedIsServed
  <2> QED
    BY <2>1, <2>2, WebRoomsKept
<1>6. CASE v8' = v8 /\ Web!Free(r) /\ v2' = [v2 EXCEPT ![r].send = Append(@, c)]
  <2>1. c.op = "remove" /\ c.tab = t /\ c.m = 0
    OBVIOUS
  <2> HIDE DEF c
  <2>2. \A k \in Note : v4'[k].pc = "text" => c.m # v4'[k].m
    BY <1>0, <1>1, <2>1 DEF Web!IInv, Web!OnceNoted
  <2>3. Queues(r, c)
    BY <1>0, <1>1, <1>2, <1>3, <1>4, <1>6, <2>1, <2>2 DEF Queues
  <2> QED
    BY <1>0, <2>3, WebQueued
<1>7. \/ v2' = v2 /\ v8' \in BOOLEAN /\ (v8 => v8')
      \/ v8' = v8 /\ Web!Free(r) /\ v2' = [v2 EXCEPT ![r].send = Append(@, c)]
  BY <1>0 DEF Web!Drop, Web!Sent
<1> QED
  BY <1>5, <1>6, <1>7

(* A notice's closure is queued, the notice goes on. *)
LEMMA WebNotify ==
  ASSUME WebAssumption, Web!IInv, ~ v8, NEW k \in Note, Web!NotifyText(k) \/ Web!NotifyBye(k)
  PROVE  Web!IInv'
<1> DEFINE r == v4[k].room
<1>0. /\ v3 \in [Task -> Web!TabType] /\ v4[k] \in Web!NoteType /\ v4 \in [Note -> Web!NoteType]
      /\ v5 \in Nat /\ v5 \in v5 .. MaxMsg /\ v8 \in BOOLEAN /\ v1 \in 0 .. Len(v2) /\ v7 \in BOOLEAN
      /\ r \in DOMAIN v2
  BY DEF Web!IInv, Web!Typed, Web!Placed, Web!NotifyText, Web!NotifyBye, WebAssumption
<1>1. v3' = v3 /\ v1' = v1 /\ v5' = v5 /\ v6' = v6 /\ v7' = v7
  BY DEF Web!NotifyText, Web!NotifyBye
<1>2. PICK pc \in {"idle", "bye"} : v4' = [v4 EXCEPT ![k].pc = pc]
  BY DEF Web!NotifyText, Web!NotifyBye
<1>3. /\ v4' \in [Note -> Web!NoteType] /\ v4'[k].pc # "text" /\ v4'[k].room = r
      /\ v4[k].pc # "idle" /\ \A l \in Note : l # k => v4'[l] = v4[l]
  BY <1>0, <1>2 DEF Web!NoteType, Web!NotifyText, Web!NotifyBye
<1>4. TabsStay /\ NotesStay
  BY <1>1, <1>3 DEF TabsStay, NotesStay, Web!Inside
<1>5. \A u \in Task : /\ v3'[u].seen = v3[u].seen /\ (v3'[u].pc # "off" => v3[u].pc # "off")
                      /\ v3[u].pc = "start" => v3'[u].pc = "start"
                      /\ v3'[u].pc \notin {"off", "join"} => Web!Inside(u)
  BY <1>1 DEF Web!Inside
<1>6. PICK c \in Web!Closure :
        /\ Web!Sent(r, c)
        /\ \/ c = [op |-> "note", tab |-> Web!NoTab, m |-> v4[k].m] /\ v4[k].pc = "text"
           \/ c = [op |-> "bye", tab |-> Web!NoTab, m |-> 0]
  <2>1. CASE Web!NotifyText(k)
    <3>1. v4[k].pc = "text" /\ v4[k].m \in 1 .. MaxMsg
      BY <2>1, <1>0 DEF Web!NotifyText, Web!IInv, Web!OnceNoted, Web!Typed, WebAssumption
    <3>2. [op |-> "note", tab |-> Web!NoTab, m |-> v4[k].m] \in Web!Closure
      BY <3>1 DEF Web!Closure
    <3> QED
      BY <2>1, <3>1, <3>2 DEF Web!NotifyText
  <2>2. CASE Web!NotifyBye(k)
    <3>1. [op |-> "bye", tab |-> Web!NoTab, m |-> 0] \in Web!Closure
      BY DEF Web!Closure
    <3> QED
      BY <2>2, <3>1 DEF Web!NotifyBye
  <2> QED
    BY <2>1, <2>2
<1>7. CASE v2' = v2 /\ v8' = TRUE
  <2>1. TabsOnly
    BY <1>0, <1>1, <1>3, <1>4, <1>5, <1>7 DEF TabsOnly
  <2>2. Web!ListedIsServed'
    BY <1>1, <1>7 DEF Web!IInv, Web!ListedIsServed
  <2> QED
    BY <2>1, <2>2, WebRoomsKept
<1>8. CASE v8' = v8 /\ Web!Free(r) /\ v2' = [v2 EXCEPT ![r].send = Append(@, c)]
  <2>1. c.op \notin {"info", "reply", "remove"} /\ (c.m # 0 => v4[k].pc = "text" /\ c.m = v4[k].m)
    BY <1>6
  <2>2. c.m # 0 => c.m <= v5 /\ ~ Web!In(c.m, r)
    BY <1>0, <2>1 DEF Web!IInv, Web!OnceNoted, Web!OnceIn
  <2>3. \A l \in Note : v4'[l].pc = "text" => c.m # v4'[l].m
    <3> SUFFICES ASSUME NEW l \in Note, v4'[l].pc = "text" PROVE c.m # v4'[l].m
      OBVIOUS
    <3>1. l # k /\ v4'[l] = v4[l]
      BY <1>3
    <3>2. v4[l].m # 0 /\ (v4[k].pc = "text" => v4[l].m # v4[k].m)
      BY <1>0, <3>1 DEF Web!IInv, Web!OnceNoted
    <3> QED
      BY <2>1, <3>1, <3>2
  <2>4. Queues(r, c)
    BY <1>0, <1>1, <1>3, <1>4, <1>5, <1>8, <2>1, <2>2, <2>3 DEF Queues
  <2> QED
    BY <1>0, <2>4, WebQueued
<1> QED
  BY <1>6, <1>7, <1>8 DEF Web!Sent

LEMMA WebRegister ==
  ASSUME WebAssumption, Web!IInv, ~ v8, NEW t \in Task, Web!Register(t)
  PROVE  Web!IInv'
<1> DEFINE r == v3[t].room
<1>0. /\ v3 \in [Task -> Web!TabType] /\ v3[t] \in Web!TabType /\ v4 \in [Note -> Web!NoteType]
      /\ v5 \in Nat /\ v5 \in v5 .. MaxMsg /\ v8 \in BOOLEAN /\ v1 \in 0 .. Len(v2) /\ v7 \in BOOLEAN
      /\ r \in DOMAIN v2 /\ r \in 1 .. Len(v2)
  BY DEF Web!IInv, Web!Typed, Web!Placed, Web!Register, WebAssumption
<1>1. v3[t].pc = "register" /\ v2' = v2 /\ v4' = v4 /\ v5' = v5 /\ v6' = v6 /\ v8' = v8
  BY DEF Web!Register
<1>2. PICK pc \in {"start", "read", "panic"} : v3' = [v3 EXCEPT ![t].pc = pc]
  BY DEF Web!Register
<1>3. /\ v3' \in [Task -> Web!TabType] /\ v3'[t].pc = pc /\ v3'[t].room = r
      /\ v3'[t].seen = v3[t].seen /\ v3'[t].alive = v3[t].alive
      /\ \A u \in Task : u # t => v3'[u] = v3[u]
  BY <1>0, <1>2 DEF Web!TabType
<1>4. TabsStay /\ NotesStay
  BY <1>1, <1>3 DEF TabsStay, NotesStay, Web!Inside
<1>5. \A u \in Task : /\ v3'[u].seen = v3[u].seen /\ (v3'[u].pc # "off" => v3[u].pc # "off")
                      /\ v3'[u].pc \notin {"off", "join"} => Web!Inside(u)
  BY <1>1, <1>3 DEF Web!Inside
<1>6. v1' \in 0 .. Len(v2) /\ v7' \in BOOLEAN
  <2>1. v1' = r \/ v1' = v1
    BY DEF Web!Register
  <2>2. v7' = (v7 \/ (v1 = 0 /\ ~ v3[t].primary)) \/ v7' = v7
    BY Zenon DEF Web!Register
  <2>3. (v7 \/ (v1 = 0 /\ ~ v3[t].primary)) \in BOOLEAN
    BY Zenon
  <2>4. v7' \in BOOLEAN
    BY <1>0, <2>2, <2>3, Zenon
  <2> QED
    BY <1>0, <2>1, <2>4
<1>7. Web!ListedIsServed'
  <2> SUFFICES ASSUME ~ v7', v1' # 0
               PROVE  \/ v2'[v1'].writer \in {"run", "stop"}
                      \/ \E u \in Task : v3'[u].room = v1' /\ v3'[u].pc = "start"
    BY DEF Web!ListedIsServed
  <2>1. CASE v1 = 0
    <3>1. v1' = r /\ v3[t].primary /\ v3' = [v3 EXCEPT ![t].pc = "start"]
      BY <2>1 DEF Web!Register
    <3> QED
      BY <1>0, <1>3, <3>1 DEF Web!TabType
  <2>2. CASE v1 # 0
    <3>1. v1' = v1 /\ ~ v7
      BY <2>2 DEF Web!Register
    <3>2. \/ v2[v1].writer \in {"run", "stop"}
          \/ \E u \in Task : v3[u].room = v1 /\ v3[u].pc = "start"
      BY <2>2, <3>1 DEF Web!IInv, Web!ListedIsServed
    <3> QED
      BY <1>1, <1>3, <3>1, <3>2
  <2> QED
    BY <2>1, <2>2
<1>8. TabsOnly
  BY <1>0, <1>1, <1>3, <1>4, <1>5, <1>6 DEF TabsOnly
<1> QED
  BY <1>7, <1>8, WebRoomsKept

(* The connection of a tab is lost, or its loss is noticed. *)
LEMMA WebLost ==
  ASSUME WebAssumption, Web!IInv, ~ v8, NEW t \in Task, Web!ReadFails(t) \/ Web!Break(t)
  PROVE  Web!IInv'
<1>0. /\ v3 \in [Task -> Web!TabType] /\ v3[t] \in Web!TabType /\ v4 \in [Note -> Web!NoteType]
      /\ v5 \in Nat /\ v5 \in v5 .. MaxMsg /\ v8 \in BOOLEAN /\ v1 \in 0 .. Len(v2) /\ v7 \in BOOLEAN
  BY DEF Web!IInv, Web!Typed, WebAssumption
<1>1. v3[t].pc = "read" /\ v1' = v1 /\ v2' = v2 /\ v4' = v4 /\ v5' = v5 /\ v6' = v6 /\ v7' = v7 /\ v8' = v8
  BY DEF Web!ReadFails, Web!Break
<1>2. /\ v3' \in [Task -> Web!TabType] /\ v3'[t].pc \in {"read", "drop"} /\ v3'[t].room = v3[t].room
      /\ v3'[t].seen = v3[t].seen /\ (v3'[t].alive => v3[t].alive)
      /\ \A u \in Task : u # t => v3'[u] = v3[u]
  <2>1. CASE Web!ReadFails(t)
    BY <1>0, <2>1 DEF Web!TabType, Web!ReadFails
  <2>2. CASE Web!Break(t)
    BY <1>0, <2>2 DEF Web!TabType, Web!Break
  <2> QED
    BY <2>1, <2>2
<1>3. TabsStay /\ NotesStay
  BY <1>1, <1>2 DEF TabsStay, NotesStay, Web!Inside
<1>4. \A u \in Task : /\ v3'[u].seen = v3[u].seen /\ (v3'[u].pc # "off" => v3[u].pc # "off")
                      /\ v3[u].pc = "start" => v3'[u].pc = "start"
                      /\ v3'[u].pc \notin {"off", "join"} => Web!Inside(u)
  BY <1>1, <1>2 DEF Web!Inside
<1>5. TabsOnly
  BY <1>0, <1>1, <1>2, <1>3, <1>4 DEF TabsOnly
<1>6. Web!ListedIsServed'
  BY <1>1, <1>3, <1>4 DEF Web!IInv, Web!ListedIsServed, TabsStay
<1> QED
  BY <1>5, <1>6, WebRoomsKept

(* A room becomes q: its goroutines and its channel change, not what is in it. *)
RoomOnly(r, q) ==
  /\ v2' = [v2 EXCEPT ![r] = q] /\ q \in Web!RoomType
  /\ q.send = v2[r].send /\ q.conn = v2[r].conn /\ q.msgs = v2[r].msgs
  /\ v1' \in {v1, 0} /\ v4' = v4 /\ v5' = v5 /\ v6' \in 0 .. MaxClose /\ v7' = v7 /\ v8' = v8
  /\ v3' \in [Task -> Web!TabType]
  /\ \A t \in Task : /\ v3'[t].seen = v3[t].seen /\ v3'[t].room = v3[t].room /\ v3'[t].alive = v3[t].alive
                     /\ v3'[t].pc \in {"off", "join"} <=> v3[t].pc \in {"off", "join"}
                     /\ v3'[t].pc # "off" => v3[t].pc # "off"

LEMMA WebRoomOnly ==
  ASSUME WebAssumption, Web!IInv, NEW r \in DOMAIN v2, NEW q, RoomOnly(r, q), Web!ListedIsServed'
  PROVE  Web!IInv'
<1>0. /\ MaxMsg \in Nat /\ v2 \in Seq(Web!RoomType) /\ v5 \in Nat /\ v5' \in Nat /\ v5 <= v5'
      /\ \A o \in DOMAIN v2 : v2[o] \in Web!RoomType
  BY DEF WebAssumption, Web!IInv, Web!Typed, RoomOnly
<1>1. /\ v2' \in Seq(Web!RoomType) /\ Len(v2') = Len(v2) /\ DOMAIN v2' = DOMAIN v2
      /\ v2'[r] = q /\ \A o \in DOMAIN v2 : o # r => v2'[o] = v2[o]
  BY WebRoomIs DEF Web!IInv, RoomOnly
<1>2. \A o \in DOMAIN v2 : v2'[o].send = v2[o].send /\ v2'[o].conn = v2[o].conn /\ v2'[o].msgs = v2[o].msgs
  BY <1>1 DEF RoomOnly
<1>3. TabsStay /\ NotesStay
  <2>1. TabsStay
    BY DEF RoomOnly, TabsStay, Web!Inside
  <2>2. NotesStay
    BY DEF RoomOnly, NotesStay
  <2> QED
    BY <2>1, <2>2
<1>4. Web!Typed'
  <2>1. v2' \in Seq(Web!RoomType) /\ Len(v2') <= MaxRoom /\ v1' \in 0 .. Len(v2')
    BY <1>1 DEF Web!IInv, Web!Typed, RoomOnly
  <2>2. /\ v4' \in [Note -> Web!NoteType] /\ v5' \in 0 .. MaxMsg /\ v6' \in 0 .. MaxClose /\ v7' \in BOOLEAN
        /\ v8' \in BOOLEAN
    BY <1>0 DEF Web!IInv, Web!Typed, RoomOnly
  <2>3. v3' \in [Task -> Web!TabType] /\ \A t \in Task : Len(v3'[t].seen) <= MaxMsg
    BY DEF Web!IInv, Web!Typed, RoomOnly
  <2> QED
    BY <2>1, <2>2, <2>3 DEF Web!Typed, Web!RoomType, Web!TabType, Web!NoteType, Web!Closure
<1>5. Web!Placed'
  <2>1. \A t \in Task : v3'[t].room = v3[t].room /\ (v3'[t].pc # "off" => v3[t].pc # "off")
    BY DEF RoomOnly
  <2>2. Web!Placed
    BY DEF Web!IInv
  <2> QED
    BY <1>1, <1>3, <2>1, <2>2, PlacedKept, Zenon
<1>6. ASSUME NEW o \in DOMAIN v2 PROVE Web!OfRoom(o)' /\ Web!OnceIn(o)'
  <2>1. v2[o].conn \in SUBSET Task /\ v2[o].msgs \in Seq(1 .. MaxMsg) /\ Web!OfRoom(o) /\ Web!OnceIn(o)
    BY <1>0, <1>6 DEF Web!RoomType, Web!IInv
  <2> QED
    BY <1>0, <1>2, <1>3, <2>1, OfRoomKept, OnceKept
<1>7. ASSUME ~ v8', NEW t \in Task PROVE Web!Listed(t)'
  <2>1. Web!Listed(t)
    BY <1>7 DEF RoomOnly, Web!IInv
  <2>2. v3[t].pc # "off" => v3[t].room \in DOMAIN v2
    BY DEF Web!IInv, Web!Placed
  <2> QED
    BY <1>2, <2>1, <2>2 DEF RoomOnly, Web!Listed, Web!Inside
<1>8. Web!OnceNoted'
  BY <1>0, <1>3, OnceNotedKept DEF Web!IInv
<1>9. Web!TabsInStep'
  <2>1. \A o \in DOMAIN v2 : v2[o].conn \in SUBSET Task
    BY <1>0 DEF Web!RoomType
  <2> QED
    BY <1>1, <1>2, <2>1 DEF Web!IInv, Web!TabsInStep, RoomOnly
<1> QED
  BY <1>1, <1>4, <1>5, <1>6, <1>7, <1>8, <1>9 DEF Web!IInv

LEMMA WebStartPump ==
  ASSUME WebAssumption, Web!IInv, ~ v8, NEW t \in Task, Web!StartPump(t)
  PROVE  Web!IInv'
<1> DEFINE r == v3[t].room
           q == [v2[r] EXCEPT !.writer = "run"]
<1>0. /\ v3 \in [Task -> Web!TabType] /\ v3[t] \in Web!TabType /\ v2 \in Seq(Web!RoomType)
      /\ r \in DOMAIN v2 /\ v2[r] \in Web!RoomType /\ v6 \in 0 .. MaxClose /\ v1 \in 0 .. Len(v2)
  BY DEF Web!IInv, Web!Typed, Web!Placed, Web!StartPump
<1>1. /\ v3[t].pc = "start" /\ v2' = [v2 EXCEPT ![r].writer = "run"] /\ v3' = [v3 EXCEPT ![t].pc = "read"]
      /\ v1' = v1 /\ v4' = v4 /\ v5' = v5 /\ v6' = v6 /\ v7' = v7 /\ v8' = v8
  BY DEF Web!StartPump
<1>2. v2' = [v2 EXCEPT ![r] = q]
  BY <1>0, <1>1 DEF Web!RoomType
<1>3. /\ q \in Web!RoomType /\ q.send = v2[r].send /\ q.conn = v2[r].conn /\ q.msgs = v2[r].msgs
      /\ q.writer = "run"
  BY <1>0 DEF Web!RoomType
<1> HIDE DEF q
<1>4. /\ v3' \in [Task -> Web!TabType] /\ v3'[t].pc = "read" /\ v3'[t].room = r
      /\ v3'[t].seen = v3[t].seen /\ v3'[t].alive = v3[t].alive
      /\ \A u \in Task : u # t => v3'[u] = v3[u]
  BY <1>0, <1>1 DEF Web!TabType
<1>5. RoomOnly(r, q)
  BY <1>0, <1>1, <1>2, <1>3, <1>4 DEF RoomOnly
<1>6. /\ v2'[r] = q /\ \A o \in DOMAIN v2 : o # r => v2'[o] = v2[o]
  BY <1>0, <1>2
<1>7. Web!ListedIsServed'
  <2>1. v1 # 0 => v1 \in DOMAIN v2
    BY <1>0
  <2> QED
    BY <1>1, <1>3, <1>4, <1>6, <2>1 DEF Web!IInv, Web!ListedIsServed
<1> QED
  BY <1>0, <1>5, <1>7, WebRoomOnly

LEMMA WebStopPump ==
  ASSUME WebAssumption, Web!IInv, NEW r \in DOMAIN v2, Web!StopPump(r)
  PROVE  Web!IInv'
<1> DEFINE q == [v2[r] EXCEPT !.writer = "done"]
<1>0. /\ v3 \in [Task -> Web!TabType] /\ v2 \in Seq(Web!RoomType)
      /\ v2[r] \in Web!RoomType /\ v6 \in 0 .. MaxClose /\ v1 \in 0 .. Len(v2)
  BY DEF Web!IInv, Web!Typed
<1>1. /\ v2' = [v2 EXCEPT ![r].writer = "done"] /\ v3' = v3 /\ v1' = IF v1 = r THEN 0 ELSE v1
      /\ v4' = v4 /\ v5' = v5 /\ v6' = v6 /\ v7' = v7 /\ v8' = v8
  BY DEF Web!StopPump, Web!Unlisted
<1>2. v2' = [v2 EXCEPT ![r] = q]
  BY <1>0, <1>1 DEF Web!RoomType
<1>3. q \in Web!RoomType /\ q.send = v2[r].send /\ q.conn = v2[r].conn /\ q.msgs = v2[r].msgs
  BY <1>0 DEF Web!RoomType
<1> HIDE DEF q
<1>4. RoomOnly(r, q)
  BY <1>0, <1>1, <1>2, <1>3 DEF RoomOnly
<1>5. \A o \in DOMAIN v2 : o # r => v2'[o] = v2[o]
  BY <1>0, <1>2
<1>6. Web!ListedIsServed'
  <2>1. v1 # 0 => v1 \in DOMAIN v2
    BY <1>0
  <2> QED
    BY <1>1, <1>5, <2>1 DEF Web!IInv, Web!ListedIsServed
<1> QED
  BY <1>4, <1>6, WebRoomOnly

LEMMA WebClose ==
  ASSUME WebAssumption, Web!IInv, Web!Close
  PROVE  Web!IInv'
<1> DEFINE q == [v2[v1] EXCEPT !.shut = TRUE]
<1>0. /\ v3 \in [Task -> Web!TabType] /\ v2 \in Seq(Web!RoomType) /\ v1 \in DOMAIN v2
      /\ v2[v1] \in Web!RoomType /\ v6 \in 0 .. MaxClose
  BY DEF Web!IInv, Web!Typed, Web!Close
<1>1. /\ v2' = [v2 EXCEPT ![v1].shut = TRUE] /\ v3' = v3 /\ v1' = v1 /\ v6 < MaxClose /\ v6' = v6 + 1
      /\ v4' = v4 /\ v5' = v5 /\ v7' = v7 /\ v8' = v8
  BY DEF Web!Close
<1>2. v2' = [v2 EXCEPT ![v1] = q]
  BY <1>0, <1>1 DEF Web!RoomType
<1>3. /\ q \in Web!RoomType /\ q.send = v2[v1].send /\ q.conn = v2[v1].conn /\ q.msgs = v2[v1].msgs
      /\ q.writer = v2[v1].writer
  BY <1>0 DEF Web!RoomType
<1> HIDE DEF q
<1>4. v6' \in 0 .. MaxClose
  BY <1>0, <1>1, WebAssumption
<1>5. RoomOnly(v1, q)
  BY <1>0, <1>1, <1>2, <1>3, <1>4 DEF RoomOnly
<1>6. v2'[v1] = q
  BY <1>0, <1>2
<1>7. Web!ListedIsServed'
  BY <1>1, <1>3, <1>6 DEF Web!IInv, Web!ListedIsServed
<1> QED
  BY <1>0, <1>5, <1>7, WebRoomOnly

LEMMA WebSendNotify ==
  ASSUME WebAssumption, Web!IInv, NEW k \in Note, NEW text \in BOOLEAN, NEW closing \in BOOLEAN,
         Web!SendNotify(k, text, closing)
  PROVE  Web!IInv'
<1>0. /\ v4 \in [Note -> Web!NoteType] /\ v2 \in Seq(Web!RoomType) /\ v1 \in DOMAIN v2 /\ v1 \in 0 .. MaxRoom
      /\ v5 \in Nat /\ MaxMsg \in Nat /\ \A o \in DOMAIN v2 : v2[o] \in Web!RoomType
  BY DEF Web!IInv, Web!Typed, Web!SendNotify, WebAssumption
<1>1. /\ v1' = v1 /\ v2' = v2 /\ v3' = v3 /\ v6' = v6 /\ v7' = v7 /\ v8' = v8
      /\ v5' = IF text THEN v5 + 1 ELSE v5
      /\ text => v5 < MaxMsg
  BY DEF Web!SendNotify
<1>2. PICK x : /\ v4' = [v4 EXCEPT ![k] = x]
               /\ x = [pc |-> IF text THEN "text" ELSE "bye", room |-> v1, closing |-> closing,
                       m |-> IF text THEN v5 + 1 ELSE 0]
  BY DEF Web!SendNotify
<1>3. x \in Web!NoteType /\ x.room = v1 /\ (x.pc = "text" => text /\ x.m = v5 + 1)
  BY <1>0, <1>1, <1>2 DEF Web!NoteType
<1>4. v4' \in [Note -> Web!NoteType] /\ v4'[k] = x /\ \A l \in Note : l # k => v4'[l] = v4[l]
  BY <1>0, <1>2, <1>3
<1>5. v5' \in 0 .. MaxMsg /\ v5 <= v5' /\ (x.pc = "text" => v5' = v5 + 1)
  BY <1>0, <1>1, <1>3 DEF Web!IInv, Web!Typed
<1>6. Web!Typed'
  BY <1>1, <1>4, <1>5
     DEF Web!IInv, Web!Typed, Web!RoomType, Web!TabType, Web!NoteType, Web!Closure
<1>7. Web!Placed'
  BY <1>0, <1>1, <1>3, <1>4 DEF Web!IInv, Web!Placed
<1>8. ASSUME NEW r \in DOMAIN v2 PROVE Web!OfRoom(r)' /\ Web!OnceIn(r)'
  <2>1. Web!OfRoom(r)'
    BY <1>1 DEF Web!IInv, Web!OfRoom, Web!Inside, Web!Closure
  <2>2. Web!OnceIn(r) /\ v2[r].msgs \in Seq(1 .. MaxMsg)
    BY <1>0 DEF Web!IInv, Web!RoomType
  <2>3. \A i \in DOMAIN v2[r].msgs : v2[r].msgs[i] \in Nat /\ v2[r].msgs[i] <= v5
    BY <1>0, <2>2 DEF Web!OnceIn
  <2>4. ASSUME NEW c \in Web!Closure, v2[r].send = <<c>>, c.m # 0
        PROVE  c.m \in Nat /\ c.m <= v5 /\ ~ Web!In(c.m, r)
    BY <1>0, <2>2, <2>4 DEF Web!OnceIn, Web!Closure
  <2>5. ASSUME NEW l \in Note, v4'[l].pc = "text"
        PROVE  ~ Web!In(v4'[l].m, r) /\ \A c \in Web!Closure : v2[r].send = <<c>> => c.m # v4'[l].m
    <3>1. CASE l = k
      <4>1. v4'[l].m = v5 + 1
        BY <1>3, <1>4, <2>5, <3>1
      <4>2. ~ Web!In(v5 + 1, r)
        BY <1>0, <2>3 DEF Web!In
      <4>3. \A c \in Web!Closure : v2[r].send = <<c>> => c.m # v5 + 1
        BY <1>0, <2>4
      <4> QED
        BY <4>1, <4>2, <4>3
    <3>2. CASE l # k
      BY <1>4, <2>2, <2>5, <3>2 DEF Web!OnceIn
    <3> QED
      BY <3>1, <3>2
  <2>6. \A i \in DOMAIN v2[r].msgs : v2[r].msgs[i] <= v5'
    BY <1>0, <1>5, <2>3
  <2>7. \A c \in Web!Closure : v2[r].send = <<c>> /\ c.m # 0 => c.m <= v5' /\ ~ Web!In(c.m, r)
    BY <1>0, <1>5, <2>4
  <2>8. Web!OnceIn(r)'
    BY <1>1, <2>2, <2>5, <2>6, <2>7 DEF Web!OnceIn, Web!In, Web!Closure
  <2> QED
    BY <2>1, <2>8
<1>9. ASSUME ~ v8', NEW t \in Task PROVE Web!Listed(t)'
  BY <1>1, <1>9 DEF Web!IInv, Web!Listed, Web!Inside
<1>10. Web!OnceNoted'
  <2>1. ASSUME NEW l \in Note, v4'[l].pc = "text"
        PROVE  v4'[l].m \in 1 .. v5' /\ (l # k => v4'[l].m <= v5)
    BY <1>0, <1>3, <1>4, <1>5, <2>1 DEF Web!IInv, Web!OnceNoted
  <2>2. ASSUME NEW l \in Note, NEW j \in Note, v4'[l].pc = "text", v4'[j].pc = "text", v4'[l].m = v4'[j].m
        PROVE  l = j
    <3>1. CASE l = k \/ j = k
      BY <1>0, <1>3, <1>4, <2>1, <2>2, <3>1
    <3>2. CASE l # k /\ j # k
      BY <1>4, <2>2, <3>2 DEF Web!IInv, Web!OnceNoted
    <3> QED
      BY <3>1, <3>2
  <2> QED
    BY <2>1, <2>2 DEF Web!OnceNoted
<1>11. Web!TabsInStep' /\ Web!ListedIsServed'
  BY <1>1 DEF Web!IInv, Web!TabsInStep, Web!ListedIsServed
<1> QED
  BY <1>1, <1>6, <1>7, <1>8, <1>9, <1>10, <1>11 DEF Web!IInv

LEMMA WebOpen ==
  ASSUME WebAssumption, Web!IInv, ~ v8, NEW t \in Task, Web!Open(t)
  PROVE  Web!IInv'
<1> DEFINE r == IF v1 = 0 THEN Len(v2) + 1 ELSE v1
<1>0. /\ v3 \in [Task -> Web!TabType] /\ v3[t] \in Web!TabType /\ v2 \in Seq(Web!RoomType) /\ v1 \in 0 .. Len(v2)
      /\ v5 \in Nat /\ MaxMsg \in Nat /\ MaxRoom \in Nat /\ \A o \in DOMAIN v2 : v2[o] \in Web!RoomType
      /\ Web!NewRoom \in Web!RoomType /\ DOMAIN v2 = 1 .. Len(v2)
  <2>1. v3 \in [Task -> Web!TabType] /\ v2 \in Seq(Web!RoomType) /\ v1 \in 0 .. Len(v2) /\ v5 \in 0 .. MaxMsg
    BY DEF Web!IInv, Web!Typed
  <2>2. Web!NewRoom \in Web!RoomType
    BY DEF Web!NewRoom, Web!RoomType
  <2> QED
    BY <2>1, <2>2, WebAssumption
<1>1. /\ v3[t].pc = "off" /\ r <= MaxRoom /\ v2' = IF v1 = 0 THEN Append(v2, Web!NewRoom) ELSE v2
      /\ v3' = [v3 EXCEPT ![t].pc = "join", ![t].room = r, ![t].alive = TRUE]
      /\ v1' = v1 /\ v4' = v4 /\ v5' = v5 /\ v6' = v6 /\ v7' = v7 /\ v8' = v8
  BY DEF Web!Open
<1>2. /\ v2' \in Seq(Web!RoomType) /\ r \in DOMAIN v2' /\ r \in 0 .. MaxRoom /\ Len(v2') <= MaxRoom
      /\ \A o \in DOMAIN v2 : o \in DOMAIN v2' /\ v2'[o] = v2[o]
      /\ \A o \in DOMAIN v2' : o \notin DOMAIN v2 => v2'[o] = Web!NewRoom
      /\ v1 \in 0 .. Len(v2')
  <2>1. Len(v2) <= MaxRoom
    BY DEF Web!IInv, Web!Typed
  <2>2. CASE v1 = 0
    <3>1. v2' = Append(v2, Web!NewRoom) /\ r = Len(v2) + 1
      BY <1>1, <2>2
    <3>2. /\ v2' \in Seq(Web!RoomType) /\ Len(v2') = Len(v2) + 1 /\ DOMAIN v2' = 1 .. Len(v2) + 1
          /\ \A o \in 1 .. Len(v2) : v2'[o] = v2[o]
          /\ v2'[Len(v2) + 1] = Web!NewRoom
      BY <1>0, <3>1
    <3> QED
      BY <1>0, <1>1, <2>2, <3>1, <3>2
  <2>3. CASE v1 # 0
    BY <1>0, <1>1, <2>1, <2>3
  <2> QED
    BY <2>2, <2>3
<1> HIDE DEF r
<1>3. /\ v3' \in [Task -> Web!TabType] /\ v3'[t].pc = "join" /\ v3'[t].room = r /\ v3'[t].seen = v3[t].seen
      /\ \A u \in Task : u # t => v3'[u] = v3[u]
  BY <1>0, <1>1, <1>2 DEF Web!TabType
<1>4. Web!Typed'
  <2>1. \A u \in Task : Len(v3'[u].seen) <= MaxMsg
    BY <1>3 DEF Web!IInv, Web!Typed
  <2>2. /\ v4 \in [Note -> Web!NoteType] /\ v5 \in 0 .. MaxMsg /\ v6 \in 0 .. MaxClose /\ v7 \in BOOLEAN
        /\ v8 \in BOOLEAN
    BY DEF Web!IInv, Web!Typed
  <2> QED
    BY <1>1, <1>2, <1>3, <2>1, <2>2 DEF Web!Typed, Web!RoomType, Web!TabType, Web!NoteType, Web!Closure
<1>5. Web!Placed'
  BY <1>1, <1>2, <1>3 DEF Web!IInv, Web!Placed
<1>6. ASSUME NEW o \in DOMAIN v2' PROVE Web!OfRoom(o)' /\ Web!OnceIn(o)'
  <2>1. CASE o \in DOMAIN v2
    <3>1. Web!OfRoom(o) /\ Web!OnceIn(o) /\ v2'[o] = v2[o] /\ v2[o] \in Web!RoomType
      BY <1>0, <1>2, <2>1 DEF Web!IInv
    <3>2. \A u \in Task : Web!Inside(u) => u # t
      BY <1>1 DEF Web!Inside
    <3>3. ASSUME NEW c \in Web!Closure, v2[o].send = <<c>>, c.op \in {"info", "reply", "remove"}
          PROVE  v3'[c.tab].room = o /\ v3'[c.tab].pc \notin {"off", "join"} /\ (c.op = "remove" => ~ v3'[c.tab].alive)
      <4>1. c.tab \in Task
        BY <3>3 DEF Web!Closure
      <4>2. v3[c.tab].room = o /\ Web!Inside(c.tab) /\ (c.op = "remove" => ~ v3[c.tab].alive)
        BY <3>1, <3>3 DEF Web!OfRoom
      <4> QED
        BY <1>3, <3>2, <4>1, <4>2 DEF Web!Inside
    <3>4. \A u \in v2[o].conn : v3'[u].room = o /\ v3'[u].pc \notin {"off", "join"}
      BY <1>3, <3>1, <3>2 DEF Web!OfRoom, Web!Inside, Web!RoomType
    <3>5. Web!OfRoom(o)'
      BY <3>1, <3>3, <3>4 DEF Web!OfRoom, Web!Inside, Web!Closure
    <3>6. Web!OnceIn(o)'
      BY <1>1, <3>1 DEF Web!OnceIn, Web!In, Web!Closure
    <3> QED
      BY <3>5, <3>6
  <2>2. CASE o \notin DOMAIN v2
    <3>1. v2'[o].send = <<>> /\ v2'[o].conn = {} /\ v2'[o].msgs = <<>>
      BY <1>2, <2>2 DEF Web!NewRoom
    <3>2. \A c : <<>> # <<c>>
      OBVIOUS
    <3>3. DOMAIN v2'[o].msgs = {}
      BY <3>1
    <3>4. Web!OfRoom(o)'
      BY <3>1, <3>2, Zenon DEF Web!OfRoom
    <3>5. Web!OnceIn(o)'
      BY <3>1, <3>2, <3>3, Zenon DEF Web!OnceIn, Web!In
    <3> QED
      BY <3>4, <3>5
  <2> QED
    BY <2>1, <2>2
<1>7. ASSUME ~ v8', NEW u \in Task PROVE Web!Listed(u)'
  <2>1. CASE u = t
    BY <1>3, <2>1 DEF Web!Listed, Web!Inside
  <2>2. CASE u # t
    <3>1. Web!Listed(u) /\ (v3[u].pc # "off" => v3[u].room \in DOMAIN v2)
      BY <1>1, <1>7 DEF Web!IInv, Web!Placed
    <3> QED
      BY <1>2, <1>3, <2>2, <3>1 DEF Web!Listed, Web!Inside
  <2> QED
    BY <2>1, <2>2
<1>8. Web!OnceNoted'
  BY <1>1 DEF Web!IInv, Web!OnceNoted
<1>9. Web!TabsInStep'
  <2> SUFFICES ASSUME NEW o \in DOMAIN v2', NEW u \in v2'[o].conn, v3'[u].alive
               PROVE  v3'[u].seen = v2'[o].msgs
    BY DEF Web!TabsInStep
  <2>1. o \in DOMAIN v2 /\ v2'[o] = v2[o] /\ u \in Task
    <3>1. o \in DOMAIN v2
      BY <1>2 DEF Web!NewRoom
    <3>2. v2'[o] = v2[o] /\ v2[o].conn \in SUBSET Task
      BY <1>0, <1>2, <3>1 DEF Web!RoomType
    <3> QED
      BY <3>1, <3>2
  <2>2. Web!Inside(u)
    BY <2>1 DEF Web!IInv, Web!OfRoom
  <2>3. u # t
    BY <1>1, <2>2 DEF Web!Inside
  <2> QED
    BY <1>3, <2>1, <2>3 DEF Web!IInv, Web!TabsInStep
<1>10. Web!ListedIsServed'
  <2>1. v1 # 0 => v1 \in DOMAIN v2
    BY <1>0
  <2> QED
    BY <1>1, <1>2, <1>3, <2>1 DEF Web!IInv, Web!ListedIsServed
<1> QED
  BY <1>4, <1>5, <1>6, <1>7, <1>8, <1>9, <1>10 DEF Web!IInv

(***************************************************************************)
(* One turn of writePump: room r becomes q, with the closure of the slot   *)
(* done or the slot as it was.  Whoever stays listed and connected has     *)
(* seen the history of q.                                                  *)
(***************************************************************************)
TurnTo(r, q) ==
  /\ v2[r].writer = "run" /\ v2' = [v2 EXCEPT ![r] = q] /\ q \in Web!RoomType
  /\ q.writer \in {"run", "stop"} /\ q.send \in {v2[r].send, <<>>}
  /\ \A t \in q.conn : v3[t].room = r /\ Web!Inside(t) /\ (v3'[t].alive => v3'[t].seen = q.msgs)
  /\ \/ q.msgs = v2[r].msgs
     \/ \E c \in Web!Closure : v2[r].send = <<c>> /\ c.m # 0 /\ q.msgs = Append(v2[r].msgs, c.m) /\ q.send = <<>>
  /\ v1' = v1 /\ v4' = v4 /\ v5' = v5 /\ v6' = v6 /\ v7' = v7 /\ v8' = v8
  /\ v3' \in [Task -> Web!TabType]
  /\ \A t \in Task :
       /\ v3'[t].room = v3[t].room /\ v3'[t].pc = v3[t].pc /\ (v3'[t].alive => v3[t].alive)
       /\ v3'[t].seen \in {v3[t].seen, q.msgs} /\ (v3[t].room # r => v3'[t].seen = v3[t].seen)
       /\ v3'[t].alive /\ Web!Inside(t) /\ v3[t].room = r =>
            t \in q.conn \/ q.send = <<[op |-> "info", tab |-> t, m |-> 0]>>

LEMMA TurnOnce ==
  ASSUME WebAssumption, Web!IInv, NEW r \in DOMAIN v2, NEW q, TurnTo(r, q)
  PROVE  /\ \A k \in DOMAIN q.msgs : q.msgs[k] <= v5
         /\ \A k, l \in DOMAIN q.msgs : q.msgs[k] = q.msgs[l] => k = l
         /\ Len(q.msgs) <= MaxMsg
         /\ \A k \in Note : v4[k].pc = "text" => \A i \in DOMAIN q.msgs : q.msgs[i] # v4[k].m
<1>0. /\ v2[r] \in Web!RoomType /\ Web!OnceIn(r) /\ q.msgs \in Seq(1 .. MaxMsg) /\ MaxMsg \in Nat
      /\ v5 \in 0 .. MaxMsg /\ v2[r].msgs \in Seq(1 .. MaxMsg)
  <2>1. v2 \in Seq(Web!RoomType) /\ v5 \in 0 .. MaxMsg /\ Web!OnceIn(r) /\ q \in Web!RoomType
    BY DEF Web!IInv, Web!Typed, TurnTo
  <2>2. v2[r] \in Web!RoomType
    BY <2>1
  <2> QED
    BY <2>1, <2>2, WebAssumption DEF Web!RoomType
<1> DEFINE Fine == /\ \A k \in DOMAIN q.msgs : q.msgs[k] <= v5
                   /\ \A k, l \in DOMAIN q.msgs : q.msgs[k] = q.msgs[l] => k = l
                   /\ \A k \in Note : v4[k].pc = "text" => \A i \in DOMAIN q.msgs : q.msgs[i] # v4[k].m
<1>1. Fine
  <2>1. CASE q.msgs = v2[r].msgs
    BY <1>0, <2>1 DEF Web!OnceIn, Web!In
  <2>2. ASSUME NEW c \in Web!Closure, v2[r].send = <<c>>, c.m # 0, q.msgs = Append(v2[r].msgs, c.m)
        PROVE  Fine
    <3>1. /\ c.m <= v5 /\ \A k \in DOMAIN v2[r].msgs : v2[r].msgs[k] # c.m
          /\ \A k \in Note : v4[k].pc = "text" => c.m # v4[k].m
      BY <1>0, <2>2 DEF Web!OnceIn, Web!In
    <3>2. /\ DOMAIN q.msgs = 1 .. Len(v2[r].msgs) + 1 /\ q.msgs[Len(v2[r].msgs) + 1] = c.m
          /\ \A k \in DOMAIN v2[r].msgs : q.msgs[k] = v2[r].msgs[k]
          /\ DOMAIN v2[r].msgs = 1 .. Len(v2[r].msgs) /\ Len(v2[r].msgs) \in Nat
      BY <1>0, <2>2 DEF Web!Closure
    <3>3. \A k \in DOMAIN q.msgs : k \in DOMAIN v2[r].msgs \/ k = Len(v2[r].msgs) + 1
      BY <3>2
    <3>4. \A k \in DOMAIN q.msgs : q.msgs[k] <= v5
      BY <1>0, <3>1, <3>2, <3>3 DEF Web!OnceIn
    <3>5. ASSUME NEW k \in DOMAIN q.msgs, NEW l \in DOMAIN q.msgs, q.msgs[k] = q.msgs[l] PROVE k = l
      BY <1>0, <3>1, <3>2, <3>3, <3>5 DEF Web!OnceIn
    <3>6. ASSUME NEW k \in Note, v4[k].pc = "text", NEW i \in DOMAIN q.msgs PROVE q.msgs[i] # v4[k].m
      <4>1. \A l \in DOMAIN v2[r].msgs : v2[r].msgs[l] # v4[k].m
        BY <1>0, <3>6 DEF Web!OnceIn, Web!In
      <4> QED
        BY <3>1, <3>2, <3>3, <3>6, <4>1
    <3> QED
      BY <3>4, <3>5, <3>6
  <2> QED
    BY <2>1, <2>2 DEF TurnTo
<1>2. \A k \in DOMAIN q.msgs : q.msgs[k] \in 1 .. v5
  BY <1>0, <1>1
<1>3. Len(q.msgs) <= v5
  <2>1. v5 \in Nat
    BY <1>0
  <2> QED
    BY <1>0, <1>1, <1>2, <2>1, NoLongerThan
<1>4. v5 <= MaxMsg /\ Len(q.msgs) \in Nat /\ v5 \in Nat
  BY <1>0
<1> QED
  BY <1>0, <1>1, <1>3, <1>4

LEMMA WebTurned ==
  ASSUME WebAssumption, Web!IInv, ~ v8, NEW r \in DOMAIN v2, NEW q, TurnTo(r, q)
  PROVE  Web!IInv'
<1>0. /\ v2 \in Seq(Web!RoomType) /\ \A o \in DOMAIN v2 : v2[o] \in Web!RoomType
      /\ MaxMsg \in Nat /\ v5 \in Nat /\ v5' \in Nat /\ v5 <= v5' /\ v5' = v5 /\ v1 \in 0 .. Len(v2)
  BY DEF WebAssumption, Web!IInv, Web!Typed, TurnTo
<1>1. q \in Web!RoomType /\ v2' = [v2 EXCEPT ![r] = q]
  BY DEF TurnTo
<1>2. /\ v2' \in Seq(Web!RoomType) /\ Len(v2') = Len(v2) /\ DOMAIN v2' = DOMAIN v2
      /\ v2'[r] = q /\ \A o \in DOMAIN v2 : o # r => v2'[o] = v2[o]
  BY <1>1, WebRoomIs DEF Web!IInv
<1>3. TabsStay /\ NotesStay
  BY DEF TurnTo, TabsStay, NotesStay, Web!Inside
<1>4. Web!Typed'
  <2>1. v2' \in Seq(Web!RoomType) /\ Len(v2') <= MaxRoom /\ v1' \in 0 .. Len(v2')
    BY <1>2 DEF Web!IInv, Web!Typed, TurnTo
  <2>2. /\ v5' \in 0 .. MaxMsg /\ v6' \in 0 .. MaxClose /\ v7' \in BOOLEAN /\ v8' \in BOOLEAN
        /\ v3' \in [Task -> Web!TabType] /\ v4' \in [Note -> Web!NoteType]
    BY <1>0 DEF Web!IInv, Web!Typed, TurnTo
  <2>3. ASSUME NEW t \in Task PROVE Len(v3'[t].seen) <= MaxMsg
    <3>1. v3'[t].seen \in {v3[t].seen, q.msgs}
      BY DEF TurnTo
    <3>2. Len(q.msgs) <= MaxMsg
      BY TurnOnce
    <3> QED
      BY <3>1, <3>2 DEF Web!IInv, Web!Typed
  <2> QED
    BY <2>1, <2>2, <2>3 DEF Web!Typed, Web!RoomType, Web!TabType, Web!NoteType, Web!Closure
<1>5. Web!Placed'
  <2>1. \A t \in Task : v3'[t].room = v3[t].room /\ (v3'[t].pc # "off" => v3[t].pc # "off")
    BY DEF TurnTo
  <2>2. Web!Placed
    BY DEF Web!IInv
  <2> QED
    BY <1>2, <1>3, <2>1, <2>2, PlacedKept, Zenon
<1>6. ASSUME NEW o \in DOMAIN v2, o # r PROVE Web!OfRoom(o)' /\ Web!OnceIn(o)'
  <2>1. v2[o].conn \in SUBSET Task /\ v2[o].msgs \in Seq(1 .. MaxMsg) /\ Web!OfRoom(o) /\ Web!OnceIn(o)
    BY <1>0, <1>6 DEF Web!RoomType, Web!IInv
  <2>2. v2'[o] = v2[o]
    BY <1>2, <1>6
  <2> QED
    BY <1>0, <1>3, <2>1, <2>2, OfRoomKept, OnceKept
<1>7. Web!OfRoom(r)'
  <2>1. Web!OfRoom(r) /\ q.send \in {v2[r].send, <<>>}
    BY DEF Web!IInv, TurnTo
  <2>2. ASSUME NEW d \in Web!Closure, q.send = <<d>>, d.op \in {"info", "reply", "remove"}
        PROVE  v3'[d.tab].room = r /\ v3'[d.tab].pc \notin {"off", "join"} /\ (d.op = "remove" => ~ v3'[d.tab].alive)
    <3>1. v2[r].send = <<d>> /\ d.tab \in Task
      BY <2>1, <2>2 DEF Web!Closure
    <3>2. v3[d.tab].room = r /\ Web!Inside(d.tab) /\ (d.op = "remove" => ~ v3[d.tab].alive)
      BY <2>1, <2>2, <3>1 DEF Web!OfRoom
    <3> QED
      BY <1>3, <3>1, <3>2 DEF TabsStay
  <2>3. ASSUME NEW t \in q.conn PROVE v3'[t].room = r /\ v3'[t].pc \notin {"off", "join"}
    <3>1. t \in Task
      BY <1>1 DEF Web!RoomType
    <3> QED
      BY <3>1 DEF TurnTo, Web!Inside
  <2> QED
    BY <1>2, <2>2, <2>3 DEF Web!OfRoom, Web!Inside, Web!Closure
<1>8. Web!OnceIn(r)'
  <2>1. Web!OnceIn(r) /\ q.send \in {v2[r].send, <<>>} /\ v4' = v4 /\ v2[r] \in Web!RoomType
    BY <1>0 DEF Web!IInv, TurnTo
  <2>2. /\ \A k \in DOMAIN q.msgs : q.msgs[k] <= v5
        /\ \A k, l \in DOMAIN q.msgs : q.msgs[k] = q.msgs[l] => k = l
        /\ \A k \in Note : v4[k].pc = "text" => \A i \in DOMAIN q.msgs : q.msgs[i] # v4[k].m
    BY TurnOnce
  <2>3. ASSUME NEW d \in Web!Closure, q.send = <<d>>
        PROVE  /\ d.m # 0 => d.m <= v5 /\ ~ \E k \in DOMAIN q.msgs : q.msgs[k] = d.m
               /\ \A k \in Note : v4[k].pc = "text" => d.m # v4[k].m
    <3>1. v2[r].send = <<d>> /\ q.send # <<>>
      BY <2>1, <2>3
    <3>2. q.msgs = v2[r].msgs
      BY <3>1, Zenon DEF TurnTo
    <3> QED
      BY <2>1, <3>1, <3>2, Zenon DEF Web!OnceIn, Web!In
  <2> QED
    BY <1>0, <1>2, <2>1, <2>2, <2>3 DEF Web!OnceIn, Web!In, Web!Closure
<1>9. ASSUME NEW t \in Task PROVE Web!Listed(t)'
  <2> SUFFICES ASSUME v3'[t].alive, v3'[t].pc \notin {"off", "join"}
               PROVE  \/ t \in v2'[v3'[t].room].conn
                      \/ v2'[v3'[t].room].send = <<[op |-> "info", tab |-> t, m |-> 0]>>
    BY DEF Web!Listed, Web!Inside
  <2>1. v3'[t].room = v3[t].room /\ v3[t].alive /\ Web!Inside(t)
    BY DEF TurnTo, Web!Inside
  <2>2. v3[t].room \in DOMAIN v2 /\ Web!Listed(t)
    BY <2>1 DEF Web!Inside, Web!IInv, Web!Placed
  <2>3. CASE v3[t].room = r
    BY <1>2, <2>1, <2>3 DEF TurnTo
  <2>4. CASE v3[t].room # r
    BY <1>2, <2>1, <2>2, <2>4 DEF Web!Listed
  <2> QED
    BY <2>3, <2>4
<1>10. Web!OnceNoted'
  BY <1>0, <1>3, OnceNotedKept DEF Web!IInv
<1>11. Web!TabsInStep'
  <2> SUFFICES ASSUME NEW o \in DOMAIN v2, NEW t \in v2'[o].conn, v3'[t].alive
               PROVE  v3'[t].seen = v2'[o].msgs
    BY <1>2 DEF Web!TabsInStep
  <2>1. CASE o = r
    BY <1>2, <2>1 DEF TurnTo
  <2>2. CASE o # r
    <3>1. v2'[o] = v2[o] /\ t \in Task
      BY <1>0, <1>2, <2>2 DEF Web!RoomType
    <3>2. v3[t].room = o
      BY <3>1 DEF Web!IInv, Web!OfRoom
    <3>3. v3'[t].seen = v3[t].seen /\ v3[t].alive
      BY <2>2, <3>1, <3>2 DEF TurnTo
    <3> QED
      BY <3>1, <3>3 DEF Web!IInv, Web!TabsInStep
  <2> QED
    BY <2>1, <2>2
<1>12. Web!ListedIsServed'
  <2>1. v1 # 0 => v1 \in DOMAIN v2
    BY <1>0
  <2>2. q.writer \in {"run", "stop"} /\ v1' = v1 /\ v7' = v7
    BY DEF TurnTo
  <2>3. \A t \in Task : v3'[t].room = v3[t].room /\ v3'[t].pc = v3[t].pc
    BY DEF TurnTo
  <2>4. Web!ListedIsServed
    BY DEF Web!IInv
  <2> QED
    BY <1>2, <2>1, <2>2, <2>3, <2>4 DEF Web!ListedIsServed
<1> QED
  BY <1>2, <1>4, <1>5, <1>6, <1>7, <1>8, <1>9, <1>10, <1>11, <1>12 DEF Web!IInv

(* The room r with its slot taken out, and after a turn that made it rm. *)
Taken(r) == [v2[r] EXCEPT !.send = <<>>]
After(rm) == [rm EXCEPT !.writer = IF Web!Ends(rm) THEN "stop" ELSE @]

LEMMA AfterIs ==
  ASSUME NEW rm \in Web!RoomType, rm.writer = "run"
  PROVE  /\ After(rm) \in Web!RoomType /\ After(rm).writer \in {"run", "stop"}
         /\ After(rm).send = rm.send /\ After(rm).conn = rm.conn /\ After(rm).msgs = rm.msgs
BY DEF After, Web!RoomType

(* A turn of room r that ends as q: what is left to show. *)
LEMMA TurnIs ==
  ASSUME WebAssumption, Web!IInv, NEW r \in DOMAIN v2, v2[r].writer = "run",
         NEW rm \in Web!RoomType, rm.writer = "run", Web!Turn(r, rm), rm.send \in {v2[r].send, <<>>},
         \/ rm.msgs = v2[r].msgs
         \/ \E c \in Web!Closure : v2[r].send = <<c>> /\ c.m # 0 /\ rm.msgs = Append(v2[r].msgs, c.m) /\ rm.send = <<>>,
         \A t \in rm.conn : v3[t].room = r /\ Web!Inside(t) /\ (v3'[t].alive => v3'[t].seen = rm.msgs),
         v1' = v1, v4' = v4, v5' = v5, v6' = v6, v7' = v7, v8' = v8,
         v3' \in [Task -> Web!TabType],
         \A t \in Task :
           /\ v3'[t].room = v3[t].room /\ v3'[t].pc = v3[t].pc /\ (v3'[t].alive => v3[t].alive)
           /\ v3'[t].seen \in {v3[t].seen, rm.msgs} /\ (v3[t].room # r => v3'[t].seen = v3[t].seen)
           /\ v3'[t].alive /\ Web!Inside(t) /\ v3[t].room = r =>
                t \in rm.conn \/ rm.send = <<[op |-> "info", tab |-> t, m |-> 0]>>
  PROVE  TurnTo(r, After(rm))
<1>1. v2' = [v2 EXCEPT ![r] = After(rm)]
  BY DEF Web!Turn, After
<1> QED
  BY <1>1, AfterIs DEF TurnTo

LEMMA TabsWhole ==
  ASSUME Web!IInv, NEW t \in Task
  PROVE  v3 \in [Task -> Web!TabType] /\ v3[t] \in Web!TabType
BY DEF Web!IInv, Web!Typed

LEMMA RoomWhole ==
  ASSUME Web!IInv, NEW r \in DOMAIN v2
  PROVE  v2[r] \in Web!RoomType /\ Web!OfRoom(r) /\ v2[r].conn \in SUBSET Task
<1>1. v2 \in Seq(Web!RoomType) /\ Web!OfRoom(r)
  BY DEF Web!IInv, Web!Typed
<1>2. v2[r] \in Web!RoomType
  BY <1>1
<1> QED
  BY <1>1, <1>2 DEF Web!RoomType

(* Nobody is told the history and nothing is said: connections of the room go, with those who are cut off. *)
LEMMA WebGone ==
  ASSUME WebAssumption, Web!IInv, ~ v8, NEW r \in DOMAIN v2, v2[r].writer = "run",
         NEW rm \in Web!RoomType, rm.writer = "run", Web!Turn(r, rm), rm.send \in {v2[r].send, <<>>},
         rm.msgs = v2[r].msgs, rm.conn \subseteq v2[r].conn,
         v1' = v1, v4' = v4, v5' = v5, v6' = v6, v7' = v7, v8' = v8,
         NEW s, v3' = Web!HangUp(s),
         \A t \in v2[r].conn : v3[t].alive => t \in s \/ t \in rm.conn,
         \A t \in Task : v2[r].send = <<[op |-> "info", tab |-> t, m |-> 0]>> =>
           rm.send = <<[op |-> "info", tab |-> t, m |-> 0]>>
  PROVE  Web!IInv'
<1>0. v3 \in [Task -> Web!TabType] /\ \A t \in Task : v3[t] \in Web!TabType
  BY DEF Web!IInv, Web!Typed
<1>1. /\ v3' \in [Task -> Web!TabType]
      /\ \A t \in Task : /\ v3'[t].room = v3[t].room /\ v3'[t].pc = v3[t].pc /\ v3'[t].seen = v3[t].seen
                         /\ v3'[t].alive => v3[t].alive /\ t \notin s
  BY <1>0 DEF Web!HangUp, Web!TabType
<1>2. v2[r].conn \in SUBSET Task /\ Web!OfRoom(r)
  BY RoomWhole
<1>3. \A t \in rm.conn : v3[t].room = r /\ Web!Inside(t) /\ (v3'[t].alive => v3'[t].seen = rm.msgs)
  BY <1>1, <1>2 DEF Web!OfRoom, Web!IInv, Web!TabsInStep
<1>4. ASSUME NEW t \in Task, v3'[t].alive, Web!Inside(t), v3[t].room = r
      PROVE  t \in rm.conn \/ rm.send = <<[op |-> "info", tab |-> t, m |-> 0]>>
  <2>1. Web!Listed(t) /\ v3[t].alive
    BY <1>1, <1>4 DEF Web!IInv
  <2> QED
    BY <1>1, <1>4, <2>1 DEF Web!Listed
<1>5. TurnTo(r, After(rm))
  BY <1>1, <1>3, <1>4, TurnIs
<1> QED
  BY <1>5, WebTurned

LEMMA NobodyHangs ==
  ASSUME Web!IInv, v3' = v3
  PROVE  v3' = Web!HangUp({})
<1>1. v3 \in [Task -> Web!TabType]
  BY DEF Web!IInv, Web!Typed
<1> QED
  BY <1>1 DEF Web!HangUp

LEMMA WebPing ==
  ASSUME WebAssumption, Web!IInv, ~ v8, NEW r \in DOMAIN v2, Web!Ping(r)
  PROVE  Web!IInv'
<1> DEFINE left == v2[r].conn \ Web!Dead(v2[r].conn)
           rm == [v2[r] EXCEPT !.conn = left, !.closed = @ \/ left = {}]
<1>1. v2[r] \in Web!RoomType /\ v2[r].conn \in SUBSET Task
  BY RoomWhole
<1>2. Web!Turn(r, rm) /\ v2[r].writer = "run" /\ v3' = v3
      /\ v1' = v1 /\ v4' = v4 /\ v5' = v5 /\ v6' = v6 /\ v7' = v7 /\ v8' = v8
  BY DEF Web!Ping
<1>3. (v2[r].closed \/ left = {}) \in BOOLEAN
  BY Zenon
<1>4. /\ rm \in Web!RoomType /\ rm.writer = v2[r].writer /\ rm.send = v2[r].send /\ rm.msgs = v2[r].msgs
      /\ rm.conn = left
  BY <1>1, <1>3 DEF Web!RoomType
<1>5. left \subseteq v2[r].conn /\ \A t \in v2[r].conn : v3[t].alive => t \in left
  BY DEF Web!Dead
<1>6. v3' = Web!HangUp({})
  BY <1>2, NobodyHangs
<1> HIDE DEF rm, left
<1> QED
  BY <1>2, <1>4, <1>5, <1>6, WebGone

LEMMA WebWriteClosed ==
  ASSUME WebAssumption, Web!IInv, ~ v8, NEW r \in DOMAIN v2, Web!WriteClosed(r)
  PROVE  Web!IInv'
<1> DEFINE rm == Web!Bye(v2[r])
<1>1. v2[r] \in Web!RoomType /\ v2[r].conn \in SUBSET Task
  BY RoomWhole
<1>2. Web!Turn(r, rm) /\ v2[r].writer = "run" /\ v3' = Web!HangUp(v2[r].conn)
      /\ v1' = v1 /\ v4' = v4 /\ v5' = v5 /\ v6' = v6 /\ v7' = v7 /\ v8' = v8
  BY DEF Web!WriteClosed
<1>3. /\ rm \in Web!RoomType /\ rm.writer = v2[r].writer /\ rm.send = v2[r].send /\ rm.msgs = v2[r].msgs
      /\ rm.conn = {}
  BY <1>1 DEF Web!RoomType, Web!Bye
<1> HIDE DEF rm
<1> QED
  BY <1>2, <1>3, WebGone

(* A message comes into the history; all of s who are connected see it. *)
LEMMA WebSays ==
  ASSUME WebAssumption, Web!IInv, ~ v8, NEW r \in DOMAIN v2, v2[r].writer = "run",
         NEW c \in Web!Closure, v2[r].send = <<c>>, c.op \in {"note", "reply"}, c.m # 0,
         Web!Turn(r, Web!Message(Taken(r), c.m)), NEW s, v2[r].conn \subseteq s,
         \A t \in s : t \in v2[r].conn \/ (c.op = "reply" /\ t = c.tab),
         v3' = Web!Shown(s, c.m),
         v1' = v1, v4' = v4, v5' = v5, v6' = v6, v7' = v7, v8' = v8
  PROVE  Web!IInv'
<1> DEFINE rm == Web!Message(Taken(r), c.m)
<1>0. /\ v3 \in [Task -> Web!TabType] /\ \A t \in Task : v3[t] \in Web!TabType
      /\ v2[r] \in Web!RoomType /\ v2[r].conn \in SUBSET Task /\ Web!OfRoom(r)
      /\ c.m \in 1 .. MaxMsg /\ MaxMsg \in Nat
  <2>1. v3 \in [Task -> Web!TabType]
    BY DEF Web!IInv, Web!Typed
  <2>2. c.m \in 1 .. MaxMsg
    BY WebAssumption DEF Web!Closure
  <2> QED
    BY <2>1, <2>2, RoomWhole, WebAssumption
<1>1. /\ rm \in Web!RoomType /\ rm.writer = "run" /\ rm.send = <<>> /\ rm.msgs = Append(v2[r].msgs, c.m)
      /\ rm.conn = v2[r].conn \ Web!Dead(v2[r].conn)
  <2>1. v2[r].msgs \in Seq(1 .. MaxMsg) /\ Append(v2[r].msgs, c.m) \in Seq(1 .. MaxMsg)
    BY <1>0 DEF Web!RoomType
  <2>2. rm = [v2[r] EXCEPT !.send = <<>>, !.msgs = Append(v2[r].msgs, c.m),
                           !.conn = v2[r].conn \ Web!Dead(v2[r].conn)]
    BY <1>0 DEF Web!RoomType, Web!Message, Taken
  <2>3. v2[r].conn \ Web!Dead(v2[r].conn) \in SUBSET Task
    BY <1>0
  <2> HIDE DEF rm
  <2> QED
    BY <1>0, <2>1, <2>2, <2>3 DEF Web!RoomType
<1> HIDE DEF rm
<1>2. ASSUME NEW t \in Task, t \in s, v3[t].alive PROVE t \in v2[r].conn /\ v3[t].seen = v2[r].msgs /\ v3[t].room = r
  <2>1. t \in v2[r].conn
    <3>1. CASE c.op = "reply" /\ t = c.tab
      <4>1. v3[t].room = r /\ Web!Inside(t)
        BY <1>0, <3>1 DEF Web!OfRoom
      <4>2. Web!Listed(t)
        BY DEF Web!IInv
      <4>3. c # [op |-> "info", tab |-> t, m |-> 0]
        BY <3>1
      <4> QED
        BY <1>2, <4>1, <4>2, <4>3 DEF Web!Listed
    <3> QED
      BY <1>2, <3>1
  <2> QED
    BY <1>0, <1>2, <2>1 DEF Web!IInv, Web!TabsInStep, Web!OfRoom
<1>3. ASSUME NEW t \in Task
      PROVE  /\ v3'[t] \in Web!TabType
             /\ v3'[t].room = v3[t].room /\ v3'[t].pc = v3[t].pc /\ v3'[t].alive = v3[t].alive
             /\ v3'[t].seen = IF t \in s /\ v3[t].alive THEN Append(v3[t].seen, c.m) ELSE v3[t].seen
  <2>1. v3'[t] = IF t \in s /\ v3[t].alive THEN [v3[t] EXCEPT !.seen = Append(@, c.m)] ELSE v3[t]
    BY DEF Web!Shown
  <2>2. v3[t].seen \in Seq(1 .. MaxMsg) /\ Append(v3[t].seen, c.m) \in Seq(1 .. MaxMsg)
    BY <1>0 DEF Web!TabType
  <2> QED
    BY <1>0, <2>1, <2>2 DEF Web!TabType
<1>4. v3' \in [Task -> Web!TabType]
  <2>1. \E f : v3' = [t \in Task |-> f[t]]
    <3>1. v3' = [t \in Task |-> v3'[t]]
      BY DEF Web!Shown
    <3> QED
      BY <3>1
  <2> QED
    BY <1>3, <2>1
<1>5. ASSUME NEW t \in rm.conn
      PROVE  v3[t].room = r /\ Web!Inside(t) /\ (v3'[t].alive => v3'[t].seen = rm.msgs)
  <2>1. t \in v2[r].conn /\ t \in Task /\ t \in s
    BY <1>0, <1>1, <1>5
  <2> QED
    BY <1>0, <1>1, <1>2, <1>3, <2>1 DEF Web!OfRoom
<1>6. ASSUME NEW t \in Task
      PROVE  /\ v3'[t].seen \in {v3[t].seen, rm.msgs} /\ (v3[t].room # r => v3'[t].seen = v3[t].seen)
             /\ v3'[t].alive /\ Web!Inside(t) /\ v3[t].room = r =>
                  t \in rm.conn \/ rm.send = <<[op |-> "info", tab |-> t, m |-> 0]>>
  <2>1. v3'[t].seen \in {v3[t].seen, rm.msgs} /\ (v3[t].room # r => v3'[t].seen = v3[t].seen)
    BY <1>1, <1>2, <1>3
  <2>2. ASSUME v3'[t].alive, Web!Inside(t), v3[t].room = r PROVE t \in rm.conn
    <3>1. Web!Listed(t) /\ v3[t].alive
      BY <1>3, <2>2 DEF Web!IInv
    <3>2. c # [op |-> "info", tab |-> t, m |-> 0]
      OBVIOUS
    <3>3. t \in v2[r].conn
      BY <2>2, <3>1, <3>2 DEF Web!Listed
    <3> QED
      BY <1>1, <3>1, <3>3 DEF Web!Dead
  <2> QED
    BY <2>1, <2>2
<1>7. Web!Turn(r, rm)
  BY DEF rm
<1>8. TurnTo(r, After(rm))
  BY <1>1, <1>3, <1>4, <1>5, <1>6, <1>7, TurnIs
<1> QED
  BY <1>8, WebTurned

(* A tab is told the history and listed. *)
LEMMA WebInfo ==
  ASSUME WebAssumption, Web!IInv, ~ v8, NEW r \in DOMAIN v2, v2[r].writer = "run",
         NEW c \in Web!Closure, v2[r].send = <<c>>, c.op = "info",
         Web!Turn(r, Web!Info(Taken(r), c.tab)),
         v3' = [v3 EXCEPT ![c.tab].seen = IF v3[c.tab].alive THEN v2[r].msgs ELSE @],
         v1' = v1, v4' = v4, v5' = v5, v6' = v6, v7' = v7, v8' = v8
  PROVE  Web!IInv'
<1> DEFINE rm == Web!Info(Taken(r), c.tab)
           u == c.tab
<1>0. /\ v3 \in [Task -> Web!TabType] /\ \A t \in Task : v3[t] \in Web!TabType
      /\ v2[r] \in Web!RoomType /\ v2[r].conn \in SUBSET Task /\ Web!OfRoom(r)
      /\ u \in Task /\ v3[u].room = r /\ Web!Inside(u)
  <2>1. v3 \in [Task -> Web!TabType]
    BY DEF Web!IInv, Web!Typed
  <2>2. u \in Task
    BY DEF Web!Closure
  <2>3. v2[r] \in Web!RoomType /\ v2[r].conn \in SUBSET Task /\ Web!OfRoom(r)
    BY RoomWhole
  <2>4. v3[u].room = r /\ Web!Inside(u)
    BY <2>3 DEF Web!OfRoom
  <2> QED
    BY <2>1, <2>2, <2>3, <2>4
<1>1. /\ rm \in Web!RoomType /\ rm.writer = "run" /\ rm.send = <<>> /\ rm.msgs = v2[r].msgs
      /\ rm.conn = IF v3[u].alive THEN v2[r].conn \cup {u} ELSE v2[r].conn
  BY <1>0 DEF Web!RoomType, Web!Info, Taken
<1>2. /\ v3' \in [Task -> Web!TabType]
      /\ \A t \in Task : /\ v3'[t].room = v3[t].room /\ v3'[t].pc = v3[t].pc /\ v3'[t].alive = v3[t].alive
                         /\ t # u => v3'[t].seen = v3[t].seen
      /\ v3'[u].seen = IF v3[u].alive THEN rm.msgs ELSE v3[u].seen
  <2> DEFINE x == IF v3[u].alive THEN v2[r].msgs ELSE v3[u].seen
             y == [v3[u] EXCEPT !.seen = x]
  <2>1. x \in Seq(1 .. MaxMsg) /\ v3' = [v3 EXCEPT ![u] = y]
    BY <1>0 DEF Web!RoomType, Web!TabType
  <2> HIDE DEF x
  <2>2. /\ y \in Web!TabType /\ y.room = v3[u].room /\ y.pc = v3[u].pc /\ y.alive = v3[u].alive /\ y.seen = x
    BY <1>0, <2>1 DEF Web!TabType
  <2> HIDE DEF y, u, rm
  <2> QED
    BY <1>0, <1>1, <2>1, <2>2 DEF x
<1>3. Web!Turn(r, rm)
  OBVIOUS
<1>4. c = [op |-> "info", tab |-> u, m |-> 0]
  BY DEF Web!Closure
<1> HIDE DEF rm, u
<1>5. ASSUME NEW t \in rm.conn
      PROVE  v3[t].room = r /\ Web!Inside(t) /\ (v3'[t].alive => v3'[t].seen = rm.msgs)
  <2>1. CASE t = u
    BY <1>0, <1>2, <2>1
  <2>2. CASE t # u
    <3>1. t \in v2[r].conn /\ t \in Task
      BY <1>0, <1>1, <1>5, <2>2
    <3> QED
      BY <1>0, <1>1, <1>2, <2>2, <3>1 DEF Web!OfRoom, Web!IInv, Web!TabsInStep
  <2> QED
    BY <2>1, <2>2
<1>6. ASSUME NEW t \in Task
      PROVE  /\ v3'[t].seen \in {v3[t].seen, rm.msgs} /\ (v3[t].room # r => v3'[t].seen = v3[t].seen)
             /\ v3'[t].alive /\ Web!Inside(t) /\ v3[t].room = r =>
                  t \in rm.conn \/ rm.send = <<[op |-> "info", tab |-> t, m |-> 0]>>
  <2>1. v3'[t].seen \in {v3[t].seen, rm.msgs} /\ (v3[t].room # r => v3'[t].seen = v3[t].seen)
    BY <1>0, <1>2
  <2>2. ASSUME v3'[t].alive, Web!Inside(t), v3[t].room = r PROVE t \in rm.conn
    <3>1. Web!Listed(t) /\ v3[t].alive
      BY <1>2, <2>2 DEF Web!IInv
    <3>2. t \in v2[r].conn \/ t = u
      BY <1>4, <2>2, <3>1 DEF Web!Listed
    <3> QED
      BY <1>1, <3>1, <3>2
  <2> QED
    BY <2>1, <2>2
<1>7. TurnTo(r, After(rm))
  BY <1>1, <1>2, <1>3, <1>5, <1>6, TurnIs
<1> QED
  BY <1>7, WebTurned

LEMMA WebWrite ==
  ASSUME WebAssumption, Web!IInv, ~ v8, NEW r \in DOMAIN v2, Web!Write(r)
  PROVE  Web!IInv'
<1>0. v2[r] \in Web!RoomType /\ v2[r].conn \in SUBSET Task /\ Web!OfRoom(r)
  BY RoomWhole
<1>1. PICK c \in Web!Closure : v2[r].send = <<c>>
  BY <1>0 DEF Web!RoomType, Web!Write
<1>2. /\ Head(v2[r].send) = c /\ v2[r].writer = "run"
      /\ v1' = v1 /\ v4' = v4 /\ v5' = v5 /\ v6' = v6 /\ v7' = v7 /\ v8' = v8
  BY <1>1 DEF Web!Write
<1>3. /\ Taken(r) \in Web!RoomType /\ Taken(r).writer = "run" /\ Taken(r).send = <<>>
      /\ Taken(r).msgs = v2[r].msgs /\ Taken(r).conn = v2[r].conn
  BY <1>0, <1>2 DEF Web!RoomType, Taken
<1>4. CASE c.op = "info" /\ Web!Turn(r, Web!Info(Taken(r), c.tab))
           /\ v3' = [v3 EXCEPT ![c.tab].seen = IF v3[c.tab].alive THEN v2[r].msgs ELSE @]
  BY <1>1, <1>2, <1>4, WebInfo
<1>5. CASE c.op = "note" /\ Web!Turn(r, Web!Message(Taken(r), c.m)) /\ v3' = Web!Shown(v2[r].conn, c.m)
  <2>1. c.m # 0
    BY <1>5, WebAssumption DEF Web!Closure
  <2> QED
    BY <1>1, <1>2, <1>5, <2>1, WebSays
<1>6. CASE /\ c.op = "reply" /\ c.m # 0 /\ Web!Turn(r, Web!Message(Taken(r), c.m))
           /\ v3' = Web!Shown(v2[r].conn \cup {c.tab}, c.m)
  BY <1>1, <1>2, <1>6, WebSays
<1>7. CASE /\ c.op \in {"reply", "remove"} /\ v3' = v3
           /\ \/ c.op = "reply" /\ Web!Turn(r, [Taken(r) EXCEPT !.conn = @ \ Web!Dead({c.tab})])
              \/ c.op = "remove" /\ Web!Turn(r, [Taken(r) EXCEPT !.conn = @ \ {c.tab}])
  <2> DEFINE s == IF c.op = "reply" THEN Web!Dead({c.tab}) ELSE {c.tab}
             rm == [Taken(r) EXCEPT !.conn = @ \ s]
  <2>1. Web!Turn(r, rm)
    BY <1>7
  <2>2. /\ rm \in Web!RoomType /\ rm.writer = "run" /\ rm.send = <<>> /\ rm.msgs = v2[r].msgs
        /\ rm.conn = v2[r].conn \ s
    BY <1>0, <1>3 DEF Web!RoomType
  <2>3. \A t \in s : ~ v3[t].alive
    BY <1>0, <1>1, <1>7 DEF Web!Dead, Web!OfRoom
  <2>4. \A t : c # [op |-> "info", tab |-> t, m |-> 0]
    BY <1>7
  <2>5. v3' = Web!HangUp({})
    BY <1>7, NobodyHangs
  <2> HIDE DEF rm, s
  <2> QED
    BY <1>1, <1>2, <2>1, <2>2, <2>3, <2>4, <2>5, WebGone
<1>8. CASE c.op = "bye" /\ Web!Turn(r, Web!Bye(Taken(r))) /\ v3' = Web!HangUp(v2[r].conn)
  <2> DEFINE rm == Web!Bye(Taken(r))
  <2>1. /\ rm \in Web!RoomType /\ rm.writer = "run" /\ rm.send = <<>> /\ rm.msgs = v2[r].msgs
        /\ rm.conn = {}
    BY <1>0, <1>3 DEF Web!RoomType, Web!Bye
  <2>2. \A t : c # [op |-> "info", tab |-> t, m |-> 0]
    BY <1>8
  <2>3. Web!Turn(r, rm)
    BY <1>8
  <2> HIDE DEF rm
  <2> QED
    BY <1>1, <1>2, <1>8, <2>1, <2>2, <2>3, WebGone
<1> QED
  <2>1. \/ /\ c.op = "info" /\ Web!Turn(r, Web!Info(Taken(r), c.tab))
           /\ v3' = [v3 EXCEPT ![c.tab].seen = IF v3[c.tab].alive THEN Taken(r).msgs ELSE @]
        \/ c.op = "note" /\ Web!Turn(r, Web!Message(Taken(r), c.m)) /\ v3' = Web!Shown(Taken(r).conn, c.m)
        \/ /\ c.op = "reply" /\ c.m # 0 /\ Web!Turn(r, Web!Message(Taken(r), c.m))
           /\ v3' = Web!Shown(Taken(r).conn \cup {c.tab}, c.m)
        \/ c.op = "reply" /\ c.m = 0 /\ Web!Turn(r, [Taken(r) EXCEPT !.conn = @ \ Web!Dead({c.tab})]) /\ v3' = v3
        \/ c.op = "remove" /\ Web!Turn(r, [Taken(r) EXCEPT !.conn = @ \ {c.tab}]) /\ v3' = v3
        \/ c.op = "bye" /\ Web!Turn(r, Web!Bye(Taken(r))) /\ v3' = Web!HangUp(Taken(r).conn)
    BY <1>2 DEF Web!Write, Taken
  <2> QED
    BY <1>3, <1>4, <1>5, <1>6, <1>7, <1>8, <2>1

LEMMA WebStarts ==
  ASSUME WebAssumption, Web!Init
  PROVE  Web!IInv
<1>1. /\ v1 = 0 /\ v2 = <<>> /\ v5 = 0 /\ v6 = 0 /\ v7 = FALSE /\ v8 = FALSE /\ DOMAIN v2 = {}
      /\ \A t \in Task : v3[t].pc = "off" /\ v3[t].seen = <<>>
      /\ \A k \in Note : v4[k].pc = "idle"
  BY DEF Web!Init
<1>2. Web!Typed
  <2>1. /\ v2 \in Seq(Web!RoomType) /\ Len(v2) = 0 /\ 0 <= MaxRoom /\ v1 \in 0 .. 0 /\ v5 \in 0 .. MaxMsg
        /\ v6 \in 0 .. MaxClose /\ v7 \in BOOLEAN /\ v8 \in BOOLEAN
    <3>1. Len(<<>>) = 0 /\ <<>> \in Seq(Web!RoomType)
      OBVIOUS
    <3>2. 0 <= MaxRoom /\ 0 \in 0 .. 0 /\ 0 \in 0 .. MaxMsg /\ 0 \in 0 .. MaxClose
      BY WebAssumption
    <3> QED
      BY <1>1, <3>1, <3>2, Zenon
  <2>2. v3 \in [Task -> Web!TabType] /\ v4 \in [Note -> Web!NoteType]
    BY WebAssumption DEF Web!Init, Web!TabType, Web!NoteType
  <2>3. \A t \in Task : Len(v3[t].seen) <= MaxMsg
    <3>1. Len(<<>>) = 0
      OBVIOUS
    <3>2. 0 <= MaxMsg
      BY WebAssumption
    <3> QED
      BY <1>1, <3>1, <3>2, Zenon
  <2> QED
    BY <2>1, <2>2, <2>3 DEF Web!Typed
<1>3. Web!Placed /\ Web!OnceNoted /\ Web!TabsInStep /\ Web!ListedIsServed
  BY <1>1 DEF Web!Placed, Web!OnceNoted, Web!TabsInStep, Web!ListedIsServed
<1>4. \A t \in Task : Web!Listed(t)
  BY <1>1 DEF Web!Listed, Web!Inside
<1> QED
  BY <1>1, <1>2, <1>3, <1>4 DEF Web!IInv

LEMMA WebStep ==
  ASSUME WebAssumption, Web!IInv, Web!Next
  PROVE  Web!IInv'
<1>0. ~ v8
  BY DEF Web!Next
<1>1. ASSUME NEW r \in DOMAIN v2, Web!Write(r) \/ Web!Ping(r) \/ Web!WriteClosed(r) \/ Web!StopPump(r)
      PROVE  Web!IInv'
  BY <1>0, <1>1, WebWrite, WebPing, WebWriteClosed, WebStopPump
<1>2. ASSUME NEW t \in Task, Web!Open(t) \/ Web!Join(t) \/ Web!Register(t) \/ Web!StartPump(t)
      PROVE  Web!IInv'
  BY <1>0, <1>2, WebOpen, WebJoin, WebRegister, WebStartPump
<1>3. ASSUME NEW t \in Task, Web!ReadFails(t) \/ Web!Drop(t) \/ Web!Break(t)
      PROVE  Web!IInv'
  BY <1>0, <1>3, WebLost, WebDrop
<1>4. ASSUME NEW t \in Task, NEW m \in 0 .. MaxMsg, Web!Recv(t, m)
      PROVE  Web!IInv'
  BY <1>0, <1>4, WebRecv
<1>5. ASSUME NEW k \in Note, NEW text \in BOOLEAN, NEW closing \in BOOLEAN, Web!SendNotify(k, text, closing)
      PROVE  Web!IInv'
  BY <1>5, WebSendNotify
<1>6. ASSUME NEW k \in Note, Web!NotifyText(k) \/ Web!NotifyBye(k)
      PROVE  Web!IInv'
  BY <1>0, <1>6, WebNotify
<1>7. CASE Web!Close
  BY <1>7, WebClose
<1> QED
  BY <1>1, <1>2, <1>3, <1>4, <1>5, <1>6, <1>7 DEF Web!Next

LEMMA WebRests ==
  ASSUME Web!IInv, UNCHANGED <<v1, v2, v3, v4, v5, v6, v7, v8>>
  PROVE  Web!IInv'
<1>1. /\ v1' = v1 /\ v2' = v2 /\ v3' = v3 /\ v4' = v4 /\ v5' = v5 /\ v6' = v6 /\ v7' = v7 /\ v8' = v8
  OBVIOUS
<1>2. /\ Web!Typed' /\ Web!Placed'
  BY <1>1 DEF Web!IInv, Web!Typed, Web!RoomType, Web!TabType, Web!NoteType, Web!Closure, Web!Placed
<1>3. ASSUME NEW r \in DOMAIN v2 PROVE Web!OfRoom(r)' /\ Web!OnceIn(r)'
  <2>1. Web!OfRoom(r)'
    BY <1>1 DEF Web!IInv, Web!OfRoom, Web!Inside, Web!Closure
  <2>2. Web!OnceIn(r)'
    BY <1>1 DEF Web!IInv, Web!OnceIn, Web!In, Web!Closure
  <2> QED
    BY <2>1, <2>2
<1>4. ASSUME ~ v8', NEW t \in Task PROVE Web!Listed(t)'
  BY <1>1, <1>4 DEF Web!IInv, Web!Listed, Web!Inside
<1>5. Web!OnceNoted' /\ Web!TabsInStep' /\ Web!ListedIsServed'
  BY <1>1 DEF Web!IInv, Web!OnceNoted, Web!TabsInStep, Web!ListedIsServed
<1> QED
  BY <1>1, <1>2, <1>3, <1>4, <1>5 DEF Web!IInv

LEMMA WebTypes ==
  ASSUME WebAssumption, Web!IInv
  PROVE  Web!TypeOK
<1>0. /\ v2 \in Seq(Web!RoomType) /\ Len(v2) <= MaxRoom /\ v1 \in 0 .. Len(v2)
      /\ v3 \in [Task -> Web!TabType] /\ v4 \in [Note -> Web!NoteType]
      /\ v5 \in 0 .. MaxMsg /\ v6 \in 0 .. MaxClose /\ v7 \in BOOLEAN /\ v8 \in BOOLEAN /\ MaxMsg \in Nat
      /\ \A t \in Task : v3[t] \in Web!TabType /\ Len(v3[t].seen) <= MaxMsg
  BY WebAssumption DEF Web!IInv, Web!Typed
<1>1. ASSUME NEW s \in Seq(1 .. MaxMsg), Len(s) <= MaxMsg PROVE s \in Web!Msgs
  <2>1. Len(s) \in 0 .. MaxMsg /\ s \in [1 .. Len(s) -> 1 .. MaxMsg]
    BY <1>0, <1>1
  <2> QED
    BY <2>1 DEF Web!Msgs
<1>2. ASSUME NEW r \in DOMAIN v2
      PROVE  /\ v2[r].send \in {<<>>} \cup {<<c>> : c \in Web!Closure}
             /\ v2[r].conn \in SUBSET Task /\ v2[r].closed \in BOOLEAN /\ v2[r].shut \in BOOLEAN
             /\ v2[r].msgs \in Web!Msgs
             /\ v2[r].writer \in {"none", "run", "stop", "done"}
  <2>1. v2[r] \in Web!RoomType /\ Web!OnceIn(r)
    BY <1>0 DEF Web!IInv
  <2>2. v2[r].msgs \in Seq(1 .. MaxMsg)
    BY <2>1 DEF Web!RoomType
  <2>3. \A k \in DOMAIN v2[r].msgs : v2[r].msgs[k] \in 1 .. MaxMsg
    BY <1>0, <2>2
  <2>4. Len(v2[r].msgs) <= MaxMsg
    BY <1>0, <2>1, <2>2, <2>3, NoLongerThan DEF Web!OnceIn
  <2> QED
    BY <1>1, <2>1, <2>2, <2>4 DEF Web!RoomType
<1>3. v3 \in [Task -> [pc : {"off", "join", "register", "start", "read", "drop", "gone", "panic"},
                       room : 0 .. MaxRoom, primary : BOOLEAN, alive : BOOLEAN, seen : Web!Msgs]]
  <2>1. \A t \in Task : v3[t].seen \in Web!Msgs
    BY <1>0, <1>1 DEF Web!TabType
  <2> QED
    BY <1>0, <2>1 DEF Web!TabType
<1> QED
  BY <1>0, <1>2, <1>3 DEF Web!TypeOK, Web!NoteType
-----------------------------------------------------------------------------
(* Its files *)

(* The smaller of two. *)
LEMMA LeastOfTwo ==
  ASSUME NEW a \in Int, NEW b \in Int
  PROVE  /\ Files!Least({a, b}) \in {a, b} /\ Files!Least({a, b}) <= a /\ Files!Least({a, b}) <= b
<1>1. \E x \in {a, b} : \A y \in {a, b} : x <= y
  BY a <= b \/ b <= a
<1>2. Files!Least({a, b}) \in {a, b} /\ \A y \in {a, b} : Files!Least({a, b}) <= y
  BY <1>1, Zenon DEF Files!Least
<1> QED
  BY <1>2

LEMMA AskedIs ==
  ASSUME NEW a \in Int, NEW b \in Int
  PROVE  /\ Files!Asked(a, b) \in {b, a + 1} /\ Files!Asked(a, b) <= a + 1
<1>1. a + 1 \in Int
  OBVIOUS
<1> QED
  BY <1>1, LeastOfTwo, Zenon DEF Files!Asked

LEMMA MediaTyped ==
  ASSUME Files!IInv
  PROVE  /\ v3 \in Seq(0 .. MaxSize) /\ Len(v3) \in Nat /\ Len(v3) <= MaxPart /\ v2 \in Int
         /\ \A k \in 1 .. Len(v3) : v3[k] \in 0 .. MaxSize
         /\ v5 \in Nat /\ v6 \in Int /\ v7 \in Nat /\ v9 \in Seq(1 .. MaxPart) /\ Len(v9) \in Nat
         /\ Limit \in Nat /\ Buf \in Nat /\ Buf # 0 /\ MaxPart \in Nat /\ MaxSize \in Nat
<1>1. v3 \in Seq(0 .. MaxSize) /\ v9 \in Seq(1 .. MaxPart) /\ Len(v3) <= MaxPart
  BY DEF Files!IInv, Files!Typed
<1>2. Len(v3) \in Nat /\ \A k \in 1 .. Len(v3) : v3[k] \in 0 .. MaxSize
  BY <1>1, MediaAssumption
<1> QED
  BY <1>1, <1>2, MediaAssumption DEF Files!IInv, Files!Typed

LEMMA MediaStarts ==
  ASSUME Files!Init
  PROVE  Files!IInv
<1>1. PICK k \in 0 .. MaxPart : v3 \in [1 .. k -> 0 .. MaxSize]
  BY DEF Files!Init
<1>2. v3 \in Seq(0 .. MaxSize) /\ Len(v3) = k /\ Len(v3) \in Nat /\ Len(v3) <= MaxPart
  BY <1>1, MediaAssumption
<1>3. /\ v1 \in BOOLEAN /\ v4 = "part" /\ v5 = 0 /\ v6 = 0 /\ v7 = 0 /\ v8 = FALSE /\ v9 = <<>> /\ v10 = <<>>
      /\ (~ v1 => Len(v3) = 1) /\ v2 \in IF v1 THEN {-1} ELSE {-1, v3[1]}
  BY DEF Files!Init
<1>4. ~ v1 => v3[1] \in 0 .. MaxSize
  BY <1>2, <1>3, MediaAssumption
<1>5. Len(<<>>) = 0 /\ <<>> \in Seq(1 .. MaxPart) /\ <<>> \in Seq((1 .. MaxPart) \X (0 .. MaxSize))
  OBVIOUS
<1>6. v9 \in Seq(1 .. MaxPart) /\ v10 \in Seq((1 .. MaxPart) \X (0 .. MaxSize)) /\ Len(v9) = 0
  BY <1>3, <1>5, Zenon
<1>7. Files!Typed
  <2>1. v2 \in -1 .. MaxSize /\ (v1 => v2 = -1) /\ (~ v1 => Len(v3) = 1 /\ v2 \in {-1, v3[1]})
    BY <1>2, <1>3, <1>4, MediaAssumption
  <2>2. v5 \in 0 .. Len(v3) + 1 /\ v6 \in -1 .. Limit /\ v7 \in 0 .. MaxSize /\ v8 \in BOOLEAN
    <3>1. v8 \in BOOLEAN
      BY <1>3, Zenon
    <3>2. 0 \in 0 .. Len(v3) + 1 /\ 0 \in -1 .. Limit /\ 0 \in 0 .. MaxSize
      BY <1>2, MediaAssumption
    <3> QED
      BY <1>3, <3>1, <3>2, Zenon
  <2> QED
    BY <1>2, <1>3, <1>6, <2>1, <2>2 DEF Files!Typed
<1>8. Files!Done /\ Files!Progress
  BY <1>3, <1>6 DEF Files!Done, Files!Progress
<1> QED
  BY <1>7, <1>8 DEF Files!IInv

(* The request is as it was, and so is what the parts before have. *)
Same == v1' = v1 /\ v2' = v2 /\ v3' = v3

LEMMA WithinSame ==
  ASSUME Same, NEW k
  PROVE  Files!Within(k)' <=> Files!Within(k)
BY DEF Same, Files!Within

LEMMA MediaKept ==
  ASSUME Files!IInv, Same, v9' = v9, v10' = v10
  PROVE  Files!Done'
BY DEF Same, Files!IInv, Files!Done, Files!Kept, Files!Within

LEMMA MediaNext ==
  ASSUME Files!IInv, Files!NextPart
  PROVE  Files!IInv'
<1>0. /\ v4 = "part" /\ v5' = v5 + 1 /\ v7' = 0 /\ v8' = FALSE /\ v9' = v9 /\ v10' = v10 /\ Same
      /\ Files!Typed /\ Files!Progress
  BY DEF Files!NextPart, Same, Files!IInv
<1>1. Files!Done'
  BY <1>0, MediaKept
<1>2. v5 = Len(v9) /\ v5 <= Len(v3)
  BY <1>0 DEF Files!Progress, Files!Typed
<1>3. Files!Typed'
  <2>1. v6' \in -1 .. Limit /\ v4' \in {"part", "read", "end", "ok", "error"}
    <3>1. v6' = v6 \/ v6' = Limit
      BY DEF Files!NextPart, Files!Allowed
    <3>2. v6 \in -1 .. Limit
      BY <1>0 DEF Files!Typed
    <3>3. v6' \in -1 .. Limit
      BY <3>1, <3>2, MediaTyped
    <3> QED
      BY <3>3 DEF Files!NextPart
  <2>2. v5' \in 0 .. Len(v3) + 1 /\ 0 \in 0 .. MaxSize
    BY <1>0, <1>2, MediaTyped
  <2>3. FALSE \in BOOLEAN
    BY Zenon
  <2> QED
    BY <1>0, <2>1, <2>2, <2>3, Zenon DEF Files!Typed, Same
<1>4. Files!Progress'
  <2>1. CASE v5 + 1 > Len(v3)
    <3>1. v4' = "ok" /\ Len(v9') = Len(v3')
      BY <1>0, <1>2, <2>1, MediaTyped DEF Files!NextPart, Same
    <3> QED
      BY <3>1 DEF Files!Progress
  <2>2. CASE ~ (v5 + 1 > Len(v3)) /\ ~ v1 /\ v2 > Limit
    <3>1. v4' = "error"
      BY <2>2 DEF Files!NextPart
    <3> QED
      BY <3>1 DEF Files!Progress
  <2>3. CASE ~ (v5 + 1 > Len(v3)) /\ ~ (~ v1 /\ v2 > Limit)
    <3>1. v4' = "read" /\ v6' = Limit
      BY <2>3 DEF Files!NextPart, Files!Allowed
    <3>2. v5' \in 1 .. Len(v3') /\ Len(v9') = v5' - 1 /\ v7' <= v3'[v5'] /\ v6' >= 0 /\ v6' = Limit - v7'
      BY <1>0, <1>2, <2>3, <3>1, MediaTyped DEF Same
    <3>3. ~ v1 => Files!Within(v5 + 1)
      <4> SUFFICES ASSUME ~ v1 PROVE v2 # -1 => v3[v5 + 1] <= Limit
        BY Zenon DEF Files!Within
      <4>1. Len(v3) = 1 /\ (v2 = -1 \/ v2 = v3[1]) /\ ~ (v5 + 1 > Len(v3)) /\ ~ (v2 > Limit)
        BY <1>0, <2>3 DEF Files!Typed
      <4>2. v5 + 1 = 1
        BY <4>1, MediaTyped
      <4> QED
        BY <4>1, <4>2, MediaTyped
    <3> QED
      <4>1. ~ v1' => Files!Within(v5)'
        BY <1>0, <3>3 DEF Same, Files!Within
      <4>2. v4' = "read" /\ v8' = FALSE
        BY <1>0, <3>1
      <4> QED
        BY <3>1, <3>2, <4>1, <4>2, Zenon DEF Files!Progress
  <2> QED
    BY <2>1, <2>2, <2>3
<1> QED
  BY <1>1, <1>3, <1>4 DEF Files!IInv

LEMMA MediaRead ==
  ASSUME Files!IInv, NEW k \in 1 .. Buf, Files!Read(k)
  PROVE  Files!IInv'
<1> DEFINE rest == v3[v5] - v7
           most == IF v1 THEN Files!Asked(v6, Buf) ELSE Buf
<1>0. /\ v4 = "read" /\ rest > 0 /\ v5' = v5 /\ v9' = v9 /\ v10' = v10 /\ Same
      /\ Files!Typed /\ Files!Progress
  BY DEF Files!Read, Same, Files!IInv
<1>1. /\ v5 \in 1 .. Len(v3) /\ Len(v9) = v5 - 1 /\ v7 <= v3[v5] /\ v6 >= 0
      /\ ~ v1 => v6 = Limit /\ Files!Within(v5)
      /\ v1 => v6 = Limit - v7
  BY <1>0, MediaTyped DEF Files!Progress
<1>a. v3[v5] \in 0 .. MaxSize /\ v6 \in Int /\ v7 \in Nat /\ Limit \in Nat /\ Buf \in Nat /\ MaxSize \in Nat
  BY <1>1, MediaTyped
<1>2. most \in Int /\ rest \in Int /\ (v1 => most <= v6 + 1)
  <2>1. Files!Asked(v6, Buf) \in {Buf, v6 + 1} /\ Files!Asked(v6, Buf) <= v6 + 1
    BY <1>a, AskedIs
  <2>2. CASE v1
    BY <1>a, <2>1, <2>2
  <2>3. CASE ~ v1
    BY <1>a, <2>1, <2>3
  <2> QED
    BY <2>2, <2>3
<1>3. k <= rest /\ k <= most /\ k \in Nat /\ k >= 1
  <2>1. k \in 1 .. Files!Least({rest, most})
    BY DEF Files!Read
  <2>2. Files!Least({rest, most}) \in Int /\ Files!Least({rest, most}) <= rest /\ Files!Least({rest, most}) <= most
    BY <1>2, LeastOfTwo
  <2> HIDE DEF rest, most
  <2> QED
    BY <1>2, <2>1, <2>2, MediaTyped
<1>b. k <= v3[v5] - v7 /\ (v1 => k <= v6 + 1)
  <2>1. k <= rest
    BY <1>3
  <2>2. v1 => k <= v6 + 1
    <3> HIDE DEF rest, most
    <3> QED
      BY <1>a, <1>2, <1>3
  <2> QED
    BY <2>1, <2>2
<1>4. Files!Done'
  BY <1>0, MediaKept
<1>5. CASE v1 /\ v6 - k < 0
  <2>1. v6' = v6 - k /\ v4' = "end" /\ v8' = TRUE /\ v7' = v7
    BY <1>5 DEF Files!Read
  <2>2. v6' = -1 /\ v3[v5] > Limit /\ v7 <= v3[v5] /\ v7 \in Nat
    <3>1. v6 = Limit - v7 /\ k <= v3[v5] - v7 /\ k <= v6 + 1 /\ v6 - k < 0
      BY <1>b, <1>1, <1>5
    <3> QED
      BY <1>a, <1>1, <1>3, <2>1, <3>1
  <2>3. Files!Typed'
    BY <1>0, <2>1, <2>2, MediaTyped DEF Files!Typed, Same
  <2>4. Files!Progress'
    BY <1>0, <1>1, <1>5, <2>1, <2>2 DEF Files!Progress, Same
  <2> QED
    BY <1>4, <2>3, <2>4 DEF Files!IInv
<1>6. CASE ~ (v1 /\ v6 - k < 0)
  <2>1. v6' = (IF v1 THEN v6 - k ELSE v6) /\ v4' = v4 /\ v8' = v8 /\ v7' = v7 + k
    BY <1>6 DEF Files!Read
  <2>2. v6' >= 0 /\ v6' <= Limit /\ v6' \in Int /\ v7' \in Nat /\ v7' <= v3[v5] /\ v3[v5] <= MaxSize
        /\ (v1 => v6' = Limit - v7') /\ (~ v1 => v6' = Limit)
    <3>1. k <= v3[v5] - v7
      BY <1>3
    <3>2. CASE v1
      BY <1>a, <1>1, <1>3, <1>6, <2>1, <3>1, <3>2
    <3>3. CASE ~ v1
      BY <1>a, <1>1, <1>3, <2>1, <3>1, <3>3
    <3> QED
      BY <3>2, <3>3
  <2>3. Files!Typed'
    <3>1. v6' \in -1 .. Limit /\ v7' \in 0 .. MaxSize
      BY <1>a, <2>2
    <3> QED
      BY <1>0, <2>1, <3>1, Zenon DEF Files!Typed, Same
  <2>4. Files!Progress'
    BY <1>0, <1>1, <2>1, <2>2 DEF Files!Progress, Files!Within, Same
  <2> QED
    BY <1>4, <2>3, <2>4 DEF Files!IInv
<1> QED
  BY <1>5, <1>6

LEMMA MediaReadEnds ==
  ASSUME Files!IInv, Files!ReadEnds
  PROVE  Files!IInv'
<1>0. /\ v4 = "read" /\ v4' = "end" /\ v5' = v5 /\ v6' = v6 /\ v7' = v7 /\ v8' = v8 /\ v9' = v9 /\ v10' = v10 /\ Same
      /\ Files!Typed /\ Files!Progress
  BY DEF Files!ReadEnds, Same, Files!IInv
<1>1. v6 >= 0
  BY <1>0 DEF Files!Progress
<1>2. Files!Asked(v6, Buf) # 0
  BY <1>1, MediaTyped, AskedIs
<1>3. v7 = v3[v5]
  BY <1>2 DEF Files!ReadEnds
<1>4. Files!Done'
  BY <1>0, MediaKept
<1>5. Files!Typed'
  BY <1>0 DEF Files!Typed, Same
<1>6. Files!Progress'
  BY <1>0, <1>1, <1>3, MediaTyped DEF Files!Progress, Files!Within, Same
<1> QED
  BY <1>4, <1>5, <1>6 DEF Files!IInv

(* The upload fails: its source, its transport or the storage. *)
LEMMA MediaFails ==
  ASSUME Files!IInv, Files!PartFails \/ Files!ReadFails \/ Files!Refuse
  PROVE  Files!IInv'
<1>0. /\ v5' = v5 /\ v6' = v6 /\ v7' = v7 /\ v9' = v9 /\ v10' = v10 /\ Same
      /\ Files!Typed /\ Files!Progress
      /\ \/ v4' = "error" /\ v8' = v8
         \/ v4 = "read" /\ v4' = "end" /\ v8' = TRUE
  BY DEF Files!PartFails, Files!ReadFails, Files!Refuse, Same, Files!IInv
<1>1. Files!Done'
  BY <1>0, MediaKept
<1>2. Files!Typed'
  BY <1>0 DEF Files!Typed, Same
<1>3. CASE v4' = "error"
  <2>1. Files!Progress'
    BY <1>3 DEF Files!Progress
  <2> QED
    BY <1>1, <1>2, <2>1 DEF Files!IInv
<1>4. CASE v4 = "read" /\ v4' = "end" /\ v8' = TRUE
  <2>1. /\ v5 \in 1 .. Len(v3) /\ Len(v9) = v5 - 1 /\ v7 <= v3[v5]
        /\ v1 /\ v6 >= 0 => v6 = Limit - v7
        /\ v6 >= 0
    BY <1>0, <1>4 DEF Files!Progress
  <2>2. ~ v1 => v6 = Limit /\ Files!Within(v5)
    BY <1>0, <1>4 DEF Files!Progress
  <2>3. ~ v1' => v6' = Limit /\ Files!Within(v5)'
    BY <1>0, <2>2 DEF Files!Within, Same
  <2>4. ~ (v6 < 0)
    BY <1>0, <2>1, MediaTyped
  <2>5. Files!Progress'
    BY <1>0, <1>4, <2>1, <2>3, <2>4 DEF Files!Progress, Same
  <2> QED
    BY <1>1, <1>2, <2>5 DEF Files!IInv
<1> QED
  BY <1>0, <1>3, <1>4

LEMMA MediaClosed ==
  ASSUME Files!IInv, Files!CloseAndRecv
  PROVE  Files!IInv'
<1>0. /\ v4 = "end" /\ v10' = Append(v10, <<v5, v7>>) /\ v9' = (IF v8 THEN v9 ELSE Append(v9, v5))
      /\ v4' = (IF v8 THEN "error" ELSE "part")
      /\ v5' = v5 /\ v6' = v6 /\ v7' = v7 /\ v8' = v8 /\ Same
      /\ Files!Typed /\ Files!Progress /\ Files!Done
  BY DEF Files!CloseAndRecv, Same, Files!IInv
<1>1. /\ v5 \in 1 .. Len(v3) /\ v5 \in 1 .. MaxPart /\ Len(v9) = v5 - 1 /\ v7 \in 0 .. MaxSize
      /\ v10 \in Seq((1 .. MaxPart) \X (0 .. MaxSize))
  BY <1>0, MediaTyped DEF Files!Progress, Files!Typed
<1>2. /\ v10' \in Seq((1 .. MaxPart) \X (0 .. MaxSize)) /\ Len(v10') = Len(v10) + 1 /\ Len(v10) \in Nat
      /\ v10'[Len(v10) + 1] = <<v5, v7>> /\ \A s \in 1 .. Len(v10) : v10'[s] = v10[s]
  <2>1. <<v5, v7>> \in (1 .. MaxPart) \X (0 .. MaxSize)
    BY <1>1
  <2> DEFINE T == (1 .. MaxPart) \X (0 .. MaxSize)
             x == <<v5, v7>>
  <2>2. v10 \in Seq(T) /\ x \in T /\ v10' = Append(v10, x)
    BY <1>0, <1>1, <2>1
  <2> HIDE DEF T, x
  <2>3. v10' \in Seq(T) /\ Len(v10') = Len(v10) + 1 /\ Len(v10) \in Nat
        /\ v10'[Len(v10) + 1] = x /\ \A s \in 1 .. Len(v10) : v10'[s] = v10[s]
    BY <2>2
  <2> QED
    BY <2>3 DEF T, x
<1>3. \A k \in 1 .. Len(v9) : v9[k] = k /\ Files!Kept(k)' /\ Files!Within(k)'
  <2> SUFFICES ASSUME NEW k \in 1 .. Len(v9) PROVE v9[k] = k /\ Files!Kept(k)' /\ Files!Within(k)'
    OBVIOUS
  <2>1. v9[k] = k /\ Files!Kept(k) /\ Files!Within(k)
    BY <1>0 DEF Files!Done
  <2>2. PICK s \in 1 .. Len(v10) : v10[s] = <<k, v3[k]>>
    BY <2>1 DEF Files!Kept
  <2>3. s \in 1 .. Len(v10') /\ v10'[s] = v10[s] /\ v3' = v3
    BY <1>0, <1>2 DEF Same
  <2>4. Files!Kept(k)'
    BY <2>2, <2>3 DEF Files!Kept
  <2> QED
    BY <1>0, <2>1, <2>4, WithinSame
<1>4. CASE v8
  <2>1. v9' = v9 /\ v4' = "error"
    BY <1>0, <1>4
  <2>2. Files!Typed'
    BY <1>0, <1>2, <2>1 DEF Files!Typed, Same
  <2>3. Files!Done' /\ Files!Progress'
    BY <1>3, <2>1 DEF Files!Done, Files!Progress
  <2> QED
    BY <2>2, <2>3 DEF Files!IInv
<1>5. CASE ~ v8
  <2>1. /\ v9' \in Seq(1 .. MaxPart) /\ Len(v9') = v5 /\ v4' = "part" /\ v9'[v5] = v5
        /\ \A k \in 1 .. Len(v9) : v9'[k] = v9[k]
    BY <1>0, <1>1, <1>5, MediaTyped
  <2>2. v7 = v3[v5] /\ v6 >= 0
    BY <1>0, <1>5, MediaTyped DEF Files!Progress
  <2>3. Files!Kept(v5)'
    <3>1. Len(v10) + 1 \in 1 .. Len(v10') /\ v10'[Len(v10) + 1] = <<v5', v3'[v5']>>
      BY <1>0, <1>2, <2>2 DEF Same
    <3> QED
      BY <3>1 DEF Files!Kept
  <2>4. Files!Within(v5)'
    <3>1. CASE v1
      <4>1. v6 = Limit - v7
        BY <1>0, <2>2, <3>1 DEF Files!Progress
      <4>2. v3[v5] <= Limit
        BY <2>2, <4>1, MediaTyped, MediaAssumption
      <4> QED
        BY <1>0, <4>2 DEF Files!Within, Same
    <3>2. CASE ~ v1
      BY <1>0, <3>2 DEF Files!Progress, Files!Within, Same
    <3> QED
      BY <3>1, <3>2
  <2>5. ASSUME NEW k \in 1 .. Len(v9') PROVE v9'[k] = k /\ Files!Kept(k)' /\ Files!Within(k)'
    <3>1. k = v5 \/ k \in 1 .. Len(v9)
      BY <1>1, <2>1
    <3> QED
      BY <1>0, <1>3, <2>1, <2>3, <2>4, <3>1 DEF Files!Kept, Files!Within
  <2>6. Files!Done'
    BY <2>5 DEF Files!Done, Files!Kept, Files!Within
  <2>7. Files!Typed'
    BY <1>0, <1>1, <1>2, <2>1, MediaTyped DEF Files!Typed, Same
  <2>8. Files!Progress'
    BY <1>0, <2>1 DEF Files!Progress
  <2> QED
    BY <2>6, <2>7, <2>8 DEF Files!IInv
<1> QED
  BY <1>4, <1>5

LEMMA MediaStep ==
  ASSUME Files!IInv, Files!Next
  PROVE  Files!IInv'
BY MediaNext, MediaRead, MediaReadEnds, MediaFails, MediaClosed DEF Files!Next

LEMMA MediaRests ==
  ASSUME Files!IInv, UNCHANGED <<v1, v2, v3, v4, v5, v6, v7, v8, v9, v10>>
  PROVE  Files!IInv'
BY DEF Files!IInv, Files!Typed, Files!Done, Files!Kept, Files!Within, Files!Progress

LEMMA MediaHolds ==
  ASSUME Files!IInv
  PROVE  Files!AnsweredWhole /\ Files!RefusedOnlyLarger
<1>1. ASSUME v4 = "ok" PROVE Files!AnsweredWhole
  BY <1>1 DEF Files!IInv, Files!Done, Files!Progress, Files!Kept, Files!Within, Files!AnsweredWhole
<1>2. Files!RefusedOnlyLarger
  BY DEF Files!IInv, Files!Progress, Files!RefusedOnlyLarger
<1> QED
  BY <1>1, <1>2 DEF Files!AnsweredWhole
-----------------------------------------------------------------------------
(* The chats of a Facebook bot *)

LEMMA ThreadsOfSeq ==
  ASSUME NEW S, NEW s \in Seq(S)
  PROVE  DOMAIN s = 1 .. Len(s) /\ Len(s) \in Nat /\ \A o \in DOMAIN s : s[o] \in S
OBVIOUS

LEMMA ThreadsMakeSeq ==
  ASSUME NEW S, NEW n \in Nat, NEW s \in [1 .. n -> S]
  PROVE  s \in Seq(S) /\ Len(s) = n
OBVIOUS

LEMMA ThreadsTyped ==
  ASSUME Threads!IInv
  PROVE  /\ v1 \in Seq([plat : Threads!Plat, auth : BOOLEAN]) /\ Len(v1) \in Nat /\ Len(v1) <= MaxObj
         /\ DOMAIN v1 = 1 .. Len(v1) /\ \A o \in DOMAIN v1 : v1[o] \in [plat : Threads!Plat, auth : BOOLEAN]
         /\ v2 \in [Threads!Plat -> 0 .. Len(v1)] /\ v3 \in [Author -> 0 .. Len(v1)]
         /\ v4 \in [Author -> [st : {"none", "open"}, props : {"none", "thread", "map"}, page : 0 .. Len(v1),
                               type : Threads!Plat \cup {"none"}]]
         /\ v5 \in [Author -> [page : 0 .. Len(v1), fate : {"none", "sent", "refused", "lost"}]]
         /\ v6 \in BOOLEAN /\ v7 \in BOOLEAN /\ v8 \in 0 .. MaxBoots
<1>1. v1 \in Seq([plat : Threads!Plat, auth : BOOLEAN])
  BY Zenon DEF Threads!IInv, Threads!Typed
<1>2. /\ DOMAIN v1 = 1 .. Len(v1) /\ Len(v1) \in Nat
      /\ \A o \in DOMAIN v1 : v1[o] \in [plat : Threads!Plat, auth : BOOLEAN]
  BY <1>1, ThreadsOfSeq
<1> QED
  BY <1>1, <1>2, Zenon DEF Threads!IInv, Threads!Typed

LEMMA ThreadsStarts ==
  ASSUME Threads!Init
  PROVE  Threads!IInv
<1>1. Threads!Typed
  <2>1. v1 = <<>> /\ v1 \in Seq([plat : Threads!Plat, auth : BOOLEAN]) /\ Len(v1) = 0
    BY DEF Threads!Init
  <2>2. /\ v2 \in [Threads!Plat -> 0 .. Len(v1)] /\ v3 \in [Author -> 0 .. Len(v1)]
        /\ v5 \in [Author -> [page : 0 .. Len(v1), fate : {"none", "sent", "refused", "lost"}]]
    BY <2>1 DEF Threads!Init
  <2>3. v4 \in [Author -> [st : {"none", "open"}, props : {"none", "thread", "map"}, page : 0 .. Len(v1),
                           type : Threads!Plat \cup {"none"}]]
    BY <2>1 DEF Threads!Init, Threads!NoDlg
  <2>4. v6 \in BOOLEAN /\ v7 \in BOOLEAN
    BY Zenon DEF Threads!Init
  <2>5. v8 \in 0 .. MaxBoots /\ Len(v1) <= MaxObj
    BY <2>1, ThreadsAssumption DEF Threads!Init
  <2> QED
    BY <2>1, <2>2, <2>3, <2>4, <2>5, Zenon DEF Threads!Typed
<1>2. Threads!Indexed /\ Threads!NoChatType /\ Threads!OnePlat /\ Threads!TypeKept
  BY DEF Threads!Init, Threads!Indexed, Threads!NoChatType, Threads!OnePlat, Threads!TypeKept, Threads!NoDlg
<1> QED
  BY <1>1, <1>2 DEF Threads!IInv

LEMMA ThreadsInstall ==
  ASSUME Threads!IInv, NEW f \in Threads!Plat, Threads!Install(f)
  PROVE  Threads!IInv'
<1> DEFINE k == Len(v1) + 1
<1> DEFINE Obj == [plat : Threads!Plat, auth : BOOLEAN]
<1> DEFINE new == [plat |-> f, auth |-> TRUE]
<1>1. /\ v2[f] = 0 /\ Len(v1) < MaxObj /\ v1' = Append(v1, new) /\ v2' = [v2 EXCEPT ![f] = k]
      /\ v6' = (v6 \/ \E o \in DOMAIN v1 : v1[o].plat # f)
      /\ v3' = v3 /\ v4' = v4 /\ v5' = v5 /\ v7' = v7 /\ v8' = v8
  BY DEF Threads!Install
<1>2. /\ v1' \in Seq(Obj) /\ Len(v1') = k /\ v1'[k] = new /\ DOMAIN v1' = 1 .. k
      /\ \A o \in DOMAIN v1 : v1'[o] = v1[o]
  <2>1. new \in Obj
    OBVIOUS
  <2> QED
    BY <1>1, <2>1, ThreadsTyped
<1>3. Len(v1) \in Nat /\ k \in Nat /\ Len(v1) \in 0 .. k /\ 0 .. Len(v1) \subseteq 0 .. k /\ k \in 0 .. k /\ k <= MaxObj
  BY <1>1, ThreadsTyped, ThreadsAssumption
<1>4. Threads!Typed'
  <2>1. v2' \in [Threads!Plat -> 0 .. k]
    BY <1>1, <1>3, ThreadsTyped
  <2>2. v3' \in [Author -> 0 .. k]
    BY <1>1, <1>3, ThreadsTyped
  <2>3. v4' \in [Author -> [st : {"none", "open"}, props : {"none", "thread", "map"}, page : 0 .. k,
                               type : Threads!Plat \cup {"none"}]]
    BY <1>1, <1>3, ThreadsTyped
  <2>4. v5' \in [Author -> [page : 0 .. k, fate : {"none", "sent", "refused", "lost"}]]
    BY <1>1, <1>3, ThreadsTyped
  <2>5. v6' \in BOOLEAN
    BY <1>1, ThreadsTyped, Zenon
  <2> QED
    BY <1>1, <1>2, <1>3, <2>1, <2>2, <2>3, <2>4, <2>5, ThreadsTyped DEF Threads!Typed, Threads!Plat
<1>5. Threads!Indexed'
  <2> SUFFICES ASSUME NEW g \in Threads!Plat, v2'[g] # 0
               PROVE  v1'[v2'[g]].plat = g /\ v1'[v2'[g]].auth
    BY DEF Threads!Indexed, Threads!Plat
  <2>1. CASE g = f
    <3>1. v2'[g] = k
      BY <1>1, <2>1, ThreadsTyped
    <3> QED
      BY <1>2, <2>1, <3>1
  <2>2. CASE g # f
    <3>1. v2'[g] = v2[g] /\ v2[g] \in DOMAIN v1
      BY <1>1, <2>2, ThreadsTyped
    <3>2. v1[v2[g]].plat = g /\ v1[v2[g]].auth
      BY <3>1 DEF Threads!IInv, Threads!Indexed
    <3> QED
      BY <1>2, <3>1, <3>2
  <2> QED
    BY <2>1, <2>2
<1>6. Threads!NoChatType'
  BY <1>1 DEF Threads!IInv, Threads!NoChatType
<1>7. Threads!OnePlat'
  <2> SUFFICES ASSUME ~ v6'
               PROVE  \A o, q \in 1 .. k : v1'[o].plat = v1'[q].plat
    BY <1>2 DEF Threads!OnePlat
  <2>1. \A o \in DOMAIN v1 : v1[o].plat = f
    BY <1>1
  <2>2. \A o \in 1 .. k : v1'[o].plat = f
    <3> SUFFICES ASSUME NEW o \in 1 .. k
                 PROVE  v1'[o].plat = f
      OBVIOUS
    <3>1. CASE o = k
      BY <1>2, <3>1
    <3>2. CASE o # k
      <4>1. o \in DOMAIN v1
        BY <1>3, <3>2, ThreadsTyped
      <4> QED
        BY <1>2, <2>1, <4>1
    <3> QED
      BY <3>1, <3>2
  <2> QED
    BY <2>2
<1>8. Threads!TypeKept'
  <2>1. v6 => v6'
    BY <1>1
  <2> QED
    BY <1>1, <2>1 DEF Threads!IInv, Threads!TypeKept
<1> QED
  BY <1>4, <1>5, <1>6, <1>7, <1>8 DEF Threads!IInv

LEMMA ThreadsUninstall ==
  ASSUME Threads!IInv, NEW f \in Threads!Plat, Threads!Uninstall(f)
  PROVE  Threads!IInv'
<1> DEFINE k == v2[f]
<1>1. /\ k # 0 /\ v1' = [v1 EXCEPT ![k].auth = FALSE] /\ v2' = [v2 EXCEPT ![f] = 0]
      /\ v3' = v3 /\ v4' = v4 /\ v5' = v5 /\ v6' = v6 /\ v7' = v7 /\ v8' = v8
  BY DEF Threads!Uninstall
<1>2. k \in DOMAIN v1 /\ v1[k].plat = f
  <2>1. v1[k].plat = f
    BY <1>1 DEF Threads!IInv, Threads!Indexed
  <2> QED
    BY <1>1, <2>1, ThreadsTyped
<1>3. /\ v1' \in Seq([plat : Threads!Plat, auth : BOOLEAN]) /\ Len(v1') = Len(v1) /\ DOMAIN v1' = DOMAIN v1
      /\ \A o \in DOMAIN v1 : v1'[o].plat = v1[o].plat /\ (o # k => v1'[o] = v1[o])
  <2> DEFINE obj == [v1[k] EXCEPT !.auth = FALSE]
  <2>1. obj \in [plat : Threads!Plat, auth : BOOLEAN] /\ obj.plat = v1[k].plat
    BY <1>2, ThreadsTyped
  <2>2. v1' = [v1 EXCEPT ![k] = obj]
    BY <1>1
  <2> HIDE DEF obj
  <2> QED
    BY <1>2, <2>1, <2>2, ThreadsTyped
<1>4. Threads!Typed'
  <2>1. v2' \in [Threads!Plat -> 0 .. Len(v1)]
    BY <1>1, ThreadsTyped
  <2> QED
    BY <1>1, <1>3, <2>1, ThreadsTyped DEF Threads!Typed, Threads!Plat
<1>5. Threads!Indexed'
  <2> SUFFICES ASSUME NEW g \in Threads!Plat, v2'[g] # 0
               PROVE  v1'[v2'[g]].plat = g /\ v1'[v2'[g]].auth
    BY DEF Threads!Indexed, Threads!Plat
  <2>1. g # f /\ v2'[g] = v2[g] /\ v2[g] \in DOMAIN v1
    BY <1>1, ThreadsTyped
  <2>2. v1[v2[g]].plat = g /\ v1[v2[g]].auth
    BY <2>1 DEF Threads!IInv, Threads!Indexed
  <2>3. v2[g] # k
    BY <1>2, <2>1, <2>2
  <2> QED
    BY <1>3, <2>1, <2>2, <2>3
<1>6. Threads!NoChatType' /\ Threads!TypeKept'
  BY <1>1 DEF Threads!IInv, Threads!NoChatType, Threads!TypeKept
<1>7. Threads!OnePlat'
  BY <1>1, <1>3 DEF Threads!IInv, Threads!OnePlat
<1> QED
  BY <1>4, <1>5, <1>6, <1>7 DEF Threads!IInv

(* The pages stay, and chats keep a type that is right. *)
LEMMA ThreadsTalk ==
  ASSUME Threads!IInv, v1' = v1, v2' = v2, v6' = v6, v7' \in BOOLEAN, v8' = v8,
         v3' \in [Author -> 0 .. Len(v1)],
         v4' \in [Author -> [st : {"none", "open"}, props : {"none", "thread", "map"}, page : 0 .. Len(v1),
                             type : Threads!Plat \cup {"none"}]],
         v5' \in [Author -> [page : 0 .. Len(v1), fate : {"none", "sent", "refused", "lost"}]],
         \A u \in Author : \/ v4'[u].st = v4[u].st /\ v4'[u].type = v4[u].type
                           \/ v4'[u].st = "none" /\ v4'[u].type = "none"
                           \/ v4'[u].st = "open" /\ (~ v6 => v4'[u].type = Home[u])
  PROVE  Threads!IInv'
<1>1. Threads!Typed' /\ Threads!Indexed' /\ Threads!OnePlat'
  BY ThreadsTyped DEF Threads!IInv, Threads!Typed, Threads!Indexed, Threads!OnePlat, Threads!Plat
<1>2. Threads!NoChatType'
  BY DEF Threads!IInv, Threads!NoChatType
<1>3. Threads!TypeKept'
  BY DEF Threads!IInv, Threads!TypeKept
<1> QED
  BY <1>1, <1>2, <1>3 DEF Threads!IInv

(* The page found under an id, and the page of a thread. *)
LEMMA ThreadsFound ==
  ASSUME Threads!IInv
  PROVE  /\ Threads!ByPageId \in 0 .. Len(v1)
         /\ \A u \in Author : Threads!ByRecipient(Home[u]) \in 0 .. Len(v1)
         /\ \A u \in Author, o \in 0 .. Len(v1) : Threads!Thread(u, o) \in 0 .. Len(v1)
BY ThreadsTyped DEF Threads!ByPageId, Threads!ByRecipient, Threads!Thread, Threads!Plat

LEMMA ThreadsChatType ==
  ASSUME Threads!IInv, NEW u \in Author, Threads!ByRecipient(Home[u]) # 0,
         NEW o, o = Threads!Thread(u, Threads!ByRecipient(Home[u]))
  PROVE  Threads!ChatType(u, o) \in Threads!Plat /\ (~ v6 => Threads!ChatType(u, o) = Home[u])
<1>1. Threads!ChatType(u, o) \in Threads!Plat
  BY DEF Threads!ChatType, Threads!Plat
<1>2. CASE Home[u] = "instagram"
  <2> SUFFICES ASSUME ~ v6
               PROVE  v1[o].plat = "instagram"
    BY <1>1, <1>2 DEF Threads!ChatType
  <2>1. v2["instagram"] # 0 /\ v2["instagram"] \in DOMAIN v1 /\ v1[v2["instagram"]].plat = "instagram"
    <3>1. v2["instagram"] # 0 /\ "instagram" \in Threads!Plat
      BY <1>2 DEF Threads!ByRecipient, Threads!Plat
    <3>2. v1[v2["instagram"]].plat = "instagram"
      BY <3>1 DEF Threads!IInv, Threads!Indexed
    <3> QED
      BY <3>1, <3>2, ThreadsTyped
  <2>2. o \in DOMAIN v1
    BY <1>2, <2>1, ThreadsTyped DEF Threads!Thread, Threads!ByRecipient
  <2>3. v1[o].plat = v1[v2["instagram"]].plat
    BY <2>1, <2>2 DEF Threads!IInv, Threads!OnePlat
  <2> QED
    BY <2>1, <2>3
<1>3. CASE Home[u] = "facebook"
  BY <1>1, <1>3 DEF Threads!ChatType
<1> QED
  BY <1>2, <1>3, ThreadsAssumption

LEMMA ThreadsMessage ==
  ASSUME Threads!IInv, NEW u \in Author, NEW started \in BOOLEAN, Threads!WebhookMessage(u, started)
  PROVE  Threads!IInv'
<1> DEFINE Dialog == [st : {"none", "open"}, props : {"none", "thread", "map"}, page : 0 .. Len(v1),
                      type : Threads!Plat \cup {"none"}]
<1>1. PICK o : o = Threads!Thread(u, Threads!ByRecipient(Home[u]))
  OBVIOUS
<1>2. /\ Threads!ByRecipient(Home[u]) # 0 /\ v3' = [v3 EXCEPT ![u] = o]
      /\ v4' = [v4 EXCEPT ![u] = Threads!Channel(u, o, started)]
      /\ v1' = v1 /\ v2' = v2 /\ v5' = v5 /\ v6' = v6 /\ v7' = v7 /\ v8' = v8
  BY <1>1 DEF Threads!WebhookMessage
<1>3. o \in 0 .. Len(v1) /\ Threads!ChatType(u, o) \in Threads!Plat /\ (~ v6 => Threads!ChatType(u, o) = Home[u])
  BY <1>1, <1>2, ThreadsFound, ThreadsChatType
<1>4. PICK d : d = Threads!Channel(u, o, started)
  OBVIOUS
<1>5. /\ d \in Dialog
      /\ \/ d.st = v4[u].st /\ d.type = v4[u].type
         \/ d.st = "open" /\ (~ v6 => d.type = Home[u])
  <2>1. v4[u] \in Dialog
    BY ThreadsTyped
  <2>2. CASE v4[u].st = "open"
    <3>1. d = [v4[u] EXCEPT !.props = "thread", !.page = IF v4[u].props = "thread" THEN @ ELSE o]
      BY <1>4, <2>2 DEF Threads!Channel
    <3> QED
      BY <1>3, <2>1, <3>1
  <2>3. CASE v4[u].st # "open" /\ started
    <3>1. d = [st |-> "open", props |-> "map", page |-> 0, type |-> Threads!ChatType(u, o)]
      BY <1>4, <2>3 DEF Threads!Channel
    <3> QED
      BY <1>3, <3>1, ThreadsTyped
  <2>4. CASE v4[u].st # "open" /\ ~ started
    BY <1>4, <2>1, <2>4 DEF Threads!Channel
  <2> QED
    BY <2>2, <2>3, <2>4
<1>6. v3' \in [Author -> 0 .. Len(v1)] /\ v4' \in [Author -> Dialog]
  BY <1>2, <1>3, <1>4, <1>5, ThreadsTyped
<1>7. \A w \in Author : \/ v4'[w].st = v4[w].st /\ v4'[w].type = v4[w].type
                        \/ v4'[w].st = "none" /\ v4'[w].type = "none"
                        \/ v4'[w].st = "open" /\ (~ v6 => v4'[w].type = Home[w])
  BY <1>2, <1>4, <1>5, ThreadsTyped
<1> QED
  BY <1>2, <1>6, <1>7, ThreadsTyped, ThreadsTalk

LEMMA ThreadsEcho ==
  ASSUME Threads!IInv, NEW f \in Threads!Plat, Threads!WebhookEcho(f)
  PROVE  Threads!IInv'
<1>1. /\ v7' = (v7 \/ Threads!ByRecipient(f) = 0) /\ v1' = v1 /\ v2' = v2 /\ v3' = v3 /\ v4' = v4 /\ v5' = v5
      /\ v6' = v6 /\ v8' = v8
  BY DEF Threads!WebhookEcho
<1>2. v7' \in BOOLEAN
  BY <1>1, ThreadsTyped, Zenon
<1> QED
  BY <1>1, <1>2, ThreadsTyped, ThreadsTalk

LEMMA ThreadsComment ==
  ASSUME Threads!IInv, NEW u \in Author, NEW started \in BOOLEAN, Threads!WebhookComment(u, started)
  PROVE  Threads!IInv'
<1>1. /\ Home[u] = "instagram"
      /\ v4' = [v4 EXCEPT ![u] = [st |-> "open", props |-> "map", page |-> 0, type |-> "instagram"]]
      /\ v1' = v1 /\ v2' = v2 /\ v3' = v3 /\ v5' = v5 /\ v6' = v6 /\ v7' = v7 /\ v8' = v8
  BY DEF Threads!WebhookComment
<1>2. [st |-> "open", props |-> "map", page |-> 0, type |-> "instagram"]
        \in [st : {"none", "open"}, props : {"none", "thread", "map"}, page : 0 .. Len(v1),
             type : Threads!Plat \cup {"none"}]
  BY ThreadsTyped DEF Threads!Plat
<1> QED
  BY <1>1, <1>2, ThreadsTyped, ThreadsTalk

LEMMA ThreadsGiveUp ==
  ASSUME Threads!IInv, NEW u \in Author, v4' = [v4 EXCEPT ![u] = Threads!NoDlg],
         v5' \in [Author -> [page : 0 .. Len(v1), fate : {"none", "sent", "refused", "lost"}]],
         v1' = v1, v2' = v2, v3' = v3, v6' = v6, v7' = v7, v8' = v8
  PROVE  Threads!IInv'
<1>1. Threads!NoDlg \in [st : {"none", "open"}, props : {"none", "thread", "map"}, page : 0 .. Len(v1),
                         type : Threads!Plat \cup {"none"}]
  BY ThreadsTyped DEF Threads!NoDlg
<1>2. Threads!NoDlg.st = "none" /\ Threads!NoDlg.type = "none"
  BY DEF Threads!NoDlg
<1> QED
  BY <1>1, <1>2, ThreadsTyped, ThreadsTalk

LEMMA ThreadsNoPage ==
  ASSUME Threads!IInv, NEW u \in Author, Threads!NotifyNoPage(u)
  PROVE  Threads!IInv'
<1>1. /\ v4' = [v4 EXCEPT ![u] = Threads!NoDlg] /\ v5' = [v5 EXCEPT ![u] = [page |-> 0, fate |-> "lost"]]
      /\ v1' = v1 /\ v2' = v2 /\ v3' = v3 /\ v6' = v6 /\ v7' = v7 /\ v8' = v8
  BY DEF Threads!NotifyNoPage, Threads!GiveUp
<1>2. v5' \in [Author -> [page : 0 .. Len(v1), fate : {"none", "sent", "refused", "lost"}]]
  BY <1>1, ThreadsTyped
<1> QED
  BY <1>1, <1>2, ThreadsGiveUp

LEMMA ThreadsClose ==
  ASSUME Threads!IInv, NEW u \in Author, Threads!CloseChat(u)
  PROVE  Threads!IInv'
BY ThreadsTyped, ThreadsGiveUp DEF Threads!CloseChat

LEMMA ThreadsNotify ==
  ASSUME Threads!IInv, NEW u \in Author, Threads!SendNotify(u)
  PROVE  Threads!IInv'
<1>1. PICK o : o = Threads!External(u)
  OBVIOUS
<1>2. /\ o # 0 /\ v5' = [v5 EXCEPT ![u] = [page |-> o, fate |-> IF v1[o].auth THEN "sent" ELSE "refused"]]
      /\ v3' = (IF v4[u].props = "thread" THEN v3 ELSE [v3 EXCEPT ![u] = o])
      /\ v4' = [v4 EXCEPT ![u].props = "thread", ![u].page = o]
      /\ v1' = v1 /\ v2' = v2 /\ v6' = v6 /\ v7' = v7 /\ v8' = v8
  BY <1>1 DEF Threads!SendNotify
<1>3. o \in 0 .. Len(v1)
  BY <1>1, ThreadsTyped, ThreadsFound DEF Threads!External
<1>4. v3' \in [Author -> 0 .. Len(v1)]
  BY <1>2, <1>3, ThreadsTyped
<1>5. v5' \in [Author -> [page : 0 .. Len(v1), fate : {"none", "sent", "refused", "lost"}]]
  BY <1>2, <1>3, ThreadsTyped
<1> DEFINE d == [v4[u] EXCEPT !.props = "thread", !.page = o]
<1>6. /\ d \in [st : {"none", "open"}, props : {"none", "thread", "map"}, page : 0 .. Len(v1),
                type : Threads!Plat \cup {"none"}]
      /\ d.st = v4[u].st /\ d.type = v4[u].type
  <2>1. v4[u] \in [st : {"none", "open"}, props : {"none", "thread", "map"}, page : 0 .. Len(v1),
                   type : Threads!Plat \cup {"none"}]
    BY ThreadsTyped, Zenon
  <2> QED
    BY <1>3, <2>1
<1>7. v4' = [v4 EXCEPT ![u] = d]
  BY <1>2, ThreadsTyped
<1> HIDE DEF d
<1>8. v4' \in [Author -> [st : {"none", "open"}, props : {"none", "thread", "map"}, page : 0 .. Len(v1),
                          type : Threads!Plat \cup {"none"}]]
  BY <1>6, <1>7, ThreadsTyped
<1>9. \A w \in Author : v4'[w].st = v4[w].st /\ v4'[w].type = v4[w].type
  BY <1>6, <1>7, ThreadsTyped
<1> QED
  BY <1>2, <1>4, <1>5, <1>8, <1>9, ThreadsTyped, ThreadsTalk

(* The pages of a new process: one for each platform that had one. *)
Renumbered(on) == [f \in Threads!Plat |-> IF f \notin on THEN 0 ELSE IF f = "instagram" /\ "facebook" \in on THEN 2 ELSE 1]
Restored(on)   == [o \in 1 .. Threads!Cardinality(on) |->
                    [plat |-> CHOOSE f \in on : Renumbered(on)[f] = o, auth |-> TRUE]]

LEMMA ThreadsRestored ==
  ASSUME NEW on, on \subseteq Threads!Plat
  PROVE  /\ Restored(on) \in Seq([plat : Threads!Plat, auth : BOOLEAN])
         /\ Len(Restored(on)) = Threads!Cardinality(on) /\ Len(Restored(on)) \in 0 .. 2
         /\ Renumbered(on) \in [Threads!Plat -> 0 .. Len(Restored(on))]
         /\ \A f \in on : /\ Renumbered(on)[f] \in 1 .. Len(Restored(on))
                          /\ Restored(on)[Renumbered(on)[f]] = [plat |-> f, auth |-> TRUE]
         /\ \A f \in Threads!Plat \ on : Renumbered(on)[f] = 0
         /\ \A o \in 1 .. Len(Restored(on)) : Restored(on)[o].plat \in on
<1> DEFINE num == Renumbered(on)
<1> DEFINE made == Restored(on)
<1>n. num = [f \in Threads!Plat |-> IF f \notin on THEN 0 ELSE IF f = "instagram" /\ "facebook" \in on THEN 2 ELSE 1]
  BY Zenon DEF Renumbered
<1>m. made = [o \in 1 .. Threads!Cardinality(on) |-> [plat |-> CHOOSE f \in on : num[f] = o, auth |-> TRUE]]
  BY Zenon DEF Restored
<1> HIDE DEF num, made
<1> DEFINE k == Threads!Cardinality(on)
<1>1. k = Cardinality(on)
  BY DEF Threads!Cardinality, Cardinality
<1>2. on = {} \/ on = {"facebook"} \/ on = {"instagram"} \/ on = {"facebook", "instagram"}
  BY Zenon DEF Threads!Plat
<1>0. Cardinality({"facebook", "instagram"}) = 2
  <2>1. IsFiniteSet({"facebook"}) /\ Cardinality({"facebook"}) = 1
    BY FS_Singleton
  <2>2. {"facebook", "instagram"} = {"facebook"} \cup {"instagram"} /\ "instagram" \notin {"facebook"}
    OBVIOUS
  <2>3. PICK S, x : S = {"facebook"} /\ x = "instagram"
    OBVIOUS
  <2>4. IsFiniteSet(S) /\ Cardinality(S) = 1 /\ x \notin S
    BY <2>1, <2>2, <2>3, Zenon
  <2>5. Cardinality(S \cup {x}) = Cardinality(S) + 1
    BY <2>4, FS_AddElement, Zenon
  <2>6. Cardinality({"facebook", "instagram"}) = Cardinality(S) + 1
    BY <2>2, <2>3, <2>5, Zenon
  <2> QED
    BY <2>4, <2>6
<1>3. /\ on = {} => k = 0
      /\ on = {"facebook"} => k = 1
      /\ on = {"instagram"} => k = 1
      /\ on = {"facebook", "instagram"} => k = 2
  BY <1>0, <1>1, FS_EmptySet, FS_Singleton
<1>4. /\ \A f \in on : num[f] \in 1 .. k
      /\ \A f \in Threads!Plat \ on : num[f] = 0
      /\ \A o \in 1 .. k : \E f \in on : num[f] = o
      /\ \A f, g \in on : num[f] = num[g] => f = g
      /\ k \in 0 .. 2
  <2>1. CASE on = {}
    BY <1>3, <1>n, <2>1 DEF Threads!Plat
  <2>2. CASE on = {"facebook"}
    BY <1>3, <1>n, <2>2 DEF Threads!Plat
  <2>3. CASE on = {"instagram"}
    BY <1>3, <1>n, <2>3 DEF Threads!Plat
  <2>4. CASE on = {"facebook", "instagram"}
    BY <1>3, <1>n, <2>4 DEF Threads!Plat
  <2> QED
    BY <1>2, <2>1, <2>2, <2>3, <2>4
<1> HIDE DEF k
<1>5. \A o \in 1 .. k : (CHOOSE f \in on : num[f] = o) \in on /\ num[CHOOSE f \in on : num[f] = o] = o
  BY <1>4
<1>6. /\ made \in [1 .. k -> [plat : Threads!Plat, auth : BOOLEAN]]
      /\ \A o \in 1 .. k : made[o].plat \in on /\ num[made[o].plat] = o /\ made[o].auth = TRUE
      /\ \A o \in 1 .. k : made[o] = [plat |-> made[o].plat, auth |-> TRUE]
  BY <1>5, <1>m DEF k
<1>7. made \in Seq([plat : Threads!Plat, auth : BOOLEAN]) /\ Len(made) = k
  <2>1. k \in Nat
    BY <1>4
  <2>2. made \in [1 .. k -> [plat : Threads!Plat, auth : BOOLEAN]]
    BY <1>6, Zenon
  <2>3. PICK S : S = [plat : Threads!Plat, auth : BOOLEAN]
    OBVIOUS
  <2>4. made \in [1 .. k -> S]
    BY <2>2, <2>3, Zenon
  <2>5. made \in Seq(S) /\ Len(made) = k
    BY <2>1, <2>4, ThreadsMakeSeq
  <2> QED
    BY <2>3, <2>5, Zenon
<1>8. \A f \in on : made[num[f]] = [plat |-> f, auth |-> TRUE]
  <2> SUFFICES ASSUME NEW f \in on
               PROVE  made[num[f]] = [plat |-> f, auth |-> TRUE]
    OBVIOUS
  <2>1. num[f] \in 1 .. k
    BY <1>4
  <2>2. made[num[f]].plat \in on /\ num[made[num[f]].plat] = num[f]
    BY <1>6, <2>1
  <2>3. made[num[f]].plat = f
    BY <1>4, <2>2
  <2> QED
    BY <1>6, <2>1, <2>3
<1>9. num \in [Threads!Plat -> 0 .. k]
  <2>1. \A f \in Threads!Plat : num[f] \in 0 .. k
    BY <1>4
  <2> QED
    BY <1>n, <2>1, Zenon
<1> QED
  BY <1>4, <1>6, <1>7, <1>8, <1>9 DEF k, num, made

LEMMA ThreadsReboot ==
  ASSUME Threads!IInv, Threads!Reboot
  PROVE  Threads!IInv'
<1> DEFINE on == {f \in Threads!Plat : v2[f] # 0}
<1> DEFINE Dialog(k) == [st : {"none", "open"}, props : {"none", "thread", "map"}, page : 0 .. k,
                         type : Threads!Plat \cup {"none"}]
<1>1. /\ v2' = [f \in Threads!Plat |-> IF f \notin on THEN 0 ELSE IF f = "instagram" /\ "facebook" \in on THEN 2 ELSE 1]
      /\ v1' = [o \in 1 .. Threads!Cardinality(on) |-> [plat |-> CHOOSE f \in on : v2'[f] = o, auth |-> TRUE]]
  BY DEF Threads!Reboot
<1>2. /\ v8 < MaxBoots /\ v8' = v8 + 1 /\ v3' = [u \in Author |-> 0] /\ v6' = v6 /\ v7' = v7
      /\ v4' = [u \in Author |-> IF v4[u].st = "open" THEN [v4[u] EXCEPT !.props = "map", !.page = 0] ELSE Threads!NoDlg]
      /\ v5' = [u \in Author |-> [page |-> 0, fate |-> "none"]]
  BY Zenon DEF Threads!Reboot
<1>d. ASSUME NEW u \in Author
      PROVE  /\ v4[u].st = "open" => v4'[u].st = "open" /\ v4'[u].type = v4[u].type
             /\ v4[u].st # "open" => v4'[u].st = "none" /\ v4'[u].type = "none"
  <2>1. CASE v4[u].st = "open"
    <3>1. v4'[u] = [v4[u] EXCEPT !.props = "map", !.page = 0]
      BY <1>2, <2>1, Zenon
    <3>2. v4[u] \in [st : {"none", "open"}, props : {"none", "thread", "map"}, page : 0 .. Len(v1),
                     type : Threads!Plat \cup {"none"}]
      BY ThreadsTyped, Zenon
    <3>3. v4'[u].st = v4[u].st /\ v4'[u].type = v4[u].type
      BY <3>1, <3>2
    <3> QED
      BY <2>1, <3>3
  <2>2. CASE v4[u].st # "open"
    <3>1. v4'[u] = Threads!NoDlg
      BY <1>2, <2>2, Zenon
    <3> QED
      BY <2>2, <3>1 DEF Threads!NoDlg
  <2> QED
    BY <2>1, <2>2
<1>3. /\ v1' \in Seq([plat : Threads!Plat, auth : BOOLEAN]) /\ Len(v1') = Threads!Cardinality(on)
      /\ v2' \in [Threads!Plat -> 0 .. Len(v1')] /\ Len(v1') \in 0 .. 2
      /\ \A f \in on : v2'[f] \in 1 .. Len(v1') /\ v1'[v2'[f]] = [plat |-> f, auth |-> TRUE]
      /\ \A f \in Threads!Plat \ on : v2'[f] = 0
      /\ \A o \in 1 .. Len(v1') : v1'[o].plat \in on
  <2>1. on \subseteq Threads!Plat
    OBVIOUS
  <2> HIDE DEF on
  <2>2. v2' = Renumbered(on)
    BY <1>1, Zenon DEF Renumbered
  <2>3. v1' = Restored(on)
    BY <1>1, <2>2, Zenon DEF Restored
  <2> QED
    BY <2>1, <2>2, <2>3, ThreadsRestored, Zenon
<1>4. Len(v1') <= Len(v1)
  <2>1. CASE on = {}
    <3>1. \A o \in 1 .. Len(v1') : FALSE
      BY <1>3, <2>1
    <3>2. Len(v1') = 0
      BY <1>3, <3>1
    <3> QED
      BY <3>2, ThreadsTyped
  <2>2. CASE \E f \in on : on = {f}
    <3>1. PICK f \in on : on = {f}
      BY <2>2
    <3>2. v2[f] \in 1 .. Len(v1)
      BY ThreadsTyped
    <3>3. Len(v1') = 1
      <4>1. Threads!Cardinality(on) = Cardinality(on)
        BY DEF Threads!Cardinality, Cardinality
      <4> HIDE DEF on
      <4> QED
        BY <1>3, <3>1, <4>1, FS_Singleton
    <3> QED
      BY <3>2, <3>3, ThreadsTyped
  <2>3. CASE "facebook" \in on /\ "instagram" \in on
    <3>1. v1[v2["facebook"]].plat = "facebook" /\ v1[v2["instagram"]].plat = "instagram"
      BY <2>3 DEF Threads!IInv, Threads!Indexed
    <3>2. v2["facebook"] \in 1 .. Len(v1) /\ v2["instagram"] \in 1 .. Len(v1) /\ v2["facebook"] # v2["instagram"]
      BY <2>3, <3>1, ThreadsTyped
    <3> QED
      BY <1>3, <3>2, ThreadsTyped
  <2>4. on \subseteq {"facebook", "instagram"}
    BY DEF Threads!Plat
  <2> HIDE DEF on
  <2>5. on = {} \/ on = {"facebook"} \/ on = {"instagram"} \/ ("facebook" \in on /\ "instagram" \in on)
    BY <2>4, Zenon
  <2> QED
    BY <2>1, <2>2, <2>3, <2>5
<1> HIDE DEF on
<1>5. Threads!Typed'
  <2>1. v3' \in [Author -> 0 .. Len(v1')]
    <3>1. 0 \in 0 .. Len(v1')
      BY <1>3
    <3> QED
      BY <1>2, <3>1
  <2>2. v4' \in [Author -> Dialog(Len(v1'))]
    <3> SUFFICES ASSUME NEW u \in Author
                 PROVE  v4'[u] \in Dialog(Len(v1'))
      BY <1>2
    <3>1. 0 \in 0 .. Len(v1')
      BY <1>3
    <3>2. Threads!NoDlg \in Dialog(Len(v1'))
      BY <3>1 DEF Threads!NoDlg
    <3>3. [v4[u] EXCEPT !.props = "map", !.page = 0] \in Dialog(Len(v1'))
      <4>1. v4[u] \in [st : {"none", "open"}, props : {"none", "thread", "map"}, page : 0 .. Len(v1),
                       type : Threads!Plat \cup {"none"}]
        BY ThreadsTyped
      <4> QED
        BY <3>1, <4>1
    <3> QED
      BY <1>2, <3>2, <3>3
  <2>3. v5' \in [Author -> [page : 0 .. Len(v1'), fate : {"none", "sent", "refused", "lost"}]]
    <3>1. [page |-> 0, fate |-> "none"] \in [page : 0 .. Len(v1'), fate : {"none", "sent", "refused", "lost"}]
      BY <1>3
    <3> QED
      BY <1>2, <3>1
  <2>4. v8' \in 0 .. MaxBoots
    <3>1. v8 \in 0 .. MaxBoots /\ v8 < MaxBoots /\ v8' = v8 + 1
      BY <1>2, ThreadsTyped, Zenon
    <3> QED
      BY <3>1, ThreadsAssumption
  <2>5. Len(v1') <= MaxObj
    BY <1>3, <1>4, ThreadsTyped, ThreadsAssumption
  <2> QED
    BY <1>2, <1>3, <2>1, <2>2, <2>3, <2>4, <2>5, ThreadsTyped DEF Threads!Typed, Threads!Plat
<1>6. Threads!Indexed'
  <2> SUFFICES ASSUME NEW f \in Threads!Plat, v2'[f] # 0
               PROVE  v1'[v2'[f]].plat = f /\ v1'[v2'[f]].auth
    BY DEF Threads!Indexed, Threads!Plat
  <2> HIDE DEF on
  <2>1. f \in on
    BY <1>3, Zenon
  <2>2. v1'[v2'[f]] = [plat |-> f, auth |-> TRUE]
    BY <1>3, <2>1, Zenon
  <2> QED
    BY <2>2
<1>7. Threads!NoChatType'
  <2>1. \A u \in Author : v4'[u].st = "none" => v4'[u].type = "none"
    BY <1>d
  <2> QED
    BY <2>1 DEF Threads!NoChatType
<1>8. Threads!OnePlat'
  <2> SUFFICES ASSUME ~ v6
               PROVE  \A o, q \in DOMAIN v1' : v1'[o].plat = v1'[q].plat
    BY <1>2 DEF Threads!OnePlat
  <2>1. \A f, g \in on : f = g
    <3> TAKE f, g \in on
    <3>1. v2[f] \in DOMAIN v1 /\ v2[g] \in DOMAIN v1
      BY ThreadsTyped DEF on
    <3>2. v1[v2[f]].plat = f /\ v1[v2[g]].plat = g
      BY DEF on, Threads!IInv, Threads!Indexed
    <3>3. v1[v2[f]].plat = v1[v2[g]].plat
      BY <3>1 DEF Threads!IInv, Threads!OnePlat
    <3> QED
      BY <3>2, <3>3
  <2> HIDE DEF on
  <2>2. DOMAIN v1' = 1 .. Len(v1')
    BY <1>3
  <2> QED
    BY <1>3, <2>1, <2>2
<1>9. Threads!TypeKept'
  <2> SUFFICES ASSUME ~ v6, NEW u \in Author, v4'[u].st = "open"
               PROVE  v4'[u].type = Home[u]
    BY <1>2 DEF Threads!TypeKept
  <2>1. v4[u].st = "open" /\ v4'[u].type = v4[u].type
    BY <1>d
  <2> QED
    BY <2>1 DEF Threads!IInv, Threads!TypeKept
<1> QED
  BY <1>5, <1>6, <1>7, <1>8, <1>9 DEF Threads!IInv

LEMMA ThreadsStep ==
  ASSUME Threads!IInv, Threads!Next
  PROVE  Threads!IInv'
BY ThreadsInstall, ThreadsUninstall, ThreadsEcho, ThreadsMessage, ThreadsComment, ThreadsNoPage, ThreadsNotify,
   ThreadsClose, ThreadsReboot DEF Threads!Next

LEMMA ThreadsRests ==
  ASSUME Threads!IInv, v1' = v1, v2' = v2, v3' = v3, v4' = v4, v5' = v5, v6' = v6, v7' = v7, v8' = v8
  PROVE  Threads!IInv'
BY DEF Threads!IInv, Threads!Typed, Threads!Indexed, Threads!NoChatType, Threads!OnePlat, Threads!TypeKept

LEMMA ThreadsHolds ==
  ASSUME Threads!IInv
  PROVE  Threads!TypeOK /\ Threads!TypeKept
<1>1. v4 \in [Author -> Threads!Dlg]
  BY ThreadsTyped, ThreadsAssumption DEF Threads!Dlg
<1>2. Threads!TypeKept
  BY DEF Threads!IInv
<1> QED
  BY <1>1, <1>2, ThreadsTyped DEF Threads!TypeOK, Threads!IInv, Threads!Indexed, Threads!NoChatType
-----------------------------------------------------------------------------
(* WhatsApp: the numbers replies leave from *)

LEMMA NumbersStarts ==
  ASSUME Numbers!Init
  PROVE  Numbers!ReplyInv
BY DEF Numbers!Init, Numbers!ReplyInv, Numbers!BoundToFirst, Numbers!RepliesFromFirst, Numbers!NoTalk, Numbers!Nobody

LEMMA NumbersRests ==
  ASSUME Numbers!ReplyInv, v7' = v7, v8' = v8, v9' = v9
  PROVE  Numbers!ReplyInv'
BY DEF Numbers!ReplyInv, Numbers!BoundToFirst, Numbers!RepliesFromFirst

(* What was said stays said: registering, saving and moving accounts touches no dialog. *)
LEMMA NumbersManaged ==
  ASSUME NEW j \in Task, NEW S, NEW op, NEW ok
  PROVE  /\ Numbers!Setup(j, S) => v7' = v7 /\ v8' = v8 /\ v9' = v9
         /\ Numbers!Ask(j, op, S) => v7' = v7 /\ v8' = v8 /\ v9' = v9
         /\ Numbers!Posted(j, S) => v7' = v7 /\ v8' = v8 /\ v9' = v9
         /\ Numbers!Save(j, ok) => v7' = v7 /\ v8' = v8 /\ v9' = v9
         /\ Numbers!RenewToken(j, ok) => v7' = v7 /\ v8' = v8 /\ v9' = v9
         /\ Numbers!Register(j) => v7' = v7 /\ v8' = v8 /\ v9' = v9
         /\ Numbers!PostFails(j) => v7' = v7 /\ v8' = v8 /\ v9' = v9
         /\ Numbers!Removes(j) => v7' = v7 /\ v8' = v8 /\ v9' = v9
         /\ Numbers!TakeBackup(j) => v7' = v7 /\ v8' = v8 /\ v9' = v9
<1>1. /\ Numbers!Setup(j, S) => v7' = v7 /\ v8' = v8 /\ v9' = v9
      /\ Numbers!Ask(j, op, S) => v7' = v7 /\ v8' = v8 /\ v9' = v9
  BY Zenon DEF Numbers!Setup, Numbers!Ask
<1>2. /\ Numbers!Posted(j, S) => v7' = v7 /\ v8' = v8 /\ v9' = v9
      /\ Numbers!Save(j, ok) => v7' = v7 /\ v8' = v8 /\ v9' = v9
  BY Zenon DEF Numbers!Posted, Numbers!Save
<1>3. /\ Numbers!RenewToken(j, ok) => v7' = v7 /\ v8' = v8 /\ v9' = v9
      /\ Numbers!Register(j) => v7' = v7 /\ v8' = v8 /\ v9' = v9
  BY Zenon DEF Numbers!RenewToken, Numbers!Register
<1>4. /\ Numbers!PostFails(j) => v7' = v7 /\ v8' = v8 /\ v9' = v9
      /\ Numbers!Removes(j) => v7' = v7 /\ v8' = v8 /\ v9' = v9
      /\ Numbers!TakeBackup(j) => v7' = v7 /\ v8' = v8 /\ v9' = v9
  BY Zenon DEF Numbers!PostFails, Numbers!Removes, Numbers!TakeBackup
<1> QED
  BY <1>1, <1>2, <1>3, <1>4, Zenon

LEMMA NumbersReassign ==
  ASSUME NEW S, NEW a, NEW b, Numbers!Reassign(S, a, b)
  PROVE  v7' = v7 /\ v8' = v8 /\ v9' = v9
BY Zenon DEF Numbers!Reassign

LEMMA NumbersMessage ==
  ASSUME Numbers!ReplyInv, NEW c \in Customer, NEW n \in Number, NEW t, NEW bad, Numbers!OnMessage(c, n, t, bad)
  PROVE  Numbers!ReplyInv'
<1>1. /\ v9' = v9
      /\ \/ v7' = v7 /\ v8' = v8
         \/ /\ v7' = [v7 EXCEPT ![c] = Numbers!Bound(c, n)]
            /\ v8' = (IF v7[c] = Numbers!NoTalk THEN [v8 EXCEPT ![c] = n] ELSE v8)
  BY Zenon DEF Numbers!OnMessage
<1>2. CASE v7' = v7 /\ v8' = v8
  BY <1>1, <1>2, NumbersRests
<1>3. CASE /\ v7' = [v7 EXCEPT ![c] = Numbers!Bound(c, n)]
           /\ v8' = (IF v7[c] = Numbers!NoTalk THEN [v8 EXCEPT ![c] = n] ELSE v8)
  <2>1. CASE v7[c] = Numbers!NoTalk
    <3>1. v7' = [v7 EXCEPT ![c] = [num |-> n, as |-> "map"]] /\ v8' = [v8 EXCEPT ![c] = n]
      BY <1>3, <2>1 DEF Numbers!Bound
    <3> QED
      BY <1>1, <3>1 DEF Numbers!ReplyInv, Numbers!BoundToFirst, Numbers!RepliesFromFirst, Numbers!NoTalk
  <2>2. CASE v7[c] # Numbers!NoTalk
    <3>1. v7' = [v7 EXCEPT ![c] = v7[c]] /\ v8' = v8
      BY <1>3, <2>2 DEF Numbers!Bound
    <3>2. v7' = v7
      BY <3>1 DEF Numbers!ReplyInv, Numbers!BoundToFirst
    <3> QED
      BY <1>1, <3>1, <3>2, NumbersRests
  <2> QED
    BY <2>1, <2>2
<1> QED
  BY <1>1, <1>2, <1>3

LEMMA NumbersReply ==
  ASSUME Numbers!ReplyInv, NEW c \in Customer, NEW t, NEW bad, Numbers!SendUpdate(c, t, bad)
  PROVE  Numbers!ReplyInv'
<1>1. /\ v7[c] # Numbers!NoTalk /\ v8' = v8
      /\ \/ v7' = v7 /\ v9' = v9
         \/ /\ Numbers!Sender(c) # Numbers!NoAcct
            /\ v7' = [v7 EXCEPT ![c].as = "number"]
            /\ \/ v9' = v9
               \/ v9' = [customer |-> c, num |-> Numbers!Sender(c), first |-> v8[c]]
  BY DEF Numbers!SendUpdate
<1>2. CASE v7' = v7 /\ v9' = v9
  BY <1>1, <1>2, NumbersRests
<1>3. CASE /\ Numbers!Sender(c) # Numbers!NoAcct
           /\ v7' = [v7 EXCEPT ![c].as = "number"]
           /\ \/ v9' = v9
              \/ v9' = [customer |-> c, num |-> Numbers!Sender(c), first |-> v8[c]]
  <2>1. Numbers!Sender(c) = v7[c].num /\ v7[c].num = v8[c]
    BY <1>1, <1>3 DEF Numbers!Sender, Numbers!ReplyInv, Numbers!BoundToFirst
  <2>2. Numbers!RepliesFromFirst'
    BY <1>3, <2>1 DEF Numbers!ReplyInv, Numbers!RepliesFromFirst
  <2>3. Numbers!BoundToFirst'
    BY <1>1, <1>3, <2>1 DEF Numbers!ReplyInv, Numbers!BoundToFirst, Numbers!NoTalk
  <2> QED
    BY <2>2, <2>3 DEF Numbers!ReplyInv
<1> QED
  BY <1>1, <1>2, <1>3

LEMMA NumbersClosed ==
  ASSUME Numbers!ReplyInv, NEW c \in Customer, Numbers!Closed(c)
  PROVE  Numbers!ReplyInv'
BY DEF Numbers!Closed, Numbers!ReplyInv, Numbers!BoundToFirst, Numbers!RepliesFromFirst, Numbers!NoTalk

LEMMA NumbersRestart ==
  ASSUME Numbers!ReplyInv, NEW ok \in BOOLEAN, Numbers!Restart(ok)
  PROVE  Numbers!ReplyInv'
<1>1. /\ v7' = [c \in Customer |-> IF v7[c] = Numbers!NoTalk THEN Numbers!NoTalk ELSE [v7[c] EXCEPT !.as = "map"]]
      /\ v8' = v8 /\ v9' = v9
  BY Zenon DEF Numbers!Restart
<1> QED
  BY <1>1 DEF Numbers!ReplyInv, Numbers!BoundToFirst, Numbers!RepliesFromFirst, Numbers!NoTalk

LEMMA NumbersStep ==
  ASSUME Numbers!ReplyInv, Numbers!Next
  PROVE  Numbers!ReplyInv'
<1>1. ASSUME NEW j \in Task, NEW S, NEW op, NEW ok,
             \/ Numbers!Setup(j, S) \/ Numbers!Ask(j, op, S) \/ Numbers!Posted(j, S)
             \/ Numbers!Save(j, ok) \/ Numbers!RenewToken(j, ok)
             \/ Numbers!Register(j) \/ Numbers!PostFails(j) \/ Numbers!Removes(j) \/ Numbers!TakeBackup(j)
      PROVE  Numbers!ReplyInv'
  BY <1>1, NumbersManaged, NumbersRests, Zenon
<1>2. ASSUME NEW S, NEW a, NEW b, Numbers!Reassign(S, a, b)
      PROVE  Numbers!ReplyInv'
  BY <1>2, NumbersReassign, NumbersRests, Zenon
<1>3. ASSUME NEW c \in Customer, NEW n \in Number, NEW t, NEW bad,
             Numbers!OnMessage(c, n, t, bad) \/ Numbers!SendUpdate(c, t, bad) \/ Numbers!Closed(c)
      PROVE  Numbers!ReplyInv'
  BY <1>3, NumbersMessage, NumbersReply, NumbersClosed
<1> QED
  BY <1>1, <1>2, <1>3, NumbersRestart, NumbersReply, NumbersClosed DEF Numbers!Next
-----------------------------------------------------------------------------
(* Instagram: comments and mentions *)

LEMMA GramsSender ==
  ASSUME NEW h \in Happening
  PROVE  Grams!Sender(h) \in Grams!Contact /\ h.account \in Account
BY GramsAssumption DEF Grams!Sender, Grams!Contact, Grams!None

LEMMA GramsTyped ==
  ASSUME Grams!IInv
  PROVE  /\ v3 \in [Happening -> {"new", "called", "paged", "fetched", "found", "over"}]
         /\ v5 \in [Grams!Contact -> [pc : {"made", "started"}, page : Account] \cup {Grams!NoChat}]
         /\ v6 \in [Grams!Contact -> Account \cup {Grams!None}]
         /\ v4 \subseteq Happening /\ v9 \subseteq Happening /\ v8 \subseteq [h : Happening, chat : Grams!Contact]
BY DEF Grams!IInv, Grams!TypeOK

LEMMA GramsStarts ==
  ASSUME Grams!Init
  PROVE  Grams!IInv
<1>1. Grams!TypeOK
  BY GramsAssumption DEF Grams!Init, Grams!TypeOK, Grams!Field
<1>2. Grams!AtWork /\ Grams!Found /\ Grams!OwnChat /\ Grams!ReadWhenWanted
  BY GramsAssumption DEF Grams!Init, Grams!AtWork, Grams!Found, Grams!OwnChat, Grams!ReadWhenWanted
<1>3. Grams!FirstPage
  BY DEF Grams!Init, Grams!FirstPage, Grams!NoChat
<1> QED
  BY <1>1, <1>2, <1>3 DEF Grams!IInv

(* The work on one happening goes on, and nothing is read. *)
LEMMA GramsMoves ==
  ASSUME Grams!IInv, NEW h \in Happening, NEW x \in {"called", "paged", "fetched", "over"},
         v3[h] \in {"new", "called", "paged", "fetched", "found"}, v3' = [v3 EXCEPT ![h] = x],
         v4' \in {v4, v4 \cup {h}}, v9 \subseteq v9', v9' \subseteq v9 \cup {h},
         v1' = v1, v2' = v2, v5' = v5, v6' = v6, v7' = v7, v8' = v8, v10' = v10, v11' \in 0 .. MaxFails,
         v3[h] # "new" => v4' = v4,
         v3[h] = "new" => x \in {"called", "over"},
         x \in {"called", "paged", "fetched"} => h \in v4',
         x = "called" => v3[h] = "new",
         x = "paged" => h.account \in v2,
         x = "fetched" => Grams!Linkable(h),
         x = "over" => \/ h \in v9' \/ h \notin v4' \/ ~ Grams!Linkable(h)
  PROVE  Grams!IInv'
<1>0. v3'[h] = x /\ \A g \in Happening : g # h => v3'[g] = v3[g]
  BY GramsTyped
<1>1. Grams!TypeOK'
  BY GramsTyped DEF Grams!IInv, Grams!TypeOK
<1>2. ~ \E r \in v8 : r.h = h
  BY DEF Grams!IInv, Grams!AtWork
<1>3. ASSUME NEW g \in Happening
      PROVE  /\ v3'[g] # "over" => ~ \E r \in v8' : r.h = g
             /\ v3'[g] = "new" => g \notin v4'
             /\ v3'[g] \in {"called", "paged", "fetched", "found"} => g \in v4'
             /\ v3'[g] \in {"fetched", "found"} => Grams!Linkable(g)
             /\ v3'[g] \in {"new", "called"} /\ g.account \notin v2' => g \in v9'
  <2>1. CASE g = h
    <3>1. x = "called" /\ h.account \notin v2 => h \in v9
      BY DEF Grams!IInv, Grams!AtWork
    <3> QED
      BY <1>0, <1>2, <2>1, <3>1
  <2>2. CASE g # h
    <3>1. v3'[g] = v3[g] /\ (g \in v4' <=> g \in v4) /\ (g \in v9 => g \in v9')
      BY <1>0, <2>2
    <3> QED
      BY <3>1 DEF Grams!IInv, Grams!AtWork
  <2> QED
    BY <2>1, <2>2
<1>4. Grams!AtWork'
  BY <1>3 DEF Grams!AtWork, Grams!Linkable
<1>5. Grams!Found'
  <2> SUFFICES ASSUME NEW g \in Happening, v3'[g] = "found"
               PROVE  /\ v5[Grams!Sender(g)] # Grams!NoChat
                      /\ v5[Grams!Sender(g)].pc = "made" /\ Grams!Sender(g) \notin v7 => v5[Grams!Sender(g)].page = g.account
    BY DEF Grams!Found, Grams!Sender
  <2>1. v3[g] = "found"
    BY <1>0
  <2> QED
    BY <2>1 DEF Grams!IInv, Grams!Found
<1>6. Grams!OwnChat' /\ Grams!FirstPage'
  BY DEF Grams!IInv, Grams!OwnChat, Grams!FirstPage, Grams!Sender
<1>7. Grams!ReadWhenWanted'
  <2> SUFFICES ASSUME NEW g \in Happening, v3'[g] = "over", g \notin v9'
               PROVE  (\E r \in v8 : r.h = g) <=> (g \in v4' /\ (g.linked \/ g.field = "mentions"))
    BY DEF Grams!ReadWhenWanted
  <2>1. CASE g = h
    BY <1>0, <1>2, <2>1 DEF Grams!Linkable
  <2>2. CASE g # h
    <3>1. v3[g] = "over" /\ g \notin v9 /\ (g \in v4' <=> g \in v4)
      BY <1>0, <2>2
    <3> QED
      BY <3>1 DEF Grams!IInv, Grams!ReadWhenWanted
  <2> QED
    BY <2>1, <2>2
<1> QED
  BY <1>1, <1>4, <1>5, <1>6, <1>7 DEF Grams!IInv

LEMMA GramsWebhook ==
  ASSUME Grams!IInv, NEW h \in Happening, Grams!WebhookInstagram(h)
  PROVE  Grams!IInv'
<1>1. /\ v3[h] = "new" /\ v4' = (IF h.field \in v1 THEN v4 \cup {h} ELSE v4)
      /\ v3' = [v3 EXCEPT ![h] = IF h.field \in v1 THEN "called" ELSE "over"]
      /\ v1' = v1 /\ v2' = v2 /\ v5' = v5 /\ v6' = v6 /\ v7' = v7 /\ v8' = v8 /\ v9' = v9 /\ v10' = v10 /\ v11' = v11
  BY DEF Grams!WebhookInstagram, Grams!Hooked
<1>2. h \notin v4 /\ v11 \in 0 .. MaxFails
  BY <1>1 DEF Grams!IInv, Grams!AtWork, Grams!TypeOK
<1>3. CASE h.field \in v1
  <2>1. v3' = [v3 EXCEPT ![h] = "called"] /\ v4' = v4 \cup {h}
    BY <1>1, <1>3
  <2> QED
    BY <1>1, <1>2, <2>1, GramsMoves
<1>4. CASE h.field \notin v1
  <2>1. v3' = [v3 EXCEPT ![h] = "over"] /\ v4' = v4
    BY <1>1, <1>4
  <2> QED
    BY <1>1, <1>2, <2>1, GramsMoves
<1> QED
  BY <1>3, <1>4

LEMMA GramsGetPage ==
  ASSUME Grams!IInv, NEW h \in Happening, Grams!GetPage(h)
  PROVE  Grams!IInv'
<1>1. /\ v3[h] = "called" /\ v4' = v4 /\ v3' = [v3 EXCEPT ![h] = IF h.account \in v2 THEN "paged" ELSE "over"]
      /\ v1' = v1 /\ v2' = v2 /\ v5' = v5 /\ v6' = v6 /\ v7' = v7 /\ v8' = v8 /\ v9' = v9 /\ v10' = v10 /\ v11' = v11
  BY DEF Grams!GetPage
<1>2. h \in v4 /\ (h.account \notin v2 => h \in v9) /\ v11 \in 0 .. MaxFails
  BY <1>1 DEF Grams!IInv, Grams!AtWork, Grams!TypeOK
<1>3. CASE h.account \in v2
  <2>1. v3' = [v3 EXCEPT ![h] = "paged"]
    BY <1>1, <1>3
  <2> QED
    BY <1>1, <1>2, <1>3, <2>1, GramsMoves
<1>4. CASE h.account \notin v2
  <2>1. v3' = [v3 EXCEPT ![h] = "over"]
    BY <1>1, <1>4
  <2> QED
    BY <1>1, <1>2, <1>4, <2>1, GramsMoves
<1> QED
  BY <1>3, <1>4

LEMMA GramsFetch ==
  ASSUME Grams!IInv, NEW h \in Happening, Grams!Fetch(h)
  PROVE  Grams!IInv'
<1>1. /\ v3[h] = "paged" /\ v4' = v4 /\ v3' = [v3 EXCEPT ![h] = IF Grams!Linked(h) THEN "fetched" ELSE "over"]
      /\ v1' = v1 /\ v2' = v2 /\ v5' = v5 /\ v6' = v6 /\ v7' = v7 /\ v8' = v8 /\ v9' = v9 /\ v10' = v10 /\ v11' = v11
  BY DEF Grams!Fetch
<1>2. h \in v4 /\ v11 \in 0 .. MaxFails /\ (Grams!Linked(h) <=> Grams!Linkable(h))
  BY <1>1 DEF Grams!IInv, Grams!AtWork, Grams!TypeOK, Grams!Linked, Grams!Linkable
<1>3. CASE Grams!Linked(h)
  <2>1. v3' = [v3 EXCEPT ![h] = "fetched"]
    BY <1>1, <1>3
  <2> QED
    BY <1>1, <1>2, <1>3, <2>1, GramsMoves
<1>4. CASE ~ Grams!Linked(h)
  <2>1. v3' = [v3 EXCEPT ![h] = "over"]
    BY <1>1, <1>4
  <2> QED
    BY <1>1, <1>2, <1>4, <2>1, GramsMoves
<1> QED
  BY <1>3, <1>4

LEMMA GramsFails ==
  ASSUME Grams!IInv, NEW h \in Happening, Grams!Fails(h)
  PROVE  Grams!IInv'
<1>1. /\ v3[h] \in {"paged", "fetched", "found"} /\ v4' = v4 /\ v3' = [v3 EXCEPT ![h] = "over"] /\ v9' = v9 \cup {h}
      /\ v1' = v1 /\ v2' = v2 /\ v5' = v5 /\ v6' = v6 /\ v7' = v7 /\ v8' = v8 /\ v10' = v10
      /\ v11 < MaxFails /\ v11' = v11 + 1
  BY DEF Grams!Fails
<1>2. v11' \in 0 .. MaxFails
  BY <1>1, GramsAssumption DEF Grams!IInv, Grams!TypeOK
<1> QED
  BY <1>1, <1>2, GramsMoves

(* The settings or the pages change. *)
LEMMA GramsAround ==
  ASSUME Grams!IInv, (\E f \in Grams!Field : Grams!New(f)) \/ (\E a \in Account : Grams!DelPage(a))
  PROVE  Grams!IInv'
<1>0. v3' = v3 /\ v4' = v4 /\ v5' = v5 /\ v6' = v6 /\ v7' = v7 /\ v8' = v8
  BY DEF Grams!New, Grams!DelPage
<1>1. /\ v1' \subseteq Grams!Field /\ v2' \subseteq Account /\ v9' \subseteq Happening /\ v9 \subseteq v9'
      /\ v10' \in 0 .. MaxSettings /\ v11' \in 0 .. MaxFails
      /\ \A h \in Happening : v3[h] \in {"new", "called"} /\ h.account \notin v2' => h.account \notin v2 \/ h \in v9'
  <2>0. /\ v1 \subseteq Grams!Field /\ v2 \subseteq Account /\ v9 \subseteq Happening
        /\ v10 \in 0 .. MaxSettings /\ v11 \in 0 .. MaxFails
    BY DEF Grams!IInv, Grams!TypeOK
  <2>1. ASSUME NEW f \in Grams!Field, Grams!New(f)
        PROVE  /\ v1' \subseteq Grams!Field /\ v2' = v2 /\ v9' = v9 /\ v10' \in 0 .. MaxSettings /\ v11' = v11
    BY <2>0, <2>1, GramsAssumption DEF Grams!New
  <2>2. ASSUME NEW a \in Account, Grams!DelPage(a)
        PROVE  /\ v1' = v1 /\ v2' = v2 \ {a} /\ v10' = v10 /\ v11' \in 0 .. MaxFails
               /\ v9' = v9 \cup {h \in Happening : h.account = a /\ v3[h] \in {"new", "called"}}
    BY <2>0, <2>2, GramsAssumption DEF Grams!DelPage
  <2> QED
    BY <2>0, <2>1, <2>2
<1>2. Grams!TypeOK'
  BY <1>0, <1>1, GramsTyped DEF Grams!IInv, Grams!TypeOK
<1>3. Grams!AtWork'
  <2>1. Grams!AtWork
    BY DEF Grams!IInv
  <2> QED
    BY <1>0, <1>1, <2>1 DEF Grams!AtWork, Grams!Linkable
<1>4. Grams!Found' /\ Grams!OwnChat' /\ Grams!FirstPage'
  BY <1>0 DEF Grams!IInv, Grams!Found, Grams!OwnChat, Grams!FirstPage, Grams!Sender
<1>5. Grams!ReadWhenWanted'
  BY <1>0, <1>1 DEF Grams!IInv, Grams!ReadWhenWanted
<1> QED
  BY <1>2, <1>3, <1>4, <1>5 DEF Grams!IInv

LEMMA GramsChannel ==
  ASSUME Grams!IInv, NEW h \in Happening, Grams!GetChannel(h)
  PROVE  Grams!IInv'
<1> DEFINE s == Grams!Sender(h)
<1>0. /\ v3[h] = "fetched" /\ v3' = [v3 EXCEPT ![h] = "found"] /\ v5' = [v5 EXCEPT ![s] = Grams!Bound(s, h.account)]
      /\ v7' = (IF v5[s].pc = "made" THEN v7 \cup {s} ELSE v7)
      /\ v1' = v1 /\ v2' = v2 /\ v4' = v4 /\ v6' = v6 /\ v8' = v8 /\ v9' = v9 /\ v10' = v10 /\ v11' = v11
  BY DEF Grams!GetChannel
<1>1. s \in Grams!Contact /\ h.account \in Account
  BY GramsSender
<1>2. PICK b : b = Grams!Bound(s, h.account)
  OBVIOUS
<1>3. /\ b \in [pc : {"made", "started"}, page : Account]
      /\ v5[s].pc = "started" => b = v5[s]
      /\ v5[s].pc # "started" => b.pc = "made" /\ b.page = h.account
  BY <1>1, <1>2, GramsTyped DEF Grams!Bound, Grams!NoChat
<1>4. /\ v3'[h] = "found" /\ \A g \in Happening : g # h => v3'[g] = v3[g]
      /\ v5'[s] = b /\ \A c \in Grams!Contact : c # s => v5'[c] = v5[c]
      /\ b # Grams!NoChat
  BY <1>0, <1>1, <1>2, <1>3, GramsTyped DEF Grams!NoChat
<1> HIDE DEF s
<1>5. Grams!TypeOK'
  BY <1>0, <1>1, <1>2, <1>3, GramsTyped DEF Grams!IInv, Grams!TypeOK
<1>6. Grams!AtWork'
  <2> SUFFICES ASSUME NEW g \in Happening
      PROVE  /\ v3'[g] # "over" => ~ \E r \in v8 : r.h = g
             /\ v3'[g] = "new" => g \notin v4
             /\ v3'[g] \in {"called", "paged", "fetched", "found"} => g \in v4
             /\ v3'[g] \in {"fetched", "found"} => Grams!Linkable(g)
             /\ v3'[g] \in {"new", "called"} /\ g.account \notin v2 => g \in v9
    BY <1>0 DEF Grams!AtWork, Grams!Linkable
  <2>1. v3'[g] = v3[g] \/ (v3[g] = "fetched" /\ v3'[g] = "found")
    BY <1>0, <1>4
  <2> QED
    BY <2>1 DEF Grams!IInv, Grams!AtWork
<1>7. Grams!Found'
  <2> SUFFICES ASSUME NEW g \in Happening, v3'[g] = "found"
               PROVE  /\ v5'[Grams!Sender(g)] # Grams!NoChat
                      /\ v5'[Grams!Sender(g)].pc = "made" /\ Grams!Sender(g) \notin v7'
                           => v5'[Grams!Sender(g)].page = g.account
    BY DEF Grams!Found, Grams!Sender
  <2>0. Grams!Sender(g) \in Grams!Contact
    BY GramsSender
  <2>1. CASE Grams!Sender(g) # s
    <3>1. v3[g] = "found"
      BY <1>4, <2>1 DEF s
    <3> QED
      BY <1>0, <1>4, <2>0, <2>1, <3>1 DEF Grams!IInv, Grams!Found
  <2>2. CASE Grams!Sender(g) = s
    <3>1. CASE g = h
      BY <1>3, <1>4, <1>0, <2>2, <3>1
    <3>2. CASE g # h
      <4>1. v5[s] # Grams!NoChat
        BY <1>4, <2>2, <3>2 DEF Grams!IInv, Grams!Found
      <4>2. v5[s].pc \in {"made", "started"}
        BY <1>1, <4>1, GramsTyped
      <4> QED
        BY <1>0, <1>3, <1>4, <2>2, <4>2
    <3> QED
      BY <3>1, <3>2
  <2> QED
    BY <2>1, <2>2
<1>8. Grams!OwnChat'
  BY <1>0 DEF Grams!IInv, Grams!OwnChat, Grams!Sender
<1>9. Grams!FirstPage'
  <2> SUFFICES ASSUME NEW c \in Grams!Contact, c \notin v7', v5'[c].pc = "started"
               PROVE  v5'[c].page = v6[c]
    BY <1>0 DEF Grams!FirstPage
  <2>1. v5'[c] = v5[c] /\ c \notin v7
    BY <1>0, <1>3, <1>4
  <2> QED
    BY <2>1 DEF Grams!IInv, Grams!FirstPage
<1>10. Grams!ReadWhenWanted'
  BY <1>0, <1>4 DEF Grams!IInv, Grams!ReadWhenWanted
<1> QED
  BY <1>5, <1>6, <1>7, <1>8, <1>9, <1>10 DEF Grams!IInv

LEMMA GramsRead ==
  ASSUME Grams!IInv, NEW h \in Happening, Grams!Read(h)
  PROVE  Grams!IInv'
<1> DEFINE s == Grams!Sender(h)
           x == [h |-> h, chat |-> s]
<1>0. /\ v3[h] = "found" /\ v3' = [v3 EXCEPT ![h] = "over"] /\ v5' = [v5 EXCEPT ![s].pc = "started"]
      /\ v6' = (IF v5[s].pc = "started" THEN v6 ELSE [v6 EXCEPT ![s] = h.account])
      /\ v8' = v8 \cup {x}
      /\ v1' = v1 /\ v2' = v2 /\ v4' = v4 /\ v7' = v7 /\ v9' = v9 /\ v10' = v10 /\ v11' = v11
  BY DEF Grams!Read
<1>1. s \in Grams!Contact /\ h.account \in Account /\ v5[s] \in [pc : {"made", "started"}, page : Account]
  <2>1. v5[s] # Grams!NoChat /\ s \in Grams!Contact /\ h.account \in Account
    BY <1>0, GramsSender DEF Grams!IInv, Grams!Found
  <2> QED
    BY <2>1, GramsTyped
<1>2. PICK b : b = [v5[s] EXCEPT !.pc = "started"]
  OBVIOUS
<1>3. b \in [pc : {"made", "started"}, page : Account] /\ b.pc = "started" /\ b.page = v5[s].page /\ b # Grams!NoChat
      /\ v5' = [v5 EXCEPT ![s] = b]
  BY <1>0, <1>1, <1>2 DEF Grams!NoChat
<1>4. /\ v3'[h] = "over" /\ \A g \in Happening : g # h => v3'[g] = v3[g]
      /\ v5'[s] = b /\ \A c \in Grams!Contact : c # s => v5'[c] = v5[c]
  BY <1>0, <1>1, <1>3, GramsTyped
<1>5. /\ x \in [h : Happening, chat : Grams!Contact] /\ x.h = h /\ x.chat = s
  BY <1>1
<1>6. h \in v4 /\ Grams!Linkable(h)
  BY <1>0 DEF Grams!IInv, Grams!AtWork
<1> HIDE DEF x
<1>7. Grams!TypeOK'
  <2>1. v3' \in [Happening -> {"new", "called", "paged", "fetched", "found", "over"}]
    BY <1>0, GramsTyped
  <2>2. v5' \in [Grams!Contact -> [pc : {"made", "started"}, page : Account] \cup {Grams!NoChat}]
    BY <1>1, <1>3, GramsTyped
  <2>3. v6' \in [Grams!Contact -> Account \cup {Grams!None}]
    BY <1>0, <1>1, GramsTyped
  <2> QED
    BY <1>0, <1>5, <2>1, <2>2, <2>3, GramsTyped DEF Grams!IInv, Grams!TypeOK
<1>8. Grams!AtWork'
  <2> SUFFICES ASSUME NEW g \in Happening
      PROVE  /\ v3'[g] # "over" => ~ \E r \in v8' : r.h = g
             /\ v3'[g] = "new" => g \notin v4
             /\ v3'[g] \in {"called", "paged", "fetched", "found"} => g \in v4
             /\ v3'[g] \in {"fetched", "found"} => Grams!Linkable(g)
             /\ v3'[g] \in {"new", "called"} /\ g.account \notin v2 => g \in v9
    BY <1>0 DEF Grams!AtWork, Grams!Linkable
  <2>1. CASE g = h
    BY <1>4, <2>1
  <2>2. CASE g # h
    BY <1>0, <1>4, <1>5, <2>2 DEF Grams!IInv, Grams!AtWork
  <2> QED
    BY <2>1, <2>2
<1>9. Grams!Found'
  <2> SUFFICES ASSUME NEW g \in Happening, v3'[g] = "found"
               PROVE  /\ v5'[Grams!Sender(g)] # Grams!NoChat
                      /\ v5'[Grams!Sender(g)].pc = "made" /\ Grams!Sender(g) \notin v7
                           => v5'[Grams!Sender(g)].page = g.account
    BY <1>0 DEF Grams!Found, Grams!Sender
  <2>0. Grams!Sender(g) \in Grams!Contact /\ v3[g] = "found"
    BY <1>4, GramsSender
  <2>1. CASE Grams!Sender(g) # s
    BY <1>4, <2>0, <2>1 DEF Grams!IInv, Grams!Found
  <2>2. CASE Grams!Sender(g) = s
    BY <1>3, <1>4, <2>2
  <2> QED
    BY <2>1, <2>2
<1>10. Grams!OwnChat'
  BY <1>0, <1>5 DEF Grams!IInv, Grams!OwnChat, Grams!Sender
<1>11. Grams!FirstPage'
  <2> SUFFICES ASSUME NEW c \in Grams!Contact, c \notin v7, v5'[c].pc = "started"
               PROVE  v5'[c].page = v6'[c]
    BY <1>0 DEF Grams!FirstPage
  <2>1. CASE c # s
    BY <1>0, <1>4, <2>1, GramsTyped DEF Grams!IInv, Grams!FirstPage
  <2>2. CASE c = s /\ v5[s].pc = "started"
    BY <1>0, <1>3, <1>4, <2>2 DEF Grams!IInv, Grams!FirstPage
  <2>3. CASE c = s /\ v5[s].pc # "started"
    <3>1. v5[s].pc = "made" /\ v6'[s] = h.account
      BY <1>0, <1>1, <2>3, GramsTyped
    <3>2. v5[s].page = h.account
      BY <1>0, <2>3, <3>1 DEF Grams!IInv, Grams!Found
    <3> QED
      BY <1>3, <1>4, <2>3, <3>1, <3>2
  <2> QED
    BY <2>1, <2>2, <2>3
<1>12. Grams!ReadWhenWanted'
  <2> SUFFICES ASSUME NEW g \in Happening, v3'[g] = "over", g \notin v9
               PROVE  (\E r \in v8' : r.h = g) <=> (g \in v4 /\ (g.linked \/ g.field = "mentions"))
    BY <1>0 DEF Grams!ReadWhenWanted
  <2>1. CASE g = h
    BY <1>0, <1>5, <1>6, <2>1 DEF Grams!Linkable
  <2>2. CASE g # h
    <3>1. (\E r \in v8' : r.h = g) <=> (\E r \in v8 : r.h = g)
      BY <1>0, <1>5, <2>2
    <3>2. v3[g] = "over"
      BY <1>4, <2>2
    <3> QED
      BY <3>1, <3>2 DEF Grams!IInv, Grams!ReadWhenWanted
  <2> QED
    BY <2>1, <2>2
<1> QED
  BY <1>7, <1>8, <1>9, <1>10, <1>11, <1>12 DEF Grams!IInv

LEMMA GramsStep ==
  ASSUME Grams!IInv, Grams!Next
  PROVE  Grams!IInv'
BY GramsAround, GramsWebhook, GramsGetPage, GramsFetch, GramsChannel, GramsRead, GramsFails DEF Grams!Next

LEMMA GramsRests ==
  ASSUME Grams!IInv, UNCHANGED <<v1, v2, v3, v4, v5, v6, v7, v8, v9, v10, v11>>
  PROVE  Grams!IInv'
<1>1. Grams!TypeOK'
  BY DEF Grams!IInv, Grams!TypeOK
<1>2. Grams!AtWork' /\ Grams!ReadWhenWanted'
  BY DEF Grams!IInv, Grams!AtWork, Grams!Linkable, Grams!ReadWhenWanted
<1>3. Grams!Found' /\ Grams!OwnChat' /\ Grams!FirstPage'
  BY DEF Grams!IInv, Grams!Found, Grams!OwnChat, Grams!FirstPage, Grams!Sender
<1> QED
  BY <1>1, <1>2, <1>3 DEF Grams!IInv

LEMMA GramsHolds ==
  ASSUME Grams!IInv
  PROVE  Grams!TypeOK /\ Grams!ReadWhenWanted /\ Grams!NobodyElses /\ Grams!FirstPage
<1>1. ASSUME NEW r \in v8, r.chat \in Author PROVE r.chat = r.h.author
  <2>1. r.chat = Grams!Sender(r.h) /\ r.h \in Happening
    BY GramsTyped DEF Grams!IInv, Grams!OwnChat
  <2> QED
    BY <1>1, <2>1, GramsAssumption DEF Grams!Sender
<1> QED
  BY <1>1 DEF Grams!IInv, Grams!NobodyElses
-----------------------------------------------------------------------------
(* Broadcasts by Messenger *)

LEMMA CastTyped ==
  ASSUME Casts!IInv
  PROVE  /\ Len(To) \in Nat /\ Casts!Place = 1 .. Len(To) /\ v5 \in 1 .. Len(To) + 1
         /\ v8 \in Seq(Casts!Place) /\ Len(v8) \in Nat /\ DOMAIN v8 = 1 .. Len(v8)
         /\ v9 \subseteq Casts!Place /\ \A k \in DOMAIN v8 : v8[k] \in Casts!Place
         /\ v10 \in Nat /\ v11 \in Nat /\ v12 \in Nat
<1>1. Len(To) \in Nat /\ Casts!Place = 1 .. Len(To)
  BY CastAssumption DEF Casts!Place
<1>2. v8 \in Seq(Casts!Place) /\ v5 \in 1 .. Len(To) + 1 /\ v9 \subseteq Casts!Place
      /\ v10 \in Nat /\ v11 \in Nat /\ v12 \in Nat
  BY CastAssumption DEF Casts!IInv, Casts!TypeOK
<1>3. Len(v8) \in Nat /\ DOMAIN v8 = 1 .. Len(v8) /\ \A k \in DOMAIN v8 : v8[k] \in Casts!Place
  BY <1>2
<1> QED
  BY <1>1, <1>2, <1>3

LEMMA CastStarts ==
  ASSUME Casts!Init
  PROVE  Casts!IInv
<1>1. /\ v1 \in [Casts!Place -> Speaker \cup {Casts!None}] /\ v2 = [p \in Casts!Place |-> Casts!None]
      /\ v3 = Speaker /\ v4 = Casts!None /\ v5 = 1 /\ v6 = "lookup" /\ v7 = [p \in Casts!Place |-> 0]
      /\ v8 = <<>> /\ v9 = {} /\ v10 = 0 /\ v11 = 0 /\ v12 = 0
  BY DEF Casts!Init
<1>2. <<>> \in Seq(Casts!Place) /\ DOMAIN v8 = {} /\ v5 \in 1 .. Len(To) + 1 /\ v9 \subseteq Casts!Place
      /\ v10 \in 0 .. MaxCasts /\ v11 \in 0 .. MaxChanges /\ v12 \in 0 .. MaxFails
  BY <1>1, CastAssumption
<1>3. Casts!TypeOK
  BY <1>1, <1>2 DEF Casts!TypeOK
<1>4. Casts!Done /\ Casts!CaptionDue
  BY <1>1, <1>2 DEF Casts!Done, Casts!CaptionDue, Casts!None
<1> QED
  BY <1>1, <1>2, <1>3, <1>4 DEF Casts!IInv

(* The request goes on to the next peer, and the one at work was named. *)
LEMMA CastNamed ==
  ASSUME Casts!IInv, v5 <= Len(To), v8' = Append(v8, v5), v5' = v5 + 1, v6' = "lookup",
         v4' = v4, v7' = v7, v9' = v9
  PROVE  /\ v8' \in Seq(Casts!Place) /\ (\A k \in DOMAIN v8' : v8'[k] \in Casts!Place)
         /\ v5' \in 1 .. Len(To) + 1 /\ Casts!Done' /\ Casts!CaptionDue'
<1>0. v5 \in Casts!Place /\ v5 \in Nat /\ \A i \in Casts!Place : i \in Nat
  BY CastTyped
<1>1. /\ v8' \in Seq(Casts!Place) /\ DOMAIN v8' = 1 .. Len(v8) + 1 /\ v8'[Len(v8) + 1] = v5
      /\ \A k \in 1 .. Len(v8) : v8'[k] = v8[k]
  BY <1>0, CastTyped
<1>2. \A k \in DOMAIN v8' : k \in DOMAIN v8 \/ k = Len(v8) + 1
  BY <1>1, CastTyped
<1>3. \A k \in DOMAIN v8 : v8'[k] = v8[k] /\ v8[k] \in Nat /\ v8[k] < v5 /\ v8[k] \notin v9
  BY <1>0, <1>1, CastTyped DEF Casts!IInv, Casts!Done
<1>4. v5 \notin v9
  BY <1>0 DEF Casts!IInv, Casts!Done
<1>5. \A k \in DOMAIN v8' : v8'[k] < v5' /\ v8'[k] \notin v9'
  BY <1>0, <1>1, <1>2, <1>3, <1>4
<1>6. ASSUME NEW k \in DOMAIN v8', NEW l \in DOMAIN v8', v8'[k] = v8'[l] PROVE k = l
  BY <1>0, <1>1, <1>2, <1>3, <1>6 DEF Casts!IInv, Casts!Done
<1>7. \A p \in v9' : p < v5' /\ (v4' \in {"text", "file", "captioned"} => Casts!Whole(p)')
  <2>1. \A p \in v9 : p \in Nat /\ p < v5 /\ (v4 \in {"text", "file", "captioned"} => Casts!Whole(p))
    BY <1>0, CastTyped DEF Casts!IInv, Casts!Done
  <2> QED
    BY <1>0, <2>1 DEF Casts!Whole
<1>8. v4' \in {"text", "file", "captioned"} =>
        \A p \in Casts!Place : p < v5' => p \in v9' \/ \E k \in DOMAIN v8' : v8'[k] = p
  <2> SUFFICES ASSUME v4 \in {"text", "file", "captioned"}, NEW p \in Casts!Place, p < v5 + 1
               PROVE  p \in v9 \/ \E k \in DOMAIN v8' : v8'[k] = p
    OBVIOUS
  <2>1. CASE p = v5
    <3>1. Len(v8) + 1 \in DOMAIN v8' /\ v8'[Len(v8) + 1] = p
      BY <1>1, <2>1, CastTyped
    <3> QED
      BY <3>1
  <2>2. CASE p < v5
    <3>1. p \in v9 \/ \E k \in DOMAIN v8 : v8[k] = p
      BY <2>2 DEF Casts!IInv, Casts!Done
    <3> QED
      BY <1>1, <3>1, CastTyped
  <2> QED
    BY <1>0, <2>1, <2>2
<1>9. Casts!Done'
  BY <1>5, <1>6, <1>7, <1>8 DEF Casts!Done
<1>10. Casts!CaptionDue'
  BY DEF Casts!CaptionDue
<1>11. v5' \in 1 .. Len(To) + 1
  BY CastTyped
<1>12. \A k \in DOMAIN v8' : v8'[k] \in Casts!Place
  BY <1>1
<1> QED
  BY <1>1, <1>9, <1>10, <1>11, <1>12

(* The request goes on to the next peer, and the one at work has got all. *)
LEMMA CastBound ==
  ASSUME Casts!IInv, v5 <= Len(To), NEW x, v7' = [v7 EXCEPT ![v5] = x],
         v4 \in {"text", "file", "captioned"} =>
           x = (IF v4 = "captioned" /\ KindOf[v5] # "whatsapp" THEN 2 ELSE 1) /\ v9' = v9 \cup {v5},
         v9' \in {v9, v9 \cup {v5}}, v8' = v8, v5' = v5 + 1, v6' = "lookup", v4' = v4
  PROVE  v9' \subseteq Casts!Place /\ v5' \in 1 .. Len(To) + 1 /\ Casts!Done' /\ Casts!CaptionDue'
<1>0. v5 \in Casts!Place /\ v5 \in Nat /\ \A i \in Casts!Place : i \in Nat
  BY CastTyped
<1>1. v7 \in [Casts!Place -> 0 .. 2]
  BY DEF Casts!IInv, Casts!TypeOK
<1>2. \A k \in DOMAIN v8' : v8'[k] < v5' /\ v8'[k] \notin v9'
  <2>1. \A k \in DOMAIN v8 : v8[k] \in Nat /\ v8[k] < v5 /\ v8[k] \notin v9
    BY <1>0, CastTyped DEF Casts!IInv, Casts!Done
  <2> QED
    BY <1>0, <2>1
<1>3. \A k, l \in DOMAIN v8' : v8'[k] = v8'[l] => k = l
  BY DEF Casts!IInv, Casts!Done
<1>4. \A p \in v9' : p < v5' /\ (v4' \in {"text", "file", "captioned"} => Casts!Whole(p)')
  <2>1. \A p \in v9 : p \in Nat /\ p < v5 /\ (v4 \in {"text", "file", "captioned"} => Casts!Whole(p))
    BY <1>0, CastTyped DEF Casts!IInv, Casts!Done
  <2>2. \A p \in v9 : p < v5' /\ (v4' \in {"text", "file", "captioned"} => Casts!Whole(p)')
    BY <1>0, <1>1, <2>1 DEF Casts!Whole
  <2>3. v4' \in {"text", "file", "captioned"} =>
          v7'[v5] = (IF v4' = "captioned" /\ KindOf[v5] # "whatsapp" THEN 2 ELSE 1)
    BY <1>0, <1>1
  <2> QED
    BY <1>0, <2>2, <2>3 DEF Casts!Whole
<1>5. v4' \in {"text", "file", "captioned"} =>
        \A p \in Casts!Place : p < v5' => p \in v9' \/ \E k \in DOMAIN v8' : v8'[k] = p
  <2> SUFFICES ASSUME v4 \in {"text", "file", "captioned"}, NEW p \in Casts!Place, p < v5 + 1
               PROVE  p \in v9 \cup {v5} \/ \E k \in DOMAIN v8 : v8[k] = p
    OBVIOUS
  <2>1. p = v5 \/ p < v5
    BY <1>0
  <2> QED
    BY <2>1 DEF Casts!IInv, Casts!Done
<1>6. Casts!Done'
  BY <1>2, <1>3, <1>4, <1>5 DEF Casts!Done
<1>7. Casts!CaptionDue'
  BY DEF Casts!CaptionDue
<1> QED
  BY <1>0, <1>6, <1>7, CastTyped

(* Nothing of the request changes. *)
LEMMA CastKept ==
  ASSUME Casts!IInv, v4' = v4, v5' = v5, v6' = v6, v7' = v7, v8' = v8, v9' = v9
  PROVE  Casts!Done' /\ Casts!CaptionDue'
BY DEF Casts!IInv, Casts!Done, Casts!CaptionDue, Casts!Whole

LEMMA CastBegins ==
  ASSUME Casts!IInv, NEW b \in Casts!Body, Casts!BroadcastMessage(b)
  PROVE  Casts!IInv'
<1>1. /\ v4' = b /\ v5' = 1 /\ v6' = "lookup" /\ v7' = [p \in Casts!Place |-> 0] /\ v8' = <<>> /\ v9' = {}
      /\ v10 < MaxCasts /\ v10' = v10 + 1
      /\ v1' = v1 /\ v2' = v2 /\ v3' = v3 /\ v11' = v11 /\ v12' = v12
  BY DEF Casts!BroadcastMessage
<1>2. <<>> \in Seq(Casts!Place) /\ DOMAIN v8' = {}
  BY <1>1
<1>3. v8' \in Seq(Casts!Place)
  BY <1>1, <1>2, Zenon
<1>4. v5' \in 1 .. Len(To) + 1 /\ v10' \in 0 .. MaxCasts
  BY <1>1, CastTyped, CastAssumption
<1>5. Casts!TypeOK'
  BY <1>1, <1>2, <1>4 DEF Casts!IInv, Casts!TypeOK
<1>6. \A p \in Casts!Place : ~ (p < v5')
  BY <1>1, CastTyped
<1>7. Casts!Done' /\ Casts!CaptionDue'
  BY <1>1, <1>2, <1>6 DEF Casts!Done, Casts!CaptionDue
<1> QED
  BY <1>3, <1>5, <1>7 DEF Casts!IInv

LEMMA CastLookup ==
  ASSUME Casts!IInv, Casts!Lookup \/ Casts!LookupFails
  PROVE  Casts!IInv'
<1>0. /\ v5 <= Len(To) /\ v6 = "lookup" /\ v4' = v4 /\ v7' = v7 /\ v9' = v9
      /\ v1' = v1 /\ v3' = v3 /\ v10' = v10 /\ v11' = v11
  BY DEF Casts!Lookup, Casts!LookupFails, Casts!At
<1>1. v2' \in [Casts!Place -> Speaker \cup {Casts!None}] /\ v12' \in 0 .. MaxFails
  <2>1. v2 \in [Casts!Place -> Speaker \cup {Casts!None}] /\ v1 \in [Casts!Place -> Speaker \cup {Casts!None}]
        /\ v12 \in 0 .. MaxFails /\ v5 \in Casts!Place
    BY <1>0, CastTyped DEF Casts!IInv, Casts!TypeOK
  <2>2. CASE Casts!Lookup
    BY <2>1, <2>2 DEF Casts!Lookup, Casts!Cached
  <2>3. CASE Casts!LookupFails
    BY <2>1, <2>3, CastAssumption DEF Casts!LookupFails
  <2> QED
    BY <2>2, <2>3
<1>2. CASE v8' = Append(v8, v5) /\ v5' = v5 + 1 /\ v6' = "lookup"
  <2>1. /\ v8' \in Seq(Casts!Place) /\ (\A k \in DOMAIN v8' : v8'[k] \in Casts!Place)
        /\ v5' \in 1 .. Len(To) + 1 /\ Casts!Done' /\ Casts!CaptionDue'
    BY <1>0, <1>2, CastNamed
  <2>2. Casts!TypeOK'
    BY <1>0, <1>1, <1>2, <2>1 DEF Casts!IInv, Casts!TypeOK
  <2> QED
    BY <2>1, <2>2 DEF Casts!IInv
<1>3. CASE v8' = v8 /\ v5' = v5 /\ v6' = "part"
  <2>1. Casts!TypeOK'
    BY <1>0, <1>1, <1>3 DEF Casts!IInv, Casts!TypeOK
  <2>2. Casts!Done' /\ Casts!CaptionDue'
    BY <1>0, <1>3 DEF Casts!IInv, Casts!Done, Casts!CaptionDue, Casts!Whole
  <2> QED
    BY <1>3, <2>1, <2>2 DEF Casts!IInv
<1> QED
  BY <1>2, <1>3 DEF Casts!Lookup, Casts!LookupFails, Casts!SetError, Casts!Proceed

LEMMA CastSendPart ==
  ASSUME Casts!IInv, Casts!SendPart
  PROVE  Casts!IInv'
<1>0. /\ v5 <= Len(To) /\ v6 = "part" /\ v4' = v4 /\ v8' = v8 /\ v2' = v2
      /\ v1' = v1 /\ v3' = v3 /\ v10' = v10 /\ v11' = v11 /\ v12' = v12
      /\ v7' = [v7 EXCEPT ![v5] = IF Casts!Parts = 0 THEN 0 ELSE 1]
  BY DEF Casts!SendPart, Casts!At
<1>1. v5 \in Casts!Place /\ v7 \in [Casts!Place -> 0 .. 2] /\ v7' \in [Casts!Place -> 0 .. 2]
      /\ v4 \in Casts!Body \cup {Casts!None}
  BY <1>0, CastTyped DEF Casts!IInv, Casts!TypeOK
<1>2. CASE v4 = "captioned" /\ KindOf[v5] # "whatsapp"
  <2>1. Casts!Parts = 2 /\ v6' = "caption" /\ v5' = v5 /\ v9' = v9 /\ v7' = [v7 EXCEPT ![v5] = 1]
    BY <1>0, <1>2 DEF Casts!SendPart, Casts!Parts
  <2>2. Casts!TypeOK'
    BY <1>0, <1>1, <2>1 DEF Casts!IInv, Casts!TypeOK
  <2>3. \A p \in v9 : v7'[p] = v7[p]
    BY <1>0, <1>1, <2>1, CastTyped DEF Casts!IInv, Casts!Done
  <2>4. Casts!Done' /\ Casts!CaptionDue'
    BY <1>0, <1>1, <1>2, <2>1, <2>3 DEF Casts!IInv, Casts!Done, Casts!CaptionDue, Casts!Whole
  <2> QED
    BY <1>0, <2>2, <2>4 DEF Casts!IInv
<1>3. CASE ~ (v4 = "captioned" /\ KindOf[v5] # "whatsapp")
  <2>1. /\ Casts!Parts # 2 /\ (v4 \in {"text", "file", "captioned"} => Casts!Parts = 1)
    BY <1>3 DEF Casts!Parts
  <2>2. v6' = "lookup" /\ v5' = v5 + 1 /\ v9' = IF Casts!Parts = 0 THEN v9 ELSE v9 \cup {v5}
    BY <2>1 DEF Casts!SendPart, Casts!Proceed
  <2>3. v9' \subseteq Casts!Place /\ v5' \in 1 .. Len(To) + 1 /\ Casts!Done' /\ Casts!CaptionDue'
    BY <1>0, <1>3, <2>1, <2>2, CastBound
  <2>4. Casts!TypeOK'
    BY <1>0, <1>1, <2>2, <2>3 DEF Casts!IInv, Casts!TypeOK
  <2> QED
    BY <1>0, <2>3, <2>4 DEF Casts!IInv
<1> QED
  BY <1>2, <1>3

LEMMA CastSendCaption ==
  ASSUME Casts!IInv, Casts!SendCaption
  PROVE  Casts!IInv'
<1>0. /\ v5 <= Len(To) /\ v6 = "caption" /\ v4' = v4 /\ v8' = v8 /\ v2' = v2
      /\ v1' = v1 /\ v3' = v3 /\ v10' = v10 /\ v11' = v11 /\ v12' = v12
      /\ v7' = [v7 EXCEPT ![v5] = 2] /\ v9' = v9 \cup {v5} /\ v5' = v5 + 1 /\ v6' = "lookup"
  BY DEF Casts!SendCaption, Casts!At, Casts!Proceed
<1>1. v5 \in Casts!Place /\ v7' \in [Casts!Place -> 0 .. 2]
  BY <1>0, CastTyped DEF Casts!IInv, Casts!TypeOK
<1>2. v4 = "captioned" /\ KindOf[v5] # "whatsapp"
  BY <1>0 DEF Casts!IInv, Casts!CaptionDue
<1>3. v9' \subseteq Casts!Place /\ v5' \in 1 .. Len(To) + 1 /\ Casts!Done' /\ Casts!CaptionDue'
  BY <1>0, <1>2, CastBound
<1>4. Casts!TypeOK'
  BY <1>0, <1>1, <1>3 DEF Casts!IInv, Casts!TypeOK
<1> QED
  BY <1>0, <1>3, <1>4 DEF Casts!IInv

LEMMA CastSendFails ==
  ASSUME Casts!IInv, Casts!SendFails
  PROVE  Casts!IInv'
<1>0. /\ v5 <= Len(To) /\ v4' = v4 /\ v7' = v7 /\ v9' = v9 /\ v2' = v2
      /\ v1' = v1 /\ v3' = v3 /\ v10' = v10 /\ v11' = v11 /\ v12 < MaxFails /\ v12' = v12 + 1
      /\ v8' = Append(v8, v5) /\ v5' = v5 + 1 /\ v6' = "lookup"
  BY DEF Casts!SendFails, Casts!PartError, Casts!SetError, Casts!Proceed, Casts!At
<1>1. /\ v8' \in Seq(Casts!Place) /\ (\A k \in DOMAIN v8' : v8'[k] \in Casts!Place)
      /\ v5' \in 1 .. Len(To) + 1 /\ Casts!Done' /\ Casts!CaptionDue'
  BY <1>0, CastNamed
<1>2. v12' \in 0 .. MaxFails
  BY <1>0, CastTyped, CastAssumption
<1>3. Casts!TypeOK'
  BY <1>0, <1>1, <1>2 DEF Casts!IInv, Casts!TypeOK
<1> QED
  BY <1>1, <1>3 DEF Casts!IInv

(* The world changes around the request. *)
LEMMA CastAround ==
  ASSUME Casts!IInv,
         \/ \E p \in Casts!Place, s \in Speaker : Casts!NewChat(p, s)
         \/ \E p \in Casts!Place : Casts!Expire(p)
         \/ \E s \in Speaker : Casts!DelPage(s)
  PROVE  Casts!IInv'
<1>0. v4' = v4 /\ v5' = v5 /\ v6' = v6 /\ v7' = v7 /\ v8' = v8 /\ v9' = v9 /\ v10' = v10
  BY DEF Casts!NewChat, Casts!Expire, Casts!DelPage
<1>1. /\ v1 \in [Casts!Place -> Speaker \cup {Casts!None}] /\ v2 \in [Casts!Place -> Speaker \cup {Casts!None}]
      /\ v3 \subseteq Speaker /\ v11 \in 0 .. MaxChanges /\ v12 \in 0 .. MaxFails
  BY DEF Casts!IInv, Casts!TypeOK
<1>2. /\ v1' \in [Casts!Place -> Speaker \cup {Casts!None}] /\ v2' \in [Casts!Place -> Speaker \cup {Casts!None}]
      /\ v3' \subseteq Speaker /\ v11' \in 0 .. MaxChanges /\ v12' \in 0 .. MaxFails
  <2>1. CASE \E p \in Casts!Place, s \in Speaker : Casts!NewChat(p, s)
    BY <1>1, <2>1, CastAssumption DEF Casts!NewChat
  <2>2. CASE \E p \in Casts!Place : Casts!Expire(p)
    BY <1>1, <2>2, CastAssumption DEF Casts!Expire
  <2>3. CASE \E s \in Speaker : Casts!DelPage(s)
    BY <1>1, <2>3, CastAssumption DEF Casts!DelPage
  <2> QED
    BY <2>1, <2>2, <2>3
<1>3. Casts!TypeOK'
  BY <1>0, <1>2 DEF Casts!IInv, Casts!TypeOK
<1> QED
  BY <1>0, <1>3, CastKept DEF Casts!IInv

LEMMA CastStep ==
  ASSUME Casts!IInv, Casts!Next
  PROVE  Casts!IInv'
BY CastBegins, CastLookup, CastSendPart, CastSendCaption, CastSendFails, CastAround DEF Casts!Next

LEMMA CastRests ==
  ASSUME Casts!IInv, UNCHANGED <<v1, v2, v3, v4, v5, v6, v7, v8, v9, v10, v11, v12>>
  PROVE  Casts!IInv'
<1>1. Casts!TypeOK'
  BY DEF Casts!IInv, Casts!TypeOK
<1> QED
  BY <1>1, CastKept DEF Casts!IInv

LEMMA CastCount ==
  ASSUME NEW S
  PROVE  Casts!Cardinality(S) = Cardinality(S)
BY DEF Casts!Cardinality, Cardinality

LEMMA CastHolds ==
  ASSUME Casts!IInv
  PROVE  Casts!NamedOrWhole
<1> DEFINE mentions(p) == {k \in DOMAIN v8 : v8[k] = p}
<1>1. ASSUME NEW p \in v9, v4 \in {"text", "file", "captioned"}
      PROVE  Casts!Whole(p) /\ Casts!Cardinality(mentions(p)) = 0
  <2>1. mentions(p) = {} /\ Casts!Whole(p)
    BY <1>1 DEF Casts!IInv, Casts!Done
  <2>2. Cardinality({}) = 0
    BY FS_EmptySet
  <2> QED
    BY <2>1, <2>2, CastCount
<1>2. ASSUME NEW p \in Casts!Place, p \notin v9, v4 \in {"text", "file", "captioned"}, v5 > Len(To)
      PROVE  Casts!Cardinality(mentions(p)) = 1
  <2>1. p < v5
    BY <1>2, CastTyped
  <2>2. PICK k \in DOMAIN v8 : v8[k] = p
    BY <1>2, <2>1 DEF Casts!IInv, Casts!Done
  <2>3. mentions(p) = {k}
    BY <2>2 DEF Casts!IInv, Casts!Done
  <2>4. Cardinality({k}) = 1
    BY FS_Singleton
  <2> QED
    BY <2>3, <2>4, CastCount
<1> QED
  BY <1>1, <1>2, Zenon DEF Casts!NamedOrWhole
-----------------------------------------------------------------------------
(* All of them: the invariant of the gateway at work. *)

GatewaysInv ==
  /\ part = "web" => Web!IInv
  /\ part = "media" => Files!IInv
  /\ part = "threads" => Threads!IInv
  /\ part = "whatsapp" => Numbers!ReplyInv
  /\ part = "instagram" => Grams!IInv
  /\ part = "cast" => Casts!IInv

LEMMA GatewaysStart ==
  ASSUME MCInit
  PROVE  GatewaysInv
<1>1. CASE part = "web" /\ Web!Init
  BY <1>1, WebAssumption, WebStarts DEF GatewaysInv
<1>2. CASE part = "media" /\ Files!Init
  BY <1>2, MediaStarts DEF GatewaysInv
<1>3. CASE part = "pages"
  BY <1>3 DEF GatewaysInv
<1>4. CASE part = "threads" /\ Threads!Init
  BY <1>4, ThreadsStarts DEF GatewaysInv
<1>5. CASE part = "whatsapp" /\ Numbers!Init
  BY <1>5, NumbersStarts DEF GatewaysInv
<1>6. CASE part = "instagram" /\ Grams!Init
  BY <1>6, GramsStarts DEF GatewaysInv
<1>7. CASE part = "cast" /\ Casts!Init
  BY <1>7, CastStarts DEF GatewaysInv
<1> QED
  BY <1>1, <1>2, <1>3, <1>4, <1>5, <1>6, <1>7, Zenon DEF MCInit

LEMMA GatewaysStep ==
  ASSUME GatewaysInv, MCNext
  PROVE  GatewaysInv'
<1>1. CASE part = "web" /\ Web!Next /\ part' = part
  BY <1>1, WebAssumption, WebStep DEF GatewaysInv
<1>2. CASE part = "media" /\ Files!Next /\ part' = part
  BY <1>2, MediaStep DEF GatewaysInv
<1>3. CASE part = "pages" /\ part' = part
  BY <1>3 DEF GatewaysInv
<1>4. CASE part = "threads" /\ Threads!Next /\ part' = part
  BY <1>4, ThreadsStep DEF GatewaysInv
<1>5. CASE part = "whatsapp" /\ Numbers!Next /\ part' = part
  BY <1>5, NumbersStep DEF GatewaysInv
<1>6. CASE part = "instagram" /\ Grams!Next /\ part' = part
  BY <1>6, GramsStep DEF GatewaysInv
<1>7. CASE part = "cast" /\ Casts!Next /\ part' = part
  BY <1>7, CastStep DEF GatewaysInv
<1> QED
  BY <1>1, <1>2, <1>3, <1>4, <1>5, <1>6, <1>7, Zenon DEF MCNext

LEMMA GatewaysRest ==
  ASSUME GatewaysInv, UNCHANGED vars
  PROVE  GatewaysInv'
<1>1. /\ part' = part /\ v1' = v1 /\ v2' = v2 /\ v3' = v3 /\ v4' = v4 /\ v5' = v5 /\ v6' = v6 /\ v7' = v7
      /\ v8' = v8 /\ v9' = v9 /\ v10' = v10 /\ v11' = v11 /\ v12' = v12
  BY Zenon DEF vars
<1>2. CASE part = "web"
  BY <1>1, <1>2, WebRests DEF GatewaysInv
<1>3. CASE part = "media"
  BY <1>1, <1>3, MediaRests DEF GatewaysInv
<1>4. CASE part = "threads"
  BY <1>1, <1>4, ThreadsRests DEF GatewaysInv
<1>5. CASE part = "whatsapp"
  BY <1>1, <1>5, NumbersRests DEF GatewaysInv
<1>6. CASE part = "instagram"
  BY <1>1, <1>6, GramsRests DEF GatewaysInv
<1>7. CASE part = "cast"
  BY <1>1, <1>7, CastRests DEF GatewaysInv
<1>8. CASE part \notin {"web", "media", "threads", "whatsapp", "instagram", "cast"}
  BY <1>1, <1>8 DEF GatewaysInv
<1> QED
  BY <1>2, <1>3, <1>4, <1>5, <1>6, <1>7, <1>8, Zenon

(***************************************************************************)
(* The invariant is kept by every step of every gateway: web chat sockets  *)
(* and pumps, the reader of uploads, webhooks and notifications of Meta,   *)
(* settings, restarts, and the rounds of a broadcast.                      *)
(***************************************************************************)
THEOREM GatewaysKept == MCSpec => []GatewaysInv
<1>1. MCInit => GatewaysInv
  BY GatewaysStart
<1>2. GatewaysInv /\ [MCNext]_vars => GatewaysInv'
  BY GatewaysStep, GatewaysRest
<1> QED
  BY <1>1, <1>2, PTL DEF MCSpec

(***************************************************************************)
(* The web chat, of any tabs, notifications, rooms, messages and closed    *)
(* sockets: a tab that is listed and connected shows the history of its    *)
(* room, complete and in order, and a listed room has a writePump or is    *)
(* about to start one, however joins, notes and broken sockets interleave. *)
(***************************************************************************)
THEOREM RoomsKept == MCSpec => []RoomsInStep
<1>1. GatewaysInv => RoomsInStep
  BY Zenon DEF GatewaysInv, RoomsInStep, Web!IInv
<1> QED
  BY <1>1, GatewaysKept, PTL

(***************************************************************************)
(* Chats of the Meta platforms, of any users, numbers and comments: a chat *)
(* keeps the type of its user's platform while pages come and go and the   *)
(* process restarts; WhatsApp replies leave from the number first written  *)
(* to, whatever happens to the accounts; a comment is read into the chat   *)
(* of its author, and the chat keeps the page of what opened it.           *)
(***************************************************************************)
THEOREM ChatsStay == MCSpec => []ThreadsKept
<1>1. GatewaysInv => ThreadsKept
  <2>1. part = "threads" /\ GatewaysInv => Threads!TypeKept
    BY ThreadsHolds DEF GatewaysInv
  <2>2. part = "whatsapp" /\ GatewaysInv => Numbers!RepliesFromFirst
    BY Zenon DEF GatewaysInv, Numbers!ReplyInv
  <2>3. part = "instagram" /\ GatewaysInv => Grams!NobodyElses /\ Grams!FirstPage
    BY GramsHolds DEF GatewaysInv
  <2> QED
    BY <2>1, <2>2, <2>3, Zenon DEF ThreadsKept
<1> QED
  BY <1>1, GatewaysKept, PTL

(***************************************************************************)
(* Uploads, posts and broadcasts, of any sizes, buffers, limits, settings  *)
(* and peers: a file of an answer is stored whole and within its limit,    *)
(* whatever the pieces the reader gets, and one of the limit's own size is *)
(* not refused; a comment or mention is read just when the settings wanted *)
(* it; a peer of a broadcast is bound, or is named once.                   *)
(***************************************************************************)
THEOREM AnsweredWell == MCSpec => []AnsweredAsDone
<1>1. GatewaysInv => AnsweredAsDone
  <2>1. part = "media" /\ GatewaysInv => Files!AnsweredWhole /\ Files!RefusedOnlyLarger
    BY MediaHolds DEF GatewaysInv
  <2>2. part = "instagram" /\ GatewaysInv => Grams!ReadWhenWanted
    BY GramsHolds DEF GatewaysInv
  <2>3. part = "cast" /\ GatewaysInv => Casts!NamedOrWhole
    BY CastHolds DEF GatewaysInv
  <2> QED
    BY <2>1, <2>2, <2>3, Zenon DEF AnsweredAsDone
<1> QED
  BY <1>1, GatewaysKept, PTL

LEMMA MediaTypes ==
  ASSUME Files!IInv
  PROVE  Files!TypeOK
<1>1. ASSUME NEW S, NEW s \in Seq(S), Len(s) <= MaxPart
      PROVE  s \in UNION {[1 .. k -> S] : k \in 0 .. MaxPart}
  <2>1. Len(s) \in 0 .. MaxPart /\ s \in [1 .. Len(s) -> S]
    BY <1>1, MediaAssumption
  <2> QED
    BY <2>1, Zenon
<1>2. /\ Files!Typed /\ Len(v3) \in Nat /\ Len(v9) \in Nat /\ Len(v3) <= MaxPart /\ Len(v9) <= Len(v3)
      /\ v3 \in Seq(0 .. MaxSize) /\ v9 \in Seq(1 .. MaxPart)
  BY MediaTyped DEF Files!IInv, Files!Typed
<1>3. v3 \in UNION {[1 .. k -> 0 .. MaxSize] : k \in 0 .. MaxPart}
  BY <1>1, <1>2, Zenon
<1>4. Len(v9) <= MaxPart
  BY <1>2, MediaAssumption
<1>5. v9 \in UNION {[1 .. k -> 1 .. MaxPart] : k \in 0 .. MaxPart}
  BY <1>1, <1>2, <1>4, Zenon
<1>6. \A k \in 1 .. Len(v10) : v10[k] \in (1 .. MaxPart) \X (0 .. MaxSize)
  <2>1. PICK T : T = (1 .. MaxPart) \X (0 .. MaxSize)
    OBVIOUS
  <2>2. v10 \in Seq(T)
    BY <1>2, <2>1, Zenon DEF Files!Typed
  <2>3. \A k \in 1 .. Len(v10) : v10[k] \in T
    BY <2>2
  <2> QED
    BY <2>1, <2>3, Zenon
<1>7. v5 \in 0 .. MaxPart + 1
  BY <1>2, MediaAssumption DEF Files!Typed
<1> QED
  BY <1>2, <1>3, <1>5, <1>6, <1>7, Zenon DEF Files!TypeOK, Files!Typed

(***************************************************************************)
(* Of all that the run checks of types, what no fold over accounts is      *)
(* needed for: the web chat, its files, the chats of Facebook and          *)
(* Instagram, and the broadcasts are in states of their types.             *)
(***************************************************************************)
THEOREM GatewaysTyped ==
  MCSpec => [](/\ part = "web" => Web!TypeOK
               /\ part = "media" => Files!TypeOK
               /\ part = "threads" => Threads!TypeOK
               /\ part = "instagram" => Grams!TypeOK
               /\ part = "cast" => Casts!TypeOK)
<1> DEFINE T == /\ part = "web" => Web!TypeOK
                /\ part = "media" => Files!TypeOK
                /\ part = "threads" => Threads!TypeOK
                /\ part = "instagram" => Grams!TypeOK
                /\ part = "cast" => Casts!TypeOK
<1>1. GatewaysInv => T
  <2>1. part = "web" /\ GatewaysInv => Web!TypeOK
    BY WebAssumption, WebTypes DEF GatewaysInv
  <2>2. part = "media" /\ GatewaysInv => Files!TypeOK
    BY MediaTypes DEF GatewaysInv
  <2>3. part = "threads" /\ GatewaysInv => Threads!TypeOK
    BY ThreadsHolds DEF GatewaysInv
  <2>4. part = "instagram" /\ GatewaysInv => Grams!TypeOK
    BY GramsHolds DEF GatewaysInv
  <2>5. part = "cast" /\ GatewaysInv => Casts!TypeOK
    BY Zenon DEF GatewaysInv, Casts!IInv
  <2> QED
    BY <2>1, <2>2, <2>3, <2>4, <2>5, Zenon
<1> HIDE DEF T
<1>2. MCSpec => []T
  BY <1>1, GatewaysKept, PTL
<1> QED
  BY <1>2 DEF T
==============================================================================
