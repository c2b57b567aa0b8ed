-------------------------------- MODULE WebChat --------------------------------
(***************************************************************************)
(* The web chat provider, bot/webchat/webchat.go: the room of one device   *)
(* (the value of its cookie).  A room has the websocket connections of the *)
(* browser's tabs, the history, and a channel "send" of one slot that      *)
(* hands closures to the goroutine writePump, which alone touches them.    *)
(* Each tab has a goroutine readPump; SendNotify runs on behalf of the     *)
(* chat.  A room leaves the index when its writePump ends.                 *)
(***************************************************************************)
EXTENDS Naturals, Sequences, FiniteSets

CONSTANTS
  Tab,        \* the connections of the device, each opened once
  Note,       \* calls of SendNotify at one time
  MaxRoom,    \* bound on the rooms made
  MaxMsg,     \* bound on messages
  MaxClose    \* bound on calls of Close, 0 or 1

VARIABLES
  chat,       \* c.chat[deviceID]: the room in the index, 0: none
  room,       \* the rooms, in the order they were made
  tab,        \* the handler, then the readPump, of each connection
  note,       \* the calls of SendNotify
  sent,       \* messages made so far
  shuts,      \* calls of Close so far
  raced,      \* a tab saw the connections of a room and joined after its writePump ended
  crashed     \* a goroutine sent on a closed channel: the process is dead

webVars == <<chat, room, tab, note, sent, shuts, raced, crashed>>

NoTab   == "none"
Closure == [op : {"info", "remove"}, tab : Tab, m : {0}]
           \cup [op : {"reply"}, tab : Tab, m : 0 .. MaxMsg]
           \cup [op : {"note"}, tab : {NoTab}, m : 1 .. MaxMsg]
           \cup [op : {"bye"}, tab : {NoTab}, m : {0}]
NewRoom == [send |-> <<>>, shut |-> FALSE, conn |-> {}, closed |-> FALSE, msgs |-> <<>>, writer |-> "none"]
Msgs    == UNION {[1 .. n -> 1 .. MaxMsg] : n \in 0 .. MaxMsg}

TypeOK ==
  /\ Len(room) <= MaxRoom /\ chat \in 0 .. Len(room)
  /\ \A r \in DOMAIN room :
       /\ room[r].send \in {<<>>} \cup {<<c>> : c \in Closure}
       /\ room[r].conn \in SUBSET Tab /\ room[r].closed \in BOOLEAN /\ room[r].shut \in BOOLEAN
       /\ room[r].msgs \in Msgs
       /\ room[r].writer \in {"none", "run", "stop", "done"}
  /\ tab \in [Tab -> [pc : {"off", "join", "register", "start", "read", "drop", "gone", "panic"},
                      room : 0 .. MaxRoom, primary : BOOLEAN, alive : BOOLEAN, seen : Msgs]]
  /\ note \in [Note -> [pc : {"idle", "text", "bye"}, room : 0 .. MaxRoom, closing : BOOLEAN, m : 0 .. MaxMsg]]
  /\ sent \in 0 .. MaxMsg /\ shuts \in 0 .. MaxClose
  /\ raced \in BOOLEAN /\ crashed \in BOOLEAN

Init ==
  /\ chat = 0 /\ room = <<>>
  /\ tab = [t \in Tab |-> [pc |-> "off", room |-> 0, primary |-> FALSE, alive |-> FALSE, seen |-> <<>>]]
  /\ note = [n \in Note |-> [pc |-> "idle", room |-> 0, closing |-> FALSE, m |-> 0]]
  /\ sent = 0 /\ shuts = 0 /\ raced = FALSE /\ crashed = FALSE
-----------------------------------------------------------------------------
(* Faulty variants: a joining tab that is listed before it is told the     *)
(* history, a stop that leaves the index alone.                            *)
ListedFirst(t, r) ==
  [room EXCEPT ![r].conn = @ \cup {t}, ![r].send = Append(@, [op |-> "info", tab |-> t, m |-> 0])]
StaysListed(r)  == chat
-----------------------------------------------------------------------------
(* The slot is free: a send would not block. *)
Free(r) == Len(room[r].send) < 1

(* A blocking send waits for the slot; on a closed channel it panics. *)
Sent(r, c) ==
  IF room[r].shut THEN crashed' = TRUE /\ UNCHANGED room
  ELSE Free(r) /\ room' = [room EXCEPT ![r].send = Append(@, c)] /\ UNCHANGED crashed

(* WebHook: the room of the cookie's value is taken from the index, or made. *)
Open(t) ==
  /\ tab[t].pc = "off"
  /\ LET r == IF chat = 0 THEN Len(room) + 1 ELSE chat IN
     /\ r <= MaxRoom
     /\ room' = IF chat = 0 THEN Append(room, NewRoom) ELSE room
     /\ tab' = [tab EXCEPT ![t].pc = "join", ![t].room = r, ![t].alive = TRUE]
  /\ UNCHANGED <<chat, note, sent, shuts, raced, crashed>>

(* The closure that tells the tab of the chat so far and lists the connection. *)
InfoQueued(t, r) == [room EXCEPT ![r].send = Append(@, [op |-> "info", tab |-> t, m |-> 0])]

(* join: is it the room's first connection?  Either way the closure is handed to writePump. *)
Join(t) ==
  LET r == tab[t].room IN
  /\ tab[t].pc = "join"
  /\ IF room[r].shut THEN crashed' = TRUE /\ UNCHANGED room
     ELSE Free(r) /\ room' = InfoQueued(t, r) /\ UNCHANGED crashed
  /\ tab' = [tab EXCEPT ![t].pc = "register", ![t].primary = room[r].conn = {}]
  /\ UNCHANGED <<chat, note, sent, shuts, raced>>

(* The room enters the index, unless it is there; another one in its place is a panic. *)
Register(t) ==
  LET r == tab[t].room IN
  /\ tab[t].pc = "register"
  /\ IF chat \in {0, r}
     THEN /\ chat' = r
          /\ tab' = [tab EXCEPT ![t].pc = IF chat = 0 /\ tab[t].primary THEN "start" ELSE "read"]
          /\ raced' = (raced \/ (chat = 0 /\ ~ tab[t].primary))
     ELSE tab' = [tab EXCEPT ![t].pc = "panic"] /\ UNCHANGED <<chat, raced>>
  /\ UNCHANGED <<room, note, sent, shuts, crashed>>

(* The command /start of a new chat, then writePump begins. *)
StartPump(t) ==
  /\ tab[t].pc = "start"
  /\ room' = [room EXCEPT ![tab[t].room].writer = "run"]
  /\ tab' = [tab EXCEPT ![t].pc = "read"]
  /\ UNCHANGED <<chat, note, sent, shuts, raced, crashed>>

(***************************************************************************)
(* readPump hands a message of the browser to the chat, which takes it or  *)
(* answers with an error (m = 0), and offers the answer to writePump: with *)
(* the slot taken it gives up and the connection is dropped.               *)
(***************************************************************************)
Recv(t, m) ==
  LET r == tab[t].room IN
  /\ tab[t].pc = "read" /\ tab[t].alive
  /\ m \in {0, sent + 1} /\ sent < MaxMsg
  /\ sent' = sent + 1
  /\ IF room[r].shut \/ Free(r)
     THEN Sent(r, [op |-> "reply", tab |-> t, m |-> m]) /\ UNCHANGED tab
     ELSE tab' = [tab EXCEPT ![t].pc = "drop"] /\ UNCHANGED <<room, crashed>>
  /\ UNCHANGED <<chat, note, shuts, raced>>

(* A read fails: the peer is gone, late with its pong, or we closed the connection. *)
ReadFails(t) ==
  /\ tab[t].pc = "read" /\ ~ tab[t].alive
  /\ tab' = [tab EXCEPT ![t].pc = "drop"]
  /\ UNCHANGED <<chat, room, note, sent, shuts, raced, crashed>>

(* The end of readPump: the removal is queued, or omitted with the slot taken. *)
Drop(t) ==
  LET r == tab[t].room IN
  /\ tab[t].pc = "drop"
  /\ IF room[r].shut \/ Free(r)
     THEN Sent(r, [op |-> "remove", tab |-> t, m |-> 0])
     ELSE UNCHANGED <<room, crashed>>
  /\ tab' = [tab EXCEPT ![t].pc = "gone", ![t].alive = FALSE]
  /\ UNCHANGED <<chat, note, sent, shuts, raced>>

(* The tab is closed or its network breaks. *)
Break(t) ==
  /\ tab[t].pc = "read" /\ tab[t].alive
  /\ tab' = [tab EXCEPT ![t].alive = FALSE]
  /\ UNCHANGED <<chat, room, note, sent, shuts, raced, crashed>>
-----------------------------------------------------------------------------
(* SendNotify: a text, or the end of the chat with or without a text. *)
SendNotify(n, text, closing) ==
  /\ note[n].pc = "idle" /\ chat # 0
  /\ text \/ closing
  /\ text => sent < MaxMsg
  /\ sent' = IF text THEN sent + 1 ELSE sent
  /\ note' = [note EXCEPT ![n] = [pc |-> IF text THEN "text" ELSE "bye", room |-> chat,
                                  closing |-> closing, m |-> IF text THEN sent + 1 ELSE 0]]
  /\ UNCHANGED <<chat, room, tab, shuts, raced, crashed>>

NotifyText(n) ==
  /\ note[n].pc = "text"
  /\ Sent(note[n].room, [op |-> "note", tab |-> NoTab, m |-> note[n].m])
  /\ note' = [note EXCEPT ![n].pc = IF note[n].closing THEN "bye" ELSE "idle"]
  /\ UNCHANGED <<chat, tab, sent, shuts, raced>>

NotifyBye(n) ==
  /\ note[n].pc = "bye"
  /\ Sent(note[n].room, [op |-> "bye", tab |-> NoTab, m |-> 0])
  /\ note' = [note EXCEPT ![n].pc = "idle"]
  /\ UNCHANGED <<chat, tab, sent, shuts, raced>>
-----------------------------------------------------------------------------
Dead(s) == {t \in s : ~ tab[t].alive}

(* sendFrame to each of s: the ones that take the frame see the message, the others are removed. *)
Shown(s, m) == [t \in Tab |-> IF t \in s /\ tab[t].alive THEN [tab[t] EXCEPT !.seen = Append(@, m)] ELSE tab[t]]

(* What a closure does to the room and to the tabs; rm is the room without the closure. *)
Info(rm, t)     == IF tab[t].alive THEN [rm EXCEPT !.conn = @ \cup {t}] ELSE rm
Message(rm, m)  == [rm EXCEPT !.msgs = Append(@, m), !.conn = @ \ Dead(@)]
Bye(rm)         == [rm EXCEPT !.conn = {}, !.closed = TRUE]
HangUp(s)       == [t \in Tab |-> IF t \in s THEN [tab[t] EXCEPT !.alive = FALSE] ELSE tab[t]]

(* The loop of writePump ends. *)
Ends(rm) == rm.closed /\ rm.conn = {}

(* One turn of writePump: the room becomes rm. *)
Turn(r, rm) ==
  room' = [room EXCEPT ![r] = [rm EXCEPT !.writer = IF Ends(rm) THEN "stop" ELSE @]]

Write(r) ==
  LET c  == Head(room[r].send)
      rm == [room[r] EXCEPT !.send = <<>>]
  IN
  /\ room[r].writer = "run" /\ room[r].send # <<>>
  /\ \/ /\ c.op = "info"
        /\ Turn(r, Info(rm, c.tab))
        /\ tab' = [tab EXCEPT ![c.tab].seen = IF tab[c.tab].alive THEN rm.msgs ELSE @]
     \/ /\ c.op = "note"
        /\ Turn(r, Message(rm, c.m)) /\ tab' = Shown(rm.conn, c.m)
     \/ /\ c.op = "reply" /\ c.m # 0
        /\ Turn(r, Message(rm, c.m)) /\ tab' = Shown(rm.conn \cup {c.tab}, c.m)
     \/ /\ c.op = "reply" /\ c.m = 0
        /\ Turn(r, [rm EXCEPT !.conn = @ \ Dead({c.tab})]) /\ UNCHANGED tab
     \/ /\ c.op = "remove"
        /\ Turn(r, [rm EXCEPT !.conn = @ \ {c.tab}]) /\ UNCHANGED tab
     \/ /\ c.op = "bye"
        /\ Turn(r, Bye(rm)) /\ tab' = HangUp(rm.conn)
  /\ UNCHANGED <<chat, note, sent, shuts, raced, crashed>>

(* The ticker: who does not take a PING is removed; a room with nobody left is closed. *)
Ping(r) ==
  LET left == room[r].conn \ Dead(room[r].conn) IN
  /\ room[r].writer = "run"
  /\ left # room[r].conn \/ left = {}
  /\ Turn(r, [room[r] EXCEPT !.conn = left, !.closed = @ \/ left = {}])
  /\ UNCHANGED <<chat, tab, note, sent, shuts, raced, crashed>>

(* The channel is closed and empty. *)
WriteClosed(r) ==
  /\ room[r].writer = "run" /\ room[r].shut /\ room[r].send = <<>>
  /\ Turn(r, Bye(room[r])) /\ tab' = HangUp(room[r].conn)
  /\ UNCHANGED <<chat, note, sent, shuts, raced, crashed>>

(* The room leaves the index if it is the one there. *)
Unlisted(r) == IF chat = r THEN 0 ELSE chat

StopPump(r) ==
  /\ room[r].writer = "stop"
  /\ room' = [room EXCEPT ![r].writer = "done"]
  /\ chat' = Unlisted(r)
  /\ UNCHANGED <<tab, note, sent, shuts, raced, crashed>>

(* WebChatBot.Close *)
Close ==
  /\ chat # 0 /\ shuts < MaxClose /\ ~ room[chat].shut
  /\ shuts' = shuts + 1
  /\ room' = [room EXCEPT ![chat].shut = TRUE]
  /\ UNCHANGED <<chat, tab, note, sent, raced, crashed>>

Next ==
  /\ ~ crashed
  /\ \/ \E r \in DOMAIN room : Write(r) \/ Ping(r) \/ WriteClosed(r) \/ StopPump(r)
     \/ \E t \in Tab : \/ Open(t) \/ Join(t) \/ Register(t) \/ StartPump(t)
                       \/ ReadFails(t) \/ Drop(t) \/ Break(t)
                       \/ \E m \in 0 .. MaxMsg : Recv(t, m)
     \/ \E n \in Note : \/ \E text, closing \in BOOLEAN : SendNotify(n, text, closing)
                        \/ NotifyText(n) \/ NotifyBye(n)
     \/ Close

Spec == Init /\ [][Next]_webVars
-----------------------------------------------------------------------------
(***************************************************************************)
(* Every tab that is listed in a room and still connected shows the        *)
(* history of the room, complete and in order, however joins, messages of  *)
(* the tabs and notices of the chat mix.                                   *)
(***************************************************************************)
TabsInStep ==
  \A r \in DOMAIN room : \A t \in room[r].conn : tab[t].alive => tab[t].seen = room[r].msgs

(***************************************************************************)
(* A room in the index has a writePump, or the tab that listed it is about *)
(* to start one (unless a tab had seen connections in the room and listed  *)
(* it again after they and the writePump were gone).                       *)
(***************************************************************************)
ListedIsServed ==
  ~ raced /\ chat # 0 =>
    \/ room[chat].writer \in {"run", "stop"}
    \/ \E t \in Tab : tab[t].room = chat /\ tab[t].pc = "start"
-----------------------------------------------------------------------------
(* Why it holds. *)
RoomType == [send : {<<>>} \cup {<<c>> : c \in Closure}, shut : BOOLEAN, conn : SUBSET Tab, closed : BOOLEAN,
             msgs : Seq(1 .. MaxMsg), writer : {"none", "run", "stop", "done"}]
TabType  == [pc : {"off", "join", "register", "start", "read", "drop", "gone", "panic"}, room : 0 .. MaxRoom,
             primary : BOOLEAN, alive : BOOLEAN, seen : Seq(1 .. MaxMsg)]
NoteType == [pc : {"idle", "text", "bye"}, room : 0 .. MaxRoom, closing : BOOLEAN, m : 0 .. MaxMsg]

Typed ==
  /\ room \in Seq(RoomType) /\ Len(room) <= MaxRoom /\ chat \in 0 .. Len(room)
  /\ tab \in [Tab -> TabType] /\ note \in [Note -> NoteType]
  /\ sent \in 0 .. MaxMsg /\ shuts \in 0 .. MaxClose /\ raced \in BOOLEAN /\ crashed \in BOOLEAN
  /\ \A t \in Tab : Len(tab[t].seen) <= MaxMsg

(* Whoever came in has a room. *)
Inside(t) == tab[t].pc \notin {"off", "join"}
Placed ==
  /\ \A t \in Tab : tab[t].pc # "off" => tab[t].room \in DOMAIN room
  /\ \A n \in Note : note[n].pc # "idle" => note[n].room \in DOMAIN room

(* A closure and a connection of a room are of tabs that came to it. *)
OfRoom(r) ==
  /\ \A c \in Closure : room[r].send = <<c>> /\ c.op \in {"info", "reply", "remove"} =>
       tab[c.tab].room = r /\ Inside(c.tab) /\ (c.op = "remove" => ~ tab[c.tab].alive)
  /\ \A t \in room[r].conn : tab[t].room = r /\ Inside(t)

(* A connected tab is listed, or waits in the slot to be. *)
Listed(t) ==
  tab[t].alive /\ Inside(t) =>
    \/ t \in room[tab[t].room].conn
    \/ room[tab[t].room].send = <<[op |-> "info", tab |-> t, m |-> 0]>>

(* A message comes into a room once. *)
In(m, r) == \E k \in DOMAIN room[r].msgs : room[r].msgs[k] = m
OnceIn(r) ==
  /\ \A k \in DOMAIN room[r].msgs : room[r].msgs[k] <= sent
  /\ \A k, l \in DOMAIN room[r].msgs : room[r].msgs[k] = room[r].msgs[l] => k = l
  /\ \A c \in Closure : room[r].send = <<c>> /\ c.m # 0 => c.m <= sent /\ ~ In(c.m, r)
  /\ \A n \in Note : note[n].pc = "text" =>
       ~ In(note[n].m, r) /\ \A c \in Closure : room[r].send = <<c>> => c.m # note[n].m
OnceNoted ==
  /\ \A n \in Note : note[n].pc = "text" => note[n].m \in 1 .. sent
  /\ \A n, k \in Note : note[n].pc = "text" /\ note[k].pc = "text" /\ note[n].m = note[k].m => n = k

IInv ==
  /\ Typed /\ Placed
  /\ \A r \in DOMAIN room : OfRoom(r) /\ OnceIn(r)
  /\ ~ crashed => \A t \in Tab : Listed(t)
  /\ OnceNoted /\ TabsInStep /\ ListedIsServed
===============================================================================
