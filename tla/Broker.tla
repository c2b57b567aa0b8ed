-------------------------------- MODULE Broker --------------------------------
(***************************************************************************)
(* The message broker's client over RabbitMQ: service/broker/rabbitmq.  A  *)
(* connection with a loop that dials again when it is lost, and one        *)
(* goroutine per subscription that consumes again.  They meet in the       *)
(* fields connected, Connection, waitConnection and close, which the loop  *)
(* writes under the connection's lock and the subscriptions read under     *)
(* another lock or none.                                                   *)
(***************************************************************************)
EXTENDS Naturals

CONSTANTS
  Sub,          \* subscriptions
  MaxFaults     \* bound on losses and failed calls

VARIABLES
  link,         \* rabbitMQConn.Connection: "nil", "up" or "down"
  exch,         \* rabbitMQConn.ExchangeChannel is open
  connected,    \* rabbitMQConn.connected
  wait,         \* rabbitMQConn.waitConnection is closed: a receive goes through
  closed,       \* rabbitMQConn.close is closed
  loop,         \* reconnect: "off", "watch" or "dial"
  notify,       \* which of notifyClose and chanNotifyClose are not nil
  sub,          \* sub[s]: where resubscribe is
  mayRun,       \* subscriber.mayRun
  ch,           \* subscriber.ch: "none", "up" or "down"
  fresh,        \* fresh[s]: the channel Consume returned and subscriber.ch does not hold yet
  missed,       \* missed[s]: Unsubscribe came between Consume's checks and subscriber.ch
  crashed,      \* a nil Connection was used: the process panics
  faults

brokerVars == <<link, exch, connected, wait, closed, loop, notify, sub, mayRun, ch, fresh, missed, crashed, faults>>
connVars   == <<link, exch, connected, wait, closed, loop, notify>>
subVars    == <<sub, mayRun, ch, fresh, missed>>

TypeOK ==
  /\ link \in {"nil", "up", "down"}
  /\ {exch, connected, wait, closed, crashed} \subseteq BOOLEAN
  /\ loop \in {"off", "watch", "dial"} /\ notify \in SUBSET {"conn", "chan"}
  /\ sub \in [Sub -> {"off", "check", "select", "recheck", "consume", "set", "range", "end"}]
  /\ mayRun \in [Sub -> BOOLEAN] /\ missed \in [Sub -> BOOLEAN]
  /\ ch \in [Sub -> {"none", "up", "down"}] /\ fresh \in [Sub -> {"none", "up", "down"}]
  /\ faults \in 0 .. MaxFaults

Init ==
  /\ link = "nil" /\ exch = FALSE /\ connected = FALSE
  /\ wait = TRUE /\ closed = FALSE
  /\ loop = "off" /\ notify = {}
  /\ sub = [s \in Sub |-> "off"] /\ mayRun = [s \in Sub |-> FALSE]
  /\ ch = [s \in Sub |-> "none"] /\ fresh = [s \in Sub |-> "none"]
  /\ missed = [s \in Sub |-> FALSE]
  /\ crashed = FALSE /\ faults = 0
-----------------------------------------------------------------------------
(* Faulty variants: a reconnect that unblocks nobody, a subscription that does not look at mayRun. *)
StaysBlocked  == wait
GoesOn(s)     == TRUE
-----------------------------------------------------------------------------
Fail == faults < MaxFaults /\ faults' = faults + 1

Channels(f) == [s \in Sub |-> IF f[s] = "up" THEN "down" ELSE f[s]]

(* The server or the network drops the connection with all its channels (external). *)
ConnectionLost ==
  /\ link = "up" /\ Fail
  /\ link' = "down" /\ exch' = FALSE
  /\ ch' = Channels(ch) /\ fresh' = Channels(fresh)
  /\ UNCHANGED <<connected, wait, closed, loop, notify, sub, mayRun, missed, crashed>>

(* The server closes the channel of publications alone, as on an error of the protocol (external). *)
ChannelLost ==
  /\ exch /\ Fail
  /\ exch' = FALSE
  /\ UNCHANGED <<link, connected, wait, closed, loop, notify, crashed>> /\ UNCHANGED subVars

(* The server closes the channel of a consumer (external). *)
ConsumerLost(s) ==
  /\ ch[s] = "up" /\ Fail
  /\ ch' = [ch EXCEPT ![s] = "down"]
  /\ UNCHANGED <<sub, mayRun, fresh, missed, crashed>> /\ UNCHANGED connVars
-----------------------------------------------------------------------------
(* The connection *)

(* Connect at the start of the process; without it the process does not start. *)
Connect ==
  /\ loop = "off" /\ link = "nil" /\ ~ closed
  /\ link' = "up" /\ exch' = TRUE /\ connected' = TRUE
  /\ loop' = "watch" /\ notify' = {"conn", "chan"}
  /\ UNCHANGED <<wait, closed, crashed, faults>> /\ UNCHANGED subVars

(* One of the two notifications; the loop dials when both have come. *)
Notified(n) ==
  /\ connected' = FALSE /\ wait' = FALSE
  /\ notify' = notify \ {n}
  /\ loop' = IF notify' = {} THEN "dial" ELSE "watch"
  /\ UNCHANGED <<link, exch, closed, crashed, faults>> /\ UNCHANGED subVars

NotifyClose     == loop = "watch" /\ "conn" \in notify /\ link = "down" /\ Notified("conn")
ChanNotifyClose == loop = "watch" /\ "chan" \in notify /\ ~ exch /\ Notified("chan")

LoopEnds ==
  /\ loop = "watch" /\ closed
  /\ loop' = "off" /\ notify' = {}
  /\ UNCHANGED <<link, exch, connected, wait, closed, crashed, faults>> /\ UNCHANGED subVars

(* waitConnection is closed after a dial. *)
Unblocked == TRUE

(* tryConnect goes through, also after Close: the loop does not look at it here. *)
Dial ==
  /\ loop = "dial"
  /\ link' = "up" /\ exch' = TRUE /\ connected' = TRUE
  /\ wait' = Unblocked
  /\ loop' = "watch" /\ notify' = {"conn", "chan"}
  /\ UNCHANGED <<closed, crashed, faults>> /\ UNCHANGED subVars

(* tryConnect fails: in the dial, which leaves no connection, or in the channels on it. *)
DialFails ==
  /\ loop = "dial" /\ Fail
  /\ link' \in {"nil", "up"}
  /\ UNCHANGED <<exch, connected, wait, closed, loop, notify, crashed>> /\ UNCHANGED subVars

(* Close, by Disconnect *)
Close ==
  /\ loop # "off" /\ ~ closed
  /\ closed' = TRUE /\ connected' = FALSE
  /\ IF link = "nil"
     THEN crashed' = TRUE /\ UNCHANGED <<link, exch, ch, fresh>>
     ELSE /\ link' = "down" /\ exch' = FALSE
          /\ ch' = Channels(ch) /\ fresh' = Channels(fresh)
          /\ UNCHANGED crashed
  /\ UNCHANGED <<wait, loop, notify, sub, mayRun, missed, faults>>
-----------------------------------------------------------------------------
(* A subscription: Subscribe, resubscribe and Unsubscribe *)

Goto(s, pc) == sub' = [sub EXCEPT ![s] = pc]

Subscribe(s) ==
  /\ sub[s] = "off" /\ loop # "off"
  /\ mayRun' = [mayRun EXCEPT ![s] = TRUE]
  /\ Goto(s, "check")
  /\ UNCHANGED <<ch, fresh, missed, crashed, faults>> /\ UNCHANGED connVars

MayGoOn(s) == mayRun[s]

Check(s) ==
  /\ sub[s] = "check"
  /\ Goto(s, IF MayGoOn(s) THEN "select" ELSE "end")
  /\ UNCHANGED <<mayRun, ch, fresh, missed, crashed, faults>> /\ UNCHANGED connVars

(* close, waitConnection, or neither within a second; both may be ready. *)
Select(s) ==
  /\ sub[s] = "select"
  /\ \/ closed /\ Goto(s, "end")
     \/ wait /\ Goto(s, "recheck")
     \/ ~ closed /\ ~ wait /\ Goto(s, "check")
  /\ UNCHANGED <<mayRun, ch, fresh, missed, crashed, faults>> /\ UNCHANGED connVars

(* rbroker.mtx is held from here to the end of Consume; it keeps off other subscriptions, not the loop. *)
Recheck(s) ==
  /\ sub[s] = "recheck"
  /\ \A r \in Sub : sub[r] # "consume"
  /\ Goto(s, IF connected THEN "consume" ELSE "check")
  /\ UNCHANGED <<mayRun, ch, fresh, missed, crashed, faults>> /\ UNCHANGED connVars

Consume(s) ==
  /\ sub[s] = "consume"
  /\ crashed' = (link = "nil")
  /\ Goto(s, IF link = "up" THEN "set" ELSE "check")
  /\ fresh' = [fresh EXCEPT ![s] = IF link = "up" THEN "up" ELSE "none"]
  /\ UNCHANGED <<mayRun, ch, missed, faults>> /\ UNCHANGED connVars

ConsumeFails(s) ==
  /\ sub[s] = "consume" /\ link = "up" /\ Fail
  /\ Goto(s, "check")
  /\ UNCHANGED <<mayRun, ch, fresh, missed, crashed>> /\ UNCHANGED connVars

SetChannel(s) ==
  /\ sub[s] = "set"
  /\ ch' = [ch EXCEPT ![s] = fresh[s]]
  /\ fresh' = [fresh EXCEPT ![s] = "none"]
  /\ Goto(s, "range")
  /\ UNCHANGED <<mayRun, missed, crashed, faults>> /\ UNCHANGED connVars

(* The deliveries end with their channel. *)
RangeEnds(s) ==
  /\ sub[s] = "range" /\ ch[s] = "down"
  /\ Goto(s, "check")
  /\ UNCHANGED <<mayRun, ch, fresh, missed, crashed, faults>> /\ UNCHANGED connVars

Unsubscribe(s) ==
  /\ mayRun[s]
  /\ mayRun' = [mayRun EXCEPT ![s] = FALSE]
  /\ ch' = [ch EXCEPT ![s] = IF @ = "up" THEN "down" ELSE @]
  /\ missed' = [missed EXCEPT ![s] = sub[s] \in {"select", "recheck", "consume", "set"}]
  /\ UNCHANGED <<sub, fresh, crashed, faults>> /\ UNCHANGED connVars

Loop   == NotifyClose \/ ChanNotifyClose \/ LoopEnds \/ Dial
Run(s) == Check(s) \/ Select(s) \/ Recheck(s) \/ Consume(s) \/ SetChannel(s) \/ RangeEnds(s)

Next ==
  /\ ~ crashed
  /\ \/ Connect \/ Loop \/ DialFails \/ Close
     \/ \E s \in Sub : Subscribe(s) \/ Run(s) \/ ConsumeFails(s) \/ Unsubscribe(s)
     \/ ConnectionLost \/ ChannelLost \/ \E s \in Sub : ConsumerLost(s)

(***************************************************************************)
(* Goroutines that can go on do, dials included: a server that is down is  *)
(* a bounded number of DialFails.  Faults, Close and Unsubscribe need not  *)
(* happen.                                                                 *)
(***************************************************************************)
Fairness ==
  /\ WF_brokerVars(~ crashed /\ Loop)
  /\ \A s \in Sub : WF_brokerVars(~ crashed /\ Run(s))

Spec == Init /\ [][Next]_brokerVars /\ Fairness
-----------------------------------------------------------------------------
Consuming(s) == sub[s] = "range" /\ ch[s] = "up"

(* The channel of publications is lost and its connection is not: the loop waits for both. *)
HalfOpen == loop = "watch" /\ notify = {"conn"} /\ link = "up"

(***************************************************************************)
(* Whatever is lost, connections, channels of consumers or attempts to     *)
(* dial and consume, a subscription that is wanted consumes again.  The    *)
(* one loss the loop does not come back from is that of the channel of     *)
(* publications alone (and a panic).                                       *)
(***************************************************************************)
Resumes ==
  \A s \in Sub : []<>(\/ sub[s] = "off" \/ ~ mayRun[s] \/ Consuming(s)
                      \/ closed \/ HalfOpen \/ crashed)

(***************************************************************************)
(* Unsubscribe ends the goroutine of its subscription, also while there is *)
(* no connection, unless it came after the goroutine had looked at mayRun  *)
(* and before the channel of its new consumer was set.                     *)
(***************************************************************************)
UnsubscribeEnds ==
  \A s \in Sub : (sub[s] # "off" /\ ~ mayRun[s]) ~> (sub[s] = "end" \/ missed[s] \/ crashed)
===============================================================================
