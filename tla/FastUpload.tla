------------------------------ MODULE FastUpload ------------------------------
(***************************************************************************)
(* One file going up over several connections at once (fast_upload): a      *)
(* producer reads parts onto a bounded queue, followed by one pill for each *)
(* consumer; every consumer drives a connection of its own; a stack of      *)
(* callbacks closes the connections, however the upload ends.               *)
(*                                                                          *)
(* The queue is an interval: the items produced and not yet taken.  Items   *)
(* 1..readable are parts, those after them pills.  Connections are counted. *)
(***************************************************************************)
EXTENDS Naturals, FiniteSets

CONSTANTS Parts,           \* of the file, when it was measured
          Connections,     \* wanted
          PartAttempts     \* max_attempts

ASSUME UploadAssumption ==
    /\ Parts \in Nat \ {0} /\ Connections \in Nat \ {0} /\ PartAttempts \in Nat \ {0}

\* More connections than parts would idle.
Workers == IF Connections < Parts THEN Connections ELSE Parts
Consumer == 1..Workers
QueueSize == 2 * Workers

VARIABLES
    up,         \* the upload
    consumer,   \* [Consumer -> its task]
    acked       \* parts Telegram has confirmed

uploadVars == <<up, consumer, acked>>

\* open: connections on the stack; readable: parts the file still has;
\* why: how it ends; wedged: closing a dead connection does not return.
NoUpload == [phase |-> "off", open |-> 0, produced |-> 0, taken |-> 0,
             readable |-> Parts, why |-> "none", wedged |-> FALSE]
NoTask == [pc |-> "off", part |-> 0, attempt |-> 0]

OnePill == 1              \* mutant: the consumers are not counted
Pills == Workers

IsPill(k) == k > up.readable

UploadInit == /\ up = NoUpload
              /\ consumer = [c \in Consumer |-> NoTask]
              /\ acked = {}

Task(c, pc) == consumer' = [consumer EXCEPT ![c].pc = pc]

-----------------------------------------------------------------------------

\* The file may have shrunk since it was measured: the producer stops short.
StartUpload == /\ \E n \in {Parts - 1, Parts} :
                     up' = [NoUpload EXCEPT !.phase = "connect", !.readable = n]
               /\ acked' = {} /\ UNCHANGED consumer

\* Connections are opened one after the other, and then all tasks start.
Connect ==
    /\ up.phase = "connect"
    /\ IF up.open + 1 = Workers
       THEN /\ up' = [up EXCEPT !.open = @ + 1, !.phase = "run"]
            /\ consumer' = [c \in Consumer |-> [NoTask EXCEPT !.pc = "get"]]
       ELSE up' = [up EXCEPT !.open = @ + 1] /\ UNCHANGED consumer
    /\ UNCHANGED acked

\* An exception leaves the block: the stack is unwound.
ConnectFails == /\ up.phase = "connect"
                /\ up' = [up EXCEPT !.phase = "close", !.why = "error"]
                /\ UNCHANGED <<consumer, acked>>

Room == up.produced - up.taken < QueueSize

Produce == /\ up.phase = "run"
           /\ up.produced < up.readable + Pills
           /\ Room
           /\ up' = [up EXCEPT !.produced = @ + 1]
           /\ UNCHANGED <<consumer, acked>>

Take(c) ==
    /\ up.phase = "run" /\ consumer[c].pc = "get" /\ up.taken < up.produced
    /\ up' = [up EXCEPT !.taken = @ + 1]
    /\ IF IsPill(up'.taken)
       THEN consumer' = [consumer EXCEPT ![c] = [NoTask EXCEPT !.pc = "done"]]
       ELSE consumer' = [consumer EXCEPT ![c] = [pc |-> "send", part |-> up'.taken, attempt |-> 1]]
    /\ UNCHANGED acked

PartAcked(c) == /\ up.phase = "run" /\ consumer[c].pc = "send"
                /\ acked' = acked \cup {consumer[c].part}
                /\ consumer' = [consumer EXCEPT ![c] = [NoTask EXCEPT !.pc = "get"]]
                /\ UNCHANGED up

\* Refused, or the connection broke: it is dropped and, after a pause, replaced.
\* Dropping it may time out; the stack closes it in the end.
PartFails(c) ==
    /\ up.phase = "run" /\ consumer[c].pc = "send" /\ consumer[c].attempt < PartAttempts
    /\ Task(c, "redial")
    /\ \E n \in {0, 1} : up' = [up EXCEPT !.open = @ - n]
    /\ UNCHANGED acked

Redial(c) == /\ up.phase = "run" /\ consumer[c].pc = "redial"
             /\ consumer' = [consumer EXCEPT ![c].pc = "send", ![c].attempt = @ + 1]
             /\ up' = [up EXCEPT !.open = @ + 1]
             /\ UNCHANGED acked

\* The attempts are used up, there is no new connection, or Telegram raises
\* something that is not an error of the network: one task fails, all are
\* cancelled, and waited for.
TaskFails(c) == /\ up.phase = "run" /\ consumer[c].pc \in {"send", "redial"}
                /\ Task(c, "raised")
                /\ up' = [up EXCEPT !.phase = "cancel", !.why = "error"]
                /\ UNCHANGED acked

\* The file cannot be opened or read on: the producer's task fails, with the
\* consumers at the queue.
ReadFails == /\ up.phase = "run" /\ up.produced < up.readable
             /\ up' = [up EXCEPT !.phase = "cancel", !.why = "error"]
             /\ UNCHANGED <<consumer, acked>>

AllDone == \A c \in Consumer : consumer[c].pc = "done"

Gathered == /\ up.phase = "run" /\ AllDone /\ up.produced = up.readable + Pills
            /\ up' = [up EXCEPT !.phase = "close", !.why = "handle"]
            /\ UNCHANGED <<consumer, acked>>

\* The task the upload runs in is cancelled from outside; a disconnect that is
\* being awaited is abandoned.
CancelUpload ==
    /\ up' = [up EXCEPT !.why = "cancelled", !.wedged = FALSE,
                        !.open = IF up.wedged THEN @ - 1 ELSE @,
                        !.phase = IF @ = "run" THEN "cancel" ELSE IF @ = "connect" THEN "close" ELSE @]
    /\ UNCHANGED <<consumer, acked>>

TasksEnd == /\ up.phase = "cancel"
            /\ consumer' = [c \in Consumer |-> NoTask]
            /\ up' = [up EXCEPT !.phase = "close"]
            /\ UNCHANGED acked

CloseOne == /\ up.phase = "close" /\ up.open > 0 /\ ~up.wedged
            /\ up' = [up EXCEPT !.open = @ - 1]
            /\ UNCHANGED <<consumer, acked>>

\* The stack awaits sender.disconnect with no deadline.
CloseHangs == /\ up.phase = "close" /\ up.open > 0
              /\ up' = [up EXCEPT !.wedged = TRUE]
              /\ UNCHANGED <<consumer, acked>>

LeftBehind == up.phase \in {"cancel", "close"}     \* mutant: nobody waits for the tasks
Closed == up.phase = "close" /\ up.open = 0

\* The stack is empty: the handle, or the exception, reaches the caller.
EndUpload == /\ Closed /\ up' = [NoUpload EXCEPT !.open = up.open]
             /\ consumer' = [c \in Consumer |->
                               IF consumer[c].pc \in {"get", "send", "redial"} THEN consumer[c] ELSE NoTask]
             /\ acked' = {}

\* A request is on its way to Telegram.
Awaiting == \/ up.phase = "connect"
            \/ up.phase = "run" /\ \E c \in Consumer : consumer[c].pc \in {"send", "redial"}

\* All wait on the queue, and none for Telegram.
Stuck == /\ up.phase = "run" /\ ~Awaiting /\ ~AllDone
         /\ (up.taken = up.produced \/ \A c \in Consumer : consumer[c].pc # "get")
         /\ \/ up.produced = up.readable + Pills
            \/ ~Room

UploadStep ==
    \/ Connect \/ Produce \/ Gathered \/ TasksEnd \/ CloseOne
    \/ \E c \in Consumer : Take(c) \/ PartAcked(c) \/ Redial(c)

UploadFault == \/ ConnectFails \/ ReadFails \/ CloseHangs
               \/ \E c \in Consumer : PartFails(c) \/ TaskFails(c)

UploadTypeOK ==
    /\ up.phase \in {"off", "connect", "run", "cancel", "close"}
    /\ up.open \in 0..(Workers + Workers * PartAttempts)
    /\ up.taken <= up.produced /\ up.produced <= Parts + Workers
    /\ up.produced - up.taken <= QueueSize
    /\ up.why \in {"none", "handle", "error", "cancelled"}
    /\ \A c \in Consumer : /\ consumer[c].pc \in {"off", "get", "send", "redial", "done", "raised"}
                           /\ consumer[c].part \in 0..Parts /\ consumer[c].attempt \in 0..PartAttempts
    /\ acked \subseteq 1..Parts
=============================================================================
