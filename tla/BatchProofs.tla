----------------------------- MODULE BatchProofs ------------------------------
(***************************************************************************)
(* Theorems about a batch of the dispatcher: which rows claim_batch puts   *)
(* in it (ClaimBatch), and what sending it does to the chat (SendEnvelope  *)
(* with the parallel upload inside it).                                    *)
(*                                                                         *)
(* The claim is one transaction that takes one album of one anchor, and    *)
(* the anchor is a first one in the order of the clusters among those that *)
(* could ship. What an album mixes follows from how its candidates are     *)
(* chosen; whom it overtakes, from where the order puts a cluster: at its  *)
(* first row as long as none of its rows is deleted, further back          *)
(* otherwise (PlaceOfCluster).                                             *)
(*                                                                         *)
(* Of sending, the upload is proved first, as a component of its own       *)
(* (UploadInv, and one lemma for each part of it over UploadActs); the     *)
(* envelope then needs of it only in which places it is off and how it     *)
(* ends.                                                                   *)
(***************************************************************************)
EXTENDS ClaimBatch, SendEnvelope, FiniteSetTheorems, WellFoundedInduction, TLAPS

-----------------------------------------------------------------------------
(* The claim: which rows go together, and whose turn it is *)

\* A pending row has an attempt left to be claimed with, and a row being sent
\* has been counted, so that a refund (requeue, reset_stuck_sending) never goes
\* below nought.
Budgets ==
    /\ status \in [Row -> Status] /\ attempts \in [Row -> 0..RetryBudget]
    /\ \A r \in Row : /\ status[r] = "absent" => attempts[r] = 0
                      /\ status[r] = "pending" => attempts[r] < RetryBudget
                      /\ status[r] = "sending" => attempts[r] > 0
    /\ flight \subseteq WithStatus("sending")

\* What time leaves on the rows.
Stamps ==
    /\ disc \in [Row -> 0..MaxSecond] /\ now \in 0..MaxSecond
    /\ backoff \subseteq Row /\ aged \subseteq Row /\ faults \in 0..FaultBound

CInv == Budgets /\ Stamps

\* A set of numbers that is not empty has a least one.
LEMMA LeastIsOne ==
    ASSUME NEW S, S \subseteq Nat, S # {}
    PROVE  Min(S) \in S /\ \A x \in S : Min(S) <= x
<1> DEFINE Less == OpToRel(<, Nat)
<1>1. IsWellFoundedOn(Less, Nat)
  BY NatLessThanWellFounded
<1>2. \A x, y \in Nat : <<x, y>> \in Less <=> x < y
  BY DEF OpToRel
<1> HIDE DEF Less
<1>3. PICK n \in S : \A m \in S : ~ (<<m, n>> \in Less)
  BY <1>1, WFMin
<1>4. ASSUME NEW m \in S PROVE n <= m
  <2>1. m \in Nat /\ n \in Nat /\ ~ (m < n)
    BY <1>2, <1>3
  <2> QED BY <2>1
<1> QED BY <1>3, <1>4 DEF Min

\* What is claimed is claimed at once, as one album of one anchor.
LEMMA ClaimedTogether ==
    ASSUME Budgets, ClaimNext, Claimed # {}
    PROVE  \E a \in Heads : \E S \in Shippable(a) : Claimed \subseteq S
<1>1. PICK r \in Row : status[r] = "pending" /\ status'[r] = "sending"
  BY DEF Claimed
<1>2. CASE Claim
  BY <1>2 DEF Claim, Become, Claimed
<1>3. ASSUME NEW q \in Row, Arrive(q) \/ Age(q) \/ BackoffOver(q) \/ Rearm(q) PROVE FALSE
  BY <1>1, <1>3 DEF Arrive, Age, BackoffOver, Rearm, Become, Budgets, Status
<1>4. CASE Tick \/ Crash
  BY <1>1, <1>4 DEF Tick, Crash
<1>5. CASE Settle
  BY <1>1, <1>5 DEF Settle
<1>6. CASE Fail
  BY <1>1, <1>6 DEF Fail
<1>7. CASE Flood \/ Rescue
  BY <1>1, <1>7 DEF Flood, Rescue, Become
<1> QED BY <1>2, <1>3, <1>4, <1>5, <1>6, <1>7 DEF ClaimNext

\* An album is of one owner, one destination and one kind, and of pending rows.
LEMMA AlbumIsOne ==
    ASSUME NEW a \in Row, NEW S \in Shippable(a), NEW r \in S
    PROVE  /\ r \in Row /\ status[r] = "pending"
           /\ Owner[r] = Owner[a] /\ Dest[r] = Dest[a] /\ Bucket(r) = Bucket(a)
<1>1. S \in Albums(a) /\ a \in Ready
  BY DEF Shippable
<1>2. CASE Bucket(a) = "single"
  BY <1>1, <1>2 DEF Albums, Ready, WithStatus
<1>3. CASE Bucket(a) # "single"
  <2>1. Candidates(a) \in SUBSET Row
    BY DEF Candidates, Ready, WithStatus
  <2>2. S \subseteq Candidates(a)
    BY <1>1, <1>3, <2>1 DEF Albums, Prefixes
  <2>3. r \in Row /\ status[r] = "pending" /\ Folder(r) = Folder(a) /\ Bucket(r) = Bucket(a)
    BY <2>1, <2>2 DEF Candidates, Ready, WithStatus
  <2> QED BY <2>3 DEF Folder
<1> QED BY <1>2, <1>3

\* Who is able to ship is not behind a head.
LEMMA HeadsAreFirst ==
    ASSUME NEW a \in Heads
    PROVE  a \in Row /\ \A s \in Row : CanShip(s) => ~ Precedes(s, a)
<1>1. {r \in Row : CanShip(r)} \in SUBSET Row
  OBVIOUS
<1> HIDE DEF CanShip, Precedes
<1> QED BY <1>1 DEF Heads, First

\* Every step keeps the statuses within the budget.
LEMMA CountsStep ==
    ASSUME Budgets, ClaimNext
    PROVE  Budgets'
<1> USE ClaimAssumption DEF Budgets, WithStatus, Status
<1>1. ASSUME NEW q \in Row, Arrive(q) PROVE Budgets'
  BY <1>1 DEF Arrive
<1>2. ASSUME NEW q \in Row, Age(q) \/ BackoffOver(q) PROVE Budgets'
  BY <1>2 DEF Age, BackoffOver
<1>3. ASSUME NEW q \in Row, Rearm(q) PROVE Budgets'
  BY <1>3 DEF Rearm, Become
<1>4. CASE Claim
  <2>1. PICK a \in Heads : \E S \in Shippable(a) :
          /\ Become(S, "sending")
          /\ attempts' = [r \in Row |-> attempts[r] + IF r \in S THEN 1 ELSE 0]
          /\ flight' = S
    BY <1>4 DEF Claim
  <2>2. PICK S \in Shippable(a) :
          /\ Become(S, "sending")
          /\ attempts' = [r \in Row |-> attempts[r] + IF r \in S THEN 1 ELSE 0]
          /\ flight' = S
    BY <2>1
  <2>3. \A r \in S : r \in Row /\ status[r] = "pending"
    BY <2>2, AlbumIsOne, HeadsAreFirst
  <2> QED BY <2>2, <2>3 DEF Become
<1>5. CASE Tick \/ Crash
  BY <1>5 DEF Tick, Crash
<1>6. CASE Settle
  <2>1. PICK out \in [flight -> {"sent", "failed", "gone", "pending"}] :
          /\ \A r \in flight : out[r] \in Outcomes(r)
          /\ status' = [r \in Row |-> IF r \in flight THEN out[r] ELSE status[r]]
    BY <1>6 DEF Settle
  <2>2. \A r \in flight : out[r] = "pending" => attempts[r] < RetryBudget
    BY <2>1 DEF Outcomes
  <2> QED BY <1>6, <2>1, <2>2 DEF Settle
<1>7. CASE Fail
  BY <1>7 DEF Fail
<1>8. CASE Flood
  BY <1>8 DEF Flood, Become
<1>9. CASE Rescue
  BY <1>9 DEF Rescue, Become
<1> QED BY <1>1, <1>2, <1>3, <1>4, <1>5, <1>6, <1>7, <1>8, <1>9 DEF ClaimNext

\* Every step keeps the stamps in their ranges.
LEMMA StampsStep ==
    ASSUME Budgets, Stamps, ClaimNext
    PROVE  Stamps'
<1> USE ClaimAssumption DEF Budgets, Stamps, WithStatus
<1>1. ASSUME NEW q \in Row, Arrive(q) \/ Age(q) \/ BackoffOver(q) PROVE Stamps'
  BY <1>1 DEF Arrive, Age, BackoffOver
<1>2. ASSUME NEW q \in Row, Rearm(q) PROVE Stamps'
  BY <1>2 DEF Rearm, Fault
<1>3. CASE Claim \/ Settle \/ Fail \/ Rescue
  BY <1>3 DEF Claim, Settle, Fail, Rescue
<1>4. CASE Tick
  BY <1>4 DEF Tick
<1>5. CASE Flood \/ Crash
  BY <1>5 DEF Flood, Crash, Fault
<1> QED BY <1>1, <1>2, <1>3, <1>4, <1>5 DEF ClaimNext

\* The inductive invariant of the claim and of what becomes of a batch: Budgets
\* and Stamps hold in every state.
THEOREM ClaimInvariance == ClaimSpec => []CInv
<1>1. ClaimInit => CInv
  BY ClaimAssumption DEF ClaimInit, CInv, Budgets, Stamps, Status, WithStatus
<1>2. CInv /\ [ClaimNext]_claimVars => CInv'
  <2> SUFFICES ASSUME CInv, [ClaimNext]_claimVars PROVE CInv'
    OBVIOUS
  <2>1. CASE ClaimNext
    BY <2>1, CountsStep, StampsStep DEF CInv
  <2>2. CASE UNCHANGED claimVars
    BY <2>2 DEF CInv, Budgets, Stamps, WithStatus, claimVars
  <2> QED BY <2>1, <2>2
<1> QED BY <1>1, <1>2, PTL DEF ClaimSpec

\* The claims counted on a row stay between nought and RetryBudget through
\* claims, refunds, rescues and re-arms, and what the drain has in flight is
\* 'sending' in the table.
THEOREM BudgetIsKept == ClaimSpec => []ClaimTypeOK
<1>1. CInv => ClaimTypeOK
  BY DEF CInv, Budgets, Stamps, ClaimTypeOK
<1> QED BY <1>1, ClaimInvariance, PTL

\* Whatever claim_batch moves to 'sending' in one transaction goes to one chat
\* and topic, is one owner's and of one bucket: the candidates of an anchor are
\* of its folder and bucket, and no other step claims.
THEOREM AlbumsAreOne == ClaimSpec => AlbumsHaveOneDestination
<1>1. ASSUME CInv, [ClaimNext]_claimVars, NEW r \in Claimed, NEW s \in Claimed
      PROVE  Dest[r] = Dest[s] /\ Owner[r] = Owner[s] /\ Bucket(r) = Bucket(s)
  <2>1. CASE ClaimNext
    <3>1. PICK a \in Heads : \E S \in Shippable(a) : Claimed \subseteq S
      BY <1>1, <2>1, ClaimedTogether DEF CInv
    <3> QED BY <1>1, <3>1, AlbumIsOne, HeadsAreFirst
  <2>2. CASE UNCHANGED claimVars
    BY <1>1, <2>2 DEF Claimed, claimVars
  <2> QED BY <1>1, <2>1, <2>2
<1>2. CInv /\ [ClaimNext]_claimVars => [\A r, s \in Claimed :
          /\ Dest[r] = Dest[s] /\ Owner[r] = Owner[s]
          /\ Bucket(r) = Bucket(s)]_claimVars
  BY <1>1
<1> QED BY <1>2, ClaimInvariance, PTL DEF ClaimSpec, AlbumsHaveOneDestination

\* Without a deletion a cluster stands where its first row put it; with one it may
\* only move back.
LEMMA PlaceOfCluster ==
    ASSUME CInv, NEW r \in Row, status[r] = "pending"
    PROVE  /\ {Urgency(r), FirstSeen(r), ClusterPriority(r), ClusterSeen(r)} \subseteq Nat
           /\ Urgency(r) <= ClusterPriority(r) /\ FirstSeen(r) <= ClusterSeen(r)
           /\ (\A g \in WithStatus("gone") : Owner[g] # Owner[r]) =>
                 Urgency(r) = ClusterPriority(r) /\ FirstSeen(r) = ClusterSeen(r)
<1> USE ClaimAssumption DEF CInv, Budgets, Stamps
<1>1. Mates(r) \subseteq EverMates(r) /\ r \in Mates(r) /\ EverMates(r) \subseteq Row
  BY DEF Mates, EverMates, Present
<1>2. (\A g \in WithStatus("gone") : Owner[g] # Owner[r]) => Mates(r) = EverMates(r)
  BY DEF Mates, EverMates, Present, WithStatus
<1>3. \A s \in Row : Priority[s] \in Nat /\ disc[s] \in Nat
  OBVIOUS
<1>4. /\ Urgency(r) \in {Priority[s] : s \in EverMates(r)}
      /\ \A x \in {Priority[s] : s \in EverMates(r)} : Urgency(r) <= x
  <2>1. {Priority[s] : s \in EverMates(r)} \subseteq Nat /\ {Priority[s] : s \in EverMates(r)} # {}
    BY <1>1, <1>3
  <2> QED BY <2>1, LeastIsOne DEF Urgency
<1>5. /\ FirstSeen(r) \in {disc[s] : s \in EverMates(r)}
      /\ \A x \in {disc[s] : s \in EverMates(r)} : FirstSeen(r) <= x
  <2>1. {disc[s] : s \in EverMates(r)} \subseteq Nat /\ {disc[s] : s \in EverMates(r)} # {}
    BY <1>1, <1>3
  <2> QED BY <2>1, LeastIsOne DEF FirstSeen
<1>6. ClusterPriority(r) \in {Priority[s] : s \in Mates(r)}
  <2>1. {Priority[s] : s \in Mates(r)} \subseteq Nat /\ {Priority[s] : s \in Mates(r)} # {}
    BY <1>1, <1>3
  <2> QED BY <2>1, LeastIsOne DEF ClusterPriority
<1>7. ClusterSeen(r) \in {disc[s] : s \in Mates(r)}
  <2>1. {disc[s] : s \in Mates(r)} \subseteq Nat /\ {disc[s] : s \in Mates(r)} # {}
    BY <1>1, <1>3
  <2> QED BY <2>1, LeastIsOne DEF ClusterSeen
<1>8. {Urgency(r), FirstSeen(r), ClusterPriority(r), ClusterSeen(r)} \subseteq Nat
  BY <1>1, <1>3, <1>4, <1>5, <1>6, <1>7
<1>9. Urgency(r) <= ClusterPriority(r) /\ FirstSeen(r) <= ClusterSeen(r)
  BY <1>1, <1>4, <1>5, <1>6, <1>7
<1>10. Mates(r) = EverMates(r) => Urgency(r) = ClusterPriority(r) /\ FirstSeen(r) = ClusterSeen(r)
  BY DEF Urgency, FirstSeen, ClusterPriority, ClusterSeen
<1> QED BY <1>2, <1>8, <1>9, <1>10

\* claim_batch serves the clusters in the order of their first files: it passes
\* over a user whose next album could ship only for one who was there before or
\* has a more urgent file, unless a deletion moved the waiting user back.
THEOREM NobodyIsOvertaken == ClaimSpec => FirstSeenFirstServed
<1> DEFINE Fair == \A r \in Claimed, s \in Row :
                     Overtakes(r, s) => \E g \in WithStatus("gone") : Owner[g] = Owner[s]
<1>1. ASSUME CInv, ClaimNext, NEW r \in Claimed, NEW s \in Row, Overtakes(r, s),
             \A g \in WithStatus("gone") : Owner[g] # Owner[s]
      PROVE  FALSE
  <2>1. PICK a \in Heads : \E S \in Shippable(a) : Claimed \subseteq S
    BY <1>1, ClaimedTogether DEF CInv
  <2>2. /\ a \in Row /\ r \in Row /\ Owner[r] = Owner[a]
        /\ status[r] = "pending"
    BY <1>1, <2>1, AlbumIsOne, HeadsAreFirst
  <2>3. /\ ClusterPriority(a) = ClusterPriority(r) /\ ClusterSeen(a) = ClusterSeen(r)
    BY <2>2 DEF ClusterPriority, ClusterSeen, Mates
  <2>4. /\ status[s] = "pending" /\ CanShip(s)
        /\ Urgency(s) <= Urgency(r) /\ FirstSeen(s) < FirstSeen(r)
    BY <1>1 DEF Overtakes, Ready, WithStatus
  <2>5. /\ {Urgency(r), FirstSeen(r), ClusterPriority(r), ClusterSeen(r)} \subseteq Nat
        /\ Urgency(r) <= ClusterPriority(r) /\ FirstSeen(r) <= ClusterSeen(r)
    BY <1>1, <2>2, PlaceOfCluster
  <2>6. /\ {Urgency(s), FirstSeen(s), ClusterPriority(s), ClusterSeen(s)} \subseteq Nat
        /\ Urgency(s) = ClusterPriority(s) /\ FirstSeen(s) = ClusterSeen(s)
    BY <1>1, <2>4, PlaceOfCluster
  <2>7. ClusterPriority(s) <= ClusterPriority(a) /\ ClusterSeen(s) < ClusterSeen(a)
    BY <2>3, <2>4, <2>5, <2>6
  <2>8. Precedes(s, a)
    BY <2>3, <2>5, <2>6, <2>7 DEF Precedes
  <2> QED BY <2>1, <2>4, <2>8, HeadsAreFirst
<1>2. CInv /\ [ClaimNext]_claimVars => [Fair]_claimVars
  BY <1>1
<1> QED BY <1>2, ClaimInvariance, PTL DEF ClaimSpec, FirstSeenFirstServed

-----------------------------------------------------------------------------
(* The inductive invariant: the upload *)

UploadTyped ==
    /\ DOMAIN up = DOMAIN NoUpload
    /\ up.open \in Int /\ up.produced \in Nat /\ up.taken \in Nat
    /\ up.readable \in {Parts - 1, Parts}
    /\ up.why \in {"none", "handle", "error", "cancelled"}
    /\ DOMAIN consumer = Consumer
    /\ \A c \in Consumer : DOMAIN consumer[c] = DOMAIN NoTask /\ consumer[c].part \in Nat

\* Which tasks there are in each phase, and why it may be ending.
PhaseShape ==
    /\ up.phase = "off" => up.open = 0
    /\ up.phase = "connect" => up.produced = 0 /\ up.taken = 0
    /\ up.phase \in {"cancel", "close"} => up.why # "none"
    /\ up.phase = "cancel" => up.why # "handle"
    /\ \A c \in Consumer :
          /\ up.phase \in {"off", "connect"} => consumer[c].pc = "off"
          /\ up.phase = "run" => consumer[c].pc \in {"get", "send", "redial", "done"}
          /\ up.phase = "close" => consumer[c].pc \in {"off", "done"}

\* A consumer that has left the queue has left it with a pill of its own.
Finished == {c \in Consumer : consumer[c].pc = "done"}
PillsTaken == IF up.taken > up.readable THEN up.taken - up.readable ELSE 0

QueueShape ==
    up.phase = "run" =>
        /\ up.taken <= up.produced /\ up.produced <= up.readable + Workers
        /\ Cardinality(Finished) = PillsTaken

\* A part that was taken is confirmed, or some consumer still holds it.
Holds(c, k) == consumer[c].pc \in {"send", "redial"} /\ consumer[c].part = k

PartsShape ==
    /\ up.phase = "run" =>
          /\ \A k \in 1..up.readable :
                k <= up.taken => k \in acked \/ \E c \in Consumer : Holds(c, k)
          /\ acked \subseteq 1..up.readable
          /\ \A c \in Consumer : consumer[c].pc \in {"send", "redial"} =>
                consumer[c].part \in 1..up.readable
    /\ up.phase = "connect" => acked = {}
    /\ up.phase = "close" /\ up.why = "handle" => acked = 1..up.readable

UploadInv == UploadTyped /\ PhaseShape /\ QueueShape /\ PartsShape

\* What the envelope does with the upload.
UploadActs ==
    \/ UploadStep \/ UploadFault
    \/ up.phase = "off" /\ StartUpload
    \/ up.phase # "off" /\ CancelUpload
    \/ EndUpload

-----------------------------------------------------------------------------
(* The inductive invariant: the envelope *)

BeforeAnswer == {"route", "prepare", "poster", "attempt", "file", "serial", "parallel",
                 "unwind", "materialize", "request"}

Places == BeforeAnswer \cup {"idle", "raised", "reconnect", "after", "cleanup", "stopped"}
Uploading == {"parallel", "unwind"}

CallTyped ==
    /\ DOMAIN call = DOMAIN NoCall /\ call.pc \in Places
    /\ call.attempts \in Nat /\ call.posts \in Nat /\ call.lost \in Nat

\* The upload exists exactly while the attempt waits for it, and it was
\* cancelled only by the watchdog or by the shutdown.
UploadPlaces ==
    /\ call.pc \in Uploading <=> up.phase # "off"
    /\ At("parallel") => up.why # "cancelled"
    /\ At("unwind") => call.stopping \/ call.err = "stall"

\* What has reached the chat, place by place: until an envelope returns, only
\* answers that were lost, and the one that was heard.
Heard == call.posts = call.lost + 1
Silent == call.posts = call.lost

CopiesShape ==
    /\ call.pc \in BeforeAnswer => Silent /\ call.result = "none"
    /\ At("raised") =>
          /\ call.result = "none"
          /\ IF call.err = "none" THEN Heard ELSE Silent
    /\ At("reconnect") =>
          Silent /\ call.result = (IF call.attempts < MaxRetries THEN "none" ELSE "error")
    /\ At("after") => call.result # "none"
    /\ call.pc \in {"after", "cleanup"} /\ call.result # "none" =>
          IF call.result = "ok" THEN Heard ELSE Silent

SInv == UploadInv /\ CallTyped /\ UploadPlaces /\ CopiesShape

-----------------------------------------------------------------------------
(* The upload, part by part *)

LEMMA WorkersArePositive == Workers \in Nat \ {0} /\ Parts \in Nat \ {0}
BY UploadAssumption DEF Workers

LEMMA ConsumersAreFinite ==
    /\ IsFiniteSet(Consumer) /\ Cardinality(Consumer) = Workers
    /\ IsFiniteSet(Finished) /\ Cardinality(Finished) \in Nat
<1>1. IsFiniteSet(Consumer) /\ Cardinality(Consumer) = Workers
  BY WorkersArePositive, FS_Interval DEF Consumer
<1>2. IsFiniteSet(Finished)
  BY <1>1, FS_Subset DEF Finished
<1> QED BY <1>1, <1>2, FS_CardinalityType

\* The last connection is there: all tasks start.
LEMMA TasksStart ==
    ASSUME UploadTyped, Connect, up.open + 1 = Workers
    PROVE  /\ up.phase = "connect"
           /\ DOMAIN up' = DOMAIN NoUpload /\ up'.open = Workers /\ up'.phase = "run"
           /\ up'.produced = up.produced /\ up'.taken = up.taken
           /\ up'.readable = up.readable /\ up'.why = up.why
           /\ DOMAIN consumer' = Consumer /\ acked' = acked
           /\ \A c \in Consumer : consumer'[c] = [NoTask EXCEPT !.pc = "get"]
<1>1. up' = [up EXCEPT !.open = up.open + 1, !.phase = "run"] /\ acked' = acked
  BY DEF Connect
<1>2. consumer' = [c \in Consumer |-> [NoTask EXCEPT !.pc = "get"]]
  BY DEF Connect
<1>3. /\ DOMAIN up' = DOMAIN NoUpload /\ up'.open = Workers /\ up'.phase = "run"
      /\ up'.produced = up.produced /\ up'.taken = up.taken
      /\ up'.readable = up.readable /\ up'.why = up.why
  BY <1>1 DEF UploadTyped, NoUpload
<1> QED BY <1>1, <1>2, <1>3 DEF Connect

LEMMA UploadCancelled ==
    ASSUME UploadTyped, CancelUpload
    PROVE  /\ up.phase # "off" => up'.phase # "off"
           /\ DOMAIN up' = DOMAIN NoUpload /\ up'.open \in Int /\ up'.why = "cancelled"
           /\ up'.phase \in {"off", "cancel", "close"} \/ up'.phase = up.phase
BY DEF UploadTyped, CancelUpload, NoUpload

LEMMA UploadTypedStep ==
    ASSUME UploadTyped, UploadActs PROVE UploadTyped'
<1> USE WorkersArePositive DEF UploadTyped, NoUpload, NoTask
<1>1. CASE Connect
  <2>1. CASE up.open + 1 = Workers
    BY <1>1, <2>1, TasksStart
  <2>2. CASE up.open + 1 # Workers
    BY <1>1, <2>2 DEF Connect
  <2> QED BY <2>1, <2>2
<1>2. CASE ConnectFails
  BY <1>2 DEF ConnectFails
<1>3. CASE Produce
  BY <1>3 DEF Produce, Room
<1>4. ASSUME NEW c \in Consumer, Take(c) PROVE UploadTyped'
  BY <1>4 DEF Take, IsPill
<1>5. ASSUME NEW c \in Consumer, PartAcked(c) PROVE UploadTyped'
  BY <1>5 DEF PartAcked
<1>6. ASSUME NEW c \in Consumer, PartFails(c) PROVE UploadTyped'
  BY <1>6 DEF PartFails, Task
<1>7. ASSUME NEW c \in Consumer, Redial(c) PROVE UploadTyped'
  BY <1>7 DEF Redial
<1>8. ASSUME NEW c \in Consumer, TaskFails(c) PROVE UploadTyped'
  BY <1>8 DEF TaskFails, Task
<1>9. CASE Gathered
  BY <1>9 DEF Gathered, AllDone
<1>10. CASE TasksEnd
  BY <1>10 DEF TasksEnd
<1>11. CASE CloseOne
  BY <1>11 DEF CloseOne
<1>12. CASE CloseHangs
  BY <1>12 DEF CloseHangs
<1>13. CASE up.phase = "off" /\ StartUpload
  BY <1>13 DEF StartUpload
<1>14. CASE up.phase # "off" /\ CancelUpload
  BY <1>14 DEF CancelUpload
<1>15. CASE EndUpload
  BY <1>15 DEF EndUpload, Closed
<1>16. CASE ReadFails
  BY <1>16 DEF ReadFails
<1> QED
  BY <1>1, <1>2, <1>3, <1>4, <1>5, <1>6, <1>7, <1>8, <1>9, <1>10, <1>11, <1>12, <1>13,
     <1>14, <1>15, <1>16 DEF UploadActs, UploadStep, UploadFault

LEMMA PhaseShapeStep ==
    ASSUME UploadTyped, PhaseShape, UploadActs PROVE PhaseShape'
<1> USE WorkersArePositive DEF UploadTyped, PhaseShape, NoUpload, NoTask
<1>1. CASE Connect
  <2>1. CASE up.open + 1 = Workers
    BY <1>1, <2>1, TasksStart
  <2>2. CASE up.open + 1 # Workers
    BY <1>1, <2>2 DEF Connect
  <2> QED BY <2>1, <2>2
<1>2. CASE ConnectFails
  BY <1>2 DEF ConnectFails
<1>3. CASE Produce
  BY <1>3 DEF Produce, Room
<1>4. ASSUME NEW c \in Consumer, Take(c) PROVE PhaseShape'
  BY <1>4 DEF Take, IsPill
<1>5. ASSUME NEW c \in Consumer, PartAcked(c) PROVE PhaseShape'
  BY <1>5 DEF PartAcked
<1>6. ASSUME NEW c \in Consumer, PartFails(c) PROVE PhaseShape'
  BY <1>6 DEF PartFails, Task
<1>7. ASSUME NEW c \in Consumer, Redial(c) PROVE PhaseShape'
  BY <1>7 DEF Redial
<1>8. ASSUME NEW c \in Consumer, TaskFails(c) PROVE PhaseShape'
  BY <1>8 DEF TaskFails, Task
<1>9. CASE Gathered
  BY <1>9 DEF Gathered, AllDone
<1>10. CASE TasksEnd
  BY <1>10 DEF TasksEnd
<1>11. CASE CloseOne
  BY <1>11 DEF CloseOne
<1>12. CASE CloseHangs
  BY <1>12 DEF CloseHangs
<1>13. CASE up.phase = "off" /\ StartUpload
  BY <1>13 DEF StartUpload
<1>14. CASE up.phase # "off" /\ CancelUpload
  BY <1>14 DEF CancelUpload
<1>15. CASE EndUpload
  BY <1>15 DEF EndUpload, Closed
<1>16. CASE ReadFails
  BY <1>16 DEF ReadFails
<1> QED
  BY <1>1, <1>2, <1>3, <1>4, <1>5, <1>6, <1>7, <1>8, <1>9, <1>10, <1>11, <1>12, <1>13,
     <1>14, <1>15, <1>16 DEF UploadActs, UploadStep, UploadFault

\* Leaving the queue with a pill is the one way to be finished.
LEMMA QueueShapeStep ==
    ASSUME UploadTyped, PhaseShape, QueueShape, UploadActs PROVE QueueShape'
<1> USE WorkersArePositive DEF UploadTyped, PhaseShape, QueueShape, NoUpload, NoTask,
      PillsTaken
<1>1. CASE Connect
  <2>1. CASE up.open + 1 = Workers
    <3>1. Finished' = {}
      BY <1>1, <2>1, TasksStart DEF Finished
    <3>2. up'.phase = "run" /\ up'.taken = 0 /\ up'.produced = 0 /\ up'.readable = up.readable
      BY <1>1, <2>1, TasksStart
    <3>3. Cardinality({}) = 0
      BY FS_EmptySet
    <3> QED BY <3>1, <3>2, <3>3 DEF Connect
  <2>2. CASE up.open + 1 # Workers
    BY <1>1, <2>2 DEF Connect
  <2> QED BY <2>1, <2>2
<1>2. CASE ConnectFails
  BY <1>2 DEF ConnectFails
<1>3. CASE Produce
  <2>1. Finished' = Finished
    BY <1>3 DEF Produce, Finished
  <2> QED BY <1>3, <2>1 DEF Produce, Pills
<1>4. ASSUME NEW c \in Consumer, Take(c) PROVE QueueShape'
  <2>1. up.phase = "run" /\ up.taken + 1 <= up.produced
        /\ up' = [up EXCEPT !.taken = @ + 1]
    BY <1>4 DEF Take
  <2>2. CASE IsPill(up.taken + 1)
    <3>1. c \notin Finished /\ Finished' = Finished \cup {c}
      BY <1>4, <2>1, <2>2 DEF Take, IsPill, Finished
    <3>2. Cardinality(Finished') = Cardinality(Finished) + 1
      BY <3>1, ConsumersAreFinite, FS_AddElement
    <3> QED BY <2>1, <2>2, <3>2 DEF IsPill
  <2>3. CASE ~ IsPill(up.taken + 1)
    <3>1. Finished' = Finished
      BY <1>4, <2>1, <2>3 DEF Take, IsPill, Finished
    <3> QED BY <2>1, <2>3, <3>1 DEF IsPill
  <2> QED BY <2>2, <2>3
<1>5. ASSUME NEW c \in Consumer, PartAcked(c) PROVE QueueShape'
  <2>1. Finished' = Finished
    BY <1>5 DEF PartAcked, Finished
  <2> QED BY <1>5, <2>1 DEF PartAcked
<1>6. ASSUME NEW c \in Consumer, PartFails(c) PROVE QueueShape'
  <2>1. Finished' = Finished
    BY <1>6 DEF PartFails, Task, Finished
  <2> QED BY <1>6, <2>1 DEF PartFails
<1>7. ASSUME NEW c \in Consumer, Redial(c) PROVE QueueShape'
  <2>1. Finished' = Finished
    BY <1>7 DEF Redial, Finished
  <2> QED BY <1>7, <2>1 DEF Redial
<1>8. ASSUME NEW c \in Consumer, TaskFails(c) PROVE QueueShape'
  BY <1>8 DEF TaskFails, Task
<1>9. CASE Gathered
  BY <1>9 DEF Gathered, AllDone
<1>10. CASE TasksEnd
  BY <1>10 DEF TasksEnd
<1>11. CASE CloseOne
  BY <1>11 DEF CloseOne
<1>12. CASE CloseHangs
  BY <1>12 DEF CloseHangs
<1>13. CASE up.phase = "off" /\ StartUpload
  BY <1>13 DEF StartUpload
<1>14. CASE up.phase # "off" /\ CancelUpload
  BY <1>14 DEF CancelUpload
<1>15. CASE EndUpload
  BY <1>15 DEF EndUpload, Closed
<1>16. CASE ReadFails
  BY <1>16 DEF ReadFails
<1> QED
  BY <1>1, <1>2, <1>3, <1>4, <1>5, <1>6, <1>7, <1>8, <1>9, <1>10, <1>11, <1>12, <1>13,
     <1>14, <1>15, <1>16 DEF UploadActs, UploadStep, UploadFault

LEMMA WhenAllAreDone ==
    ASSUME UploadTyped, QueueShape, up.phase = "run", AllDone
    PROVE  up.taken = up.readable + Workers
<1>1. Finished = Consumer
  BY DEF AllDone, Finished
<1> QED BY <1>1, ConsumersAreFinite, WorkersArePositive DEF QueueShape, PillsTaken, UploadTyped

LEMMA PartsShapeStep ==
    ASSUME UploadTyped, PhaseShape, QueueShape, PartsShape, UploadActs PROVE PartsShape'
<1> USE WorkersArePositive DEF UploadTyped, PhaseShape, PartsShape, NoUpload, NoTask, Holds
<1>1. CASE Connect
  <2>1. CASE up.open + 1 = Workers
    BY <1>1, <2>1, TasksStart
  <2>2. CASE up.open + 1 # Workers
    BY <1>1, <2>2 DEF Connect
  <2> QED BY <2>1, <2>2
<1>2. CASE ConnectFails
  BY <1>2 DEF ConnectFails
<1>3. CASE Produce
  BY <1>3 DEF Produce, Room
<1>4. ASSUME NEW c \in Consumer, Take(c) PROVE PartsShape'
  <2>1. up.phase = "run" /\ up' = [up EXCEPT !.taken = @ + 1] /\ acked' = acked
        /\ consumer[c].pc = "get"
    BY <1>4 DEF Take
  <2>2. \A d \in Consumer : consumer[d].pc \in {"send", "redial"} => consumer'[d] = consumer[d]
    BY <1>4 DEF Take
  <2>3. up.taken + 1 <= up.readable => consumer'[c].pc = "send" /\ consumer'[c].part = up.taken + 1
    BY <1>4 DEF Take, IsPill
  <2>4. \A d \in Consumer : consumer'[d].pc \in {"send", "redial"} =>
           consumer'[d] = consumer[d] \/ (d = c /\ consumer'[d].part = up.taken + 1 /\ up.taken + 1 <= up.readable)
    BY <1>4 DEF Take, IsPill
  <2>5. ASSUME NEW k \in 1..up.readable, k <= up.taken + 1
        PROVE  k \in acked \/ \E d \in Consumer : Holds(d, k)'
    BY <2>1, <2>2, <2>3, <2>5
  <2> QED BY <2>1, <2>4, <2>5
<1>5. ASSUME NEW c \in Consumer, PartAcked(c) PROVE PartsShape'
  <2>1. \A d \in Consumer : d # c => consumer'[d] = consumer[d]
    BY <1>5 DEF PartAcked
  <2>2. up.phase = "run" /\ up' = up /\ acked' = acked \cup {consumer[c].part}
        /\ consumer[c].pc = "send" /\ consumer'[c].pc = "get"
    BY <1>5 DEF PartAcked
  <2>3. ASSUME NEW k \in 1..up.readable, k <= up.taken
        PROVE  k \in acked' \/ \E d \in Consumer : Holds(d, k)'
    BY <2>1, <2>2, <2>3
  <2> QED BY <2>1, <2>2, <2>3
<1>6. ASSUME NEW c \in Consumer, PartFails(c) PROVE PartsShape'
  <2>1. \A d \in Consumer : Holds(d, consumer[d].part)' <=> Holds(d, consumer[d].part)
    BY <1>6 DEF PartFails, Task
  <2>2. \A d \in Consumer : consumer'[d].part = consumer[d].part
    BY <1>6 DEF PartFails, Task
  <2>3. up.phase = "run" /\ up'.phase = "run" /\ up'.taken = up.taken /\ up'.readable = up.readable
        /\ acked' = acked
    BY <1>6 DEF PartFails
  <2> QED BY <2>1, <2>2, <2>3
<1>7. ASSUME NEW c \in Consumer, Redial(c) PROVE PartsShape'
  <2>1. \A d \in Consumer : Holds(d, consumer[d].part)' <=> Holds(d, consumer[d].part)
    BY <1>7 DEF Redial
  <2>2. \A d \in Consumer : consumer'[d].part = consumer[d].part
    BY <1>7 DEF Redial
  <2>3. up.phase = "run" /\ up'.phase = "run" /\ up'.taken = up.taken /\ up'.readable = up.readable
        /\ acked' = acked
    BY <1>7 DEF Redial
  <2> QED BY <2>1, <2>2, <2>3
<1>8. ASSUME NEW c \in Consumer, TaskFails(c) PROVE PartsShape'
  BY <1>8 DEF TaskFails, Task
<1>9. CASE Gathered
  <2>1. up.taken = up.readable + Workers
    BY <1>9, WhenAllAreDone DEF Gathered
  <2>2. \A k \in 1..up.readable : k \in acked
    BY <1>9, <2>1 DEF Gathered, AllDone
  <2> QED BY <1>9, <2>2 DEF Gathered
<1>10. CASE TasksEnd
  BY <1>10 DEF TasksEnd
<1>11. CASE CloseOne
  BY <1>11 DEF CloseOne
<1>12. CASE CloseHangs
  BY <1>12 DEF CloseHangs
<1>13. CASE up.phase = "off" /\ StartUpload
  BY <1>13 DEF StartUpload
<1>14. CASE up.phase # "off" /\ CancelUpload
  BY <1>14 DEF CancelUpload
<1>15. CASE EndUpload
  BY <1>15 DEF EndUpload, Closed
<1>16. CASE ReadFails
  BY <1>16 DEF ReadFails
<1> QED
  BY <1>1, <1>2, <1>3, <1>4, <1>5, <1>6, <1>7, <1>8, <1>9, <1>10, <1>11, <1>12, <1>13,
     <1>14, <1>15, <1>16 DEF UploadActs, UploadStep, UploadFault

\* Inside, an upload neither begins, nor is over, nor is cancelled.
LEMMA UploadKeepsOn ==
    ASSUME UploadTyped, UploadStep \/ UploadFault
    PROVE  /\ up.phase # "off" /\ up'.phase # "off"
           /\ up'.why = "cancelled" => up.why = "cancelled"
<1> USE DEF UploadTyped, NoUpload
<1>1. CASE Connect
  <2>1. CASE up.open + 1 = Workers
    BY <1>1, <2>1 DEF Connect
  <2>2. CASE up.open + 1 # Workers
    BY <1>1, <2>2 DEF Connect
  <2> QED BY <2>1, <2>2
<1>2. CASE ConnectFails
  BY <1>2 DEF ConnectFails
<1>3. CASE Produce
  BY <1>3 DEF Produce, Room
<1>4. ASSUME NEW c \in Consumer, Take(c)
      PROVE  (up.phase # "off" /\ up'.phase # "off" /\ (up'.why = "cancelled" => up.why = "cancelled"))
  BY <1>4 DEF Take, IsPill
<1>5. ASSUME NEW c \in Consumer, PartAcked(c)
      PROVE  (up.phase # "off" /\ up'.phase # "off" /\ (up'.why = "cancelled" => up.why = "cancelled"))
  BY <1>5 DEF PartAcked
<1>6. ASSUME NEW c \in Consumer, PartFails(c)
      PROVE  (up.phase # "off" /\ up'.phase # "off" /\ (up'.why = "cancelled" => up.why = "cancelled"))
  BY <1>6 DEF PartFails, Task
<1>7. ASSUME NEW c \in Consumer, Redial(c)
      PROVE  (up.phase # "off" /\ up'.phase # "off" /\ (up'.why = "cancelled" => up.why = "cancelled"))
  BY <1>7 DEF Redial
<1>8. ASSUME NEW c \in Consumer, TaskFails(c)
      PROVE  (up.phase # "off" /\ up'.phase # "off" /\ (up'.why = "cancelled" => up.why = "cancelled"))
  BY <1>8 DEF TaskFails, Task
<1>9. CASE Gathered
  BY <1>9 DEF Gathered, AllDone
<1>10. CASE TasksEnd
  BY <1>10 DEF TasksEnd
<1>11. CASE CloseOne
  BY <1>11 DEF CloseOne
<1>12. CASE CloseHangs
  BY <1>12 DEF CloseHangs
<1>13. CASE ReadFails
  BY <1>13 DEF ReadFails
<1> QED
  BY <1>1, <1>2, <1>3, <1>4, <1>5, <1>6, <1>7, <1>8, <1>9, <1>10, <1>11, <1>12, <1>13 DEF
     UploadStep, UploadFault

LEMMA UploadInvStep == ASSUME UploadInv, UploadActs PROVE UploadInv'
BY UploadTypedStep, PhaseShapeStep, QueueShapeStep, PartsShapeStep DEF UploadInv

LEMMA UploadInvStays == ASSUME UploadInv, UNCHANGED uploadVars PROVE UploadInv'
BY DEF UploadInv, UploadTyped, PhaseShape, QueueShape, PartsShape, Finished, PillsTaken,
       Holds, uploadVars

LEMMA UploadInvInit == ASSUME UploadInit PROVE UploadInv
BY WorkersArePositive DEF UploadInit, UploadInv, UploadTyped, PhaseShape, QueueShape,
   PartsShape, NoUpload, NoTask


-----------------------------------------------------------------------------
(* The envelope, part by part *)

\* Every step of the envelope leaves the upload alone or is one of its acts, and
\* none moves it except in these two places.
LEMMA UploadUnderSend ==
    ASSUME UploadPlaces, CallTyped, Next
    PROVE  UploadActs \/ UNCHANGED uploadVars
<1> USE DEF UploadPlaces, CallTyped, Uploading, UploadActs, At, uploadVars
<1>1. CASE BeginSend
  BY <1>1 DEF BeginSend
<1>2. CASE Route
  BY <1>2 DEF Route
<1>3. CASE FileMissing
  BY <1>3 DEF FileMissing
<1>4. CASE Prepare
  BY <1>4 DEF Prepare
<1>5. CASE Poster
  BY <1>5 DEF Poster
<1>6. CASE Attempt
  BY <1>6 DEF Attempt
<1>7. CASE NextFile
  BY <1>7 DEF NextFile
<1>8. CASE Parallel
  BY <1>8 DEF Parallel, Uploaded
<1>9. CASE Serial
  BY <1>9 DEF Serial, Uploaded
<1>10. CASE Materialize
  BY <1>10 DEF Materialize
<1>11. CASE Posted
  BY <1>11 DEF Posted
<1>12. CASE AnswerLost
  BY <1>12 DEF AnswerLost
<1>13. CASE RequestFails
  BY <1>13 DEF RequestFails, Errors
<1>14. CASE UploadMoves
  BY <1>14 DEF UploadMoves
<1>15. CASE UploadTrouble
  BY <1>15 DEF UploadTrouble
<1>16. CASE Stall
  BY <1>16 DEF Stall
<1>17. CASE SleepsFlood
  BY <1>17 DEF SleepsFlood
<1>18. CASE Surfaces
  BY <1>18 DEF Surfaces, Rejections
<1>19. CASE DiesUnauthorized
  BY <1>19 DEF DiesUnauthorized
<1>20. CASE Counts
  BY <1>20 DEF Counts, Counted
<1>21. CASE Reconnect
  BY <1>21 DEF Reconnect
<1>22. CASE ConvertPhoto
  BY <1>22 DEF ConvertPhoto, Envelope2, Converts
<1>23. CASE ConvertAlbum
  BY <1>23 DEF ConvertAlbum, Envelope2, Converts
<1>24. CASE FallBack
  BY <1>24 DEF FallBack, Envelope2
<1>25. CASE Conclude
  BY <1>25 DEF Conclude
<1>26. CASE Cleanup
  BY <1>26 DEF Cleanup
<1>27. CASE Shutdown
  BY <1>27 DEF Shutdown
<1>28. CASE Restart
  BY <1>28 DEF Restart
<1> QED
  BY <1>1, <1>2, <1>3, <1>4, <1>5, <1>6, <1>7, <1>8, <1>9, <1>10, <1>11, <1>12, <1>13,
     <1>14, <1>15, <1>16, <1>17, <1>18, <1>19, <1>20, <1>21, <1>22, <1>23, <1>24, <1>25,
     <1>26, <1>27, <1>28 DEF Next, Work

LEMMA CallTypedStep ==
    ASSUME CallTyped, Next PROVE CallTyped'
<1> USE SendAssumption DEF CallTyped, NoCall, Places, BeforeAnswer, At, Goto, Raise
<1>1. CASE BeginSend
  BY <1>1 DEF BeginSend
<1>2. CASE Route
  BY <1>2 DEF Route
<1>3. CASE FileMissing
  BY <1>3 DEF FileMissing
<1>4. CASE Prepare
  BY <1>4 DEF Prepare
<1>5. CASE Poster
  BY <1>5 DEF Poster
<1>6. CASE Attempt
  BY <1>6 DEF Attempt
<1>7. CASE NextFile
  BY <1>7 DEF NextFile
<1>8. CASE Parallel
  BY <1>8 DEF Parallel, Uploaded
<1>9. CASE Serial
  BY <1>9 DEF Serial, Uploaded
<1>10. CASE Materialize
  BY <1>10 DEF Materialize
<1>11. CASE Posted
  BY <1>11 DEF Posted
<1>12. CASE AnswerLost
  BY <1>12 DEF AnswerLost
<1>13. CASE RequestFails
  BY <1>13 DEF RequestFails, Errors
<1>14. CASE UploadMoves
  BY <1>14 DEF UploadMoves
<1>15. CASE UploadTrouble
  BY <1>15 DEF UploadTrouble
<1>16. CASE Stall
  BY <1>16 DEF Stall
<1>17. CASE SleepsFlood
  BY <1>17 DEF SleepsFlood
<1>18. CASE Surfaces
  BY <1>18 DEF Surfaces, Rejections
<1>19. CASE DiesUnauthorized
  BY <1>19 DEF DiesUnauthorized
<1>20. CASE Counts
  BY <1>20 DEF Counts, Counted
<1>21. CASE Reconnect
  BY <1>21 DEF Reconnect
<1>22. CASE ConvertPhoto
  <2>1. CASE call' = Envelope2
    BY <1>22, <2>1 DEF Envelope2
  <2>2. CASE Goto("cleanup")
    BY <2>2
  <2> QED BY <1>22, <2>1, <2>2 DEF ConvertPhoto
<1>23. CASE ConvertAlbum
  BY <1>23 DEF ConvertAlbum, Envelope2, Converts
<1>24. CASE FallBack
  BY <1>24 DEF FallBack, Envelope2
<1>25. CASE Conclude
  BY <1>25 DEF Conclude
<1>26. CASE Cleanup
  BY <1>26 DEF Cleanup
<1>27. CASE Shutdown
  BY <1>27 DEF Shutdown
<1>28. CASE Restart
  BY <1>28 DEF Restart
<1> QED
  BY <1>1, <1>2, <1>3, <1>4, <1>5, <1>6, <1>7, <1>8, <1>9, <1>10, <1>11, <1>12, <1>13,
     <1>14, <1>15, <1>16, <1>17, <1>18, <1>19, <1>20, <1>21, <1>22, <1>23, <1>24, <1>25,
     <1>26, <1>27, <1>28 DEF Next, Work

LEMMA UploadPlacesStep ==
    ASSUME UploadInv, CallTyped, UploadPlaces, Next PROVE UploadPlaces'
<1> USE DEF CallTyped, UploadPlaces, Uploading, NoCall, At, Goto, Raise, uploadVars
<1>1. CASE BeginSend
  BY <1>1 DEF BeginSend
<1>2. CASE Route
  BY <1>2 DEF Route
<1>3. CASE FileMissing
  BY <1>3 DEF FileMissing
<1>4. CASE Prepare
  BY <1>4 DEF Prepare
<1>5. CASE Poster
  BY <1>5 DEF Poster
<1>6. CASE Attempt
  BY <1>6 DEF Attempt
<1>7. CASE NextFile
  BY <1>7 DEF NextFile, StartUpload, NoUpload
<1>8. CASE Parallel
  BY ZenonT(60), <1>8 DEF Parallel, Uploaded, EndUpload, Closed, NoUpload, UploadInv, PhaseShape
<1>9. CASE Serial
  BY <1>9 DEF Serial, Uploaded
<1>10. CASE Materialize
  BY <1>10 DEF Materialize
<1>11. CASE Posted
  BY <1>11 DEF Posted
<1>12. CASE AnswerLost
  BY <1>12 DEF AnswerLost
<1>13. CASE RequestFails
  BY <1>13 DEF RequestFails, Errors
<1>14. CASE UploadMoves
  BY <1>14, UploadKeepsOn DEF UploadMoves, UploadInv
<1>15. CASE UploadTrouble
  BY <1>15, UploadKeepsOn DEF UploadTrouble, UploadInv
<1>16. CASE Stall
  <2>1. CASE UNCHANGED uploadVars
    BY <1>16, <2>1 DEF Stall
  <2>2. CASE At("parallel") /\ CancelUpload /\ call' = [call EXCEPT !.pc = "unwind", !.err = "stall"]
    BY <2>2, UploadCancelled DEF UploadInv
  <2> QED BY <1>16, <2>1, <2>2 DEF Stall
<1>17. CASE SleepsFlood
  BY <1>17 DEF SleepsFlood
<1>18. CASE Surfaces
  BY <1>18 DEF Surfaces, Rejections
<1>19. CASE DiesUnauthorized
  BY <1>19 DEF DiesUnauthorized
<1>20. CASE Counts
  BY <1>20 DEF Counts, Counted
<1>21. CASE Reconnect
  BY <1>21 DEF Reconnect
<1>22. CASE ConvertPhoto
  BY <1>22 DEF ConvertPhoto, Envelope2, Converts
<1>23. CASE ConvertAlbum
  BY <1>23 DEF ConvertAlbum, Envelope2, Converts
<1>24. CASE FallBack
  BY <1>24 DEF FallBack, Envelope2
<1>25. CASE Conclude
  BY <1>25 DEF Conclude
<1>26. CASE Cleanup
  BY <1>26 DEF Cleanup
<1>27. CASE Shutdown
  <2>1. CASE UNCHANGED uploadVars /\ call'.pc \notin Uploading /\ call.pc \notin Uploading
    BY <2>1
  <2>2. CASE /\ call.pc \in Uploading /\ CancelUpload
             /\ call' = [call EXCEPT !.pc = "unwind", !.stopping = TRUE]
    BY <2>2, UploadCancelled DEF UploadInv
  <2>3. CASE call.pc \notin Uploading
    BY <1>27, <2>1, <2>3 DEF Shutdown
  <2> QED BY <1>27, <2>2, <2>3 DEF Shutdown
<1>28. CASE Restart
  BY <1>28 DEF Restart
<1> QED
  BY <1>1, <1>2, <1>3, <1>4, <1>5, <1>6, <1>7, <1>8, <1>9, <1>10, <1>11, <1>12, <1>13,
     <1>14, <1>15, <1>16, <1>17, <1>18, <1>19, <1>20, <1>21, <1>22, <1>23, <1>24, <1>25,
     <1>26, <1>27, <1>28 DEF Next, Work

LEMMA CopiesShapeStep ==
    ASSUME UploadInv, CallTyped, UploadPlaces, CopiesShape, Next PROVE CopiesShape'
<1> USE SendAssumption DEF CallTyped, UploadPlaces, Uploading, CopiesShape, Heard, Silent, BeforeAnswer,
      NoCall, At, Goto, Raise
<1>1. CASE BeginSend
  BY <1>1 DEF BeginSend
<1>2. CASE Route
  BY <1>2 DEF Route
<1>3. CASE FileMissing
  BY <1>3 DEF FileMissing
<1>4. CASE Prepare
  BY <1>4 DEF Prepare
<1>5. CASE Poster
  BY <1>5 DEF Poster
<1>6. CASE Attempt
  BY ZenonT(60), <1>6 DEF Attempt
<1>7. CASE NextFile
  BY ZenonT(60), <1>7 DEF NextFile
<1>8. CASE Parallel
  <2>1. call.pc \in Uploading /\ up.why # "none" /\ (At("unwind") \/ up.why \in {"handle", "error"})
    BY <1>8 DEF Parallel, EndUpload, Closed, UploadInv, UploadTyped, PhaseShape
  <2> QED BY ZenonT(60), <1>8, <2>1 DEF Parallel, Uploaded
<1>9. CASE Serial
  BY <1>9 DEF Serial, Uploaded
<1>10. CASE Materialize
  BY <1>10 DEF Materialize
<1>11. CASE Posted
  BY <1>11 DEF Posted
<1>12. CASE AnswerLost
  BY <1>12 DEF AnswerLost
<1>13. CASE RequestFails
  BY <1>13 DEF RequestFails, Errors
<1>14. CASE UploadMoves
  BY <1>14 DEF UploadMoves
<1>15. CASE UploadTrouble
  BY <1>15 DEF UploadTrouble
<1>16. CASE Stall
  BY ZenonT(60), <1>16 DEF Stall
<1>17. CASE SleepsFlood
  BY <1>17 DEF SleepsFlood
<1>18. CASE Surfaces
  BY <1>18 DEF Surfaces, Rejections
<1>19. CASE DiesUnauthorized
  BY <1>19 DEF DiesUnauthorized
<1>20. CASE Counts
  BY <1>20 DEF Counts, Counted
<1>21. CASE Reconnect
  BY <1>21 DEF Reconnect
<1>22. CASE ConvertPhoto
  BY ZenonT(60), <1>22 DEF ConvertPhoto, Envelope2, Converts
<1>23. CASE ConvertAlbum
  BY <1>23 DEF ConvertAlbum, Envelope2, Converts
<1>24. CASE FallBack
  BY <1>24 DEF FallBack, Envelope2
<1>25. CASE Conclude
  BY <1>25 DEF Conclude
<1>26. CASE Cleanup
  BY <1>26 DEF Cleanup
<1>27. CASE Shutdown
  <2>1. CASE call' = [call EXCEPT !.pc = "stopped", !.stopping = TRUE]
    BY <2>1
  <2>2. CASE call' = [call EXCEPT !.pc = "unwind", !.stopping = TRUE] /\ call.pc \in Uploading
    BY <2>2
  <2>3. CASE /\ call' = [call EXCEPT !.pc = "cleanup", !.stopping = TRUE]
             /\ call.pc \notin {"idle", "cleanup", "stopped"}
    BY <2>3 DEF Places
  <2> QED BY <1>27, <2>1, <2>2, <2>3 DEF Shutdown
<1>28. CASE Restart
  BY <1>28 DEF Restart
<1> QED
  BY <1>1, <1>2, <1>3, <1>4, <1>5, <1>6, <1>7, <1>8, <1>9, <1>10, <1>11, <1>12, <1>13,
     <1>14, <1>15, <1>16, <1>17, <1>18, <1>19, <1>20, <1>21, <1>22, <1>23, <1>24, <1>25,
     <1>26, <1>27, <1>28 DEF Next, Work

-----------------------------------------------------------------------------
(* The theorems *)

\* The inductive invariant of the send: what the parallel upload is at, that it
\* lives only inside the attempt that waits for it, and what has reached the chat.
THEOREM SendInvariance == Spec => []SInv
<1>1. Init => SInv
  <2> SUFFICES ASSUME Init PROVE SInv
    OBVIOUS
  <2>1. UploadInv
    BY UploadInvInit DEF Init
  <2>2. CallTyped /\ UploadPlaces /\ CopiesShape
    BY DEF Init, UploadInit, NoUpload, NoCall, CallTyped, Places, BeforeAnswer, UploadPlaces,
           Uploading, CopiesShape, At
  <2> QED BY <2>1, <2>2 DEF SInv
<1>2. SInv /\ [Next]_vars => SInv'
  <2> SUFFICES ASSUME SInv, [Next]_vars PROVE SInv'
    OBVIOUS
  <2>1. CASE Next
    <3>1. UploadInv'
      BY <2>1, UploadUnderSend, UploadInvStep, UploadInvStays DEF SInv
    <3> QED BY <2>1, <3>1, CallTypedStep, UploadPlacesStep, CopiesShapeStep DEF SInv
  <2>2. CASE UNCHANGED vars
    <3>1. UploadInv'
      BY <2>2, UploadInvStays DEF SInv, vars
    <3> QED BY <2>2, <3>1 DEF SInv, vars, uploadVars, CallTyped, UploadPlaces, CopiesShape, At,
                              Heard, Silent
  <2> QED BY <2>1, <2>2
<1> QED BY <1>1, <1>2, PTL DEF Spec

\* For every file and every number of connections: once an attempt is over,
\* whichever way it ended, no task of its upload runs and no connection of it is
\* open (fast_upload's callbacks, under the watchdog's and the shutdown's cancel).
THEOREM NoUploadOutlivesItsAttempt == Spec => []UploadEndsWithAttempt
<1>1. SInv => UploadEndsWithAttempt
  BY DEF SInv, UploadInv, PhaseShape, UploadPlaces, UploadEndsWithAttempt, Uploading
<1> QED BY <1>1, SendInvariance, PTL

\* Producer and consumers of the bounded queue are never all asleep: a queue that
\* is full has a consumer to wake, one that is empty has pills to come, and as
\* many pills are put as there are consumers to take them.
THEOREM QueueNeverLocks == Spec => []PipelineMoves
<1>1. SInv => PipelineMoves
  <2> SUFFICES ASSUME SInv, Stuck PROVE FALSE
    BY DEF PipelineMoves
  <2> USE WorkersArePositive DEF SInv, UploadInv
  <2>1. up.phase = "run" /\ ~ Awaiting /\ ~ AllDone
    BY DEF Stuck
  <2>2. \A c \in Consumer : consumer[c].pc \in {"get", "done"}
    BY <2>1 DEF PhaseShape, Awaiting
  <2>3. up.taken = up.produced
    BY <2>1, <2>2 DEF Stuck, AllDone
  <2>4. Room
    BY <2>3 DEF Room, QueueSize, UploadTyped
  <2>5. up.taken = up.readable + Workers
    BY <2>3, <2>4 DEF Stuck, Pills
  <2>6. Cardinality(Finished) = Workers
    BY <2>1, <2>5 DEF QueueShape, PillsTaken, UploadTyped
  <2>7. Finished = Consumer
    BY <2>6, ConsumersAreFinite, FS_Subset DEF Finished
  <2> QED BY <2>1, <2>7 DEF Finished, AllDone
<1> QED BY <1>1, SendInvariance, PTL

\* A handle is returned only for an upload whose every readable part Telegram has
\* confirmed (upload_file_parallel returns its InputFile after gather).
THEOREM HandleIsComplete == Spec => []HandleMeansAllParts
<1>1. SInv => HandleMeansAllParts
  BY DEF SInv, UploadInv, PartsShape, HandleMeansAllParts
<1> QED BY <1>1, SendInvariance, PTL

\* For every budget: a send that reports success has put one copy in the chat
\* that was acknowledged, one that reports failure none, and every other copy is
\* an answer that was lost (_send_with_retries, the conversions, the fallback).
THEOREM CopiesAddUp == Spec => []CopiesAreExplained
<1>1. SInv => CopiesAreExplained
  BY DEF SInv, CallTyped, CopiesShape, CopiesAreExplained, Heard, Silent, At
<1> QED BY <1>1, SendInvariance, PTL
===============================================================================
