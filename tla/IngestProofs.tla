----------------------------- MODULE IngestProofs -----------------------------
(***************************************************************************)
(* Proofs about Ingest, for every set of paths, contents, digests, names,   *)
(* workers and sweeps, and every bound.                                     *)
(*                                                                          *)
(* What a worker or the dispatcher remembers of a row may be stale; what    *)
(* stays true of it is that a row keeps its digest, its kind and its bytes  *)
(* under every path it is moved to (RowMoves), and that ids do not return.  *)
(* From that follow the postings (HomeCount) and the survival of the bytes  *)
(* that no two workers had in hand at once (Survivors).                     *)
(***************************************************************************)
EXTENDS Ingest, Integers, FiniteSetTheorems, TLAPS

-----------------------------------------------------------------------------
(* What rows are, and what is remembered of them *)

RowFields == {"path", "ident", "hash", "status", "orphaned"}

GoodRow(r) ==
    \/ r = NoRow
    \/ /\ DOMAIN r = RowFields /\ r.status \in Status \ {"absent"}
       /\ r.path \in Path
       /\ r.hash \in {NoHash, Bytes[r.path]}
       /\ r.hash = NoHash => ~ r.orphaned

GoodRows ==
    /\ DOMAIN rows = Id /\ nextId \in Nat \ {0}
    /\ \A i \in Id : GoodRow(rows[i])
    /\ \A i \in Live : i < nextId

GoodChats == /\ posted \in [Content -> [Chat -> Nat]]
             /\ unrecorded \subseteq Content /\ disk \subseteq Path

\* The row with this id, as long as there is one, has these bytes.
Remembers(id, h) == /\ id \in Id /\ id < nextId
                    /\ id \in Live => rows[id].hash = h

HasTwin == {"collapse", "dropIncoming", "takeOver", "adopt", "retire", "finish"}

GoodWorker(w) ==
    /\ wpc[w] = "idle" => whash[w] = NoHash
    /\ wpc[w] # "idle" =>
        /\ wpath[w] \in Sweeps[w] \cap Path
        /\ whash[w] \in {NoHash, Bytes[wpath[w]]}
        /\ whash[w] = NoHash => wpc[w] = "insert" /\ w \in Reconciles
        /\ wpc[w] = "reintroduced" => Delivered(Bytes[wpath[w]])
        /\ wpc[w] \in HasTwin =>
              /\ Remembers(wtwin[w].id, whash[w])
              /\ wtwin[w].path \in Path /\ Bytes[wtwin[w].path] = Bytes[wpath[w]]

GoodWorkers ==
    /\ DOMAIN wpc = Worker /\ DOMAIN wpath = Worker /\ DOMAIN whash = Worker /\ DOMAIN wtwin = Worker
    /\ \A w \in Worker : GoodWorker(w)

GoodDispatcher ==
    dpc # "idle" =>
        /\ DOMAIN drow = {"id", "path", "hash", "orphaned"}
        /\ Remembers(drow.id, drow.hash)
        /\ drow.id \in Live => rows[drow.id].orphaned = drow.orphaned
        /\ drow.path \in Path
        /\ dpc = "check" =>
              /\ drow.hash \in {NoHash, Bytes[drow.path]}
              /\ drow.hash = NoHash /\ drow.id \in Live => rows[drow.id].path = drow.path
        /\ dpc = "dropRow" => drow.orphaned
        /\ dpc \in {"unlink", "dropRow"} => Delivered(Bytes[drow.path])

\* How often a content may be in its platform's chat: for the row that says so,
\* and once more for each row inserted without a digest.
SentHome(c) == {i \in WithStatus("sent") : ~ rows[i].orphaned /\ rows[i].hash = c}
SentBare(c) == {i \in WithStatus("sent") : rows[i].hash = NoHash /\ Bytes[rows[i].path] = c}

HomeCount ==
    \A c \in Content \ unrecorded :
        posted[c]["home"] <= (IF SentHome(c) = {} THEN 0 ELSE 1) + Cardinality(SentBare(c))

Ledger == /\ GoodRows /\ GoodChats /\ GoodWorkers /\ GoodDispatcher
          /\ SentRowsDelivered /\ HomeCount

-----------------------------------------------------------------------------
(* What keeps the bytes on disk *)

\* Bytes that are delivered, or for which nothing is promised any more.
Settled(c) == Delivered(c) \/ c \in contested

\* Two workers have one file in hand only if it is contested.
OneHand ==
    \A v, w \in Worker : \A p \in Path :
        v # w /\ TakesUp(v, p) /\ TakesUp(w, p) => Bytes[p] \in contested

\* w is going to remove the file at p: the copy it took up, or its twin's.
Drops(w, p) == wpc[w] = "dropIncoming" /\ wpath[w] = p
Retires(w, p) == wpc[w] \in {"adopt", "retire"} /\ wtwin[w].path = p
Spared(p) == p \in disk /\ \A w \in Worker : ~ Drops(w, p) /\ ~ Retires(w, p)

\* A copy that is as well named, and was not taken up before w took up its own
\* (since: the order in which the files in hand were taken up).
NotBefore(since, w, q) == \A v \in Worker : TakesUp(v, q) => since[v] > since[w]

NoRowYet ==
    \A w \in Worker : \A p \in Path :
        TakesUp(w, p) /\ Bytes[p] \notin contested => RowsAt(p) = {}

TwinsAreLater(since) ==
    \A w \in Worker : wpc[w] = "collapse" /\ Bytes[wpath[w]] \notin contested =>
        wtwin[w].path # wpath[w] /\ NotBefore(since, w, wtwin[w].path)

\* For every copy that is about to go a better one is spared.
DroppedForBetter(since) ==
    \A w \in Worker : \A p \in Path : Drops(w, p) /\ ~ Settled(Bytes[p]) =>
        \E q \in Path : /\ Spared(q) /\ Bytes[q] = Bytes[p]
                        /\ \/ Rank[q] > Rank[p]
                           \/ Rank[q] = Rank[p] /\ NotBefore(since, w, q)

RetiredForBetter ==
    \A w \in Worker : \A p \in Path : Retires(w, p) /\ ~ Settled(Bytes[p]) =>
        \E q \in Path : Spared(q) /\ Bytes[q] = Bytes[p] /\ Rank[q] > Rank[p]

\* A copy in hand is there, or one as well named is spared.
InHandOrBetter ==
    \A w \in Worker : wpc[w] \in {"lookup", "collapse"} /\ ~ Settled(Bytes[wpath[w]]) =>
        \/ wpath[w] \in disk
        \/ \E q \in Path : Spared(q) /\ Bytes[q] = Bytes[wpath[w]] /\ Rank[q] >= Rank[wpath[w]]

Survivors(since) ==
    /\ TwinsAreLater(since) /\ DroppedForBetter(since)
    /\ RetiredForBetter /\ InHandOrBetter

\* Every file taken up from now on is later than those in hand.
Order(since, next) == since \in [Worker -> Nat] /\ next \in Nat /\ \A w \in Worker : since[w] < next

Kept == /\ arrived \subseteq Path /\ OneHand /\ NoRowYet /\ NeverLosesBytes
        /\ \E since \in [Worker -> Nat], next \in Nat : Order(since, next) /\ Survivors(since)

-----------------------------------------------------------------------------
(* How a row moves *)

RowMoves ==
    /\ nextId' \in Nat /\ nextId' >= nextId
    /\ \A i \in Id :
          /\ i < nextId /\ i \in Live' => i \in Live
          /\ i \in Live /\ i \in Live' =>
                /\ rows'[i].hash = rows[i].hash /\ rows'[i].orphaned = rows[i].orphaned
                /\ Bytes[rows'[i].path] = Bytes[rows[i].path]
                /\ rows[i].hash = NoHash => rows'[i].path = rows[i].path
          /\ i \in Live' \ Live => rows'[i].status = "pending"
          /\ rows[i].status = "sent" =>
                rows'[i].status = "sent" \/ (rows[i].orphaned /\ rows'[i] = NoRow)
          /\ rows'[i].status = "sent" /\ rows[i].status # "sent" =>
                i = drow.id /\ rows[i].status = "sending" /\ (Send \/ Suppress)

\* One row gets another status; one that is recorded as sent was being sent.
LEMMA StatusMoves ==
    ASSUME GoodRows, NEW i \in Id, i \in Live, NEW st \in Status \ {"absent"}, nextId' = nextId,
           rows' = [rows EXCEPT ![i].status = st],
           rows[i].status = "sent" => st = "sent",
           st = "sent" => rows[i].status = "sent" \/
              (i = drow.id /\ rows[i].status = "sending" /\ (Send \/ Suppress))
    PROVE  GoodRows' /\ RowMoves
BY DEF GoodRows, GoodRow, RowMoves, Live, RowFields, NoRow

LEMMA RemovalMoves ==
    ASSUME GoodRows, NEW i \in Id, nextId' = nextId, rows' = [rows EXCEPT ![i] = NoRow],
           rows[i].status = "sent" => rows[i].orphaned
    PROVE  GoodRows' /\ RowMoves
BY DEF GoodRows, GoodRow, RowMoves, Live, NoRow

LEMMA NothingMoves ==
    ASSUME GoodRows, UNCHANGED <<rows, nextId>> PROVE GoodRows' /\ RowMoves
BY DEF GoodRows, GoodRow, RowMoves, Live

\* Every step keeps the rows good, and moves them so.
LEMMA RowStep ==
    ASSUME GoodRows, GoodWorkers, GoodDispatcher, Next
    PROVE  GoodRows' /\ RowMoves
<1> USE DEF GoodWorkers
<1>1. ASSUME NEW w \in Worker, NEW p \in Path, Pick(w, p) PROVE GoodRows' /\ RowMoves
  BY <1>1, NothingMoves DEF Pick, Known
<1>2. ASSUME NEW w \in Worker, Lookup(w) PROVE GoodRows' /\ RowMoves
  BY <1>2, NothingMoves DEF Lookup, At, TwinOf, Twins, SameHash
<1>3. ASSUME NEW w \in Worker, ReconcileLookup(w) PROVE GoodRows' /\ RowMoves
  BY <1>3, NothingMoves DEF ReconcileLookup, At, Twins, SameHash, Reintroduced
<1>4. ASSUME NEW w \in Worker, DropReintroduced(w) PROVE GoodRows' /\ RowMoves
  BY <1>4, NothingMoves DEF DropReintroduced, At
<1>5. ASSUME NEW w \in Worker, Insert(w) PROVE GoodRows' /\ RowMoves
  <2>1. CASE UNCHANGED <<rows, nextId>>
    BY <2>1, NothingMoves
  <2>2. CASE /\ nextId <= MaxRows /\ nextId' = nextId + 1
             /\ rows' = [rows EXCEPT ![nextId] =
                            [path |-> wpath[w], ident |-> Ident[wpath[w]], hash |-> whash[w],
                             status |-> "pending", orphaned |-> wpath[w] \in DropZone]]
    <3>1. nextId \in Id \ Live
      BY <2>2, IngestBounds DEF GoodRows, Live, Id
    <3>2. GoodWorker(w) /\ wpc[w] = "insert"
      BY <1>5 DEF Insert, At
    <3>a. /\ wpath[w] \in Path /\ whash[w] \in {NoHash, Bytes[wpath[w]]}
          /\ whash[w] = NoHash => wpath[w] \notin DropZone
      BY <3>2, SweepAssumption DEF GoodWorker
    <3>3. GoodRow(rows'[nextId]) /\ rows'[nextId].status = "pending"
      <4> DEFINE r == [path |-> wpath[w], ident |-> Ident[wpath[w]], hash |-> whash[w],
                       status |-> "pending", orphaned |-> wpath[w] \in DropZone]
      <4>1. rows'[nextId] = r
        BY <2>2, <3>1 DEF GoodRows
      <4>2. DOMAIN r = RowFields
        BY DEF RowFields
      <4>3. r.orphaned = (wpath[w] \in DropZone)
        OBVIOUS
      <4>4. r.path \in Path /\ r.status = "pending" /\ r.hash = whash[w] /\ r.path = wpath[w]
        BY <3>a
      <4> HIDE DEF r
      <4>6. r.hash = NoHash => ~ r.orphaned
        BY <3>a, <4>3, <4>4, Zenon
      <4> QED BY <3>a, <4>1, <4>2, <4>4, <4>6 DEF GoodRow, Status
    <3>4. \A j \in Id : j # nextId => rows'[j] = rows[j]
      BY <2>2 DEF GoodRows
    <3> QED BY <2>2, <3>1, <3>3, <3>4 DEF GoodRows, RowMoves, Live, Id
  <2> QED BY <1>5, <2>1, <2>2 DEF Insert
<1>6. ASSUME NEW w \in Worker, Collapse(w) PROVE GoodRows' /\ RowMoves
  BY <1>6, NothingMoves DEF Collapse, At, IncomingWins
<1>7. ASSUME NEW w \in Worker, DropIncoming(w) PROVE GoodRows' /\ RowMoves
  BY <1>7, NothingMoves DEF DropIncoming, At
<1>8. ASSUME NEW w \in Worker, Relink(w) PROVE GoodRows' /\ RowMoves
  <2>1. CASE UNCHANGED rows
    BY <1>8, <2>1, NothingMoves DEF Relink
  <2>2. CASE wtwin[w].id \in Live /\ rows' = [rows EXCEPT ![wtwin[w].id].path = wpath[w]]
    <3>1. /\ wtwin[w].id \in Id /\ rows[wtwin[w].id].hash = Bytes[wpath[w]]
          /\ wpath[w] \in Path /\ Bytes[wpath[w]] # NoHash
      BY <1>8, <2>2, BytesAssumption DEF Relink, GoodWorker, HasTwin, Remembers
    <3>2. nextId' = nextId
      BY <1>8 DEF Relink
    <3> QED BY <2>2, <3>1, <3>2 DEF GoodRows, GoodRow, RowMoves, Live, RowFields, NoRow
  <2> QED BY <1>8, <2>1, <2>2 DEF Relink
<1>9. ASSUME NEW w \in Worker, Retire(w) PROVE GoodRows' /\ RowMoves
  BY <1>9, NothingMoves DEF Retire, At
<1>10. ASSUME NEW w \in Worker, Finish(w) PROVE GoodRows' /\ RowMoves
  <2>1. CASE UNCHANGED rows
    BY <1>10, <2>1, NothingMoves DEF Finish
  <2>2. CASE /\ rows[wtwin[w].id].status = "failed"
             /\ rows' = [rows EXCEPT ![wtwin[w].id].status = "pending"]
    <3>1. wtwin[w].id \in Live
      BY <1>10, <2>2 DEF Finish, At, GoodWorker, HasTwin, Remembers, Live
    <3>2. wtwin[w].id \in Id /\ nextId' = nextId
      BY <1>10, <3>1 DEF Finish, Live
    <3> QED BY <2>2, <3>1, <3>2 DEF GoodRows, GoodRow, RowMoves, Live, RowFields, NoRow, Status
  <2> QED BY <1>10, <2>1, <2>2 DEF Finish
<1>11. ASSUME NEW w \in Worker, Abort(w) PROVE GoodRows' /\ RowMoves
  BY <1>11, NothingMoves DEF Abort
<1>12. CASE SendFails
  <2>1. CASE UNCHANGED rows
    BY <1>12, <2>1, NothingMoves DEF SendFails
  <2>2. ASSUME NEW st \in {"pending", "failed"}, rows[drow.id].status = "sending",
               rows' = [rows EXCEPT ![drow.id].status = st]
        PROVE  GoodRows' /\ RowMoves
    <3>1. drow.id \in Id /\ drow.id \in Live
      BY <1>12, <2>2 DEF SendFails, GoodDispatcher, Remembers, Live
    <3> QED BY <1>12, <2>2, <3>1, StatusMoves DEF SendFails, Status
  <2> QED BY <1>12, <2>1, <2>2 DEF SendFails, Record, SetStatus
<1>13. CASE Suppress
  <2>1. CASE UNCHANGED rows
    BY <1>13, <2>1, NothingMoves DEF Suppress
  <2>2. ASSUME NEW st \in {"sent"}, rows[drow.id].status = "sending",
               rows' = [rows EXCEPT ![drow.id].status = st]
        PROVE  GoodRows' /\ RowMoves
    <3>1. drow.id \in Id /\ drow.id \in Live
      BY <1>13, <2>2 DEF Suppress, GoodDispatcher, Remembers, Live
    <3> QED BY <1>13, <2>2, <3>1, StatusMoves DEF Suppress, Status
  <2> QED BY <1>13, <2>1, <2>2 DEF Suppress, Record, SetStatus
<1>14. CASE Send
  <2>1. CASE UNCHANGED rows
    BY <1>14, <2>1, NothingMoves DEF Send
  <2>2. ASSUME NEW st \in {"sent"}, rows[drow.id].status = "sending",
               rows' = [rows EXCEPT ![drow.id].status = st]
        PROVE  GoodRows' /\ RowMoves
    <3>1. drow.id \in Id /\ drow.id \in Live
      BY <1>14, <2>2 DEF Send, GoodDispatcher, Remembers, Live
    <3> QED BY <1>14, <2>2, <3>1, StatusMoves DEF Send, Status
  <2> QED BY <1>14, <2>1, <2>2 DEF Send, Record, SetStatus
<1>15. CASE Clean
  BY <1>15, NothingMoves DEF Clean, Release, MayDelete
<1>16. CASE Unlink
  BY <1>16, NothingMoves DEF Unlink, Release
<1>17. CASE DropRow
  <2>1. CASE UNCHANGED rows
    BY <1>17, <2>1, NothingMoves DEF DropRow
  <2>2. CASE rows' = [rows EXCEPT ![drow.id] = NoRow]
    <3>1. drow.id \in Id /\ (drow.id \in Live => rows[drow.id].orphaned)
      BY <1>17 DEF DropRow, GoodDispatcher, Remembers
    <3> QED BY <1>17, <2>2, <3>1, RemovalMoves DEF DropRow, Live
  <2> QED BY <1>17, <2>1, <2>2 DEF DropRow
<1>18. ASSUME NEW i \in Id, Claim(i) PROVE GoodRows' /\ RowMoves
  BY <1>18, StatusMoves DEF Claim, SetStatus, Live, Status
<1>19. CASE ResetFailed
  BY <1>19 DEF ResetFailed, Operate, GoodRows, GoodRow, RowMoves, Live, RowFields, NoRow, Status
<1>20. ASSUME NEW i \in Id, CollectGone(i) PROVE GoodRows' /\ RowMoves
  BY <1>20, RemovalMoves DEF CollectGone
<1>21. ASSUME NEW i \in Id, Cancel(i) PROVE GoodRows' /\ RowMoves
  BY <1>21, StatusMoves DEF Cancel, Operate, SetStatus, Live, Status
<1>22. ASSUME NEW p \in Path, Arrive(p) PROVE GoodRows' /\ RowMoves
  BY <1>22, NothingMoves DEF Arrive
<1> QED
  BY <1>1, <1>2, <1>3, <1>4, <1>5, <1>6, <1>7, <1>8, <1>9, <1>10, <1>11, <1>12, <1>13, <1>14, <1>15, <1>16, <1>17, <1>18, <1>19, <1>20, <1>21, <1>22
  DEF Next, Dispatch, Work

-----------------------------------------------------------------------------
(* What is remembered stays true *)

DeliveredGrows == \A c \in Content : Delivered(c) => Delivered(c)'

\* Files are only ever written and removed at paths.
LEMMA DiskStep ==
    ASSUME disk \subseteq Path, Next PROVE disk' \subseteq Path
<1>1. ASSUME NEW w \in Worker, NEW p \in Path, Pick(w, p) PROVE disk' \subseteq Path
  BY <1>1 DEF Pick
<1>2. ASSUME NEW w \in Worker, Lookup(w) PROVE disk' \subseteq Path
  BY <1>2 DEF Lookup
<1>3. ASSUME NEW w \in Worker, ReconcileLookup(w) PROVE disk' \subseteq Path
  BY <1>3 DEF ReconcileLookup
<1>4. ASSUME NEW w \in Worker, DropReintroduced(w) PROVE disk' \subseteq Path
  BY <1>4 DEF DropReintroduced
<1>5. ASSUME NEW w \in Worker, Insert(w) PROVE disk' \subseteq Path
  BY <1>5 DEF Insert
<1>6. ASSUME NEW w \in Worker, Collapse(w) PROVE disk' \subseteq Path
  BY <1>6 DEF Collapse
<1>7. ASSUME NEW w \in Worker, DropIncoming(w) PROVE disk' \subseteq Path
  BY <1>7 DEF DropIncoming
<1>8. ASSUME NEW w \in Worker, Relink(w) PROVE disk' \subseteq Path
  BY <1>8 DEF Relink
<1>9. ASSUME NEW w \in Worker, Retire(w) PROVE disk' \subseteq Path
  BY <1>9 DEF Retire
<1>10. ASSUME NEW w \in Worker, Finish(w) PROVE disk' \subseteq Path
  BY <1>10 DEF Finish
<1>11. ASSUME NEW w \in Worker, Abort(w) PROVE disk' \subseteq Path
  BY <1>11 DEF Abort
<1>12. CASE SendFails
  BY <1>12 DEF SendFails
<1>13. CASE Suppress
  BY <1>13 DEF Suppress
<1>14. CASE Send
  BY <1>14 DEF Send
<1>15. CASE Clean
  BY <1>15 DEF Clean
<1>16. CASE Unlink
  BY <1>16 DEF Unlink
<1>17. CASE DropRow
  BY <1>17 DEF DropRow
<1>18. ASSUME NEW i \in Id, Claim(i) PROVE disk' \subseteq Path
  BY <1>18 DEF Claim
<1>19. CASE ResetFailed
  BY <1>19 DEF ResetFailed, Operate
<1>20. ASSUME NEW i \in Id, CollectGone(i) PROVE disk' \subseteq Path
  BY <1>20 DEF CollectGone
<1>21. ASSUME NEW i \in Id, Cancel(i) PROVE disk' \subseteq Path
  BY <1>21 DEF Cancel, Operate
<1>22. ASSUME NEW p \in Path, Arrive(p) PROVE disk' \subseteq Path
  BY <1>22 DEF Arrive
<1> QED
  BY <1>1, <1>2, <1>3, <1>4, <1>5, <1>6, <1>7, <1>8, <1>9, <1>10, <1>11, <1>12, <1>13, <1>14, <1>15, <1>16, <1>17, <1>18, <1>19, <1>20, <1>21, <1>22
  DEF Next, Dispatch, Work

LEMMA ChatsStep ==
    ASSUME GoodChats, GoodDispatcher, GoodWorkers, Next
    PROVE  GoodChats' /\ DeliveredGrows
<1>1. CASE Send
  <2>1. Bytes[drow.path] \in Content
    BY <1>1, BytesAssumption DEF Send, GoodDispatcher
  <2> QED BY <1>1, <2>1 DEF Send, GoodChats, DeliveredGrows, Delivered, Chat
<1>2. CASE ~ Send
  <2>1. UNCHANGED <<posted, unrecorded>>
    BY <1>2 DEF Next, Dispatch, SendFails, Suppress, Clean, Unlink, DropRow, Claim, ResetFailed,
                Operate, Work, Pick, Lookup, ReconcileLookup, DropReintroduced, Insert, Collapse,
                DropIncoming, Relink, Retire, Finish, Abort, CollectGone, Cancel, Arrive, At, dispatcher
  <2> QED BY <2>1, DiskStep DEF GoodChats, DeliveredGrows, Delivered
<1> QED BY <1>1, <1>2

LEMMA RememberingStays ==
    ASSUME RowMoves, NEW id, NEW h, GoodRows, Remembers(id, h)
    PROVE  Remembers(id, h)'
BY DEF RowMoves, Remembers, GoodRows, Id

\* What a worker holds stays good while it does not move.
LEMMA IdleWorkerStays ==
    ASSUME GoodRows, RowMoves, DeliveredGrows, NEW v \in Worker, GoodWorker(v),
           wpc'[v] = wpc[v], wpath'[v] = wpath[v], whash'[v] = whash[v], wtwin'[v] = wtwin[v]
    PROVE  GoodWorker(v)'
<1>1. wpc[v] # "idle" => wpath[v] \in Path /\ Bytes[wpath[v]] \in Content
  BY BytesAssumption DEF GoodWorker
<1> QED BY <1>1, RememberingStays DEF GoodWorker, DeliveredGrows

WorkerMoves(w) ==
    /\ DOMAIN wpc' = Worker /\ DOMAIN wpath' = Worker
    /\ DOMAIN whash' = Worker /\ DOMAIN wtwin' = Worker
    /\ \A v \in Worker \ {w} : /\ wpc'[v] = wpc[v] /\ wpath'[v] = wpath[v]
                               /\ whash'[v] = whash[v] /\ wtwin'[v] = wtwin[v]

LEMMA OneWorkerMoves ==
    ASSUME GoodRows, GoodWorkers, RowMoves, DeliveredGrows, NEW w \in Worker,
           WorkerMoves(w), GoodWorker(w)'
    PROVE  GoodWorkers'
BY IdleWorkerStays DEF GoodWorkers, WorkerMoves

LEMMA NoWorkerMoves ==
    ASSUME GoodRows, GoodWorkers, RowMoves, DeliveredGrows, UNCHANGED worker
    PROVE  GoodWorkers'
BY IdleWorkerStays DEF GoodWorkers, worker

LEMMA WorkersStep ==
    ASSUME GoodRows, GoodWorkers, SentRowsDelivered, RowMoves, DeliveredGrows, Next
    PROVE  GoodWorkers'
<1>1. ASSUME NEW w \in Worker, NEW p \in Path, Pick(w, p) PROVE GoodWorkers'
  <2>1. WorkerMoves(w)
    BY <1>1 DEF Pick, Goto, GoodWorkers, WorkerMoves
  <2>2. GoodWorker(w)'
    BY <1>1, BytesAssumption DEF Pick, Goto, GoodWorkers, GoodWorker, HasTwin
  <2> QED BY <2>1, <2>2, OneWorkerMoves
<1>2. ASSUME NEW w \in Worker, Lookup(w) PROVE GoodWorkers'
  <2>1. WorkerMoves(w)
    BY <1>2 DEF Lookup, At, Goto, GoodWorkers, WorkerMoves
  <2>2. GoodWorker(w)'
    <3>1. CASE wpc'[w] = "insert" /\ UNCHANGED wtwin
      BY <1>2, <3>1 DEF Lookup, At, GoodWorkers, GoodWorker, HasTwin
    <3>2. CASE \E i \in Twins(whash[w]) : wtwin' = [wtwin EXCEPT ![w] = TwinOf(i)] /\ Goto(w, "collapse")
      <4>1. PICK i \in Twins(whash[w]) : wtwin' = [wtwin EXCEPT ![w] = TwinOf(i)] /\ Goto(w, "collapse")
        BY <3>2
      <4>2. i \in Live /\ rows[i].hash = whash[w] /\ i \in Id /\ i < nextId /\ GoodRow(rows[i])
        BY <4>1 DEF Twins, SameHash, Live, GoodRows
      <4>3. /\ wpath[w] \in Sweeps[w] \cap Path /\ whash[w] = Bytes[wpath[w]] /\ whash[w] # NoHash
            /\ UNCHANGED <<rows, nextId, wpath, whash>> /\ wpc'[w] = "collapse"
        BY <1>2, <4>1 DEF Lookup, At, Goto, GoodWorkers, GoodWorker
      <4>4. wtwin'[w].id = i /\ wtwin'[w].path = rows[i].path
        BY <4>1 DEF TwinOf, GoodWorkers
      <4>5. rows[i].path \in Path /\ Bytes[rows[i].path] = Bytes[wpath[w]]
        BY <4>2, <4>3 DEF GoodRow, Live, NoRow
      <4> QED BY <4>2, <4>3, <4>4, <4>5 DEF GoodWorker, Remembers, Live, HasTwin
    <3> QED BY <1>2, <3>1, <3>2 DEF Lookup, Goto, GoodWorkers
  <2> QED BY <2>1, <2>2, OneWorkerMoves
<1>3. ASSUME NEW w \in Worker, ReconcileLookup(w) PROVE GoodWorkers'
  <2>1. WorkerMoves(w)
    BY <1>3 DEF ReconcileLookup, At, Goto, GoodWorkers, WorkerMoves
  <2>2. CASE wpc'[w] = "insert"
    <3>1. GoodWorker(w)'
      BY <1>3, <2>2 DEF ReconcileLookup, At, GoodWorkers, GoodWorker, HasTwin
    <3> QED BY <2>1, <3>1, OneWorkerMoves
  <2>3. ASSUME NEW i \in Twins(whash[w]), Reintroduced(i, wpath[w]), wpc'[w] = "reintroduced"
        PROVE  GoodWorkers'
    <3>1. i \in WithStatus("sent") /\ rows[i].hash = whash[w] /\ GoodRow(rows[i])
      BY <2>3 DEF Twins, SameHash, Live, Reintroduced, WithStatus, GoodRows
    <3>2. /\ wpath[w] \in Sweeps[w] \cap Path /\ whash[w] = Bytes[wpath[w]] /\ whash[w] # NoHash
          /\ UNCHANGED <<rows, nextId, wpath, whash, posted>>
      BY <1>3 DEF ReconcileLookup, At, GoodWorkers, GoodWorker, dispatcher
    <3>3. Delivered(Bytes[wpath[w]])
      BY <3>1, <3>2 DEF SentRowsDelivered, GoodRow, NoRow, WithStatus
    <3>4. GoodWorker(w)'
      BY <2>3, <3>2, <3>3 DEF GoodWorker, Delivered, HasTwin
    <3> QED BY <2>1, <3>4, OneWorkerMoves
  <2> QED BY <1>3, <2>2, <2>3 DEF ReconcileLookup, Goto, GoodWorkers
<1>4. ASSUME NEW w \in Worker, DropReintroduced(w) PROVE GoodWorkers'
  <2>1. WorkerMoves(w) /\ wpc'[w] = "idle" /\ whash'[w] = NoHash
    BY <1>4 DEF DropReintroduced, At, Done, Goto, GoodWorkers, WorkerMoves
  <2>2. GoodWorker(w)'
    BY <2>1 DEF GoodWorker
  <2> QED BY <2>1, <2>2, OneWorkerMoves
<1>5. ASSUME NEW w \in Worker, Insert(w) PROVE GoodWorkers'
  <2>1. WorkerMoves(w) /\ wpc'[w] = "idle" /\ whash'[w] = NoHash
    BY <1>5 DEF Insert, At, Done, Goto, GoodWorkers, WorkerMoves
  <2>2. GoodWorker(w)'
    BY <2>1 DEF GoodWorker
  <2> QED BY <2>1, <2>2, OneWorkerMoves
<1>6. ASSUME NEW w \in Worker, Collapse(w) PROVE GoodWorkers'
  <2>1. WorkerMoves(w) /\ UNCHANGED <<rows, nextId, wpath, whash, wtwin>>
    BY <1>6 DEF Collapse, At, Goto, GoodWorkers, WorkerMoves
  <2>2. wpc[w] \in HasTwin /\ wpc'[w] \in HasTwin
    BY <1>6 DEF Collapse, At, Goto, GoodWorkers, HasTwin
  <2>3. GoodWorker(w)'
    BY <2>1, <2>2 DEF GoodWorkers, GoodWorker, Remembers, Live, HasTwin
  <2> QED BY <2>1, <2>3, OneWorkerMoves
<1>7. ASSUME NEW w \in Worker, DropIncoming(w) PROVE GoodWorkers'
  <2>1. WorkerMoves(w) /\ UNCHANGED <<rows, nextId, wpath, whash, wtwin>>
    BY <1>7 DEF DropIncoming, At, Goto, GoodWorkers, WorkerMoves
  <2>2. wpc[w] \in HasTwin /\ wpc'[w] \in HasTwin
    BY <1>7 DEF DropIncoming, At, Goto, GoodWorkers, HasTwin
  <2>3. GoodWorker(w)'
    BY <2>1, <2>2 DEF GoodWorkers, GoodWorker, Remembers, Live, HasTwin
  <2> QED BY <2>1, <2>3, OneWorkerMoves
<1>8. ASSUME NEW w \in Worker, Relink(w) PROVE GoodWorkers'
  <2>1. WorkerMoves(w)
    BY <1>8 DEF Relink, Done, Goto, GoodWorkers, WorkerMoves
  <2>2. CASE wpc'[w] = "idle" /\ whash'[w] = NoHash
    BY <2>1, <2>2, OneWorkerMoves DEF GoodWorker
  <2>3. CASE wpc'[w] \in {"retire", "finish"} /\ UNCHANGED <<wpath, whash, wtwin>>
    <3>1. Remembers(wtwin[w].id, whash[w])'
      BY <1>8, <2>3, RememberingStays DEF Relink, GoodWorkers, GoodWorker, HasTwin
    <3>2. GoodWorker(w)'
      BY <1>8, <2>3, <3>1 DEF Relink, GoodWorkers, GoodWorker, HasTwin
    <3> QED BY <2>1, <3>2, OneWorkerMoves
  <2> QED BY <1>8, <2>2, <2>3 DEF Relink, Done, Goto, GoodWorkers
<1>9. ASSUME NEW w \in Worker, Retire(w) PROVE GoodWorkers'
  <2>1. WorkerMoves(w) /\ UNCHANGED <<rows, nextId, wpath, whash, wtwin>>
    BY <1>9 DEF Retire, At, Goto, GoodWorkers, WorkerMoves
  <2>2. wpc[w] \in HasTwin /\ wpc'[w] \in HasTwin
    BY <1>9 DEF Retire, At, Goto, GoodWorkers, HasTwin
  <2>3. GoodWorker(w)'
    BY <2>1, <2>2 DEF GoodWorkers, GoodWorker, Remembers, Live, HasTwin
  <2> QED BY <2>1, <2>3, OneWorkerMoves
<1>10. ASSUME NEW w \in Worker, Finish(w) PROVE GoodWorkers'
  <2>1. WorkerMoves(w) /\ wpc'[w] = "idle" /\ whash'[w] = NoHash
    BY <1>10 DEF Finish, At, Done, Goto, GoodWorkers, WorkerMoves
  <2>2. GoodWorker(w)'
    BY <2>1 DEF GoodWorker
  <2> QED BY <2>1, <2>2, OneWorkerMoves
<1>11. ASSUME NEW w \in Worker, Abort(w) PROVE GoodWorkers'
  <2>1. WorkerMoves(w) /\ wpc'[w] = "idle" /\ whash'[w] = NoHash
    BY <1>11 DEF Abort, At, Done, Goto, GoodWorkers, WorkerMoves
  <2>2. GoodWorker(w)'
    BY <2>1 DEF GoodWorker
  <2> QED BY <2>1, <2>2, OneWorkerMoves
<1>12. CASE SendFails
  BY <1>12, NoWorkerMoves DEF SendFails, Operate
<1>13. CASE Suppress
  BY <1>13, NoWorkerMoves DEF Suppress, Operate
<1>14. CASE Send
  BY <1>14, NoWorkerMoves DEF Send, Operate
<1>15. CASE Clean
  BY <1>15, NoWorkerMoves DEF Clean, Operate
<1>16. CASE Unlink
  BY <1>16, NoWorkerMoves DEF Unlink, Operate
<1>17. CASE DropRow
  BY <1>17, NoWorkerMoves DEF DropRow, Operate
<1>18. ASSUME NEW i \in Id, Claim(i) PROVE GoodWorkers'
  BY <1>18, NoWorkerMoves DEF Claim, Operate
<1>19. CASE ResetFailed
  BY <1>19, NoWorkerMoves DEF ResetFailed, Operate
<1>20. ASSUME NEW i \in Id, CollectGone(i) PROVE GoodWorkers'
  BY <1>20, NoWorkerMoves DEF CollectGone, Operate
<1>21. ASSUME NEW i \in Id, Cancel(i) PROVE GoodWorkers'
  BY <1>21, NoWorkerMoves DEF Cancel, Operate
<1>22. ASSUME NEW p \in Path, Arrive(p) PROVE GoodWorkers'
  BY <1>22, NoWorkerMoves DEF Arrive
<1> QED
  BY <1>1, <1>2, <1>3, <1>4, <1>5, <1>6, <1>7, <1>8, <1>9, <1>10, <1>11, <1>12, <1>13, <1>14, <1>15, <1>16, <1>17, <1>18, <1>19, <1>20, <1>21, <1>22
  DEF Next, Dispatch, Work

\* The row the dispatcher holds still has the bytes it was claimed with.
LEMMA ClaimedBytes ==
    ASSUME GoodRows, GoodDispatcher, dpc = "check", drow.id \in Live
    PROVE  Bytes[rows[drow.id].path] = Bytes[drow.path]
BY DEF GoodRows, GoodRow, GoodDispatcher, Remembers, Live, NoRow

\* A duplicate is suppressed only of delivered bytes.
LEMMA SuppressedIsDelivered ==
    ASSUME GoodRows, GoodDispatcher, SentRowsDelivered, dpc = "check", SentTwin # {}
    PROVE  Delivered(Bytes[drow.path])
<1>1. PICK j \in WithStatus("sent") : drow.hash # NoHash /\ rows[j].hash = drow.hash
  BY DEF SentTwin
<1>2. GoodRow(rows[j]) /\ rows[j] # NoRow
  BY <1>1 DEF WithStatus, GoodRows, NoRow
<1> QED BY <1>1, <1>2 DEF GoodRow, GoodDispatcher, SentRowsDelivered

LEMMA DispatcherStays ==
    ASSUME GoodRows, RowMoves, DeliveredGrows, GoodDispatcher, UNCHANGED <<dpc, drow>>
    PROVE  GoodDispatcher'
<1>1. dpc # "idle" => Bytes[drow.path] \in Content
  BY BytesAssumption DEF GoodDispatcher
<1>2. dpc # "idle" => Remembers(drow.id, drow.hash)'
  BY RememberingStays DEF GoodDispatcher
<1>3. dpc # "idle" /\ drow.id \in Live' =>
         /\ drow.id \in Live /\ rows'[drow.id].orphaned = rows[drow.id].orphaned
         /\ rows[drow.id].hash = NoHash => rows'[drow.id].path = rows[drow.id].path
  BY DEF GoodDispatcher, Remembers, RowMoves
<1> QED BY <1>1, <1>2, <1>3 DEF GoodDispatcher, DeliveredGrows, Remembers

LEMMA DispatcherStep ==
    ASSUME GoodRows, GoodRows', GoodDispatcher, SentRowsDelivered, RowMoves, DeliveredGrows, Next
    PROVE  GoodDispatcher'
<1>1. ASSUME NEW w \in Worker, NEW p \in Path, Pick(w, p) PROVE GoodDispatcher'
  BY <1>1, DispatcherStays DEF Pick, dispatcher
<1>2. ASSUME NEW w \in Worker, Lookup(w) PROVE GoodDispatcher'
  BY <1>2, DispatcherStays DEF Lookup, dispatcher, At
<1>3. ASSUME NEW w \in Worker, ReconcileLookup(w) PROVE GoodDispatcher'
  BY <1>3, DispatcherStays DEF ReconcileLookup, dispatcher, At
<1>4. ASSUME NEW w \in Worker, DropReintroduced(w) PROVE GoodDispatcher'
  BY <1>4, DispatcherStays DEF DropReintroduced, dispatcher, At
<1>5. ASSUME NEW w \in Worker, Insert(w) PROVE GoodDispatcher'
  BY <1>5, DispatcherStays DEF Insert, dispatcher, At
<1>6. ASSUME NEW w \in Worker, Collapse(w) PROVE GoodDispatcher'
  BY <1>6, DispatcherStays DEF Collapse, dispatcher, At
<1>7. ASSUME NEW w \in Worker, DropIncoming(w) PROVE GoodDispatcher'
  BY <1>7, DispatcherStays DEF DropIncoming, dispatcher, At
<1>8. ASSUME NEW w \in Worker, Relink(w) PROVE GoodDispatcher'
  BY <1>8, DispatcherStays DEF Relink, dispatcher, At
<1>9. ASSUME NEW w \in Worker, Retire(w) PROVE GoodDispatcher'
  BY <1>9, DispatcherStays DEF Retire, dispatcher, At
<1>10. ASSUME NEW w \in Worker, Finish(w) PROVE GoodDispatcher'
  BY <1>10, DispatcherStays DEF Finish, dispatcher, At
<1>11. ASSUME NEW w \in Worker, Abort(w) PROVE GoodDispatcher'
  BY <1>11, DispatcherStays DEF Abort, dispatcher, At
<1>12. CASE SendFails
  BY <1>12 DEF SendFails, Release, GoodDispatcher
<1>13. CASE Suppress
  <2>1. Remembers(drow.id, drow.hash)'
    BY <1>13, RememberingStays DEF Suppress, GoodDispatcher
  <2>2. Delivered(Bytes[drow.path])'
    BY <1>13, SuppressedIsDelivered DEF Suppress, Suppressed, Delivered
  <2> QED BY <1>13, <2>1, <2>2 DEF Suppress, GoodDispatcher, RowMoves, Remembers
<1>14. CASE Send
  <2>1. Remembers(drow.id, drow.hash)'
    BY <1>14, RememberingStays DEF Send, GoodDispatcher
  <2> QED BY <1>14, <2>1 DEF Send, GoodDispatcher, RowMoves, Remembers
<1>15. CASE Clean
  <2>1. CASE Release
    BY <2>1 DEF Release, GoodDispatcher
  <2>2. CASE MayDelete /\ dpc' = "unlink" /\ drow' = [drow EXCEPT !.path = rows[drow.id].path]
    <3>1. drow.id \in Live /\ rows[drow.id].path \in Path /\ drow.id \in WithStatus("sent")
      BY <1>15, <2>2 DEF Clean, MayDelete, GoodDispatcher, Remembers, Live, GoodRows, GoodRow, NoRow, WithStatus
    <3>2. Delivered(Bytes[rows[drow.id].path])
      BY <3>1 DEF SentRowsDelivered
    <3> QED BY <1>15, <2>2, <3>1, <3>2 DEF Clean, GoodDispatcher, Remembers, Live, Delivered
  <2> QED BY <1>15, <2>1, <2>2 DEF Clean
<1>16. CASE Unlink
  <2>1. CASE Release
    BY <2>1 DEF Release, GoodDispatcher
  <2>2. CASE drow.orphaned /\ dpc' = "dropRow" /\ UNCHANGED drow
    BY <1>16, <2>2 DEF Unlink, GoodDispatcher, Remembers, Live, Delivered
  <2> QED BY <1>16, <2>1, <2>2 DEF Unlink
<1>17. CASE DropRow
  BY <1>17 DEF DropRow, Release, GoodDispatcher
<1>18. ASSUME NEW i \in Id, Claim(i) PROVE GoodDispatcher'
  <2>1. i \in Live /\ i < nextId /\ GoodRow(rows[i]) /\ rows[i] # NoRow
    BY <1>18 DEF Claim, Live, GoodRows, NoRow
  <2>2. /\ DOMAIN drow' = {"id", "path", "hash", "orphaned"} /\ drow'.id = i /\ dpc' = "check"
        /\ drow'.path = rows[i].path /\ drow'.hash = rows[i].hash
        /\ drow'.orphaned = rows[i].orphaned
    BY <1>18 DEF Claim
  <2>3. nextId' = nextId /\ rows'[i] = [rows[i] EXCEPT !.status = "sending"]
    BY <1>18 DEF Claim, SetStatus, GoodRows
  <2>4. rows'[i].hash = rows[i].hash /\ rows'[i].orphaned = rows[i].orphaned /\ rows'[i].path = rows[i].path
    BY <2>1, <2>3 DEF GoodRow, RowFields
  <2> QED BY <2>1, <2>2, <2>3, <2>4 DEF GoodDispatcher, GoodRow, Remembers
<1>19. CASE ResetFailed
  BY <1>19, DispatcherStays DEF ResetFailed, dispatcher, Operate
<1>20. ASSUME NEW i \in Id, CollectGone(i) PROVE GoodDispatcher'
  BY <1>20, DispatcherStays DEF CollectGone, dispatcher
<1>21. ASSUME NEW i \in Id, Cancel(i) PROVE GoodDispatcher'
  BY <1>21, DispatcherStays DEF Cancel, dispatcher, Operate
<1>22. ASSUME NEW p \in Path, Arrive(p) PROVE GoodDispatcher'
  BY <1>22, DispatcherStays DEF Arrive, dispatcher
<1> QED
  BY <1>1, <1>2, <1>3, <1>4, <1>5, <1>6, <1>7, <1>8, <1>9, <1>10, <1>11, <1>12, <1>13, <1>14, <1>15, <1>16, <1>17, <1>18, <1>19, <1>20, <1>21, <1>22
  DEF Next, Dispatch, Work

\* The row recorded as sent has bytes that are in a chat.
LEMMA SentStep ==
    ASSUME GoodRows, GoodRows', GoodChats, GoodDispatcher, SentRowsDelivered, RowMoves, DeliveredGrows, Next
    PROVE  SentRowsDelivered'
<1> SUFFICES ASSUME NEW i \in Id, rows'[i].status = "sent",
                    NEW c, c = Bytes[rows'[i].path]
             PROVE  Delivered(c)'
  BY DEF SentRowsDelivered, WithStatus, Delivered, Id
<1>1. i \in Live /\ c = Bytes[rows[i].path] /\ c \in Content
  BY BytesAssumption DEF RowMoves, Live, GoodRows, GoodRow, NoRow
<1>2. CASE rows[i].status = "sent"
  BY <1>1, <1>2 DEF SentRowsDelivered, WithStatus, DeliveredGrows
<1>3. CASE rows[i].status # "sent"
  <2>1. i = drow.id /\ (Send \/ Suppress)
    BY <1>3 DEF RowMoves
  <2>2. c = Bytes[drow.path]
    BY <1>1, <2>1, ClaimedBytes DEF Send, Suppress
  <2>3. CASE Send
    BY <1>1, <2>2, <2>3 DEF Send, Delivered, Chat, GoodChats
  <2>4. CASE Suppress
    BY <1>1, <2>2, <2>4, SuppressedIsDelivered DEF Suppress, Suppressed, DeliveredGrows
  <2> QED BY <2>1, <2>3, <2>4
<1> QED BY <1>2, <1>3

\* No row that says a content is at home is lost.
LEMMA SentRowsStay ==
    ASSUME GoodRows, GoodRows', RowMoves, NEW c \in Content
    PROVE  /\ SentHome(c) \subseteq SentHome(c)' /\ SentBare(c) \subseteq SentBare(c)'
           /\ IsFiniteSet(SentBare(c)) /\ IsFiniteSet(SentBare(c)')
           /\ Cardinality(SentBare(c)) <= Cardinality(SentBare(c)')
           /\ Cardinality(SentBare(c)) \in Nat /\ Cardinality(SentBare(c)') \in Nat
<1>1. IsFiniteSet(Id)
  BY FS_Interval, IngestBounds DEF Id
<1>2. ASSUME NEW i \in WithStatus("sent"), ~ rows[i].orphaned
      PROVE  i \in Id /\ i \in Live /\ i \in Live' /\ i \in WithStatus("sent")'
  BY <1>2 DEF WithStatus, RowMoves, Live, Id
<1>3. SentHome(c) \subseteq SentHome(c)'
  BY <1>2 DEF SentHome, RowMoves
<1>4. SentBare(c) \subseteq SentBare(c)'
  <2>1. ASSUME NEW i \in SentBare(c) PROVE ~ rows[i].orphaned
    BY <2>1 DEF SentBare, WithStatus, GoodRows, GoodRow, NoRow
  <2> QED BY <1>2, <2>1 DEF SentBare, RowMoves
<1>5. SentBare(c) \subseteq Id /\ SentBare(c)' \subseteq Id
  BY DEF SentBare, WithStatus, Id
<1>6. IsFiniteSet(SentBare(c)) /\ IsFiniteSet(SentBare(c)')
  BY <1>1, <1>5, FS_Subset
<1> QED BY <1>3, <1>4, <1>6, FS_Subset, FS_CardinalityType

LEMMA HomeStep ==
    ASSUME GoodRows, GoodRows', GoodChats, GoodChats', GoodDispatcher, HomeCount, RowMoves, Next
    PROVE  HomeCount'
<1> SUFFICES ASSUME NEW c \in Content, c \notin unrecorded'
             PROVE  posted'[c]["home"] <= (IF SentHome(c)' = {} THEN 0 ELSE 1) + Cardinality(SentBare(c)')
  BY DEF HomeCount
<1> DEFINE owed == IF SentHome(c) = {} THEN 0 ELSE 1
           owed2 == IF SentHome(c)' = {} THEN 0 ELSE 1
<1>1. c \notin unrecorded /\ (posted'[c]["home"] # posted[c]["home"] =>
         Send /\ c = Bytes[drow.path] /\ ~ drow.orphaned /\ posted'[c]["home"] = posted[c]["home"] + 1)
  <2>1. CASE Send
    BY <2>1 DEF Send, GoodChats, Chat
  <2>2. CASE ~ Send
    BY <2>2 DEF Next, Dispatch, SendFails, Suppress, Clean, Unlink, DropRow, Claim, ResetFailed,
                Operate, Work, Pick, Lookup, ReconcileLookup, DropReintroduced, Insert, Collapse,
                DropIncoming, Relink, Retire, Finish, Abort, CollectGone, Cancel, Arrive, At, dispatcher
  <2> QED BY <2>1, <2>2
<1>2. posted[c]["home"] \in Nat /\ posted'[c]["home"] \in Nat
  BY DEF GoodChats, Chat
<1>3. posted[c]["home"] <= owed + Cardinality(SentBare(c))
  BY <1>1 DEF HomeCount
<1>4. owed <= owed2
  BY SentRowsStay
<1>5. CASE posted'[c]["home"] = posted[c]["home"]
  BY <1>2, <1>3, <1>4, <1>5, SentRowsStay
<1>6. CASE posted'[c]["home"] = posted[c]["home"] + 1 /\ Send /\ c = Bytes[drow.path] /\ ~ drow.orphaned
  <2>1. /\ drow.id \in Id /\ rows[drow.id].status = "sending" /\ drow.id \in Live
        /\ dpc = "check" /\ ~ Suppressed
    BY <1>1, <1>6 DEF Send, GoodDispatcher, Remembers, Live
  <2>2. rows' = [rows EXCEPT ![drow.id].status = "sent"]
    BY <1>6, <2>1 DEF Send, Record, SetStatus
  <2>3. /\ drow.id \in WithStatus("sent")' /\ drow.id \notin WithStatus("sent")
        /\ rows'[drow.id].hash = drow.hash /\ rows'[drow.id].path = rows[drow.id].path
        /\ ~ rows'[drow.id].orphaned
    <3>1. GoodRow(rows[drow.id]) /\ rows[drow.id] # NoRow
      BY <2>1 DEF GoodRows, NoRow
    <3>2. rows'[drow.id] = [rows[drow.id] EXCEPT !.status = "sent"]
      BY <2>1, <2>2 DEF GoodRows
    <3>3. rows[drow.id].hash = drow.hash /\ rows[drow.id].orphaned = drow.orphaned
      BY <2>1 DEF GoodDispatcher, Remembers
    <3> QED BY <1>6, <2>1, <3>1, <3>2, <3>3 DEF GoodRow, RowFields, WithStatus, Id
  <2>4. CASE drow.hash = NoHash
    <3>1. drow.id \in SentBare(c)' /\ drow.id \notin SentBare(c)
      BY <1>6, <2>1, <2>3, <2>4 DEF SentBare, GoodDispatcher
    <3>2. Cardinality(SentBare(c) \cup {drow.id}) = Cardinality(SentBare(c)) + 1
      BY <3>1, SentRowsStay, FS_AddElement
    <3>3. Cardinality(SentBare(c) \cup {drow.id}) <= Cardinality(SentBare(c)')
      BY <3>1, SentRowsStay, FS_Subset
    <3> QED BY <1>2, <1>3, <1>4, <1>6, <3>2, <3>3, SentRowsStay
  <2>5. CASE drow.hash # NoHash
    <3>1. drow.hash = c
      BY <1>6, <2>1, <2>5 DEF GoodDispatcher
    <3>2. SentHome(c) = {}
      BY <1>6, <2>1, <2>3, <2>5, <3>1 DEF Suppressed, SentTwin, SentHome
    <3>3. drow.id \in SentHome(c)'
      BY <2>3, <3>1 DEF SentHome
    <3> QED BY <1>2, <1>3, <1>6, <3>2, <3>3, SentRowsStay
  <2> QED BY <2>4, <2>5
<1> QED BY <1>1, <1>5, <1>6

LEMMA LedgerStep == ASSUME Ledger, Next PROVE Ledger' /\ RowMoves /\ DeliveredGrows
<1>1. GoodRows' /\ RowMoves
  BY RowStep DEF Ledger
<1>2. GoodChats' /\ DeliveredGrows
  BY ChatsStep DEF Ledger
<1>3. GoodWorkers' /\ GoodDispatcher'
  BY <1>1, <1>2, WorkersStep, DispatcherStep DEF Ledger
<1> QED BY <1>1, <1>2, <1>3, SentStep, HomeStep DEF Ledger

LEMMA LedgerStays == ASSUME Ledger, UNCHANGED vars PROVE Ledger'
<1> USE DEF vars, worker, dispatcher
<1>1. GoodRows' /\ GoodChats' /\ SentRowsDelivered'
  BY DEF Ledger, GoodRows, GoodRow, Live, GoodChats, SentRowsDelivered, Delivered, WithStatus
<1>2. GoodWorkers' /\ GoodDispatcher'
  BY DEF Ledger, GoodWorkers, GoodWorker, GoodDispatcher, Remembers, Live, Delivered
<1>3. HomeCount'
  BY DEF Ledger, HomeCount, SentHome, SentBare, WithStatus
<1> QED BY <1>1, <1>2, <1>3 DEF Ledger

LEMMA LedgerInit == ASSUME Init PROVE Ledger
<1>1. GoodRows /\ Live = {} /\ WithStatus("sent") = {}
  BY DEF Init, GoodRows, GoodRow, Live, WithStatus, NoRow
<1>2. GoodChats /\ GoodWorkers /\ GoodDispatcher
  BY DEF Init, GoodChats, GoodWorkers, GoodWorker, GoodDispatcher
<1>3. SentRowsDelivered
  BY <1>1 DEF SentRowsDelivered
<1>4. HomeCount
  <2>1. \A c \in Content : SentBare(c) = {} /\ SentHome(c) = {}
    BY <1>1 DEF SentHome, SentBare
  <2>2. Cardinality({}) = 0
    BY FS_EmptySet
  <2>3. \A c \in Content : posted[c]["home"] = 0
    BY DEF Init, Chat
  <2> QED BY <2>1, <2>2, <2>3 DEF HomeCount
<1> QED BY <1>1, <1>2, <1>3, <1>4 DEF Ledger

\* The ledger of Ingest: what rows, workers and the dispatcher remember of a file,
\* and how often each content was posted.
THEOREM LedgerInvariance == Spec => []Ledger
<1>1. Init => Ledger
  BY LedgerInit
<1>2. Ledger /\ [Next]_vars => Ledger'
  BY LedgerStep, LedgerStays
<1> QED BY <1>1, <1>2, PTL DEF Spec

\* For every number of producers, whatever they race on and wherever each sweeps:
\* rows they leave behind for the same bytes post them to the platform's chat once
\* (the dispatcher's sent_twin check), but for rows that carry no digest.
THEOREM HomeOnce == Spec => []PostedHomeOnce
<1>1. Ledger => PostedHomeOnce
  <2> SUFFICES ASSUME Ledger, NEW c \in Content \ unrecorded
               PROVE  posted[c]["home"] <= 1 + Cardinality({i \in Live : rows[i].hash = NoHash
                                                              /\ Bytes[rows[i].path] = c})
    BY DEF PostedHomeOnce
  <2> DEFINE bare == {i \in Live : rows[i].hash = NoHash /\ Bytes[rows[i].path] = c}
  <2>1. IsFiniteSet(bare)
    <3>1. IsFiniteSet(Id)
      BY FS_Interval, IngestBounds DEF Id
    <3> QED BY <3>1, FS_Subset DEF Live
  <2>2. SentBare(c) \subseteq bare
    BY DEF SentBare, WithStatus, Live
  <2>3. /\ Cardinality(SentBare(c)) <= Cardinality(bare) /\ Cardinality(bare) \in Nat
        /\ Cardinality(SentBare(c)) \in Nat
    BY <2>1, <2>2, FS_Subset, FS_CardinalityType
  <2>4. posted[c]["home"] \in Nat
    BY DEF Ledger, GoodChats, Chat
  <2> QED BY <2>3, <2>4 DEF Ledger, HomeCount
<1> QED BY <1>1, LedgerInvariance, PTL

\* A row that says 'sent' says it of bytes that are in a chat, under whatever path
\* relink_file has moved it to since.
THEOREM SentSurvivesRelink == Spec => []SentRowsDelivered
<1>1. Ledger => SentRowsDelivered
  BY DEF Ledger
<1> QED BY <1>1, LedgerInvariance, PTL

-----------------------------------------------------------------------------
(* What the steps do to the files in hand *)

\* A row comes to a path only from the worker that has the file there in hand, and
\* which then is done with it but for the copy it retires.
RowsComeFromHands ==
    \A i \in Id : i \in Live' =>
        \/ i \in Live /\ rows'[i].path = rows[i].path
        \/ \E v \in Worker : /\ TakesUp(v, rows'[i].path)
                             /\ wpc'[v] \in {"idle", "retire", "finish"}

LEMMA WhereRowsComeFrom ==
    ASSUME GoodRows, GoodWorkers, GoodDispatcher, Next PROVE RowsComeFromHands
<1> USE DEF RowsComeFromHands, Live, TakesUp
<1>1. ASSUME NEW w \in Worker, NEW p \in Path, Pick(w, p) PROVE RowsComeFromHands
  BY <1>1 DEF Pick
<1>2. ASSUME NEW w \in Worker, Lookup(w) PROVE RowsComeFromHands
  BY <1>2 DEF Lookup, At
<1>3. ASSUME NEW w \in Worker, ReconcileLookup(w) PROVE RowsComeFromHands
  BY <1>3 DEF ReconcileLookup, At
<1>4. ASSUME NEW w \in Worker, DropReintroduced(w) PROVE RowsComeFromHands
  BY <1>4 DEF DropReintroduced, At
<1>5. ASSUME NEW w \in Worker, Insert(w) PROVE RowsComeFromHands
  <2>1. CASE UNCHANGED <<rows, nextId>>
    BY <2>1
  <2>2. CASE /\ nextId <= MaxRows
             /\ rows' = [rows EXCEPT ![nextId] =
                            [path |-> wpath[w], ident |-> Ident[wpath[w]], hash |-> whash[w],
                             status |-> "pending", orphaned |-> wpath[w] \in DropZone]]
    <3>1. nextId \in Id
      BY <2>2, IngestBounds DEF GoodRows, Id
    <3>2. rows'[nextId].path = wpath[w] /\ \A j \in Id : j # nextId => rows'[j] = rows[j]
      BY <2>2, <3>1 DEF GoodRows
    <3>3. wpc[w] = "insert" /\ wpc'[w] = "idle"
      BY <1>5 DEF Insert, At, Done, Goto, GoodWorkers
    <3> QED BY <3>2, <3>3
  <2> QED BY <1>5, <2>1, <2>2 DEF Insert
<1>6. ASSUME NEW w \in Worker, Collapse(w) PROVE RowsComeFromHands
  BY <1>6 DEF Collapse, At
<1>7. ASSUME NEW w \in Worker, DropIncoming(w) PROVE RowsComeFromHands
  BY <1>7 DEF DropIncoming, At
<1>8. ASSUME NEW w \in Worker, Relink(w) PROVE RowsComeFromHands
  <2>1. CASE UNCHANGED rows
    BY <2>1
  <2>2. CASE /\ wtwin[w].id \in Live /\ rows' = [rows EXCEPT ![wtwin[w].id].path = wpath[w]]
             /\ Goto(w, IF wpc[w] = "adopt" THEN "retire" ELSE "finish")
    <3>1. wpc[w] \in {"takeOver", "adopt"} /\ wpc'[w] \in {"retire", "finish"}
      BY <1>8, <2>2 DEF Relink, Goto, GoodWorkers
    <3>2. \A j \in Id : rows'[j] = rows[j] \/ rows'[j].path = wpath[w]
      BY <2>2 DEF GoodRows, GoodRow, RowFields, NoRow
    <3> QED BY <3>1, <3>2
  <2> QED BY <1>8, <2>1, <2>2 DEF Relink
<1>9. ASSUME NEW w \in Worker, Retire(w) PROVE RowsComeFromHands
  BY <1>9 DEF Retire, At
<1>10. ASSUME NEW w \in Worker, Finish(w) PROVE RowsComeFromHands
  BY <1>10 DEF Finish, GoodRows, GoodRow, RowFields, NoRow
<1>11. ASSUME NEW w \in Worker, Abort(w) PROVE RowsComeFromHands
  BY <1>11 DEF Abort, At
<1>12. CASE SendFails
  BY <1>12 DEF SendFails, Record, SetStatus, GoodRows, GoodRow, RowFields, NoRow
<1>13. CASE Suppress
  BY <1>13 DEF Suppress, Record, SetStatus, GoodRows, GoodRow, RowFields, NoRow
<1>14. CASE Send
  BY <1>14 DEF Send, Record, SetStatus, GoodRows, GoodRow, RowFields, NoRow
<1>15. CASE Clean
  BY <1>15 DEF Clean
<1>16. CASE Unlink
  BY <1>16 DEF Unlink
<1>17. CASE DropRow
  BY <1>17 DEF DropRow, GoodRows, GoodRow, RowFields, NoRow
<1>18. ASSUME NEW i \in Id, Claim(i) PROVE RowsComeFromHands
  BY <1>18 DEF Claim, SetStatus, GoodRows, GoodRow, RowFields, NoRow
<1>19. CASE ResetFailed
  BY <1>19 DEF ResetFailed, GoodRows, GoodRow, RowFields, NoRow
<1>20. ASSUME NEW i \in Id, CollectGone(i) PROVE RowsComeFromHands
  BY <1>20 DEF CollectGone, GoodRows, GoodRow, RowFields, NoRow
<1>21. ASSUME NEW i \in Id, Cancel(i) PROVE RowsComeFromHands
  BY <1>21 DEF Cancel, SetStatus, GoodRows, GoodRow, RowFields, NoRow
<1>22. ASSUME NEW p \in Path, Arrive(p) PROVE RowsComeFromHands
  BY <1>22 DEF Arrive
<1> QED
  BY <1>1, <1>2, <1>3, <1>4, <1>5, <1>6, <1>7, <1>8, <1>9, <1>10, <1>11, <1>12, <1>13, <1>14, <1>15, <1>16, <1>17, <1>18, <1>19, <1>20, <1>21, <1>22
  DEF Next, Dispatch, Work

\* Nothing new is taken up, dropped or retired; what goes from the disk is
\* delivered, or one of the copies that were to go.
CalmHands ==
    \A v \in Worker :
        /\ \A p \in Path : /\ TakesUp(v, p)' => TakesUp(v, p)
                           /\ Drops(v, p)' => Drops(v, p)
                           /\ Retires(v, p)' => Retires(v, p)
        /\ wpc'[v] = "collapse" => wpc[v] = "collapse" /\ wtwin'[v] = wtwin[v]
        /\ wpc'[v] \in {"lookup", "collapse"} =>
              wpc[v] \in {"lookup", "collapse"} /\ wpath'[v] = wpath[v]

CalmDisk ==
    \A p \in disk \ disk' :
        Delivered(Bytes[p]) \/ \E v \in Worker : Drops(v, p) \/ Retires(v, p)

TurnsToTwin(w) == Lookup(w) /\ wpc'[w] = "collapse"
Decides(w) == Collapse(w) /\ wpc'[w] \in {"adopt", "dropIncoming"}

Calm == CalmHands /\ CalmDisk

\* Three kinds of step are not calm.
LEMMA CalmSteps ==
    ASSUME GoodWorkers, GoodDispatcher, GoodWorkers', Next
    PROVE  \/ Calm
           \/ \E w \in Worker : TurnsToTwin(w) \/ Decides(w) \/ \E p \in Path : Pick(w, p)
<1> USE DEF GoodWorkers, Calm, CalmHands, CalmDisk, TakesUp, Drops, Retires, HasTwin
<1>1. ASSUME NEW w \in Worker, NEW p \in Path, Pick(w, p) PROVE (Calm \/ \E u \in Worker : TurnsToTwin(u) \/ Decides(u) \/ \E f \in Path : Pick(u, f))
  BY <1>1
<1>2. ASSUME NEW w \in Worker, Lookup(w) PROVE (Calm \/ \E u \in Worker : TurnsToTwin(u) \/ Decides(u) \/ \E f \in Path : Pick(u, f))
  <2>1. CASE wpc'[w] # "collapse"
    BY <1>2, <2>1 DEF Lookup, At, Goto
  <2> QED BY <1>2, <2>1 DEF TurnsToTwin
<1>3. ASSUME NEW w \in Worker, ReconcileLookup(w) PROVE (Calm \/ \E u \in Worker : TurnsToTwin(u) \/ Decides(u) \/ \E f \in Path : Pick(u, f))
  BY <1>3 DEF ReconcileLookup, At, Done, Goto
<1>4. ASSUME NEW w \in Worker, DropReintroduced(w) PROVE (Calm \/ \E u \in Worker : TurnsToTwin(u) \/ Decides(u) \/ \E f \in Path : Pick(u, f))
  BY <1>4 DEF DropReintroduced, At, Done, Goto, GoodWorker
<1>5. ASSUME NEW w \in Worker, Insert(w) PROVE (Calm \/ \E u \in Worker : TurnsToTwin(u) \/ Decides(u) \/ \E f \in Path : Pick(u, f))
  BY <1>5 DEF Insert, At, Done, Goto
<1>6. ASSUME NEW w \in Worker, Collapse(w) PROVE (Calm \/ \E u \in Worker : TurnsToTwin(u) \/ Decides(u) \/ \E f \in Path : Pick(u, f))
  <2>1. CASE wpc'[w] = "takeOver"
    BY <1>6, <2>1 DEF Collapse, At, Goto
  <2>2. CASE wpc'[w] \in {"adopt", "dropIncoming"}
    BY <1>6, <2>2 DEF Decides
  <2> QED BY <1>6, <2>1, <2>2 DEF Collapse, Goto
<1>7. ASSUME NEW w \in Worker, DropIncoming(w) PROVE (Calm \/ \E u \in Worker : TurnsToTwin(u) \/ Decides(u) \/ \E f \in Path : Pick(u, f))
  BY <1>7 DEF DropIncoming, At, Done, Goto
<1>8. ASSUME NEW w \in Worker, Relink(w) PROVE (Calm \/ \E u \in Worker : TurnsToTwin(u) \/ Decides(u) \/ \E f \in Path : Pick(u, f))
  BY <1>8 DEF Relink, At, Done, Goto
<1>9. ASSUME NEW w \in Worker, Retire(w) PROVE (Calm \/ \E u \in Worker : TurnsToTwin(u) \/ Decides(u) \/ \E f \in Path : Pick(u, f))
  BY <1>9 DEF Retire, At, Done, Goto
<1>10. ASSUME NEW w \in Worker, Finish(w) PROVE (Calm \/ \E u \in Worker : TurnsToTwin(u) \/ Decides(u) \/ \E f \in Path : Pick(u, f))
  BY <1>10 DEF Finish, At, Done, Goto
<1>11. ASSUME NEW w \in Worker, Abort(w) PROVE (Calm \/ \E u \in Worker : TurnsToTwin(u) \/ Decides(u) \/ \E f \in Path : Pick(u, f))
  BY <1>11 DEF Abort, At, Done, Goto
<1>12. CASE SendFails
  BY <1>12 DEF SendFails, worker
<1>13. CASE Suppress
  BY <1>13 DEF Suppress, worker
<1>14. CASE Send
  BY <1>14 DEF Send, worker
<1>15. CASE Clean
  BY <1>15 DEF Clean, worker
<1>16. CASE Unlink
  BY <1>16 DEF Unlink, worker, GoodDispatcher
<1>17. CASE DropRow
  BY <1>17 DEF DropRow, worker
<1>18. ASSUME NEW i \in Id, Claim(i) PROVE (Calm \/ \E u \in Worker : TurnsToTwin(u) \/ Decides(u) \/ \E f \in Path : Pick(u, f))
  BY <1>18 DEF Claim, worker
<1>19. CASE ResetFailed
  BY <1>19 DEF ResetFailed, worker, Operate
<1>20. ASSUME NEW i \in Id, CollectGone(i) PROVE (Calm \/ \E u \in Worker : TurnsToTwin(u) \/ Decides(u) \/ \E f \in Path : Pick(u, f))
  BY <1>20 DEF CollectGone, worker
<1>21. ASSUME NEW i \in Id, Cancel(i) PROVE (Calm \/ \E u \in Worker : TurnsToTwin(u) \/ Decides(u) \/ \E f \in Path : Pick(u, f))
  BY <1>21 DEF Cancel, worker, Operate
<1>22. ASSUME NEW p \in Path, Arrive(p) PROVE (Calm \/ \E u \in Worker : TurnsToTwin(u) \/ Decides(u) \/ \E f \in Path : Pick(u, f))
  BY <1>22 DEF Arrive, worker
<1> QED
  BY <1>1, <1>2, <1>3, <1>4, <1>5, <1>6, <1>7, <1>8, <1>9, <1>10, <1>11, <1>12, <1>13, <1>14, <1>15, <1>16, <1>17, <1>18, <1>19, <1>20, <1>21, <1>22
  DEF Next, Dispatch, Work

\* A file comes into a worker's hand when it is picked, and only then.
LEMMA OnlyPickTakesUp ==
    ASSUME GoodWorkers, GoodDispatcher, GoodWorkers', Next,
           NEW w \in Worker, NEW p \in Path, TakesUp(w, p)', ~ TakesUp(w, p)
    PROVE  Pick(w, p)
<1>1. PICK u \in Worker : TurnsToTwin(u) \/ Decides(u) \/ \E f \in Path : Pick(u, f)
  BY CalmSteps DEF Calm, CalmHands
<1>2. CASE TurnsToTwin(u) \/ Decides(u)
  BY <1>2 DEF TurnsToTwin, Decides, Lookup, Collapse, At, Goto, TakesUp, GoodWorkers
<1>3. CASE \E f \in Path : Pick(u, f)
  <2>1. PICK f \in Path : Pick(u, f)
    BY <1>3
  <2>2. u = w
    BY <2>1 DEF Pick, Goto, TakesUp, GoodWorkers
  <2>3. wpath'[u] = f /\ wpath'[w] = p
    BY <2>1 DEF Pick, GoodWorkers, TakesUp
  <2> QED BY <2>1, <2>2, <2>3
<1> QED BY <1>1, <1>2, <1>3

\* While one worker picks, or lets go of a file, what the others have in hand stays.
LEMMA OthersHold ==
    ASSUME GoodWorkers, NEW v \in Worker, NEW w \in Worker, v # w, NEW p \in Path,
           NEW f \in Path, Pick(w, f), TakesUp(v, p)'
    PROVE  TakesUp(v, p)
BY DEF Pick, Goto, TakesUp, GoodWorkers

LEMMA ContestedMoves ==
    ASSUME Next
    PROVE  /\ contested \subseteq contested'
           /\ \A w \in Worker : \A p \in Path :
                 Pick(w, p) => \A v \in Worker : TakesUp(v, p) => Bytes[p] \in contested'
<1>1. CASE \E w \in Worker : \E p \in Path : Pick(w, p)
  BY <1>1 DEF Pick
<1>2. CASE ~ \E w \in Worker : \E p \in Path : Pick(w, p)
  <2>1. contested' = contested
    BY <1>2 DEF Next, Dispatch, SendFails, Suppress, Send, Clean, Unlink, DropRow, Claim, ResetFailed,
                Operate, Work, Lookup, ReconcileLookup, DropReintroduced, Insert, Collapse,
                DropIncoming, Relink, Retire, Finish, Abort, CollectGone, Cancel, Arrive, At, history
  <2> QED BY <1>2, <2>1
<1> QED BY <1>1, <1>2

LEMMA OneHandStep ==
    ASSUME GoodWorkers, GoodDispatcher, GoodWorkers', OneHand, Next PROVE OneHand'
<1> SUFFICES ASSUME NEW v \in Worker, NEW w \in Worker, NEW p \in Path, v # w,
                    TakesUp(v, p)', TakesUp(w, p)'
             PROVE  Bytes[p] \in contested'
  BY DEF OneHand
<1>1. CASE TakesUp(v, p) /\ TakesUp(w, p)
  BY <1>1, ContestedMoves DEF OneHand
<1>2. CASE ~ TakesUp(v, p)
  <2>1. Pick(v, p)
    BY <1>2, OnlyPickTakesUp
  <2>2. TakesUp(w, p)
    BY <2>1, OthersHold
  <2> QED BY <2>1, <2>2, ContestedMoves
<1>3. CASE ~ TakesUp(w, p)
  <2>1. Pick(w, p)
    BY <1>3, OnlyPickTakesUp
  <2>2. TakesUp(v, p)
    BY <2>1, OthersHold
  <2> QED BY <2>1, <2>2, ContestedMoves
<1> QED BY <1>1, <1>2, <1>3

LEMMA NoRowYetStep ==
    ASSUME GoodRows, GoodWorkers, GoodDispatcher, GoodWorkers', OneHand, NoRowYet, Next
    PROVE  NoRowYet'
<1> SUFFICES ASSUME NEW w \in Worker, NEW p \in Path, TakesUp(w, p)', Bytes[p] \notin contested',
                    NEW i \in Id, i \in Live', rows'[i].path = p
             PROVE  FALSE
  BY DEF NoRowYet, RowsAt, Live, Id
<1>0. Bytes[p] \notin contested
  BY ContestedMoves
<1>1. CASE TakesUp(w, p)
  <2>1. ~ (i \in Live /\ rows[i].path = p)
    BY <1>0, <1>1 DEF NoRowYet, RowsAt
  <2>2. PICK v \in Worker : TakesUp(v, p) /\ wpc'[v] \in {"idle", "retire", "finish"}
    BY <2>1, WhereRowsComeFrom DEF RowsComeFromHands
  <2>3. v = w
    BY <1>0, <1>1, <2>2 DEF OneHand
  <2> QED BY <2>2, <2>3 DEF TakesUp
<1>2. CASE ~ TakesUp(w, p)
  <2>1. Pick(w, p)
    BY <1>2, OnlyPickTakesUp
  <2> QED BY <2>1 DEF Pick, Known, RowsAt, Live
<1> QED BY <1>1, <1>2

-----------------------------------------------------------------------------
(* A spared copy stays *)

LEMMA SparedStays ==
    ASSUME Calm, DeliveredGrows, NEW q \in Path, Spared(q), ~ Settled(Bytes[q])'
    PROVE  Spared(q)'
<1>1. ~ Delivered(Bytes[q])
  BY BytesAssumption DEF DeliveredGrows, Settled, Delivered
<1>2. q \in disk'
  BY <1>1 DEF Calm, CalmDisk, Spared
<1> QED BY <1>2 DEF Calm, CalmHands, Spared

LEMMA CalmKeeps ==
    ASSUME Calm, DeliveredGrows, contested \subseteq contested', GoodWorkers, GoodWorkers',
           NEW since, Survivors(since)
    PROVE  Survivors(since)'
<1>1. ASSUME NEW w \in Worker, NEW q \in Path, NotBefore(since, w, q) PROVE NotBefore(since, w, q)'
  BY <1>1 DEF NotBefore, Calm, CalmHands
<1>2. ASSUME NEW p \in Path, Settled(Bytes[p]) PROVE Settled(Bytes[p])'
  BY <1>2, BytesAssumption DEF DeliveredGrows, Settled, Delivered
<1>3. TwinsAreLater(since)'
  BY <1>1 DEF Survivors, TwinsAreLater, Calm, CalmHands, GoodWorkers, GoodWorker, HasTwin
<1>4. DroppedForBetter(since)'
  <2> SUFFICES ASSUME NEW w \in Worker, NEW p \in Path, Drops(w, p)', ~ Settled(Bytes[p])'
               PROVE  \E q \in Path : /\ Spared(q)' /\ Bytes[q] = Bytes[p]
                                      /\ \/ Rank[q] > Rank[p]
                                         \/ Rank[q] = Rank[p] /\ NotBefore(since, w, q)'
    BY DEF DroppedForBetter, Settled, Delivered
  <2>1. Drops(w, p) /\ ~ Settled(Bytes[p])
    BY <1>2 DEF Calm, CalmHands
  <2>2. PICK q \in Path : /\ Spared(q) /\ Bytes[q] = Bytes[p]
                          /\ \/ Rank[q] > Rank[p]
                             \/ Rank[q] = Rank[p] /\ NotBefore(since, w, q)
    BY <2>1 DEF Survivors, DroppedForBetter
  <2> QED BY <1>1, <2>2, SparedStays
<1>5. RetiredForBetter'
  <2> SUFFICES ASSUME NEW w \in Worker, NEW p \in Path, Retires(w, p)', ~ Settled(Bytes[p])'
               PROVE  \E q \in Path : Spared(q)' /\ Bytes[q] = Bytes[p] /\ Rank[q] > Rank[p]
    BY DEF RetiredForBetter, Settled, Delivered
  <2>1. Retires(w, p) /\ ~ Settled(Bytes[p])
    BY <1>2 DEF Calm, CalmHands
  <2>2. PICK q \in Path : Spared(q) /\ Bytes[q] = Bytes[p] /\ Rank[q] > Rank[p]
    BY <2>1 DEF Survivors, RetiredForBetter
  <2> QED BY <2>2, SparedStays
<1>6. InHandOrBetter'
  <2> SUFFICES ASSUME NEW w \in Worker, wpc'[w] \in {"lookup", "collapse"},
                      NEW p \in Path, p = wpath'[w], ~ Settled(Bytes[p])'
               PROVE  \/ p \in disk'
                      \/ \E q \in Path : Spared(q)' /\ Bytes[q] = Bytes[p] /\ Rank[q] >= Rank[p]
    BY DEF InHandOrBetter, Settled, Delivered, GoodWorkers, GoodWorker
  <2>1. wpc[w] \in {"lookup", "collapse"} /\ wpath[w] = p /\ ~ Settled(Bytes[p])
    BY <1>2 DEF Calm, CalmHands
  <2>2. CASE p \in disk \ disk'
    <3>1. PICK v \in Worker : Drops(v, p) \/ Retires(v, p)
      BY <2>1, <2>2 DEF Calm, CalmDisk, Settled
    <3>2. PICK q \in Path : Spared(q) /\ Bytes[q] = Bytes[p] /\ Rank[q] >= Rank[p]
      BY <2>1, <3>1, RankAssumption DEF Survivors, DroppedForBetter, RetiredForBetter
    <3> QED BY <3>2, SparedStays
  <2>3. CASE \E q \in Path : Spared(q) /\ Bytes[q] = Bytes[p] /\ Rank[q] >= Rank[p]
    BY <2>3, SparedStays
  <2> QED BY <2>1, <2>2, <2>3 DEF Survivors, InHandOrBetter
<1> QED BY <1>3, <1>4, <1>5, <1>6 DEF Survivors

\* A file that is taken up is the latest in hand.
LEMMA PickKeeps ==
    ASSUME GoodWorkers, NEW w \in Worker, NEW f \in Path, Pick(w, f),
           NEW since, NEW next, Order(since, next), Survivors(since)
    PROVE  /\ Survivors([since EXCEPT ![w] = next])'
           /\ Order([since EXCEPT ![w] = next], next + 1)
<1> DEFINE later == [since EXCEPT ![w] = next]
<1>1. /\ wpc[w] = "idle" /\ f \in disk /\ UNCHANGED <<rows, nextId, disk, wtwin, posted>>
      /\ wpath' = [wpath EXCEPT ![w] = f] /\ wpc'[w] \in {"insert", "lookup"}
      /\ \A v \in Worker \ {w} : wpc'[v] = wpc[v] /\ wpath'[v] = wpath[v]
      /\ wpath'[w] = f /\ contested \subseteq contested'
  BY DEF Pick, Goto, GoodWorkers, dispatcher
<1>2. Order(later, next + 1) /\ later[w] = next /\ \A v \in Worker \ {w} : later[v] = since[v]
  BY DEF Order
<1> HIDE DEF later
<1>3. ASSUME NEW v \in Worker, wpc[v] # "idle", NEW q \in Path, NotBefore(since, v, q)
      PROVE  NotBefore(later, v, q)'
  <2> SUFFICES ASSUME NEW u \in Worker, TakesUp(u, q)' PROVE later[u] > later[v]
    BY DEF NotBefore
  <2>1. CASE u = w
    BY <1>1, <1>2, <1>3, <2>1 DEF Order
  <2>2. CASE u # w
    BY <1>1, <1>2, <1>3, <2>2 DEF NotBefore, TakesUp
  <2> QED BY <2>1, <2>2
<1>4. ASSUME NEW q \in Path, Spared(q) PROVE Spared(q)'
  BY <1>1, <1>4 DEF Spared, Drops, Retires
<1>5. ASSUME NEW v \in Worker, wpc'[v] \notin {"insert", "lookup"}
      PROVE  v # w /\ wpc'[v] = wpc[v] /\ wpath'[v] = wpath[v] /\ wtwin'[v] = wtwin[v]
  BY <1>1, <1>5
<1>6. TwinsAreLater(later)'
  BY <1>1, <1>3, <1>5 DEF Survivors, TwinsAreLater, GoodWorkers, GoodWorker, HasTwin
<1>7. DroppedForBetter(later)'
  <2> SUFFICES ASSUME NEW v \in Worker, NEW p \in Path, Drops(v, p)', ~ Settled(Bytes[p])'
               PROVE  \E q \in Path : /\ Spared(q)' /\ Bytes[q] = Bytes[p]
                                      /\ \/ Rank[q] > Rank[p]
                                         \/ Rank[q] = Rank[p] /\ NotBefore(later, v, q)'
    BY DEF DroppedForBetter, Settled, Delivered
  <2>1. Drops(v, p) /\ ~ Settled(Bytes[p]) /\ wpc[v] # "idle"
    BY <1>1, <1>5 DEF Drops, Settled, Delivered
  <2>2. PICK q \in Path : /\ Spared(q) /\ Bytes[q] = Bytes[p]
                          /\ \/ Rank[q] > Rank[p]
                             \/ Rank[q] = Rank[p] /\ NotBefore(since, v, q)
    BY <2>1 DEF Survivors, DroppedForBetter
  <2> QED BY <1>3, <1>4, <2>1, <2>2
<1>8. RetiredForBetter'
  <2> SUFFICES ASSUME NEW v \in Worker, NEW p \in Path, Retires(v, p)', ~ Settled(Bytes[p])'
               PROVE  \E q \in Path : Spared(q)' /\ Bytes[q] = Bytes[p] /\ Rank[q] > Rank[p]
    BY DEF RetiredForBetter, Settled, Delivered
  <2>1. Retires(v, p) /\ ~ Settled(Bytes[p])
    BY <1>1, <1>5 DEF Retires, Settled, Delivered
  <2> QED BY <1>4, <2>1 DEF Survivors, RetiredForBetter
<1>9. InHandOrBetter'
  <2> SUFFICES ASSUME NEW v \in Worker, wpc'[v] \in {"lookup", "collapse"}, v # w,
                      ~ Settled(Bytes[wpath[v]])
               PROVE  \/ wpath[v] \in disk'
                      \/ \E q \in Path : Spared(q)' /\ Bytes[q] = Bytes[wpath[v]]
                                         /\ Rank[q] >= Rank[wpath[v]]
    BY <1>1 DEF InHandOrBetter, Settled, Delivered
  <2> QED BY <1>1, <1>4 DEF Survivors, InHandOrBetter
<1> QED BY <1>2, <1>6, <1>7, <1>8, <1>9 DEF Survivors, later

\* A twin that is found has a row at its path, so nobody has that file in hand.
LEMMA TurnsKeep ==
    ASSUME GoodRows, GoodWorkers, GoodWorkers', NoRowYet, NEW w \in Worker, TurnsToTwin(w),
           NEW since, Survivors(since)
    PROVE  Survivors(since)'
<1>1. /\ wpc[w] = "lookup" /\ wpc'[w] = "collapse" /\ UNCHANGED <<rows, disk, wpath, posted, contested>>
      /\ \A v \in Worker \ {w} : wpc'[v] = wpc[v] /\ wtwin'[v] = wtwin[v]
  BY DEF TurnsToTwin, Lookup, At, Goto, GoodWorkers, dispatcher, history
<1>2. PICK i \in Live : wtwin'[w].path = rows[i].path
  BY DEF TurnsToTwin, Lookup, Goto, TwinOf, Twins, SameHash, GoodWorkers
<1>3. rows[i].path \in Path /\ i \in RowsAt(rows[i].path)
  BY DEF GoodRows, GoodRow, Live, NoRow, RowsAt
<1>4. ASSUME Bytes[wpath[w]] \notin contested, NEW v \in Worker PROVE ~ TakesUp(v, rows[i].path)
  <2>1. Bytes[rows[i].path] = Bytes[wpath[w]]
    BY <1>1, <1>2 DEF GoodWorkers, GoodWorker, HasTwin
  <2> QED BY <1>3, <1>4, <2>1 DEF NoRowYet
<1>5. \A v \in Worker : \A p : TakesUp(v, p)' <=> TakesUp(v, p)
  BY <1>1 DEF TakesUp
<1>6. \A v \in Worker : \A p : (Drops(v, p)' <=> Drops(v, p)) /\ (Retires(v, p)' <=> Retires(v, p))
  BY <1>1 DEF Drops, Retires
<1>7. TwinsAreLater(since)'
  <2>1. Bytes[wpath[w]] \notin contested =>
           NotBefore(since, w, wtwin[w].path)' /\ wtwin'[w].path # wpath'[w]
    BY <1>1, <1>2, <1>4, <1>5 DEF NotBefore, TakesUp
  <2>2. ASSUME NEW v \in Worker \ {w}, wpc'[v] = "collapse", Bytes[wpath[v]] \notin contested
        PROVE  NotBefore(since, v, wtwin[v].path)' /\ wtwin'[v].path # wpath'[v]
    BY <1>1, <1>5, <2>2 DEF NotBefore, Survivors, TwinsAreLater
  <2> QED BY <1>1, <2>1, <2>2 DEF TwinsAreLater, NotBefore
<1>8. DroppedForBetter(since)' /\ RetiredForBetter'
  BY <1>1, <1>5, <1>6 DEF Survivors, DroppedForBetter, RetiredForBetter, Spared, NotBefore, Settled, Delivered
<1>9. InHandOrBetter'
  BY <1>1, <1>6 DEF Survivors, InHandOrBetter, Spared, Settled, Delivered
<1> QED BY <1>7, <1>8, <1>9 DEF Survivors

\* The copy that is kept, or one as good, is spared by everybody else.
LEMMA KeepsOne ==
    ASSUME OneHand, GoodWorkers, NEW w \in Worker, Decides(w),
           NEW since, NEW next, Order(since, next), Survivors(since),
           ~ Settled(Bytes[wpath[w]])
    PROVE  \E q \in Path : /\ Spared(q)' /\ Bytes[q] = Bytes[wpath[w]]
                           /\ \/ Rank[q] > Rank[wpath[w]]
                              \/ Rank[q] = Rank[wpath[w]] /\ (NotBefore(since, w, q) \/ wpc'[w] = "adopt")
<1> DEFINE f == wpath[w]
           g == wtwin[w].path
<1>1. /\ wpc[w] = "collapse" /\ f \in Path /\ g \in Path /\ Bytes[g] = Bytes[f]
      /\ UNCHANGED <<disk, wpath, wtwin, posted, contested>> /\ g \in disk
      /\ wpc'[w] \in {"adopt", "dropIncoming"}
      /\ wpc'[w] = "adopt" <=> Rank[f] > Rank[g]
      /\ \A v \in Worker \ {w} : wpc'[v] = wpc[v]
  BY DEF Decides, Collapse, At, Goto, IncomingWins, GoodWorkers, GoodWorker, HasTwin, dispatcher, history
<1>2. NotBefore(since, w, g) /\ g # f /\ TakesUp(w, f)
  BY <1>1 DEF Survivors, TwinsAreLater, TakesUp, Settled
<1>3. Rank[f] \in Nat /\ Rank[g] \in Nat /\ \A q \in Path : Rank[q] \in Nat
  BY <1>1, RankAssumption
<1>4. \A v \in Worker : since[v] \in Nat
  BY DEF Order
<1>5. CASE wpc'[w] = "dropIncoming"
  <2>0. Rank[g] >= Rank[f]
    BY <1>1, <1>3, <1>5
  <2>1. ASSUME NEW q \in Path, q # f, Spared(q) PROVE Spared(q)'
    BY <1>1, <1>5, <2>1 DEF Spared, Drops, Retires
  <2>2. CASE Spared(g)
    <3>1. Spared(g)'
      BY <1>1, <1>2, <2>1, <2>2
    <3>2. Rank[g] > Rank[f] \/ Rank[g] = Rank[f]
      BY <1>3, <2>0
    <3> QED BY <1>1, <1>2, <3>1, <3>2
  <2>3. ASSUME NEW v \in Worker, Retires(v, g)
        PROVE  \E q \in Path : Spared(q)' /\ Bytes[q] = Bytes[f] /\ Rank[q] > Rank[f]
    <3>1. PICK q \in Path : Spared(q) /\ Bytes[q] = Bytes[g] /\ Rank[q] > Rank[g]
      BY <1>1, <2>3 DEF Survivors, RetiredForBetter
    <3> QED BY <1>1, <1>3, <2>0, <2>1, <3>1
  <2>4. ASSUME NEW v \in Worker, Drops(v, g)
        PROVE  \E q \in Path : /\ Spared(q)' /\ Bytes[q] = Bytes[f]
                               /\ \/ Rank[q] > Rank[f]
                                  \/ Rank[q] = Rank[f] /\ NotBefore(since, w, q)
    <3>1. PICK q \in Path : /\ Spared(q) /\ Bytes[q] = Bytes[g]
                            /\ \/ Rank[q] > Rank[g]
                               \/ Rank[q] = Rank[g] /\ NotBefore(since, v, q)
      BY <1>1, <2>4 DEF Survivors, DroppedForBetter
    <3>2. since[v] > since[w]
      BY <1>2, <2>4 DEF NotBefore, Drops, TakesUp
    <3>3. CASE Rank[q] > Rank[f]
      BY <1>1, <2>1, <3>1, <3>3, <1>3
    <3>4. CASE Rank[q] = Rank[f] /\ NotBefore(since, v, q)
      <4>1. q # f
        BY <1>2, <1>4, <3>2, <3>4 DEF NotBefore
      <4>2. NotBefore(since, w, q)
        BY <1>4, <3>2, <3>4 DEF NotBefore
      <4> QED BY <1>1, <2>1, <3>1, <3>4, <4>1, <4>2
    <3> QED BY <1>3, <2>0, <3>1, <3>3, <3>4
  <2> QED BY <1>1, <2>2, <2>3, <2>4 DEF Spared
<1>6. CASE wpc'[w] = "adopt"
  <2>1. ASSUME NEW q \in Path, q # g, Spared(q) PROVE Spared(q)'
    BY <1>1, <1>6, <2>1 DEF Spared, Drops, Retires
  <2>2. ~ \E v \in Worker : Drops(v, f)
    <3> SUFFICES ASSUME NEW v \in Worker, Drops(v, f) PROVE FALSE
      OBVIOUS
    <3>1. v # w /\ TakesUp(v, f)
      BY <1>1 DEF Drops, TakesUp
    <3> QED BY <1>1, <1>2, <3>1 DEF OneHand, Settled
  <2>3. PICK q \in Path : Spared(q) /\ Bytes[q] = Bytes[f] /\ Rank[q] >= Rank[f]
    <3>1. CASE Spared(f)
      BY <1>1, <1>3, <3>1
    <3>2. CASE f \notin disk
      BY <1>1, <3>2 DEF Survivors, InHandOrBetter
    <3>3. ASSUME NEW v \in Worker, Retires(v, f)
          PROVE  \E r \in Path : Spared(r) /\ Bytes[r] = Bytes[f] /\ Rank[r] >= Rank[f]
      BY <1>1, <1>3, <3>3 DEF Survivors, RetiredForBetter
    <3> QED BY <2>2, <3>1, <3>2, <3>3 DEF Spared
  <2> QED BY <1>1, <1>3, <1>6, <2>1, <2>3
<1> QED BY <1>1, <1>5, <1>6

\* What was spared and no longer is gives way to one as good.
LEMMA DecidesKeep ==
    ASSUME OneHand, GoodWorkers, NEW w \in Worker, Decides(w),
           NEW since, NEW next, Order(since, next), Survivors(since)
    PROVE  Survivors(since)'
<1> DEFINE f == wpath[w]
           g == wtwin[w].path
<1>1. /\ wpc[w] = "collapse" /\ f \in Path /\ g \in Path /\ Bytes[g] = Bytes[f]
      /\ UNCHANGED <<disk, wpath, wtwin, posted, contested>>
      /\ wpc'[w] \in {"adopt", "dropIncoming"}
      /\ wpc'[w] = "adopt" <=> Rank[f] > Rank[g]
      /\ \A v \in Worker \ {w} : wpc'[v] = wpc[v]
  BY DEF Decides, Collapse, At, Goto, IncomingWins, GoodWorkers, GoodWorker, HasTwin, dispatcher, history
<1>2. \A q \in Path : Rank[q] \in Nat
  BY RankAssumption
<1>3. \A v \in Worker : since[v] \in Nat
  BY DEF Order
<1>4. \A v \in Worker : \A p : TakesUp(v, p)' <=> TakesUp(v, p)
  BY <1>1 DEF TakesUp
<1>5. ASSUME NEW q \in Path, Spared(q), ~ Spared(q)'
      PROVE  /\ wpc'[w] = "dropIncoming" => q = f
             /\ wpc'[w] = "adopt" => q = g
  BY <1>1, <1>5 DEF Spared, Drops, Retires
<1>6. ASSUME NEW q \in Path, Spared(q), ~ Spared(q)', ~ Settled(Bytes[q])
      PROVE  \E r \in Path : /\ Spared(r)' /\ Bytes[r] = Bytes[q]
                             /\ \/ Rank[r] > Rank[q]
                                \/ Rank[r] = Rank[q] /\ q = f /\ NotBefore(since, w, r)
  <2>1. ~ Settled(Bytes[f])
    BY <1>1, <1>5, <1>6
  <2>2. PICK r \in Path : /\ Spared(r)' /\ Bytes[r] = Bytes[f]
                          /\ \/ Rank[r] > Rank[f]
                             \/ Rank[r] = Rank[f] /\ (NotBefore(since, w, r) \/ wpc'[w] = "adopt")
    BY <2>1, KeepsOne
  <2>3. CASE wpc'[w] = "dropIncoming"
    BY <1>5, <1>6, <2>2, <2>3
  <2>4. CASE wpc'[w] = "adopt"
    BY <1>1, <1>2, <1>5, <1>6, <2>2, <2>4
  <2> QED BY <1>1, <2>3, <2>4
<1>7. TwinsAreLater(since)'
  BY <1>1, <1>4 DEF Survivors, TwinsAreLater, NotBefore
<1>8. DroppedForBetter(since)'
  <2> SUFFICES ASSUME NEW v \in Worker, NEW p \in Path, Drops(v, p)', ~ Settled(Bytes[p])
               PROVE  \E q \in Path : /\ Spared(q)' /\ Bytes[q] = Bytes[p]
                                      /\ \/ Rank[q] > Rank[p]
                                         \/ Rank[q] = Rank[p] /\ NotBefore(since, v, q)
    BY <1>1, <1>4 DEF DroppedForBetter, NotBefore, Settled, Delivered
  <2>1. CASE v = w
    <3>1. p = f /\ wpc'[w] = "dropIncoming"
      BY <1>1, <2>1 DEF Drops
    <3> QED BY <2>1, <3>1, KeepsOne
  <2>2. CASE v # w
    <3>1. Drops(v, p)
      BY <1>1, <2>2 DEF Drops
    <3>2. PICK q \in Path : /\ Spared(q) /\ Bytes[q] = Bytes[p]
                            /\ \/ Rank[q] > Rank[p]
                               \/ Rank[q] = Rank[p] /\ NotBefore(since, v, q)
      BY <3>1 DEF Survivors, DroppedForBetter
    <3>3. CASE Spared(q)'
      BY <3>2, <3>3
    <3>4. CASE ~ Spared(q)'
      <4>1. PICK r \in Path : /\ Spared(r)' /\ Bytes[r] = Bytes[q]
                              /\ \/ Rank[r] > Rank[q]
                                 \/ Rank[r] = Rank[q] /\ q = f /\ NotBefore(since, w, r)
        BY <1>6, <3>2, <3>4
      <4>2. CASE Rank[r] > Rank[p]
        BY <3>2, <4>1, <4>2
      <4>3. CASE Rank[r] = Rank[q] /\ Rank[q] = Rank[p] /\ q = f /\ NotBefore(since, w, r)
                 /\ NotBefore(since, v, q)
        <5>1. since[w] > since[v]
          BY <1>1, <4>3 DEF NotBefore, TakesUp
        <5>2. NotBefore(since, v, r)
          BY <1>3, <4>3, <5>1 DEF NotBefore
        <5> QED BY <3>2, <4>1, <4>3, <5>2
      <4> QED BY <1>2, <3>2, <4>1, <4>2, <4>3
    <3> QED BY <3>3, <3>4
  <2> QED BY <2>1, <2>2
<1>9. RetiredForBetter'
  <2> SUFFICES ASSUME NEW v \in Worker, NEW p \in Path, Retires(v, p)', ~ Settled(Bytes[p])
               PROVE  \E q \in Path : Spared(q)' /\ Bytes[q] = Bytes[p] /\ Rank[q] > Rank[p]
    BY <1>1 DEF RetiredForBetter, Settled, Delivered
  <2>1. CASE v = w
    <3>1. p = g /\ wpc'[w] = "adopt"
      BY <1>1, <2>1 DEF Retires
    <3>2. PICK q \in Path : Spared(q)' /\ Bytes[q] = Bytes[f] /\ (Rank[q] > Rank[f] \/ Rank[q] = Rank[f])
      BY <1>1, <3>1, KeepsOne
    <3> QED BY <1>1, <1>2, <3>1, <3>2
  <2>2. CASE v # w
    <3>1. Retires(v, p)
      BY <1>1, <2>2 DEF Retires
    <3>2. PICK q \in Path : Spared(q) /\ Bytes[q] = Bytes[p] /\ Rank[q] > Rank[p]
      BY <3>1 DEF Survivors, RetiredForBetter
    <3>3. CASE Spared(q)'
      BY <3>2, <3>3
    <3>4. CASE ~ Spared(q)'
      BY <1>2, <1>6, <3>2, <3>4
    <3> QED BY <3>3, <3>4
  <2> QED BY <2>1, <2>2
<1>10. InHandOrBetter'
  <2> SUFFICES ASSUME NEW v \in Worker, v # w, wpc[v] \in {"lookup", "collapse"},
                      ~ Settled(Bytes[wpath[v]])
               PROVE  \/ wpath[v] \in disk
                      \/ \E q \in Path : Spared(q)' /\ Bytes[q] = Bytes[wpath[v]]
                                         /\ Rank[q] >= Rank[wpath[v]]
    BY <1>1 DEF InHandOrBetter, Settled, Delivered
  <2>1. CASE wpath[v] \notin disk
    <3>1. PICK q \in Path : Spared(q) /\ Bytes[q] = Bytes[wpath[v]] /\ Rank[q] >= Rank[wpath[v]]
      BY <2>1 DEF Survivors, InHandOrBetter
    <3>2. CASE ~ Spared(q)'
      <4>1. PICK r \in Path : Spared(r)' /\ Bytes[r] = Bytes[q] /\ (Rank[r] > Rank[q] \/ Rank[r] = Rank[q])
        BY <1>6, <3>1, <3>2
      <4>2. wpath[v] \in Path
        BY DEF GoodWorkers, GoodWorker
      <4> QED BY <1>2, <3>1, <4>1, <4>2
    <3> QED BY <3>1, <3>2
  <2> QED BY <2>1
<1> QED BY <1>7, <1>8, <1>9, <1>10 DEF Survivors

-----------------------------------------------------------------------------
(* No bytes are lost *)

LEMMA NothingIsLost ==
    ASSUME Ledger, DeliveredGrows, GoodWorkers', arrived \subseteq Path, NeverLosesBytes,
           contested \subseteq contested', NEW since, Survivors(since), Next
    PROVE  arrived' \subseteq Path /\ NeverLosesBytes'
<1>0. GoodRows /\ GoodWorkers /\ GoodDispatcher /\ disk \subseteq Path
  BY DEF Ledger, GoodChats
<1>1. /\ arrived' \subseteq Path
      /\ \A p \in arrived' : p \in arrived \/ p \in disk'
  <2>1. CASE \E p \in Path : Arrive(p)
    BY <2>1 DEF Arrive
  <2>2. CASE ~ \E p \in Path : Arrive(p)
    BY <2>2 DEF Next, Dispatch, SendFails, Suppress, Send, Clean, Unlink, DropRow, Claim, ResetFailed,
                Operate, Work, Pick, Lookup, ReconcileLookup, DropReintroduced, Insert, Collapse,
                DropIncoming, Relink, Retire, Finish, Abort, CollectGone, Cancel, At, history
  <2> QED BY <2>1, <2>2
<1> SUFFICES ASSUME NEW p \in arrived', p \in arrived, ~ Settled(Bytes[p])'
             PROVE  \E q \in disk' : Bytes[q] = Bytes[p]
  BY <1>1 DEF NeverLosesBytes, Settled, Delivered
<1>2. ~ Settled(Bytes[p]) /\ ~ Delivered(Bytes[p])
  BY BytesAssumption DEF DeliveredGrows, Settled, Delivered
<1>3. PICK q \in disk : Bytes[q] = Bytes[p]
  BY <1>2 DEF NeverLosesBytes, Settled
<1>4. CASE Calm
  <2>1. CASE q \in disk'
    BY <1>3, <2>1
  <2>2. CASE q \notin disk'
    <3>1. PICK v \in Worker : Drops(v, q) \/ Retires(v, q)
      BY <1>2, <1>3, <1>4, <2>2 DEF Calm, CalmDisk
    <3>2. PICK r \in Path : Spared(r) /\ Bytes[r] = Bytes[q]
      BY <1>0, <1>2, <1>3, <3>1 DEF Survivors, DroppedForBetter, RetiredForBetter
    <3>3. Spared(r)'
      BY <1>3, <1>4, <3>2, SparedStays
    <3> QED BY <1>3, <3>2, <3>3 DEF Spared
  <2> QED BY <2>1, <2>2
<1>5. CASE ~ Calm
  <2>1. disk' = disk
    BY <1>0, <1>5, CalmSteps DEF TurnsToTwin, Decides, Lookup, Collapse, Pick
  <2> QED BY <1>3, <2>1
<1> QED BY <1>4, <1>5

LEMMA KeptStep ==
    ASSUME Ledger, Kept, Next PROVE Kept'
<1>1. Ledger' /\ DeliveredGrows /\ GoodRows /\ GoodWorkers /\ GoodDispatcher /\ GoodWorkers'
  BY LedgerStep DEF Ledger
<1>2. PICK since \in [Worker -> Nat], next \in Nat : Order(since, next) /\ Survivors(since)
  BY DEF Kept
<1>3. NoRowYet' /\ OneHand' /\ contested \subseteq contested'
  BY <1>1, NoRowYetStep, OneHandStep, ContestedMoves DEF Kept
<1>4. arrived' \subseteq Path /\ NeverLosesBytes'
  BY <1>1, <1>2, <1>3, NothingIsLost DEF Kept
<1>5. CASE Calm
  BY <1>1, <1>2, <1>3, <1>4, <1>5, CalmKeeps DEF Kept, Order
<1>6. ASSUME NEW w \in Worker, NEW f \in Path, Pick(w, f) PROVE Kept'
  <2>1. [since EXCEPT ![w] = next] \in [Worker -> Nat] /\ next + 1 \in Nat
    OBVIOUS
  <2>2. /\ Survivors([since EXCEPT ![w] = next])'
        /\ Order([since EXCEPT ![w] = next], next + 1)
    BY <1>1, <1>2, <1>6, PickKeeps
  <2> QED BY <1>3, <1>4, <2>1, <2>2 DEF Kept, Order
<1>7. ASSUME NEW w \in Worker, TurnsToTwin(w) \/ Decides(w) PROVE Kept'
  <2>1. Survivors(since)'
    BY <1>1, <1>2, <1>7, TurnsKeep, DecidesKeep DEF Kept
  <2> QED BY <1>2, <1>3, <1>4, <2>1 DEF Kept, Order
<1> QED BY <1>1, <1>5, <1>6, <1>7, CalmSteps

\* For every set of files, names and producers, wherever their sweeps meet: whatever
\* is collapsed, adopted, retired and dropped, and whoever is killed in between, every
\* content ever written is in a chat or on disk ("never lose bytes", core.ingest),
\* but for a file that two producers took up before either had registered it.
THEOREM BytesAreNeverLost == Spec => []NeverLosesBytes
<1>1. Init => Ledger /\ Kept
  <2> SUFFICES ASSUME Init PROVE Kept
    BY LedgerInit
  <2>1. /\ Order([w \in Worker |-> 0], 1)
        /\ [w \in Worker |-> 0] \in [Worker -> Nat] /\ 1 \in Nat
    BY DEF Order
  <2>2. Survivors([w \in Worker |-> 0])
    BY DEF Init, Survivors, TwinsAreLater, DroppedForBetter, RetiredForBetter, InHandOrBetter,
           Drops, Retires
  <2>3. arrived \subseteq Path /\ OneHand /\ NoRowYet /\ NeverLosesBytes
    BY DEF Init, OneHand, NoRowYet, TakesUp, NeverLosesBytes
  <2> QED BY <2>1, <2>2, <2>3 DEF Kept
<1>2. Ledger /\ Kept /\ [Next]_vars => (Ledger /\ Kept)'
  <2>1. ASSUME Kept, UNCHANGED vars PROVE Kept'
    BY <2>1 DEF vars, worker, dispatcher, history, Kept, OneHand, NoRowYet, RowsAt, Live, TakesUp, NeverLosesBytes,
                Settled, Delivered, Order, Survivors, TwinsAreLater, DroppedForBetter, RetiredForBetter,
                InHandOrBetter, Drops, Retires, Spared, NotBefore
  <2> QED BY <2>1, KeptStep, LedgerStep, LedgerStays
<1>3. Kept => NeverLosesBytes
  BY DEF Kept
<1> QED BY <1>1, <1>2, <1>3, PTL DEF Spec
=============================================================================
