------------------------------- MODULE Ingest -------------------------------
(***************************************************************************)
(* Several producer processes registering files in the items table while   *)
(* the dispatcher drains it: core.ingest.register_file and its _collapse,  *)
(* the _register of archiver.reconcile, and the row writes they use        *)
(* (add_item, find_by_content_hash, relink_file, rearm_failed).            *)
(*                                                                         *)
(* Here a row has an id of its own, because register_file moves rows from  *)
(* one path to another; ids are never reused.  The dispatcher is reduced   *)
(* to what a producer can see of it (module Dispatcher has the rest): it   *)
(* claims one row at a time, and a send and its record are one step.       *)
(*                                                                         *)
(* A worker holds what it read - the bytes it hashed, the twin row it      *)
(* found - across steps of everybody else; each action below is one query, *)
(* one transaction or one file operation.                                  *)
(***************************************************************************)
EXTENDS Naturals, FiniteSets

CONSTANTS
    Path, Content,
    Bytes,         \* Bytes[p]: what a producer writes at p
    Ident,         \* Ident[p]: (platform, identifier) resolved for p
    Rank,          \* Rank[p]: canonical name and sidecar, as _pick_winner weighs them
    DropZone,      \* paths in a chat_id folder (source = 'orphaned')
    Protected,     \* paths under the safebrake
    Worker,
    Reconciles,    \* workers running _reconcile_dir; the others run register_file
    Sweeps,        \* Sweeps[w]: paths worker w scans
    NoHash, NoPath, NoTwin,
    MaxRows,       \* bound: rows ever inserted
    ArriveBound,   \* bound: files written by producers, or moved back in
    AbortBound,    \* bound: workers killed, files that cannot be hashed
    CommandBound   \* bound: operator commands, sends that fail (and are not the last of a lost file)

ASSUME BytesAssumption == Bytes \in [Path -> Content] /\ NoHash \notin Content
ASSUME RankAssumption == Rank \in [Path -> Nat]
ASSUME SweepAssumption ==
    /\ Sweeps \in [Worker -> SUBSET Path] /\ Reconciles \subseteq Worker
    \* drop-zones are swept by core.orphaned, through register_file
    /\ \A w \in Reconciles : Sweeps[w] \cap DropZone = {}
ASSUME PathAssumption == NoPath \notin Path /\ DropZone \subseteq Path /\ Protected \subseteq Path
ASSUME IngestBounds ==
    MaxRows \in Nat /\ ArriveBound \in Nat /\ AbortBound \in Nat /\ CommandBound \in Nat

VARIABLES
    rows,       \* the table, by row id
    nextId,     \* AUTOINCREMENT
    disk,       \* paths that hold a file
    wpc,        \* per worker: step of register_file / _register
    wpath,      \* the incoming file
    whash,      \* its digest
    wtwin,      \* the row find_by_content_hash returned, as it was then
    dpc, drow,  \* dispatcher: step, and the row as claimed
    posted,     \* posted[c]: bytes c in the platform's chat, in a drop-zone chat
    unrecorded, \* history: contents posted for a row that was cancelled meanwhile
    arrived,    \* history: paths a file has ever been written at
    contested,  \* history: contents of files that two workers had in hand at once
    arrivals, aborts, commands

worker == <<wpc, wpath, whash, wtwin>>
dispatcher == <<dpc, drow, posted, unrecorded>>
history == <<arrived, contested>>
bounds == <<arrivals, aborts, commands>>
vars == <<rows, nextId, disk, worker, dispatcher, history, bounds>>

Id == 1 .. MaxRows
Identifier == {Ident[p] : p \in Path}
Status == {"absent", "pending", "sending", "sent", "failed", "cancelled"}
Row == [path : Path, ident : Identifier, hash : Content \cup {NoHash},
        status : Status \ {"absent"}, orphaned : BOOLEAN]
NoRow == [status |-> "absent"]
Twin == [id : Id, path : Path, status : Status]
Chat == {"home", "dropzone"}

Live == {i \in Id : rows[i].status # "absent"}
WithStatus(st) == {i \in Id : rows[i].status = st}
RowsAt(p) == {i \in Live : rows[i].path = p}           \* UNIQUE: at most one

TypeOK ==
    /\ rows \in [Id -> Row \cup {NoRow}] /\ nextId \in 1 .. (MaxRows + 1)
    /\ \A i, j \in Live : i # j =>
          rows[i].path # rows[j].path /\ rows[i].ident # rows[j].ident
    /\ disk \subseteq Path
    /\ wpc \in [Worker -> {"idle", "lookup", "collapse", "dropIncoming", "takeOver",
                           "adopt", "retire", "finish", "reintroduced", "insert"}]
    /\ wpath \in [Worker -> Path \cup {NoPath}]
    /\ whash \in [Worker -> Content \cup {NoHash}]
    /\ wtwin \in [Worker -> Twin \cup {NoTwin}]
    /\ dpc \in {"idle", "check", "clean", "unlink", "dropRow"}
    /\ drow \in [id : Id, path : Path, hash : Content \cup {NoHash}, orphaned : BOOLEAN]
                 \cup {NoTwin}
    /\ posted \in [Content -> [Chat -> Nat]]
    /\ arrived \subseteq Path /\ contested \subseteq Content /\ unrecorded \subseteq Content
    /\ arrivals \in Nat /\ aborts \in Nat /\ commands \in Nat

Init ==
    /\ rows = [i \in Id |-> NoRow] /\ nextId = 1
    /\ disk = {} /\ arrived = {} /\ contested = {} /\ unrecorded = {}
    /\ wpc = [w \in Worker |-> "idle"] /\ wpath = [w \in Worker |-> NoPath]
    /\ whash = [w \in Worker |-> NoHash] /\ wtwin = [w \in Worker |-> NoTwin]
    /\ dpc = "idle" /\ drow = NoTwin
    /\ posted = [c \in Content |-> [ch \in Chat |-> 0]]
    /\ arrivals = 0 /\ aborts = 0 /\ commands = 0

-----------------------------------------------------------------------------
(* Workers *)

Goto(w, step) == wpc' = [wpc EXCEPT ![w] = step]

\* The worker is done with the file, whatever the outcome.
Done(w) ==
    /\ Goto(w, "idle")
    /\ wpath' = [wpath EXCEPT ![w] = NoPath]
    /\ whash' = [whash EXCEPT ![w] = NoHash]
    /\ wtwin' = [wtwin EXCEPT ![w] = NoTwin]

At(w, step) == wpc[w] = step /\ UNCHANGED <<dispatcher, history, bounds>>

Known(p) == RowsAt(p) # {}         \* has_file_path

\* w has the file at p in hand, and has not registered it yet.
TakesUp(w, p) ==
    /\ wpath[w] = p
    /\ wpc[w] \in {"lookup", "reintroduced", "insert", "collapse", "dropIncoming",
                   "takeOver", "adopt"}

\* A stable file without a row is hashed.  _register goes on
\* without a digest when the file cannot be read; register_file gives up.
Pick(w, p) ==
    /\ wpc[w] = "idle" /\ p \in Sweeps[w] \cap disk /\ ~Known(p)
    /\ wpath' = [wpath EXCEPT ![w] = p]
    /\ \/ /\ whash' = [whash EXCEPT ![w] = Bytes[p]]
          /\ Goto(w, IF p \in DropZone THEN "insert" ELSE "lookup")
          /\ UNCHANGED aborts
       \/ /\ w \in Reconciles /\ aborts < AbortBound /\ aborts' = aborts + 1
          /\ Goto(w, "insert") /\ UNCHANGED whash
    /\ contested' = IF \E v \in Worker : TakesUp(v, p) THEN contested \cup {Bytes[p]} ELSE contested
    /\ UNCHANGED <<rows, nextId, disk, wtwin, dispatcher, arrived, arrivals, commands>>

Preference == [s \in Status |-> CASE s = "sent" -> 0 [] s = "sending" -> 1
                                  [] s = "pending" -> 2 [] OTHER -> 3]
SameHash(h) == {i \in Live : rows[i].hash = h}

\* find_by_content_hash: a deliverable row first.
Twins(h) == {i \in SameHash(h) :
                \A j \in SameHash(h) : Preference[rows[i].status] <= Preference[rows[j].status]}

TwinOf(i) == [id |-> i, path |-> rows[i].path,
              status |-> IF rows[i].status = "cancelled" THEN "failed" ELSE rows[i].status]

Lookup(w) ==
    /\ At(w, "lookup") /\ w \notin Reconciles
    /\ \/ Twins(whash[w]) = {} /\ Goto(w, "insert") /\ UNCHANGED wtwin
       \/ \E i \in Twins(whash[w]) :
            wtwin' = [wtwin EXCEPT ![w] = TwinOf(i)] /\ Goto(w, "collapse")
    /\ UNCHANGED <<rows, nextId, disk, wpath, whash>>

\* _register's re-introduction guard: these bytes were sent from another path.
Reintroduced(i, p) == rows[i].status = "sent" /\ rows[i].path # p

ReconcileLookup(w) ==
    /\ At(w, "lookup") /\ w \in Reconciles
    /\ \/ Twins(whash[w]) = {} /\ Goto(w, "insert")
       \/ \E i \in Twins(whash[w]) :
            Goto(w, IF Reintroduced(i, wpath[w]) THEN "reintroduced" ELSE "insert")
    /\ UNCHANGED <<rows, nextId, disk, wpath, whash, wtwin>>

\* guard.delete
DropReintroduced(w) ==
    /\ At(w, "reintroduced") /\ Done(w)
    /\ disk' = IF wpath[w] \in Protected THEN disk ELSE disk \ {wpath[w]}
    /\ UNCHANGED <<rows, nextId>>

\* The rows INSERT OR IGNORE gives way to: UNIQUE(file_path) and
\* UNIQUE(platform, identifier).
Taken(p) == RowsAt(p) \cup {i \in Live : rows[i].ident = Ident[p]}

Insert(w) ==
    /\ At(w, "insert") /\ Done(w)
    /\ IF Taken(wpath[w]) # {} THEN UNCHANGED <<rows, nextId>>
       ELSE /\ nextId <= MaxRows /\ nextId' = nextId + 1
            /\ rows' = [rows EXCEPT ![nextId] =
                          [path |-> wpath[w], ident |-> Ident[wpath[w]],
                           hash |-> whash[w], status |-> "pending",
                           orphaned |-> wpath[w] \in DropZone]]
    /\ UNCHANGED disk

\* _collapse: does the twin's file exist, and which copy has the better name?
\* The existing one has a row, so it wins ties - also against itself.
IncomingWins(w) == Rank[wpath[w]] > Rank[wtwin[w].path]

Collapse(w) ==
    /\ At(w, "collapse")
    /\ Goto(w, IF wtwin[w].path \notin disk THEN "takeOver"
               ELSE IF IncomingWins(w) THEN "adopt" ELSE "dropIncoming")
    /\ UNCHANGED <<rows, nextId, disk, wpath, whash, wtwin>>

\* cleanup_sidecars(incoming)
DropIncoming(w) ==
    /\ At(w, "dropIncoming") /\ Goto(w, "finish")
    /\ disk' = disk \ {wpath[w]}
    /\ UNCHANGED <<rows, nextId, wpath, whash, wtwin>>

\* relink_file: no row any more, no effect; another row at the path, the
\* UNIQUE constraint raises and the file is abandoned.
Relink(w) ==
    /\ wpc[w] \in {"takeOver", "adopt"} /\ UNCHANGED <<dispatcher, history, bounds>>
    /\ IF RowsAt(wpath[w]) \ {wtwin[w].id} # {} /\ wtwin[w].id \in Live
       THEN Done(w) /\ UNCHANGED rows
       ELSE /\ rows' = IF wtwin[w].id \in Live
                       THEN [rows EXCEPT ![wtwin[w].id].path = wpath[w]] ELSE rows
            /\ Goto(w, IF wpc[w] = "adopt" THEN "retire" ELSE "finish")
            /\ UNCHANGED <<wpath, whash, wtwin>>
    /\ UNCHANGED <<nextId, disk>>

\* cleanup_sidecars(existing)
Retire(w) ==
    /\ At(w, "retire") /\ Goto(w, "finish")
    /\ disk' = disk \ {wtwin[w].path}
    /\ UNCHANGED <<rows, nextId, wpath, whash, wtwin>>

\* rearm_failed, if the twin had failed when it was found.
Finish(w) ==
    /\ At(w, "finish") /\ Done(w)
    /\ rows' = IF wtwin[w].status = "failed" /\ rows[wtwin[w].id].status = "failed"
               THEN [rows EXCEPT ![wtwin[w].id].status = "pending"] ELSE rows
    /\ UNCHANGED <<nextId, disk>>

\* The worker is killed, or gives the file up (vanished, unreadable).
Abort(w) ==
    /\ wpc[w] # "idle" /\ aborts < AbortBound /\ aborts' = aborts + 1
    /\ Done(w)
    /\ UNCHANGED <<rows, nextId, disk, dispatcher, history, arrivals, commands>>

Work(w) ==
    \/ \E p \in Path : Pick(w, p)
    \/ Lookup(w) \/ ReconcileLookup(w) \/ DropReintroduced(w) \/ Insert(w)
    \/ Collapse(w) \/ DropIncoming(w) \/ Relink(w) \/ Retire(w) \/ Finish(w)

-----------------------------------------------------------------------------
(* The dispatcher, as producers see it *)

SetStatus(i, st) == rows' = [rows EXCEPT ![i].status = st]

RecordSuccess(st) ==       \* mutant: a failure is never written
    IF st = "sent" /\ rows[drow.id].status = "sending"
    THEN SetStatus(drow.id, st) ELSE UNCHANGED rows

\* Writes are guarded on 'sending'.
Record(st) ==
    IF rows[drow.id].status = "sending" THEN SetStatus(drow.id, st) ELSE UNCHANGED rows

Claim(i) ==
    /\ dpc = "idle" /\ rows[i].status = "pending"
    /\ SetStatus(i, "sending")
    /\ drow' = [id |-> i, path |-> rows[i].path, hash |-> rows[i].hash,
                orphaned |-> rows[i].orphaned]
    /\ dpc' = "check"
    /\ UNCHANGED <<nextId, disk, worker, posted, unrecorded, history, bounds>>

LiveTwin == {j \in Live \ {drow.id} :                    \* mutant: any status
                ~rows[j].orphaned /\ drow.hash # NoHash /\ rows[j].hash = drow.hash}
SentTwin == {j \in WithStatus("sent") \ {drow.id} :
                ~rows[j].orphaned /\ drow.hash # NoHash /\ rows[j].hash = drow.hash}

NeverSuppressed == FALSE                                \* mutant: no dedup at send time
Suppressed == ~drow.orphaned /\ SentTwin # {}

Release == dpc' = "idle" /\ drow' = NoTwin

\* The file is gone, or the send fails: back to 'pending', or out of budget, as
\* a file that stays gone will be at last.
SendFails ==
    /\ dpc = "check" /\ Release
    /\ \E st \in {"pending", "failed"} :
         /\ Record(st)
         /\ IF drow.path \notin disk /\ st = "failed" THEN UNCHANGED commands
            ELSE commands < CommandBound /\ commands' = commands + 1
    /\ UNCHANGED <<nextId, disk, worker, posted, unrecorded, history, arrivals, aborts>>

\* _suppress_duplicate removes the copy at the path it claimed, whether or not
\* mark_deduplicated still found the row claimed.
Suppress ==
    /\ dpc = "check" /\ drow.path \in disk /\ Suppressed
    /\ Record("sent") /\ dpc' = "unlink"
    /\ UNCHANGED <<nextId, disk, worker, drow, posted, unrecorded, history, bounds>>

Send ==
    /\ dpc = "check" /\ drow.path \in disk /\ ~Suppressed
    /\ LET ch == IF drow.orphaned THEN "dropzone" ELSE "home" IN
       posted' = [posted EXCEPT ![Bytes[drow.path]][ch] = @ + 1]
    /\ unrecorded' = IF rows[drow.id].status = "sending" THEN unrecorded
                     ELSE unrecorded \cup {Bytes[drow.path]}
    /\ Record("sent") /\ dpc' = "clean"
    /\ UNCHANGED <<nextId, disk, worker, drow, history, bounds>>

MayDelete == rows[drow.id].status = "sent"

\* maybe_delete reads the row again, path included; the delete policy of a
\* platform file may be off.
Clean ==
    /\ dpc = "clean"
    /\ \/ MayDelete /\ dpc' = "unlink" /\ drow' = [drow EXCEPT !.path = rows[drow.id].path]
       \/ (MayDelete => ~drow.orphaned) /\ Release
    /\ UNCHANGED <<rows, nextId, disk, worker, posted, unrecorded, history, bounds>>

\* guard.delete
Unlink ==
    /\ dpc = "unlink"
    /\ IF drow.path \in Protected THEN UNCHANGED disk ELSE disk' = disk \ {drow.path}
    /\ IF drow.orphaned /\ drow.path \notin Protected
       THEN dpc' = "dropRow" /\ UNCHANGED drow ELSE Release
    /\ UNCHANGED <<rows, nextId, worker, posted, unrecorded, history, bounds>>

\* An orphaned row leaves no trace, once its file is really gone.
DropRow ==
    /\ dpc = "dropRow" /\ Release
    /\ rows' = IF drow.path \in disk THEN rows ELSE [rows EXCEPT ![drow.id] = NoRow]
    /\ UNCHANGED <<nextId, disk, worker, posted, unrecorded, history, bounds>>

\* delete_failed_missing
CollectGone(i) ==
    /\ rows[i].status \in {"failed", "cancelled"} /\ rows[i].path \notin disk
    /\ rows' = [rows EXCEPT ![i] = NoRow]
    /\ UNCHANGED <<nextId, disk, worker, dispatcher, history, bounds>>

-----------------------------------------------------------------------------
(* Producers' files, the operator *)

\* A download or a recording is finished, a file is moved (back) in.
Arrive(p) ==
    /\ p \notin disk /\ arrivals < ArriveBound /\ arrivals' = arrivals + 1
    /\ disk' = disk \cup {p} /\ arrived' = arrived \cup {p}
    /\ UNCHANGED <<rows, nextId, worker, dispatcher, contested, aborts, commands>>

Operate ==
    /\ commands < CommandBound /\ commands' = commands + 1
    /\ UNCHANGED <<nextId, disk, worker, dispatcher, history, arrivals, aborts>>

\* dispatcher queue cancel, archiver reset failed
Cancel(i) ==
    Operate /\ rows[i].status \in {"pending", "sending"} /\ SetStatus(i, "cancelled")
ResetFailed ==
    /\ Operate
    /\ rows' = [i \in Id |-> IF rows[i].status = "failed"
                             THEN [rows[i] EXCEPT !.status = "pending"] ELSE rows[i]]

-----------------------------------------------------------------------------
Dispatch ==
    \/ SendFails \/ Suppress \/ Send \/ Clean \/ Unlink \/ DropRow
    \/ \E i \in Id : Claim(i)

Next ==
    \/ Dispatch \/ ResetFailed
    \/ \E w \in Worker : Work(w) \/ Abort(w)
    \/ \E i \in Id : CollectGone(i) \/ Cancel(i)
    \/ \E p \in Path : Arrive(p)

Spec == Init /\ [][Next]_vars

\* The sweeps are periodic, and the drain goes on.
FairSpec == Spec /\ WF_vars(Dispatch) /\ \A w \in Worker : WF_vars(Work(w))

-----------------------------------------------------------------------------
(* Properties *)

Delivered(c) == \E ch \in Chat : posted[c][ch] > 0

\* "Never lose bytes": whatever the producers collapse, adopt, retire and drop,
\* also where their sweeps meet, every content that was ever written is in a chat
\* or still on disk - unless two workers took up one file before either had
\* registered it: nothing in register_file serialises them, and then the file can
\* be collapsed with itself (the README has the trace).
NeverLosesBytes ==
    \A p \in arrived :
        \/ Delivered(Bytes[p]) \/ \E q \in disk : Bytes[q] = Bytes[p]
        \/ Bytes[p] \in contested

\* Whatever rows the producers' races leave behind, the same bytes reach the
\* platform's chat once: the dispatcher's check at send time is the backstop.
\* (Outside the guarantee: rows inserted without a digest, and bytes whose row
\* was cancelled while they were being sent - nothing says they are delivered.)
PostedHomeOnce ==
    \A c \in Content \ unrecorded :
        posted[c]["home"] <= 1 + Cardinality({i \in Live : rows[i].hash = NoHash
                                                /\ Bytes[rows[i].path] = c})

\* relink_file preserves the delivery history: a row says 'sent' only of bytes
\* that are in a chat, whatever path it points at by now.
SentRowsDelivered == \A i \in WithStatus("sent") : Delivered(Bytes[rows[i].path])

\* Every file a sweep covers comes to an end: its bytes are delivered, or a row
\* that carries them has failed or was cancelled (and says so to the operator) -
\* unless another row already owns the file's identity.
Closed(i, c) == rows[i].status \in {"failed", "cancelled"} /\ rows[i].hash \in {c, NoHash}
Handled(p) ==
    \/ p \notin disk
    \/ Delivered(Bytes[p])
    \/ \E i \in Live : Closed(i, Bytes[p])
    \/ \E i \in Live : rows[i].ident = Ident[p] /\ rows[i].path # p
EveryFileIsHandled == \A p \in Path : p \in disk ~> Handled(p)

-----------------------------------------------------------------------------
(* What the code's comments say, and the model refutes *)

\* ingest.py, _collapse: "the row keeps pointing at `existing`", so that one copy
\* of the bytes stays: NeverLosesBytes without its exception.
CollapseKeepsOne ==
    \A p \in arrived :
        Delivered(Bytes[p]) \/ \E q \in disk : Bytes[q] = Bytes[p]

\* store.py, sent_twin: "an orphaned copy must never suppress another item's
\* upload": the bytes of a platform file reach the platform's chat, or are
\* still at a platform path.
OrphanedNeverSuppresses ==
    \A p \in arrived \ DropZone :
        posted[Bytes[p]]["home"] > 0 \/ \E q \in disk \ DropZone : Bytes[q] = Bytes[p]

\* deletion.py: "ONE chokepoint every deletion path in the suite funnels through":
\* no step of the suite removes a file under the safebrake.
SafebrakeHolds == [][\A p \in Protected : p \in disk => p \in disk']_vars
=============================================================================
