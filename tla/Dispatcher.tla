----------------------------- MODULE Dispatcher -----------------------------
(***************************************************************************)
(* The dispatcher process: dispatcher.drain.drain_forever over the shared  *)
(* items table, with dispatcher.delete.maybe_delete and the exits of       *)
(* dispatcher.cli._run_drain.                                              *)
(*                                                                         *)
(* The drain is one sequential program; `pc` is where it stands.  Every    *)
(* action is one transaction on the table, one look at the disk, or one    *)
(* exchange with Telegram, so the other writers of the table (producers,   *)
(* `dispatcher queue ...`, `archiver reset ...`), the user's file manager, *)
(* the clock and a SIGKILL can come between any two of them.               *)
(*                                                                         *)
(* A claimed batch is a set: the rows of an album are settled one by one,  *)
(* in an order that no statement depends on.                               *)
(***************************************************************************)
EXTENDS ItemTable

CONSTANTS
    NoItem,        \* no current row
    Group,         \* Group[i]: the album key claim_batch gathers by
    AlbumMax,      \* ALBUM_MAX
    Protected,     \* items whose (platform, username) is safebraked
    DeleteAfter,   \* items whose delete-after-upload policy is on
    AutoRetry,     \* policy auto_retry_failed
    TripAt,        \* _CIRCUIT_TRIP_AT
    SendTries,     \* attempts inside one send (_send_with_retries)
    PostBound,     \* bound: copies of one item Telegram takes
    FaultBound,    \* bound: deaths of the process, aborted housekeeping passes
    CommandBound   \* bound: operator and user interventions

ASSUME NoItemAssumption == NoItem \notin Item
ASSUME AlbumMaxAssumption == AlbumMax \in Nat \ {0}
ASSUME GroupAssumption ==       \* source is part of the album key
    \A i, j \in Item : Group[i] = Group[j] => (i \in Orphaned <=> j \in Orphaned)
ASSUME PolicyAssumption ==
    Protected \subseteq Item /\ DeleteAfter \subseteq Item /\ AutoRetry \in BOOLEAN
ASSUME BoundAssumption ==
    /\ TripAt \in Nat \ {0} /\ SendTries \in Nat \ {0}
    /\ PostBound \in Nat /\ FaultBound \in Nat /\ CommandBound \in Nat

VARIABLES
    items,      \* the table
    disk,       \* items whose file is at its path
    posted,     \* posted[i]: copies of i's bytes in the Telegram chat
    pc,         \* where drain_forever stands ("down": no process)
    todo,       \* rows the current loop has still to visit
    present,    \* rows that exist on disk / survive dedup: what is sent
    dupes,      \* batch_dupes
    cur,        \* row of the current step, where a step is not a loop's
    ret,        \* loop to go on with after the current row
    verdict,    \* SendResult of the batch, or of `cur` in the fallback
    fails,      \* consecutive_fails
    tries,      \* attempts of the current send
    accepted,   \* rows Telegram has taken in this send and not yet recorded
    selected,   \* ids a housekeeping SELECT returned
    \* history of the behaviour, read by the properties only
    removed,    \* items whose file the dispatcher deleted
    excused,    \* items for which a second copy has a known cause
    stranded,   \* rows left 'sending' by an earlier process
    faults, commands

local == <<pc, todo, present, dupes, cur, ret, verdict, fails, tries,
           accepted, selected>>
history == <<removed, excused, stranded>>
bounds == <<faults, commands>>
vars == <<items, disk, posted, local, history, bounds>>

Verdict == {"none", "ok", "flood", "mediaEmpty", "oversize", "failed", "noroute"}
HousekeepingPC == {"hkGone", "hkDelete", "hkPrune", "hkTransient", "hkRearm",
                   "hkRetry", "hkWatchdog"}
IdlePC == {"down", "top", "claim"} \cup HousekeepingPC
SendPC == {"send", "fbSend"}
BatchPC == {"exists", "dedup", "route", "settle", "release", "clean",
            "unlink", "dropRow", "fallback", "fbSettle"} \cup SendPC

TypeOK ==
    /\ items \in [Item -> Row]
    /\ \A i \in Item : RowConsistent(items[i])
    /\ disk \in SUBSET Item
    /\ posted \in [Item -> Nat]
    /\ pc \in IdlePC \cup BatchPC
    /\ todo \in SUBSET Item /\ present \in SUBSET Item /\ dupes \in SUBSET Item
    /\ cur \in Item \cup {NoItem}
    /\ ret \in {"none", "dedup", "release", "clean", "fallback"}
    /\ verdict \in Verdict
    /\ fails \in Nat /\ tries \in Nat /\ faults \in Nat /\ commands \in Nat
    /\ accepted \in SUBSET Item /\ selected \in SUBSET Item
    /\ removed \in SUBSET Item /\ excused \in SUBSET Item /\ stranded \in SUBSET Item

SameBytes(i, j) == Hash[i] # NoHash /\ Hash[j] = Hash[i]

\* The bytes of i are in the chat, sent for i itself or for a copy of it.
Delivered(i) == \E j \in Item : posted[j] > 0 /\ (j = i \/ SameBytes(i, j))

Init ==
    /\ items = [i \in Item |-> NoRow]
    /\ disk = Item
    /\ posted = [i \in Item |-> 0]
    /\ pc = "down"
    /\ todo = {} /\ present = {} /\ dupes = {}
    /\ cur = NoItem /\ ret = "none" /\ verdict = "none"
    /\ fails = 0 /\ tries = 0 /\ accepted = {} /\ selected = {}
    /\ removed = {} /\ excused = {} /\ stranded = {}
    /\ faults = 0 /\ commands = 0

-----------------------------------------------------------------------------
(* Start and the ways out *)

\* Locals of a process that is not inside a batch.
NoBatch ==
    /\ todo' = {} /\ present' = {} /\ dupes' = {}
    /\ cur' = NoItem /\ ret' = "none" /\ verdict' = "none"
    /\ tries' = 0 /\ accepted' = {} /\ selected' = {}

\* The process is gone.  What Telegram took and no row records yet will be
\* sent again, and rows still 'sending' wait for the watchdog.
Dies ==
    /\ pc' = "down" /\ NoBatch /\ fails' = 0
    /\ excused' = excused \cup accepted
    /\ stranded' = WithStatus(items', "sending")

\* Startup watchdog, under the single-instance lock.
Start ==
    /\ pc = "down"
    /\ items' = ResetStuckSending(items, StuckAges)
    /\ stranded' = WithStatus(items', "sending")
    /\ pc' = "top"
    /\ UNCHANGED <<disk, posted, todo, present, dupes, cur, ret, verdict, fails,
                   tries, accepted, selected, removed, excused, bounds>>

\* stop_event or the stop flag of `ops update`, seen at the top of the loop
\* (or during the breaker's cooldown): never inside a batch.
StopAtTop ==
    /\ pc = "top"
    /\ faults < FaultBound /\ faults' = faults + 1
    /\ UNCHANGED <<items, disk, posted, removed, commands>>
    /\ Dies

Crash ==
    /\ pc \notin {"down", "top"}
    /\ faults < FaultBound /\ faults' = faults + 1
    /\ UNCHANGED <<items, disk, posted, removed, commands>>
    /\ Dies

\* SessionUnauthorized out of the send, caught in _run_drain.
AuthLost ==
    /\ pc \in SendPC /\ accepted = {}
    /\ faults < FaultBound /\ faults' = faults + 1
    /\ items' = ResetStuckSending(items, AllPastAges)
    /\ Dies
    /\ UNCHANGED <<disk, posted, removed, commands>>

\* The stop grace runs out: the drain task is cancelled where it awaits - a send, or
\* the flood wait between two items of the fallback - and every 'sending' row is
\* reverted.  In the sleep between two albums no row is: that is StopAtTop.
GraceExpired ==
    /\ pc \in SendPC \cup {"fallback"}
    /\ faults < FaultBound /\ faults' = faults + 1
    /\ items' = ResetStuckSending(items, AllPastAges)
    /\ Dies
    /\ UNCHANGED <<disk, posted, removed, commands>>

-----------------------------------------------------------------------------
(* Top of the loop: breaker, housekeeping *)

\* The breaker's cooldown, when it tripped, is over before the loop goes on.
LeaveTop(to) ==
    /\ pc = "top" /\ pc' = to
    /\ fails' = IF fails >= TripAt THEN 0 ELSE fails
    /\ UNCHANGED <<items, disk, posted, todo, present, dupes, cur, ret, verdict,
                   tries, accepted, selected, history, bounds>>

\* _HOUSEKEEPING_EVERY_S has passed, or not.
BeginHousekeeping == LeaveTop("hkGone")
SkipHousekeeping == LeaveTop("claim")

Housekeep(from, to) ==
    /\ pc = from /\ pc' = to
    /\ UNCHANGED <<disk, posted, todo, present, dupes, cur, ret, verdict, fails,
                   tries, accepted, history, bounds>>

\* delete_failed_missing: SELECT and stat ...
HkSelectGone ==
    /\ Housekeep("hkGone", "hkDelete")
    /\ selected' = WithStatus(items, "failed") \ disk
    /\ UNCHANGED items

\* ... then DELETE by id.
HkDeleteGone ==
    /\ Housekeep("hkDelete", "hkPrune")
    /\ items' = DeleteRows(items, selected)
    /\ selected' = {}

\* prune_failed: any failed row may have outlived the retention window.
HkPrune ==
    /\ Housekeep("hkPrune", "hkTransient")
    /\ \E old \in SUBSET WithStatus(items, "failed") : items' = PruneFailed(items, old)
    /\ UNCHANGED selected

\* reset_failed_transient: SELECT ...
HkSelectTransient ==
    /\ Housekeep("hkTransient", "hkRearm")
    /\ selected' = TransientFailures(items)
    /\ UNCHANGED items

\* ... then UPDATE by id.
HkRearm ==
    /\ Housekeep("hkRearm", "hkRetry")
    /\ items' = RearmSelected(items, selected)
    /\ selected' = {}

HkRetry ==
    /\ Housekeep("hkRetry", "hkWatchdog")
    /\ items' = IF AutoRetry THEN ResetToPending(items, {"failed"}) ELSE items
    /\ UNCHANGED selected

HkWatchdog ==
    /\ Housekeep("hkWatchdog", "claim")
    /\ items' = ResetStuckSending(items, StuckAges)
    /\ UNCHANGED selected

\* Whatever a housekeeping step raises is logged; the pass ends there.
HkRaises ==
    /\ pc \in HousekeepingPC /\ pc' = "claim"
    /\ faults < FaultBound /\ faults' = faults + 1
    /\ selected' = {}
    /\ UNCHANGED <<items, disk, posted, todo, present, dupes, cur, ret, verdict,
                   fails, tries, accepted, history, commands>>

-----------------------------------------------------------------------------
(* Claim, missing files, dedup, route *)

\* The due rows of one album, up to the item cap; the byte cap can make the
\* batch any smaller non-empty part of them.
Batches == {b \in SUBSET Due(items) :
              /\ b # {} /\ Cardinality(b) <= AlbumMax
              /\ \A i, j \in b : Group[i] = Group[j]}

ClaimBatch ==
    /\ pc = "claim"
    /\ \E b \in Batches :
         /\ items' = Claim(items, b)
         /\ todo' = b
         /\ stranded' = stranded \ b
    /\ pc' = "exists"
    /\ UNCHANGED <<disk, posted, present, dupes, cur, ret, verdict, fails, tries,
                   accepted, selected, removed, excused, bounds>>

\* Nothing due, every group deferred, claim contention or a locked database.
ClaimNothing ==
    /\ pc = "claim" /\ pc' = "top"
    /\ UNCHANGED <<items, disk, posted, todo, present, dupes, cur, ret, verdict,
                   fails, tries, accepted, selected, history, bounds>>

CheckExists(i) ==
    /\ pc = "exists" /\ i \in todo
    /\ todo' = todo \ {i}
    /\ IF i \in disk
       THEN present' = present \cup {i} /\ UNCHANGED items
       ELSE items' = MarkFailed(items, i, "permanent", FALSE) /\ UNCHANGED present
    /\ UNCHANGED <<disk, posted, pc, dupes, cur, ret, verdict, fails, tries,
                   accepted, selected, history, bounds>>

\* End of the existence loop: dedup what is present.
AllChecked ==
    /\ pc = "exists" /\ todo = {}
    /\ todo' = present /\ present' = {}
    /\ pc' = IF present = {} THEN "top" ELSE "dedup"
    /\ UNCHANGED <<items, disk, posted, dupes, cur, ret, verdict, fails, tries,
                   accepted, selected, history, bounds>>

DedupEager(i) ==      \* mutant: an in-batch twin counts as delivered
    /\ pc = "dedup" /\ i \in todo
    /\ todo' = todo \ {i}
    /\ IF i \notin Orphaned /\
          (SentTwin(items, i) # {} \/ \E j \in present : SameBytes(i, j))
       THEN /\ items' = MarkDeduplicated(items, i)
            /\ cur' = i /\ ret' = "dedup" /\ pc' = "unlink"
            /\ UNCHANGED <<present, dupes>>
       ELSE /\ present' = present \cup {i}
            /\ UNCHANGED <<items, dupes, cur, ret, pc>>
    /\ UNCHANGED <<disk, posted, verdict, fails, tries, accepted, selected,
                   history, bounds>>

DedupNoHold(i) ==     \* mutant: in-batch twins are not held back
    /\ pc = "dedup" /\ i \in todo
    /\ todo' = todo \ {i}
    /\ IF i \notin Orphaned /\ SentTwin(items, i) # {}
       THEN /\ items' = MarkDeduplicated(items, i)
            /\ cur' = i /\ ret' = "dedup" /\ pc' = "unlink"
            /\ UNCHANGED <<present, dupes>>
       ELSE /\ present' = present \cup {i}
            /\ UNCHANGED <<items, dupes, cur, ret, pc>>
    /\ UNCHANGED <<disk, posted, verdict, fails, tries, accepted, selected,
                   history, bounds>>

DedupAnyTwin(i) ==    \* mutant: held behind any row of the batch
    /\ pc = "dedup" /\ i \in todo
    /\ todo' = todo \ {i}
    /\ \/ /\ i \notin Orphaned /\ SentTwin(items, i) # {}
          /\ items' = MarkDeduplicated(items, i)
          /\ cur' = i /\ ret' = "dedup" /\ pc' = "unlink"
          /\ UNCHANGED <<present, dupes>>
       \/ /\ i \notin Orphaned /\ SentTwin(items, i) = {}
          /\ \E j \in present \cup todo' : SameBytes(i, j)
          /\ dupes' = dupes \cup {i}
          /\ UNCHANGED <<items, present, cur, ret, pc>>
       \/ /\ i \in Orphaned \/ (SentTwin(items, i) = {} /\
                                 ~ \E j \in present \cup todo' : SameBytes(i, j))
          /\ present' = present \cup {i}
          /\ UNCHANGED <<items, dupes, cur, ret, pc>>
    /\ UNCHANGED <<disk, posted, verdict, fails, tries, accepted, selected,
                   history, bounds>>

\* Bytes already delivered: suppress now.  Bytes carried by another row of
\* this batch: hold the row back.  Orphaned rows opt out.
Dedup(i) ==
    /\ pc = "dedup" /\ i \in todo
    /\ todo' = todo \ {i}
    /\ \/ /\ i \notin Orphaned /\ SentTwin(items, i) # {}
          /\ items' = MarkDeduplicated(items, i)
          /\ cur' = i /\ ret' = "dedup" /\ pc' = "unlink"
          /\ UNCHANGED <<present, dupes>>
       \/ /\ i \notin Orphaned /\ SentTwin(items, i) = {}
          /\ \E j \in present : SameBytes(i, j)
          /\ dupes' = dupes \cup {i}
          /\ UNCHANGED <<items, present, cur, ret, pc>>
       \/ /\ i \in Orphaned \/ (SentTwin(items, i) = {} /\
                                 ~ \E j \in present : SameBytes(i, j))
          /\ present' = present \cup {i}
          /\ UNCHANGED <<items, dupes, cur, ret, pc>>
    /\ UNCHANGED <<disk, posted, verdict, fails, tries, accepted, selected,
                   history, bounds>>

\* A row is held back only behind a survivor (HeldBehindSurvivor), so with no
\* survivor there is nothing left to do.
AllDeduped ==
    /\ pc = "dedup" /\ todo = {}
    /\ pc' = IF present = {} THEN "top" ELSE "route"
    /\ UNCHANGED <<items, disk, posted, todo, present, dupes, cur, ret, verdict,
                   fails, tries, accepted, selected, history, bounds>>

Route ==
    /\ pc = "route"
    /\ \/ pc' = "send" /\ UNCHANGED <<verdict, todo>>
       \/ pc' = "settle" /\ verdict' = "noroute" /\ todo' = present   \* RouteError
    /\ UNCHANGED <<items, disk, posted, present, dupes, cur, ret, fails, tries,
                   accepted, selected, history, bounds>>

-----------------------------------------------------------------------------
(* One send: the album, or one item of it in the per-item fallback *)

Flight == IF pc = "send" THEN present ELSE {cur}

\* Telegram takes the message: an album is posted whole.
ServerAccepts ==
    /\ pc \in SendPC /\ accepted = {}
    /\ \A i \in Flight : posted[i] < PostBound
    /\ posted' = [i \in Item |-> IF i \in Flight THEN posted[i] + 1 ELSE posted[i]]
    /\ accepted' = Flight
    /\ UNCHANGED <<items, disk, pc, todo, present, dupes, cur, ret, verdict, fails,
                   tries, selected, history, bounds>>

\* A stall, a lost connection or an RPC error: _send_with_retries tries again,
\* whether or not the attempt had reached the chat.
Resend ==
    /\ pc \in SendPC /\ tries + 1 < SendTries
    /\ tries' = tries + 1
    /\ excused' = excused \cup accepted
    /\ accepted' = {}
    /\ UNCHANGED <<items, disk, posted, pc, todo, present, dupes, cur, ret, verdict,
                   fails, selected, removed, stranded, bounds>>

\* The results a send can return from where it stands: an answer needs the
\* server to have given it; giving up is always possible.
Outcomes == IF accepted # {} THEN {"ok", "failed"}
            ELSE {"flood", "mediaEmpty", "oversize", "failed"}

\* Class of the error text a failed send leaves (is_transient_failure).
SendErrors(v) == IF v = "oversize" THEN {"permanent"} ELSE {"transient", "permanent"}

\* The arm of drain_forever the result selects, and the breaker's count.
SendReturns ==
    /\ pc = "send"
    /\ \E v \in Outcomes :
         /\ verdict' = v
         /\ pc' = IF v = "mediaEmpty" THEN "fallback" ELSE "settle"
         /\ fails' = CASE v = "ok" -> 0
                       [] v \in {"failed", "oversize"} -> fails + 1
                       [] OTHER -> fails
         /\ accepted' = IF v = "ok" THEN accepted ELSE {}
         /\ excused' = IF v = "ok" THEN excused ELSE excused \cup accepted
    /\ todo' = present /\ tries' = 0
    /\ UNCHANGED <<items, disk, posted, present, dupes, cur, ret, selected, removed,
                   stranded, bounds>>

\* The row's write for the batch verdict.
Settle(i) ==
    /\ pc = "settle" /\ i \in todo
    /\ \/ verdict = "ok" /\ items' = MarkSent(items, i)
       \/ verdict = "flood" /\ items' = Requeue(items, i)
       \/ /\ verdict \in {"failed", "oversize"}
          /\ \E e \in SendErrors(verdict) : items' = MarkFailed(items, i, e, TRUE)
       \/ verdict = "noroute" /\ items' = MarkFailed(items, i, "permanent", FALSE)
    /\ todo' = todo \ {i}
    /\ accepted' = accepted \ {i}
    /\ UNCHANGED <<disk, posted, pc, present, dupes, cur, ret, verdict, fails,
                   tries, selected, history, bounds>>

AllSettledForgetsDupes ==      \* mutant: held-back rows are not released
    /\ pc = "settle" /\ todo = {}
    /\ IF verdict = "ok" THEN pc' = "release" /\ todo' = dupes /\ UNCHANGED <<present, dupes>>
       ELSE pc' = "top" /\ todo' = {} /\ present' = {} /\ dupes' = {}
    /\ UNCHANGED <<items, disk, posted, cur, ret, verdict, fails,
                   tries, accepted, selected, history, bounds>>

AllSettled ==
    /\ pc = "settle" /\ todo = {}
    /\ pc' = "release" /\ todo' = dupes
    /\ UNCHANGED <<items, disk, posted, present, dupes, cur, ret, verdict, fails,
                   tries, accepted, selected, history, bounds>>

ReleaseUnsent(i) ==     \* mutant: suppressed although the twin was not sent
    /\ pc = "release" /\ i \in todo
    /\ todo' = todo \ {i}
    /\ items' = MarkDeduplicated(items, i)
    /\ cur' = i /\ ret' = "release" /\ pc' = "unlink"
    /\ UNCHANGED <<disk, posted, present, dupes, verdict, fails, tries, accepted,
                   selected, history, bounds>>

\* A held-back duplicate: suppressed once its twin is delivered, failed with
\* the batch when there is no route, otherwise put back unharmed.
Release(i) ==
    /\ pc = "release" /\ i \in todo
    /\ todo' = todo \ {i}
    /\ \/ /\ verdict = "ok"
          /\ items' = MarkDeduplicated(items, i)
          /\ cur' = i /\ ret' = "release" /\ pc' = "unlink"
       \/ /\ verdict = "noroute"
          /\ items' = MarkFailed(items, i, "permanent", FALSE)
          /\ UNCHANGED <<cur, ret, pc>>
       \/ /\ verdict \in {"flood", "failed", "oversize", "mediaEmpty"}
          /\ items' = Requeue(items, i)
          /\ UNCHANGED <<cur, ret, pc>>
    /\ UNCHANGED <<disk, posted, present, dupes, verdict, fails, tries, accepted,
                   selected, history, bounds>>

AllReleased ==
    /\ pc = "release" /\ todo = {}
    /\ \/ /\ verdict = "ok"
          /\ pc' = "clean" /\ todo' = present
          /\ UNCHANGED <<present, dupes, verdict>>
       \/ /\ verdict # "ok"
          /\ pc' = "top" /\ todo' = {} /\ present' = {} /\ dupes' = {}
          /\ verdict' = "none"
    /\ UNCHANGED <<items, disk, posted, cur, ret, fails, tries, accepted, selected,
                   history, bounds>>

-----------------------------------------------------------------------------
(* Per-item fallback after Telegram rejected the media: recover_media_empty *)

FallbackPick(i) ==
    /\ pc = "fallback" /\ i \in todo
    /\ todo' = todo \ {i} /\ cur' = i /\ pc' = "fbSend"
    /\ UNCHANGED <<items, disk, posted, present, dupes, ret, verdict, fails, tries,
                   accepted, selected, history, bounds>>

FallbackReturns ==
    /\ pc = "fbSend"
    /\ \E v \in Outcomes :
         /\ verdict' = v
         /\ accepted' = IF v = "ok" THEN accepted ELSE {}
         /\ excused' = IF v = "ok" THEN excused ELSE excused \cup accepted
    /\ pc' = "fbSettle" /\ tries' = 0
    /\ UNCHANGED <<items, disk, posted, todo, present, dupes, cur, ret, fails,
                   selected, removed, stranded, bounds>>

\* No backoff here, and the breaker does not count these failures.
FallbackSettle ==
    /\ pc = "fbSettle"
    /\ \/ /\ verdict = "ok"
          /\ items' = MarkSent(items, cur)
          /\ ret' = "fallback" /\ pc' = "clean" /\ UNCHANGED <<cur, todo>>
       \/ /\ verdict = "flood" /\ items' = Requeue(items, cur)
          /\ pc' = "fallback" /\ cur' = NoItem /\ UNCHANGED <<ret, todo>>
       \/ /\ verdict = "mediaEmpty" /\ items' = Quarantine(items, cur)
          /\ pc' = "fallback" /\ cur' = NoItem /\ UNCHANGED <<ret, todo>>
       \/ /\ verdict \in {"failed", "oversize"}
          /\ \E e \in SendErrors(verdict) : items' = MarkFailed(items, cur, e, FALSE)
          /\ pc' = "fallback" /\ cur' = NoItem /\ UNCHANGED <<ret, todo>>
    /\ verdict' = "mediaEmpty" /\ accepted' = {}
    /\ UNCHANGED <<disk, posted, present, dupes, fails, tries, selected, history,
                   bounds>>

AllFallenBack ==
    /\ pc = "fallback" /\ todo = {}
    /\ pc' = "release" /\ todo' = dupes
    /\ UNCHANGED <<items, disk, posted, present, dupes, cur, ret, verdict, fails,
                   tries, accepted, selected, history, bounds>>

-----------------------------------------------------------------------------
(* Cleanup: maybe_delete and the DeletionGuard *)

ShouldDelete(i) == i \in Orphaned \cup DeleteAfter

\* maybe_delete re-reads the row: only a 'sent' row loses its file.
GateOpen(i) == items[i].status = "sent" /\ ShouldDelete(i)

\* The row the gate is asked about: the loop's, or the fallback's `cur`.
CleanBatchRow(i) ==
    /\ pc = "clean" /\ cur = NoItem /\ i \in todo
    /\ todo' = todo \ {i}
    /\ IF GateOpen(i)
       THEN cur' = i /\ ret' = "clean" /\ pc' = "unlink"
       ELSE UNCHANGED <<cur, ret, pc>>
    /\ UNCHANGED <<items, disk, posted, present, dupes, verdict, fails, tries,
                   accepted, selected, history, bounds>>

CleanFallbackRow ==
    /\ pc = "clean" /\ cur # NoItem
    /\ IF GateOpen(cur)
       THEN pc' = "unlink" /\ UNCHANGED <<cur, ret>>
       ELSE pc' = "fallback" /\ cur' = NoItem /\ ret' = "none"
    /\ UNCHANGED <<items, disk, posted, todo, present, dupes, verdict, fails, tries,
                   accepted, selected, history, bounds>>

AllCleaned ==
    /\ pc = "clean" /\ cur = NoItem /\ todo = {}
    /\ pc' = "top" /\ present' = {} /\ dupes' = {} /\ verdict' = "none"
    /\ UNCHANGED <<items, disk, posted, todo, cur, ret, fails, tries, accepted,
                   selected, history, bounds>>

Resume == pc' = ret /\ cur' = NoItem /\ ret' = "none"

\* guard.delete: the safebrake keeps the file; an unlink error is swallowed.
\* maybe_delete goes on to the row of an orphaned file.
Unlink ==
    /\ pc = "unlink"
    /\ \/ cur \in Protected /\ Resume /\ UNCHANGED <<disk, removed>>
       \/ /\ cur \notin Protected
          /\ \/ disk' = disk \ {cur} /\ removed' = removed \cup {cur}
             \/ UNCHANGED <<disk, removed>>
          /\ IF cur \in Orphaned
             THEN pc' = "dropRow" /\ UNCHANGED <<cur, ret>>
             ELSE Resume
    /\ UNCHANGED <<items, posted, todo, present, dupes, verdict, fails, tries,
                   accepted, selected, excused, stranded, bounds>>

\* An orphaned row leaves no trace, once its file is really gone.
DropRow ==
    /\ pc = "dropRow" /\ Resume
    /\ items' = IF cur \in disk THEN items ELSE DeleteRows(items, {cur})
    /\ UNCHANGED <<disk, posted, todo, present, dupes, verdict, fails, tries,
                   accepted, selected, history, bounds>>

-----------------------------------------------------------------------------
(* Everyone else *)

Others == UNCHANGED <<disk, posted, local, removed, stranded, faults>>

\* A producer's sweep finds a file without a row (the races that let two rows
\* carry the same bytes are Ingest's).
Enqueue(i) ==
    /\ i \in disk /\ items[i].status = "absent"
    /\ items' = AddItem(items, i)
    /\ Others /\ UNCHANGED <<excused, commands>>

Command(S) ==
    /\ commands < CommandBound /\ commands' = commands + 1
    /\ excused' = excused \cup S
    /\ Others

\* dispatcher queue retry
QueueRetry(i) == Command({i}) /\ items' = Retry(items, i)

\* dispatcher queue cancel: the outcome of a row already in flight is lost.
QueueCancel(i) ==
    /\ Command({i} \cap WithStatus(items, "sending"))
    /\ items' = Cancel(items, i)

\* archiver reset failed / reset uploads
ResetFailed == Command({}) /\ items' = ResetToPending(items, {"failed"})
ResetUploads ==
    /\ Command(WithStatus(items, "sent"))
    /\ items' = ResetToPending(items, {"sent", "failed"})

\* The user moves a file away, or back.
UserMoves(i) ==
    /\ commands < CommandBound /\ commands' = commands + 1
    /\ disk' = IF i \in disk THEN disk \ {i} ELSE disk \cup {i}
    /\ UNCHANGED <<items, posted, local, history, faults>>

\* The clock: claims age, backoffs run out.
SecondPasses ==
    /\ Claimed(items, {"now"}) # {}
    /\ items' = Update(items, Claimed(items, {"now"}),
                       LAMBDA j : [items[j] EXCEPT !.claim = "fresh"])
    /\ Others /\ UNCHANGED <<excused, commands>>

ClaimExpires(i) ==
    /\ i \in Claimed(items, {"fresh"})
    /\ items' = [items EXCEPT ![i].claim = "stale"]
    /\ Others /\ UNCHANGED <<excused, commands>>

BackoffExpires(i) ==
    /\ items[i].backoff
    /\ items' = [items EXCEPT ![i].backoff = FALSE]
    /\ Others /\ UNCHANGED <<excused, commands>>

-----------------------------------------------------------------------------
\* The steps of drain_forever that need no fault.
Drain ==
    \/ BeginHousekeeping \/ SkipHousekeeping \/ ClaimBatch \/ ClaimNothing
    \/ HkSelectGone \/ HkDeleteGone \/ HkPrune \/ HkSelectTransient
    \/ HkRearm \/ HkRetry \/ HkWatchdog
    \/ AllChecked \/ AllDeduped \/ Route \/ ServerAccepts \/ Resend \/ SendReturns
    \/ AllSettled \/ AllReleased \/ FallbackReturns \/ FallbackSettle
    \/ AllFallenBack \/ CleanFallbackRow \/ AllCleaned \/ Unlink \/ DropRow
    \/ \E i \in Item : \/ CheckExists(i) \/ Dedup(i) \/ Settle(i) \/ Release(i)
                       \/ FallbackPick(i) \/ CleanBatchRow(i)

Faults == Crash \/ AuthLost \/ GraceExpired \/ StopAtTop \/ HkRaises

Clock == SecondPasses \/ \E i \in Item : ClaimExpires(i) \/ BackoffExpires(i)

Operators ==
    \/ ResetFailed \/ ResetUploads
    \/ \E i \in Item : QueueRetry(i) \/ QueueCancel(i) \/ UserMoves(i)

Next == \/ Start \/ Drain \/ Faults \/ Clock \/ Operators
        \/ \E i \in Item : Enqueue(i)

Spec == Init /\ [][Next]_vars

\* The drain keeps running (every send ends: the stall watchdog bounds it), the
\* service manager restarts it, time passes, and the housekeeping timer comes
\* due again and again.
FairSpec ==
    /\ Spec
    /\ WF_vars(Drain) /\ WF_vars(Start) /\ WF_vars(SecondPasses)
    /\ \A i \in Item : WF_vars(ClaimExpires(i))
    /\ SF_vars(BeginHousekeeping)

-----------------------------------------------------------------------------
(* Properties *)

\* Safety contract of dispatcher.delete and the dedup ordering of the drain:
\* whenever the dispatcher has deleted a file - after its upload, or as a
\* suppressed duplicate - those bytes are in the chat.
RemovedOnlyAfterDelivery == \A i \in removed : Delivered(i)

\* A row says 'sent' only when its bytes are in the chat, whatever the
\* operator, the watchdog or a restart did to the row meanwhile.
SentOnlyAfterDelivery == \A i \in WithStatus(items, "sent") : Delivered(i)

\* "At the top of an iteration this process has nothing in flight" (the reason
\* given for running the watchdog there): outside a batch, a row still
\* 'sending' was left by an earlier process.
NoLeakedClaim == pc \in IdlePC => WithStatus(items, "sending") \subseteq stranded

\* A row is set aside as an in-batch duplicate only behind a row of the batch
\* that is being sent; the drain's "only in-batch dupes remained" arm is dead.
HeldBehindSurvivor ==
    pc \in BatchPC => \A i \in dupes : \E j \in present : SameBytes(i, j)

\* Global dedup: the same bytes are not sent twice - neither one row twice nor
\* two rows carrying the same bytes - except for a cause that is listed: the
\* process died or gave up between Telegram taking the message and the row
\* saying so, or the operator re-queued or cancelled a row.  (Orphaned drops
\* opt out by design.)
AtMostOnceUnlessExcused ==
    \A i, j \in Item \ Orphaned :
        /\ posted[i] > 0 /\ posted[j] > 0
        /\ IF i = j THEN posted[i] > 1 ELSE SameBytes(i, j)
        => i \in excused \/ j \in excused

\* A pending row always has budget left: attempts are refunded and reset
\* consistently, so no row is claimed beyond MAX_RETRIES.
BudgetLeftWhenPending ==
    \A i \in WithStatus(items, "pending") : items[i].attempts < MaxRetries

\* A manual abort is durable: no bulk reset, producer or watchdog resurrects a
\* cancelled row; only `queue retry` does - but for the one write that acts on
\* ids read earlier (see CancelIsDurable).
CancelSurvivesSingleWrites ==
    [][\A i \in Cancelled(items) :
         \/ i \in Cancelled(items') \/ items'[i].status = "absent"
         \/ QueueRetry(i) \/ HkRearm]_vars

\* Self-healing: whatever happened to the process that claimed it, no row stays
\* 'sending' for ever.
ClaimsAreResolved ==
    \A i \in Item : items[i].status = "sending" ~> items[i].status # "sending"

\* The drain, the operators, the clock and the faults together implement the
\* life of the queue that Delivery states.
Promise == INSTANCE Delivery WITH
    Bytes <- [i \in Item |-> IF Hash[i] = NoHash THEN i ELSE Hash[i]],
    status <- [i \in Item |-> items[i].status],
    chat <- {IF Hash[i] = NoHash THEN i ELSE Hash[i] :
                i \in {j \in Item : posted[j] > 0}}

KeepsPromise == Promise!Spec

-----------------------------------------------------------------------------
(* What the code's comments say, and the model refutes *)

\* drain.py: "The only duplicate window is a crash between send-success and
\* mark_sent".
DuplicateNeedsCrash ==
    faults = 0 /\ commands = 0 => \A i \in Item \ Orphaned : posted[i] <= 1

\* store.py, CANCELLED_MARKER: "a deliberate abort ... must NOT be resurrected
\* by the bulk reset paths".
CancelIsDurable ==
    [][\A i \in Cancelled(items) :
         \/ i \in Cancelled(items') \/ items'[i].status = "absent"
         \/ QueueRetry(i)]_vars

\* cli.py, SessionUnauthorized: the rows in flight are reverted "to pending
\* immediately".
AuthLossRevertsAll == [][AuthLost => WithStatus(items', "sending") = {}]_vars
=============================================================================
