----------------------------- MODULE ItemTable -----------------------------
(***************************************************************************)
(* The `items` table every process of the suite shares, and the writes     *)
(* core.store.ItemStore makes to it.  The table is a function from items   *)
(* to rows; each operator below is ONE transaction of ItemStore, from the  *)
(* table it reads to the table it commits.                                 *)
(*                                                                         *)
(* An item stands for a file path: file_path is UNIQUE, so a path has at   *)
(* most one row, and a path without a row has status "absent".             *)
(*                                                                         *)
(* Columns are kept as far as some statement of the code reads them:       *)
(*   claim    age of claimed_at while the row is 'sending' ("now": within  *)
(*            the current second, the resolution of now_iso; "stale":      *)
(*            older than stuck_claim_min).  Nothing reads claimed_at of a  *)
(*            row in another status, where the field is "none".            *)
(*   backoff  retry_after is in the future.                                *)
(*   err      class of last_error while the row is 'failed' (the only      *)
(*            status in which the code reads last_error).                  *)
(***************************************************************************)
EXTENDS Naturals, FiniteSets

CONSTANTS
    Item,        \* file paths that may have a row
    Content,     \* byte contents, i.e. values of content_hash
    NoHash,      \* the NULL content_hash
    Hash,        \* Hash[i]: content_hash stamped on the row of i
    Orphaned,    \* items dropped in a chat_id folder (source = 'orphaned')
    MaxRetries   \* MAX_RETRIES, the retry budget

ASSUME HashAssumption == Hash \in [Item -> Content \cup {NoHash}]
ASSUME NoHashAssumption == NoHash \notin Content
ASSUME OrphanedAssumption == Orphaned \subseteq Item
ASSUME MaxRetriesAssumption == MaxRetries \in Nat \ {0}   \* min_value=1

-----------------------------------------------------------------------------
Status == {"absent", "pending", "sending", "sent", "failed"}
ClaimAge == {"none", "now", "fresh", "stale"}
ErrorClass == {"none", "transient", "permanent", "cancelled"}

Row == [status : Status, attempts : Nat, claim : ClaimAge,
        backoff : BOOLEAN, err : ErrorClass]

\* The columns that mean something only in one status are empty in the others.
RowConsistent(r) ==
    /\ r.claim # "none" <=> r.status = "sending"
    /\ r.err # "none" <=> r.status = "failed"

NoRow == [status |-> "absent", attempts |-> 0, claim |-> "none",
          backoff |-> FALSE, err |-> "none"]

WithStatus(t, st) == {i \in Item : t[i].status = st}

\* Rows whose claim is one of the given ages.
Claimed(t, ages) == {i \in WithStatus(t, "sending") : t[i].claim \in ages}

Cancelled(t) == {i \in WithStatus(t, "failed") : t[i].err = "cancelled"}

\* Pending rows a claim may anchor on or gather: no retry_after in the future.
Due(t) == {i \in WithStatus(t, "pending") : ~t[i].backoff}

\* is_transient_failure(last_error) of a failed row.
TransientFailures(t) == {i \in WithStatus(t, "failed") : t[i].err = "transient"}

\* Write r(i) to every row of S.
Update(t, S, r(_)) == [i \in Item |-> IF i \in S THEN r(i) ELSE t[i]]

Refunded(n) == IF n = 0 THEN 0 ELSE n - 1      \* MAX(0, attempts-1)

PendingRow(attempts, backoff) ==
    [status |-> "pending", attempts |-> attempts, claim |-> "none",
     backoff |-> backoff, err |-> "none"]

-----------------------------------------------------------------------------
(* Producers *)

\* INSERT OR IGNORE.  UNIQUE(file_path) leaves an existing row alone.
AddItem(t, i) ==
    Update(t, {i} \cap WithStatus(t, "absent"), LAMBDA j : PendingRow(0, FALSE))

-----------------------------------------------------------------------------
(* The dispatcher's lifecycle writes.  Each is guarded on 'sending'        *)
(* (_guarded_set): a row that left 'sending' in the meantime is untouched. *)

InFlightUnguarded(t, i) == {i}     \* mutant: the write is not guarded on 'sending'

InFlight(t, i) == {i} \cap WithStatus(t, "sending")

Claim(t, batch) ==
    Update(t, batch, LAMBDA j :
        [t[j] EXCEPT !.status = "sending", !.claim = "now",
                     !.attempts = @ + 1, !.err = "none"])

MarkSent(t, i) ==
    Update(t, InFlight(t, i), LAMBDA j :
        [t[j] EXCEPT !.status = "sent", !.claim = "none", !.err = "none"])

\* The row is recorded as delivered by its twin: same columns as mark_sent,
\* up to the note in last_error and the NULL tg_message_id.
MarkDeduplicated(t, i) ==
    Update(t, InFlight(t, i), LAMBDA j :
        [t[j] EXCEPT !.status = "sent", !.claim = "none", !.err = "none"])

MarkFailedOffByOne(t, i, err, delay) ==    \* mutant: budget compared with >
    Update(t, InFlight(t, i), LAMBDA j :
        IF t[j].attempts > MaxRetries
        THEN [t[j] EXCEPT !.status = "failed", !.claim = "none",
                          !.backoff = FALSE, !.err = err]
        ELSE PendingRow(t[j].attempts, delay))

\* attempts was counted by the claim; the budget is spent at MaxRetries.
\* retry_after is stamped only on the way back to 'pending'.
MarkFailed(t, i, err, delay) ==
    Update(t, InFlight(t, i), LAMBDA j :
        IF t[j].attempts >= MaxRetries
        THEN [t[j] EXCEPT !.status = "failed", !.claim = "none",
                          !.backoff = FALSE, !.err = err]
        ELSE PendingRow(t[j].attempts, delay))

Quarantine(t, i) ==
    Update(t, InFlight(t, i), LAMBDA j :
        [t[j] EXCEPT !.status = "failed", !.claim = "none", !.err = "permanent"])

Requeue(t, i) ==
    Update(t, InFlight(t, i), LAMBDA j :
        PendingRow(Refunded(t[j].attempts), t[j].backoff))

ResetStuckSendingNever(t, ages) == t       \* mutant: the watchdog finds nothing

\* claimed_at < cutoff; `ages` are the claim ages older than the cutoff.
ResetStuckSending(t, ages) ==
    Update(t, Claimed(t, ages), LAMBDA j :
        PendingRow(Refunded(t[j].attempts), t[j].backoff))

StuckAges == {"stale"}            \* older_than_minutes = stuck_claim_min
AllPastAges == {"fresh", "stale"} \* older_than_minutes = 0: strictly before now

\* DELETE FROM items WHERE id IN ids (delete, delete_failed_missing)
DeleteRows(t, ids) == Update(t, ids, LAMBDA j : NoRow)

\* Retention GC over the failed rows that are past the window.
PruneFailed(t, old) ==
    Update(t, old \cap WithStatus(t, "failed"), LAMBDA j : NoRow)

\* The UPDATE of reset_failed_transient: ids come from an earlier SELECT and
\* status = 'failed' is re-checked.  retry_after is not written.
RearmSelected(t, ids) ==
    Update(t, ids \cap WithStatus(t, "failed"), LAMBDA j :
        PendingRow(0, t[j].backoff))

\* _reset_to_pending: skips rows that carry CANCELLED_MARKER.
ResetToPending(t, from) ==
    Update(t, {i \in Item : t[i].status \in from} \ Cancelled(t),
           LAMBDA j : PendingRow(0, t[j].backoff))

\* A different row with the same bytes that was delivered; orphaned rows
\* and NULL hashes never match.
SentTwin(t, i) ==
    {j \in WithStatus(t, "sent") \ (Orphaned \cup {i}) :
        /\ Hash[i] # NoHash
        /\ Hash[j] = Hash[i]}

-----------------------------------------------------------------------------
(* Operator commands: dispatcher queue retry / queue cancel *)

Retry(t, i) ==
    Update(t, {i} \ WithStatus(t, "absent"), LAMBDA j : PendingRow(0, FALSE))

CancelKeepsClaim(t, i) ==       \* mutant: claimed_at is not cleared
    Update(t, {i} \cap {j \in Item : t[j].status \in {"pending", "sending"}},
           LAMBDA j : [t[j] EXCEPT !.status = "failed", !.err = "cancelled"])

Cancel(t, i) ==
    Update(t, {i} \cap {j \in Item : t[j].status \in {"pending", "sending"}},
           LAMBDA j : [t[j] EXCEPT !.status = "failed", !.claim = "none",
                                   !.err = "cancelled"])
=============================================================================
