-------------------------- MODULE DispatcherProofs --------------------------
(***************************************************************************)
(* Theorems about the items table and the dispatcher, for every set of     *)
(* items, every hash and album assignment and every value of the bounds.   *)
(*                                                                         *)
(* First what each transaction of ItemStore does to the table, as lemmas:  *)
(* the rows stay well formed and within the retry budget, and the sets of  *)
(* rows that say 'sent' and 'sending' change only as stated.  Nothing      *)
(* after them opens a row again.                                           *)
(*                                                                         *)
(* The safety properties are not inductive: what makes them true is which  *)
(* loop of drain_forever is running and what it knows about its batch.     *)
(*   Shape       the loop variables of each program point                  *)
(*   Evidence    why the batch may be recorded, suppressed and deleted     *)
(*   Accounted   which rows this process still owes a verdict              *)
(* The last part gives the invariant to the dispatcher's users: the same   *)
(* bytes are not sent twice without a listed cause, and the dispatcher     *)
(* implements Delivery.                                                    *)
(***************************************************************************)
EXTENDS Dispatcher, TLAPS

-----------------------------------------------------------------------------
(* The rows of the table *)

\* A pending row can be claimed (its attempt counted) within the budget.
WithinBudget(r) == /\ r.status = "pending" => r.attempts < MaxRetries
                   /\ r.status = "sending" => r.attempts <= MaxRetries

GoodRow(r) == r \in Row /\ RowConsistent(r) /\ WithinBudget(r)

GoodTable(t) == t = [i \in Item |-> t[i]] /\ \A i \in Item : GoodRow(t[i])

Sent(t) == WithStatus(t, "sent")
Sending(t) == WithStatus(t, "sending")

USE DEF Status, ClaimAge, ErrorClass

-----------------------------------------------------------------------------
(* Rows *)

LEMMA GoodNoRow == GoodRow(NoRow)
BY DEF GoodRow, Row, RowConsistent, WithinBudget, NoRow

LEMMA GoodPendingRow ==
    ASSUME NEW n \in Nat, n < MaxRetries, NEW b \in BOOLEAN
    PROVE  GoodRow(PendingRow(n, b))
BY DEF GoodRow, Row, RowConsistent, WithinBudget, PendingRow

LEMMA GoodFreshRow == GoodRow(PendingRow(0, FALSE))
<1>1. 0 \in Nat /\ 0 < MaxRetries /\ FALSE \in BOOLEAN
  BY MaxRetriesAssumption
<1> QED BY ONLY <1>1, GoodPendingRow

\* A refunded attempt leaves a row that was in flight within the budget.
LEMMA GoodRefund ==
    ASSUME NEW r, GoodRow(r), r.status = "sending"
    PROVE  GoodRow(PendingRow(Refunded(r.attempts), r.backoff))
<1>1. Refunded(r.attempts) \in Nat /\ Refunded(r.attempts) < MaxRetries
  BY MaxRetriesAssumption DEF Refunded, GoodRow, Row, WithinBudget
<1>2. r.backoff \in BOOLEAN
  BY DEF GoodRow, Row
<1> QED BY <1>1, <1>2, GoodPendingRow

\* A re-armed row starts its budget afresh and keeps its retry_after.
LEMMA GoodRearm ==
    ASSUME NEW r, GoodRow(r)
    PROVE  GoodRow(PendingRow(0, r.backoff))
<1>1. r.backoff \in BOOLEAN
  BY DEF GoodRow, Row
<1>2. 0 \in Nat /\ 0 < MaxRetries
  BY MaxRetriesAssumption
<1> QED BY <1>1, <1>2, GoodPendingRow

LEMMA GoodClaim ==
    ASSUME NEW r, GoodRow(r), r.status = "pending",
           NEW s, s = [r EXCEPT !.status = "sending", !.claim = "now",
                                !.attempts = @ + 1, !.err = "none"]
    PROVE  GoodRow(s)
<1>1. s.attempts = r.attempts + 1 /\ r.attempts \in Nat /\ r.attempts < MaxRetries
  BY DEF GoodRow, Row, WithinBudget
<1>2. s.status = "sending" /\ s.claim = "now" /\ s.err = "none"
  BY DEF GoodRow, Row
<1>3. s.attempts \in Nat
  BY <1>1
<1>4. s \in Row
  BY <1>3 DEF GoodRow, Row
<1> QED BY <1>1, <1>2, <1>4, MaxRetriesAssumption DEF GoodRow, RowConsistent, WithinBudget

LEMMA GoodSent ==
    ASSUME NEW r, GoodRow(r),
           NEW s, s = [r EXCEPT !.status = "sent", !.claim = "none", !.err = "none"]
    PROVE  GoodRow(s)
BY DEF GoodRow, Row, RowConsistent, WithinBudget

LEMMA GoodFailed ==
    ASSUME NEW r, GoodRow(r), NEW e \in ErrorClass \ {"none"},
           NEW s, \/ s = [r EXCEPT !.status = "failed", !.claim = "none", !.err = e]
                  \/ s = [r EXCEPT !.status = "failed", !.claim = "none",
                                   !.backoff = FALSE, !.err = e]
    PROVE  GoodRow(s)
BY DEF GoodRow, Row, RowConsistent, WithinBudget

\* Time passes: a claim ages, a backoff runs out.
LEMMA GoodAged ==
    ASSUME NEW r, GoodRow(r),
           NEW s, \/ r.status = "sending" /\ s = [r EXCEPT !.claim = "fresh"]
                  \/ r.status = "sending" /\ s = [r EXCEPT !.claim = "stale"]
                  \/ s = [r EXCEPT !.backoff = FALSE]
    PROVE  GoodRow(s)
BY DEF GoodRow, Row, RowConsistent, WithinBudget

-----------------------------------------------------------------------------
(* Update *)

LEMMA GoodPointwise ==
    ASSUME NEW t, GoodTable(t), NEW u, u = [i \in Item |-> u[i]],
           \A i \in Item : u[i] = t[i] \/ GoodRow(u[i])
    PROVE  GoodTable(u)
BY DEF GoodTable

\* Each write leaves a well-formed table within the budget.
LEMMA GoodAddItem ==
    ASSUME NEW t, GoodTable(t), NEW i PROVE GoodTable(AddItem(t, i))
<1>1. \A j \in Item : AddItem(t, i)[j] = t[j] \/ AddItem(t, i)[j] = PendingRow(0, FALSE)
  BY DEF AddItem, Update
<1>2. AddItem(t, i) = [j \in Item |-> AddItem(t, i)[j]]
  BY DEF AddItem, Update
<1> QED BY <1>1, <1>2, GoodPointwise, GoodFreshRow

LEMMA GoodClaimBatch ==
    ASSUME NEW t, GoodTable(t), NEW b \in SUBSET Due(t) PROVE GoodTable(Claim(t, b))
<1>1. ASSUME NEW i \in Item PROVE Claim(t, b)[i] = t[i] \/ GoodRow(Claim(t, b)[i])
  <2>1. CASE i \in b
    <3>1. t[i].status = "pending" /\ GoodRow(t[i])
      BY <2>1 DEF Due, WithStatus, GoodTable
    <3>2. Claim(t, b)[i] = [t[i] EXCEPT !.status = "sending", !.claim = "now",
                                        !.attempts = t[i].attempts + 1, !.err = "none"]
      BY <2>1 DEF Claim, Update
    <3> QED BY <3>1, <3>2, GoodClaim
  <2>2. CASE i \notin b
    BY <2>2 DEF Claim, Update
  <2> QED BY <2>1, <2>2
<1>2. Claim(t, b) = [i \in Item |-> Claim(t, b)[i]]
  BY DEF Claim, Update
<1> QED BY <1>1, <1>2, GoodPointwise

LEMMA GoodMarkSent ==
    ASSUME NEW t, GoodTable(t), NEW i
    PROVE  GoodTable(MarkSent(t, i)) /\ GoodTable(MarkDeduplicated(t, i))
<1>0. MarkDeduplicated(t, i) = MarkSent(t, i)
  BY DEF MarkDeduplicated, MarkSent
<1>1. ASSUME NEW j \in Item PROVE MarkSent(t, i)[j] = t[j] \/ GoodRow(MarkSent(t, i)[j])
  <2>1. \/ MarkSent(t, i)[j] = t[j]
        \/ MarkSent(t, i)[j] = [t[j] EXCEPT !.status = "sent", !.claim = "none", !.err = "none"]
    BY DEF MarkSent, Update
  <2> QED BY <2>1, GoodSent DEF GoodTable
<1>2. MarkSent(t, i) = [j \in Item |-> MarkSent(t, i)[j]]
  BY DEF MarkSent, Update
<1> QED BY <1>0, <1>1, <1>2, GoodPointwise

LEMMA GoodMarkFailed ==
    ASSUME NEW t, GoodTable(t), NEW i, NEW e \in ErrorClass \ {"none"}, NEW d \in BOOLEAN
    PROVE  GoodTable(MarkFailed(t, i, e, d))
<1> DEFINE u == MarkFailed(t, i, e, d)
<1>1. ASSUME NEW j \in Item PROVE u[j] = t[j] \/ GoodRow(u[j])
  <2>0. GoodRow(t[j])
    BY DEF GoodTable
  <2>1. CASE j \in InFlight(t, i) /\ t[j].attempts >= MaxRetries
    <3>1. u[j] = [t[j] EXCEPT !.status = "failed", !.claim = "none", !.backoff = FALSE, !.err = e]
      BY <2>1 DEF MarkFailed, Update
    <3> QED BY <2>0, <3>1, GoodFailed
  <2>2. CASE j \in InFlight(t, i) /\ ~(t[j].attempts >= MaxRetries)
    <3>1. u[j] = PendingRow(t[j].attempts, d)
      BY <2>2 DEF MarkFailed, Update
    <3>2. t[j].attempts \in Nat /\ t[j].attempts < MaxRetries
      BY <2>0, <2>2, MaxRetriesAssumption DEF GoodRow, Row
    <3> QED BY <3>1, <3>2, GoodPendingRow
  <2>3. CASE j \notin InFlight(t, i)
    BY <2>3 DEF MarkFailed, Update
  <2> QED BY <2>1, <2>2, <2>3
<1>2. u = [j \in Item |-> u[j]]
  BY DEF MarkFailed, Update
<1> QED BY <1>1, <1>2, GoodPointwise

LEMMA GoodQuarantine ==
    ASSUME NEW t, GoodTable(t), NEW i PROVE GoodTable(Quarantine(t, i))
<1> DEFINE u == Quarantine(t, i)
<1>1. ASSUME NEW j \in Item PROVE u[j] = t[j] \/ GoodRow(u[j])
  <2>1. \/ u[j] = t[j]
        \/ u[j] = [t[j] EXCEPT !.status = "failed", !.claim = "none", !.err = "permanent"]
    BY DEF Quarantine, Update
  <2> QED BY <2>1, GoodFailed DEF GoodTable
<1>2. u = [j \in Item |-> u[j]]
  BY DEF Quarantine, Update
<1> QED BY <1>1, <1>2, GoodPointwise

LEMMA GoodCancel ==
    ASSUME NEW t, GoodTable(t), NEW i PROVE GoodTable(Cancel(t, i))
<1> DEFINE u == Cancel(t, i)
<1>1. ASSUME NEW j \in Item PROVE u[j] = t[j] \/ GoodRow(u[j])
  <2>1. \/ u[j] = t[j]
        \/ u[j] = [t[j] EXCEPT !.status = "failed", !.claim = "none", !.err = "cancelled"]
    BY DEF Cancel, Update
  <2> QED BY <2>1, GoodFailed DEF GoodTable
<1>2. u = [j \in Item |-> u[j]]
  BY DEF Cancel, Update
<1> QED BY <1>1, <1>2, GoodPointwise

LEMMA GoodRequeue ==
    ASSUME NEW t, GoodTable(t), NEW i PROVE GoodTable(Requeue(t, i))
<1> DEFINE u == Requeue(t, i)
<1>1. ASSUME NEW j \in Item PROVE u[j] = t[j] \/ GoodRow(u[j])
  <2>1. \/ u[j] = t[j]
        \/ t[j].status = "sending" /\ u[j] = PendingRow(Refunded(t[j].attempts), t[j].backoff)
    BY DEF Requeue, Update, InFlight, WithStatus
  <2> QED BY <2>1, GoodRefund DEF GoodTable
<1>2. u = [j \in Item |-> u[j]]
  BY DEF Requeue, Update
<1> QED BY <1>1, <1>2, GoodPointwise

LEMMA GoodResetStuckSending ==
    ASSUME NEW t, GoodTable(t), NEW ages PROVE GoodTable(ResetStuckSending(t, ages))
<1> DEFINE u == ResetStuckSending(t, ages)
<1>1. ASSUME NEW j \in Item PROVE u[j] = t[j] \/ GoodRow(u[j])
  <2>1. \/ u[j] = t[j]
        \/ t[j].status = "sending" /\ u[j] = PendingRow(Refunded(t[j].attempts), t[j].backoff)
    BY DEF ResetStuckSending, Update, Claimed, WithStatus
  <2> QED BY <2>1, GoodRefund DEF GoodTable
<1>2. u = [j \in Item |-> u[j]]
  BY DEF ResetStuckSending, Update
<1> QED BY <1>1, <1>2, GoodPointwise

LEMMA GoodDeletes ==
    ASSUME NEW t, GoodTable(t), NEW ids
    PROVE  GoodTable(DeleteRows(t, ids)) /\ GoodTable(PruneFailed(t, ids))
<1>1. \A j \in Item : /\ DeleteRows(t, ids)[j] \in {t[j], NoRow}
                      /\ PruneFailed(t, ids)[j] \in {t[j], NoRow}
  BY DEF DeleteRows, PruneFailed, Update
<1>2. /\ DeleteRows(t, ids) = [j \in Item |-> DeleteRows(t, ids)[j]]
      /\ PruneFailed(t, ids) = [j \in Item |-> PruneFailed(t, ids)[j]]
  BY DEF DeleteRows, PruneFailed, Update
<1> QED BY <1>1, <1>2, GoodPointwise, GoodNoRow

LEMMA GoodRearms ==
    ASSUME NEW t, GoodTable(t), NEW S, NEW i
    PROVE  /\ GoodTable(RearmSelected(t, S))
           /\ GoodTable(ResetToPending(t, S))
           /\ GoodTable(Retry(t, i))
<1>1. ASSUME NEW j \in Item
      PROVE  /\ RearmSelected(t, S)[j] = t[j] \/ GoodRow(RearmSelected(t, S)[j])
             /\ ResetToPending(t, S)[j] = t[j] \/ GoodRow(ResetToPending(t, S)[j])
             /\ Retry(t, i)[j] = t[j] \/ GoodRow(Retry(t, i)[j])
  <2>1. /\ RearmSelected(t, S)[j] \in {t[j], PendingRow(0, t[j].backoff)}
        /\ ResetToPending(t, S)[j] \in {t[j], PendingRow(0, t[j].backoff)}
        /\ Retry(t, i)[j] \in {t[j], PendingRow(0, FALSE)}
    BY DEF RearmSelected, ResetToPending, Retry, Update
  <2>2. GoodRow(PendingRow(0, t[j].backoff)) /\ GoodRow(PendingRow(0, FALSE))
    BY GoodRearm, GoodFreshRow DEF GoodTable
  <2> QED BY <2>1, <2>2
<1>2. /\ RearmSelected(t, S) = [j \in Item |-> RearmSelected(t, S)[j]]
      /\ ResetToPending(t, S) = [j \in Item |-> ResetToPending(t, S)[j]]
      /\ Retry(t, i) = [j \in Item |-> Retry(t, i)[j]]
  BY DEF RearmSelected, ResetToPending, Retry, Update
<1> QED BY <1>1, <1>2, GoodPointwise
-----------------------------------------------------------------------------
(* The rows that say 'sending': only a claim adds to them, and the write   *)
(* that settles a row takes it out.                                        *)

LEMMA SendingSettled ==
    ASSUME NEW t, GoodTable(t), NEW i, NEW e, NEW d
    PROVE  /\ Sending(MarkSent(t, i)) \subseteq Sending(t) \ {i}
           /\ Sending(MarkDeduplicated(t, i)) \subseteq Sending(t) \ {i}
           /\ Sending(MarkFailed(t, i, e, d)) \subseteq Sending(t) \ {i}
           /\ Sending(Quarantine(t, i)) \subseteq Sending(t) \ {i}
           /\ Sending(Requeue(t, i)) \subseteq Sending(t) \ {i}
<1> USE DEF GoodTable, GoodRow, Row, Sending, WithStatus, InFlight, Update, PendingRow
<1>1. Sending(MarkSent(t, i)) \subseteq Sending(t) \ {i}
  BY DEF MarkSent
<1>2. Sending(MarkDeduplicated(t, i)) \subseteq Sending(t) \ {i}
  BY DEF MarkDeduplicated
<1>3. Sending(MarkFailed(t, i, e, d)) \subseteq Sending(t) \ {i}
  BY DEF MarkFailed
<1>4. Sending(Quarantine(t, i)) \subseteq Sending(t) \ {i}
  BY DEF Quarantine
<1>5. Sending(Requeue(t, i)) \subseteq Sending(t) \ {i}
  BY DEF Requeue
<1> QED BY <1>1, <1>2, <1>3, <1>4, <1>5

LEMMA SendingUnclaimed ==
    ASSUME NEW t, GoodTable(t), NEW S, NEW i
    PROVE  /\ Sending(AddItem(t, i)) \subseteq Sending(t)
           /\ Sending(ResetStuckSending(t, S)) \subseteq Sending(t)
           /\ Sending(DeleteRows(t, S)) \subseteq Sending(t)
           /\ Sending(PruneFailed(t, S)) \subseteq Sending(t)
           /\ Sending(RearmSelected(t, S)) \subseteq Sending(t)
           /\ Sending(ResetToPending(t, S)) \subseteq Sending(t)
           /\ Sending(Retry(t, i)) \subseteq Sending(t)
           /\ Sending(Cancel(t, i)) \subseteq Sending(t)
<1> USE DEF Sending, WithStatus, Update, PendingRow, NoRow
<1>1. Sending(AddItem(t, i)) \subseteq Sending(t)
  BY DEF AddItem
<1>2. Sending(ResetStuckSending(t, S)) \subseteq Sending(t)
  BY DEF ResetStuckSending
<1>3. Sending(DeleteRows(t, S)) \subseteq Sending(t)
  BY DEF DeleteRows
<1>4. Sending(PruneFailed(t, S)) \subseteq Sending(t)
  BY DEF PruneFailed
<1>5. Sending(RearmSelected(t, S)) \subseteq Sending(t)
  BY DEF RearmSelected
<1>6. Sending(ResetToPending(t, S)) \subseteq Sending(t)
  BY DEF ResetToPending
<1>7. Sending(Retry(t, i)) \subseteq Sending(t)
  BY DEF Retry
<1>8. Sending(Cancel(t, i)) \subseteq Sending(t)
  BY DEF Cancel, GoodTable, GoodRow, Row
<1> QED BY <1>1, <1>2, <1>3, <1>4, <1>5, <1>6, <1>7, <1>8

LEMMA SendingClaimed ==
    ASSUME NEW t, GoodTable(t), NEW b
    PROVE  Sending(Claim(t, b)) \subseteq Sending(t) \cup b
BY DEF Sending, WithStatus, Update, Claim

(* The rows that say 'sent': only the two recording writes add to them, and *)
(* only the row they are about.                                             *)

LEMMA SentRecorded ==
    ASSUME NEW t, GoodTable(t), NEW i
    PROVE  /\ Sent(MarkSent(t, i)) \subseteq Sent(t) \cup {i}
           /\ Sent(MarkDeduplicated(t, i)) \subseteq Sent(t) \cup {i}
<1> USE DEF Sent, WithStatus, InFlight, Update
<1>1. Sent(MarkSent(t, i)) \subseteq Sent(t) \cup {i}
  BY DEF MarkSent
<1>2. Sent(MarkDeduplicated(t, i)) \subseteq Sent(t) \cup {i}
  BY DEF MarkDeduplicated
<1> QED BY <1>1, <1>2

LEMMA SentUnrecorded ==
    ASSUME NEW t, GoodTable(t), NEW S, NEW i, NEW e, NEW d
    PROVE  /\ Sent(AddItem(t, i)) \subseteq Sent(t)
           /\ Sent(ResetStuckSending(t, S)) \subseteq Sent(t)
           /\ Sent(DeleteRows(t, S)) \subseteq Sent(t)
           /\ Sent(PruneFailed(t, S)) \subseteq Sent(t)
           /\ Sent(RearmSelected(t, S)) \subseteq Sent(t)
           /\ Sent(ResetToPending(t, S)) \subseteq Sent(t)
           /\ Sent(Retry(t, i)) \subseteq Sent(t)
           /\ Sent(Cancel(t, i)) \subseteq Sent(t)
           /\ Sent(Claim(t, S)) \subseteq Sent(t)
           /\ Sent(MarkFailed(t, i, e, d)) \subseteq Sent(t)
           /\ Sent(Quarantine(t, i)) \subseteq Sent(t)
           /\ Sent(Requeue(t, i)) \subseteq Sent(t)
<1> USE DEF Sent, WithStatus, Update, PendingRow, NoRow, GoodTable, GoodRow, Row
<1>1. Sent(AddItem(t, i)) \subseteq Sent(t)
  BY DEF AddItem
<1>2. Sent(ResetStuckSending(t, S)) \subseteq Sent(t)
  BY DEF ResetStuckSending
<1>3. Sent(DeleteRows(t, S)) \subseteq Sent(t)
  BY DEF DeleteRows
<1>4. Sent(PruneFailed(t, S)) \subseteq Sent(t)
  BY DEF PruneFailed
<1>5. Sent(RearmSelected(t, S)) \subseteq Sent(t)
  BY DEF RearmSelected
<1>6. Sent(ResetToPending(t, S)) \subseteq Sent(t)
  BY DEF ResetToPending
<1>7. Sent(Retry(t, i)) \subseteq Sent(t)
  BY DEF Retry
<1>8. Sent(Cancel(t, i)) \subseteq Sent(t)
  BY DEF Cancel
<1>9. Sent(Claim(t, S)) \subseteq Sent(t)
  BY DEF Claim
<1>10. Sent(MarkFailed(t, i, e, d)) \subseteq Sent(t)
  BY DEF MarkFailed
<1>11. Sent(Quarantine(t, i)) \subseteq Sent(t)
  BY DEF Quarantine
<1>12. Sent(Requeue(t, i)) \subseteq Sent(t)
  BY DEF Requeue
<1> QED BY <1>1, <1>2, <1>3, <1>4, <1>5, <1>6, <1>7, <1>8, <1>9, <1>10, <1>11, <1>12

-----------------------------------------------------------------------------
(* What the writes of the table do to rows that are 'sent' or 'sending' *)

LEMMA KeepsSent ==
    ASSUME NEW t, GoodTable(t), NEW i, NEW e, NEW d, NEW S, NEW b \in SUBSET Due(t)
    PROVE  /\ Sent(t) \subseteq Sent(AddItem(t, i))
           /\ Sent(t) \subseteq Sent(Claim(t, b))
           /\ Sent(t) \subseteq Sent(MarkSent(t, i))
           /\ Sent(t) \subseteq Sent(MarkDeduplicated(t, i))
           /\ Sent(t) \subseteq Sent(MarkFailed(t, i, e, d))
           /\ Sent(t) \subseteq Sent(Quarantine(t, i))
           /\ Sent(t) \subseteq Sent(Requeue(t, i))
           /\ Sent(t) \subseteq Sent(ResetStuckSending(t, S))
           /\ Sent(t) \subseteq Sent(PruneFailed(t, S))
           /\ Sent(t) \subseteq Sent(RearmSelected(t, S))
           /\ Sent(t) \subseteq Sent(ResetToPending(t, {"failed"}))
           /\ Sent(t) \subseteq Sent(Cancel(t, i))
<1> USE DEF Sent, WithStatus, Update, InFlight, Claimed, Due, GoodTable, GoodRow, Row
<1>1. Sent(t) \subseteq Sent(AddItem(t, i))
  BY DEF AddItem
<1>2. Sent(t) \subseteq Sent(Claim(t, b))
  BY DEF Claim
<1>3. Sent(t) \subseteq Sent(MarkSent(t, i))
  BY DEF MarkSent
<1>4. Sent(t) \subseteq Sent(MarkDeduplicated(t, i))
  BY DEF MarkDeduplicated
<1>5. Sent(t) \subseteq Sent(MarkFailed(t, i, e, d))
  BY DEF MarkFailed
<1>6. Sent(t) \subseteq Sent(Quarantine(t, i))
  BY DEF Quarantine
<1>7. Sent(t) \subseteq Sent(Requeue(t, i))
  BY DEF Requeue
<1>8. Sent(t) \subseteq Sent(ResetStuckSending(t, S))
  BY DEF ResetStuckSending
<1>9. Sent(t) \subseteq Sent(PruneFailed(t, S))
  BY DEF PruneFailed
<1>10. Sent(t) \subseteq Sent(RearmSelected(t, S))
  BY DEF RearmSelected
<1>11. Sent(t) \subseteq Sent(ResetToPending(t, {"failed"}))
  BY DEF ResetToPending
<1>12. Sent(t) \subseteq Sent(Cancel(t, i))
  BY DEF Cancel
<1> QED BY <1>1, <1>2, <1>3, <1>4, <1>5, <1>6, <1>7, <1>8, <1>9, <1>10, <1>11, <1>12

LEMMA KeepsSending ==
    ASSUME NEW t, GoodTable(t), NEW i, NEW e, NEW d, NEW b \in SUBSET Due(t)
    PROVE  /\ Sending(t) \subseteq Sending(AddItem(t, i))
           /\ Sending(t) \subseteq Sending(Claim(t, b))
           /\ Sending(t) \ {i} \subseteq Sending(MarkSent(t, i))
           /\ Sending(t) \ {i} \subseteq Sending(MarkDeduplicated(t, i))
           /\ Sending(t) \ {i} \subseteq Sending(MarkFailed(t, i, e, d))
           /\ Sending(t) \ {i} \subseteq Sending(Quarantine(t, i))
           /\ Sending(t) \ {i} \subseteq Sending(Requeue(t, i))
           /\ Sending(t) \subseteq Sending(ResetToPending(t, {"failed"}))
           /\ Sending(t) \subseteq Sending(ResetToPending(t, {"sent", "failed"}))
           /\ Sending(t) \ {i} \subseteq Sending(Retry(t, i))
           /\ Sending(t) \ {i} \subseteq Sending(Cancel(t, i))
           /\ Sending(t) \ {i} \subseteq Sending(DeleteRows(t, {i}))
<1> USE DEF Sending, WithStatus, Update, InFlight, Due, GoodTable, GoodRow, Row
<1>1. Sending(t) \subseteq Sending(AddItem(t, i))
  BY DEF AddItem
<1>2. Sending(t) \subseteq Sending(Claim(t, b))
  BY DEF Claim
<1>3. Sending(t) \ {i} \subseteq Sending(MarkSent(t, i))
  BY DEF MarkSent
<1>4. Sending(t) \ {i} \subseteq Sending(MarkDeduplicated(t, i))
  BY DEF MarkDeduplicated
<1>5. Sending(t) \ {i} \subseteq Sending(MarkFailed(t, i, e, d))
  BY DEF MarkFailed
<1>6. Sending(t) \ {i} \subseteq Sending(Quarantine(t, i))
  BY DEF Quarantine
<1>7. Sending(t) \ {i} \subseteq Sending(Requeue(t, i))
  BY DEF Requeue
<1>8. Sending(t) \subseteq Sending(ResetToPending(t, {"failed"}))
  BY DEF ResetToPending
<1>9. Sending(t) \subseteq Sending(ResetToPending(t, {"sent", "failed"}))
  BY DEF ResetToPending
<1>10. Sending(t) \ {i} \subseteq Sending(Retry(t, i))
  BY DEF Retry
<1>11. Sending(t) \ {i} \subseteq Sending(Cancel(t, i))
  BY DEF Cancel
<1>12. Sending(t) \ {i} \subseteq Sending(DeleteRows(t, {i}))
  BY DEF DeleteRows
<1> QED BY <1>1, <1>2, <1>3, <1>4, <1>5, <1>6, <1>7, <1>8, <1>9, <1>10, <1>11, <1>12

\* A row in flight that is recorded becomes 'sent'.
LEMMA RecordedIsSent ==
    ASSUME NEW t, NEW i \in Item, GoodTable(t), i \in Sending(t)
    PROVE  i \in Sent(MarkSent(t, i))
  BY DEF Sent, Sending, WithStatus, Update, InFlight, GoodTable, GoodRow, Row, MarkSent

LEMMA ClaimedIsSending ==
    ASSUME NEW t, GoodTable(t), NEW b \in SUBSET Item
    PROVE  b \subseteq Sending(Claim(t, b))
  BY DEF Sending, WithStatus, Update, GoodTable, GoodRow, Row, Claim

\* Only a retry, and the re-arming that acts on ids read before, bring a
\* cancelled row back; deletions apart, it stays cancelled.
LEMMA KeepsCancelled ==
    ASSUME NEW t, GoodTable(t), NEW i, NEW e, NEW d, NEW S, NEW b \in SUBSET Due(t)
    PROVE  /\ Cancelled(t) \subseteq Cancelled(AddItem(t, i))
           /\ Cancelled(t) \subseteq Cancelled(Claim(t, b))
           /\ Cancelled(t) \subseteq Cancelled(MarkSent(t, i))
           /\ Cancelled(t) \subseteq Cancelled(MarkDeduplicated(t, i))
           /\ Cancelled(t) \subseteq Cancelled(MarkFailed(t, i, e, d))
           /\ Cancelled(t) \subseteq Cancelled(Quarantine(t, i))
           /\ Cancelled(t) \subseteq Cancelled(Requeue(t, i))
           /\ Cancelled(t) \subseteq Cancelled(ResetStuckSending(t, S))
           /\ Cancelled(t) \subseteq Cancelled(ResetToPending(t, S))
           /\ Cancelled(t) \subseteq Cancelled(Cancel(t, i))
<1> USE DEF Cancelled, WithStatus, Update, InFlight, Claimed, Due, GoodTable, GoodRow, Row
<1>1. Cancelled(t) \subseteq Cancelled(AddItem(t, i))
  BY DEF AddItem
<1>2. Cancelled(t) \subseteq Cancelled(Claim(t, b))
  BY DEF Claim
<1>3. Cancelled(t) \subseteq Cancelled(MarkSent(t, i))
  BY DEF MarkSent
<1>4. Cancelled(t) \subseteq Cancelled(MarkDeduplicated(t, i))
  BY DEF MarkDeduplicated
<1>5. Cancelled(t) \subseteq Cancelled(MarkFailed(t, i, e, d))
  BY DEF MarkFailed
<1>6. Cancelled(t) \subseteq Cancelled(Quarantine(t, i))
  BY DEF Quarantine
<1>7. Cancelled(t) \subseteq Cancelled(Requeue(t, i))
  BY DEF Requeue
<1>8. Cancelled(t) \subseteq Cancelled(ResetStuckSending(t, S))
  BY DEF ResetStuckSending
<1>9. Cancelled(t) \subseteq Cancelled(ResetToPending(t, S))
  BY DEF ResetToPending
<1>10. Cancelled(t) \subseteq Cancelled(Cancel(t, i))
  BY DEF Cancel
<1> QED BY <1>1, <1>2, <1>3, <1>4, <1>5, <1>6, <1>7, <1>8, <1>9, <1>10

LEMMA CancelledUnlessDeleted ==
    ASSUME NEW t, NEW S, NEW k \in Cancelled(t)
    PROVE  /\ k \in Cancelled(DeleteRows(t, S)) \/ DeleteRows(t, S)[k].status = "absent"
           /\ k \in Cancelled(PruneFailed(t, S)) \/ PruneFailed(t, S)[k].status = "absent"
BY DEF Cancelled, WithStatus, Update, DeleteRows, PruneFailed, NoRow



-----------------------------------------------------------------------------
(* The inductive invariant *)

\* The loop the process is in, or comes back to after an excursion for one row.
Loop == IF pc \in {"unlink", "dropRow"} THEN ret
        ELSE IF pc = "clean" /\ cur # NoItem THEN "fallback"
        ELSE pc

BeforeSend == {"exists", "dedup", "route", "send"}

CursorShape ==
    /\ pc \in {"fbSend", "fbSettle"} => cur \in Item /\ ret = "none"
    /\ pc \in {"unlink", "dropRow"} => cur \in Item /\ ret # "none"
    /\ pc = "clean" => ret = IF cur = NoItem THEN "none" ELSE "fallback"
    /\ pc \notin {"fbSend", "fbSettle", "unlink", "dropRow", "clean"} =>
          cur = NoItem /\ ret = "none"

VerdictShape ==
    /\ Loop \in IdlePC \cup BeforeSend => verdict = "none"
    /\ Loop \in {"fallback", "fbSend"} => verdict = "mediaEmpty"

AcceptedShape ==
    /\ pc = "send" => accepted \in {{}, present}
    /\ pc = "fbSend" => accepted \in {{}, {cur}}
    /\ pc = "settle" => accepted \subseteq todo
    /\ pc = "fbSettle" => accepted \subseteq {cur}
    /\ pc \notin {"send", "fbSend", "settle", "fbSettle"} => accepted = {}

BatchShape ==
    /\ pc \in IdlePC => todo = {} /\ present = {} /\ dupes = {}
    /\ pc = "exists" => dupes = {}
    /\ pc \in {"route", "send"} => todo = {}
    /\ Loop = "settle" => todo \subseteq present
    /\ Loop = "release" => todo \subseteq dupes
    /\ HeldBehindSurvivor

Shape == CursorShape /\ VerdictShape /\ AcceptedShape /\ BatchShape

\* What stands behind a delivery verdict and behind the file about to go.
PostedEvidence ==
    /\ \A i \in accepted : posted[i] > 0
    /\ pc = "fbSettle" /\ verdict = "ok" => posted[cur] > 0
    /\ Loop \in {"settle", "release", "clean"} /\ verdict = "ok" =>
          \A i \in present : posted[i] > 0

Evidence ==
    /\ PostedEvidence
    /\ SentOnlyAfterDelivery
    /\ RemovedOnlyAfterDelivery
    /\ pc = "unlink" => Delivered(cur)

\* This process still has to write a verdict on row i.
Owes(i) == \/ i \in todo /\ Loop # "clean"
           \/ i \in present /\ Loop \in BeforeSend
           \/ i \in dupes /\ Loop \notin {"release", "clean"}
           \/ i = cur /\ pc \in {"fbSend", "fbSettle"}

Accounted == \A i \in Sending(items) : i \in stranded \/ Owes(i)

-----------------------------------------------------------------------------
(* The table stays well formed *)

LEMMA GoodSecondPasses ==
    ASSUME GoodTable(items), SecondPasses PROVE GoodTable(items')
<1>1. ASSUME NEW j \in Item PROVE items'[j] = items[j] \/ GoodRow(items'[j])
  <2>1. \/ items'[j] = items[j]
        \/ items[j].status = "sending" /\ items'[j] = [items[j] EXCEPT !.claim = "fresh"]
    BY DEF SecondPasses, Update, Claimed, WithStatus
  <2> QED BY <2>1, GoodAged DEF GoodTable
<1>2. items' = [j \in Item |-> items'[j]]
  BY DEF SecondPasses, Update
<1> QED BY <1>1, <1>2, GoodPointwise

LEMMA GoodExpires ==
    ASSUME GoodTable(items), NEW i \in Item, ClaimExpires(i) \/ BackoffExpires(i)
    PROVE  GoodTable(items')
<1>1. ASSUME NEW j \in Item PROVE items'[j] = items[j] \/ GoodRow(items'[j])
  <2>1. \/ items'[j] = items[j]
        \/ items[j].status = "sending" /\ items'[j] = [items[j] EXCEPT !.claim = "stale"]
        \/ items'[j] = [items[j] EXCEPT !.backoff = FALSE]
    BY DEF ClaimExpires, BackoffExpires, Claimed, WithStatus, GoodTable
  <2> QED BY <2>1, GoodAged DEF GoodTable
<1>2. items' = [j \in Item |-> items'[j]]
  BY DEF ClaimExpires, BackoffExpires, GoodTable
<1> QED BY <1>1, <1>2, GoodPointwise

LEMMA TableStep ==
    ASSUME TypeOK, GoodTable(items), Next
    PROVE  GoodTable(items')
<1>1. CASE Start
  BY <1>1, GoodResetStuckSending DEF Start
<1>2. CASE HkDeleteGone
  BY <1>2, GoodDeletes DEF HkDeleteGone, Housekeep
<1>3. CASE HkPrune
  BY <1>3, GoodDeletes DEF HkPrune, Housekeep
<1>4. CASE HkRearm
  BY <1>4, GoodRearms DEF HkRearm, Housekeep
<1>5. CASE HkRetry
  BY <1>5, GoodRearms DEF HkRetry, Housekeep
<1>6. CASE HkWatchdog
  BY <1>6, GoodResetStuckSending DEF HkWatchdog, Housekeep
<1>7. CASE AuthLost
  BY <1>7, GoodResetStuckSending DEF AuthLost
<1>8. CASE GraceExpired
  BY <1>8, GoodResetStuckSending DEF GraceExpired
<1>9. CASE ClaimBatch
  BY <1>9, GoodClaimBatch DEF ClaimBatch, Batches
<1>10. CASE FallbackSettle
  BY <1>10, GoodMarkSent, GoodRequeue, GoodQuarantine, GoodMarkFailed DEF FallbackSettle,
     SendErrors, ErrorClass
<1>11. CASE DropRow
  BY <1>11, GoodDeletes DEF DropRow
<1>12. ASSUME NEW i \in Item, CheckExists(i) PROVE GoodTable(items')
  BY <1>12, GoodMarkFailed DEF CheckExists, ErrorClass
<1>13. ASSUME NEW i \in Item, Dedup(i) PROVE GoodTable(items')
  BY <1>13, GoodMarkSent DEF Dedup
<1>14. ASSUME NEW i \in Item, Settle(i) PROVE GoodTable(items')
  BY <1>14, GoodMarkSent, GoodRequeue, GoodMarkFailed DEF Settle, SendErrors, ErrorClass
<1>15. ASSUME NEW i \in Item, Release(i) PROVE GoodTable(items')
  BY <1>15, GoodMarkSent, GoodRequeue, GoodMarkFailed DEF Release, ErrorClass
<1>16. CASE ResetFailed
  BY <1>16, GoodRearms DEF ResetFailed, Command
<1>17. CASE ResetUploads
  BY <1>17, GoodRearms DEF ResetUploads, Command
<1>18. ASSUME NEW i \in Item, QueueRetry(i) PROVE GoodTable(items')
  BY <1>18, GoodRearms DEF QueueRetry, Command
<1>19. ASSUME NEW i \in Item, QueueCancel(i) PROVE GoodTable(items')
  BY <1>19, GoodCancel DEF QueueCancel, Command
<1>20. ASSUME NEW i \in Item, Enqueue(i) PROVE GoodTable(items')
  BY <1>20, GoodAddItem DEF Enqueue
<1>21. CASE SecondPasses
  BY <1>21, GoodSecondPasses
<1>22. ASSUME NEW i \in Item, ClaimExpires(i) PROVE GoodTable(items')
  BY <1>22, GoodExpires
<1>23. ASSUME NEW i \in Item, BackoffExpires(i) PROVE GoodTable(items')
  BY <1>23, GoodExpires
<1>24. CASE UNCHANGED items
  BY <1>24
<1> QED
  BY <1>1, <1>2, <1>3, <1>4, <1>5, <1>6, <1>7, <1>8, <1>9, <1>10, <1>11, <1>12, <1>13, <1>14,
     <1>15, <1>16, <1>17, <1>18, <1>19, <1>20, <1>21, <1>22, <1>23, <1>24
  DEF Next, Drain, Faults, Clock, Operators, LeaveTop, Housekeep, BeginHousekeeping,
  SkipHousekeeping, ClaimNothing, HkSelectGone, HkSelectTransient, AllChecked, AllDeduped,
  Route, ServerAccepts, Resend, SendReturns, AllSettled, AllReleased, FallbackReturns,
  AllFallenBack, CleanFallbackRow, AllCleaned, Unlink, FallbackPick, CleanBatchRow, Crash,
  StopAtTop, HkRaises, UserMoves

\* The steps that write to the table, and those that do not.
Writes ==
    \/ Start \/ AuthLost \/ GraceExpired
    \/ HkDeleteGone \/ HkPrune \/ HkRearm \/ HkRetry \/ HkWatchdog
    \/ ClaimBatch \/ FallbackSettle \/ DropRow
    \/ ResetFailed \/ ResetUploads \/ Clock
    \/ \E i \in Item : \/ CheckExists(i) \/ Dedup(i) \/ Settle(i) \/ Release(i)
                       \/ Enqueue(i) \/ QueueRetry(i) \/ QueueCancel(i)

LEMMA WritesOrNot ==
    ASSUME Next PROVE Writes \/ UNCHANGED items
BY DEF Next, Drain, Faults, Operators, Writes, Clock, StopAtTop, Crash, HkRaises,
   BeginHousekeeping,
   SkipHousekeeping, LeaveTop, HkSelectGone, HkSelectTransient, Housekeep, ClaimNothing,
   AllChecked,
   AllDeduped, Route, ServerAccepts, Resend, SendReturns, AllSettled, AllReleased,
   FallbackReturns,
   AllFallenBack, CleanFallbackRow, AllCleaned, Unlink, FallbackPick, CleanBatchRow, UserMoves

-----------------------------------------------------------------------------
(* Types and shape *)

Inductive == TypeOK /\ GoodTable(items) /\ Shape

LEMMA ShapeStep ==
    ASSUME TypeOK, Shape, Next
    PROVE  Shape'
<1> USE NoItemAssumption DEF TypeOK, Shape, CursorShape, VerdictShape, AcceptedShape, BatchShape,
      HeldBehindSurvivor, Loop, BeforeSend, IdlePC, BatchPC, SendPC, HousekeepingPC,
      local, history, bounds
<1>1. CASE Start
  BY <1>1 DEF Start
<1>2. CASE Crash
  BY <1>2 DEF Crash, Dies, NoBatch
<1>3. CASE StopAtTop
  BY <1>3 DEF StopAtTop, Dies, NoBatch
<1>4. CASE AuthLost
  BY <1>4 DEF AuthLost, Dies, NoBatch
<1>5. CASE GraceExpired
  BY <1>5 DEF GraceExpired, Dies, NoBatch
<1>6. CASE HkRaises
  BY <1>6 DEF HkRaises
<1>7. CASE BeginHousekeeping
  BY <1>7 DEF BeginHousekeeping, LeaveTop
<1>8. CASE SkipHousekeeping
  BY <1>8 DEF SkipHousekeeping, LeaveTop
<1>9. CASE HkSelectGone
  BY <1>9 DEF HkSelectGone, Housekeep, WithStatus
<1>10. CASE HkDeleteGone
  BY <1>10 DEF HkDeleteGone, Housekeep
<1>11. CASE HkPrune
  BY <1>11 DEF HkPrune, Housekeep
<1>12. CASE HkSelectTransient
  BY <1>12 DEF HkSelectTransient, Housekeep, TransientFailures, WithStatus
<1>13. CASE HkRearm
  BY <1>13 DEF HkRearm, Housekeep
<1>14. CASE HkRetry
  BY <1>14 DEF HkRetry, Housekeep
<1>15. CASE HkWatchdog
  BY <1>15 DEF HkWatchdog, Housekeep
<1>16. CASE ClaimBatch
  BY <1>16 DEF ClaimBatch, Batches, Due, WithStatus
<1>17. CASE ClaimNothing
  BY <1>17 DEF ClaimNothing
<1>18. ASSUME NEW i \in Item, CheckExists(i) PROVE Shape'
  BY <1>18 DEF CheckExists
<1>19. CASE AllChecked
  BY <1>19 DEF AllChecked
<1>20. ASSUME NEW i \in Item, Dedup(i) PROVE Shape'
  BY <1>20 DEF Dedup
<1>21. CASE AllDeduped
  BY <1>21 DEF AllDeduped
<1>22. CASE Route
  BY <1>22 DEF Route
<1>23. CASE ServerAccepts
  BY <1>23 DEF ServerAccepts, Flight
<1>24. CASE Resend
  BY <1>24 DEF Resend
<1>25. CASE SendReturns
  BY <1>25 DEF SendReturns, Outcomes
<1>26. ASSUME NEW i \in Item, Settle(i) PROVE Shape'
  BY <1>26 DEF Settle
<1>27. CASE AllSettled
  BY <1>27 DEF AllSettled
<1>28. ASSUME NEW i \in Item, Release(i) PROVE Shape'
  BY <1>28 DEF Release
<1>29. CASE AllReleased
  BY <1>29 DEF AllReleased
<1>30. ASSUME NEW i \in Item, FallbackPick(i) PROVE Shape'
  BY <1>30 DEF FallbackPick
<1>31. CASE FallbackReturns
  BY <1>31 DEF FallbackReturns, Outcomes
<1>32. CASE FallbackSettle
  BY <1>32 DEF FallbackSettle
<1>33. CASE AllFallenBack
  BY <1>33 DEF AllFallenBack, VerdictShape
<1>34. ASSUME NEW i \in Item, CleanBatchRow(i) PROVE Shape'
  BY <1>34 DEF CleanBatchRow
<1>35. CASE CleanFallbackRow
  BY <1>35 DEF CleanFallbackRow
<1>36. CASE AllCleaned
  BY <1>36 DEF AllCleaned
<1>37. CASE Unlink
  BY <1>37 DEF Unlink, Resume
<1>38. CASE DropRow
  BY <1>38 DEF DropRow, Resume
<1>39. ASSUME NEW i \in Item, Enqueue(i) PROVE Shape'
  BY <1>39 DEF Enqueue, Others
<1>40. ASSUME NEW i \in Item, QueueRetry(i) PROVE Shape'
  BY <1>40 DEF QueueRetry, Command, Others
<1>41. ASSUME NEW i \in Item, QueueCancel(i) PROVE Shape'
  BY <1>41 DEF QueueCancel, Command, Others
<1>42. CASE ResetFailed
  BY <1>42 DEF ResetFailed, Command, Others
<1>43. CASE ResetUploads
  BY <1>43 DEF ResetUploads, Command, Others
<1>44. ASSUME NEW i \in Item, UserMoves(i) PROVE Shape'
  BY <1>44 DEF UserMoves
<1>45. CASE SecondPasses
  BY <1>45 DEF SecondPasses, Others
<1>46. ASSUME NEW i \in Item, ClaimExpires(i) PROVE Shape'
  BY <1>46 DEF ClaimExpires, Others
<1>47. ASSUME NEW i \in Item, BackoffExpires(i) PROVE Shape'
  BY <1>47 DEF BackoffExpires, Others
<1> QED
  BY <1>1, <1>2, <1>3, <1>4, <1>5, <1>6, <1>7, <1>8, <1>9, <1>10, <1>11, <1>12, <1>13, <1>14,
     <1>15, <1>16, <1>17, <1>18, <1>19, <1>20, <1>21, <1>22, <1>23, <1>24, <1>25, <1>26, <1>27,
     <1>28, <1>29, <1>30, <1>31, <1>32, <1>33, <1>34, <1>35, <1>36, <1>37, <1>38, <1>39, <1>40,
     <1>41, <1>42, <1>43, <1>44, <1>45, <1>46, <1>47
  DEF Next, Drain, Faults, Clock, Operators
LEMMA TypeStep ==
    ASSUME TypeOK, GoodTable(items), Shape, Next
    PROVE  TypeOK'
<1>0. items' \in [Item -> Row] /\ \A i \in Item : RowConsistent(items'[i])
  BY TableStep DEF GoodTable, GoodRow
<1>00. \A t, st : WithStatus(t, st) \subseteq Item
  BY DEF WithStatus
<1> USE <1>0, <1>00, NoItemAssumption DEF TypeOK, Shape, CursorShape, Verdict, IdlePC, BatchPC,
SendPC,
      HousekeepingPC, local, history, bounds
<1>1. CASE Start
  BY <1>1 DEF Start
<1>2. CASE Crash
  BY <1>2 DEF Crash, Dies, NoBatch
<1>3. CASE StopAtTop
  BY <1>3 DEF StopAtTop, Dies, NoBatch
<1>4. CASE AuthLost
  BY <1>4 DEF AuthLost, Dies, NoBatch
<1>5. CASE GraceExpired
  BY <1>5 DEF GraceExpired, Dies, NoBatch
<1>6. CASE HkRaises
  BY <1>6 DEF HkRaises
<1>7. CASE BeginHousekeeping
  BY <1>7 DEF BeginHousekeeping, LeaveTop
<1>8. CASE SkipHousekeeping
  BY <1>8 DEF SkipHousekeeping, LeaveTop
<1>9. CASE HkSelectGone
  BY <1>9 DEF HkSelectGone, Housekeep, WithStatus
<1>10. CASE HkDeleteGone
  BY <1>10 DEF HkDeleteGone, Housekeep
<1>11. CASE HkPrune
  BY <1>11 DEF HkPrune, Housekeep
<1>12. CASE HkSelectTransient
  BY <1>12 DEF HkSelectTransient, Housekeep, TransientFailures, WithStatus
<1>13. CASE HkRearm
  BY <1>13 DEF HkRearm, Housekeep
<1>14. CASE HkRetry
  BY <1>14 DEF HkRetry, Housekeep
<1>15. CASE HkWatchdog
  BY <1>15 DEF HkWatchdog, Housekeep
<1>16. CASE ClaimBatch
  BY <1>16 DEF ClaimBatch, Batches, Due, WithStatus
<1>17. CASE ClaimNothing
  BY <1>17 DEF ClaimNothing
<1>18. ASSUME NEW i \in Item, CheckExists(i) PROVE TypeOK'
  BY <1>18 DEF CheckExists
<1>19. CASE AllChecked
  BY <1>19 DEF AllChecked
<1>20. ASSUME NEW i \in Item, Dedup(i) PROVE TypeOK'
  BY <1>20 DEF Dedup
<1>21. CASE AllDeduped
  BY <1>21 DEF AllDeduped
<1>22. CASE Route
  BY <1>22 DEF Route
<1>23. CASE ServerAccepts
  BY <1>23 DEF ServerAccepts, Flight
<1>24. CASE Resend
  BY <1>24 DEF Resend
<1>25. CASE SendReturns
  BY <1>25 DEF SendReturns, Outcomes
<1>26. ASSUME NEW i \in Item, Settle(i) PROVE TypeOK'
  BY <1>26 DEF Settle
<1>27. CASE AllSettled
  BY <1>27 DEF AllSettled
<1>28. ASSUME NEW i \in Item, Release(i) PROVE TypeOK'
  BY <1>28 DEF Release
<1>29. CASE AllReleased
  BY <1>29 DEF AllReleased
<1>30. ASSUME NEW i \in Item, FallbackPick(i) PROVE TypeOK'
  BY <1>30 DEF FallbackPick
<1>31. CASE FallbackReturns
  BY <1>31 DEF FallbackReturns, Outcomes
<1>32. CASE FallbackSettle
  BY <1>32 DEF FallbackSettle
<1>33. CASE AllFallenBack
  BY <1>33 DEF AllFallenBack, VerdictShape
<1>34. ASSUME NEW i \in Item, CleanBatchRow(i) PROVE TypeOK'
  BY <1>34 DEF CleanBatchRow
<1>35. CASE CleanFallbackRow
  BY <1>35 DEF CleanFallbackRow
<1>36. CASE AllCleaned
  BY <1>36 DEF AllCleaned
<1>37. CASE Unlink
  BY <1>37 DEF Unlink, Resume
<1>38. CASE DropRow
  BY <1>38 DEF DropRow, Resume
<1>39. ASSUME NEW i \in Item, Enqueue(i) PROVE TypeOK'
  BY <1>39 DEF Enqueue, Others
<1>40. ASSUME NEW i \in Item, QueueRetry(i) PROVE TypeOK'
  BY <1>40 DEF QueueRetry, Command, Others
<1>41. ASSUME NEW i \in Item, QueueCancel(i) PROVE TypeOK'
  BY <1>41 DEF QueueCancel, Command, Others
<1>42. CASE ResetFailed
  BY <1>42 DEF ResetFailed, Command, Others
<1>43. CASE ResetUploads
  BY <1>43 DEF ResetUploads, Command, Others
<1>44. ASSUME NEW i \in Item, UserMoves(i) PROVE TypeOK'
  BY <1>44 DEF UserMoves
<1>45. CASE SecondPasses
  BY <1>45 DEF SecondPasses, Others
<1>46. ASSUME NEW i \in Item, ClaimExpires(i) PROVE TypeOK'
  BY <1>46 DEF ClaimExpires, Others
<1>47. ASSUME NEW i \in Item, BackoffExpires(i) PROVE TypeOK'
  BY <1>47 DEF BackoffExpires, Others
<1> QED
  BY <1>1, <1>2, <1>3, <1>4, <1>5, <1>6, <1>7, <1>8, <1>9, <1>10, <1>11, <1>12, <1>13, <1>14,
     <1>15, <1>16, <1>17, <1>18, <1>19, <1>20, <1>21, <1>22, <1>23, <1>24, <1>25, <1>26, <1>27,
     <1>28, <1>29, <1>30, <1>31, <1>32, <1>33, <1>34, <1>35, <1>36, <1>37, <1>38, <1>39, <1>40,
     <1>41, <1>42, <1>43, <1>44, <1>45, <1>46, <1>47
  DEF Next, Drain, Faults, Clock, Operators

LEMMA InductiveInit ==
    ASSUME Init PROVE Inductive
<1>1. GoodTable(items)
  BY GoodNoRow DEF Init, GoodTable
<1>2. TypeOK
  BY <1>1 DEF Init, TypeOK, GoodTable, GoodRow, Verdict, IdlePC
<1>3. Shape
  BY DEF Init, Shape, CursorShape, VerdictShape, AcceptedShape, BatchShape,
     HeldBehindSurvivor, Loop, IdlePC, BatchPC, SendPC
<1> QED BY <1>1, <1>2, <1>3 DEF Inductive

LEMMA InductiveStep ==
    ASSUME Inductive, [Next]_vars PROVE Inductive'
<1>1. CASE Next
  BY <1>1, TableStep, ShapeStep, TypeStep DEF Inductive
<1>2. CASE UNCHANGED vars
  BY <1>2 DEF Inductive, TypeOK, Shape, CursorShape, VerdictShape, AcceptedShape, BatchShape,
     HeldBehindSurvivor, Loop, SameBytes, GoodTable, vars, local, history, bounds
<1> QED BY <1>1, <1>2

\* Type correctness: every variable keeps its type, and the columns that mean
\* something in one status only are empty in the others (so no claim age
\* survives a row leaving 'sending', no error class a row leaving 'failed').
THEOREM TypeCorrect == Spec => []TypeOK
<1>1. Init => Inductive
  BY InductiveInit
<1>2. Inductive /\ [Next]_vars => Inductive'
  BY InductiveStep
<1>3. Inductive => TypeOK
  BY DEF Inductive
<1> QED BY <1>1, <1>2, <1>3, PTL DEF Spec

-----------------------------------------------------------------------------
(* Delivery *)

\* Telegram never loses a copy, so what is delivered stays delivered.
LEMMA DeliveredStays ==
    ASSUME TypeOK, Next
    PROVE  \A i : Delivered(i) => Delivered(i)'
<1>1. CASE UNCHANGED posted
  BY <1>1 DEF Delivered, SameBytes
<1>2. CASE ServerAccepts
  <2>1. ASSUME NEW j \in Item, posted[j] > 0 PROVE posted'[j] > 0
    BY <1>2, <2>1 DEF ServerAccepts, TypeOK
  <2> QED BY <2>1 DEF Delivered, SameBytes
<1> QED BY <1>1, <1>2
  DEF Next, Drain, Faults, Clock, Operators, LeaveTop, Housekeep, Others, Command,
      Start, Crash, StopAtTop, AuthLost, GraceExpired, HkRaises, BeginHousekeeping,
      SkipHousekeeping, HkSelectGone, HkDeleteGone, HkPrune, HkSelectTransient, HkRearm,
      HkRetry, HkWatchdog, ClaimBatch, ClaimNothing, CheckExists, AllChecked, Dedup, AllDeduped,
      Route, Resend, SendReturns, Settle, AllSettled, Release, AllReleased, FallbackPick,
      FallbackReturns, FallbackSettle, AllFallenBack, CleanBatchRow, CleanFallbackRow,
      AllCleaned, Unlink, DropRow, Enqueue, QueueRetry, QueueCancel, ResetFailed, ResetUploads,
      UserMoves, SecondPasses, ClaimExpires, BackoffExpires

LEMMA DeliveredByCopy ==
    ASSUME NEW i \in Item, NEW j \in Item, Delivered(j), SameBytes(i, j)
    PROVE  Delivered(i)
BY DEF Delivered, SameBytes

\* A row turns 'sent' only on evidence of delivery.
LEMMA SentStep ==
    ASSUME Inductive, Evidence, Next
    PROVE  \A k \in Sent(items') : Delivered(k)
<1>0. /\ GoodTable(items)
      /\ \A k \in Sent(items) : Delivered(k)
      /\ \A k \in Sent(items) : k \in Item
  BY DEF Inductive, Evidence, SentOnlyAfterDelivery, Sent, WithStatus
<1>1. CASE Start
  BY <1>1, <1>0, SentUnrecorded DEF Start
<1>2. CASE HkDeleteGone
  BY <1>2, <1>0, SentUnrecorded DEF HkDeleteGone, Housekeep
<1>3. CASE HkPrune
  BY <1>3, <1>0, SentUnrecorded DEF HkPrune, Housekeep
<1>4. CASE HkRearm
  BY <1>4, <1>0, SentUnrecorded DEF HkRearm, Housekeep
<1>5. CASE HkRetry
  BY <1>5, <1>0, SentUnrecorded DEF HkRetry, Housekeep
<1>6. CASE HkWatchdog
  BY <1>6, <1>0, SentUnrecorded DEF HkWatchdog, Housekeep
<1>7. CASE AuthLost
  BY <1>7, <1>0, SentUnrecorded DEF AuthLost
<1>8. CASE GraceExpired
  BY <1>8, <1>0, SentUnrecorded DEF GraceExpired
<1>9. CASE ClaimBatch
  BY <1>9, <1>0, SentUnrecorded DEF ClaimBatch
<1>10. CASE DropRow
  BY <1>10, <1>0, SentUnrecorded DEF DropRow
<1>11. ASSUME NEW i \in Item, CheckExists(i) PROVE \A k \in Sent(items') : Delivered(k)
  BY <1>11, <1>0, SentUnrecorded DEF CheckExists
<1>12. CASE ResetFailed
  BY <1>12, <1>0, SentUnrecorded DEF ResetFailed, Command
<1>13. CASE ResetUploads
  BY <1>13, <1>0, SentUnrecorded DEF ResetUploads, Command
<1>14. ASSUME NEW i \in Item, QueueRetry(i) PROVE \A k \in Sent(items') : Delivered(k)
  BY <1>14, <1>0, SentUnrecorded DEF QueueRetry, Command
<1>15. ASSUME NEW i \in Item, QueueCancel(i) PROVE \A k \in Sent(items') : Delivered(k)
  BY <1>15, <1>0, SentUnrecorded DEF QueueCancel, Command
<1>16. ASSUME NEW i \in Item, Enqueue(i) PROVE \A k \in Sent(items') : Delivered(k)
  BY <1>16, <1>0, SentUnrecorded DEF Enqueue
<1>17. CASE SecondPasses
  <2>1. Sent(items') \subseteq Sent(items)
    BY <1>17, <1>0 DEF SecondPasses, Update, Claimed, Sent, WithStatus, GoodTable, GoodRow, Row
  <2> QED BY <2>1, <1>0
<1>18. ASSUME NEW i \in Item, ClaimExpires(i) PROVE \A k \in Sent(items') : Delivered(k)
  <2>1. Sent(items') \subseteq Sent(items)
    BY <1>18, <1>0 DEF ClaimExpires, Sent, WithStatus, GoodTable, GoodRow, Row
  <2> QED BY <2>1, <1>0
<1>19. ASSUME NEW i \in Item, BackoffExpires(i) PROVE \A k \in Sent(items') : Delivered(k)
  <2>1. Sent(items') \subseteq Sent(items)
    BY <1>19, <1>0 DEF BackoffExpires, Sent, WithStatus, GoodTable, GoodRow, Row
  <2> QED BY <2>1, <1>0
<1>20. ASSUME NEW i \in Item, Dedup(i) PROVE \A k \in Sent(items') : Delivered(k)
  <2>1. CASE i \notin Orphaned /\ SentTwin(items, i) # {} /\ items' = MarkDeduplicated(items, i)
    <3>1. PICK j \in SentTwin(items, i) : TRUE
      BY <2>1
    <3>2. j \in Item /\ j \in Sent(items) /\ SameBytes(i, j)
      BY <3>1 DEF SentTwin, WithStatus, Sent, SameBytes
    <3>3. Delivered(i)
      BY <3>2, <1>0, DeliveredByCopy
    <3> QED BY <2>1, <3>3, <1>0, SentRecorded
  <2>2. CASE items' = items
    BY <2>2, <1>0
  <2> QED BY <1>20, <2>1, <2>2 DEF Dedup
<1>21. ASSUME NEW i \in Item, Settle(i) PROVE \A k \in Sent(items') : Delivered(k)
  <2>1. CASE verdict = "ok" /\ items' = MarkSent(items, i)
    <3>1. posted[i] > 0
      BY <1>21, <2>1 DEF Settle, Inductive, Shape, BatchShape, Evidence, PostedEvidence, Loop
    <3> QED BY <2>1, <3>1, <1>0, SentRecorded DEF Delivered
  <2>2. CASE \/ items' = Requeue(items, i)
             \/ \E e, d : items' = MarkFailed(items, i, e, d)
    BY <2>2, <1>0, SentUnrecorded
  <2> QED BY <1>21, <2>1, <2>2 DEF Settle
<1>22. ASSUME NEW i \in Item, Release(i) PROVE \A k \in Sent(items') : Delivered(k)
  <2>1. CASE verdict = "ok" /\ items' = MarkDeduplicated(items, i)
    <3>1. PICK j \in present : SameBytes(i, j)
      BY <1>22 DEF Release, Inductive, Shape, BatchShape, HeldBehindSurvivor, BatchPC, Loop
    <3>2. j \in Item /\ posted[j] > 0
      BY <1>22, <2>1 DEF Release, Inductive, TypeOK, Evidence, PostedEvidence, Loop
    <3>3. Delivered(i)
      BY <3>1, <3>2 DEF Delivered
    <3> QED BY <2>1, <3>3, <1>0, SentRecorded
  <2>2. CASE \/ items' = Requeue(items, i)
             \/ \E e, d : items' = MarkFailed(items, i, e, d)
    BY <2>2, <1>0, SentUnrecorded
  <2> QED BY <1>22, <2>1, <2>2 DEF Release
<1>23. CASE FallbackSettle
  <2>1. CASE verdict = "ok" /\ items' = MarkSent(items, cur)
    <3>1. cur \in Item /\ posted[cur] > 0
      BY <1>23, <2>1 DEF FallbackSettle, Inductive, Shape, CursorShape, Evidence, PostedEvidence
    <3> QED BY <2>1, <3>1, <1>0, SentRecorded DEF Delivered
  <2>2. CASE \/ items' = Requeue(items, cur) \/ items' = Quarantine(items, cur)
             \/ \E e, d : items' = MarkFailed(items, cur, e, d)
    BY <2>2, <1>0, SentUnrecorded
  <2> QED BY <1>23, <2>1, <2>2 DEF FallbackSettle
<1>24. CASE UNCHANGED items
  BY <1>24, <1>0
<1> QED
  BY <1>1, <1>2, <1>3, <1>4, <1>5, <1>6, <1>7, <1>8, <1>9, <1>10, <1>11, <1>12, <1>13, <1>14,
     <1>15, <1>16, <1>17, <1>18, <1>19, <1>20, <1>21, <1>22, <1>23, <1>24
  DEF Next, Drain, Faults, Clock, Operators, LeaveTop, Housekeep, BeginHousekeeping,
  SkipHousekeeping, ClaimNothing, HkSelectGone, HkSelectTransient, AllChecked, AllDeduped,
  Route, ServerAccepts, Resend, SendReturns, AllSettled, AllReleased, FallbackReturns,
  AllFallenBack, CleanFallbackRow, AllCleaned, Unlink, FallbackPick, CleanBatchRow, Crash,
  StopAtTop, HkRaises, UserMoves
\* Telegram has what the send says it took.
LEMMA PostedStep ==
    ASSUME TypeOK, Shape, PostedEvidence, Next
    PROVE  PostedEvidence'
<1> USE NoItemAssumption DEF TypeOK, Shape, CursorShape, AcceptedShape, BatchShape,
PostedEvidence, Loop, IdlePC,
      SendPC, HousekeepingPC, local, history, bounds
<1>1. CASE Start
  BY <1>1 DEF Start
<1>2. CASE Crash
  BY <1>2 DEF Crash, Dies, NoBatch
<1>3. CASE StopAtTop
  BY <1>3 DEF StopAtTop, Dies, NoBatch
<1>4. CASE AuthLost
  BY <1>4 DEF AuthLost, Dies, NoBatch
<1>5. CASE GraceExpired
  BY <1>5 DEF GraceExpired, Dies, NoBatch
<1>6. CASE HkRaises
  BY <1>6 DEF HkRaises
<1>7. CASE BeginHousekeeping
  BY <1>7 DEF BeginHousekeeping, LeaveTop
<1>8. CASE SkipHousekeeping
  BY <1>8 DEF SkipHousekeeping, LeaveTop
<1>9. CASE HkSelectGone
  BY <1>9 DEF HkSelectGone, Housekeep, WithStatus
<1>10. CASE HkDeleteGone
  BY <1>10 DEF HkDeleteGone, Housekeep
<1>11. CASE HkPrune
  BY <1>11 DEF HkPrune, Housekeep
<1>12. CASE HkSelectTransient
  BY <1>12 DEF HkSelectTransient, Housekeep, TransientFailures, WithStatus
<1>13. CASE HkRearm
  BY <1>13 DEF HkRearm, Housekeep
<1>14. CASE HkRetry
  BY <1>14 DEF HkRetry, Housekeep
<1>15. CASE HkWatchdog
  BY <1>15 DEF HkWatchdog, Housekeep
<1>16. CASE ClaimBatch
  BY <1>16 DEF ClaimBatch, Batches, Due, WithStatus
<1>17. CASE ClaimNothing
  BY <1>17 DEF ClaimNothing
<1>18. ASSUME NEW i \in Item, CheckExists(i) PROVE PostedEvidence'
  BY <1>18 DEF CheckExists
<1>19. CASE AllChecked
  BY <1>19 DEF AllChecked
<1>20. ASSUME NEW i \in Item, Dedup(i) PROVE PostedEvidence'
  BY <1>20 DEF Dedup
<1>21. CASE AllDeduped
  BY <1>21 DEF AllDeduped
<1>22. CASE Route
  BY <1>22 DEF Route
<1>23. CASE ServerAccepts
  BY <1>23 DEF ServerAccepts, Flight
<1>24. CASE Resend
  BY <1>24 DEF Resend
<1>25. CASE SendReturns
  BY <1>25 DEF SendReturns, Outcomes
<1>26. ASSUME NEW i \in Item, Settle(i) PROVE PostedEvidence'
  BY <1>26 DEF Settle
<1>27. CASE AllSettled
  BY <1>27 DEF AllSettled
<1>28. ASSUME NEW i \in Item, Release(i) PROVE PostedEvidence'
  BY <1>28 DEF Release
<1>29. CASE AllReleased
  BY <1>29 DEF AllReleased
<1>30. ASSUME NEW i \in Item, FallbackPick(i) PROVE PostedEvidence'
  BY <1>30 DEF FallbackPick
<1>31. CASE FallbackReturns
  BY <1>31 DEF FallbackReturns, Outcomes
<1>32. CASE FallbackSettle
  BY <1>32 DEF FallbackSettle
<1>33. CASE AllFallenBack
  BY <1>33 DEF AllFallenBack, VerdictShape
<1>34. ASSUME NEW i \in Item, CleanBatchRow(i) PROVE PostedEvidence'
  BY <1>34 DEF CleanBatchRow
<1>35. CASE CleanFallbackRow
  BY <1>35 DEF CleanFallbackRow
<1>36. CASE AllCleaned
  BY <1>36 DEF AllCleaned
<1>37. CASE Unlink
  BY <1>37 DEF Unlink, Resume
<1>38. CASE DropRow
  BY <1>38 DEF DropRow, Resume
<1>39. ASSUME NEW i \in Item, Enqueue(i) PROVE PostedEvidence'
  BY <1>39 DEF Enqueue, Others
<1>40. ASSUME NEW i \in Item, QueueRetry(i) PROVE PostedEvidence'
  BY <1>40 DEF QueueRetry, Command, Others
<1>41. ASSUME NEW i \in Item, QueueCancel(i) PROVE PostedEvidence'
  BY <1>41 DEF QueueCancel, Command, Others
<1>42. CASE ResetFailed
  BY <1>42 DEF ResetFailed, Command, Others
<1>43. CASE ResetUploads
  BY <1>43 DEF ResetUploads, Command, Others
<1>44. ASSUME NEW i \in Item, UserMoves(i) PROVE PostedEvidence'
  BY <1>44 DEF UserMoves
<1>45. CASE SecondPasses
  BY <1>45 DEF SecondPasses, Others
<1>46. ASSUME NEW i \in Item, ClaimExpires(i) PROVE PostedEvidence'
  BY <1>46 DEF ClaimExpires, Others
<1>47. ASSUME NEW i \in Item, BackoffExpires(i) PROVE PostedEvidence'
  BY <1>47 DEF BackoffExpires, Others
<1> QED
  BY <1>1, <1>2, <1>3, <1>4, <1>5, <1>6, <1>7, <1>8, <1>9, <1>10, <1>11, <1>12, <1>13, <1>14,
     <1>15, <1>16, <1>17, <1>18, <1>19, <1>20, <1>21, <1>22, <1>23, <1>24, <1>25, <1>26, <1>27,
     <1>28, <1>29, <1>30, <1>31, <1>32, <1>33, <1>34, <1>35, <1>36, <1>37, <1>38, <1>39, <1>40,
     <1>41, <1>42, <1>43, <1>44, <1>45, <1>46, <1>47
  DEF Next, Drain, Faults, Clock, Operators

\* A file is about to go, or gone, only on evidence of delivery.
LEMMA RemovalStep ==
    ASSUME Inductive, Evidence, Next
    PROVE  /\ \A k \in removed' : Delivered(k)
           /\ pc' = "unlink" => Delivered(cur')
<1>0. /\ TypeOK /\ GoodTable(items) /\ Shape /\ RemovedOnlyAfterDelivery
      /\ \A k \in Sent(items) : Delivered(k)
      /\ pc = "unlink" => Delivered(cur)
  BY DEF Inductive, Evidence, SentOnlyAfterDelivery, Sent
<1> DEFINE Goal == (\A k \in removed' : Delivered(k)) /\ (pc' = "unlink" => Delivered(cur'))
<1>1. ASSUME NEW i \in Item, Dedup(i) PROVE  Goal
  <2>1. ASSUME i \notin Orphaned, SentTwin(items, i) # {} PROVE Delivered(i)
    <3>1. PICK j \in SentTwin(items, i) : TRUE
      BY <2>1
    <3>2. j \in Item /\ j \in Sent(items) /\ SameBytes(i, j)
      BY <3>1 DEF SentTwin, WithStatus, Sent, SameBytes
    <3> QED BY <3>2, <1>0, DeliveredByCopy
  <2> QED BY <1>1, <2>1, <1>0 DEF Dedup, RemovedOnlyAfterDelivery, history
<1>2. ASSUME NEW i \in Item, Release(i) PROVE  Goal
  <2>1. ASSUME verdict = "ok" PROVE Delivered(i)
    <3>1. PICK j \in present : SameBytes(i, j)
      BY <1>2, <1>0 DEF Release, Shape, BatchShape, HeldBehindSurvivor, BatchPC, Loop
    <3>2. j \in Item /\ posted[j] > 0
      BY <1>2, <2>1, <1>0 DEF Release, TypeOK, Evidence, PostedEvidence, Loop
    <3> QED BY <3>1, <3>2 DEF Delivered
  <2> QED BY <1>2, <2>1, <1>0 DEF Release, RemovedOnlyAfterDelivery, history
<1>3. ASSUME NEW i \in Item, CleanBatchRow(i) PROVE  Goal
  <2>1. GateOpen(i) => Delivered(i)
    BY <1>0 DEF GateOpen, Sent, WithStatus
  <2> QED BY <1>3, <2>1, <1>0 DEF CleanBatchRow, RemovedOnlyAfterDelivery, history
<1>4. CASE CleanFallbackRow
  <2>1. GateOpen(cur) => Delivered(cur)
    BY <1>4, <1>0, NoItemAssumption DEF CleanFallbackRow, TypeOK, GateOpen, Sent, WithStatus
  <2> QED BY <1>4, <2>1, <1>0 DEF CleanFallbackRow, RemovedOnlyAfterDelivery, history
<1>5. CASE Unlink
  BY <1>5, <1>0 DEF Unlink, Resume, TypeOK, RemovedOnlyAfterDelivery
<1>6. CASE DropRow
  BY <1>6, <1>0 DEF DropRow, Resume, TypeOK, RemovedOnlyAfterDelivery, history
<1>7. CASE UNCHANGED <<removed, pc, cur>>
  BY <1>7, <1>0 DEF RemovedOnlyAfterDelivery
<1>8. CASE UNCHANGED removed /\ pc' # "unlink"
  BY <1>8, <1>0 DEF RemovedOnlyAfterDelivery
<1> QED
  BY <1>1, <1>2, <1>3, <1>4, <1>5, <1>6, <1>7, <1>8
  DEF Next, Drain, Faults, Clock, Operators, Dies, NoBatch, LeaveTop, Housekeep, Command,
  Others, local, history,
      Start, Crash, StopAtTop, AuthLost, GraceExpired, HkRaises, BeginHousekeeping,
      SkipHousekeeping, HkSelectGone, HkDeleteGone, HkPrune, HkSelectTransient, HkRearm,
      HkRetry, HkWatchdog, ClaimBatch, ClaimNothing, CheckExists, AllChecked, AllDeduped, Route,
      ServerAccepts, Resend, SendReturns, Settle, AllSettled, AllReleased, FallbackPick,
      FallbackReturns, FallbackSettle, AllFallenBack, AllCleaned, Enqueue, QueueRetry,
      QueueCancel, ResetFailed, ResetUploads, UserMoves, SecondPasses, ClaimExpires,
      BackoffExpires

LEMMA EvidenceStep ==
    ASSUME Inductive, Evidence, Next
    PROVE  Evidence'
<1>1. PostedEvidence'
  BY PostedStep DEF Inductive, Evidence
<1>2. SentOnlyAfterDelivery'
  BY SentStep, DeliveredStays DEF SentOnlyAfterDelivery, Sent, Inductive
<1>3. RemovedOnlyAfterDelivery'
  BY RemovalStep, DeliveredStays DEF RemovedOnlyAfterDelivery, Inductive
<1>4. (pc = "unlink" => Delivered(cur))'
  BY RemovalStep, DeliveredStays DEF Inductive
<1> QED BY <1>1, <1>2, <1>3, <1>4 DEF Evidence
-----------------------------------------------------------------------------
(* Claims *)

\* Every 'sending' row is the running batch's to settle, or an earlier
\* process left it.
LEMMA AccountedStep ==
    ASSUME Inductive, Accounted, Next
    PROVE  Accounted'
<1>0. GoodTable(items) /\ TypeOK /\ Shape /\ \A k \in Sending(items) : k \in stranded \/ Owes(k)
  BY DEF Inductive, Accounted
<1> USE NoItemAssumption DEF TypeOK, Shape, CursorShape, BatchShape, HeldBehindSurvivor,
Accounted, Owes, Loop, BeforeSend,
      IdlePC, BatchPC, SendPC, HousekeepingPC, local, history, bounds
<1>1. CASE Start
  BY <1>1, <1>0, SendingUnclaimed DEF Start, Sending
<1>2. CASE Crash
  BY <1>2, <1>0 DEF Crash, Dies, NoBatch, Sending
<1>3. CASE StopAtTop
  BY <1>3, <1>0 DEF StopAtTop, Dies, NoBatch, Sending
<1>4. CASE AuthLost
  BY <1>4, <1>0 DEF AuthLost, Dies, NoBatch, Sending
<1>5. CASE GraceExpired
  BY <1>5, <1>0 DEF GraceExpired, Dies, NoBatch, Sending
<1>6. CASE HkRaises
  BY <1>6, <1>0 DEF HkRaises
<1>7. CASE BeginHousekeeping
  BY <1>7, <1>0 DEF BeginHousekeeping, LeaveTop
<1>8. CASE SkipHousekeeping
  BY <1>8, <1>0 DEF SkipHousekeeping, LeaveTop
<1>9. CASE HkSelectGone
  BY <1>9, <1>0 DEF HkSelectGone, Housekeep, WithStatus
<1>10. CASE HkDeleteGone
  BY <1>10, <1>0, SendingUnclaimed DEF HkDeleteGone, Housekeep
<1>11. CASE HkPrune
  BY <1>11, <1>0, SendingUnclaimed DEF HkPrune, Housekeep
<1>12. CASE HkSelectTransient
  BY <1>12, <1>0 DEF HkSelectTransient, Housekeep, TransientFailures, WithStatus
<1>13. CASE HkRearm
  BY <1>13, <1>0, SendingUnclaimed DEF HkRearm, Housekeep
<1>14. CASE HkRetry
  BY <1>14, <1>0, SendingUnclaimed DEF HkRetry, Housekeep
<1>15. CASE HkWatchdog
  BY <1>15, <1>0, SendingUnclaimed DEF HkWatchdog, Housekeep
<1>16. CASE ClaimBatch
  BY <1>16, <1>0, SendingClaimed DEF ClaimBatch, Batches
<1>17. CASE ClaimNothing
  BY <1>17, <1>0 DEF ClaimNothing
<1>18. ASSUME NEW i \in Item, CheckExists(i) PROVE Accounted'
  <2>1. CASE i \in disk
    BY <1>18, <1>0, <2>1 DEF CheckExists
  <2>2. CASE i \notin disk
    <3>1. Sending(items') \subseteq Sending(items) \ {i}
      BY <1>18, <1>0, <2>2, SendingSettled DEF CheckExists
    <3> QED BY <1>18, <1>0, <2>2, <3>1 DEF CheckExists
  <2> QED BY <2>1, <2>2
<1>19. CASE AllChecked
  BY <1>19, <1>0 DEF AllChecked
<1>20. ASSUME NEW i \in Item, Dedup(i) PROVE Accounted'
  <2>1. CASE items' = MarkDeduplicated(items, i) /\ ret' = "dedup" /\ pc' = "unlink"
    <3>1. Sending(items') \subseteq Sending(items) \ {i}
      BY <1>0, <2>1, SendingSettled
    <3> QED BY <1>20, <1>0, <2>1, <3>1 DEF Dedup
  <2>2. CASE items' = items /\ pc' = pc
    BY <1>20, <1>0, <2>2 DEF Dedup
  <2> QED BY <1>20, <2>1, <2>2 DEF Dedup
<1>21. CASE AllDeduped
  BY <1>21, <1>0 DEF AllDeduped
<1>22. CASE Route
  BY <1>22, <1>0 DEF Route
<1>23. CASE ServerAccepts
  BY <1>23, <1>0 DEF ServerAccepts, Flight
<1>24. CASE Resend
  BY <1>24, <1>0 DEF Resend
<1>25. CASE SendReturns
  BY <1>25, <1>0 DEF SendReturns, Outcomes
<1>26. ASSUME NEW i \in Item, Settle(i) PROVE Accounted'
  BY <1>26, <1>0, SendingSettled DEF Settle
<1>27. CASE AllSettled
  BY <1>27, <1>0 DEF AllSettled
<1>28. ASSUME NEW i \in Item, Release(i) PROVE Accounted'
  BY <1>28, <1>0, SendingSettled DEF Release
<1>29. CASE AllReleased
  BY <1>29, <1>0 DEF AllReleased
<1>30. ASSUME NEW i \in Item, FallbackPick(i) PROVE Accounted'
  BY <1>30, <1>0 DEF FallbackPick
<1>31. CASE FallbackReturns
  BY <1>31, <1>0 DEF FallbackReturns, Outcomes
<1>32. CASE FallbackSettle
  <2>1. Sending(items') \subseteq Sending(items) \ {cur}
    BY <1>32, <1>0, SendingSettled DEF FallbackSettle
  <2> QED BY <1>32, <1>0, <2>1 DEF FallbackSettle
<1>33. CASE AllFallenBack
  BY <1>33, <1>0 DEF AllFallenBack
<1>34. ASSUME NEW i \in Item, CleanBatchRow(i) PROVE Accounted'
  BY <1>34, <1>0 DEF CleanBatchRow
<1>35. CASE CleanFallbackRow
  BY <1>35, <1>0 DEF CleanFallbackRow
<1>36. CASE AllCleaned
  BY <1>36, <1>0 DEF AllCleaned
<1>37. CASE Unlink
  BY <1>37, <1>0 DEF Unlink, Resume
<1>38. CASE DropRow
  BY <1>38, <1>0, SendingUnclaimed DEF DropRow, Resume
<1>39. ASSUME NEW i \in Item, Enqueue(i) PROVE Accounted'
  BY <1>39, <1>0, SendingUnclaimed DEF Enqueue, Others
<1>40. ASSUME NEW i \in Item, QueueRetry(i) PROVE Accounted'
  BY <1>40, <1>0, SendingUnclaimed DEF QueueRetry, Command, Others
<1>41. ASSUME NEW i \in Item, QueueCancel(i) PROVE Accounted'
  BY <1>41, <1>0, SendingUnclaimed DEF QueueCancel, Command, Others
<1>42. CASE ResetFailed
  BY ZenonT(60), <1>42, <1>0, SendingUnclaimed DEF ResetFailed, Command, Others
<1>43. CASE ResetUploads
  BY ZenonT(60), <1>43, <1>0, SendingUnclaimed DEF ResetUploads, Command, Others
<1>44. ASSUME NEW i \in Item, UserMoves(i) PROVE Accounted'
  BY <1>44, <1>0 DEF UserMoves
<1>45. CASE SecondPasses
  <2>1. Sending(items') \subseteq Sending(items)
    BY <1>45, <1>0 DEF SecondPasses, Update, Claimed, Sending, WithStatus, GoodTable, GoodRow, Row
  <2> QED BY <1>45, <2>1, <1>0 DEF SecondPasses, Others
<1>46. ASSUME NEW i \in Item, ClaimExpires(i) PROVE Accounted'
  <2>1. Sending(items') \subseteq Sending(items)
    BY <1>46, <1>0 DEF ClaimExpires, Sending, WithStatus, GoodTable, GoodRow, Row
  <2> QED BY <1>46, <2>1, <1>0 DEF ClaimExpires, Others
<1>47. ASSUME NEW i \in Item, BackoffExpires(i) PROVE Accounted'
  <2>1. Sending(items') \subseteq Sending(items)
    BY <1>47, <1>0 DEF BackoffExpires, Sending, WithStatus, GoodTable, GoodRow, Row
  <2> QED BY <1>47, <2>1, <1>0 DEF BackoffExpires, Others
<1> QED
  BY <1>1, <1>2, <1>3, <1>4, <1>5, <1>6, <1>7, <1>8, <1>9, <1>10, <1>11, <1>12, <1>13, <1>14,
     <1>15, <1>16, <1>17, <1>18, <1>19, <1>20, <1>21, <1>22, <1>23, <1>24, <1>25, <1>26, <1>27,
     <1>28, <1>29, <1>30, <1>31, <1>32, <1>33, <1>34, <1>35, <1>36, <1>37, <1>38, <1>39, <1>40,
     <1>41, <1>42, <1>43, <1>44, <1>45, <1>46, <1>47
  DEF Next, Drain, Faults, Clock, Operators
-----------------------------------------------------------------------------
(* The theorems *)

IInv == Inductive /\ Evidence /\ Accounted

\* The three parts of the inductive invariant hold at the start and every step
\* keeps them.
THEOREM Invariance == Spec => []IInv
<1>1. Init => IInv
  <2>1. ASSUME Init PROVE Evidence
    BY <2>1 DEF Init, Evidence, PostedEvidence, SentOnlyAfterDelivery, RemovedOnlyAfterDelivery,
         Loop, WithStatus, NoRow
  <2>2. ASSUME Init PROVE Accounted
    BY <2>2 DEF Init, Accounted, Sending, WithStatus, NoRow
  <2> QED BY <2>1, <2>2, InductiveInit DEF IInv
<1>2. IInv /\ [Next]_vars => IInv'
  <2> SUFFICES ASSUME IInv, [Next]_vars PROVE IInv'
    OBVIOUS
  <2>1. CASE Next
    BY <2>1, InductiveStep, EvidenceStep, AccountedStep DEF IInv
  <2>2. CASE UNCHANGED vars
    <3>1. Evidence'
      BY <2>2 DEF IInv, Evidence, PostedEvidence, SentOnlyAfterDelivery, RemovedOnlyAfterDelivery,
           Delivered, SameBytes, Loop, vars, local, history, bounds
    <3>2. Accounted'
      BY <2>2 DEF IInv, Accounted, Owes, Loop, vars, local, history, bounds
    <3> QED BY <2>2, <3>1, <3>2, InductiveStep DEF IInv
  <2> QED BY <2>1, <2>2
<1> QED BY <1>1, <1>2, PTL DEF Spec

\* No file is deleted unless its bytes are in the chat: not by the cleanup of a
\* sent batch, not by the per-item fallback, not by either way of suppressing
\* a duplicate - whatever crashes, commands and housekeeping come in between.
THEOREM DeletionIsSafe == Spec => []RemovedOnlyAfterDelivery
<1>1. IInv => RemovedOnlyAfterDelivery
  BY DEF IInv, Evidence
<1> QED BY <1>1, Invariance, PTL

\* No row says 'sent' unless its bytes are in the chat.
THEOREM SentIsDelivered == Spec => []SentOnlyAfterDelivery
<1>1. IInv => SentOnlyAfterDelivery
  BY DEF IInv, Evidence
<1> QED BY <1>1, Invariance, PTL

\* Every in-batch duplicate waits behind a row of the batch that is sent.
THEOREM DuplicatesHaveASurvivor == Spec => []HeldBehindSurvivor
<1>1. IInv => HeldBehindSurvivor
  BY DEF IInv, Inductive, Shape, BatchShape
<1> QED BY <1>1, Invariance, PTL

\* Whatever path a batch took, each of its rows got a verdict before the drain
\* came back to the top of its loop.
THEOREM NoClaimLeaks == Spec => []NoLeakedClaim
<1>1. IInv => NoLeakedClaim
  BY NoItemAssumption DEF IInv, Inductive, TypeOK, Shape, CursorShape, BatchShape, Accounted,
     Owes, Loop,
     NoLeakedClaim, Sending, WithStatus, IdlePC, HousekeepingPC, BeforeSend
<1> QED BY <1>1, Invariance, PTL

\* A pending row always has an attempt left, so the retry budget is never
\* overdrawn, whoever put the row back.
THEOREM BudgetHolds == Spec => []BudgetLeftWhenPending
<1>1. IInv => BudgetLeftWhenPending
  BY DEF IInv, Inductive, GoodTable, GoodRow, WithinBudget, BudgetLeftWhenPending, WithStatus
<1> QED BY <1>1, Invariance, PTL

-----------------------------------------------------------------------------
(* A manual abort *)

LEMMA CancelledStep ==
    ASSUME TypeOK, GoodTable(items), Next, NEW k \in Cancelled(items),
           k \notin Cancelled(items')
    PROVE  items'[k].status = "absent" \/ QueueRetry(k) \/ HkRearm
<1>1. CASE Start \/ AuthLost \/ GraceExpired \/ HkRetry \/ HkWatchdog \/ ResetFailed \/ ResetUploads
  BY <1>1, KeepsCancelled DEF Start, AuthLost, GraceExpired, HkRetry, HkWatchdog, ResetFailed,
     ResetUploads
<1>2. CASE HkDeleteGone \/ HkPrune \/ DropRow
  BY <1>2, CancelledUnlessDeleted DEF HkDeleteGone, HkPrune, DropRow
<1>3. CASE ClaimBatch
  BY <1>3, KeepsCancelled DEF ClaimBatch, Batches
<1>4. CASE FallbackSettle
  BY <1>4, KeepsCancelled DEF FallbackSettle
<1>5. ASSUME NEW i \in Item, CheckExists(i) \/ Dedup(i) \/ Settle(i) \/ Release(i) PROVE FALSE
  BY <1>5, KeepsCancelled DEF CheckExists, Dedup, Settle, Release
<1>6. ASSUME NEW i \in Item, Enqueue(i) \/ QueueCancel(i) PROVE FALSE
  BY <1>6, KeepsCancelled DEF Enqueue, QueueCancel
<1>7. ASSUME NEW i \in Item, QueueRetry(i) PROVE i = k
  BY <1>7 DEF QueueRetry, Retry, Update, Cancelled, WithStatus
<1>8. CASE Clock
  <2> USE DEF Cancelled, WithStatus, GoodTable, GoodRow, Row
  <2>1. CASE SecondPasses
    BY <2>1 DEF SecondPasses, Update, Claimed
  <2>2. ASSUME NEW i \in Item, ClaimExpires(i) PROVE FALSE
    BY <2>2 DEF ClaimExpires, Claimed
  <2>3. ASSUME NEW i \in Item, BackoffExpires(i) PROVE FALSE
    BY <2>3 DEF BackoffExpires
  <2> QED BY <1>8, <2>1, <2>2, <2>3 DEF Clock
<1> QED BY <1>1, <1>2, <1>3, <1>4, <1>5, <1>6, <1>7, <1>8, WritesOrNot DEF Writes

\* No bulk reset, producer, watchdog or verdict brings a cancelled row back:
\* it stays cancelled, or is deleted, until the operator retries it - but for
\* the one housekeeping write that acts on ids it read earlier.
THEOREM AbortIsDurable == Spec => CancelSurvivesSingleWrites
<1>1. IInv /\ [Next]_vars =>
        [\A i \in Cancelled(items) :
            \/ i \in Cancelled(items') \/ items'[i].status = "absent"
            \/ QueueRetry(i) \/ HkRearm]_vars
  BY CancelledStep DEF IInv, Inductive
<1> QED BY <1>1, Invariance, PTL DEF Spec, CancelSurvivesSingleWrites

-----------------------------------------------------------------------------
(* One copy, and the refinement.                                           *)
(*                                                                         *)
(* At most once: a row the process has in hand is still 'sending' unless   *)
(* an operator took it away (Held); what is in the chat and not excused is *)
(* either recorded as 'sent' or still in hand (Recorded); and dedup lets a *)
(* row through only if no recorded row and no other row of the batch       *)
(* carries its bytes (Fresh), which stays so until the row is sent,        *)
(* because only the process itself records deliveries.                     *)
(*                                                                         *)
(* Refinement: every transaction on the table moves the statuses as        *)
(* Delivery allows, and the one move that needs a reason - to 'sent' - is  *)
(* made on the evidence the inductive invariant carries; the same evidence *)
(* stands behind every deletion.                                           *)

FallbackLoop == {"fallback", "fbSend", "fbSettle"}

\* The rows this process may still send, or has sent and not recorded.
InHand(i) ==
    \/ i \in todo /\ Loop \in {"exists", "dedup", "settle", "fallback", "fbSend", "fbSettle"}
    \/ i \in present /\ Loop \in BeforeSend
    \/ i = cur /\ pc \in {"fbSend", "fbSettle"}

\* The rows the dedup let through and the send has not been about yet.
Cleared(i) ==
    \/ i \in present /\ Loop \in {"dedup", "route", "send"}
    \/ i \in todo /\ Loop \in FallbackLoop
    \/ i = cur /\ pc = "fbSend"

Held == \A i \in Item : InHand(i) =>
            /\ items[i].status # "sent"
            /\ i \in excused \/ items[i].status = "sending"

\* The loop variables, as far as BatchShape leaves them open.
LoopShape ==
    /\ Loop \in {"exists", "dedup"} => todo \cap present = {}
    /\ Loop \in FallbackLoop => todo \subseteq present
    /\ pc \in {"fbSend", "fbSettle"} => cur \in present \ todo
    /\ pc \in {"settle", "fbSettle"} /\ verdict # "ok" => accepted = {}
    /\ cur # NoItem => cur \notin todo
    /\ cur # NoItem /\ Loop = "dedup" => cur \notin present
    /\ pc = "dropRow" => cur \in Orphaned
    /\ pc = "hkDelete" => \A i \in selected : items[i].status # "sent"

\* One row of the batch per content goes out.
Distinct ==
    Loop \in {"dedup", "route", "send"} \cup FallbackLoop =>
        \A i, j \in present \ Orphaned : SameBytes(i, j) => i = j

Fresh == \A i \in Item \ Orphaned : Cleared(i) => SentTwin(items, i) = {}

Posted(i) == posted[i] > 0 /\ i \notin Orphaned \cup excused

Recorded == \A i \in Item : Posted(i) =>
                posted[i] = 1 /\ (items[i].status = "sent" \/ i \in accepted)

OneCopy == \A i, j \in Item : Posted(i) /\ Posted(j) /\ SameBytes(i, j) => i = j

Once == Held /\ LoopShape /\ Distinct /\ Fresh /\ Recorded /\ OneCopy
OInv == IInv /\ Once

-----------------------------------------------------------------------------
(* Why a row enters or leaves 'sent' and 'sending' *)

\* The clock changes no status.
LEMMA ClockKeeps ==
    ASSUME GoodTable(items), Clock
    PROVE  Sent(items') = Sent(items) /\ Sending(items') = Sending(items)
<1> USE DEF Sent, Sending, WithStatus, GoodTable, GoodRow, Row
<1>1. CASE SecondPasses
  BY <1>1 DEF SecondPasses, Update
<1>2. ASSUME NEW i \in Item, ClaimExpires(i)
      PROVE  Sent(items') = Sent(items) /\ Sending(items') = Sending(items)
  BY <1>2 DEF ClaimExpires
<1>3. ASSUME NEW i \in Item, BackoffExpires(i)
      PROVE  Sent(items') = Sent(items) /\ Sending(items') = Sending(items)
  BY <1>3 DEF BackoffExpires
<1> QED BY <1>1, <1>2, <1>3 DEF Clock

\* The step is this process's verdict on i, and the verdict 'sent'.
Settles(i) ==
    \/ CheckExists(i) /\ i \notin disk
    \/ Dedup(i) /\ i \notin Orphaned /\ SentTwin(items, i) # {}
    \/ Settle(i) \/ Release(i)
    \/ FallbackSettle /\ cur = i

Delivers(i) ==
    \/ Dedup(i) /\ i \notin Orphaned /\ SentTwin(items, i) # {}
    \/ (Settle(i) \/ Release(i)) /\ verdict = "ok"
    \/ FallbackSettle /\ cur = i /\ verdict = "ok"

\* Only this process records a delivery.
LEMMA BecomesSent ==
    ASSUME GoodTable(items), Next, NEW k \in Sent(items'), k \notin Sent(items)
    PROVE  Delivers(k)
<1>1. CASE Start \/ AuthLost \/ GraceExpired \/ HkDeleteGone \/ HkPrune \/ HkRearm \/ HkRetry
           \/ HkWatchdog \/ ClaimBatch \/ DropRow \/ ResetFailed \/ ResetUploads
  BY <1>1, SentUnrecorded DEF Start, AuthLost, GraceExpired, HkDeleteGone, HkPrune, HkRearm,
     HkRetry, HkWatchdog, ClaimBatch, DropRow, ResetFailed, ResetUploads
<1>2. ASSUME NEW i \in Item, CheckExists(i) \/ Enqueue(i) \/ QueueRetry(i) \/ QueueCancel(i)
      PROVE  Delivers(k)
  BY <1>2, SentUnrecorded DEF CheckExists, Enqueue, QueueRetry, QueueCancel
<1>3. CASE Clock
  BY <1>3, ClockKeeps
<1>4. ASSUME NEW i \in Item, Dedup(i) PROVE Delivers(k)
  BY <1>4, SentRecorded DEF Dedup, Delivers
<1>5. ASSUME NEW i \in Item, Settle(i) PROVE Delivers(k)
  <2>1. verdict = "ok" /\ items' = MarkSent(items, i)
    BY <1>5, SentUnrecorded DEF Settle
  <2> QED BY <1>5, <2>1, SentRecorded DEF Delivers
<1>6. ASSUME NEW i \in Item, Release(i) PROVE Delivers(k)
  <2>1. verdict = "ok" /\ items' = MarkDeduplicated(items, i)
    BY <1>6, SentUnrecorded DEF Release
  <2> QED BY <1>6, <2>1, SentRecorded DEF Delivers
<1>7. CASE FallbackSettle
  <2>1. verdict = "ok" /\ items' = MarkSent(items, cur)
    BY <1>7, SentUnrecorded DEF FallbackSettle
  <2> QED BY <1>7, <2>1, SentRecorded DEF Delivers
<1> QED BY <1>1, <1>2, <1>3, <1>4, <1>5, <1>6, <1>7, WritesOrNot DEF Writes

\* A recorded delivery is unrecorded by an operator, who then is the cause of a
\* second copy, or by the removal of an orphaned row.
LEMMA LeavesSent ==
    ASSUME GoodTable(items), LoopShape, Next, NEW k \in Sent(items), k \notin Sent(items')
    PROVE  k \in excused' \cup Orphaned
<1>0. k \in Item /\ k \in WithStatus(items, "sent")
  BY DEF Sent, WithStatus
<1>1. CASE Start \/ AuthLost \/ GraceExpired \/ HkPrune \/ HkRearm \/ HkWatchdog
  BY <1>1, KeepsSent DEF Start, AuthLost, GraceExpired, HkPrune, HkRearm, HkWatchdog
<1>2. CASE HkDeleteGone
  BY <1>0, <1>2 DEF HkDeleteGone, Housekeep, LoopShape, DeleteRows, Update, Sent, WithStatus
<1>3. CASE HkRetry \/ ResetFailed
  BY <1>3, KeepsSent DEF HkRetry, ResetFailed
<1>4. CASE ClaimBatch
  BY <1>4, KeepsSent DEF ClaimBatch, Batches
<1>5. CASE FallbackSettle
  BY <1>5, KeepsSent DEF FallbackSettle
<1>6. CASE DropRow
  BY <1>0, <1>6 DEF DropRow, LoopShape, DeleteRows, Update, Sent, WithStatus
<1>7. CASE ResetUploads
  BY <1>0, <1>7 DEF ResetUploads, Command
<1>8. CASE Clock
  BY <1>8, ClockKeeps
<1>9. ASSUME NEW i \in Item, CheckExists(i) \/ Dedup(i) \/ Settle(i) \/ Release(i)
      PROVE  k \in excused' \cup Orphaned
  BY <1>9, KeepsSent DEF CheckExists, Dedup, Settle, Release
<1>10. ASSUME NEW i \in Item, Enqueue(i) \/ QueueCancel(i) PROVE k \in excused' \cup Orphaned
  BY <1>10, KeepsSent DEF Enqueue, QueueCancel
<1>11. ASSUME NEW i \in Item, QueueRetry(i) PROVE k \in excused' \cup Orphaned
  BY <1>0, <1>11 DEF QueueRetry, Command, Retry, Update, Sent, WithStatus
<1> QED BY <1>1, <1>2, <1>3, <1>4, <1>5, <1>6, <1>7, <1>8, <1>9, <1>10, <1>11, WritesOrNot DEF
   Writes

\* A row in flight leaves 'sending' by this process's verdict, by the watchdogs
\* while no batch is running, with its own row's removal - or an operator took
\* it away, and then is the cause of a second copy.
LEMMA LeavesSending ==
    ASSUME GoodTable(items), Next, NEW k \in Sending(items), k \notin Sending(items')
    PROVE  \/ k \in excused' \/ pc' \in IdlePC \/ Settles(k)
           \/ pc = "dropRow" /\ cur = k
<1>0. k \in Item /\ k \in WithStatus(items, "sending")
  BY DEF Sending, WithStatus
<1>1. CASE Start \/ AuthLost \/ GraceExpired \/ HkDeleteGone \/ HkPrune \/ HkRearm
           \/ HkRetry \/ HkWatchdog
  BY <1>1 DEF Start, AuthLost, GraceExpired, Dies, HkDeleteGone, HkPrune, HkRearm, HkRetry,
     HkWatchdog, Housekeep, IdlePC, HousekeepingPC
<1>2. CASE ClaimBatch
  BY <1>2, KeepsSending DEF ClaimBatch, Batches
<1>3. CASE FallbackSettle
  <2>1. Sending(items) \ {cur} \subseteq Sending(items')
    BY <1>3, KeepsSending DEF FallbackSettle
  <2> QED BY <1>3, <2>1 DEF Settles
<1>4. CASE DropRow
  BY <1>4, KeepsSending DEF DropRow
<1>5. CASE ResetFailed \/ ResetUploads
  BY <1>5, KeepsSending DEF ResetFailed, ResetUploads
<1>6. CASE Clock
  BY <1>6, ClockKeeps
<1>7. ASSUME NEW i \in Item, CheckExists(i) \/ Dedup(i) \/ Settle(i) \/ Release(i)
      PROVE  Settles(k)
  <2>1. Sending(items) \ {i} \subseteq Sending(items')
    BY <1>7, KeepsSending DEF CheckExists, Dedup, Settle, Release
  <2>2. i = k /\ items' # items
    BY <2>1
  <2> QED BY <1>7, <2>2 DEF Settles, CheckExists, Dedup
<1>8. ASSUME NEW i \in Item, Enqueue(i) PROVE FALSE
  BY <1>8, KeepsSending DEF Enqueue
<1>9. ASSUME NEW i \in Item, QueueRetry(i) \/ QueueCancel(i) PROVE k \in excused'
  <2>1. Sending(items) \ {i} \subseteq Sending(items')
    BY <1>9, KeepsSending DEF QueueRetry, QueueCancel
  <2> QED BY <1>0, <1>9, <2>1 DEF QueueRetry, QueueCancel, Command
<1> QED BY <1>1, <1>2, <1>3, <1>4, <1>5, <1>6, <1>7, <1>8, <1>9, WritesOrNot DEF Writes

LEMMA ExcusedGrows ==
    ASSUME Next PROVE excused \subseteq excused'
BY DEF Next, Drain, Faults, Clock, Operators, LeaveTop, Housekeep, Others, Command, Dies, history,
   Start, Crash, StopAtTop, AuthLost, GraceExpired, HkRaises, BeginHousekeeping,
   SkipHousekeeping, HkSelectGone, HkDeleteGone, HkPrune, HkSelectTransient, HkRearm, HkRetry,
   HkWatchdog, ClaimBatch, ClaimNothing, CheckExists, AllChecked, Dedup, AllDeduped, Route,
   ServerAccepts, Resend, SendReturns, Settle, AllSettled, Release, AllReleased, FallbackPick,
   FallbackReturns, FallbackSettle, AllFallenBack, CleanBatchRow, CleanFallbackRow, AllCleaned,
   Unlink, DropRow, Enqueue, QueueRetry, QueueCancel, ResetFailed, ResetUploads, UserMoves,
   SecondPasses, ClaimExpires, BackoffExpires

-----------------------------------------------------------------------------
(* The loops *)

\* The rows in hand after a step were in hand before it, unless it is the claim
\* that takes them.
HandKept == \A k \in Item : InHand(k)' => InHand(k)

LEMMA HandStep ==
    ASSUME TypeOK, Shape, LoopShape, Next, ~ ClaimBatch
    PROVE  HandKept
<1> USE NoItemAssumption DEF TypeOK, Shape, CursorShape, VerdictShape, AcceptedShape,
BatchShape, HeldBehindSurvivor,
      LoopShape, Loop, HandKept, InHand, BeforeSend, FallbackLoop, IdlePC, BatchPC, SendPC,
      HousekeepingPC, local, history, bounds
<1>1. CASE Start
  BY <1>1 DEF Start
<1>2. CASE Crash
  BY <1>2 DEF Crash, Dies, NoBatch
<1>3. CASE StopAtTop
  BY <1>3 DEF StopAtTop, Dies, NoBatch
<1>4. CASE AuthLost
  BY <1>4 DEF AuthLost, Dies, NoBatch
<1>5. CASE GraceExpired
  BY <1>5 DEF GraceExpired, Dies, NoBatch
<1>6. CASE HkRaises
  BY <1>6 DEF HkRaises
<1>7. CASE BeginHousekeeping
  BY <1>7 DEF BeginHousekeeping, LeaveTop
<1>8. CASE SkipHousekeeping
  BY <1>8 DEF SkipHousekeeping, LeaveTop
<1>9. CASE HkSelectGone
  BY <1>9 DEF HkSelectGone, Housekeep
<1>10. CASE HkDeleteGone
  BY <1>10 DEF HkDeleteGone, Housekeep
<1>11. CASE HkPrune
  BY <1>11 DEF HkPrune, Housekeep
<1>12. CASE HkSelectTransient
  BY <1>12 DEF HkSelectTransient, Housekeep
<1>13. CASE HkRearm
  BY <1>13 DEF HkRearm, Housekeep
<1>14. CASE HkRetry
  BY <1>14 DEF HkRetry, Housekeep
<1>15. CASE HkWatchdog
  BY <1>15 DEF HkWatchdog, Housekeep
<1>16. CASE ClaimBatch
  BY <1>16 DEF ClaimBatch, Batches, Due, WithStatus
<1>17. CASE ClaimNothing
  BY <1>17 DEF ClaimNothing
<1>18. ASSUME NEW i \in Item, CheckExists(i) PROVE HandKept
  BY <1>18 DEF CheckExists
<1>19. CASE AllChecked
  BY <1>19 DEF AllChecked
<1>20. ASSUME NEW i \in Item, Dedup(i) PROVE HandKept
  BY <1>20 DEF Dedup
<1>21. CASE AllDeduped
  BY <1>21 DEF AllDeduped
<1>22. CASE Route
  BY <1>22 DEF Route
<1>23. CASE ServerAccepts
  BY <1>23 DEF ServerAccepts
<1>24. CASE Resend
  BY <1>24 DEF Resend
<1>25. CASE SendReturns
  BY <1>25 DEF SendReturns, Outcomes
<1>26. ASSUME NEW i \in Item, Settle(i) PROVE HandKept
  BY <1>26 DEF Settle
<1>27. CASE AllSettled
  BY <1>27 DEF AllSettled
<1>28. ASSUME NEW i \in Item, Release(i) PROVE HandKept
  BY <1>28 DEF Release
<1>29. CASE AllReleased
  BY <1>29 DEF AllReleased
<1>30. ASSUME NEW i \in Item, FallbackPick(i) PROVE HandKept
  BY <1>30 DEF FallbackPick
<1>31. CASE FallbackReturns
  BY <1>31 DEF FallbackReturns, Outcomes
<1>32. CASE FallbackSettle
  BY <1>32 DEF FallbackSettle
<1>33. CASE AllFallenBack
  BY <1>33 DEF AllFallenBack
<1>34. ASSUME NEW i \in Item, CleanBatchRow(i) PROVE HandKept
  BY <1>34 DEF CleanBatchRow
<1>35. CASE CleanFallbackRow
  BY <1>35 DEF CleanFallbackRow
<1>36. CASE AllCleaned
  BY <1>36 DEF AllCleaned
<1>37. CASE Unlink
  BY <1>37 DEF Unlink, Resume
<1>38. CASE DropRow
  BY <1>38 DEF DropRow, Resume
<1>39. ASSUME NEW i \in Item, Enqueue(i) PROVE HandKept
  BY <1>39 DEF Enqueue, Others
<1>40. ASSUME NEW i \in Item, QueueRetry(i) PROVE HandKept
  BY <1>40 DEF QueueRetry, Command, Others
<1>41. ASSUME NEW i \in Item, QueueCancel(i) PROVE HandKept
  BY <1>41 DEF QueueCancel, Command, Others
<1>42. CASE ResetFailed
  BY <1>42 DEF ResetFailed, Command, Others
<1>43. CASE ResetUploads
  BY <1>43 DEF ResetUploads, Command, Others
<1>44. ASSUME NEW i \in Item, UserMoves(i) PROVE HandKept
  BY <1>44 DEF UserMoves
<1>45. CASE Clock
  BY <1>45 DEF Clock, SecondPasses, ClaimExpires, BackoffExpires, Others
<1> QED
  BY <1>1, <1>2, <1>3, <1>4, <1>5, <1>6, <1>7, <1>8, <1>9, <1>10, <1>11, <1>12, <1>13, <1>14,
     <1>15, <1>16, <1>17, <1>18, <1>19, <1>20, <1>21, <1>22, <1>23, <1>24, <1>25, <1>26, <1>27,
     <1>28, <1>29, <1>30, <1>31, <1>32, <1>33, <1>34, <1>35, <1>36, <1>37, <1>38, <1>39, <1>40,
     <1>41, <1>42, <1>43, <1>44, <1>45
  DEF Next, Drain, Faults, Operators

\* A row that just got its verdict is no longer in hand.
LEMMA SettledLeavesHand ==
    ASSUME TypeOK, Shape, LoopShape, NEW k \in Item, Settles(k)
    PROVE  ~ InHand(k)'
<1> USE NoItemAssumption DEF TypeOK, Shape, CursorShape, VerdictShape, AcceptedShape,
BatchShape, HeldBehindSurvivor,
      LoopShape, Loop, InHand, BeforeSend, FallbackLoop, IdlePC, BatchPC, SendPC,
      HousekeepingPC, local, history, bounds
<1>1. CASE CheckExists(k) /\ k \notin disk
  BY <1>1 DEF CheckExists
<1>2. CASE Dedup(k) /\ k \notin Orphaned /\ SentTwin(items, k) # {}
  BY <1>2 DEF Dedup
<1>3. CASE Settle(k)
  BY <1>3 DEF Settle
<1>4. CASE Release(k)
  BY <1>4 DEF Release
<1>5. CASE FallbackSettle /\ cur = k
  BY <1>5 DEF FallbackSettle
<1> QED BY <1>1, <1>2, <1>3, <1>4, <1>5 DEF Settles

LEMMA LoopShapeStep ==
    ASSUME TypeOK, GoodTable(items), Shape, LoopShape, Next
    PROVE  LoopShape'
<1>0. ASSUME pc' = "hkDelete", pc = "hkDelete", selected' = selected
      PROVE  \A k \in selected' : items'[k].status # "sent"
  <2> SUFFICES ASSUME NEW k \in selected', items'[k].status = "sent" PROVE FALSE
    OBVIOUS
  <2>1. k \in Sent(items') /\ k \notin Sent(items)
    BY <1>0 DEF TypeOK, LoopShape, Sent, WithStatus
  <2> QED BY <1>0, <2>1, BecomesSent DEF Delivers, Dedup, Settle, Release, FallbackSettle
<1> USE <1>0, NoItemAssumption DEF TypeOK, Shape, CursorShape, VerdictShape, AcceptedShape,
BatchShape, HeldBehindSurvivor,
      LoopShape, Loop, BeforeSend, FallbackLoop, IdlePC, BatchPC, SendPC, HousekeepingPC, local,
      history, bounds
<1>1. CASE Start
  BY <1>1 DEF Start
<1>2. CASE Crash
  BY <1>2 DEF Crash, Dies, NoBatch
<1>3. CASE StopAtTop
  BY <1>3 DEF StopAtTop, Dies, NoBatch
<1>4. CASE AuthLost
  BY <1>4 DEF AuthLost, Dies, NoBatch
<1>5. CASE GraceExpired
  BY <1>5 DEF GraceExpired, Dies, NoBatch
<1>6. CASE HkRaises
  BY <1>6 DEF HkRaises
<1>7. CASE BeginHousekeeping
  BY <1>7 DEF BeginHousekeeping, LeaveTop
<1>8. CASE SkipHousekeeping
  BY <1>8 DEF SkipHousekeeping, LeaveTop
<1>9. CASE HkSelectGone
  BY <1>9 DEF HkSelectGone, Housekeep, WithStatus
<1>10. CASE HkDeleteGone
  BY <1>10 DEF HkDeleteGone, Housekeep
<1>11. CASE HkPrune
  BY <1>11 DEF HkPrune, Housekeep
<1>12. CASE HkSelectTransient
  BY <1>12 DEF HkSelectTransient, Housekeep
<1>13. CASE HkRearm
  BY <1>13 DEF HkRearm, Housekeep
<1>14. CASE HkRetry
  BY <1>14 DEF HkRetry, Housekeep
<1>15. CASE HkWatchdog
  BY <1>15 DEF HkWatchdog, Housekeep
<1>16. CASE ClaimBatch
  BY <1>16 DEF ClaimBatch, Batches, Due, WithStatus
<1>17. CASE ClaimNothing
  BY <1>17 DEF ClaimNothing
<1>18. ASSUME NEW i \in Item, CheckExists(i) PROVE LoopShape'
  BY <1>18 DEF CheckExists
<1>19. CASE AllChecked
  BY <1>19 DEF AllChecked
<1>20. ASSUME NEW i \in Item, Dedup(i) PROVE LoopShape'
  BY <1>20 DEF Dedup
<1>21. CASE AllDeduped
  BY <1>21 DEF AllDeduped
<1>22. CASE Route
  BY <1>22 DEF Route
<1>23. CASE ServerAccepts
  BY <1>23 DEF ServerAccepts
<1>24. CASE Resend
  BY <1>24 DEF Resend
<1>25. CASE SendReturns
  BY <1>25 DEF SendReturns, Outcomes
<1>26. ASSUME NEW i \in Item, Settle(i) PROVE LoopShape'
  BY <1>26 DEF Settle
<1>27. CASE AllSettled
  BY <1>27 DEF AllSettled
<1>28. ASSUME NEW i \in Item, Release(i) PROVE LoopShape'
  BY <1>28 DEF Release
<1>29. CASE AllReleased
  BY <1>29 DEF AllReleased
<1>30. ASSUME NEW i \in Item, FallbackPick(i) PROVE LoopShape'
  BY <1>30 DEF FallbackPick
<1>31. CASE FallbackReturns
  BY <1>31 DEF FallbackReturns, Outcomes
<1>32. CASE FallbackSettle
  BY <1>32 DEF FallbackSettle
<1>33. CASE AllFallenBack
  BY <1>33 DEF AllFallenBack
<1>34. ASSUME NEW i \in Item, CleanBatchRow(i) PROVE LoopShape'
  BY <1>34 DEF CleanBatchRow
<1>35. CASE CleanFallbackRow
  BY <1>35 DEF CleanFallbackRow
<1>36. CASE AllCleaned
  BY <1>36 DEF AllCleaned
<1>37. CASE Unlink
  BY <1>37 DEF Unlink, Resume
<1>38. CASE DropRow
  BY <1>38 DEF DropRow, Resume
<1>39. ASSUME NEW i \in Item, Enqueue(i) PROVE LoopShape'
  BY <1>39 DEF Enqueue, Others
<1>40. ASSUME NEW i \in Item, QueueRetry(i) PROVE LoopShape'
  BY <1>40 DEF QueueRetry, Command, Others
<1>41. ASSUME NEW i \in Item, QueueCancel(i) PROVE LoopShape'
  BY <1>41 DEF QueueCancel, Command, Others
<1>42. CASE ResetFailed
  BY <1>42 DEF ResetFailed, Command, Others
<1>43. CASE ResetUploads
  BY <1>43 DEF ResetUploads, Command, Others
<1>44. ASSUME NEW i \in Item, UserMoves(i) PROVE LoopShape'
  BY <1>44 DEF UserMoves
<1>45. CASE Clock
  BY <1>45 DEF Clock, SecondPasses, ClaimExpires, BackoffExpires, Others
<1> QED
  BY <1>1, <1>2, <1>3, <1>4, <1>5, <1>6, <1>7, <1>8, <1>9, <1>10, <1>11, <1>12, <1>13, <1>14,
     <1>15, <1>16, <1>17, <1>18, <1>19, <1>20, <1>21, <1>22, <1>23, <1>24, <1>25, <1>26, <1>27,
     <1>28, <1>29, <1>30, <1>31, <1>32, <1>33, <1>34, <1>35, <1>36, <1>37, <1>38, <1>39, <1>40,
     <1>41, <1>42, <1>43, <1>44, <1>45
  DEF Next, Drain, Faults, Operators

-----------------------------------------------------------------------------
(* The parts of Once, step by step *)

LEMMA HeldStep ==
    ASSUME Inductive, Shape', LoopShape, Held, Next
    PROVE  Held'
<1>0. TypeOK /\ GoodTable(items) /\ Shape
  BY DEF Inductive
<1>1. CASE ClaimBatch
  <2>1. ASSUME NEW k \in Item, InHand(k)' PROVE k \in Sending(items')
    <3>1. PICK b \in Batches : items' = Claim(items, b) /\ todo' = b
      BY <1>1 DEF ClaimBatch
    <3>2. k \in b
      BY <1>0, <1>1, <2>1, <3>1 DEF ClaimBatch, InHand, Loop, Shape, BatchShape, IdlePC,
         BeforeSend, FallbackLoop
    <3> QED BY <1>0, <3>1, <3>2, ClaimedIsSending DEF Batches, Due, WithStatus
  <2> QED BY <2>1 DEF Held, Sending, WithStatus
<1>2. ASSUME ~ ClaimBatch, NEW k \in Item, InHand(k)'
      PROVE  items'[k].status # "sent" /\ (k \in excused' \/ items'[k].status = "sending")
  <2>1. InHand(k) /\ ~ Settles(k)
    BY <1>0, <1>2, HandStep, SettledLeavesHand DEF HandKept
  <2>2. k \notin Sent(items) /\ (k \in excused \/ k \in Sending(items))
    BY <2>1 DEF Held, Sent, Sending, WithStatus
  <2>3. k \notin Sent(items')
    BY <1>0, <2>1, <2>2, BecomesSent DEF Delivers, Settles
  <2>4. pc' \notin IdlePC
    BY <1>2 DEF Shape, BatchShape, CursorShape, InHand, Loop, IdlePC, HousekeepingPC
  <2>5. ~ (pc = "dropRow" /\ cur = k)
    BY <1>0, <2>1, NoItemAssumption DEF LoopShape, InHand, Loop, BeforeSend, Shape, CursorShape,
       TypeOK
  <2>6. k \in excused' \/ k \in Sending(items')
    BY <1>0, <2>1, <2>2, <2>4, <2>5, LeavesSending, ExcusedGrows
  <2> QED BY <2>3, <2>6 DEF Sent, Sending, WithStatus
<1> QED BY <1>1, <1>2 DEF Held

\* The batch as dedup leaves it changes no more until the next batch.
LEMMA DistinctStep ==
    ASSUME TypeOK, Shape, LoopShape, Distinct, Next
    PROVE  Distinct'
<1> DEFINE Deduped == Loop \in {"dedup", "route", "send"} \cup FallbackLoop
           Kept == \/ present' = present /\ (Deduped' => Deduped)
                  \/ present' = {} \/ ~ Deduped'
<1>a. ASSUME NEW i \in Item, Dedup(i) PROVE Distinct'
  <2>1. CASE present' = present
    BY <1>a, <2>1 DEF Distinct, SameBytes, Dedup, Loop
  <2>2. CASE present' = present \cup {i} /\ i \in Orphaned
    BY <1>a, <2>2 DEF Distinct, SameBytes, Dedup, Loop
  <2>3. CASE present' = present \cup {i} /\ ~ \E j \in present : SameBytes(i, j)
    BY <1>a, <2>3 DEF Distinct, SameBytes, Dedup, Loop
  <2> QED BY <1>a, <2>1, <2>2, <2>3 DEF Dedup
<1>b. ASSUME Kept PROVE Distinct'
  BY <1>b DEF Distinct, SameBytes
<1>c. ASSUME Next, \A i \in Item : ~ Dedup(i) PROVE Kept
  <2> USE NoItemAssumption DEF TypeOK, Shape, CursorShape, VerdictShape, AcceptedShape,
  BatchShape, HeldBehindSurvivor,
        LoopShape, Loop, BeforeSend, FallbackLoop, IdlePC, BatchPC, SendPC, HousekeepingPC,
        local, history, bounds
  <2>1. CASE Start
    BY <2>1 DEF Start
  <2>2. CASE Crash
    BY <2>2 DEF Crash, Dies, NoBatch
  <2>3. CASE StopAtTop
    BY <2>3 DEF StopAtTop, Dies, NoBatch
  <2>4. CASE AuthLost
    BY <2>4 DEF AuthLost, Dies, NoBatch
  <2>5. CASE GraceExpired
    BY <2>5 DEF GraceExpired, Dies, NoBatch
  <2>6. CASE HkRaises
    BY <2>6 DEF HkRaises
  <2>7. CASE BeginHousekeeping
    BY <2>7 DEF BeginHousekeeping, LeaveTop
  <2>8. CASE SkipHousekeeping
    BY <2>8 DEF SkipHousekeeping, LeaveTop
  <2>9. CASE HkSelectGone
    BY <2>9 DEF HkSelectGone, Housekeep
  <2>10. CASE HkDeleteGone
    BY <2>10 DEF HkDeleteGone, Housekeep
  <2>11. CASE HkPrune
    BY <2>11 DEF HkPrune, Housekeep
  <2>12. CASE HkSelectTransient
    BY <2>12 DEF HkSelectTransient, Housekeep
  <2>13. CASE HkRearm
    BY <2>13 DEF HkRearm, Housekeep
  <2>14. CASE HkRetry
    BY <2>14 DEF HkRetry, Housekeep
  <2>15. CASE HkWatchdog
    BY <2>15 DEF HkWatchdog, Housekeep
  <2>16. CASE ClaimBatch
    BY <2>16 DEF ClaimBatch, Batches, Due, WithStatus
  <2>17. CASE ClaimNothing
    BY <2>17 DEF ClaimNothing
  <2>18. ASSUME NEW i \in Item, CheckExists(i) PROVE Kept
    BY <2>18 DEF CheckExists
  <2>19. CASE AllChecked
    BY <2>19 DEF AllChecked
  <2>20. CASE AllDeduped
    BY <2>20 DEF AllDeduped
  <2>21. CASE Route
    BY <2>21 DEF Route
  <2>22. CASE ServerAccepts
    BY <2>22 DEF ServerAccepts
  <2>23. CASE Resend
    BY <2>23 DEF Resend
  <2>24. CASE SendReturns
    BY <2>24 DEF SendReturns, Outcomes
  <2>25. ASSUME NEW i \in Item, Settle(i) PROVE Kept
    BY <2>25 DEF Settle
  <2>26. CASE AllSettled
    BY <2>26 DEF AllSettled
  <2>27. ASSUME NEW i \in Item, Release(i) PROVE Kept
    BY <2>27 DEF Release
  <2>28. CASE AllReleased
    BY <2>28 DEF AllReleased
  <2>29. ASSUME NEW i \in Item, FallbackPick(i) PROVE Kept
    BY <2>29 DEF FallbackPick
  <2>30. CASE FallbackReturns
    BY <2>30 DEF FallbackReturns, Outcomes
  <2>31. CASE FallbackSettle
    BY <2>31 DEF FallbackSettle
  <2>32. CASE AllFallenBack
    BY <2>32 DEF AllFallenBack
  <2>33. ASSUME NEW i \in Item, CleanBatchRow(i) PROVE Kept
    BY <2>33 DEF CleanBatchRow
  <2>34. CASE CleanFallbackRow
    BY <2>34 DEF CleanFallbackRow
  <2>35. CASE AllCleaned
    BY <2>35 DEF AllCleaned
  <2>36. CASE Unlink
    BY <2>36 DEF Unlink, Resume
  <2>37. CASE DropRow
    BY <2>37 DEF DropRow, Resume
  <2>38. ASSUME NEW i \in Item, Enqueue(i) PROVE Kept
    BY <2>38 DEF Enqueue, Others
  <2>39. ASSUME NEW i \in Item, QueueRetry(i) PROVE Kept
    BY <2>39 DEF QueueRetry, Command, Others
  <2>40. ASSUME NEW i \in Item, QueueCancel(i) PROVE Kept
    BY <2>40 DEF QueueCancel, Command, Others
  <2>41. CASE ResetFailed
    BY <2>41 DEF ResetFailed, Command, Others
  <2>42. CASE ResetUploads
    BY <2>42 DEF ResetUploads, Command, Others
  <2>43. ASSUME NEW i \in Item, UserMoves(i) PROVE Kept
    BY <2>43 DEF UserMoves
  <2>44. CASE Clock
    BY <2>44 DEF Clock, SecondPasses, ClaimExpires, BackoffExpires, Others
  <2> QED
    BY <1>c, <2>1, <2>2, <2>3, <2>4, <2>5, <2>6, <2>7, <2>8, <2>9, <2>10, <2>11, <2>12, <2>13,
       <2>14, <2>15, <2>16, <2>17, <2>18, <2>19, <2>20, <2>21, <2>22, <2>23, <2>24, <2>25,
       <2>26, <2>27, <2>28, <2>29, <2>30, <2>31, <2>32, <2>33, <2>34, <2>35, <2>36, <2>37,
       <2>38, <2>39, <2>40, <2>41, <2>42, <2>43, <2>44
    DEF Next, Drain, Faults, Operators
<1> QED BY <1>a, <1>b, <1>c

\* A row stays cleared only as long as it is in the running send.
ClearedKept == \A k \in Item : Cleared(k)' =>
    \/ Cleared(k)
    \/ UNCHANGED items /\ (k \in Orphaned \/ SentTwin(items, k) = {})

LEMMA ClearedStep ==
    ASSUME TypeOK, Shape, LoopShape, Next
    PROVE  ClearedKept
<1> USE NoItemAssumption DEF TypeOK, Shape, CursorShape, VerdictShape, AcceptedShape,
BatchShape, HeldBehindSurvivor,
      LoopShape, Loop, ClearedKept, Cleared, BeforeSend, FallbackLoop, IdlePC, BatchPC, SendPC,
      HousekeepingPC, local, history, bounds
<1>1. CASE Start
  BY <1>1 DEF Start
<1>2. CASE Crash
  BY <1>2 DEF Crash, Dies, NoBatch
<1>3. CASE StopAtTop
  BY <1>3 DEF StopAtTop, Dies, NoBatch
<1>4. CASE AuthLost
  BY <1>4 DEF AuthLost, Dies, NoBatch
<1>5. CASE GraceExpired
  BY <1>5 DEF GraceExpired, Dies, NoBatch
<1>6. CASE HkRaises
  BY <1>6 DEF HkRaises
<1>7. CASE BeginHousekeeping
  BY <1>7 DEF BeginHousekeeping, LeaveTop
<1>8. CASE SkipHousekeeping
  BY <1>8 DEF SkipHousekeeping, LeaveTop
<1>9. CASE HkSelectGone
  BY <1>9 DEF HkSelectGone, Housekeep
<1>10. CASE HkDeleteGone
  BY <1>10 DEF HkDeleteGone, Housekeep
<1>11. CASE HkPrune
  BY <1>11 DEF HkPrune, Housekeep
<1>12. CASE HkSelectTransient
  BY <1>12 DEF HkSelectTransient, Housekeep
<1>13. CASE HkRearm
  BY <1>13 DEF HkRearm, Housekeep
<1>14. CASE HkRetry
  BY <1>14 DEF HkRetry, Housekeep
<1>15. CASE HkWatchdog
  BY <1>15 DEF HkWatchdog, Housekeep
<1>16. CASE ClaimBatch
  BY <1>16 DEF ClaimBatch, Batches, Due, WithStatus
<1>17. CASE ClaimNothing
  BY <1>17 DEF ClaimNothing
<1>18. ASSUME NEW i \in Item, CheckExists(i) PROVE ClearedKept
  BY <1>18 DEF CheckExists
<1>19. CASE AllChecked
  BY <1>19 DEF AllChecked
<1>20. ASSUME NEW i \in Item, Dedup(i) PROVE ClearedKept
  BY <1>20 DEF Dedup
<1>21. CASE AllDeduped
  BY <1>21 DEF AllDeduped
<1>22. CASE Route
  BY <1>22 DEF Route
<1>23. CASE ServerAccepts
  BY <1>23 DEF ServerAccepts
<1>24. CASE Resend
  BY <1>24 DEF Resend
<1>25. CASE SendReturns
  BY <1>25 DEF SendReturns, Outcomes
<1>26. ASSUME NEW i \in Item, Settle(i) PROVE ClearedKept
  BY <1>26 DEF Settle
<1>27. CASE AllSettled
  BY <1>27 DEF AllSettled
<1>28. ASSUME NEW i \in Item, Release(i) PROVE ClearedKept
  BY <1>28 DEF Release
<1>29. CASE AllReleased
  BY <1>29 DEF AllReleased
<1>30. ASSUME NEW i \in Item, FallbackPick(i) PROVE ClearedKept
  BY <1>30 DEF FallbackPick
<1>31. CASE FallbackReturns
  BY <1>31 DEF FallbackReturns, Outcomes
<1>32. CASE FallbackSettle
  BY <1>32 DEF FallbackSettle
<1>33. CASE AllFallenBack
  BY <1>33 DEF AllFallenBack
<1>34. ASSUME NEW i \in Item, CleanBatchRow(i) PROVE ClearedKept
  BY <1>34 DEF CleanBatchRow
<1>35. CASE CleanFallbackRow
  BY <1>35 DEF CleanFallbackRow
<1>36. CASE AllCleaned
  BY <1>36 DEF AllCleaned
<1>37. CASE Unlink
  BY <1>37 DEF Unlink, Resume
<1>38. CASE DropRow
  BY <1>38 DEF DropRow, Resume
<1>39. ASSUME NEW i \in Item, Enqueue(i) PROVE ClearedKept
  BY <1>39 DEF Enqueue, Others
<1>40. ASSUME NEW i \in Item, QueueRetry(i) PROVE ClearedKept
  BY <1>40 DEF QueueRetry, Command, Others
<1>41. ASSUME NEW i \in Item, QueueCancel(i) PROVE ClearedKept
  BY <1>41 DEF QueueCancel, Command, Others
<1>42. CASE ResetFailed
  BY <1>42 DEF ResetFailed, Command, Others
<1>43. CASE ResetUploads
  BY <1>43 DEF ResetUploads, Command, Others
<1>44. ASSUME NEW i \in Item, UserMoves(i) PROVE ClearedKept
  BY <1>44 DEF UserMoves
<1>45. CASE Clock
  BY <1>45 DEF Clock, SecondPasses, ClaimExpires, BackoffExpires, Others
<1> QED
  BY <1>1, <1>2, <1>3, <1>4, <1>5, <1>6, <1>7, <1>8, <1>9, <1>10, <1>11, <1>12, <1>13, <1>14,
     <1>15, <1>16, <1>17, <1>18, <1>19, <1>20, <1>21, <1>22, <1>23, <1>24, <1>25, <1>26, <1>27,
     <1>28, <1>29, <1>30, <1>31, <1>32, <1>33, <1>34, <1>35, <1>36, <1>37, <1>38, <1>39, <1>40,
     <1>41, <1>42, <1>43, <1>44, <1>45
  DEF Next, Drain, Faults, Operators

LEMMA FreshStep ==
    ASSUME Inductive, LoopShape, Held, Distinct, Fresh, Next
    PROVE  Fresh'
<1>0. TypeOK /\ GoodTable(items) /\ Shape
  BY DEF Inductive
<1> SUFFICES ASSUME NEW k \in Item \ Orphaned, Cleared(k)', NEW j \in SentTwin(items', k)
             PROVE  FALSE
  BY DEF Fresh
<1>1. j \in Item \ Orphaned /\ j # k /\ SameBytes(k, j) /\ j \in Sent(items')
  BY DEF SentTwin, SameBytes, Sent, WithStatus
<1>2. SentTwin(items, k) = {}
  BY <1>0, ClearedStep DEF ClearedKept, Fresh
<1>3. j \notin Sent(items)
  BY <1>1, <1>2 DEF SentTwin, SameBytes, Sent
<1>4. Delivers(j)
  BY <1>0, <1>1, <1>3, BecomesSent
<1>5. items' # items
  BY <1>1, <1>3
<1>6. Cleared(k)
  BY <1>0, <1>5, ClearedStep DEF ClearedKept
<1>7. k \notin Sent(items)
  BY <1>6 DEF Held, InHand, Cleared, BeforeSend, FallbackLoop, Sent, WithStatus
<1>8. CASE Dedup(j) /\ SentTwin(items, j) # {}
  <2>1. PICK l \in SentTwin(items, j) : TRUE
    BY <1>8
  <2>2. l \in SentTwin(items, k)
    BY <1>1, <1>7, <2>1 DEF SentTwin, SameBytes, Sent
  <2> QED BY <1>2, <2>2
<1>9. CASE Settle(j) \/ Release(j)
  BY <1>0, <1>9 DEF Cleared, Loop, Settle, Release, FallbackLoop, Shape, CursorShape
<1>10. CASE FallbackSettle /\ cur = j
  <2>1. k \in todo
    BY <1>6, <1>10 DEF Cleared, Loop, FallbackSettle
  <2>2. k \in present /\ j \in present
    BY <1>10, <2>1 DEF LoopShape, Loop, FallbackSettle, FallbackLoop
  <2> QED BY <1>1, <1>10, <2>2 DEF Distinct, Loop, FallbackSettle, FallbackLoop
<1> QED BY <1>4, <1>8, <1>9, <1>10 DEF Delivers

\* What the send goes out with.
LEMMA FlightFacts ==
    ASSUME TypeOK, Shape, LoopShape, Held, Recorded, ServerAccepts
    PROVE  /\ Flight \subseteq Item
           /\ \A k \in Flight : InHand(k) /\ Cleared(k) /\ ~ Posted(k)
           /\ \A k \in Item : Posted(k) => k \notin Flight /\ items[k].status = "sent"
<1> USE NoItemAssumption DEF Flight, ServerAccepts, SendPC
<1>1. Flight \subseteq Item
  BY DEF TypeOK, Shape, CursorShape
<1>2. ASSUME NEW k \in Flight PROVE InHand(k) /\ Cleared(k)
  BY <1>2 DEF InHand, Cleared, Loop, BeforeSend
<1>3. ASSUME NEW k \in Item, Posted(k) PROVE items[k].status = "sent"
  BY <1>3 DEF Recorded
<1>4. ASSUME NEW k \in Flight PROVE ~ Posted(k)
  BY <1>1, <1>2, <1>3 DEF Held
<1> QED BY <1>1, <1>2, <1>3, <1>4

\* What the server has taken leaves the hand recorded, or excused.
LEMMA AcceptedStep ==
    ASSUME Inductive, LoopShape, Held, Next, NEW k \in accepted
    PROVE  k \in accepted' \cup excused' \/ k \in Sent(items')
<1>0. TypeOK /\ Shape /\ GoodTable(items)
  BY DEF Inductive
<1>1. pc \in {"send", "fbSend", "settle", "fbSettle"} /\ k \in Item /\ InHand(k)
  BY <1>0, NoItemAssumption DEF TypeOK, Shape, AcceptedShape, CursorShape, InHand, Loop,
     BeforeSend
<1>2. k \in excused \/ k \in Sending(items)
  BY <1>1 DEF Held, Sending, WithStatus
<1>3. ASSUME NEW i \in Item, Settle(i) PROVE k \in accepted' \cup excused' \/ k \in Sent(items')
  <2>1. CASE i = k
    <3>1. verdict = "ok" /\ items' = MarkSent(items, k)
      BY <1>3, <2>1 DEF Settle, LoopShape
    <3> QED BY <1>0, <1>1, <1>2, <3>1, RecordedIsSent, ExcusedGrows
  <2>2. CASE i # k
    BY <1>3, <2>2 DEF Settle
  <2> QED BY <2>1, <2>2
<1>4. CASE FallbackSettle
  <2>1. cur = k /\ verdict = "ok" /\ items' = MarkSent(items, k)
    BY <1>0, <1>4 DEF FallbackSettle, LoopShape, Shape, AcceptedShape
  <2> QED BY <1>0, <1>1, <1>2, <2>1, RecordedIsSent, ExcusedGrows
<1>5. CASE SendReturns \/ FallbackReturns \/ Resend
  BY <1>5 DEF SendReturns, FallbackReturns, Resend
<1>6. CASE Crash \/ AuthLost \/ GraceExpired \/ StopAtTop
  BY <1>6 DEF Crash, AuthLost, GraceExpired, StopAtTop, Dies
<1>7. CASE ServerAccepts
  BY <1>7 DEF ServerAccepts
<1>8. CASE UNCHANGED accepted
  BY <1>8
<1> QED BY <1>1, <1>3, <1>4, <1>5, <1>6, <1>7, <1>8
  DEF Next, Drain, Faults, Clock, Operators, LeaveTop, Housekeep, Others, Command, local,
      Start, HkRaises, BeginHousekeeping, SkipHousekeeping, HkSelectGone, HkDeleteGone, HkPrune,
      HkSelectTransient, HkRearm, HkRetry, HkWatchdog, ClaimBatch, ClaimNothing, CheckExists,
      AllChecked, Dedup, AllDeduped, Route, AllSettled, Release, AllReleased, FallbackPick,
      AllFallenBack, CleanBatchRow, CleanFallbackRow, AllCleaned, Unlink, DropRow, Enqueue,
      QueueRetry, QueueCancel, ResetFailed, ResetUploads, UserMoves, SecondPasses, ClaimExpires,
      BackoffExpires

LEMMA PostedOrNot ==
    ASSUME Next PROVE ServerAccepts \/ UNCHANGED posted
BY DEF Next, Drain, Faults, Clock, Operators, LeaveTop, Housekeep, Others, Command,
      Start, Crash, StopAtTop, AuthLost, GraceExpired, HkRaises, BeginHousekeeping,
      SkipHousekeeping, HkSelectGone, HkDeleteGone, HkPrune, HkSelectTransient, HkRearm,
      HkRetry, HkWatchdog, ClaimBatch, ClaimNothing, CheckExists, AllChecked, Dedup, AllDeduped,
      Route, Resend, SendReturns, Settle, AllSettled, Release, AllReleased, FallbackPick,
      FallbackReturns, FallbackSettle, AllFallenBack, CleanBatchRow, CleanFallbackRow,
      AllCleaned, Unlink, DropRow, Enqueue, QueueRetry, QueueCancel, ResetFailed, ResetUploads,
      UserMoves, SecondPasses, ClaimExpires, BackoffExpires

LEMMA RecordedStep ==
    ASSUME Inductive, LoopShape, Held, Recorded, Next
    PROVE  Recorded'
<1>0. TypeOK /\ Shape /\ GoodTable(items)
  BY DEF Inductive
<1> SUFFICES ASSUME NEW k \in Item, Posted(k)'
             PROVE  posted'[k] = 1 /\ (items'[k].status = "sent" \/ k \in accepted')
  BY DEF Recorded
<1>1. k \notin excused /\ k \notin excused' /\ k \notin Orphaned /\ posted'[k] > 0
  BY ExcusedGrows DEF Posted
<1>2. CASE ServerAccepts
  <2>1. CASE k \in Flight
    <3>1. posted[k] = 0
      BY <1>0, <1>1, <1>2, <2>1, FlightFacts DEF Posted, TypeOK
    <3> QED BY <1>2, <2>1, <3>1 DEF ServerAccepts
  <2>2. CASE k \notin Flight
    <3>1. posted'[k] = posted[k] /\ Posted(k)
      BY <1>1, <1>2, <2>2 DEF ServerAccepts, Posted
    <3>2. items' = items /\ items[k].status = "sent"
      BY <1>0, <1>2, <3>1, FlightFacts DEF ServerAccepts
    <3> QED BY <3>1, <3>2 DEF Recorded
  <2> QED BY <2>1, <2>2
<1>3. CASE UNCHANGED posted
  <2>1. posted'[k] = 1 /\ (k \in Sent(items) \/ k \in accepted)
    BY <1>1, <1>3 DEF Recorded, Posted, Sent, WithStatus
  <2>2. CASE k \in Sent(items)
    <3>1. k \in Sent(items')
      BY <1>0, <1>1, <2>2, LeavesSent
    <3> QED BY <2>1, <3>1 DEF Sent, WithStatus
  <2>3. CASE k \in accepted
    BY <1>1, <2>1, <2>3, AcceptedStep DEF Sent, WithStatus
  <2> QED BY <2>1, <2>2, <2>3
<1> QED BY <1>2, <1>3, PostedOrNot

LEMMA OneCopyStep ==
    ASSUME Inductive, LoopShape, Held, Distinct, Fresh, Recorded, OneCopy, Next
    PROVE  OneCopy'
<1>0. TypeOK /\ Shape /\ GoodTable(items)
  BY DEF Inductive
<1> SUFFICES ASSUME NEW k \in Item, NEW j \in Item, Posted(k)', Posted(j)', SameBytes(k, j)
             PROVE  k = j
  BY DEF OneCopy, SameBytes
<1>1. {k, j} \cap (excused \cup Orphaned) = {}
  BY ExcusedGrows DEF Posted
<1>2. CASE UNCHANGED posted
  BY <1>1, <1>2 DEF OneCopy, Posted
<1>3. CASE ServerAccepts
  <2>1. ASSUME NEW x \in {k, j}, x \notin Flight PROVE Posted(x)
    BY <1>1, <1>3, <2>1 DEF ServerAccepts, Posted
  <2>2. ASSUME NEW x \in Flight, NEW y \in Item, y \notin Flight, Posted(y), SameBytes(x, y),
               x \notin Orphaned
        PROVE  FALSE
    <3>1. y \in SentTwin(items, x)
      BY <1>0, <1>3, <2>2, FlightFacts DEF SentTwin, SameBytes, WithStatus, Posted
    <3> QED BY <1>0, <1>3, <2>2, <3>1, FlightFacts DEF Fresh
  <2>3. CASE k \in Flight /\ j \in Flight
    BY <1>1, <1>3, <2>3 DEF Flight, ServerAccepts, SendPC, Distinct, Loop
  <2>4. CASE k \in Flight /\ j \notin Flight
    BY <1>1, <2>1, <2>2, <2>4
  <2>5. CASE k \notin Flight /\ j \in Flight
    BY <1>1, <2>1, <2>2, <2>5 DEF SameBytes
  <2>6. CASE k \notin Flight /\ j \notin Flight
    BY <2>1, <2>6 DEF OneCopy
  <2> QED BY <2>3, <2>4, <2>5, <2>6
<1> QED BY <1>2, <1>3, PostedOrNot

-----------------------------------------------------------------------------
(* The theorem *)

LEMMA OnceInit ==
    ASSUME Init PROVE Once
BY DEF Init, Once, Held, LoopShape, Distinct, Fresh, Recorded, OneCopy, Posted, Cleared, InHand,
   Loop, BeforeSend, FallbackLoop

LEMMA OnceStep ==
    ASSUME IInv, IInv', Once, [Next]_vars PROVE Once'
<1>1. CASE Next
  <2>1. Inductive /\ TypeOK /\ GoodTable(items) /\ Shape /\ Shape'
    BY DEF IInv, Inductive
  <2> QED BY <1>1, <2>1, HeldStep, LoopShapeStep, DistinctStep, FreshStep, RecordedStep,
     OneCopyStep DEF Once
<1>2. CASE UNCHANGED vars
  BY <1>2 DEF Once, Held, LoopShape, Distinct, Fresh, Recorded, OneCopy, Posted, Cleared, InHand,
     Loop, SameBytes, vars, local, history, bounds
<1> QED BY <1>1, <1>2

\* The inductive invariant, with its part about copies.
THEOREM OnceInvariance == Spec => []OInv
<1>1. Init => Once
  BY OnceInit
<1>2. IInv /\ IInv' /\ Once /\ [Next]_vars => Once'
  BY OnceStep
<1> QED BY <1>1, <1>2, Invariance, PTL DEF Spec, OInv

\* Global dedup: neither one row twice nor two rows with the same bytes reach
\* the chat, unless the process died or gave up between Telegram taking the
\* message and the row saying so, or an operator re-queued or cancelled a row.
THEOREM NoUnexcusedCopy == Spec => []AtMostOnceUnlessExcused
<1>1. OInv => AtMostOnceUnlessExcused
  <2> SUFFICES ASSUME OInv, NEW i \in Item \ Orphaned, NEW j \in Item \ Orphaned,
                      posted[i] > 0, posted[j] > 0,
                      IF i = j THEN posted[i] > 1 ELSE SameBytes(i, j),
                      i \notin excused, j \notin excused
               PROVE  FALSE
    BY DEF AtMostOnceUnlessExcused
  <2>1. Posted(i) /\ Posted(j)
    BY DEF Posted
  <2>2. CASE i = j
    BY <2>1, <2>2 DEF OInv, Once, Recorded
  <2>3. CASE i # j
    BY <2>1, <2>3 DEF OInv, Once, OneCopy
  <2> QED BY <2>2, <2>3
<1> QED BY <1>1, OnceInvariance, PTL

-----------------------------------------------------------------------------
(* How a transaction moves the rows of the table *)

\* A move Delivery allows whatever is in the chat.
FreeMove(old, new) ==
    \/ new = old \/ new \in {"pending", "absent"}
    \/ new = "sending" /\ old = "pending"
    \/ new = "failed" /\ old \in {"pending", "sending"}

FreeMoves(t, u) == \A i \in Item : FreeMove(t[i].status, u[i].status)

\* ... or the record of a delivery of i.
RecordingMoves(t, u, i) ==
    \A j \in Item : \/ FreeMove(t[j].status, u[j].status)
                    \/ j = i /\ t[j].status = "sending" /\ u[j].status = "sent"

LEMMA MovesOfProducersAndOperators ==
    ASSUME NEW t, GoodTable(t), NEW S, NEW i
    PROVE  /\ FreeMoves(t, AddItem(t, i))
           /\ FreeMoves(t, ResetToPending(t, S))
           /\ FreeMoves(t, Retry(t, i))
           /\ FreeMoves(t, Cancel(t, i))
<1> USE DEF FreeMoves, FreeMove, Update, PendingRow, GoodTable, GoodRow, Row
<1>1. FreeMoves(t, AddItem(t, i))
  BY DEF AddItem
<1>2. FreeMoves(t, ResetToPending(t, S))
  BY DEF ResetToPending
<1>3. FreeMoves(t, Retry(t, i))
  BY DEF Retry
<1>4. FreeMoves(t, Cancel(t, i))
  BY DEF Cancel
<1> QED BY <1>1, <1>2, <1>3, <1>4

LEMMA MovesOfHousekeeping ==
    ASSUME NEW t, GoodTable(t), NEW S
    PROVE  /\ FreeMoves(t, ResetStuckSending(t, S))
           /\ FreeMoves(t, DeleteRows(t, S))
           /\ FreeMoves(t, PruneFailed(t, S))
           /\ FreeMoves(t, RearmSelected(t, S))
<1> USE DEF FreeMoves, FreeMove, Update, PendingRow, NoRow
<1>1. FreeMoves(t, ResetStuckSending(t, S))
  BY DEF ResetStuckSending
<1>2. FreeMoves(t, DeleteRows(t, S))
  BY DEF DeleteRows
<1>3. FreeMoves(t, PruneFailed(t, S))
  BY DEF PruneFailed
<1>4. FreeMoves(t, RearmSelected(t, S))
  BY DEF RearmSelected
<1> QED BY <1>1, <1>2, <1>3, <1>4

LEMMA MovesOfVerdicts ==
    ASSUME NEW t, GoodTable(t), NEW i, NEW e, NEW d, NEW b \in SUBSET Due(t)
    PROVE  /\ FreeMoves(t, Claim(t, b))
           /\ FreeMoves(t, MarkFailed(t, i, e, d))
           /\ FreeMoves(t, Quarantine(t, i))
           /\ FreeMoves(t, Requeue(t, i))
           /\ RecordingMoves(t, MarkSent(t, i), i)
           /\ RecordingMoves(t, MarkDeduplicated(t, i), i)
<1> USE DEF FreeMoves, FreeMove, RecordingMoves, Update, PendingRow, InFlight,
      WithStatus, GoodTable, GoodRow, Row
<1>1. FreeMoves(t, Claim(t, b))
  BY DEF Claim, Due
<1>2. FreeMoves(t, MarkFailed(t, i, e, d))
  BY DEF MarkFailed
<1>3. FreeMoves(t, Quarantine(t, i))
  BY DEF Quarantine
<1>4. FreeMoves(t, Requeue(t, i))
  BY DEF Requeue
<1>5. RecordingMoves(t, MarkSent(t, i), i)
  BY DEF MarkSent
<1>6. RecordingMoves(t, MarkDeduplicated(t, i), i)
  BY DEF MarkDeduplicated
<1> QED BY <1>1, <1>2, <1>3, <1>4, <1>5, <1>6

-----------------------------------------------------------------------------
(* The mapping *)

\* What the mapping calls the bytes of an item, and the chat.
BytesOf(i) == IF Hash[i] = NoHash THEN i ELSE Hash[i]
Chat == {BytesOf(i) : i \in {j \in Item : posted[j] > 0}}

LEMMA DeliveredIsInChat ==
    ASSUME NEW i \in Item, Delivered(i) PROVE BytesOf(i) \in Chat
<1>1. PICK j \in Item : posted[j] > 0 /\ (j = i \/ SameBytes(i, j))
  BY DEF Delivered
<1>2. BytesOf(j) = BytesOf(i)
  BY <1>1 DEF SameBytes, BytesOf
<1> QED BY <1>1, <1>2 DEF Chat

\* A transaction that only makes free moves is a Record step.
LEMMA FreeMovesRecord ==
    ASSUME FreeMoves(items, items'), UNCHANGED <<posted, removed>>
    PROVE  Promise!Record
BY DEF FreeMoves, FreeMove, Promise!Record, Promise!MayBecome

\* So is one that records i as sent, when i's bytes are in the chat.
LEMMA RecordingMovesRecord ==
    ASSUME NEW i \in Item, Delivered(i), RecordingMoves(items, items', i),
           UNCHANGED <<posted, removed>>
    PROVE  Promise!Record
<1>1. BytesOf(i) \in Chat
  BY DeliveredIsInChat
<1>2. ASSUME NEW j \in Item, items'[j].status # items[j].status
      PROVE  Promise!MayBecome(j, items'[j].status)
  BY <1>1, <1>2 DEF RecordingMoves, FreeMove, Promise!MayBecome, BytesOf, Chat
<1> QED BY <1>2 DEF Promise!Record

-----------------------------------------------------------------------------
(* The steps *)

\* Every message adds the bytes it carries to the chat, and nothing else.
LEMMA AcceptedPosts ==
    ASSUME TypeOK, Shape, ServerAccepts PROVE Promise!Post
<1>1. Flight \subseteq Item
  BY DEF Flight, ServerAccepts, TypeOK, Shape, CursorShape, SendPC
<1>2. Chat' = Chat \cup {BytesOf(i) : i \in Flight}
  <2>1. \A i \in Item : posted'[i] > 0 <=> posted[i] > 0 \/ i \in Flight
    BY DEF ServerAccepts, TypeOK
  <2>2. {j \in Item : posted[j] > 0}' = {j \in Item : posted[j] > 0} \cup Flight
    BY <1>1, <2>1
  <2> QED BY <2>2 DEF Chat, BytesOf
<1>3. UNCHANGED <<items, removed>>
  BY DEF ServerAccepts, history
<1>4. {BytesOf(i) : i \in Flight} =
      {[j \in Item |-> IF Hash[j] = NoHash THEN j ELSE Hash[j]][i] : i \in Flight}
  BY <1>1 DEF BytesOf
<1>5. Chat' = Chat \cup
      {[j \in Item |-> IF Hash[j] = NoHash THEN j ELSE Hash[j]][i] : i \in Flight}
  BY <1>2, <1>4
<1> QED BY <1>1, <1>3, <1>5 DEF Promise!Post, Chat, BytesOf

\* A file goes only when its bytes are in the chat.
LEMMA UnlinkRemoves ==
    ASSUME TypeOK, Shape, pc = "unlink" => Delivered(cur), Unlink
    PROVE  Promise!Remove \/ UNCHANGED Promise!vars
<1>1. cur \in Item /\ BytesOf(cur) \in Chat
  BY DeliveredIsInChat DEF Unlink, Shape, CursorShape
<1>2. UNCHANGED <<items, posted>> /\ removed' \in {removed, removed \cup {cur}}
  BY DEF Unlink
<1> QED BY <1>1, <1>2 DEF Promise!Remove, Promise!vars, BytesOf, Chat

\* The verdicts of a batch, row by row.
LEMMA VerdictRecords ==
    ASSUME Inductive, Evidence,
           NEW i \in Item, CheckExists(i) \/ Dedup(i) \/ Settle(i) \/ Release(i)
    PROVE  Promise!Record
<1>0. GoodTable(items) /\ UNCHANGED <<posted, removed>>
  BY DEF Inductive, CheckExists, Dedup, Settle, Release, history
<1>1. CASE \/ items' = items \/ items' = Requeue(items, i)
           \/ \E e, d : items' = MarkFailed(items, i, e, d)
  <2>1. FreeMoves(items, items')
    <3>1. FreeMoves(items, items)
      BY DEF FreeMoves, FreeMove
    <3> QED BY <1>0, <1>1, <3>1, MovesOfVerdicts
  <2> QED BY <1>0, <2>1, FreeMovesRecord
<1>2. ASSUME items' = MarkSent(items, i) \/ items' = MarkDeduplicated(items, i)
      PROVE  RecordingMoves(items, items', i)
  BY <1>0, <1>2, MovesOfVerdicts
<1>3. CASE Dedup(i) /\ items' = MarkDeduplicated(items, i) /\ SentTwin(items, i) # {}
  <2>1. PICK j \in SentTwin(items, i) : TRUE
    BY <1>3
  <2>2. Delivered(i)
    BY <2>1, DeliveredByCopy DEF SentTwin, SameBytes, Evidence, SentOnlyAfterDelivery, WithStatus
  <2> QED BY <1>0, <1>2, <1>3, <2>2, RecordingMovesRecord
<1>4. CASE Settle(i) /\ verdict = "ok" /\ items' = MarkSent(items, i)
  <2>1. Delivered(i)
    BY <1>4 DEF Settle, Inductive, Shape, BatchShape, Evidence, PostedEvidence, Loop, Delivered
  <2> QED BY <1>0, <1>2, <1>4, <2>1, RecordingMovesRecord
<1>5. CASE Release(i) /\ verdict = "ok" /\ items' = MarkDeduplicated(items, i)
  <2>1. PICK j \in present : SameBytes(i, j)
    BY <1>5 DEF Release, Inductive, Shape, BatchShape, HeldBehindSurvivor, BatchPC, Loop
  <2>2. Delivered(i)
    BY <1>5, <2>1 DEF Release, Inductive, TypeOK, Evidence, PostedEvidence, Loop, Delivered
  <2> QED BY <1>0, <1>2, <1>5, <2>2, RecordingMovesRecord
<1> QED BY <1>1, <1>3, <1>4, <1>5 DEF CheckExists, Dedup, Settle, Release

\* ... and of one row of the fallback.
LEMMA FallbackRecords ==
    ASSUME Inductive, Evidence, FallbackSettle PROVE Promise!Record
<1>0. GoodTable(items) /\ UNCHANGED <<posted, removed>>
  BY DEF Inductive, FallbackSettle, history
<1>1. CASE \/ items' = Requeue(items, cur) \/ items' = Quarantine(items, cur)
           \/ \E e, d : items' = MarkFailed(items, cur, e, d)
  <2>1. FreeMoves(items, items')
    BY <1>0, <1>1, MovesOfVerdicts
  <2> QED BY <1>0, <2>1, FreeMovesRecord
<1>2. CASE verdict = "ok" /\ items' = MarkSent(items, cur)
  <2>1. cur \in Item /\ Delivered(cur)
    BY <1>2 DEF FallbackSettle, Inductive, Shape, CursorShape, Evidence, PostedEvidence, Delivered
  <2>2. RecordingMoves(items, items', cur)
    BY <1>0, <1>2, MovesOfVerdicts
  <2> QED BY <1>0, <2>1, <2>2, RecordingMovesRecord
<1> QED BY <1>1, <1>2 DEF FallbackSettle

\* The clock moves no status.
LEMMA ClockRecords ==
    ASSUME GoodTable(items), Clock PROVE FreeMoves(items, items')
<1> USE DEF FreeMoves, FreeMove, GoodTable, GoodRow, Row
<1>1. CASE SecondPasses
  BY <1>1 DEF SecondPasses, Update
<1>2. ASSUME NEW i \in Item, ClaimExpires(i) PROVE FreeMoves(items, items')
  BY <1>2 DEF ClaimExpires
<1>3. ASSUME NEW i \in Item, BackoffExpires(i) PROVE FreeMoves(items, items')
  BY <1>3 DEF BackoffExpires
<1> QED BY <1>1, <1>2, <1>3 DEF Clock

\* The transactions of everyone but the batch: the watchdogs, the claim,
\* housekeeping, the producers and the operator.
LEMMA OthersRecord ==
    ASSUME Inductive,
           \/ Start \/ AuthLost \/ GraceExpired \/ ClaimBatch \/ DropRow
           \/ HkDeleteGone \/ HkPrune \/ HkRearm \/ HkRetry \/ HkWatchdog
           \/ ResetFailed \/ ResetUploads \/ Clock
           \/ \E i \in Item : Enqueue(i) \/ QueueRetry(i) \/ QueueCancel(i)
    PROVE  Promise!Record
<1>0. GoodTable(items)
  BY DEF Inductive
<1>1. UNCHANGED <<posted, removed>>
  BY DEF Start, AuthLost, GraceExpired, ClaimBatch, DropRow, HkDeleteGone, HkPrune, HkRearm,
     HkRetry, HkWatchdog, Housekeep, ResetFailed, ResetUploads, Clock, Enqueue, QueueRetry,
     QueueCancel, Command, Others, SecondPasses, ClaimExpires, BackoffExpires, history
<1>2. FreeMoves(items, items)
  BY DEF FreeMoves, FreeMove
<1>3. CASE Start \/ AuthLost \/ GraceExpired \/ HkDeleteGone \/ HkPrune \/ HkRearm \/ HkWatchdog \/ DropRow
  <2>1. FreeMoves(items, items')
    BY <1>0, <1>2, <1>3, MovesOfHousekeeping
    DEF Start, AuthLost, GraceExpired, HkDeleteGone, HkPrune, HkRearm, HkWatchdog, DropRow
  <2> QED BY <1>1, <2>1, FreeMovesRecord
<1>4. CASE ClaimBatch
  <2>1. FreeMoves(items, items')
    BY <1>0, <1>4, MovesOfVerdicts DEF ClaimBatch, Batches
  <2> QED BY <1>1, <2>1, FreeMovesRecord
<1>5. CASE \/ HkRetry \/ ResetFailed \/ ResetUploads
           \/ \E i \in Item : Enqueue(i) \/ QueueRetry(i) \/ QueueCancel(i)
  <2>1. FreeMoves(items, items')
    BY <1>0, <1>2, <1>5, MovesOfProducersAndOperators
    DEF HkRetry, ResetFailed, ResetUploads, Enqueue, QueueRetry, QueueCancel
  <2> QED BY <1>1, <2>1, FreeMovesRecord
<1>6. CASE Clock
  BY <1>0, <1>1, <1>6, ClockRecords, FreeMovesRecord
<1> QED BY <1>3, <1>4, <1>5, <1>6

\* Each step of the dispatcher and its surroundings is a step of Delivery, or
\* none.
LEMMA StepRefines ==
    ASSUME Inductive, Evidence, [Next]_vars
    PROVE  [Promise!Next]_(Promise!vars)
<1>0. TypeOK /\ Shape /\ (pc = "unlink" => Delivered(cur))
  BY DEF Inductive, Evidence
<1>1. CASE ServerAccepts
  BY <1>0, <1>1, AcceptedPosts DEF Promise!Next
<1>2. CASE Unlink
  BY <1>0, <1>2, UnlinkRemoves DEF Promise!Next
<1>3. CASE \E i \in Item : CheckExists(i) \/ Dedup(i) \/ Settle(i) \/ Release(i)
  BY <1>3, VerdictRecords DEF Promise!Next
<1>4. CASE FallbackSettle
  BY <1>4, FallbackRecords DEF Promise!Next
<1>5. CASE \/ Start \/ AuthLost \/ GraceExpired \/ ClaimBatch \/ DropRow
           \/ HkDeleteGone \/ HkPrune \/ HkRearm \/ HkRetry \/ HkWatchdog
           \/ ResetFailed \/ ResetUploads \/ Clock
           \/ \E i \in Item : Enqueue(i) \/ QueueRetry(i) \/ QueueCancel(i)
  BY <1>5, OthersRecord DEF Promise!Next
<1>6. CASE UNCHANGED <<items, posted, removed>>
  BY <1>6 DEF Promise!vars
<1>7. ASSUME \/ StopAtTop \/ Crash \/ HkRaises \/ BeginHousekeeping \/ SkipHousekeeping
             \/ HkSelectGone \/ HkSelectTransient \/ ClaimNothing \/ AllChecked \/ AllDeduped
             \/ Route \/ Resend \/ SendReturns \/ AllSettled \/ AllReleased
             \/ FallbackReturns \/ AllFallenBack \/ CleanFallbackRow \/ AllCleaned
             \/ UNCHANGED vars
             \/ \E i \in Item : FallbackPick(i) \/ CleanBatchRow(i) \/ UserMoves(i)
      PROVE  UNCHANGED <<items, posted, removed>>
  BY <1>7 DEF vars, history, LeaveTop, Housekeep, StopAtTop, Crash, HkRaises, BeginHousekeeping,
     SkipHousekeeping, HkSelectGone, HkSelectTransient, ClaimNothing, AllChecked, AllDeduped,
     Route, Resend, SendReturns, AllSettled, AllReleased, FallbackReturns, AllFallenBack,
     CleanFallbackRow, AllCleaned, FallbackPick, CleanBatchRow, UserMoves
<1> QED BY <1>1, <1>2, <1>3, <1>4, <1>5, <1>6, <1>7 DEF Next, Drain, Faults, Clock, Operators

\* The dispatcher - with its crashes, cancellations, housekeeping, commands and
\* the files that come and go - implements the life of the queue Delivery
\* states: only a pending row is claimed, only a claimed row whose bytes are in
\* the chat is recorded as sent, a concluded row never fails, the chat never
\* loses a message and no file goes before its bytes are there.
THEOREM ImplementsDelivery == Spec => KeepsPromise
<1>1. Init => Promise!Init
  BY DEF Init, NoRow, Promise!Init
<1>2. IInv /\ [Next]_vars => [Promise!Next]_(Promise!vars)
  BY StepRefines DEF IInv
<1> QED BY <1>1, <1>2, Invariance, PTL DEF Spec, KeepsPromise, Promise!Spec

=============================================================================
