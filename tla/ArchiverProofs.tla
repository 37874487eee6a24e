---------------------------- MODULE ArchiverProofs ----------------------------
(***************************************************************************)
(* Proofs about the archiver: what one account's fetching leaves behind    *)
(* (Frontier), for every calendar, backlog and abort length, and the loop  *)
(* over the accounts of a platform (ScanLoop), for every roster, priority  *)
(* list and threshold.                                                     *)
(*                                                                         *)
(* Why no ground is lost: a walk fetches whatever the cutoff lets through, *)
(* and what it does not fetch is either older than what it was cut at or   *)
(* excused.  So where a cutoff holds, or is about to, an unfetched post    *)
(* has an excuse, or all that is newer was fetched by walks that were cut  *)
(* (Cuts): then the only thing that may hide it is one of the excuses.     *)
(* last_run is a cutoff only of an account without rows, and is the day on *)
(* which the run began: posts older than it had their walk (Dates).        *)
(*                                                                         *)
(* Why the alarm is true: on a live session only the accounts that cannot  *)
(* be found add to the streak, each once in a run (Quiet); on a dead one   *)
(* every account that is stamped has added to it (Counted).                *)
(***************************************************************************)
EXTENDS Frontier, ScanLoop, FiniteSetTheorems, WellFoundedInduction, TLAPS

-----------------------------------------------------------------------------
(* Frontier: the invariant *)

Unfetched == posts \ archive

\* Behind a walk that returned, or was skipped.
After == {"register", "stamp", "close"}

\* What has a row has been archived, but for what the user had on disk before
\* the first reconcile.
Rows ==
    /\ platform \in Platforms
    /\ today \in 0..LastDay /\ posts \subseteq 1..today /\ archive \subseteq posts
    /\ runDay \in 0..today /\ lastRun \in 0..today
    /\ recorded \subseteq 0..LastDay /\ torn \subseteq Post
    /\ row \in [Post -> {"none", "file", "pending", "sent"}]
    /\ \A p \in Post : /\ row[p] # "none" => p \in posts
                       /\ row[p] \in {"pending", "sent"} => p \in archive
    /\ Files \subseteq archive \/ (~full /\ pc \in {"idle", "reconcile"})
    /\ pc = "register" => fresh \subseteq Files

\* All that was fetched of what is newer was fetched by walks that were cut.
CutOff(p) == \A q \in archive : q > p => p \in cut /\ q \in torn

\* Where a cutoff holds, or is about to.
Cuts == full \/ pc \in After => \A p \in Unfetched : Excused(p) \/ CutOff(p)

\* What is older than the day of the last run was left for a cause.
Dates ==
    /\ full => \A p \in Unfetched : p > lastRun \/ Excused(p)
    /\ pc \in After => \A p \in Unfetched : p > runDay \/ Excused(p)
    /\ pc = "close" => lastRun = runDay

FInv == Rows /\ Cuts /\ Dates

-----------------------------------------------------------------------------
(* Frontier: lemmas *)

\* Days and posts are positive numbers, finitely many.
LEMMA Days == /\ LastDay \in Nat \ {0} /\ AbortAfter \in Nat \ {0}
              /\ Post \subseteq Nat /\ 0 \notin Post /\ IsFiniteSet(Post)
BY FrontierAssumption, FS_Interval DEF Post

\* A set of days that is not empty has a newest one.
LEMMA NewestIsOne ==
    ASSUME NEW S, S \subseteq 0..LastDay, S # {}
    PROVE  Newest(S) \in S /\ \A x \in S : x <= Newest(S)
<1> DEFINE Less == OpToRel(<, Nat)
           T == {n \in 0..LastDay : LastDay - n \in S}
<1>1. IsWellFoundedOn(Less, Nat)
  BY NatLessThanWellFounded
<1>2. \A x, y \in Nat : <<x, y>> \in Less <=> x < y
  BY DEF OpToRel
<1>3. T \subseteq Nat /\ T # {}
  <2>1. PICK d \in S : TRUE
    OBVIOUS
  <2>2. d \in 0..LastDay
    OBVIOUS
  <2>3. LastDay - d \in 0..LastDay /\ LastDay - (LastDay - d) = d
    BY <2>2, Days
  <2>4. LastDay - d \in T
    BY <2>3
  <2>5. 0..LastDay \subseteq Nat
    BY Days
  <2> QED BY <2>4, <2>5
<1> HIDE DEF Less
<1>4. PICK n \in T : \A m \in T : ~ (<<m, n>> \in Less)
  BY <1>1, <1>3, WFMin
<1>5. LastDay - n \in S
  BY <1>4
<1>6. ASSUME NEW y \in S PROVE LastDay - n >= y
  <2>1. y \in 0..LastDay /\ LastDay - y \in 0..LastDay /\ LastDay - (LastDay - y) = y
    BY Days
  <2>2. LastDay - y \in T
    BY <2>1
  <2>3. LastDay - y \in Nat /\ n \in Nat /\ ~ (LastDay - y < n)
    BY <1>2, <1>3, <1>4, <2>2
  <2> QED BY <2>1, <2>3, Days
<1>7. \E x \in S : \A y \in S : x >= y
  BY <1>5, <1>6
<1>8. Newest(S) \in S /\ \A y \in S : Newest(S) >= y
  BY <1>7 DEF Newest, Max
<1> QED BY <1>8, Days

\* What a walk wants was posted, on a day that has a number.
LEMMA PostsAreDays ==
    ASSUME Rows
    PROVE  posts \subseteq Post /\ Wanted \subseteq posts \ archive /\ \A p \in posts : p \in Nat /\ p > 0
<1>1. posts \subseteq Post
  BY Days DEF Rows, Post
<1> QED BY <1>1, Days DEF Wanted, Post

\* What a fetch does to the table and the archive.
LEMMA Fetched ==
    ASSUME Rows, NEW lost, Fetch(lost)
    PROVE  /\ archive' = archive \cup (Wanted \ lost) /\ archive' \subseteq posts
           /\ row' \in [Post -> {"none", "file", "pending", "sent"}]
           /\ \A p \in Post : /\ row'[p] # "none" => p \in posts
                              /\ row'[p] \in {"pending", "sent"} => p \in archive /\ row'[p] = row[p]
                              /\ row[p] = "sent" => row'[p] = "sent"
           /\ fresh' \subseteq Files' /\ Files' \subseteq Files \cup archive'
           /\ UNCHANGED <<platform, today, posts, recorded, lastRun, full, runDay>>
<1>1. /\ archive' = archive \cup (Wanted \ lost) /\ fresh' = Wanted \ lost
      /\ row' = [p \in Post |-> IF p \in fresh' THEN "file" ELSE row[p]]
      /\ UNCHANGED <<platform, today, posts, recorded, lastRun, full, runDay>>
  BY DEF Fetch, time, checkpoint
<1>2. fresh' \subseteq posts \ archive /\ fresh' \subseteq Post
  BY <1>1, PostsAreDays
<1>3. archive' \subseteq posts /\ row' \in [Post -> {"none", "file", "pending", "sent"}]
  BY <1>1, <1>2 DEF Rows
<1>4. \A p \in Post : /\ row'[p] # "none" => p \in posts
                      /\ row'[p] \in {"pending", "sent"} => p \in archive /\ row'[p] = row[p]
                      /\ row[p] = "sent" => row'[p] = "sent"
  BY <1>1, <1>2 DEF Rows
<1>5. fresh' \subseteq Files' /\ Files' \subseteq Files \cup archive'
  BY <1>1, <1>2 DEF Files
<1> QED BY <1>1, <1>3, <1>4, <1>5

\* The invariant keeps the ground: a cutoff that hides a post is one of the
\* excuses.
LEMMA GroundKept == FInv => GroundIsKept
<1> SUFFICES ASSUME FInv, NEW p \in Missed PROVE Excused(p)
  BY DEF GroundIsKept
<1> USE Days DEF FInv
<1>1. /\ p \in Unfetched /\ full /\ Cutoff # NoCutoff
      /\ (platform = "x" /\ Aborted(p)) \/ (platform = "tiktok" /\ ~ (p >= Cutoff))
  BY FrontierAssumption DEF Missed, Wanted, Unfetched, Cutoff, Rows
<1>2. Excused(p) \/ CutOff(p)
  BY <1>1 DEF Cuts
<1>3. p \in Post
  BY <1>1 DEF Unfetched, Rows, Post
<1>4. CASE platform = "x" /\ Aborted(p) /\ CutOff(p)
  <2>1. PICK S \in kSubset(AbortAfter, {q \in archive \cap posts : q > p}) : TRUE
    BY <1>4 DEF Aborted
  <2>2. S \subseteq {q \in archive \cap posts : q > p} /\ Cardinality(S) = AbortAfter
    BY <2>1 DEF kSubset
  <2>3. S # {}
    BY <2>2, FS_EmptySet
  <2>4. p \in cut /\ S \subseteq {q \in torn : q > p}
    BY <1>4, <2>2, <2>3 DEF CutOff
  <2>5. IsFiniteSet({q \in torn : q > p})
    <3>1. {q \in torn : q > p} \in SUBSET Post
      BY DEF Rows
    <3> QED BY <3>1, FS_Subset
  <2>6. Cardinality({q \in torn : q > p}) >= AbortAfter
    <3>1. Cardinality(S) <= Cardinality({q \in torn : q > p}) /\ Cardinality({q \in torn : q > p}) \in Nat
      BY <2>4, <2>5, FS_Subset, FS_CardinalityType
    <3> QED BY <2>2, <3>1
  <2> QED BY <1>4, <2>4, <2>6 DEF Excused
<1>5. CASE platform = "tiktok" /\ ~ (p >= Cutoff) /\ CutOff(p)
  <2>1. CASE Sent \cup recorded = {}
    <3>1. Cutoff = lastRun - 1 /\ lastRun \in Nat
      BY <1>1, <2>1 DEF Cutoff, Rows
    <3>2. ~ (p > lastRun)
      BY <1>3, <1>5, <3>1
    <3> QED BY <1>1, <3>2 DEF Dates
  <2>2. CASE Sent \cup recorded # {}
    <3>1. PICK m \in Sent \cup recorded : m = Newest(Sent \cup recorded)
      <4>1. Sent \cup recorded \subseteq 0..LastDay
        <5>1. Sent \subseteq 0..LastDay /\ recorded \subseteq 0..LastDay
          BY DEF Sent, Post, Rows
        <5> QED BY <5>1
      <4> QED BY <2>2, <4>1, NewestIsOne
    <3>2. m \in Nat /\ Cutoff = m - 1
      BY <1>1, <2>2, <3>1 DEF Cutoff, Sent, Rows
    <3>3. m > p
      BY <1>3, <1>5, <3>2
    <3>4. CASE m \in Sent
      <4>1. m \in archive /\ row[m] = "sent"
        BY <3>4 DEF Sent, Rows
      <4> QED BY <1>5, <3>3, <4>1 DEF Excused, CutOff
    <3>5. CASE m \in recorded
      BY <3>3, <3>5 DEF Excused
    <3> QED BY <3>4, <3>5
  <2> QED BY <2>1, <2>2
<1> QED BY <1>1, <1>2, <1>4, <1>5

\* What a fetch leaves.
LEMMA FetchLeaves ==
    ASSUME FInv, NEW lost, Fetch(lost)
    PROVE  /\ \A p \in Unfetched' : Excused(p) \/ p \in Wanted \cap lost
           /\ archive' = archive \cup (Wanted \ lost) /\ archive' \subseteq posts
           /\ UNCHANGED <<platform, today, posts, recorded, lastRun, full, runDay>>
<1>1. /\ archive' = archive \cup (Wanted \ lost) /\ archive' \subseteq posts
      /\ UNCHANGED <<platform, today, posts, recorded, lastRun, full, runDay>>
  BY DEF Fetch, Wanted, time, checkpoint, FInv, Rows
<1>2. ASSUME NEW p \in Unfetched', p \notin Wanted \cap lost PROVE Excused(p)
  <2>1. p \in posts \ archive /\ p \notin Wanted
    BY <1>1, <1>2 DEF Unfetched
  <2> QED BY <2>1, GroundKept DEF GroundIsKept, Missed
<1> QED BY <1>1, <1>2

-----------------------------------------------------------------------------
(* Frontier: every step *)

\* Rows is inductive on its own.
LEMMA RowsStep ==
    ASSUME Rows, Next
    PROVE  Rows'
<1> USE Days DEF Rows, Files, Post, table, checkpoint, history, cycle, time
<1>1. CASE StartRun
  BY <1>1 DEF StartRun
<1>2. CASE Reconcile
  BY <1>2 DEF Reconcile, RegisterFresh
<1>3. CASE Walk
  <2>1. PICK lost : Fetch(lost)
    BY <1>3 DEF Walk
  <2>2. UNCHANGED <<platform, today, posts, recorded, lastRun, full, runDay>> /\ archive' \subseteq posts
        /\ row' \in [Post -> {"none", "file", "pending", "sent"}]
    BY <2>1, Fetched
  <2>3. \A p \in Post : /\ row'[p] # "none" => p \in posts
                        /\ row'[p] \in {"pending", "sent"} => p \in archive'
    BY <2>1, Fetched
  <2>4. pc = "fetch"
    BY <1>3 DEF Walk
  <2>5. Files' \subseteq archive' /\ fresh' \subseteq Files'
    BY <2>1, <2>4, Fetched DEF Rows
  <2>6. torn' \subseteq Post
    BY <1>3, PostsAreDays DEF Walk, Torn, Rows
  <2> QED BY <2>2, <2>3, <2>5, <2>6 DEF Rows
<1>4. CASE RegisterNew
  BY <1>4 DEF RegisterNew, RegisterFresh
<1>5. CASE Stamp
  BY <1>5 DEF Stamp
<1>6. CASE CloseGate
  BY <1>6 DEF CloseGate
<1>7. CASE EndRun
  BY <1>7 DEF EndRun, RegisterFresh
<1>8. CASE WalkBreaks
  <2>1. PICK lost : Fetch(lost)
    BY <1>8 DEF WalkBreaks
  <2>2. UNCHANGED <<platform, today, posts, recorded, lastRun, full, runDay>> /\ archive' \subseteq posts
        /\ row' \in [Post -> {"none", "file", "pending", "sent"}]
    BY <2>1, Fetched
  <2>3. \A p \in Post : /\ row'[p] # "none" => p \in posts
                        /\ row'[p] \in {"pending", "sent"} => p \in archive'
    BY <2>1, Fetched
  <2>4. pc = "fetch"
    BY <1>8 DEF WalkBreaks
  <2>5. Files' \subseteq archive' /\ fresh' \subseteq Files'
    BY <2>1, <2>4, Fetched DEF Rows
  <2>6. torn' \subseteq Post
    BY <1>8, PostsAreDays DEF WalkBreaks, Torn, Rows
  <2> QED BY <2>2, <2>3, <2>5, <2>6 DEF Rows
<1>9. CASE AuthFails
  <2>1. PICK lost : Fetch(lost)
    BY <1>9 DEF AuthFails, Torn
  <2>2. UNCHANGED <<platform, today, posts, recorded, lastRun, full, runDay>> /\ archive' \subseteq posts
        /\ row' \in [Post -> {"none", "file", "pending", "sent"}]
    BY <2>1, Fetched
  <2>3. \A p \in Post : /\ row'[p] # "none" => p \in posts
                        /\ row'[p] \in {"pending", "sent"} => p \in archive'
    BY <2>1, Fetched
  <2>4. pc = "fetch"
    BY <1>9 DEF AuthFails, Torn
  <2>5. Files' \subseteq archive' /\ fresh' \subseteq Files'
    BY <2>1, <2>4, Fetched DEF Rows
  <2>6. torn' \subseteq Post
    BY <1>9, PostsAreDays DEF AuthFails, Torn, Rows
  <2> QED BY <2>2, <2>3, <2>5, <2>6 DEF Rows
<1>10. CASE SkipForRecorder
  BY <1>10 DEF SkipForRecorder, Fault
<1>11. CASE Kill
  <2>1. CASE pc = "fetch" /\ \E k \in Wanted \cup {0} : Torn(k)
    <3>1. PICK lost : Fetch(lost)
      BY <2>1 DEF Torn
    <3>2. UNCHANGED <<platform, today, posts, recorded, lastRun, full, runDay>> /\ archive' \subseteq posts
          /\ row' \in [Post -> {"none", "file", "pending", "sent"}]
      BY <3>1, Fetched
    <3>3. \A p \in Post : /\ row'[p] # "none" => p \in posts
                          /\ row'[p] \in {"pending", "sent"} => p \in archive'
      BY <3>1, Fetched
    <3>4. pc = "fetch"
      BY <2>1 DEF Torn
    <3>5. Files' \subseteq archive' /\ fresh' \subseteq Files'
      BY <3>1, <3>4, Fetched DEF Rows
    <3>6. torn' \subseteq Post
      BY <2>1, PostsAreDays DEF Torn, Rows
    <3> QED BY <3>2, <3>3, <3>5, <3>6 DEF Rows
  <2>2. CASE pc # "fetch"
    <3>1. /\ UNCHANGED <<platform, today, posts, archive, row, recorded, lastRun, full, runDay>>
          /\ UNCHANGED <<passed, cut, torn>> /\ pc' = "idle"
      BY <1>11, <2>2 DEF Kill
    <3> QED BY <3>1
  <2> QED BY <1>11, <2>1, <2>2 DEF Kill
<1>12. CASE NextDay
  <2>1. today' = today + 1 /\ today' \in 0..LastDay /\ posts' \subseteq posts \cup {today'} /\ posts \subseteq posts'
    BY <1>12 DEF NextDay
  <2>2. posts' \subseteq 1..today' /\ runDay \in 0..today' /\ lastRun \in 0..today'
    BY <2>1
  <2> QED BY <1>12, <2>1, <2>2 DEF NextDay
<1>13. CASE DeliverRecording
  BY <1>13 DEF DeliverRecording, Fault
<1>14. CASE Rearm
  BY <1>14 DEF Rearm, Fault
<1>15. ASSUME NEW p \in Post, Deliver(p) PROVE Rows'
  BY <1>15 DEF Deliver
<1> QED
  BY <1>1, <1>2, <1>3, <1>4, <1>5, <1>6, <1>7, <1>8, <1>9, <1>10, <1>11, <1>12, <1>13,
     <1>14, <1>15 DEF Next, Step

\* Rows stay sent, recordings stay, and the histories only grow.
LEMMA HistoryGrows ==
    ASSUME Rows, Next
    PROVE  /\ UNCHANGED platform /\ passed \subseteq passed' /\ recorded \subseteq recorded'
           /\ cut \subseteq cut' /\ torn \subseteq torn'
           /\ \A q \in Post : row[q] = "sent" => row'[q] = "sent"
<1> DEFINE Grows == /\ UNCHANGED platform /\ passed \subseteq passed' /\ recorded \subseteq recorded'
                    /\ cut \subseteq cut' /\ torn \subseteq torn'
                    /\ \A q \in Post : row[q] = "sent" => row'[q] = "sent"
<1> USE DEF Rows, Files, table, checkpoint, history, cycle, time
<1>1. CASE StartRun
  BY <1>1 DEF StartRun
<1>2. CASE Reconcile
  BY <1>2 DEF Reconcile, RegisterFresh
<1>3. CASE Walk
  <2>1. PICK lost : Fetch(lost)
    BY <1>3 DEF Walk
  <2>2. /\ UNCHANGED <<platform, recorded>> /\ passed \subseteq passed' /\ cut \subseteq cut' /\ torn \subseteq torn'
    BY <1>3, <2>1, Fetched DEF Walk, Torn
  <2> QED BY <2>1, <2>2, Fetched
<1>4. CASE RegisterNew
  BY <1>4 DEF RegisterNew, RegisterFresh
<1>5. CASE Stamp
  BY <1>5 DEF Stamp
<1>6. CASE CloseGate
  BY <1>6 DEF CloseGate
<1>7. CASE EndRun
  BY <1>7 DEF EndRun, RegisterFresh
<1>8. CASE WalkBreaks
  <2>1. PICK lost : Fetch(lost)
    BY <1>8 DEF WalkBreaks
  <2>2. /\ UNCHANGED <<platform, recorded>> /\ passed \subseteq passed' /\ cut \subseteq cut' /\ torn \subseteq torn'
    BY <1>8, <2>1, Fetched DEF WalkBreaks, Torn
  <2> QED BY <2>1, <2>2, Fetched
<1>9. CASE AuthFails
  <2>1. PICK lost : Fetch(lost)
    BY <1>9 DEF AuthFails, Torn
  <2>2. /\ UNCHANGED <<platform, recorded>> /\ passed \subseteq passed' /\ cut \subseteq cut' /\ torn \subseteq torn'
    BY <1>9, <2>1, Fetched DEF AuthFails, Torn
  <2> QED BY <2>1, <2>2, Fetched
<1>10. CASE SkipForRecorder
  BY <1>10 DEF SkipForRecorder, Fault
<1>11. CASE Kill
  <2>1. CASE pc = "fetch" /\ \E k \in Wanted \cup {0} : Torn(k)
    <3>1. PICK lost : Fetch(lost)
      BY <2>1 DEF Torn
    <3>2. /\ UNCHANGED <<platform, recorded>> /\ passed \subseteq passed' /\ cut \subseteq cut' /\ torn \subseteq torn'
      BY <2>1, <3>1, Fetched DEF Torn
    <3> QED BY <3>1, <3>2, Fetched
  <2>2. CASE pc # "fetch"
    <3>1. /\ UNCHANGED <<platform, today, posts, archive, row, recorded, lastRun, full, runDay>>
          /\ UNCHANGED <<passed, cut, torn>> /\ pc' = "idle"
      BY <1>11, <2>2 DEF Kill
    <3> QED BY <3>1
  <2> QED BY <1>11, <2>1, <2>2 DEF Kill
<1>12. CASE NextDay
  BY <1>12 DEF NextDay
<1>13. CASE DeliverRecording
  BY <1>13 DEF DeliverRecording, Fault
<1>14. CASE Rearm
  BY <1>14 DEF Rearm, Fault
<1>15. ASSUME NEW p \in Post, Deliver(p) PROVE Grows
  BY <1>15 DEF Deliver
<1> QED
  BY <1>1, <1>2, <1>3, <1>4, <1>5, <1>6, <1>7, <1>8, <1>9, <1>10, <1>11, <1>12, <1>13,
     <1>14, <1>15 DEF Next, Step

\* No excuse is ever withdrawn.
LEMMA ExcusesStay ==
    ASSUME Rows, Next, NEW p, Excused(p)
    PROVE  Excused(p)'
<1> USE HistoryGrows
<1>1. CASE p \in passed \/ \E d \in recorded : d > p
  BY <1>1 DEF Excused
<1>2. CASE p \in cut /\ platform = "x" /\ Cardinality({q \in torn : q > p}) >= AbortAfter
  <2>1. {q \in torn : q > p} \subseteq {q \in torn' : q > p} /\ {q \in torn' : q > p} \in SUBSET Post
    BY RowsStep DEF Rows
  <2>2. IsFiniteSet({q \in torn' : q > p})
    BY <2>1, Days, FS_Subset
  <2>3. /\ Cardinality({q \in torn : q > p}) <= Cardinality({q \in torn' : q > p})
        /\ Cardinality({q \in torn : q > p}) \in Nat /\ Cardinality({q \in torn' : q > p}) \in Nat
    <3>1. IsFiniteSet({q \in torn : q > p})
      BY <2>1, <2>2, FS_Subset
    <3> QED BY <2>1, <2>2, <3>1, FS_Subset, FS_CardinalityType
  <2>4. Cardinality({q \in torn' : q > p}) >= AbortAfter
    BY <1>2, <2>3, Days
  <2> QED BY <1>2, <2>4 DEF Excused
<1>3. CASE p \in cut /\ platform # "x" /\ \E q \in torn : q > p /\ row[q] = "sent"
  <2>1. PICK q \in torn : q > p /\ row[q] = "sent"
    BY <1>3
  <2>2. q \in Post /\ q \in torn'
    BY DEF Rows
  <2>3. row'[q] = "sent" /\ UNCHANGED platform /\ p \in cut'
    BY <1>3, <2>1, <2>2
  <2> QED BY <1>3, <2>1, <2>2, <2>3 DEF Excused
<1> QED BY <1>1, <1>2, <1>3 DEF Excused

\* A walk that is cut: what it leaves was cut off, and what it fetched is torn.
LEMMA TornIsCut ==
    ASSUME FInv, Next, NEW k \in Nat, Torn(k), full
    PROVE  \A p \in Unfetched' : Excused(p)' \/ CutOff(p)'
<1> SUFFICES ASSUME NEW p \in Unfetched', ~ Excused(p)' PROVE CutOff(p)'
  OBVIOUS
<1>1. Fetch(Missing(k)) /\ cut' = cut \cup Missing(k) /\ torn' = torn \cup {q \in Wanted : q > k}
  BY DEF Torn
<1>2. ~ Excused(p)
  BY ExcusesStay DEF FInv
<1>3. p \in Wanted \cap Missing(k) /\ archive' = archive \cup (Wanted \ Missing(k)) /\ UNCHANGED posts
  BY <1>1, <1>2, FetchLeaves
<1>4. p \in Unfetched /\ p \in Post
  BY <1>3, PostsAreDays DEF Unfetched, FInv
<1>5. CutOff(p)
  BY <1>2, <1>4 DEF FInv, Cuts
<1>6. p \in cut'
  BY <1>1, <1>3
<1>7. Wanted \ Missing(k) = {q \in Wanted : q > k}
  <2>1. \A q \in Wanted : q \in Nat
    BY PostsAreDays DEF FInv
  <2>2. k \in Nat /\ \A q \in Nat : q > k <=> ~ (q <= k)
    OBVIOUS
  <2> QED BY <2>1, <2>2 DEF Missing
<1> QED BY <1>1, <1>3, <1>5, <1>6, <1>7 DEF CutOff


\* A walk that returns, is skipped, is cut or breaks off leaves what Cuts says.
LEMMA CutsStep ==
    ASSUME FInv, Next
    PROVE  Cuts'
<1> USE DEF FInv, After, table, checkpoint, history, cycle, time
<1>0. \A p : Excused(p) => Excused(p)'
  BY ExcusesStay
<1>1. CASE Reconcile
  <2>1. CASE ~ full
    BY <1>1, <2>1 DEF Reconcile, Cuts
  <2>2. CASE full
    <3>1. UNCHANGED <<archive, posts, cut, torn, full>>
      BY <1>1, <2>2 DEF Reconcile, Rows
    <3> QED BY <1>0, <2>2, <3>1 DEF Cuts, Unfetched, CutOff
  <2> QED BY <2>1, <2>2
<1>2. CASE Walk
  <2>1. Fetch({})
    BY <1>2 DEF Walk
  <2>2. ASSUME NEW p \in Unfetched' PROVE Excused(p)
    BY <2>1, <2>2, FetchLeaves
  <2> QED BY <1>0, <2>2 DEF Cuts
<1>3. CASE EndRun
  <2>1. UNCHANGED <<archive, posts, cut, torn, full>> /\ pc' = "idle"
    BY <1>3 DEF EndRun, Rows
  <2> QED BY <1>0, <2>1 DEF Cuts, Unfetched, CutOff
<1>4. CASE WalkBreaks
  <2>1. PICK lost \in SUBSET Wanted : Fetch(lost) /\ passed' = passed \cup lost
    BY <1>4 DEF WalkBreaks
  <2>2. ASSUME NEW p \in Unfetched' PROVE Excused(p)'
    <3>1. Excused(p) \/ p \in lost
      BY <2>1, <2>2, FetchLeaves
    <3> QED BY <1>0, <2>1, <3>1 DEF Excused
  <2> QED BY <2>2 DEF Cuts
<1>5. CASE AuthFails
  <2>1. PICK k \in Wanted \cup {0} : Torn(k)
    BY <1>5 DEF AuthFails
  <2>2. full' = full /\ pc' \notin After
    BY <1>5, <2>1 DEF AuthFails, Torn, Fetch
  <2>3. k \in Nat
    BY PostsAreDays
  <2>4. full => \A p \in Unfetched' : Excused(p)' \/ CutOff(p)'
    BY <2>1, <2>3, TornIsCut
  <2> QED BY <2>2, <2>4 DEF Cuts
<1>6. CASE SkipForRecorder
  <2>1. passed' = passed \cup Wanted /\ UNCHANGED <<archive, posts>>
    BY <1>6 DEF SkipForRecorder
  <2>2. ASSUME NEW p \in Unfetched' PROVE Excused(p)'
    <3>1. CASE p \in Wanted
      BY <2>1, <3>1 DEF Excused
    <3>2. CASE p \notin Wanted
      <4>1. Excused(p)
        BY <2>1, <2>2, <3>2, GroundKept DEF GroundIsKept, Missed, Unfetched
      <4> QED BY <1>0, <4>1
    <3> QED BY <3>1, <3>2
  <2> QED BY <2>2 DEF Cuts
<1>7. CASE Kill
  <2>1. CASE \E k \in Wanted \cup {0} : Torn(k)
    <3>1. PICK k \in Wanted \cup {0} : Torn(k)
      BY <2>1
    <3>2. full' = full /\ pc' \notin After
      BY <1>7, <3>1 DEF Kill, Torn, Fetch
    <3>3. k \in Nat
      BY PostsAreDays
    <3>4. full => \A p \in Unfetched' : Excused(p)' \/ CutOff(p)'
      BY <3>1, <3>3, TornIsCut
    <3> QED BY <3>2, <3>4 DEF Cuts
  <2>2. CASE UNCHANGED <<archive, posts, cut, torn, full>> /\ pc' \notin After
    <3>1. full => \A p \in Unfetched : Excused(p) \/ CutOff(p)
      BY DEF Cuts
    <3> QED BY <1>0, <2>2, <3>1 DEF Cuts, Unfetched, CutOff
  <2> QED BY <1>7, <2>1, <2>2 DEF Kill
<1>8. CASE NextDay
  <2>1. /\ posts' \subseteq posts \cup {today + 1}
        /\ UNCHANGED <<archive, cut, torn, full, pc>>
    BY <1>8 DEF NextDay
  <2>2. \A q \in archive : ~ (q > today + 1)
    BY DEF Rows
  <2>3. ASSUME full \/ pc \in After, NEW p \in Unfetched' PROVE Excused(p)' \/ CutOff(p)'
    <3>1. CASE p = today + 1
      BY <2>1, <2>2, <3>1 DEF CutOff
    <3>2. CASE p # today + 1
      <4>1. p \in Unfetched
        BY <2>1, <2>3, <3>2 DEF Unfetched
      <4>2. Excused(p) \/ CutOff(p)
        BY <2>3, <4>1 DEF Cuts
      <4> QED BY <1>0, <2>1, <4>2 DEF CutOff
    <3> QED BY <3>1, <3>2
  <2> QED BY <2>1, <2>3 DEF Cuts
<1>9. CASE
       \/ StartRun \/ RegisterNew \/ Stamp \/ CloseGate \/ DeliverRecording
       \/ Rearm
       \/ \E p \in Post : Deliver(p)
  <2>1. CASE ~ (full' \/ pc' \in After)
    BY <2>1 DEF Cuts
  <2>2. CASE full' \/ pc' \in After
    <3>1. UNCHANGED <<archive, posts, cut, torn>> /\ (full \/ pc \in After)
      BY <1>9, <2>2 DEF StartRun, RegisterNew, RegisterFresh, Stamp, CloseGate,
         DeliverRecording, Fault, Rearm, Deliver, Rows
    <3>2. \A p \in Unfetched : Excused(p) \/ CutOff(p)
      BY <3>1 DEF Cuts
    <3> QED BY <1>0, <3>1, <3>2 DEF Cuts, Unfetched, CutOff
  <2> QED BY <2>1, <2>2
<1> QED
  BY <1>1, <1>2, <1>3, <1>4, <1>5, <1>6, <1>7, <1>8, <1>9 DEF Next, Step

\* So it does for Dates: last_run is stamped with the day on which the run began.
LEMMA DatesStep ==
    ASSUME FInv, Next
    PROVE  Dates'
<1> USE DEF FInv, After, table, checkpoint, history, cycle, time
<1>0. \A p : Excused(p) => Excused(p)'
  BY ExcusesStay
<1>1. CASE Reconcile
  <2>1. /\ Unfetched' \subseteq Unfetched /\ UNCHANGED <<full, lastRun>> /\ pc' = "fetch"
    BY <1>1 DEF Reconcile, Unfetched
  <2> QED BY <1>0, <2>1 DEF Dates
<1>2. CASE Walk
  <2>1. Fetch({}) /\ pc' = "register"
    BY <1>2 DEF Walk
  <2>2. ASSUME NEW p \in Unfetched' PROVE Excused(p)
    BY <2>1, <2>2, FetchLeaves
  <2> QED BY <1>0, <2>1, <2>2 DEF Dates
<1>3. CASE Stamp
  BY <1>3, <1>0 DEF Stamp, Dates, Unfetched
<1>4. CASE CloseGate
  BY <1>4, <1>0 DEF CloseGate, Dates, Unfetched
<1>5. CASE EndRun
  <2>1. /\ Unfetched' \subseteq Unfetched /\ UNCHANGED <<full, lastRun>> /\ pc' = "idle"
    BY <1>5 DEF EndRun, Unfetched
  <2> QED BY <1>0, <2>1 DEF Dates
<1>6. CASE WalkBreaks
  <2>1. PICK lost \in SUBSET Wanted : Fetch(lost) /\ passed' = passed \cup lost
    BY <1>6 DEF WalkBreaks
  <2>2. ASSUME NEW p \in Unfetched' PROVE Excused(p)'
    <3>1. Excused(p) \/ p \in lost
      BY <2>1, <2>2, FetchLeaves
    <3> QED BY <1>0, <2>1, <3>1 DEF Excused
  <2>3. pc' = "register"
    BY <1>6 DEF WalkBreaks
  <2> QED BY <2>2, <2>3 DEF Dates
<1>7. CASE AuthFails
  <2>1. /\ Unfetched' \subseteq Unfetched /\ UNCHANGED <<full, lastRun>> /\ pc' \notin After
    BY <1>7 DEF AuthFails, Wanted, Torn, Fetch, Unfetched
  <2> QED BY <1>0, <2>1 DEF Dates
<1>8. CASE SkipForRecorder
  <2>1. passed' = passed \cup Wanted /\ UNCHANGED <<archive, posts>> /\ pc' = "stamp"
    BY <1>8 DEF SkipForRecorder
  <2>2. ASSUME NEW p \in Unfetched' PROVE Excused(p)'
    <3>1. CASE p \in Wanted
      BY <2>1, <3>1 DEF Excused
    <3>2. CASE p \notin Wanted
      <4>1. Excused(p)
        BY <2>1, <2>2, <3>2, GroundKept DEF GroundIsKept, Missed, Unfetched
      <4> QED BY <1>0, <4>1
    <3> QED BY <3>1, <3>2
  <2> QED BY <2>1, <2>2 DEF Dates
<1>9. CASE Kill
  <2>1. /\ Unfetched' \subseteq Unfetched /\ UNCHANGED <<full, lastRun>> /\ pc' \notin After
    BY <1>9 DEF Kill, Torn, Fetch, Unfetched
  <2> QED BY <1>0, <2>1 DEF Dates
<1>10. CASE NextDay
  <2>1. /\ posts' \subseteq posts \cup {today + 1}
        /\ UNCHANGED <<archive, full, pc, lastRun, runDay>>
    BY <1>10 DEF NextDay
  <2>2. today + 1 > lastRun /\ today + 1 > runDay
    BY DEF Rows
  <2>3. Unfetched' \subseteq Unfetched \cup {today + 1}
    BY <2>1 DEF Unfetched
  <2> QED BY <1>0, <2>1, <2>2, <2>3 DEF Dates
<1>11. CASE
       \/ StartRun \/ RegisterNew \/ DeliverRecording \/ Rearm
       \/ \E p \in Post : Deliver(p)
  <2>1. /\ UNCHANGED <<archive, posts, lastRun>> /\ (full' => full)
        /\ (pc' \in After => pc \in After /\ runDay' = runDay) /\ (pc' = "close" => pc = "close")
    BY <1>11 DEF StartRun, RegisterNew, RegisterFresh, DeliverRecording, Fault, Rearm,
       Deliver
  <2> QED BY <1>0, <2>1 DEF Dates, Unfetched
<1> QED
  BY <1>1, <1>2, <1>3, <1>4, <1>5, <1>6, <1>7, <1>8, <1>9, <1>10, <1>11 DEF Next, Step

\* What Rows leaves open of the shape of the state.
FrontierRest ==
    /\ full \in BOOLEAN /\ fresh \subseteq Post /\ faults \in 0..FaultBound
    /\ pc \in {"idle", "reconcile", "fetch", "register", "stamp", "close", "tail"}

LEMMA FrontierRestStep ==
    ASSUME Rows, FrontierRest, Next
    PROVE  FrontierRest'
<1> USE FrontierAssumption DEF FrontierRest, table, checkpoint, history, cycle, time
<1>0. ASSUME Fault PROVE faults' \in 0..FaultBound
  BY <1>0 DEF Fault
<1>1. \A lost : Fetch(lost) => fresh' \subseteq Post /\ UNCHANGED full
  BY PostsAreDays DEF Fetch
<1>2. CASE Walk
  BY <1>1, <1>2 DEF Walk
<1>3. CASE WalkBreaks
  BY <1>0, <1>1, <1>3 DEF WalkBreaks
<1>4. CASE AuthFails
  BY <1>0, <1>1, <1>4 DEF AuthFails, Torn
<1>5. CASE Kill
  BY <1>0, <1>1, <1>5 DEF Kill, Torn
<1>6. CASE SkipForRecorder
  BY <1>0, <1>6 DEF SkipForRecorder
<1>7. CASE StartRun \/ Reconcile \/ RegisterNew \/ Stamp \/ CloseGate \/ EndRun
  BY <1>7 DEF StartRun, Reconcile, RegisterNew, Stamp, CloseGate, EndRun
<1>8. CASE DeliverRecording \/ Rearm
  BY <1>0, <1>8 DEF DeliverRecording, Rearm
<1>9. CASE NextDay \/ \E p \in Post : Deliver(p)
  BY <1>9 DEF NextDay, Deliver
<1> QED
  BY <1>2, <1>3, <1>4, <1>5, <1>6, <1>7, <1>8, <1>9 DEF Next, Step

-----------------------------------------------------------------------------
(* Frontier: the theorems *)

\* The inductive invariant of one account's fetching: what Archiver._archive_user, the
\* walks of platforms.py and the dispatcher keep true of archive, rows and checkpoints.
THEOREM FrontierInvariance == Spec => []FInv
<1>1. Init => FInv
  <2> SUFFICES ASSUME Init PROVE FInv
    OBVIOUS
  <2>1. Newest(Backlog) \in 0..LastDay /\ \A p \in Backlog : p <= Newest(Backlog)
    <3>1. CASE Backlog = {}
      BY <3>1, Days DEF Newest
    <3>2. CASE Backlog # {}
      <4>1. Backlog \subseteq 0..LastDay
        BY FrontierAssumption, Days
      <4> QED BY <3>2, <4>1, NewestIsOne
    <3> QED BY <3>1, <3>2
  <2> QED BY <2>1, FrontierAssumption DEF Init, FInv, Rows, Cuts, Dates, After, Files, Post
<1>2. FInv /\ [Next]_vars => FInv'
  <2> SUFFICES ASSUME FInv, [Next]_vars PROVE FInv'
    OBVIOUS
  <2>1. CASE Next
    BY <2>1, RowsStep, CutsStep, DatesStep DEF FInv
  <2>2. CASE UNCHANGED vars
    BY <2>2 DEF FInv, Rows, Cuts, Dates, CutOff, Excused, Unfetched, Files, vars, table,
       checkpoint, history, cycle, time
  <2> QED BY <2>1, <2>2
<1> QED BY <1>1, <1>2, PTL DEF Spec

\* GroundIsKept (_compute_date_min, set_last_run, mark_full_history_done): no post falls
\* behind the frontier but one that a walk left behind and still counted, a newer
\* recording hides, or a cut walk left below delivered - on X, archived - posts.
THEOREM GroundIsNeverLost == Spec => []GroundIsKept
BY FrontierInvariance, GroundKept, PTL

\* TypeOK: the shape of the state, within the bounds.
THEOREM FrontierTypes == Spec => []TypeOK
<1>1. Init => FrontierRest
  <2>1. Init => full = FALSE /\ fresh = {} /\ faults = 0 /\ pc = "idle"
    BY DEF Init
  <2>2. 0 \in 0..FaultBound
    BY FrontierAssumption
  <2> QED BY <2>1, <2>2 DEF FrontierRest
<1>2. FInv /\ FrontierRest /\ [Next]_vars => FrontierRest'
  <2> SUFFICES ASSUME FInv, FrontierRest, [Next]_vars PROVE FrontierRest'
    OBVIOUS
  <2>1. CASE Next
    BY <2>1, FrontierRestStep DEF FInv
  <2>2. CASE UNCHANGED vars
    BY <2>2 DEF FrontierRest, vars, cycle, checkpoint
  <2> QED BY <2>1, <2>2
<1>3. FInv /\ FrontierRest => TypeOK
  BY DEF FInv, Rows, FrontierRest, TypeOK
<1> QED BY <1>1, <1>2, <1>3, FrontierInvariance, PTL DEF Spec

-----------------------------------------------------------------------------
(* ScanLoop: the invariant *)

\* What does not find its account in a run, and has been visited.
Unfound == Having("missing") \ rest

\* No cause the alarm may have, but a dead session.
Calm == /\ Having("locked") = {} /\ Having("missing") \cap scenario.priority = {}
        /\ Cardinality(Having("missing")) < DeathThreshold

\* The shape of the walk.
Walking ==
    /\ scenario \in Scenario /\ streak \in Nat
    /\ rest \subseteq Users /\ lead \subseteq scenario.priority /\ hollow \subseteq Users
    /\ roster \subseteq Users

\* Who was stamped under a dead session has added to the count.
Counted ==
    /\ alive => hollow = {}
    /\ Cardinality(hollow) <= streak /\ Cardinality(hollow) < DeathThreshold

\* A live session: no alarm, and the count is of accounts that cannot be found.
Quiet ==
    /\ loop # "run" => ~tripped
    /\ loop = "run" /\ ~dead => alive
    /\ loop = "run" /\ ~dead /\ Calm => ~tripped /\ streak <= Cardinality(Unfound)

LInv == Walking /\ Counted /\ Quiet

-----------------------------------------------------------------------------
(* ScanLoop: lemmas, and every step *)

\* What adding to a set of accounts does to its size.
LEMMA Sizes ==
    ASSUME NEW S, S \subseteq Users
    PROVE  /\ IsFiniteSet(S) /\ Cardinality(S) \in Nat /\ (S = {} => Cardinality(S) = 0)
           /\ \A T \in SUBSET S : Cardinality(T) <= Cardinality(S)
           /\ \A u \in Users : Cardinality(S \cup {u}) \in {Cardinality(S), Cardinality(S) + 1}
           /\ \A u \in Users \ S : Cardinality(S \cup {u}) = Cardinality(S) + 1
<1>1. IsFiniteSet(S)
  BY ScanAssumption, FS_Subset
<1> QED BY <1>1, FS_Subset, FS_EmptySet, FS_AddElement, FS_CardinalityType

\* The thresholds are positive.
LEMMA Bounds == Threshold \in Nat \ {0} /\ DeathThreshold \in Nat \ {0} /\ MaxFails \in Nat \ {0}
BY ScanAssumption

\* The shape of the walk is kept.
LEMMA WalkingStep ==
    ASSUME Walking, LoopNext
    PROVE  Walking'
<1> USE ScanAssumption DEF Walking, Scenario, walk, session, loopHistory
<1>1. CASE BeginRun
  BY <1>1 DEF BeginRun, Priority
<1>2. ASSUME NEW u \in Users, Scan(u) PROVE Walking'
  <2>1. rest' \subseteq rest /\ lead' \subseteq scenario.priority /\ UNCHANGED scenario
    BY <1>2 DEF Scan, Visit, Priority
  <2>2. streak' \in Nat
    <3>1. \A a, n : n \in Nat => Streak(a, n) \in Nat
      BY DEF Streak
    <3> QED BY <1>2, <3>1 DEF Scan
  <2>3. hollow' \subseteq Users /\ roster' \subseteq Users
    BY <1>2 DEF Scan, Finish, StampUser, Retire, Fail, CountAuth
  <2> QED BY <2>1, <2>2, <2>3
<1>3. CASE FinishRun
  BY <1>3 DEF FinishRun
<1>4. CASE Restart
  BY <1>4 DEF Restart
<1>5. CASE KillLoop
  BY <1>5 DEF KillLoop
<1>6. CASE SessionChanges
  BY <1>6 DEF SessionChanges
<1> QED
  BY <1>1, <1>2, <1>3, <1>4, <1>5, <1>6 DEF LoopNext

\* A dead session answers with nothing but empty profiles and refusals; they add
\* up, and an account is stamped only below the threshold.
LEMMA CountedStep ==
    ASSUME Walking, Counted, LoopNext
    PROVE  Counted'
<1> USE Bounds DEF Walking, Counted, walk, session, loopHistory
<1>0. Cardinality({}) = 0
  BY FS_EmptySet
<1>1. CASE BeginRun
  BY <1>0, <1>1 DEF BeginRun
<1>2. ASSUME NEW u \in Users, Scan(u) PROVE Counted'
  <2>0. UNCHANGED alive
    BY <1>2 DEF Scan
  <2>1. \/ UNCHANGED hollow
        \/ hollow' = hollow \cup (IF alive THEN {} ELSE {u})
    BY <1>2 DEF Scan, Finish, StampUser, Retire, Fail, CountAuth
  <2>2. CASE alive
    <3>1. hollow' = {}
      BY <2>1, <2>2
    <3>2. streak' \in Nat
      BY <1>2, WalkingStep DEF LoopNext
    <3> QED BY <1>0, <2>0, <3>1, <3>2
  <2>3. CASE ~alive
    <3>1. Answers(u) \subseteq {"missing", "auth"}
      BY <2>3 DEF Answers
    <3>2. \A a \in {"missing", "auth"}, n \in Nat :
             /\ Streak(a, n) \in {n, n + 1} /\ Outcome(a, n) \in {"ok", "auth"}
             /\ Outcome(a, n) = "ok" => Streak(a, n) = n + 1 /\ n + 1 < DeathThreshold
      BY DEF Streak, Outcome
    <3>3. Cardinality(hollow) \in Nat /\ Cardinality(hollow \cup {u}) \in Nat
          /\ Cardinality(hollow \cup {u}) <= Cardinality(hollow) + 1
      BY Sizes
    <3>4. \/ UNCHANGED hollow /\ streak' \in Nat /\ streak' >= streak
          \/ /\ hollow' = hollow \cup {u} /\ streak' \in Nat /\ streak' >= streak + 1
             /\ streak + 1 < DeathThreshold
      <4>1. PICK a \in Answers(u) : LET n == Streak(a, streak) IN
        \/ Outcome(a, streak) # "auth" /\ Finish(u, a, streak) /\ streak' = n
        \/ /\ Outcome(a, streak) = "auth"
           /\ \/ fails + 1 >= Threshold /\ CountAuth(1) /\ tripped' = TRUE /\ streak' = n
              \/ /\ fails + 1 < Threshold /\ CountAuth(1)
                 /\ UNCHANGED tripped /\ streak' = n
              \/ /\ fails + 1 < Threshold /\ Recovers
                 /\ \E b \in Answers(u) :
                      /\ streak' = Streak(b, n)
                      /\ \/ Outcome(b, n) = "auth" /\ CountAuth(2) /\ tripped' = TRUE
                         \/ /\ Outcome(b, n) \in {"gone", "error"}
                            /\ fails' = fails + 1 /\ UNCHANGED <<stamped, hollow, tripped>>
                            /\ IF Outcome(b, n) = "gone"
                               THEN roster' = roster \ {u} /\ UNCHANGED clean
                               ELSE clean' = FALSE /\ UNCHANGED roster
                         \/ Outcome(b, n) = "ok" /\ StampUser(u)
        BY <1>2 DEF Scan
      <4>2. Streak(a, streak) \in {streak, streak + 1}
        BY <3>1, <3>2
      <4>3. CASE Outcome(a, streak) # "auth" /\ Finish(u, a, streak) /\ streak' = Streak(a, streak)
        BY <2>3, <3>1, <3>2, <4>3 DEF Finish, StampUser
      <4>4. CASE CountAuth(1) /\ streak' = Streak(a, streak)
        BY <4>2, <4>4 DEF CountAuth
      <4>5. ASSUME NEW b \in Answers(u), streak' = Streak(b, Streak(a, streak)),
                   \/ CountAuth(2)
                   \/ UNCHANGED hollow
                   \/ Outcome(b, Streak(a, streak)) = "ok" /\ StampUser(u)
            PROVE  \/ UNCHANGED hollow /\ streak' \in Nat /\ streak' >= streak
                   \/ /\ hollow' = hollow \cup {u} /\ streak' \in Nat /\ streak' >= streak + 1
                      /\ streak + 1 < DeathThreshold
        BY <2>3, <3>1, <3>2, <4>2, <4>5 DEF CountAuth, StampUser
      <4> QED BY <4>1, <4>3, <4>4, <4>5
    <3>5. Cardinality(hollow') <= streak' /\ Cardinality(hollow') < DeathThreshold
      <4>1. CASE UNCHANGED hollow /\ streak' \in Nat /\ streak' >= streak
        BY <3>3, <4>1
      <4>2. CASE /\ hollow' = hollow \cup {u} /\ streak' \in Nat /\ streak' >= streak + 1
                 /\ streak + 1 < DeathThreshold
        BY <3>3, <4>2
      <4> QED BY <3>4, <4>1, <4>2
    <3> QED BY <2>0, <2>3, <3>5
  <2> QED BY <2>2, <2>3
<1>3. CASE FinishRun
  BY <1>0, <1>3 DEF FinishRun
<1>4. CASE Restart
  BY <1>4 DEF Restart
<1>5. CASE KillLoop
  BY <1>0, <1>5 DEF KillLoop
<1>6. CASE SessionChanges
  BY <1>0, <1>6 DEF SessionChanges
<1> QED
  BY <1>1, <1>2, <1>3, <1>4, <1>5, <1>6 DEF LoopNext

\* On a live session only the accounts that cannot be found add to the count,
\* each once.
LEMMA QuietStep ==
    ASSUME Walking, Quiet, LoopNext
    PROVE  Quiet'
<1> USE Bounds DEF Walking, walk, session, loopHistory
<1>0. Cardinality(Unfound') \in Nat
  <2>1. Unfound' \subseteq Users
    BY DEF Unfound, Having
  <2> QED BY <2>1, Sizes
<1>1. CASE BeginRun
  <2>1. loop' = "run" /\ dead' = ~alive /\ UNCHANGED alive /\ (~tripped' \/ ~alive) /\ streak' = 0
    BY <1>1 DEF BeginRun
  <2>2. ~dead' => alive' /\ ~tripped'
    BY <2>1
  <2> QED BY <1>0, <2>1, <2>2 DEF Quiet
<1>2. ASSUME NEW u \in Users, Scan(u) PROVE Quiet'
  <2>1. UNCHANGED <<loop, alive, dead, scenario>> /\ loop = "run"
    BY <1>2 DEF Scan, Visit
  <2>2. Calm' = Calm
    BY <2>1 DEF Calm, Having
  <2>3. SUFFICES ASSUME ~dead, Calm, alive, ~tripped, streak <= Cardinality(Unfound)
                 PROVE  ~tripped' /\ streak' <= Cardinality(Unfound')
    BY <2>1, <2>2 DEF Quiet
  <2>4. Answers(u) = {"new", "none"} \/ Answers(u) = {"gone"} \/ Answers(u) = {"error"}
        \/ (Answers(u) = {"missing"} /\ scenario.account[u] = "missing")
    BY <2>3 DEF Answers, Calm, Having, Scenario, Condition
  <2>5. rest' \subseteq rest
    BY <1>2 DEF Scan, Visit
  <2>6. Unfound \subseteq Unfound' /\ Unfound' \subseteq Having("missing") /\ Having("missing") \subseteq Users
    BY <2>1, <2>5 DEF Unfound, Having
  <2>7. Cardinality(Unfound) <= Cardinality(Unfound') /\ Cardinality(Unfound) \in Nat
        /\ Cardinality(Unfound') <= Cardinality(Having("missing"))
        /\ Cardinality(Having("missing")) \in Nat
    BY <2>6, Sizes
  <2>8. CASE Answers(u) = {"missing"} /\ scenario.account[u] = "missing"
    <3>1. u \in Having("missing") /\ u \notin lead
      BY <2>3, <2>8 DEF Having, Calm
    <3>2. u \in rest /\ rest' = rest \ {u}
      BY <1>2, <3>1 DEF Scan, Visit, Stalest
    <3>3. Unfound' = Unfound \cup {u} /\ u \notin Unfound
      BY <2>1, <3>1, <3>2 DEF Unfound, Having
    <3>4. Cardinality(Unfound') = Cardinality(Unfound) + 1
      BY <2>6, <3>3, Sizes
    <3>5. streak + 1 < DeathThreshold
      BY <2>3, <2>7, <3>4 DEF Calm
    <3>6. Outcome("missing", streak) = "ok" /\ Streak("missing", streak) = streak + 1
      BY <3>5 DEF Outcome, Streak
    <3>7. streak' = streak + 1 /\ UNCHANGED tripped
      BY <1>2, <2>8, <3>6 DEF Scan, Finish, StampUser
    <3> QED BY <2>3, <2>7, <3>4, <3>7
  <2>9. CASE Answers(u) \subseteq {"new", "none", "gone", "error"}
    <3>1. \A a \in Answers(u) : Outcome(a, streak) # "auth" /\ Streak(a, streak) \in {0, streak}
      BY <2>9 DEF Outcome, Streak
    <3>2. streak' \in {0, streak} /\ UNCHANGED tripped
      BY <1>2, <3>1 DEF Scan, Finish, StampUser, Retire, Fail
    <3> QED BY <1>0, <2>3, <2>7, <3>2
  <2> QED BY <2>4, <2>8, <2>9
<1>3. CASE FinishRun
  BY <1>3 DEF FinishRun, Quiet
<1>4. CASE Restart
  BY <1>4 DEF Restart, Quiet
<1>5. CASE KillLoop
  BY <1>5 DEF KillLoop, Quiet
<1>6. CASE SessionChanges
  BY <1>6 DEF SessionChanges, Quiet
<1> QED
  BY <1>1, <1>2, <1>3, <1>4, <1>5, <1>6 DEF LoopNext

\* Stamps as ages stay below the number of accounts.
LEMMA Ages ==
    ASSUME age \in [Users -> 0..NeverAge], stamped \subseteq Users
    PROVE  Aged \in [Users -> 0..NeverAge]
<1>1. NeverAge \in Nat /\ IsFiniteSet(Users)
  BY ScanAssumption, FS_CardinalityType DEF NeverAge
<1>2. SUFFICES ASSUME NEW u \in Users, age[u] # NeverAge, u \notin stamped
      PROVE  Cardinality({g \in Older : g < age[u]}) + (IF stamped = {} THEN 0 ELSE 1) \in
      0..NeverAge
  BY <1>1 DEF Aged
<1>3. age[u] \in 0 .. NeverAge - 1 /\ age[u] \in Nat
  BY <1>1, <1>2
<1>4. {g \in Older : g < age[u]} \subseteq 0 .. age[u] - 1
  BY <1>1, <1>3 DEF Older
<1>5. IsFiniteSet(0 .. age[u] - 1) /\ Cardinality(0 .. age[u] - 1) = age[u]
  <2>1. PICK n \in Int : n = age[u] - 1
    BY <1>3
  <2>2. 0 \in Int
    OBVIOUS
  <2>3. IsFiniteSet(0 .. n) /\ Cardinality(0 .. n) = IF 0 > n THEN 0 ELSE n - 0 + 1
    BY <2>2, FS_Interval
  <2> QED BY <1>3, <2>1, <2>3
<1>6. Cardinality({g \in Older : g < age[u]}) <= age[u] /\ Cardinality({g \in Older : g < age[u]}) \in Nat
  BY <1>4, <1>5, FS_Subset, FS_CardinalityType
<1> QED BY <1>1, <1>3, <1>6

\* A loop that has not bailed has a failed run to spare.
LoopShape ==
    /\ LoopTypeOK
    /\ loop # "bailed" => failedRuns < MaxFails

LEMMA LoopShapeStep ==
    ASSUME LoopShape, LoopNext
    PROVE  LoopShape'
<1> USE ScanAssumption DEF LoopShape, LoopTypeOK, walk, session, loopHistory
<1>1. CASE BeginRun
  BY <1>1 DEF BeginRun, Priority
<1>2. ASSUME NEW u \in Users, Scan(u) PROVE LoopShape'
  <2>1. rest' \subseteq Users /\ lead' \subseteq Users /\ last' = u /\ UNCHANGED <<scenario, age, loop, failedRuns, session, dead>>
    BY <1>2 DEF Scan, Visit, Priority
  <2>2. streak' \in Nat
    <3>1. \A a, n : n \in Nat => Streak(a, n) \in Nat
      BY DEF Streak
    <3> QED BY <1>2, <3>1 DEF Scan
  <2>3. hollow' \subseteq Users /\ roster' \subseteq Users /\ stamped' \subseteq Users
    BY <1>2 DEF Scan, Finish, StampUser, Retire, Fail, CountAuth
  <2>4. fails' \in 0..Threshold
    <3>1. \A n \in Nat : CapFails(n) \in 0..Threshold
      BY DEF CapFails
    <3>2. CountAuth(1) \/ CountAuth(2) => fails' \in 0..Threshold
      BY <3>1 DEF CountAuth
    <3> QED BY <1>2, <3>2 DEF Scan, Finish, StampUser, Retire, Fail
  <2>5. {tripped', clean'} \subseteq BOOLEAN
    BY <1>2 DEF Scan, Finish, StampUser, Retire, Fail, CountAuth
  <2> QED BY <2>1, <2>2, <2>3, <2>4, <2>5
<1>3. CASE FinishRun
  <2>1. age' \in [Users -> 0..NeverAge]
    BY <1>3, Ages DEF FinishRun
  <2>2. failedRuns' \in 0..MaxFails /\ loop' \in {"sleep", "bailed"} /\ (loop' # "bailed" => failedRuns' < MaxFails)
    BY <1>3 DEF FinishRun
  <2> QED BY <1>3, <2>1, <2>2 DEF FinishRun
<1>4. CASE Restart
  BY <1>4 DEF Restart
<1>5. CASE KillLoop
  <2>1. age' \in [Users -> 0..NeverAge]
    BY <1>5, Ages DEF KillLoop
  <2>2. loop' = "sleep" /\ failedRuns' \in 0..MaxFails /\ failedRuns' < MaxFails
    BY <1>5, Bounds DEF KillLoop
  <2>3. changes' \in 0..Changes
    BY <1>5, Bounds DEF KillLoop
  <2> QED BY <1>5, <2>1, <2>2, <2>3 DEF KillLoop
<1>6. CASE SessionChanges
  BY <1>6 DEF SessionChanges
<1> QED
  BY <1>1, <1>2, <1>3, <1>4, <1>5, <1>6 DEF LoopNext

-----------------------------------------------------------------------------
(* ScanLoop: the theorems *)

\* The inductive invariant of the loop (_run_one_platform, _download_with_recovery).
THEOREM LoopInvariance == LoopSpec => []LInv
<1>1. LoopInit => LInv
  BY ScanAssumption, FS_EmptySet DEF LoopInit, LInv, Walking, Counted, Quiet
<1>2. LInv /\ [LoopNext]_loopVars => LInv'
  <2> SUFFICES ASSUME LInv, [LoopNext]_loopVars PROVE LInv'
    OBVIOUS
  <2>1. CASE LoopNext
    BY <2>1, WalkingStep, CountedStep, QuietStep DEF LInv
  <2>2. CASE UNCHANGED loopVars
    BY <2>2 DEF LInv, Walking, Counted, Quiet, Calm, Unfound, Having, loopVars, walk, session,
       loopHistory
  <2> QED BY <2>1, <2>2
<1> QED BY <1>1, <1>2, PTL DEF LoopSpec

\* NoFalseAlarm (_download_impl, _handle_auth_failure): on a live session the circuit
\* opens only where private accounts answer as an expired session would, or as many
\* accounts cannot be found as a dead session would hide, or one of them has priority.
THEOREM AlarmIsTrue == LoopSpec => []NoFalseAlarm
<1>1. LInv => NoFalseAlarm
  <2> SUFFICES ASSUME LInv, tripped, ~dead, Having("locked") = {},
                      ~(Cardinality(Having("missing")) >= DeathThreshold),
                      Having("missing") \cap scenario.priority = {}
               PROVE  FALSE
    BY DEF NoFalseAlarm
  <2>1. Cardinality(Having("missing")) \in Nat
    BY Sizes DEF Having
  <2>2. Calm
    BY <2>1, Bounds DEF Calm
  <2> QED BY <2>2 DEF LInv, Quiet
<1> QED BY <1>1, LoopInvariance, PTL

\* HollowStampsAreFew (_consec_notfound): a session that died lets fewer accounts of one
\* run pass for scanned than the threshold at which the run of them counts as its death.
THEOREM FewAreHollow == LoopSpec => []HollowStampsAreFew
<1>1. LInv => HollowStampsAreFew
  BY DEF LInv, Counted, HollowStampsAreFew
<1> QED BY <1>1, LoopInvariance, PTL

\* LoopTypeOK: the ages that stand for last_run never exceed the number of accounts.
THEOREM LoopTypes == LoopSpec => []LoopTypeOK
<1>1. LoopInit => LoopShape
  <2> SUFFICES ASSUME LoopInit PROVE LoopShape
    OBVIOUS
  <2>1. age \in [Users -> 0..NeverAge]
    <3>1. NeverAge \in Nat
      BY ScanAssumption, FS_CardinalityType DEF NeverAge
    <3> QED BY <3>1 DEF LoopInit
  <2>2. fails \in 0..Threshold /\ failedRuns \in 0..MaxFails /\ failedRuns < MaxFails
    BY Bounds, ScanAssumption DEF LoopInit
  <2>3. {tripped, clean, alive, dead} \subseteq BOOLEAN
    BY DEF LoopInit
  <2>4. changes \in 0..Changes
    BY ScanAssumption DEF LoopInit
  <2>5. /\ scenario \in Scenarios /\ roster = Users /\ streak = 0 /\ loop = "sleep" /\ last = None
        /\ rest = {} /\ lead = {} /\ stamped = {} /\ hollow = {}
    BY DEF LoopInit
  <2> QED BY <2>1, <2>2, <2>3, <2>4, <2>5 DEF LoopShape, LoopTypeOK
<1>2. LoopShape /\ [LoopNext]_loopVars => LoopShape'
  <2> SUFFICES ASSUME LoopShape, [LoopNext]_loopVars PROVE LoopShape'
    OBVIOUS
  <2>1. CASE LoopNext
    BY <2>1, LoopShapeStep
  <2>2. CASE UNCHANGED loopVars
    BY <2>2 DEF LoopShape, LoopTypeOK, loopVars, walk, session, loopHistory
  <2> QED BY <2>1, <2>2
<1> QED BY <1>1, <1>2, PTL DEF LoopSpec, LoopShape
=============================================================================
