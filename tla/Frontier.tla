------------------------------ MODULE Frontier ------------------------------
(***************************************************************************)
(* Incremental fetching of one account: archiver/orchestrator.py            *)
(* (_archive_user, _download_with_recovery), archiver/platforms.py (the      *)
(* date-min cutoff, skip=abort:N, register_new_files) and the checkpoints   *)
(* of core/store.py, against the dispatcher, the recorder and kills.        *)
(*                                                                          *)
(* A post is the day it was published, at most one a day.  A walk goes from *)
(* the newest post to the oldest and skips what the extractor's own archive *)
(* holds.  Only TikTok's extractor heeds the cutoff day (README.md: "a      *)
(* no-op for the Twitter/Instagram extractors"); X stops after AbortAfter   *)
(* archived posts in a row once there is a cutoff.                          *)
(***************************************************************************)
EXTENDS Integers, FiniteSets, FiniteSetsExt

CONSTANTS
    LastDay,       \* bound
    Backlog,       \* the days with a post when the account is added
    OnDisk,        \* the posts whose files the user already has there
    AbortAfter,    \* pace.abort_after
    Platforms,     \* the platforms to consider
    SweepAfterRun, \* RECONCILE_AFTER_RUN
    FaultBound     \* bound: walks cut short, kills, recordings, re-arms

ASSUME FrontierAssumption ==
    /\ LastDay \in Nat \ {0} /\ AbortAfter \in Nat \ {0} /\ FaultBound \in Nat
    /\ Backlog \subseteq 1..LastDay /\ OnDisk \subseteq Backlog
    /\ SweepAfterRun \in BOOLEAN /\ Platforms \subseteq {"x", "instagram", "tiktok"}

VARIABLES
    platform,
    today, posts,
    archive,       \* the posts in the extractor's archive
    row,           \* [Post -> "none" | "file" (fetched, no row) | "pending" | "sent"]
    lastRun,       \* checkpoints.last_run_utc; 0 is NULL
    full,          \* checkpoints.full_history_done
    recorded,      \* days of delivered recordings: rows of the same account
    pc, runDay,
    fresh,         \* after - before: what the last attempt fetched
    retried,
    faults,
    \* history
    passed,        \* posts a walk that returned normally left behind
    cut,           \* posts an auth failure or a kill left behind
    torn           \* posts fetched by walks that an auth failure or a kill cut

table == <<row, recorded>>
checkpoint == <<lastRun, full>>
history == <<passed, cut, torn>>
cycle == <<pc, runDay, fresh, retried>>
time == <<today, posts>>
vars == <<platform, time, archive, table, checkpoint, cycle, faults, history>>

Post == 1..LastDay
NoCutoff == -1
Newest(S) == IF S = {} THEN 0 ELSE Max(S)
FilesFetched == fresh           \* mutant: the last attempt's diff, not the disk

Files == {p \in Post : row[p] = "file"}

Sent == {p \in Post : row[p] = "sent"}

Init ==
    /\ platform \in Platforms
    /\ today = Newest(Backlog) /\ posts = Backlog
    /\ archive = {}
    /\ row = [p \in Post |-> IF p \in OnDisk THEN "file" ELSE "none"]
    /\ lastRun = 0 /\ full = FALSE /\ recorded = {}
    /\ pc = "idle" /\ runDay = 0 /\ fresh = {} /\ retried = FALSE
    /\ faults = 0
    /\ passed = {} /\ cut = {} /\ torn = {}

Fault == faults < FaultBound /\ faults' = faults + 1

-----------------------------------------------------------------------------
(* Where a walk stops *)

AnyRow == {p \in Post : row[p] \in {"pending", "sent"}}
CutoffAnyRow ==                 \* mutant: rows not delivered yet count
    IF ~full THEN NoCutoff
    ELSE IF AnyRow \cup recorded # {} THEN Newest(AnyRow \cup recorded) - 1
    ELSE IF lastRun # 0 THEN lastRun - 1 ELSE NoCutoff

\* _compute_date_min, with a slack of one day.
Cutoff ==
    IF ~full THEN NoCutoff
    ELSE IF Sent \cup recorded # {} THEN Newest(Sent \cup recorded) - 1
    ELSE IF lastRun # 0 THEN lastRun - 1 ELSE NoCutoff

\* AbortAfter archived posts in a row, all newer than p.
Aborted(p) ==
    \E S \in kSubset(AbortAfter, {q \in archive \cap posts : q > p}) :
        \A q \in posts : (Min(S) <= q /\ q <= Max(S)) => q \in S

\* What a walk that nothing disturbs would fetch now.
Wanted ==
    {p \in posts \ archive :
        \/ Cutoff = NoCutoff
        \/ platform = "instagram"
        \/ platform = "x" /\ ~Aborted(p)
        \/ platform = "tiktok" /\ p >= Cutoff}

-----------------------------------------------------------------------------
(* The cycle of the account *)

\* run() takes the time once, for every account of the run.
StartRun ==
    /\ pc = "idle" /\ pc' = "reconcile" /\ runDay' = today /\ retried' = FALSE
    /\ UNCHANGED <<platform, time, archive, table, checkpoint, fresh, faults, history>>

RegisterFresh(S) == row' = [p \in Post |-> IF p \in S THEN "pending" ELSE row[p]]

\* reconcile_user: a row for every file without one, and the archive seeded.
Reconcile ==
    /\ pc = "reconcile" /\ pc' = "fetch"
    /\ RegisterFresh(Files)
    /\ archive' = archive \cup Files
    /\ UNCHANGED <<platform, time, recorded, checkpoint, runDay, fresh, retried,
                   faults, history>>

\* Fetch the wanted posts, but for the lost ones.
Fetch(lost) ==
    LET got == Wanted \ lost IN
    /\ fresh' = got
    /\ archive' = archive \cup got
    /\ row' = [p \in Post |-> IF p \in got THEN "file" ELSE row[p]]
    /\ UNCHANGED <<platform, time, recorded, checkpoint, runDay>>

Missing(k) == {p \in Wanted : p <= k}

Walk ==
    /\ pc = "fetch" /\ Fetch({}) /\ pc' = "register"
    /\ UNCHANGED <<retried, faults, history>>

\* The extractor logs an error, or raises anything but an auth failure: download()
\* goes on as if it had finished.  A walk that stopped lost the older posts; one
\* whose files failed one by one may have lost any.
WalkBreaks ==
    /\ pc = "fetch" /\ Fault
    /\ \E lost \in SUBSET Wanted \ {{}} : Fetch(lost) /\ passed' = passed \cup lost
    /\ pc' = "register"
    /\ UNCHANGED <<retried, cut, torn>>

Torn(k) ==
    /\ Fetch(Missing(k))
    /\ cut' = cut \cup Missing(k)
    /\ torn' = torn \cup {p \in Wanted : p > k}
    /\ UNCHANGED passed

\* AuthError: nothing is registered.  A recovery that works is followed by one
\* more attempt; X has none.
AuthFails ==
    /\ pc = "fetch" /\ Fault
    /\ \E k \in Wanted \cup {0} : Torn(k)
    /\ \/ platform # "x" /\ ~retried /\ retried' = TRUE /\ pc' = "fetch"
       \/ pc' = "tail" /\ UNCHANGED retried

\* tiktok_lock_held: the download is skipped, the checkpoints move.
SkipForRecorder ==
    /\ pc = "fetch" /\ platform = "tiktok" /\ Fault
    /\ pc' = "stamp" /\ fresh' = {}
    /\ passed' = passed \cup Wanted
    /\ UNCHANGED <<platform, time, archive, table, checkpoint, runDay, retried, cut, torn>>

\* _register_new_files: only what this attempt added to the folder.
RegisterNew ==
    /\ pc = "register" /\ pc' = "stamp"
    /\ RegisterFresh(fresh)
    /\ UNCHANGED <<platform, time, archive, recorded, checkpoint, runDay, fresh,
                   retried, faults, history>>

StampNow ==                     \* mutant: the clock is read after the walk
    /\ pc = "stamp" /\ pc' = "close"
    /\ lastRun' = today
    /\ UNCHANGED <<platform, time, archive, table, full, runDay, fresh, retried,
                   faults, history>>

\* set_last_run, one commit; mark_full_history_done, the next.
Stamp ==
    /\ pc = "stamp" /\ pc' = "close"
    /\ lastRun' = runDay
    /\ UNCHANGED <<platform, time, archive, table, full, runDay, fresh, retried,
                   faults, history>>

CloseGate ==
    /\ pc = "close" /\ pc' = "tail"
    /\ full' = TRUE
    /\ UNCHANGED <<platform, time, archive, table, lastRun, runDay, fresh, retried,
                   faults, history>>

\* _reconcile_after_run, if it is on.
EndRun ==
    /\ pc = "tail" /\ pc' = "idle" /\ fresh' = {}
    /\ IF SweepAfterRun
       THEN RegisterFresh(Files) /\ archive' = archive \cup Files
       ELSE UNCHANGED <<row, archive>>
    /\ UNCHANGED <<platform, time, recorded, checkpoint, runDay, retried, faults, history>>

\* The process is killed, in the middle of a walk or between two steps.
Kill ==
    /\ pc # "idle" /\ pc' = "idle" /\ Fault
    /\ \/ pc = "fetch" /\ \E k \in Wanted \cup {0} : Torn(k)
       \/ pc # "fetch" /\ fresh' = {}
          /\ UNCHANGED <<platform, time, archive, table, checkpoint, runDay, history>>
    /\ UNCHANGED retried

-----------------------------------------------------------------------------
(* Everybody else *)

\* A day passes, with or without a post.
NextDay ==
    /\ today < LastDay /\ today' = today + 1
    /\ \/ posts' = posts \cup {today'}
       \/ posts' = posts
    /\ UNCHANGED <<platform, archive, table, checkpoint, cycle, faults, history>>

\* The dispatcher delivers rows in any order.
Deliver(p) ==
    /\ row[p] = "pending" /\ row' = [row EXCEPT ![p] = "sent"]
    /\ UNCHANGED <<platform, time, archive, recorded, checkpoint, cycle, faults, history>>

\* A live recording of the account, dated today, is delivered.
DeliverRecording ==
    /\ platform = "tiktok" /\ Fault
    /\ recorded' = recorded \cup {today}
    /\ UNCHANGED <<platform, time, archive, row, checkpoint, cycle, history>>

\* run --full-history
Rearm ==
    /\ pc = "idle" /\ full /\ Fault
    /\ full' = FALSE
    /\ UNCHANGED <<platform, time, archive, table, lastRun, cycle, history>>

-----------------------------------------------------------------------------
Step ==
    \/ StartRun \/ Reconcile \/ Walk \/ RegisterNew \/ Stamp \/ CloseGate \/ EndRun

Next ==
    \/ Step \/ WalkBreaks \/ AuthFails \/ SkipForRecorder \/ Kill
    \/ NextDay \/ DeliverRecording \/ Rearm
    \/ \E p \in Post : Deliver(p)

Spec == Init /\ [][Next]_vars

\* The loop runs again and again, and the drain delivers.
FairSpec == Spec /\ WF_vars(Step) /\ \A p \in Post : WF_vars(Deliver(p))

-----------------------------------------------------------------------------
(* Properties *)

TypeOK ==
    /\ platform \in Platforms /\ today \in 0..LastDay /\ posts \subseteq 1..today
    /\ archive \subseteq posts
    /\ row \in [Post -> {"none", "file", "pending", "sent"}]
    /\ lastRun \in 0..today /\ runDay \in 0..today /\ full \in BOOLEAN
    /\ recorded \subseteq 0..LastDay
    /\ pc \in {"idle", "reconcile", "fetch", "register", "stamp", "close", "tail"}
    /\ fresh \subseteq Post /\ faults \in 0..FaultBound

\* Behind the frontier: the next walk will not fetch them, nor will any later
\* one until the operator re-arms the account.
Missed == (posts \ archive) \ Wanted

\* What may leave a post behind.  A walk that broke off and still counted, or
\* was skipped for a recorder; a newer recording; a walk that was cut, once
\* its newer posts are delivered - or, on X, merely archived.
Excused(p) ==
    \/ p \in passed
    \/ \E d \in recorded : d > p
    \/ /\ p \in cut
       /\ IF platform = "x"
          THEN Cardinality({q \in torn : q > p}) >= AbortAfter
          ELSE \E q \in torn : q > p /\ row[q] = "sent"

\* "date_floor only moves past posts the dispatcher has actually confirmed
\* delivered": with an asynchronous queue of any slowness, no post falls behind
\* the frontier but for the causes above.
GroundIsKept == \A p \in Missed : Excused(p)

\* The comment without the exceptions that a kill or an auth failure makes: "a
\* crash or a slow queue never loses ground".
CrashLosesNoGround ==
    \A p \in Missed : p \in passed \/ \E d \in recorded : d > p

\* Every post of the account reaches the chat, whatever was cut and whichever
\* attempt fetched it, or is left behind for one of the causes.
EveryPostIsDelivered == <>[]\A p \in posts : row[p] = "sent" \/ Excused(p)
=============================================================================
