------------------------------ MODULE ScanLoop -------------------------------
(***************************************************************************)
(* The archiver's loop over the accounts of one platform: cmd_loop and      *)
(* cmd_run (archiver/cli.py), _run_one_platform, _download_with_recovery    *)
(* and _handle_auth_failure (archiver/orchestrator.py), the walk order of   *)
(* core/scan_order.py, the circuit of core/store.py, and what the           *)
(* extractors take for an expired session (archiver/platforms.py).          *)
(* Frontier models what one account's fetch does; here it is one step.      *)
(*                                                                          *)
(* last_run is kept as the number of runs, among those that stamped anyone, *)
(* since the account's stamp.  Runs are further apart than scan_jitter_s:   *)
(* accounts of one age are walked in any order, older ones first.           *)
(***************************************************************************)
EXTENDS Naturals, FiniteSets

CONSTANTS
    Users,
    Scenarios,       \* the platforms and rosters to consider
    Threshold,       \* auth_failure_threshold
    DeathThreshold,  \* IG_SESSION_DEATH_THRESHOLD
    MaxFails,        \* --max-fails
    Changes          \* bound: how often the session dies or is renewed, or a run
                     \* is killed among the priority accounts

\* posts: there may be something new;  missing: "could not be found";
\* gone: the extractor says that the account is;  locked: it answers with what
\* is taken for an expired session (a private account);  broken: another error.
Condition == {"posts", "missing", "gone", "locked", "broken"}

Scenario == [platform : {"x", "instagram", "tiktok"}, account : [Users -> Condition],
             priority : SUBSET Users]

ASSUME ScanAssumption ==
    /\ Scenarios \subseteq Scenario /\ Users \subseteq Nat \ {0} /\ IsFiniteSet(Users)
    /\ {Threshold, DeathThreshold, MaxFails} \subseteq Nat \ {0} /\ Changes \in Nat

VARIABLES
    scenario,
    roster,        \* users not retired
    age,           \* [Users -> 0..NeverAge]; NeverAge: never stamped
    fails,         \* circuit.consecutive_fails
    loop,          \* "sleep" | "run" | "bailed"
    rest, lead,    \* accounts the walk, and its priority pass, have yet to visit
    stamped,       \* accounts stamped in this run
    streak,        \* _consec_notfound
    tripped,
    clean,         \* every result of the run so far is "ok" or "banned"
    failedRuns,    \* consecutive_fails of the loop
    alive,         \* the session works
    changes,
    \* history
    last,          \* the account fetched last
    dead,          \* the session was dead at some time of the run
    hollow         \* accounts stamped in this run since the session died

walk == <<rest, lead, stamped, streak, tripped, clean>>
session == <<alive, changes>>
loopHistory == <<last, dead, hollow>>
loopVars == <<scenario, roster, age, fails, loop, walk, failedRuns, session, loopHistory>>

NeverAge == Cardinality(Users)
None == 0

LoopInit ==
    /\ scenario \in Scenarios
    /\ roster = Users /\ age = [u \in Users |-> NeverAge]
    /\ fails = 0 /\ loop = "sleep"
    /\ rest = {} /\ lead = {} /\ stamped = {}
    /\ streak = 0 /\ tripped = FALSE /\ clean = TRUE
    /\ failedRuns = 0
    /\ alive = TRUE /\ changes = 0
    /\ last = None /\ dead = FALSE /\ hollow = {}

-----------------------------------------------------------------------------
(* A run *)

Priority == scenario.priority \cap roster

\* The health check, and the recovery, of _ensure_platform_healthy only look at
\* which cookies there are: a dead session may pass, a live one does.
BeginRun ==
    /\ loop = "sleep" /\ loop' = "run"
    /\ \/ rest' = roster \ Priority /\ lead' = Priority /\ tripped' = FALSE
       \/ ~alive /\ rest' = {} /\ lead' = {} /\ tripped' = TRUE
    /\ stamped' = {} /\ streak' = 0 /\ clean' = TRUE
    /\ dead' = ~alive /\ hollow' = {}
    /\ UNCHANGED <<scenario, roster, age, fails, failedRuns, session, last>>

ByName == {u \in rest : \A v \in rest : v <= u}   \* mutant: always the same order

\* order_users: whoever was stamped longest ago.
Stalest == {u \in rest : \A v \in rest : age[v] <= age[u]}

\* The priority pass comes first; it may be due again after any account of the rest.
Visit(u) ==
    /\ loop = "run" /\ ~tripped
    /\ \/ u \in lead /\ lead' = lead \ {u} /\ UNCHANGED rest
       \/ /\ lead = {} /\ u \in Stalest
          /\ rest' = rest \ {u} /\ lead' \in {{}, Priority}

\* What one call of platform.download comes to.
Answers(u) ==
    IF ~alive
    THEN IF scenario.platform = "instagram" THEN {"missing", "auth"} ELSE {"auth"}
    ELSE CASE scenario.account[u] = "posts" -> {"new", "none"}
           [] scenario.account[u] = "missing" ->
                 IF scenario.platform = "instagram" THEN {"missing"} ELSE {"gone"}
           [] scenario.account[u] = "gone" -> {"gone"}
           [] scenario.account[u] = "locked" -> {"auth"}
           [] OTHER -> {"error"}

CountEmpty(a, n) ==                \* mutant: nothing new is as bad as not found
    CASE a \in {"missing", "none"} -> n + 1 [] a = "new" -> 0 [] OTHER -> n

\* The run of empty profiles; only media ends it.
Streak(a, n) == CASE a = "missing" -> n + 1
                  [] a = "new" -> 0
                  [] OTHER -> n

OutcomeLate(a, n) ==               \* mutant: > for >=
    IF a = "missing"
    THEN IF n + 1 > DeathThreshold THEN "auth" ELSE "ok"
    ELSE IF a \in {"new", "none"} THEN "ok" ELSE a

\* From DeathThreshold on, one more such profile is an AuthError.
Outcome(a, n) == IF a = "missing"
                 THEN IF n + 1 >= DeathThreshold THEN "auth" ELSE "ok"
                 ELSE IF a \in {"new", "none"} THEN "ok" ELSE a

\* attempt_recovery takes the browser's cookies, a live session's or not; X has none to take.
Recovers == scenario.platform # "x"

StampUser(u) ==
    /\ stamped' = stamped \cup {u} /\ fails' = 0
    /\ hollow' = hollow \cup (IF alive THEN {} ELSE {u})
    /\ UNCHANGED <<roster, tripped, clean>>

Retire(u) ==
    /\ roster' = roster \ {u}
    /\ UNCHANGED <<stamped, fails, hollow, tripped, clean>>

Fail == /\ clean' = FALSE
        /\ UNCHANGED <<roster, stamped, fails, hollow, tripped>>

\* _handle_auth_failure; the circuit's count outlives the run.
CapFails(n) == IF n > Threshold THEN Threshold ELSE n

CountAuth(n) == /\ fails' = CapFails(fails + n)
                /\ clean' = FALSE
                /\ UNCHANGED <<roster, stamped, hollow>>

Finish(u, a, n) ==
    CASE Outcome(a, n) = "ok" -> StampUser(u)
      [] Outcome(a, n) = "gone" -> Retire(u)
      [] OTHER -> Fail

\* One account: its fetch, and after an AuthError the recovery and a second fetch.
Scan(u) ==
    /\ Visit(u) /\ last' = u
    /\ \E a \in Answers(u) : LET n == Streak(a, streak) IN
        \/ Outcome(a, streak) # "auth" /\ Finish(u, a, streak) /\ streak' = n
        \/ /\ Outcome(a, streak) = "auth"
           /\ \/ fails + 1 >= Threshold /\ CountAuth(1) /\ tripped' = TRUE /\ streak' = n
              \/ /\ fails + 1 < Threshold /\ CountAuth(1)      \* the recovery failed
                 /\ UNCHANGED tripped /\ streak' = n
              \/ /\ fails + 1 < Threshold /\ Recovers
                 /\ \E b \in Answers(u) :
                      /\ streak' = Streak(b, n)
                      /\ \/ Outcome(b, n) = "auth" /\ CountAuth(2) /\ tripped' = TRUE
                         \/ /\ Outcome(b, n) \in {"gone", "error"}
                            /\ fails' = fails + 1 /\ UNCHANGED <<stamped, hollow, tripped>>
                            /\ IF Outcome(b, n) = "gone"
                               THEN roster' = roster \ {u} /\ UNCHANGED clean
                               ELSE clean' = FALSE /\ UNCHANGED roster
                         \/ Outcome(b, n) = "ok" /\ StampUser(u)
    /\ UNCHANGED <<scenario, age, loop, failedRuns, session, dead>>

\* Stamps are kept as ages: the accounts of this run are the youngest.
Older == {age[v] : v \in Users \ stamped} \ {NeverAge}
Aged == [u \in Users |->
           IF u \in stamped THEN 0
           ELSE IF age[u] = NeverAge THEN NeverAge
           ELSE Cardinality({g \in Older : g < age[u]}) + (IF stamped = {} THEN 0 ELSE 1)]

\* Once the circuit has tripped, the rest are skipped, which is a failure.
FinishRun ==
    /\ loop = "run" /\ (tripped \/ rest \cup lead = {})
    /\ age' = Aged
    /\ LET ok == clean /\ rest \cup lead = {}
           n == IF ok THEN 0 ELSE failedRuns + 1
       IN failedRuns' = n /\ loop' = IF n >= MaxFails THEN "bailed" ELSE "sleep"
    /\ rest' = {} /\ lead' = {} /\ stamped' = {} /\ hollow' = {}
    /\ streak' = 0 /\ tripped' = FALSE /\ clean' = TRUE /\ dead' = FALSE
    /\ UNCHANGED <<scenario, roster, fails, session, last>>

-----------------------------------------------------------------------------
(* The surroundings *)

\* A loop that bailed is started again, by hand or by the supervisor.
Restart ==
    /\ loop = "bailed" /\ loop' = "sleep" /\ failedRuns' = 0
    /\ UNCHANGED <<scenario, roster, age, fails, walk, session, loopHistory>>

\* A kill or a restart in the middle of a run: any number of times once the walk has
\* got past the priority accounts, as often as Changes bounds while it has stamped
\* none but those.
KillLoop ==
    /\ loop = "run"
    /\ \/ stamped \ scenario.priority # {} /\ UNCHANGED changes
       \/ /\ stamped # {} /\ stamped \subseteq scenario.priority
          /\ changes < Changes /\ changes' = changes + 1
    /\ age' = Aged /\ loop' = "sleep" /\ failedRuns' = 0
    /\ rest' = {} /\ lead' = {} /\ stamped' = {} /\ hollow' = {}
    /\ streak' = 0 /\ tripped' = FALSE /\ clean' = TRUE /\ dead' = FALSE
    /\ UNCHANGED <<scenario, roster, fails, alive, last>>

SessionChanges ==
    /\ changes < Changes /\ changes' = changes + 1
    /\ alive' = ~alive /\ dead' = (dead \/ loop = "run") /\ hollow' = {}
    /\ UNCHANGED <<scenario, roster, age, fails, loop, walk, failedRuns, last>>

LoopNext == \/ BeginRun \/ (\E u \in Users : Scan(u)) \/ FinishRun
            \/ Restart \/ KillLoop \/ SessionChanges

\* The loop runs on, and every fetch comes back.
Fairness ==
    /\ WF_loopVars(BeginRun) /\ WF_loopVars(\E u \in Users : Scan(u))
    /\ WF_loopVars(FinishRun) /\ WF_loopVars(Restart)

LoopSpec == LoopInit /\ [][LoopNext]_loopVars /\ Fairness

-----------------------------------------------------------------------------
(* Properties *)

\* The shape of the state: ages are bounded by the number of accounts.
LoopTypeOK ==
    /\ scenario \in Scenarios
    /\ roster \subseteq Users /\ age \in [Users -> 0..NeverAge]
    /\ fails \in 0..Threshold /\ failedRuns \in 0..MaxFails
    /\ loop \in {"sleep", "run", "bailed"}
    /\ rest \cup lead \cup stamped \cup hollow \subseteq Users
    /\ streak \in Nat /\ {tripped, clean, alive, dead} \subseteq BOOLEAN
    /\ changes \in 0..Changes /\ last \in Users \cup {None}

Having(c) == {u \in Users : scenario.account[u] = c}

\* order_users' promise: while the session works, an account that still posts is
\* fetched again and again, however often runs are cut short, by whom the walk is led
\* and whatever the other accounts answer - unless one always answers as an expired
\* session would: it is never stamped, leads every walk and trips the circuit.
EveryUserIsScanned ==
    \A u \in Users :
        Having("locked") = {} /\ scenario.account[u] = "posts" => []<>(~alive \/ last = u)

\* The circuit opens on a live session, and skips the accounts behind, only where as
\* many accounts cannot be found as a dead session would hide, or one of them is walked
\* again and again for its priority.
NoFalseAlarm ==
    tripped => \/ dead \/ Having("locked") # {}
               \/ Cardinality(Having("missing")) >= DeathThreshold
               \/ Having("missing") \cap scenario.priority # {}

\* A session that died shows empty profiles, which are stamped as scanned: in one run
\* fewer are than the threshold at which the run of them counts as its death.
HollowStampsAreFew == Cardinality(hollow) < DeathThreshold
=============================================================================
