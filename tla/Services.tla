------------------------------- MODULE Services --------------------------------
(***************************************************************************)
(* Who runs when: the service manager (core/platform/service.py), `ops      *)
(* load | unload recorder` and `ops update` (ops/cli.py, ops/update.py),    *)
(* `recorder start` by hand, and `recorder record` (recorder/cli.py), which *)
(* takes the recorder's place for one broadcast and hands it back.          *)
(* They share the units, the recorder's instance lock and pid file, the     *)
(* dispatcher's stop flag, the flag that keeps a recording from loading the *)
(* service again, and the fingerprint of the code that was deployed last.   *)
(*                                                                          *)
(* Left out: the archiver, which `ops update` treats like the dispatcher    *)
(* without a drain; what the processes do while they run (modules           *)
(* Dispatcher, Recorder and Bot); a pid that the system gives out again.    *)
(***************************************************************************)
EXTENDS Naturals, FiniteSets

CONSTANTS
    Records,      \* processes `recorder record`
    Updaters,     \* processes `ops update`
    Scenarios     \* what is done, and how often, to consider

\* blocks: unload returns when the process is gone (systemd) or at once (launchd);
\* service: the recorder's unit is loaded at first; force: an update may be a
\* --force one; the others are bounds.
Scenario == [blocks : BOOLEAN, service : BOOLEAN, records : Nat, terminals : Nat,
             loads : Nat, unloads : Nat, updates : Nat, force : BOOLEAN, edits : Nat,
             kills : Nat, failures : Nat]

ASSUME ServicesAssumption ==
    /\ Scenarios \subseteq Scenario
    /\ IsFiniteSet(Records) /\ IsFiniteSet(Updaters)
    /\ Records \cap Updaters = {} /\ Updaters \cap {"operator"} = {}
    /\ Records \cap {"operator", "nobody", "service", "terminal"} = {}

Worker == {"dispatcher", "recorder", "bot"}
Package == {"core", "ops", "dispatcher", "recorder"}
Kinds == {"records", "terminals", "loads", "unloads", "updates", "edits", "kills", "failures"}

Operator == "operator"
Actor == Records \cup Updaters \cup {Operator}
Nobody == "nobody"
Leftover == "stop flag"     \* in stranded: a killed update has left it

VARIABLES
    scenario,
    on,          \* [Worker -> BOOLEAN]: the unit is loaded, and started at login
    svc,         \* [Worker -> "none" | "boot" | "up" | "leaving"]: the unit's process
    fg,          \* the same, of `recorder start` in a terminal
    act,         \* [Actor -> what it is about]
    lock,        \* who holds InstanceLock("recorder")
    pidfile,     \* who wrote recorder_pid; Nobody when it is missing or names a dead one
    noReload,    \* recorder_suppress_reload_flag: for whom it was dropped, {} when absent
    stopFlag,    \* dispatcher_stop_flag
    stale,       \* [Worker -> SUBSET Package]: edited since the process was started
    dirty,       \* packages that differ from the fingerprints written last
    used,        \* [Kinds -> Nat]: how much of the scenario has happened
    wanted,      \* [Worker -> BOOLEAN]: whoever spoke last wants the unit to run
    stranded,    \* workers left down in one of the ways NobodyReturns lists
    outdated     \* workers left with old code in one of the ways NobodyRefreshes lists

recorderVars == <<fg, lock, pidfile, noReload>>
vars == <<scenario, on, svc, act, recorderVars, stopFlag, stale, dirty, used, wanted,
          stranded, outdated>>

\* An actor with nothing to do: todo are the workers an update has still to handle,
\* target whom an unload found, changed and since what an update saw changed and what
\* was edited after it looked, stopping that it got its first signal, told and heard that an unload dropped the
\* flag for it before it decided, and that it obeyed.
Resting == [pc |-> "off", todo |-> {}, target |-> Nobody, changed |-> {}, since |-> {},
            failed |-> FALSE, stopping |-> FALSE, told |-> FALSE, heard |-> FALSE]

Init ==
    /\ scenario \in Scenarios
    /\ on = [w \in Worker |-> w = "recorder" => scenario.service]
    /\ svc = [w \in Worker |-> IF on[w] THEN "up" ELSE "none"] /\ fg = "none"
    /\ act = [a \in Actor |-> IF a \in Records THEN [Resting EXCEPT !.pc = "new"] ELSE Resting]
    /\ lock = (IF on["recorder"] THEN "service" ELSE Nobody) /\ pidfile = lock
    /\ noReload = {} /\ stopFlag = FALSE
    /\ stale = [w \in Worker |-> {}] /\ dirty = {}
    /\ used = [k \in Kinds |-> 0]
    /\ wanted = on /\ stranded = {} /\ outdated = {}

Use(k) == used[k] < scenario[k] /\ used' = [used EXCEPT ![k] = @ + 1]
At(a, pc) == act[a].pc = pc
Goto(a, pc) == act' = [act EXCEPT ![a] = IF pc = "off" THEN Resting ELSE [@ EXCEPT !.pc = pc]]
Uses(w) == IF w = "bot" THEN {"core", "ops"} ELSE {"core", w}

\* heartbeat.pid_alive of what the pid file names.
Running(p) == CASE p = "service" -> svc["recorder"] # "none"
                [] p = "terminal" -> fg # "none"
                [] p = Nobody -> FALSE
                [] OTHER -> act[p].pc \notin {"new", "off"}

\* What the end of process p frees: the kernel its lock, and its pid is dead.
Frees(p) ==
    /\ lock' = IF lock = p THEN Nobody ELSE lock
    /\ pidfile' = IF pidfile = p THEN Nobody ELSE pidfile
--------------------------------------------------------------------------------
\* The service manager: Restart=always, 30 s after the process has gone.

Start(w) ==
    /\ on[w] /\ svc[w] = "none"
    /\ svc' = [svc EXCEPT ![w] = IF w = "recorder" THEN "boot" ELSE "up"]
    /\ stale' = [stale EXCEPT ![w] = {}]
    /\ outdated' = outdated \ {w}
    /\ UNCHANGED <<scenario, on, act, recorderVars, stopFlag, dirty, used, wanted, stranded>>

\* Run returns between two batches when the flag is there (dispatcher/drain.py).
DispatcherStops ==
    /\ stopFlag /\ svc["dispatcher"] = "up"
    /\ svc' = [svc EXCEPT !["dispatcher"] = "none"]
    /\ UNCHANGED <<scenario, on, act, recorderVars, stopFlag, stale, dirty, used, wanted,
                   stranded, outdated>>

\* `recorder start` (the service's, or by hand): the lock, then the pid file; refused,
\* it exits.
RecorderBoots ==
    /\ svc["recorder"] = "boot"
    /\ IF lock = Nobody
         THEN /\ lock' = "service" /\ pidfile' = "service"
              /\ svc' = [svc EXCEPT !["recorder"] = "up"]
         ELSE /\ svc' = [svc EXCEPT !["recorder"] = "none"]
              /\ UNCHANGED <<lock, pidfile>>
    /\ UNCHANGED <<scenario, on, act, fg, noReload, stopFlag, stale, dirty, used, wanted,
                   stranded, outdated>>

TerminalStarts ==
    /\ fg = "none" /\ lock = Nobody /\ Use("terminals")
    /\ fg' = "up" /\ lock' = "terminal" /\ pidfile' = "terminal"
    /\ UNCHANGED <<scenario, on, svc, act, noReload, stopFlag, stale, dirty, wanted, stranded,
                   outdated>>

\* A recorder told to stop has ended its capture and removed its pid file.
ServiceLeaves ==
    /\ svc["recorder"] = "leaving"
    /\ svc' = [svc EXCEPT !["recorder"] = "none"] /\ Frees("service")
    /\ UNCHANGED <<scenario, on, act, fg, noReload, stopFlag, stale, dirty, used, wanted,
                   stranded, outdated>>

TerminalLeaves ==
    /\ fg = "leaving"
    /\ fg' = "none" /\ Frees("terminal")
    /\ UNCHANGED <<scenario, on, svc, act, noReload, stopFlag, stale, dirty, used, wanted,
                   stranded, outdated>>

ServiceCrashes(w) ==
    /\ svc[w] \in {"boot", "up"} /\ Use("kills")
    /\ svc' = [svc EXCEPT ![w] = "none"]
    /\ IF w = "recorder" THEN Frees("service") ELSE UNCHANGED <<lock, pidfile>>
    /\ UNCHANGED <<scenario, on, act, fg, noReload, stopFlag, stale, dirty, wanted, stranded,
                   outdated>>

\* Somebody saves a change to a package.
Edit(p) ==
    /\ Use("edits")
    /\ dirty' = dirty \cup {p}
    /\ stale' = [w \in Worker |-> stale[w] \cup ({p} \cap Uses(w))]
    /\ act' = [a \in Actor |-> IF a \in Updaters /\ ~At(a, "off")
                                 THEN [act[a] EXCEPT !.since = @ \cup {p}] ELSE act[a]]
    /\ UNCHANGED <<scenario, on, svc, recorderVars, stopFlag, wanted, stranded, outdated>>
--------------------------------------------------------------------------------
\* `ops unload recorder`, alone or as a part of a recording or an update.

After(a) == CASE a \in Records -> "wait"
              [] a \in Updaters -> "install"
              [] OTHER -> "off"

\* unload(label): the unit is disabled and its process told to stop; it may fail.
Unit(a) ==
    /\ At(a, "unit")
    /\ \/ /\ on' = [on EXCEPT !["recorder"] = FALSE]
          /\ svc' = [svc EXCEPT !["recorder"] = IF @ \in {"up", "leaving"} THEN "leaving"
                                                ELSE "none"]
          /\ Goto(a, IF scenario.blocks THEN "gone" ELSE "look")
          /\ UNCHANGED <<used, outdated>>
       \/ /\ Use("failures")
          /\ Goto(a, "look")
          /\ outdated' = IF a \in Updaters THEN outdated \cup {"recorder"} ELSE outdated
          /\ UNCHANGED <<on, svc>>
    /\ UNCHANGED <<scenario, recorderVars, stopFlag, stale, dirty, wanted, stranded>>

Gone(a) ==
    /\ At(a, "gone") /\ svc["recorder"] # "leaving"
    /\ Goto(a, "look")
    /\ UNCHANGED <<scenario, on, svc, recorderVars, stopFlag, stale, dirty, used, wanted,
                   stranded, outdated>>

\* health.foreground_pid: whoever the pid file names, unless the service manager has a
\* process for the unit; launchd has none for a unit that is unloaded.
foreground_pid ==
    IF \/ svc["recorder"] # "none" /\ (on["recorder"] \/ scenario.blocks)
       \/ ~Running(pidfile)
      THEN Nobody ELSE pidfile

Look(a) ==
    /\ At(a, "look")
    /\ act' = [act EXCEPT ![a].target = foreground_pid,
                          ![a].pc = IF foreground_pid = Nobody THEN After(a) ELSE "flag"]
    /\ UNCHANGED <<scenario, on, svc, recorderVars, stopFlag, stale, dirty, used, wanted,
                   stranded, outdated>>

Flag(a) ==
    /\ At(a, "flag")
    /\ noReload' = noReload \cup {act[a].target}
    /\ Goto(a, "term")
    /\ UNCHANGED <<scenario, on, svc, fg, lock, pidfile, stopFlag, stale, dirty, used, wanted,
                   stranded, outdated>>

Deciding == {"record", "finally", "decide"}
Decided == {"load", "leave"}

\* Mutant: a second signal loads the service without asking.
SignalledLoads(r, drop) ==
    LET s == act[r]
    IN  CASE s.pc \in {"new", "off"} -> s
          [] s.pc \in Deciding \cup Decided /\ s.stopping ->
               [s EXCEPT !.pc = "load", !.told = @ \/ drop]
          [] s.pc \in Deciding /\ ~s.stopping -> [s EXCEPT !.stopping = TRUE, !.told = @ \/ drop]
          [] s.pc \in Decided /\ ~s.stopping -> [s EXCEPT !.stopping = TRUE]
          [] OTHER -> Resting

\* _on_signal of `recorder record`: the first signal asks it to end, a second makes it
\* clean up and exit on the spot.  Before the handler is there a signal is the end.
Signalled(r, drop) ==
    LET s == act[r]
    IN  CASE s.pc \in {"new", "off"} -> s
          [] s.pc \in Deciding \cup Decided /\ s.stopping ->
               [s EXCEPT !.pc = "decide", !.told = @ \/ drop]
          [] s.pc \in Deciding /\ ~s.stopping -> [s EXCEPT !.stopping = TRUE, !.told = @ \/ drop]
          [] s.pc \in Decided /\ ~s.stopping -> [s EXCEPT !.stopping = TRUE]
          [] OTHER -> Resting

\* Whether the signal ends r, or makes it forget its pid file.
Ends(r) == act[r].pc \notin {"new", "off"} /\ Signalled(r, FALSE).pc = "off"
Forced(r) == Signalled(r, FALSE).pc = "decide" /\ act[r].stopping

\* r goes without bringing the service back.
NobodyReturns == stranded' = IF on["recorder"] THEN stranded ELSE stranded \cup {"recorder"}

\* procgroup.terminate_pid of the one that was found, if it is still there.
Term(a) ==
    LET t == act[a].target
        done == [act EXCEPT ![a].pc = After(a), ![a].target = Nobody]
    IN  /\ At(a, "term")
        /\ CASE t = "service" ->
                  /\ act' = done
                  /\ IF svc["recorder"] = "leaving"
                       THEN svc' = [svc EXCEPT !["recorder"] = "none"] /\ Frees("service")
                       ELSE UNCHANGED <<svc, lock, pidfile>>
                  /\ UNCHANGED <<on, fg, stranded>>
             [] t = "terminal" ->
                  /\ act' = done
                  /\ fg' = IF fg = "up" THEN "leaving" ELSE "none"
                  /\ IF fg = "leaving" THEN Frees("terminal") ELSE UNCHANGED <<lock, pidfile>>
                  /\ UNCHANGED <<on, svc, stranded>>
             [] OTHER ->
                  /\ act' = [done EXCEPT ![t] = Signalled(t, TRUE)]
                  /\ IF Ends(t) THEN Frees(t) /\ NobodyReturns
                     ELSE /\ pidfile' = IF Forced(t) /\ pidfile = t THEN Nobody ELSE pidfile
                          /\ UNCHANGED <<lock, stranded>>
                  \* the `ops load` that t has started goes on without it
                  /\ on' = [on EXCEPT !["recorder"] = @ \/ At(t, "load")]
                  /\ UNCHANGED <<svc, fg>>
        /\ UNCHANGED <<scenario, noReload, stopFlag, stale, dirty, used, wanted, outdated>>

\* The operator's `ops unload recorder` and `ops load recorder`.
OperatorUnloads ==
    /\ At(Operator, "off") /\ Use("unloads")
    /\ Goto(Operator, "unit")
    /\ wanted' = [wanted EXCEPT !["recorder"] = FALSE]
    /\ UNCHANGED <<scenario, on, svc, recorderVars, stopFlag, stale, dirty, stranded, outdated>>

\* load(label): the unit is enabled, and started; it may fail.
Loads(w) ==
    \/ /\ on' = [on EXCEPT ![w] = TRUE] /\ stranded' = stranded \ {w}
       /\ UNCHANGED used
    \/ /\ Use("failures") /\ stranded' = stranded \cup {w}
       /\ UNCHANGED on

OperatorLoads ==
    /\ At(Operator, "off") /\ used["loads"] < scenario.loads
    /\ on' = [on EXCEPT !["recorder"] = TRUE] /\ stranded' = stranded \ {"recorder"}
    /\ Use("loads")
    /\ wanted' = [wanted EXCEPT !["recorder"] = TRUE]
    /\ UNCHANGED <<scenario, svc, act, recorderVars, stopFlag, stale, dirty, outdated>>
--------------------------------------------------------------------------------
\* `recorder record` (cmd_record).

Launch(r) ==
    /\ At(r, "new") /\ Use("records")
    /\ Goto(r, "check")
    /\ UNCHANGED <<scenario, on, svc, recorderVars, stopFlag, stale, dirty, wanted, stranded,
                   outdated>>

Check(r) ==
    /\ At(r, "check")
    /\ act' = IF Running(pidfile)
                THEN [act EXCEPT ![r].pc = "unit"]
                ELSE [act EXCEPT ![r].pc = "acquire"]
    /\ UNCHANGED <<scenario, on, svc, recorderVars, stopFlag, stale, dirty, used, wanted,
                   stranded, outdated>>

\* Mutant: it gives up and leaves the service unloaded.
WaitGivesUp(r) ==
    /\ At(r, "wait")
    /\ Goto(r, IF Running(pidfile) THEN "off" ELSE "acquire")
    /\ UNCHANGED <<scenario, on, svc, recorderVars, stopFlag, stale, dirty, used, wanted,
                   stranded, outdated>>

\* Ten seconds for the other to go; else the service is loaded again and r gives up.
Wait(r) ==
    /\ At(r, "wait")
    /\ Goto(r, IF Running(pidfile) THEN "retreat" ELSE "acquire")
    /\ UNCHANGED <<scenario, on, svc, recorderVars, stopFlag, stale, dirty, used, wanted,
                   stranded, outdated>>

\* _reload_recorder_service of one that gives up, with no handler and no lock.
Retreat(r) ==
    /\ At(r, "retreat") /\ Loads("recorder") /\ Goto(r, "off")
    /\ UNCHANGED <<scenario, svc, recorderVars, stopFlag, stale, dirty, wanted, outdated>>

\* with InstanceLock("recorder"): refused, it exits with what it unloaded left down.
Acquire(r) ==
    /\ At(r, "acquire")
    /\ IF lock = Nobody
         THEN /\ lock' = r /\ pidfile' = r /\ Goto(r, "setup")
              /\ UNCHANGED stranded
         ELSE /\ Goto(r, "off") /\ NobodyReturns
              /\ UNCHANGED <<lock, pidfile>>
    /\ UNCHANGED <<scenario, on, svc, fg, noReload, stopFlag, stale, dirty, used, wanted,
                   outdated>>

\* The signal handler is installed; record_once returns: the user is not live, or the
\* broadcast has ended, or r was told to stop; the pid file goes.
Advance(r) ==
    /\ \E step \in {<<"setup", "record">>, <<"record", "finally">>, <<"finally", "decide">>} :
          At(r, step[1]) /\ Goto(r, step[2])
    /\ pidfile' = IF At(r, "finally") /\ pidfile = r THEN Nobody ELSE pidfile
    /\ UNCHANGED <<scenario, on, svc, fg, lock, noReload, stopFlag, stale, dirty, used, wanted,
                   stranded, outdated>>

\* _should_reload: the flag, whomever it was dropped for, is consumed and obeyed.
Decide(r) ==
    /\ At(r, "decide")
    /\ IF noReload # {}
         THEN /\ noReload' = {}
              /\ act' = [act EXCEPT ![r].pc = "leave", ![r].heard = TRUE]
              /\ IF r \in noReload THEN UNCHANGED stranded ELSE NobodyReturns
         ELSE /\ Goto(r, "load") /\ UNCHANGED <<noReload, stranded>>
    /\ UNCHANGED <<scenario, on, svc, fg, lock, pidfile, stopFlag, stale, dirty, used, wanted,
                   outdated>>

\* _reload_recorder_service; its failure is only logged.
Reload(r) ==
    /\ At(r, "load") /\ Loads("recorder") /\ Goto(r, "leave")
    /\ UNCHANGED <<scenario, svc, recorderVars, stopFlag, stale, dirty, wanted, outdated>>

Leave(r) ==
    /\ At(r, "leave")
    /\ Goto(r, "off") /\ Frees(r)
    /\ UNCHANGED <<scenario, on, svc, fg, noReload, stopFlag, stale, dirty, used, wanted,
                   stranded, outdated>>

\* Ctrl-C, which the `ops` command r may be running gets too.
Interrupt(r) ==
    /\ act[r].pc \notin {"new", "off"} /\ Use("kills")
    /\ IF At(r, "load") /\ ~act[r].stopping
         THEN act' = [act EXCEPT ![r].pc = "leave", ![r].stopping = TRUE] /\ NobodyReturns
              /\ UNCHANGED <<lock, pidfile>>
         ELSE /\ act' = [act EXCEPT ![r] = Signalled(r, FALSE)]
              /\ IF Ends(r) THEN Frees(r) /\ NobodyReturns
                 ELSE /\ pidfile' = IF Forced(r) /\ pidfile = r THEN Nobody ELSE pidfile
                      /\ UNCHANGED <<lock, stranded>>
    /\ UNCHANGED <<scenario, on, svc, fg, noReload, stopFlag, stale, dirty, wanted, outdated>>

RecordKilled(r) ==
    /\ act[r].pc \notin {"new", "off"} /\ Use("kills")
    /\ Goto(r, "off") /\ Frees(r) /\ NobodyReturns
    /\ UNCHANGED <<scenario, on, svc, fg, noReload, stopFlag, stale, dirty, wanted, outdated>>
--------------------------------------------------------------------------------
\* `ops update` (cmd_update).

update_plan(changed) ==
    IF "core" \in changed THEN {"dispatcher", "recorder"}
    ELSE changed \cap {"dispatcher", "recorder"}

\* What changed since the fingerprints were written, or everything with --force.
UpdateBegins(u) ==
    /\ At(u, "off") /\ Use("updates")
    /\ \E changed \in {dirty, IF scenario.force THEN Package ELSE {}} \ {{}} :
          act' = [act EXCEPT ![u] = [Resting EXCEPT
                    !.changed = changed, !.todo = update_plan(changed),
                    !.pc = IF update_plan(changed) = {} THEN "write" ELSE "drain"]]
    /\ UNCHANGED <<scenario, on, svc, recorderVars, stopFlag, stale, dirty, wanted, stranded,
                   outdated>>

\* _drain_worker: the dispatcher's flag is written.
Drain(u) ==
    /\ At(u, "drain")
    /\ stopFlag' = (stopFlag \/ "dispatcher" \in act[u].todo)
    /\ Goto(u, "drained")
    /\ UNCHANGED <<scenario, on, svc, recorderVars, stale, dirty, used, wanted, stranded,
                   outdated>>

\* Both waits end, with their workers at rest or without, and the dispatcher is unloaded.
UnloadDispatcher(u) ==
    /\ At(u, "drained")
    /\ Goto(u, IF "recorder" \in act[u].todo THEN "unit" ELSE "install")
    /\ \/ /\ "dispatcher" \in act[u].todo
          /\ on' = [on EXCEPT !["dispatcher"] = FALSE]
          /\ svc' = [svc EXCEPT !["dispatcher"] = "none"]
          /\ UNCHANGED <<used, outdated>>
       \/ /\ "dispatcher" \in act[u].todo /\ Use("failures")
          /\ outdated' = outdated \cup {"dispatcher"}
          /\ UNCHANGED <<on, svc>>
       \/ /\ "dispatcher" \notin act[u].todo
          /\ UNCHANGED <<on, svc, used, outdated>>
    /\ UNCHANGED <<scenario, recorderVars, stopFlag, stale, dirty, wanted, stranded>>

\* wait_processes_down and run_reinstall.
Install(u) ==
    /\ At(u, "install")
    /\ \/ Goto(u, "clear") /\ UNCHANGED used
       \/ /\ act[u].changed \cap Worker # {} /\ Use("failures")
          /\ act' = [act EXCEPT ![u].pc = "clear", ![u].failed = TRUE]
    /\ UNCHANGED <<scenario, on, svc, recorderVars, stopFlag, stale, dirty, wanted, stranded,
                   outdated>>

Clear(u) ==
    /\ At(u, "clear")
    /\ stopFlag' = FALSE /\ stranded' = stranded \ {Leftover}
    /\ Goto(u, IF act[u].failed THEN "load" ELSE "write")
    /\ UNCHANGED <<scenario, on, svc, recorderVars, stale, dirty, used, wanted, outdated>>

\* Mutant: the fingerprints of what is there by now.
WriteLatest(u) ==
    /\ At(u, "write")
    /\ dirty' = {}
    /\ Goto(u, IF act[u].todo = {} THEN "bot" ELSE "load")
    /\ UNCHANGED <<scenario, on, svc, recorderVars, stopFlag, stale, used, wanted, stranded,
                   outdated>>

\* write_fingerprints(current): those it computed at first.
Write(u) ==
    /\ At(u, "write")
    /\ dirty' = act[u].since
    /\ Goto(u, IF act[u].todo = {} THEN "bot" ELSE "load")
    /\ UNCHANGED <<scenario, on, svc, recorderVars, stopFlag, stale, used, wanted, stranded,
                   outdated>>

\* cmd_load of each worker in order; what it answers is ignored.
Load(u) ==
    LET w == IF "dispatcher" \in act[u].todo THEN "dispatcher" ELSE "recorder"
        next == IF act[u].todo # {w} THEN "load" ELSE IF act[u].failed THEN "off" ELSE "bot"
    IN  /\ At(u, "load") /\ Loads(w)
        /\ act' = [act EXCEPT ![u] = IF next = "off" THEN Resting
                                     ELSE [@ EXCEPT !.todo = @ \ {w}, !.pc = next]]
        /\ wanted' = [wanted EXCEPT ![w] = TRUE]
        /\ UNCHANGED <<scenario, svc, recorderVars, stopFlag, stale, dirty, outdated>>

\* _restart_bot_if_stale, when the bot is running.
RestartBot(u) ==
    /\ At(u, "bot")
    /\ Goto(u, "off")
    /\ \/ /\ act[u].changed \cap {"ops", "core"} # {} /\ svc["bot"] = "up"
          /\ \/ stale' = [stale EXCEPT !["bot"] = {}] /\ outdated' = outdated \ {"bot"}
                /\ UNCHANGED used
             \/ Use("failures") /\ outdated' = outdated \cup {"bot"} /\ UNCHANGED stale
       \/ /\ act[u].changed \cap {"ops", "core"} = {} \/ svc["bot"] # "up"
          /\ UNCHANGED <<stale, used, outdated>>
    /\ UNCHANGED <<scenario, on, svc, recorderVars, stopFlag, dirty, wanted, stranded>>

\* The steps within `try`, whose `finally` clears the flag.
InTry == {"drain", "drained", "unit", "gone", "look", "flag", "term", "install", "clear"}

\* Ctrl-C, which runs the `finally`, or a kill, which does not.
UpdateEnds(u) ==
    /\ ~At(u, "off") /\ Use("kills")
    /\ \E clears \in {FALSE, act[u].pc \in InTry} :
          /\ stopFlag' = (stopFlag /\ ~clears)
          /\ stranded' = (IF clears THEN stranded \ {Leftover} ELSE stranded)
                           \cup {w \in {"dispatcher", "recorder"} : ~on[w]}
                           \cup (IF stopFlag' THEN {Leftover} ELSE {})
    /\ Goto(u, "off")
    /\ outdated' = IF /\ act[u].pc \in {"load", "bot"} /\ ~act[u].failed
                      /\ act[u].changed \cap {"ops", "core"} # {}
                     THEN outdated \cup {"bot"} ELSE outdated
    /\ UNCHANGED <<scenario, on, svc, recorderVars, stale, dirty, wanted>>
--------------------------------------------------------------------------------
Unloads(a) == Unit(a) \/ Gone(a) \/ Look(a) \/ Flag(a) \/ Term(a)

RecordGoesOn(r) ==
    \/ Check(r) \/ Unloads(r) \/ Wait(r) \/ Retreat(r) \/ Acquire(r) \/ Advance(r)
    \/ Decide(r) \/ Reload(r) \/ Leave(r)

UpdateGoesOn(u) ==
    \/ Drain(u) \/ UnloadDispatcher(u) \/ Unloads(u) \/ Install(u) \/ Clear(u) \/ Write(u)
    \/ Load(u) \/ RestartBot(u)

Manager ==
    \/ \E w \in Worker : Start(w)
    \/ DispatcherStops \/ RecorderBoots \/ ServiceLeaves \/ TerminalLeaves

Next ==
    \/ Manager
    \/ TerminalStarts \/ OperatorUnloads \/ OperatorLoads \/ Unloads(Operator)
    \/ \E w \in Worker : ServiceCrashes(w)
    \/ \E p \in Package : Edit(p)
    \/ \E r \in Records : Launch(r) \/ RecordGoesOn(r) \/ Interrupt(r) \/ RecordKilled(r)
    \/ \E u \in Updaters : UpdateBegins(u) \/ UpdateGoesOn(u) \/ UpdateEnds(u)

Spec == Init /\ [][Next]_vars

\* Every command goes on, and the service manager does what it is for.
Fairness ==
    /\ \A w \in Worker : WF_vars(Start(w))
    /\ WF_vars(DispatcherStops) /\ WF_vars(RecorderBoots)
    /\ WF_vars(ServiceLeaves) /\ WF_vars(TerminalLeaves)
    /\ WF_vars(Unloads(Operator))
    /\ \A r \in Records : WF_vars(RecordGoesOn(r))
    /\ \A u \in Updaters : WF_vars(UpdateGoesOn(u))

FairSpec == Spec /\ Fairness
--------------------------------------------------------------------------------
TypeOK ==
    /\ scenario \in Scenarios
    /\ on \in [Worker -> BOOLEAN] /\ wanted \in [Worker -> BOOLEAN]
    /\ svc \in [Worker -> {"none", "boot", "up", "leaving"}]
    /\ fg \in {"none", "up", "leaving"}
    /\ DOMAIN act = Actor
    /\ lock \in Records \cup {Nobody, "service", "terminal"}
    /\ pidfile \in Records \cup {Nobody, "service", "terminal"}
    /\ noReload \subseteq Records \cup {"service", "terminal"}
    /\ stopFlag \in BOOLEAN
    /\ stale \in [Worker -> SUBSET Package] /\ dirty \subseteq Package
    /\ stranded \subseteq Worker \cup {Leftover} /\ outdated \subseteq Worker

\* When no update is under way and the fingerprints say that a package is deployed, every
\* service runs it (update.py: what changed_packages no longer reports is not restarted
\* by any later update), but for a worker whose unload or restart failed or whose update
\* was cut short after the fingerprints were written.
CleanMeansFresh ==
    (\A u \in Updaters : At(u, "off")) =>
        \A w \in Worker \ outdated : svc[w] \in {"boot", "up"} => stale[w] \subseteq dirty

\* A recording that an unload told to stop, and dropped the flag for, before it decided
\* whether to load the service does not load it and undo the unload (ops/cli.py:cmd_unload).
SuppressIsHonoured ==
    \A r \in Records : act[r].told /\ ~act[r].heard => ~At(r, "load")

\* A worker that was last asked to run ends up running, in its service or, the recorder,
\* in the terminal that holds the lock, whatever recordings, unloads and updates crossed
\* each other, but for the ways to be stranded.
Runs(w) == on[w] /\ (svc[w] = "up" \/ (w = "recorder" /\ fg = "up"))
Returns == <>[](\A w \in Worker : wanted[w] /\ w \notin stranded => Runs(w) \/ (w = "dispatcher" /\ Leftover \in stranded))
=============================================================================
