--------------------------------- MODULE MCOps ---------------------------------
(***************************************************************************)
(* Model checking of Services and of Bot, in one run: in every scenario one *)
(* of the two is at work.  The deaths of the bot stand for what Services    *)
(* does to its unit.                                                        *)
(***************************************************************************)
EXTENDS Services, Bot

CONSTANTS r1, r2, u1, u2, ana, bea

Nothing == [blocks |-> TRUE, service |-> TRUE, records |-> 0, terminals |-> 0, loads |-> 0,
            unloads |-> 0, updates |-> 0, force |-> FALSE, edits |-> 0, kills |-> 0,
            failures |-> 0]

\* Recordings that take the recorder's place, with an unload and a load of the operator,
\* a recorder in a terminal, a kill or an interrupt, a command that fails.
Handovers(b) ==
    {[Nothing EXCEPT !.blocks = b, !.records = 2, !.kills = 1],
     [Nothing EXCEPT !.blocks = b, !.records = 2, !.unloads = 1, !.loads = 1],
     [Nothing EXCEPT !.blocks = b, !.service = b, !.records = 1, !.terminals = 1,
                     !.unloads = 1, !.failures = 1]}

\* Updates, one after the other or both at once, between edits and recordings.
Deployments ==
    {[Nothing EXCEPT !.updates = 2, !.edits = 2],
     [Nothing EXCEPT !.updates = 2, !.edits = 1, !.kills = 1],
     [Nothing EXCEPT !.updates = 1, !.edits = 1, !.records = 1, !.failures = 1],
     [Nothing EXCEPT !.updates = 1, !.edits = 1, !.records = 2],
     [Nothing EXCEPT !.updates = 2, !.failures = 1, !.force = TRUE]}

AllScenarios == {Nothing} \cup Handovers(TRUE) \cup Handovers(FALSE) \cup Deployments

Quiet == [commands |-> 0, presses |-> 0, changes |-> 0, errors |-> 0, deaths |-> 0]
AllScenes == {Quiet, [Quiet EXCEPT !.commands = 2, !.presses = 2, !.errors = 1],
              [Quiet EXCEPT !.commands = 2, !.presses = 1, !.errors = 1, !.deaths = 1],
              [Quiet EXCEPT !.commands = 1, !.presses = 2, !.errors = 1, !.deaths = 1],
              [Quiet EXCEPT !.changes = 3, !.errors = 3, !.deaths = 1]}

MCInit ==
    /\ Init /\ BotInit
    /\ (scenario = Nothing) # (scene = Quiet)

MCNext ==
    \/ Next /\ UNCHANGED botVars
    \/ BotNext /\ UNCHANGED vars

MCSpec == MCInit /\ [][MCNext]_<<vars, botVars>> /\ Fairness /\ BotFairness
=============================================================================
