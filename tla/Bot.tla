---------------------------------- MODULE Bot ----------------------------------
(***************************************************************************)
(* The Telegram control bot (ops/ops/bot/): the loop that fetches updates,  *)
(* handles them, lets confirmations run out and tells each chat what is     *)
(* recorded (loop.py), the confirmation and running of commands             *)
(* (actions.py, catalog.py) and the offset it keeps on disk (state.py).     *)
(* The bot may die at any point; the service manager starts it again, and   *)
(* what it has started goes on without it (KillMode=process).               *)
(*                                                                          *)
(* Left out: who may write to the bot, the commands that only ask, /record, *)
(* the deletion of messages after a day.                                    *)
(***************************************************************************)
EXTENDS Naturals, Sequences, FiniteSets

CONSTANTS
    Confirmed,    \* commands that ask for a confirmation
    Plain,        \* commands that run at once
    Detached,     \* those of both that run in the background (_is_detach)
    Chats,        \* who is told what is recorded
    Users,        \* whom the recorder records
    BROADCAST_TRIES,
    Scenes        \* how much happens, to consider

Command == Confirmed \cup Plain
NoUser == "no user"

\* How many commands, presses of a button, changes of what is recorded, failing calls of
\* Telegram, and deaths of the bot.
Scene == [commands : Nat, presses : Nat, changes : Nat, errors : Nat, deaths : Nat]

ASSUME BotAssumption ==
    /\ Confirmed \cap Plain = {} /\ Detached \subseteq Command /\ NoUser \notin Users
    /\ BROADCAST_TRIES \in Nat \ {0}
    /\ Scenes \subseteq Scene

VARIABLES
    scene,       \* what may still happen
    inbox,       \* the updates sent so far; an update's id is its index
    offset,      \* offset.json: the updates up to it are not fetched again
    bot,         \* "down", or what its loop is about
    batch,       \* how many updates the last fetch knew of
    pending,     \* Pending: prompts that wait for Yes or No
    old,         \* prompts whose sixty seconds are over
    text,        \* [Command -> what the message about the command says]
    busy,        \* commands that a thread of the bot runs
    runs,        \* [Command -> Nat]: how often the command was run
    refused,     \* commands answered with No, or whose confirmation ran out
    recorded,    \* whom the recorder's lock names
    prev,        \* prev_user
    notice,      \* pending_notice: what to tell, and the chats left
    tries,       \* pending_tries
    shown,       \* [Chats -> what the last report in the chat says]
    lost         \* commands and chats that a death or an error left without an end

commandVars == <<pending, old, text, busy, runs, refused>>
noticeVars == <<prev, notice, tries, shown>>
botVars == <<scene, inbox, offset, bot, batch, commandVars, recorded, noticeVars, lost>>

NoNotice == [now |-> NoUser, left |-> {}]

BotInit ==
    /\ scene \in Scenes
    /\ inbox = <<>> /\ offset = 0 /\ bot = "poll" /\ batch = 0
    /\ pending = {} /\ old = {} /\ text = [c \in Command |-> "none"] /\ busy = {}
    /\ runs = [c \in Command |-> 0] /\ refused = {}
    /\ recorded = NoUser /\ prev = NoUser /\ notice = NoNotice /\ tries = 0
    /\ shown = [h \in Chats |-> NoUser]
    /\ lost = {}

Spend(k, n) == scene[k] >= n /\ scene' = [scene EXCEPT ![k] = @ - n]
--------------------------------------------------------------------------------
\* What users and the recorder do.

Asks(c) ==
    /\ Spend("commands", 1)
    /\ \A i \in DOMAIN inbox : inbox[i] # [kind |-> "command", of |-> c]
    /\ inbox' = Append(inbox, [kind |-> "command", of |-> c])
    /\ UNCHANGED <<offset, bot, batch, commandVars, recorded, noticeVars, lost>>

\* A button may be pressed twice: the message loses it when it is edited.
Pressed(c) ==
    /\ c \in Confirmed /\ text[c] # "none" /\ Spend("presses", 1)
    /\ \E answer \in {"yes", "no"} : inbox' = Append(inbox, [kind |-> answer, of |-> c])
    /\ UNCHANGED <<offset, bot, batch, commandVars, recorded, noticeVars, lost>>

Ages(c) ==
    /\ c \in pending \ old
    /\ old' = old \cup {c}
    /\ UNCHANGED <<scene, inbox, offset, bot, batch, pending, text, busy, runs, refused,
                   recorded, noticeVars, lost>>

RecorderMoves(u) ==
    /\ u # recorded /\ Spend("changes", 1)
    /\ recorded' = u
    /\ UNCHANGED <<inbox, offset, bot, batch, commandVars, noticeVars, lost>>
--------------------------------------------------------------------------------
\* _process_updates.

Idle ==
    /\ Len(inbox) = offset /\ old \cap pending = {} /\ recorded = prev
    /\ notice = NoNotice

\* A fetch that fails ends the pass: nothing expires and nothing is told.
Fetch ==
    /\ bot = "poll" /\ ~Idle
    /\ \/ batch' = Len(inbox) /\ bot' = "next" /\ UNCHANGED scene
       \/ Spend("errors", 1) /\ UNCHANGED <<bot, batch>>
    /\ UNCHANGED <<inbox, offset, commandVars, recorded, noticeVars, lost>>

\* The offset is stored before the update is handled.
TakeNext ==
    /\ bot = "next"
    /\ IF offset < batch THEN offset' = offset + 1 /\ bot' = "work"
                         ELSE bot' = "expire" /\ UNCHANGED offset
    /\ UNCHANGED <<scene, inbox, batch, commandVars, recorded, noticeVars, lost>>

Update == inbox[offset]
About == Update.of

\* send_message or edit_message_text of the message about c: it works, or it raises,
\* which does not tell whether the message is there.
Says(c, t) == text' = [text EXCEPT ![c] = t] /\ UNCHANGED <<scene, lost>>
Raises(c, t) ==
    /\ Spend("errors", 1) /\ lost' = lost \cup {c}
    /\ \/ text' = [text EXCEPT ![c] = t]
       \/ UNCHANGED text

\* handle_text of a command that asks first: the prompt, then the entry in Pending.
Prompt ==
    /\ bot = "work" /\ Update.kind = "command" /\ About \in Confirmed
    /\ \/ Says(About, "asked") /\ pending' = pending \cup {About} /\ bot' = "next"
       \/ Raises(About, "asked") /\ UNCHANGED pending /\ bot' = "poll"
    /\ UNCHANGED <<inbox, offset, batch, old, busy, runs, refused, recorded, noticeVars>>

\* execute: the message first, then the thread or the process of its own; when the
\* message raises, nothing is run.
Execute(c, caught) ==
    \/ /\ c \notin Detached
       /\ Says(c, "running") /\ busy' = busy \cup {c} /\ bot' = "next" /\ UNCHANGED runs
    \/ /\ c \in Detached
       /\ Says(c, "started") /\ runs' = [runs EXCEPT ![c] = @ + 1] /\ bot' = "next"
       /\ UNCHANGED busy
    \/ /\ \E t \in {"running", "started"} : (t = "started") = (c \in Detached) /\ Raises(c, t)
       /\ bot' = (IF caught THEN "next" ELSE "poll")
       /\ UNCHANGED <<busy, runs>>

\* _handle_command: accounts are added and removed within the pass; the reply comes last.
RunNow(c) ==
    /\ c \notin Detached
    /\ runs' = [runs EXCEPT ![c] = @ + 1] /\ UNCHANGED busy
    /\ \/ Says(c, "done") /\ bot' = "next"
       \/ Raises(c, "done") /\ bot' = "poll"

RunPlain ==
    /\ bot = "work" /\ Update.kind = "command" /\ About \in Plain
    /\ Execute(About, FALSE) \/ RunNow(About)
    /\ UNCHANGED <<inbox, offset, batch, pending, old, refused, recorded, noticeVars>>

\* Mutant: the entry is read, not popped.
AnswerYesKeeps ==
    /\ bot = "work" /\ Update.kind = "yes" /\ About \in pending
    /\ Execute(About, TRUE)
    /\ UNCHANGED <<inbox, offset, batch, pending, old, refused, recorded, noticeVars>>

\* handle_callback: the entry is popped; a Yes runs the command, and without an entry
\* the prompt is overwritten.
AnswerYes ==
    /\ bot = "work" /\ Update.kind = "yes" /\ About \in pending
    /\ pending' = pending \ {About}
    /\ Execute(About, TRUE)
    /\ UNCHANGED <<inbox, offset, batch, old, refused, recorded, noticeVars>>

AnswerNo ==
    /\ bot = "work" /\ Update.kind = "no" /\ About \in pending
    /\ pending' = pending \ {About} /\ refused' = refused \cup {About}
    /\ Says(About, "cancelled") \/ Raises(About, "cancelled")
    /\ bot' = "next"
    /\ UNCHANGED <<inbox, offset, batch, old, busy, runs, recorded, noticeVars>>

AnswerTooLate ==
    /\ bot = "work" /\ Update.kind # "command" /\ About \notin pending
    /\ Says(About, "expired") \/ Raises(About, "expired")
    /\ bot' = "next"
    /\ UNCHANGED <<inbox, offset, batch, pending, old, busy, runs, refused, recorded,
                   noticeVars>>

\* The thread: run_cli, then the result into the message, or in a new one.
ThreadEnds(c) ==
    /\ c \in busy
    /\ busy' = busy \ {c} /\ runs' = [runs EXCEPT ![c] = @ + 1]
    /\ Says(c, "done") \/ Raises(c, "done")
    /\ UNCHANGED <<inbox, offset, bot, batch, pending, old, refused, recorded, noticeVars>>

\* expire: all that are too old are popped, then their prompts edited.
Expire ==
    LET gone == old \cap pending
    IN  /\ bot = "expire" /\ bot' = "notice"
        /\ pending' = pending \ gone /\ refused' = refused \cup gone
        /\ \E missed \in SUBSET gone :
              /\ Spend("errors", Cardinality(missed))
              /\ text' = [c \in Command |-> IF c \in gone \ missed THEN "expired" ELSE text[c]]
              /\ lost' = lost \cup missed
        /\ UNCHANGED <<inbox, offset, batch, old, busy, runs, recorded, noticeVars>>
--------------------------------------------------------------------------------
\* Mutant: a change does not take the place of one that is not told yet.
NotifyInOrder ==
    LET changed == recorded # prev
        due == IF changed /\ notice = NoNotice THEN [now |-> recorded, left |-> Chats] ELSE notice
        try == (IF changed THEN 0 ELSE tries) + 1
    IN  /\ bot = "notice" /\ bot' = "poll"
        /\ prev' = recorded
        /\ \E failed \in SUBSET due.left :
              /\ Spend("errors", Cardinality(failed))
              /\ \E told \in {due.left \ failed, due.left} :
                    shown' = [h \in Chats |-> IF h \in told THEN due.now ELSE shown[h]]
              /\ IF failed # {} /\ try < BROADCAST_TRIES
                   THEN /\ notice' = [due EXCEPT !.left = failed] /\ tries' = try
                        /\ lost' = lost \ (due.left \ failed)
                   ELSE /\ notice' = NoNotice /\ tries' = 0
                        /\ lost' = (lost \ due.left) \cup failed
        /\ UNCHANGED <<inbox, offset, batch, commandVars, recorded>>

\* The rest of the pass: what the lock says is compared with what was told last, a change
\* takes the place of one not told yet, and is told once a pass, BROADCAST_TRIES times.
Notify ==
    LET changed == recorded # prev
        due == IF changed THEN [now |-> recorded, left |-> Chats] ELSE notice
        try == (IF changed THEN 0 ELSE tries) + 1
    IN  /\ bot = "notice" /\ bot' = "poll"
        /\ prev' = recorded
        /\ \E failed \in SUBSET due.left :
              /\ Spend("errors", Cardinality(failed))
              /\ \E told \in {due.left \ failed, due.left} :
                    shown' = [h \in Chats |-> IF h \in told THEN due.now ELSE shown[h]]
              /\ IF failed # {} /\ try < BROADCAST_TRIES
                   THEN /\ notice' = [due EXCEPT !.left = failed] /\ tries' = try
                        /\ lost' = lost \ (due.left \ failed)
                   ELSE /\ notice' = NoNotice /\ tries' = 0
                        /\ lost' = (lost \ due.left) \cup failed
        /\ UNCHANGED <<inbox, offset, batch, commandVars, recorded>>
--------------------------------------------------------------------------------
\* What is only in memory is gone: confirmations, threads, what was told.  A command that
\* a thread was about to start may have been started.
Dies ==
    /\ bot # "down" /\ Spend("deaths", 1)
    /\ bot' = "down"
    /\ \E started \in SUBSET busy :
          runs' = [c \in Command |-> runs[c] + (IF c \in started THEN 1 ELSE 0)]
    /\ pending' = {} /\ busy' = {}
    /\ prev' = NoUser /\ notice' = NoNotice /\ tries' = 0
    /\ lost' = lost \cup pending \cup busy \cup {h \in Chats : shown[h] # NoUser} \cup notice.left
                    \cup (IF bot = "work" THEN {About} ELSE {})
    /\ UNCHANGED <<inbox, offset, batch, old, text, refused, recorded, shown>>

Starts ==
    /\ bot = "down" /\ bot' = "poll"
    /\ UNCHANGED <<scene, inbox, offset, batch, commandVars, recorded, noticeVars, lost>>

Pass ==
    \/ Fetch \/ TakeNext \/ Prompt \/ RunPlain \/ AnswerYes \/ AnswerNo \/ AnswerTooLate
    \/ Expire \/ Notify

BotNext ==
    \/ \E c \in Command : Asks(c) \/ Pressed(c) \/ Ages(c) \/ ThreadEnds(c)
    \/ \E u \in Users \cup {NoUser} : RecorderMoves(u)
    \/ Pass \/ Dies \/ Starts

BotSpec == BotInit /\ [][BotNext]_botVars

\* The loop and its threads go on, time passes, the service manager starts the bot again.
BotFairness ==
    /\ WF_botVars(Pass) /\ WF_botVars(Starts)
    /\ \A c \in Command : WF_botVars(ThreadEnds(c)) /\ WF_botVars(Ages(c))

FairBotSpec == BotSpec /\ BotFairness
--------------------------------------------------------------------------------
BotTypeOK ==
    /\ scene \in Scene
    /\ offset <= Len(inbox) /\ batch <= Len(inbox)
    /\ bot \in {"down", "poll", "next", "work", "expire", "notice"}
    /\ pending \subseteq Confirmed /\ old \subseteq Confirmed /\ busy \subseteq Command
    /\ text \in [Command -> {"none", "asked", "running", "started", "done", "cancelled", "expired"}]
    /\ runs \in [Command -> Nat] /\ refused \subseteq Confirmed
    /\ recorded \in Users \cup {NoUser} /\ prev \in Users \cup {NoUser}
    /\ notice.left \subseteq Chats /\ tries < BROADCAST_TRIES
    /\ shown \in [Chats -> Users \cup {NoUser}]
    /\ lost \subseteq Command \cup Chats

\* A command runs at most once, whatever dies or is sent twice; one that asks first runs
\* only after a Yes, and never when its prompt was answered with No or has run out
\* (actions.py, loop.py:_process_updates).
RunsOnceIfConfirmed ==
    \A c \in Command :
        /\ runs[c] <= 1
        /\ c \in refused => runs[c] = 0 /\ c \notin busy
        /\ c \in Confirmed /\ runs[c] > 0 => [kind |-> "yes", of |-> c] \in {inbox[i] : i \in DOMAIN inbox}

Sent(c) == [kind |-> "command", of |-> c] \in {inbox[i] : i \in DOMAIN inbox}
Ended(c) == text[c] \in {"started", "done", "cancelled", "expired"}

\* In the end every message about a command says how it ended (actions.py:execute,
\* expire), and every chat was told what is recorded now (loop.py:run, _broadcast); but
\* for commands that a death of the bot or a failing call met, and for chats that a death,
\* or all tries failing, kept from the last change.
BotSettles ==
    <>[](/\ \A c \in Command \ lost : Sent(c) => Ended(c)
         /\ \A h \in Chats \ lost : shown[h] = recorded)
=============================================================================
