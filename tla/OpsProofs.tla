------------------------------ MODULE OpsProofs -------------------------------
(***************************************************************************)
(* What the operator's tools keep, for every set of commands, recordings,   *)
(* updates, users and files and however the deaths fall: the bot runs a     *)
(* command at most once and only if it was confirmed (Bot); a recording     *)
(* that an unload told to stay down does not bring the recorder back, and   *)
(* what the fingerprints call deployed is what runs (Services); banning,    *)
(* restoring and deleting an account spares its queued work (Accounts).     *)
(***************************************************************************)
EXTENDS Services, Bot, Accounts, TLAPS

-----------------------------------------------------------------------------
(* The bot.  The offset is stored before an update is handled, so a command *)
(* is handled at most once; from then on it is in one place: waiting for    *)
(* its answer, run by a thread, run, refused, or lost.                      *)

CommandUpdate(c) == [kind |-> "command", of |-> c]
Handled(c) == \E i \in 1 .. Len(inbox) :
    /\ inbox[i] = CommandUpdate(c)
    /\ i < offset \/ (i = offset /\ bot # "work")

InboxShape ==
    /\ inbox \in Seq([kind : {"command", "yes", "no"}, of : Command])
    /\ offset \in 0 .. Len(inbox) /\ batch \in 0 .. Len(inbox)
    /\ bot = "work" => offset > 0
    /\ \A c \in Command : \A i, j \in 1 .. Len(inbox) :
          inbox[i] = CommandUpdate(c) /\ inbox[j] = CommandUpdate(c) => i = j

OnePlace(c) ==
    /\ runs[c] \in 0 .. 1
    /\ c \in pending \cup busy \cup refused => runs[c] = 0
    /\ c \in pending => c \notin busy \cup refused
    /\ c \in busy => c \notin refused
    /\ c \in pending \cup busy \cup refused \/ runs[c] > 0 => Handled(c)

Agreed(c) == \E i \in 1 .. Len(inbox) : inbox[i] = [kind |-> "yes", of |-> c]

Typed == DOMAIN runs = Command /\ pending \subseteq Confirmed /\ busy \subseteq Command

BotInv ==
    /\ InboxShape /\ Typed
    /\ \A c \in Command : OnePlace(c)
    /\ \A c \in Confirmed : c \in busy \/ runs[c] > 0 => Agreed(c)

LEMMA InboxStep ==
    ASSUME InboxShape, BotNext
    PROVE  InboxShape'
<1> USE DEF InboxShape, CommandUpdate, commandVars, noticeVars
<1>1. ASSUME NEW c \in Command, Asks(c) PROVE InboxShape'
  BY <1>1 DEF Asks
<1>2. ASSUME NEW c \in Command, Pressed(c) PROVE InboxShape'
  BY <1>2 DEF Pressed
<1>3. CASE Fetch
  BY <1>3 DEF Fetch
<1>4. CASE TakeNext
  BY <1>4 DEF TakeNext
<1>5. CASE
       \/ Prompt \/ RunPlain \/ AnswerYes \/ AnswerNo \/ AnswerTooLate \/ Expire
       \/ Notify \/ Dies \/ Starts
       \/ \E c \in Command : Ages(c) \/ ThreadEnds(c)
       \/ \E u \in Users \cup {NoUser} : RecorderMoves(u)
  BY <1>5 DEF Ages, ThreadEnds, Says, Raises, RecorderMoves, Prompt, RunPlain, RunNow, Execute,
     AnswerYes, AnswerNo, AnswerTooLate, Expire, Notify, Dies, Starts
<1> QED
  BY <1>1, <1>2, <1>3, <1>4, <1>5 DEF BotNext, Pass

\* What was asked and answered is not taken back.
LEMMA InboxGrows ==
    ASSUME InboxShape, BotNext
    PROVE  Len(inbox) <= Len(inbox') /\ \A i \in 1 .. Len(inbox) : inbox'[i] = inbox[i]
<1> DEFINE Goal == Len(inbox) <= Len(inbox') /\ \A i \in 1 .. Len(inbox) : inbox'[i] = inbox[i]
<1> USE DEF InboxShape
<1>1. ASSUME NEW c \in Command, Asks(c) PROVE Goal
  BY <1>1 DEF Asks
<1>2. ASSUME NEW c \in Command, Pressed(c) PROVE Goal
  BY <1>2 DEF Pressed
<1>3. CASE
       \/ Fetch \/ TakeNext \/ Prompt \/ RunPlain \/ AnswerYes \/ AnswerNo
       \/ AnswerTooLate \/ Expire \/ Notify \/ Dies \/ Starts
       \/ \E c \in Command : Ages(c) \/ ThreadEnds(c)
       \/ \E u \in Users \cup {NoUser} : RecorderMoves(u)
  BY <1>3 DEF Ages, ThreadEnds, Says, Raises, RecorderMoves, Fetch, TakeNext, Prompt,
     RunPlain, RunNow, Execute, AnswerYes, AnswerNo, AnswerTooLate, Expire, Notify, Dies,
     Starts
<1> QED
  BY <1>1, <1>2, <1>3 DEF BotNext, Pass

LEMMA AgreedStays ==
    ASSUME InboxShape, BotNext, NEW c \in Command, Agreed(c)
    PROVE  Agreed(c)'
BY InboxGrows, InboxStep DEF Agreed, InboxShape

LEMMA HandledStays ==
    ASSUME InboxShape, BotNext, NEW d \in Command, Handled(d)
    PROVE  Handled(d)'
<1>1. offset <= offset' /\ (offset' = offset /\ bot' = "work" => bot = "work")
  <2> DEFINE Goal == offset <= offset' /\ (offset' = offset /\ bot' = "work" => bot = "work")
  <2> USE DEF InboxShape, commandVars, noticeVars
<2>1. ASSUME NEW c \in Command, Asks(c) PROVE Goal
  BY <2>1 DEF Asks
<2>2. ASSUME NEW c \in Command, Pressed(c) PROVE Goal
  BY <2>2 DEF Pressed
<2>3. ASSUME NEW c \in Command, Ages(c) PROVE Goal
  BY <2>3 DEF Ages
<2>4. ASSUME NEW c \in Command, ThreadEnds(c) PROVE Goal
  BY <2>4 DEF ThreadEnds, Says, Raises
<2>5. ASSUME NEW u \in Users \cup {NoUser}, RecorderMoves(u) PROVE Goal
  BY <2>5 DEF RecorderMoves
<2>6. CASE Fetch
  BY <2>6 DEF Fetch
<2>7. CASE TakeNext
  BY <2>7 DEF TakeNext
<2>8. CASE Prompt
  BY <2>8 DEF Prompt, Says, Raises
<2>9. CASE RunPlain
  BY <2>9 DEF RunPlain, RunNow, Execute, Says, Raises
<2>10. CASE AnswerYes
  BY <2>10 DEF AnswerYes, Execute, Says, Raises
<2>11. CASE AnswerNo
  BY <2>11 DEF AnswerNo, Says, Raises
<2>12. CASE AnswerTooLate
  BY <2>12 DEF AnswerTooLate, Says, Raises
<2>13. CASE Expire
  BY <2>13 DEF Expire
<2>14. CASE Notify
  BY <2>14 DEF Notify
<2>15. CASE Dies
  BY <2>15 DEF Dies
<2>16. CASE Starts
  BY <2>16 DEF Starts
<2> QED
  BY <2>1, <2>2, <2>3, <2>4, <2>5, <2>6, <2>7, <2>8, <2>9, <2>10, <2>11, <2>12, <2>13,
     <2>14, <2>15, <2>16 DEF BotNext, Pass

<1> QED BY <1>1, InboxGrows, InboxStep DEF Handled, InboxShape

LEMMA UpdateIs ==
    ASSUME InboxShape, bot = "work"
    PROVE  /\ offset \in 1 .. Len(inbox)
           /\ Update.kind \in {"command", "yes", "no"} /\ About \in Command
           /\ Update = [kind |-> Update.kind, of |-> About]
<1> DEFINE Kind == [kind : {"command", "yes", "no"}, of : Command]
<1>1. inbox \in Seq(Kind) /\ offset \in 1 .. Len(inbox)
  BY DEF InboxShape
<1> HIDE DEF Kind
<1>2. inbox[offset] \in Kind
  BY <1>1
<1> QED BY <1>1, <1>2 DEF Kind, Update, About

\* The command being handled was not before, and is from now on.
LEMMA HandledNow ==
    ASSUME InboxShape, bot = "work", bot' # "work", Update.kind = "command",
           UNCHANGED <<inbox, offset>>, NEW d, d = About
    PROVE  d \in Command /\ ~Handled(d) /\ Handled(d)'
<1>1. offset \in 1 .. Len(inbox) /\ d \in Command /\ inbox[offset] = CommandUpdate(d)
  BY UpdateIs DEF Update, CommandUpdate
<1> QED BY <1>1 DEF Handled, InboxShape, CommandUpdate

LEMMA TypedStep ==
    ASSUME InboxShape, Typed, BotNext
    PROVE  Typed'
<1> USE DEF Typed, commandVars
<1>1. ASSUME NEW c \in Command, Asks(c) PROVE Typed'
  BY <1>1 DEF Asks
<1>2. ASSUME NEW c \in Command, Pressed(c) PROVE Typed'
  BY <1>2 DEF Pressed
<1>3. ASSUME NEW c \in Command, Ages(c) PROVE Typed'
  BY <1>3 DEF Ages
<1>4. ASSUME NEW c \in Command, ThreadEnds(c) PROVE Typed'
  BY <1>4 DEF ThreadEnds, Says, Raises
<1>5. ASSUME NEW u \in Users \cup {NoUser}, RecorderMoves(u) PROVE Typed'
  BY <1>5 DEF RecorderMoves
<1>6. CASE Fetch
  BY <1>6 DEF Fetch
<1>7. CASE TakeNext
  BY <1>7 DEF TakeNext
<1>8. CASE Prompt
  BY <1>8, UpdateIs DEF Prompt
<1>9. CASE RunPlain
  BY <1>9, UpdateIs DEF RunPlain, RunNow, Execute
<1>10. CASE AnswerYes
  BY <1>10, UpdateIs DEF AnswerYes, Execute
<1>11. CASE AnswerNo
  BY <1>11 DEF AnswerNo, Says, Raises
<1>12. CASE AnswerTooLate
  BY <1>12 DEF AnswerTooLate, Says, Raises
<1>13. CASE Expire
  BY <1>13 DEF Expire
<1>14. CASE Notify
  BY <1>14 DEF Notify
<1>15. CASE Dies
  BY <1>15 DEF Dies
<1>16. CASE Starts
  BY <1>16 DEF Starts
<1> QED
  BY <1>1, <1>2, <1>3, <1>4, <1>5, <1>6, <1>7, <1>8, <1>9, <1>10, <1>11, <1>12, <1>13,
     <1>14, <1>15, <1>16 DEF BotNext, Pass

LEMMA OnePlaceStep ==
    ASSUME InboxShape, Typed, \A c \in Command : OnePlace(c), BotNext, NEW d \in Command
    PROVE  OnePlace(d)'
<1>0. Handled(d) => Handled(d)'
  BY HandledStays
<1> USE <1>0 DEF Typed, OnePlace, commandVars
<1>1. ASSUME NEW c \in Command, Asks(c) PROVE OnePlace(d)'
  BY <1>1 DEF Asks
<1>2. ASSUME NEW c \in Command, Pressed(c) PROVE OnePlace(d)'
  BY <1>2 DEF Pressed
<1>3. ASSUME NEW c \in Command, Ages(c) PROVE OnePlace(d)'
  BY <1>3 DEF Ages
<1>4. ASSUME NEW c \in Command, ThreadEnds(c) PROVE OnePlace(d)'
  BY <1>4 DEF ThreadEnds, Says, Raises
<1>5. ASSUME NEW u \in Users \cup {NoUser}, RecorderMoves(u) PROVE OnePlace(d)'
  BY <1>5 DEF RecorderMoves
<1>6. CASE Fetch
  BY <1>6 DEF Fetch
<1>7. CASE TakeNext
  BY <1>7 DEF TakeNext
<1>8. CASE Prompt
  <2>1. CASE d = About
    <3>1. d \in Command /\ ~Handled(d) /\ Handled(d)'
      BY <1>8, <2>1, HandledNow DEF Prompt
    <3> QED BY <1>8, <2>1, <3>1 DEF Prompt, Says, Raises
  <2>2. CASE d # About
    BY <1>8, <2>2 DEF Prompt
  <2> QED BY <2>1, <2>2
<1>9. CASE RunPlain
  <2>1. CASE d = About
    <3>1. d \in Command /\ ~Handled(d) /\ Handled(d)'
      BY <1>9, <2>1, HandledNow DEF RunPlain, RunNow, Execute
    <3> QED BY <1>9, <2>1, <3>1 DEF RunPlain, RunNow, Execute
  <2>2. CASE d # About
    BY <1>9, <2>2 DEF RunPlain, RunNow, Execute
  <2> QED BY <2>1, <2>2
<1>10. CASE AnswerYes
  <2>1. About \in Command
    BY <1>10, UpdateIs DEF AnswerYes
  <2>2. CASE d = About
    BY <1>10, <2>1, <2>2 DEF AnswerYes, Execute
  <2>3. CASE d # About
    BY <1>10, <2>3 DEF AnswerYes, Execute
  <2> QED BY <2>2, <2>3
<1>11. CASE AnswerNo
  BY <1>11, UpdateIs DEF AnswerNo
<1>12. CASE AnswerTooLate
  BY <1>12 DEF AnswerTooLate, Says, Raises
<1>13. CASE Expire
  BY <1>13 DEF Expire
<1>14. CASE Notify
  BY <1>14 DEF Notify
<1>15. CASE Dies
  BY <1>15 DEF Dies
<1>16. CASE Starts
  BY <1>16 DEF Starts
<1> QED
  BY <1>1, <1>2, <1>3, <1>4, <1>5, <1>6, <1>7, <1>8, <1>9, <1>10, <1>11, <1>12, <1>13,
     <1>14, <1>15, <1>16 DEF BotNext, Pass

\* A command that asks first runs for a Yes in the inbox.
LEMMA AgreedStep ==
    ASSUME InboxShape, Typed, BotNext, NEW d \in Confirmed,
           \A c \in Command : OnePlace(c), d \in busy \/ runs[d] > 0 => Agreed(d)
    PROVE  (d \in busy \/ runs[d] > 0 => Agreed(d))'
<1> DEFINE Now == d \in busy \/ runs[d] > 0
           Goal == Agreed(d) \/ ~Now'
<1>0. d \in Command /\ runs[d] \in Nat
  BY DEF Command, OnePlace
<1> SUFFICES Goal
  BY <1>0, AgreedStays
<1> USE <1>0, BotAssumption DEF Typed, commandVars
<1>1. ASSUME NEW c \in Command, Asks(c) PROVE Goal
  BY <1>1 DEF Asks
<1>2. ASSUME NEW c \in Command, Pressed(c) PROVE Goal
  BY <1>2 DEF Pressed
<1>3. ASSUME NEW c \in Command, Ages(c) PROVE Goal
  BY <1>3 DEF Ages
<1>4. ASSUME NEW c \in Command, ThreadEnds(c) PROVE Goal
  BY <1>4 DEF ThreadEnds, Says, Raises
<1>5. ASSUME NEW u \in Users \cup {NoUser}, RecorderMoves(u) PROVE Goal
  BY <1>5 DEF RecorderMoves
<1>6. CASE Fetch
  BY <1>6 DEF Fetch
<1>7. CASE TakeNext
  BY <1>7 DEF TakeNext
<1>8. CASE Prompt
  BY <1>8 DEF Prompt
<1>9. CASE RunPlain
  <2>1. About # d
    BY <1>9 DEF RunPlain
  <2> QED BY <1>9, <2>1, UpdateIs DEF RunPlain, RunNow, Execute
<1>10. CASE AnswerYes
  <2>1. CASE About = d
    <3>1. inbox[offset] = [kind |-> "yes", of |-> d] /\ offset \in 1 .. Len(inbox)
      BY <1>10, <2>1, UpdateIs DEF AnswerYes, Update
    <3> QED BY <3>1 DEF Agreed
  <2>2. CASE About # d
    BY <1>10, <2>2, UpdateIs DEF AnswerYes, Execute
  <2> QED BY <2>1, <2>2
<1>11. CASE AnswerNo
  BY <1>11 DEF AnswerNo, Says, Raises
<1>12. CASE AnswerTooLate
  BY <1>12 DEF AnswerTooLate, Says, Raises
<1>13. CASE Expire
  BY <1>13 DEF Expire
<1>14. CASE Notify
  BY <1>14 DEF Notify
<1>15. CASE Dies
  BY <1>15 DEF Dies
<1>16. CASE Starts
  BY <1>16 DEF Starts
<1> QED
  BY <1>1, <1>2, <1>3, <1>4, <1>5, <1>6, <1>7, <1>8, <1>9, <1>10, <1>11, <1>12, <1>13,
     <1>14, <1>15, <1>16 DEF BotNext, Pass

\* The inductive invariant of the bot.
THEOREM BotInvariance == BotSpec => []BotInv
<1>1. BotInit => BotInv
  BY DEF BotInit, BotInv, InboxShape, Typed, OnePlace, Command
<1>2. BotInv /\ [BotNext]_botVars => BotInv'
  <2> SUFFICES ASSUME BotInv, [BotNext]_botVars PROVE BotInv'
    OBVIOUS
  <2> USE DEF BotInv
  <2>1. CASE BotNext
    BY <2>1, InboxStep, TypedStep, OnePlaceStep, AgreedStep
  <2>2. CASE UNCHANGED botVars
    BY <2>2 DEF botVars, commandVars, InboxShape, Typed, OnePlace, Handled, Agreed
  <2> QED BY <2>1, <2>2
<1> QED BY <1>1, <1>2, PTL DEF BotSpec

\* A command runs at most once, and one that asks first only for a Yes and never
\* once refused (_process_updates, handle_callback, execute, expire), whatever
\* dies, is sent twice or fails.
THEOREM CommandsRunOnce == BotSpec => []RunsOnceIfConfirmed
<1>1. BotInv => RunsOnceIfConfirmed
  <2> SUFFICES ASSUME BotInv, NEW c \in Command
               PROVE  /\ runs[c] <= 1
                      /\ c \in refused => runs[c] = 0 /\ c \notin busy
                      /\ c \in Confirmed /\ runs[c] > 0 =>
                            [kind |-> "yes", of |-> c] \in {inbox[i] : i \in DOMAIN inbox}
    BY DEF RunsOnceIfConfirmed
  <2>1. runs[c] <= 1 /\ (c \in refused => runs[c] = 0 /\ c \notin busy)
    BY DEF BotInv, OnePlace
  <2>2. ASSUME c \in Confirmed, runs[c] > 0
        PROVE  [kind |-> "yes", of |-> c] \in {inbox[i] : i \in DOMAIN inbox}
    <3>1. PICK i \in 1 .. Len(inbox) : inbox[i] = [kind |-> "yes", of |-> c]
      BY <2>2 DEF BotInv, Agreed
    <3>2. DOMAIN inbox = 1 .. Len(inbox)
      BY DEF BotInv, InboxShape
    <3> QED BY <3>1, <3>2
  <2> QED BY <2>1, <2>2
<1> QED BY <1>1, BotInvariance, PTL

-----------------------------------------------------------------------------
(* Recordings and unloads.  From the moment a recording holds the lock until *)
(* it is gone, nobody else consumes the flag that an unload drops for it.   *)

Holding == {"setup", "record", "finally", "decide", "load", "leave"}
Target(a) == act[a].target

ActShape ==
    /\ DOMAIN act = Actor /\ \A a \in Actor : DOMAIN act[a] = DOMAIN Resting
    /\ DOMAIN svc = Worker /\ DOMAIN stale = Worker

Holders ==
    /\ \A r \in Records : act[r].pc \in Holding => lock = r
    /\ pidfile \in Records \cup {Nobody, "service", "terminal"}
    /\ pidfile \in Records => act[pidfile].pc \in Holding

Targets ==
    \A a \in Actor : act[a].pc \in {"flag", "term"} =>
        /\ Target(a) \in Records \cup {"service", "terminal"}
        /\ Target(a) \in Records => act[Target(a)].pc \in Holding \cup {"off"}

Flagged ==
    /\ \A a \in Actor : At(a, "term") /\ Target(a) \in Records =>
          At(Target(a), "off") \/ noReload # {} \/ act[Target(a)].heard
    /\ \A r \in Records : act[r].told => act[r].pc \in Holding \ {"setup"}
    /\ \A r \in Records : act[r].told /\ ~act[r].heard =>
          act[r].pc \in Deciding /\ noReload # {}

-----------------------------------------------------------------------------
(* Updates.  What a running worker has not loaded yet is in the fingerprints' *)
(* debt, or some update that is under way owes it.                          *)

Live(w) == w \notin outdated /\ svc[w] \in {"boot", "up"}
Planned == {"dispatcher", "recorder"}

\* The steps of an update up to the one that writes the fingerprints, and those
\* of them after the dispatcher, and the recorder, has been unloaded.
Writing == InTry \cup {"write"}
Unloaded(w) == IF w = "dispatcher" THEN Writing \ {"drain", "drained"}
                                   ELSE Writing \ {"drain", "drained", "unit"}

Finishing(u) == act[u].pc \in {"load", "bot"} /\ ~act[u].failed
Owed(p) == \E u \in Updaters : Finishing(u) /\ p \in act[u].changed

Debt ==
    /\ svc["bot"] # "boot"
    /\ \A w \in Worker : stale[w] \subseteq Uses(w)
    /\ \A w \in Planned : Live(w) => stale[w] \subseteq dirty
    /\ Live("bot") => \A p \in stale["bot"] : p \in dirty \/ Owed(p)

UnderWay(u) ==
    /\ act[u].failed => act[u].pc \in {"clear", "load"}
    /\ act[u].pc \in Writing =>
        /\ act[u].todo = update_plan(act[u].changed)
        /\ \A w \in Planned : Live(w) =>
              stale[w] \subseteq act[u].since \cup
                  (IF w \in act[u].todo /\ act[u].pc \in Unloaded(w) THEN {} ELSE act[u].changed)
        /\ Live("bot") => \A p \in stale["bot"] :
              p \in act[u].changed \cup act[u].since \/ Owed(p)

ServInv ==
    /\ ActShape /\ Holders /\ Targets /\ Flagged
    /\ Debt /\ \A u \in Updaters : UnderWay(u)

LEMMA ActorsDiffer ==
    /\ Records \cap Updaters = {} /\ Operator \notin Records \cup Updaters
    /\ Records \subseteq Actor /\ Updaters \subseteq Actor /\ Operator \in Actor
    /\ Records \cap {Nobody, "service", "terminal"} = {}
BY ServicesAssumption DEF Actor, Operator, Nobody

-----------------------------------------------------------------------------
(* What a signal does to the recording it meets *)

\* r becomes s: it is not there, or ends and frees what it holds, or goes on.
Meets(r, s, drop) ==
    /\ DOMAIN s = DOMAIN Resting
    /\ \/ act[r].pc \in {"new", "off"} /\ s = act[r] /\ UNCHANGED <<lock, pidfile>>
       \/ act[r].pc \notin {"new", "off"} /\ s = Resting /\ Frees(r)
       \/ /\ {act[r].pc, s.pc} \subseteq Holding \ {"setup"}
          /\ UNCHANGED lock /\ pidfile' \in {pidfile, Nobody}
          /\ s.target = act[r].target /\ s.heard = act[r].heard
          /\ s.told => act[r].told \/ (drop /\ s.pc \in Deciding)
          /\ act[r].pc \in Deciding => s.pc \in Deciding

LEMMA SignalMeets ==
    ASSUME ActShape, NEW r \in Records, NEW drop \in BOOLEAN, NEW s, s = Signalled(r, drop),
           IF act[r].pc \notin {"new", "off"} /\ s.pc = "off" THEN Frees(r)
           ELSE /\ UNCHANGED lock
                /\ pidfile' = pidfile \/ (act[r].pc \notin {"new", "off"} /\ pidfile' = Nobody)
    PROVE  Meets(r, s, drop)
<1>0. r \in Actor /\ DOMAIN act[r] = DOMAIN Resting
  BY DEF ActShape, Actor
<1> USE <1>0 DEF Resting, Deciding, Decided, Holding, Meets
<1>1. CASE act[r].pc \in {"new", "off"}
  BY <1>1 DEF Signalled
<1>2. CASE act[r].pc \in Deciding \cup Decided
  <2>1. CASE act[r].stopping
    <3>1. s = [act[r] EXCEPT !.pc = "decide", !.told = act[r].told \/ drop]
      BY <1>2, <2>1 DEF Signalled
    <3> QED BY <1>2, <3>1
  <2>2. CASE ~act[r].stopping /\ act[r].pc \in Deciding
    <3>1. s = [act[r] EXCEPT !.stopping = TRUE, !.told = act[r].told \/ drop]
      BY <2>2 DEF Signalled
    <3> QED BY <1>2, <2>2, <3>1
  <2>3. CASE ~act[r].stopping /\ act[r].pc \in Decided
    <3>1. s = [act[r] EXCEPT !.stopping = TRUE]
      BY <2>3 DEF Signalled
    <3> QED BY <1>2, <2>3, <3>1
  <2> QED BY <1>2, <2>1, <2>2, <2>3
<1>3. CASE act[r].pc \notin {"new", "off"} \cup Deciding \cup Decided
  BY <1>3 DEF Signalled
<1> QED BY <1>1, <1>2, <1>3

\* Whether a flag was dropped does not change where a signal leads.
LEMMA SameWay ==
    ASSUME ActShape, NEW r \in Records
    PROVE  Signalled(r, TRUE).pc = Signalled(r, FALSE).pc
<1>0. r \in Actor /\ DOMAIN act[r] = DOMAIN Resting
  BY DEF ActShape, Actor
<1> USE <1>0 DEF Resting, Deciding, Decided
<1>1. CASE act[r].pc \in Deciding \cup Decided /\ act[r].stopping
  <2>1. Signalled(r, TRUE) = [act[r] EXCEPT !.pc = "decide", !.told = act[r].told \/ TRUE]
    BY <1>1 DEF Signalled
  <2>2. Signalled(r, FALSE) = [act[r] EXCEPT !.pc = "decide", !.told = act[r].told \/ FALSE]
    BY <1>1 DEF Signalled
  <2> QED BY ZenonT(60), <2>1, <2>2
<1>2. CASE act[r].pc \in Deciding /\ ~act[r].stopping
  <2>1. Signalled(r, TRUE) = [act[r] EXCEPT !.stopping = TRUE, !.told = act[r].told \/ TRUE]
    BY <1>2 DEF Signalled
  <2>2. Signalled(r, FALSE) = [act[r] EXCEPT !.stopping = TRUE, !.told = act[r].told \/ FALSE]
    BY <1>2 DEF Signalled
  <2> QED BY ZenonT(60), <2>1, <2>2
<1>3. CASE ~(act[r].pc \in Deciding \cup Decided /\ act[r].stopping)
           /\ ~(act[r].pc \in Deciding /\ ~act[r].stopping)
  BY <1>3 DEF Signalled
<1> QED BY <1>1, <1>2, <1>3

LEMMA InterruptMeets ==
    ASSUME ActShape, NEW r \in Records, Interrupt(r)
    PROVE  \E s : act' = [act EXCEPT ![r] = s] /\ Meets(r, s, FALSE)
<1>1. CASE At(r, "load") /\ ~act[r].stopping
  <2>1. act' = [act EXCEPT ![r] = [act[r] EXCEPT !.pc = "leave", !.stopping = TRUE]]
    BY <1>1 DEF Interrupt, ActShape, Actor, Resting
  <2>2. Meets(r, [act[r] EXCEPT !.pc = "leave", !.stopping = TRUE], FALSE)
    BY <1>1 DEF Interrupt, Meets, ActShape, Actor, At, Resting, Holding, Deciding
  <2> QED BY <2>1, <2>2
<1>2. CASE ~(At(r, "load") /\ ~act[r].stopping)
  <2>1. act' = [act EXCEPT ![r] = Signalled(r, FALSE)]
    BY <1>2 DEF Interrupt
  <2>2. Meets(r, Signalled(r, FALSE), FALSE)
    BY <1>2, SignalMeets DEF Interrupt, Ends, Forced
  <2> QED BY <2>1, <2>2
<1> QED BY <1>1, <1>2

\* What an unload's actor is after it has told its target to stop.
Done(a) == [act EXCEPT ![a] = [act[a] EXCEPT !.pc = After(a), !.target = Nobody]]

LEMMA TermMeets ==
    ASSUME ActShape, Holders, Targets, NEW a \in Actor, Term(a)
    PROVE  \/ /\ Target(a) \in {"service", "terminal"}
              /\ act' = Done(a)
              /\ UNCHANGED <<lock, pidfile>> \/ Frees(Target(a))
           \/ /\ Target(a) \in Records \ {a}
              /\ \E s : act' = [Done(a) EXCEPT ![Target(a)] = s] /\ Meets(Target(a), s, TRUE)
<1>1. [act EXCEPT ![a].pc = After(a), ![a].target = Nobody] = Done(a)
  BY DEF Done, ActShape, Resting
<1>2. CASE Target(a) \in {"service", "terminal"}
  BY <1>1, <1>2 DEF Term, Target
<1>3. CASE Target(a) \in Records
  <2>1. Target(a) # a
    BY <1>3 DEF Targets, Term, At, Target, Holding
  <2>2. act' = [Done(a) EXCEPT ![Target(a)] = Signalled(Target(a), TRUE)]
    BY <1>1, <1>3, ActorsDiffer DEF Term, Target
  <2>3. Meets(Target(a), Signalled(Target(a), TRUE), TRUE)
    <3>1. IF Ends(Target(a)) THEN Frees(Target(a))
          ELSE /\ pidfile' = IF Forced(Target(a)) /\ pidfile = Target(a) THEN Nobody ELSE pidfile
               /\ UNCHANGED lock
      BY <1>3, ActorsDiffer DEF Term, Target
    <3>2. IF act[Target(a)].pc \notin {"new", "off"} /\ Signalled(Target(a), TRUE).pc = "off"
          THEN Frees(Target(a))
          ELSE /\ UNCHANGED lock
               /\ \/ pidfile' = pidfile
                  \/ act[Target(a)].pc \notin {"new", "off"} /\ pidfile' = Nobody
      BY <3>1, <1>3, SameWay DEF Ends, Forced, Holders, Holding
    <3> QED BY <1>3, <3>2, SignalMeets
  <2> QED BY <1>3, <2>1, <2>2, <2>3
<1> QED BY <1>2, <1>3 DEF Targets, Term, At

LEMMA ActShapeStep ==
    ASSUME ActShape, Holders, Targets, Next
    PROVE  ActShape'
<1> USE ActorsDiffer DEF ActShape, Resting, recorderVars
<1>1. ASSUME NEW w \in Worker, Start(w) PROVE ActShape'
  BY <1>1 DEF Start
<1>2. CASE DispatcherStops
  BY <1>2 DEF DispatcherStops
<1>3. CASE RecorderBoots
  BY <1>3 DEF RecorderBoots
<1>4. CASE ServiceLeaves
  BY <1>4 DEF ServiceLeaves, Frees
<1>5. CASE TerminalLeaves
  BY <1>5 DEF TerminalLeaves, Frees
<1>6. CASE TerminalStarts
  BY <1>6 DEF TerminalStarts
<1>7. CASE OperatorUnloads
  BY <1>7 DEF OperatorUnloads, Goto
<1>8. CASE OperatorLoads
  BY <1>8 DEF OperatorLoads
<1>9. ASSUME NEW w \in Worker, ServiceCrashes(w) PROVE ActShape'
  BY <1>9 DEF ServiceCrashes, Frees
<1>10. ASSUME NEW p \in Package, Edit(p) PROVE ActShape'
  BY <1>10 DEF Edit
<1>11. ASSUME NEW a \in Actor, Unit(a) PROVE ActShape'
  BY <1>11 DEF Unit, Goto, After
<1>12. ASSUME NEW a \in Actor, Gone(a) PROVE ActShape'
  BY <1>12 DEF Gone, Goto
<1>13. ASSUME NEW a \in Actor, Look(a) PROVE ActShape'
  BY <1>13 DEF Look, foreground_pid, After
<1>14. ASSUME NEW a \in Actor, Flag(a) PROVE ActShape'
  BY <1>14 DEF Flag, Goto
<1>15. ASSUME NEW a \in Actor, Term(a) PROVE ActShape'
  <2>1. CASE act' = Done(a) /\ (UNCHANGED <<lock, pidfile>> \/ Frees(Target(a)))
                   /\ Target(a) \in {"service", "terminal"}
    BY <1>15, <2>1 DEF Term, Done, After
  <2>2. ASSUME NEW s, act' = [Done(a) EXCEPT ![Target(a)] = s], Target(a) \in Records \ {a},
               Meets(Target(a), s, TRUE)
        PROVE  ActShape'
    BY <1>15, <2>2 DEF Term, Done, After, Meets
  <2> QED BY <1>15, <2>1, <2>2, TermMeets
<1>16. ASSUME NEW r \in Records, Launch(r) PROVE ActShape'
  BY <1>16 DEF Launch, Goto
<1>17. ASSUME NEW r \in Records, Check(r) PROVE ActShape'
  BY <1>17 DEF Check
<1>18. ASSUME NEW r \in Records, Wait(r) PROVE ActShape'
  BY <1>18 DEF Wait, Goto
<1>19. ASSUME NEW r \in Records, Retreat(r) PROVE ActShape'
  BY <1>19 DEF Retreat, Goto, Loads
<1>20. ASSUME NEW r \in Records, Acquire(r) PROVE ActShape'
  BY <1>20 DEF Acquire, Goto
<1>21. ASSUME NEW r \in Records, Advance(r) PROVE ActShape'
  BY <1>21 DEF Advance, Goto
<1>22. ASSUME NEW r \in Records, Decide(r) PROVE ActShape'
  BY <1>22 DEF Decide, Goto
<1>23. ASSUME NEW r \in Records, Reload(r) PROVE ActShape'
  BY <1>23 DEF Reload, Goto, Loads
<1>24. ASSUME NEW r \in Records, Leave(r) PROVE ActShape'
  BY <1>24 DEF Leave, Goto, Frees
<1>25. ASSUME NEW r \in Records, Interrupt(r) PROVE ActShape'
  <2>1. PICK s : act' = [act EXCEPT ![r] = s] /\ Meets(r, s, FALSE)
    BY <1>25, InterruptMeets
  <2> QED BY <1>25, <2>1 DEF Interrupt, Meets
<1>26. ASSUME NEW r \in Records, RecordKilled(r) PROVE ActShape'
  BY <1>26 DEF RecordKilled, Goto, Frees
<1>27. ASSUME NEW u \in Updaters, UpdateBegins(u) PROVE ActShape'
  BY <1>27 DEF UpdateBegins
<1>28. ASSUME NEW u \in Updaters, Drain(u) PROVE ActShape'
  BY <1>28 DEF Drain, Goto
<1>29. ASSUME NEW u \in Updaters, UnloadDispatcher(u) PROVE ActShape'
  BY <1>29 DEF UnloadDispatcher, Goto
<1>30. ASSUME NEW u \in Updaters, Install(u) PROVE ActShape'
  BY <1>30 DEF Install, Goto
<1>31. ASSUME NEW u \in Updaters, Clear(u) PROVE ActShape'
  BY <1>31 DEF Clear, Goto
<1>32. ASSUME NEW u \in Updaters, Write(u) PROVE ActShape'
  BY <1>32 DEF Write, Goto
<1>33. ASSUME NEW u \in Updaters, Load(u) PROVE ActShape'
  BY <1>33 DEF Load, Loads
<1>34. ASSUME NEW u \in Updaters, RestartBot(u) PROVE ActShape'
  BY <1>34 DEF RestartBot, Goto
<1>35. ASSUME NEW u \in Updaters, UpdateEnds(u) PROVE ActShape'
  BY <1>35 DEF UpdateEnds, Goto
<1> QED
  BY <1>1, <1>2, <1>3, <1>4, <1>5, <1>6, <1>7, <1>8, <1>9, <1>10, <1>11, <1>12, <1>13,
     <1>14, <1>15, <1>16, <1>17, <1>18, <1>19, <1>20, <1>21, <1>22, <1>23, <1>24, <1>25,
     <1>26, <1>27, <1>28, <1>29, <1>30, <1>31, <1>32, <1>33, <1>34, <1>35 DEF Next, Manager,
     RecordGoesOn, UpdateGoesOn, Unloads, Actor

-----------------------------------------------------------------------------
(* Holders and targets *)

LEMMA HoldersStep ==
    ASSUME ActShape, Holders, Targets, Next
    PROVE  Holders'
<1> USE ActorsDiffer
    DEF ActShape, Holders, Holding, Resting, At, Nobody, Operator, recorderVars
<1>1. ASSUME NEW w \in Worker, Start(w) PROVE Holders'
  BY <1>1 DEF Start
<1>2. CASE DispatcherStops
  BY <1>2 DEF DispatcherStops
<1>3. CASE RecorderBoots
  BY <1>3 DEF RecorderBoots
<1>4. CASE ServiceLeaves
  BY <1>4 DEF ServiceLeaves, Frees
<1>5. CASE TerminalLeaves
  BY <1>5 DEF TerminalLeaves, Frees
<1>6. CASE TerminalStarts
  BY <1>6 DEF TerminalStarts
<1>7. CASE OperatorUnloads
  BY <1>7 DEF OperatorUnloads, Goto
<1>8. CASE OperatorLoads
  BY <1>8 DEF OperatorLoads
<1>9. ASSUME NEW w \in Worker, ServiceCrashes(w) PROVE Holders'
  BY <1>9 DEF ServiceCrashes, Frees
<1>10. ASSUME NEW p \in Package, Edit(p) PROVE Holders'
  BY <1>10 DEF Edit
<1>11. ASSUME NEW a \in Actor, Unit(a) PROVE Holders'
  BY <1>11 DEF Unit, Goto, After
<1>12. ASSUME NEW a \in Actor, Gone(a) PROVE Holders'
  BY <1>12 DEF Gone, Goto
<1>13. ASSUME NEW a \in Actor, Look(a) PROVE Holders'
  BY <1>13 DEF Look, foreground_pid, After
<1>14. ASSUME NEW a \in Actor, Flag(a) PROVE Holders'
  BY <1>14 DEF Flag, Goto
<1>15. ASSUME NEW a \in Actor, Term(a) PROVE Holders'
  <2>1. CASE act' = Done(a) /\ (UNCHANGED <<lock, pidfile>> \/ Frees(Target(a)))
                   /\ Target(a) \in {"service", "terminal"}
    BY <1>15, <2>1 DEF Term, Done, After, Frees
  <2>2. ASSUME NEW s, act' = [Done(a) EXCEPT ![Target(a)] = s], Target(a) \in Records \ {a},
               Meets(Target(a), s, TRUE)
        PROVE  Holders'
    BY <1>15, <2>2 DEF Term, Done, After, Meets, Frees
  <2> QED BY <1>15, <2>1, <2>2, TermMeets
<1>16. ASSUME NEW r \in Records, Launch(r) PROVE Holders'
  BY <1>16 DEF Launch, Goto
<1>17. ASSUME NEW r \in Records, Check(r) PROVE Holders'
  BY <1>17 DEF Check
<1>18. ASSUME NEW r \in Records, Wait(r) PROVE Holders'
  BY <1>18 DEF Wait, Goto
<1>19. ASSUME NEW r \in Records, Retreat(r) PROVE Holders'
  BY <1>19 DEF Retreat, Goto, Loads
<1>20. ASSUME NEW r \in Records, Acquire(r) PROVE Holders'
  BY <1>20 DEF Acquire, Goto
<1>21. ASSUME NEW r \in Records, Advance(r) PROVE Holders'
  BY <1>21 DEF Advance, Goto
<1>22. ASSUME NEW r \in Records, Decide(r) PROVE Holders'
  BY <1>22 DEF Decide, Goto
<1>23. ASSUME NEW r \in Records, Reload(r) PROVE Holders'
  BY <1>23 DEF Reload, Goto, Loads
<1>24. ASSUME NEW r \in Records, Leave(r) PROVE Holders'
  BY <1>24 DEF Leave, Goto, Frees
<1>25. ASSUME NEW r \in Records, Interrupt(r) PROVE Holders'
  <2>1. PICK s : act' = [act EXCEPT ![r] = s] /\ Meets(r, s, FALSE)
    BY <1>25, InterruptMeets
  <2> QED BY <1>25, <2>1 DEF Interrupt, Meets, Frees
<1>26. ASSUME NEW r \in Records, RecordKilled(r) PROVE Holders'
  BY <1>26 DEF RecordKilled, Goto, Frees
<1>27. ASSUME NEW u \in Updaters, UpdateBegins(u) PROVE Holders'
  BY <1>27 DEF UpdateBegins
<1>28. ASSUME NEW u \in Updaters, Drain(u) PROVE Holders'
  BY <1>28 DEF Drain, Goto
<1>29. ASSUME NEW u \in Updaters, UnloadDispatcher(u) PROVE Holders'
  BY <1>29 DEF UnloadDispatcher, Goto
<1>30. ASSUME NEW u \in Updaters, Install(u) PROVE Holders'
  BY <1>30 DEF Install, Goto
<1>31. ASSUME NEW u \in Updaters, Clear(u) PROVE Holders'
  BY <1>31 DEF Clear, Goto
<1>32. ASSUME NEW u \in Updaters, Write(u) PROVE Holders'
  BY <1>32 DEF Write, Goto
<1>33. ASSUME NEW u \in Updaters, Load(u) PROVE Holders'
  BY <1>33 DEF Load, Loads
<1>34. ASSUME NEW u \in Updaters, RestartBot(u) PROVE Holders'
  BY <1>34 DEF RestartBot, Goto
<1>35. ASSUME NEW u \in Updaters, UpdateEnds(u) PROVE Holders'
  BY <1>35 DEF UpdateEnds, Goto
<1> QED
  BY <1>1, <1>2, <1>3, <1>4, <1>5, <1>6, <1>7, <1>8, <1>9, <1>10, <1>11, <1>12, <1>13,
     <1>14, <1>15, <1>16, <1>17, <1>18, <1>19, <1>20, <1>21, <1>22, <1>23, <1>24, <1>25,
     <1>26, <1>27, <1>28, <1>29, <1>30, <1>31, <1>32, <1>33, <1>34, <1>35 DEF Next, Manager,
     RecordGoesOn, UpdateGoesOn, Unloads, Actor

LEMMA TargetsStep ==
    ASSUME ActShape, Holders, Targets, Next
    PROVE  Targets'
<1> USE ActorsDiffer
    DEF ActShape, Holders, Targets, Target, Holding, Resting, At, Nobody, Operator,
       recorderVars
<1>1. ASSUME NEW w \in Worker, Start(w) PROVE Targets'
  BY <1>1 DEF Start
<1>2. CASE DispatcherStops
  BY <1>2 DEF DispatcherStops
<1>3. CASE RecorderBoots
  BY <1>3 DEF RecorderBoots
<1>4. CASE ServiceLeaves
  BY <1>4 DEF ServiceLeaves, Frees
<1>5. CASE TerminalLeaves
  BY <1>5 DEF TerminalLeaves, Frees
<1>6. CASE TerminalStarts
  BY <1>6 DEF TerminalStarts
<1>7. CASE OperatorUnloads
  BY <1>7 DEF OperatorUnloads, Goto
<1>8. CASE OperatorLoads
  BY <1>8 DEF OperatorLoads
<1>9. ASSUME NEW w \in Worker, ServiceCrashes(w) PROVE Targets'
  BY <1>9 DEF ServiceCrashes, Frees
<1>10. ASSUME NEW p \in Package, Edit(p) PROVE Targets'
  BY <1>10 DEF Edit
<1>11. ASSUME NEW a \in Actor, Unit(a) PROVE Targets'
  BY <1>11 DEF Unit, Goto, After
<1>12. ASSUME NEW a \in Actor, Gone(a) PROVE Targets'
  BY <1>12 DEF Gone, Goto
<1>13. ASSUME NEW a \in Actor, Look(a) PROVE Targets'
  BY <1>13 DEF Look, foreground_pid, After
<1>14. ASSUME NEW a \in Actor, Flag(a) PROVE Targets'
  BY <1>14 DEF Flag, Goto
<1>15. ASSUME NEW a \in Actor, Term(a) PROVE Targets'
  <2>1. CASE act' = Done(a) /\ (UNCHANGED <<lock, pidfile>> \/ Frees(Target(a)))
                   /\ Target(a) \in {"service", "terminal"}
    BY <1>15, <2>1 DEF Term, Done, After, Target
  <2>2. ASSUME NEW s, act' = [Done(a) EXCEPT ![Target(a)] = s], Target(a) \in Records \ {a},
               Meets(Target(a), s, TRUE)
        PROVE  Targets'
    BY SMTT(30), <1>15, <2>2 DEF Term, Done, After, Meets, Target
  <2> QED BY <1>15, <2>1, <2>2, TermMeets
<1>16. ASSUME NEW r \in Records, Launch(r) PROVE Targets'
  BY <1>16 DEF Launch, Goto
<1>17. ASSUME NEW r \in Records, Check(r) PROVE Targets'
  BY <1>17 DEF Check
<1>18. ASSUME NEW r \in Records, Wait(r) PROVE Targets'
  BY <1>18 DEF Wait, Goto
<1>19. ASSUME NEW r \in Records, Retreat(r) PROVE Targets'
  BY <1>19 DEF Retreat, Goto, Loads
<1>20. ASSUME NEW r \in Records, Acquire(r) PROVE Targets'
  BY <1>20 DEF Acquire, Goto
<1>21. ASSUME NEW r \in Records, Advance(r) PROVE Targets'
  BY <1>21 DEF Advance, Goto
<1>22. ASSUME NEW r \in Records, Decide(r) PROVE Targets'
  BY <1>22 DEF Decide, Goto
<1>23. ASSUME NEW r \in Records, Reload(r) PROVE Targets'
  BY <1>23 DEF Reload, Goto, Loads
<1>24. ASSUME NEW r \in Records, Leave(r) PROVE Targets'
  BY <1>24 DEF Leave, Goto, Frees
<1>25. ASSUME NEW r \in Records, Interrupt(r) PROVE Targets'
  <2>1. PICK s : act' = [act EXCEPT ![r] = s] /\ Meets(r, s, FALSE)
    BY <1>25, InterruptMeets
  <2> QED BY <1>25, <2>1 DEF Interrupt, Meets, Target
<1>26. ASSUME NEW r \in Records, RecordKilled(r) PROVE Targets'
  BY <1>26 DEF RecordKilled, Goto, Frees
<1>27. ASSUME NEW u \in Updaters, UpdateBegins(u) PROVE Targets'
  BY <1>27 DEF UpdateBegins
<1>28. ASSUME NEW u \in Updaters, Drain(u) PROVE Targets'
  BY <1>28 DEF Drain, Goto
<1>29. ASSUME NEW u \in Updaters, UnloadDispatcher(u) PROVE Targets'
  BY <1>29 DEF UnloadDispatcher, Goto
<1>30. ASSUME NEW u \in Updaters, Install(u) PROVE Targets'
  BY <1>30 DEF Install, Goto
<1>31. ASSUME NEW u \in Updaters, Clear(u) PROVE Targets'
  BY <1>31 DEF Clear, Goto
<1>32. ASSUME NEW u \in Updaters, Write(u) PROVE Targets'
  BY <1>32 DEF Write, Goto
<1>33. ASSUME NEW u \in Updaters, Load(u) PROVE Targets'
  BY <1>33 DEF Load, Loads
<1>34. ASSUME NEW u \in Updaters, RestartBot(u) PROVE Targets'
  BY <1>34 DEF RestartBot, Goto
<1>35. ASSUME NEW u \in Updaters, UpdateEnds(u) PROVE Targets'
  BY <1>35 DEF UpdateEnds, Goto
<1> QED
  BY <1>1, <1>2, <1>3, <1>4, <1>5, <1>6, <1>7, <1>8, <1>9, <1>10, <1>11, <1>12, <1>13,
     <1>14, <1>15, <1>16, <1>17, <1>18, <1>19, <1>20, <1>21, <1>22, <1>23, <1>24, <1>25,
     <1>26, <1>27, <1>28, <1>29, <1>30, <1>31, <1>32, <1>33, <1>34, <1>35 DEF Next, Manager,
     RecordGoesOn, UpdateGoesOn, Unloads, Actor

-----------------------------------------------------------------------------
(* Flags *)

LEMMA FlaggedStep ==
    ASSUME ActShape, Holders, Targets, Flagged, Next
    PROVE  Flagged'
<1> USE ActorsDiffer
    DEF ActShape, Holders, Targets, Flagged, Target, Holding, Deciding, Resting, At, Nobody,
        Operator, recorderVars
<1>1. ASSUME NEW w \in Worker, Start(w) PROVE Flagged'
  BY <1>1 DEF Start
<1>2. CASE DispatcherStops
  BY <1>2 DEF DispatcherStops
<1>3. CASE RecorderBoots
  BY <1>3 DEF RecorderBoots
<1>4. CASE ServiceLeaves
  BY <1>4 DEF ServiceLeaves, Frees
<1>5. CASE TerminalLeaves
  BY <1>5 DEF TerminalLeaves, Frees
<1>6. CASE TerminalStarts
  BY <1>6 DEF TerminalStarts
<1>7. CASE OperatorUnloads
  BY <1>7 DEF OperatorUnloads, Goto
<1>8. CASE OperatorLoads
  BY <1>8 DEF OperatorLoads
<1>9. ASSUME NEW w \in Worker, ServiceCrashes(w) PROVE Flagged'
  BY <1>9 DEF ServiceCrashes, Frees
<1>10. ASSUME NEW p \in Package, Edit(p) PROVE Flagged'
  BY <1>10 DEF Edit
<1>11. ASSUME NEW a \in Actor, Unit(a) PROVE Flagged'
  BY <1>11 DEF Unit, Goto, After
<1>12. ASSUME NEW a \in Actor, Gone(a) PROVE Flagged'
  BY <1>12 DEF Gone, Goto
<1>13. ASSUME NEW a \in Actor, Look(a) PROVE Flagged'
  BY SMTT(60), <1>13 DEF Look, foreground_pid, After
<1>14. ASSUME NEW a \in Actor, Flag(a) PROVE Flagged'
  BY <1>14 DEF Flag, Goto
<1>15. ASSUME NEW a \in Actor, Term(a) PROVE Flagged'
  <2>1. CASE act' = Done(a) /\ (UNCHANGED <<lock, pidfile>> \/ Frees(Target(a)))
                   /\ Target(a) \in {"service", "terminal"}
    BY <1>15, <2>1 DEF Term, Done, After
  <2>2. ASSUME NEW s, act' = [Done(a) EXCEPT ![Target(a)] = s], Target(a) \in Records \ {a},
               Meets(Target(a), s, TRUE)
        PROVE  Flagged'
    <3>1. /\ noReload' = noReload /\ act[a].pc = "term"
          /\ act'[Target(a)] = s /\ act'[a].pc \notin Holding \cup {"term"}
          /\ act'[a].told = act[a].told /\ act'[a].heard = act[a].heard
          /\ \A b \in Actor \ {a, Target(a)} : act'[b] = act[b]
      BY <1>15, <2>2 DEF Term, Done, After
    <3>2. s.pc \in Holding \cup {"new", "off"}
      BY <2>2 DEF Meets
    <3>3. ASSUME NEW b \in Actor, act'[b].pc = "term", act'[b].target \in Records
          PROVE  LET t == act'[b].target
                 IN  act'[t].pc = "off" \/ noReload' # {} \/ act'[t].heard
      <4>1. b \notin {a, Target(a)} /\ act[b].pc = "term" /\ act'[b].target = Target(b)
        BY <3>1, <3>2, <3>3
      <4>2. Target(b) # a
        BY <3>1, <3>3, <4>1
      <4>3. CASE Target(b) # Target(a)
        BY <3>1, <3>3, <4>1, <4>2, <4>3
      <4>4. CASE Target(b) = Target(a)
        BY <2>2, <3>1, <3>3, <4>1, <4>4 DEF Meets
      <4> QED BY <4>3, <4>4
    <3>4. ASSUME NEW r \in Records
          PROVE  /\ act'[r].told => act'[r].pc \in Holding \ {"setup"}
                 /\ act'[r].told /\ ~act'[r].heard => act'[r].pc \in Deciding /\ noReload' # {}
      <4>1. CASE r = a
        BY <3>1, <4>1
      <4>2. CASE r \notin {a, Target(a)}
        BY <3>1, <3>4, <4>2
      <4>3. CASE r = Target(a)
        <5>1. act[a].pc = "term" /\ Target(a) \in Records
          BY <2>2, <3>1
        <5> QED BY <2>2, <3>1, <4>3, <5>1 DEF Meets
      <4> QED BY <4>1, <4>2, <4>3
    <3> QED BY <3>3, <3>4
  <2> QED BY <1>15, <2>1, <2>2, TermMeets
<1>16. ASSUME NEW r \in Records, Launch(r) PROVE Flagged'
  BY <1>16 DEF Launch, Goto
<1>17. ASSUME NEW r \in Records, Check(r) PROVE Flagged'
  BY <1>17 DEF Check
<1>18. ASSUME NEW r \in Records, Wait(r) PROVE Flagged'
  BY <1>18 DEF Wait, Goto
<1>19. ASSUME NEW r \in Records, Retreat(r) PROVE Flagged'
  BY <1>19 DEF Retreat, Goto, Loads
<1>20. ASSUME NEW r \in Records, Acquire(r) PROVE Flagged'
  BY <1>20 DEF Acquire, Goto
<1>21. ASSUME NEW r \in Records, Advance(r) PROVE Flagged'
  BY <1>21 DEF Advance, Goto
<1>22. ASSUME NEW r \in Records, Decide(r) PROVE Flagged'
  BY <1>22 DEF Decide, Goto
<1>23. ASSUME NEW r \in Records, Reload(r) PROVE Flagged'
  BY <1>23 DEF Reload, Goto, Loads
<1>24. ASSUME NEW r \in Records, Leave(r) PROVE Flagged'
  BY <1>24 DEF Leave, Goto, Frees
<1>25. ASSUME NEW r \in Records, Interrupt(r) PROVE Flagged'
  <2>1. PICK s : act' = [act EXCEPT ![r] = s] /\ Meets(r, s, FALSE)
    BY <1>25, InterruptMeets
  <2> QED BY <1>25, <2>1 DEF Interrupt, Meets
<1>26. ASSUME NEW r \in Records, RecordKilled(r) PROVE Flagged'
  BY <1>26 DEF RecordKilled, Goto, Frees
<1>27. ASSUME NEW u \in Updaters, UpdateBegins(u) PROVE Flagged'
  BY <1>27 DEF UpdateBegins
<1>28. ASSUME NEW u \in Updaters, Drain(u) PROVE Flagged'
  BY <1>28 DEF Drain, Goto
<1>29. ASSUME NEW u \in Updaters, UnloadDispatcher(u) PROVE Flagged'
  BY <1>29 DEF UnloadDispatcher, Goto
<1>30. ASSUME NEW u \in Updaters, Install(u) PROVE Flagged'
  BY <1>30 DEF Install, Goto
<1>31. ASSUME NEW u \in Updaters, Clear(u) PROVE Flagged'
  BY <1>31 DEF Clear, Goto
<1>32. ASSUME NEW u \in Updaters, Write(u) PROVE Flagged'
  BY <1>32 DEF Write, Goto
<1>33. ASSUME NEW u \in Updaters, Load(u) PROVE Flagged'
  BY SMTT(30), <1>33 DEF Load, Loads
<1>34. ASSUME NEW u \in Updaters, RestartBot(u) PROVE Flagged'
  BY <1>34 DEF RestartBot, Goto
<1>35. ASSUME NEW u \in Updaters, UpdateEnds(u) PROVE Flagged'
  BY <1>35 DEF UpdateEnds, Goto
<1> QED
  BY <1>1, <1>2, <1>3, <1>4, <1>5, <1>6, <1>7, <1>8, <1>9, <1>10, <1>11, <1>12, <1>13,
     <1>14, <1>15, <1>16, <1>17, <1>18, <1>19, <1>20, <1>21, <1>22, <1>23, <1>24, <1>25,
     <1>26, <1>27, <1>28, <1>29, <1>30, <1>31, <1>32, <1>33, <1>34, <1>35 DEF Next, Manager,
     RecordGoesOn, UpdateGoesOn, Unloads, Actor

-----------------------------------------------------------------------------
(* Debts *)

\* What no update is planned for cannot be stale for what it has seen changed.
LEMMA Unplanned ==
    ASSUME NEW c, NEW w \in Planned, w \notin update_plan(c)
    PROVE  c \cap Uses(w) = {}
BY DEF update_plan, Planned, Uses

\* An update sees all the debt there is, or the whole of the code.
LEMMA SeenWhole ==
    ASSUME Debt, NEW c, c = dirty \/ c = Package, NEW w \in Worker, Live(w), NEW p \in stale[w]
    PROVE  p \in c \/ (w = "bot" /\ Owed(p))
<1>1. p \in Package
  BY DEF Debt, Uses, Worker, Package
<1>2. p \in dirty \/ (w = "bot" /\ Owed(p))
  <2>1. CASE w \in Planned
    BY <2>1 DEF Debt
  <2>2. CASE w = "bot"
    <3>1. \A q \in stale["bot"] : q \in dirty \/ Owed(q)
      BY <2>2 DEF Debt
    <3> QED BY <2>2, <3>1
  <2> QED BY <2>1, <2>2 DEF Planned, Worker
<1> QED BY <1>1, <1>2

LEMMA DebtStep ==
    ASSUME ActShape, Holders, Targets, Debt, \A u \in Updaters : UnderWay(u), Next
    PROVE  Debt'
<1> USE ActorsDiffer
    DEF ActShape, Debt, Live, Planned, Worker, Uses, Owed, Finishing, Target, Resting, At,
        Nobody, Operator, recorderVars
<1>1. ASSUME NEW w \in Worker, Start(w) PROVE Debt'
  BY <1>1 DEF Start
<1>2. CASE DispatcherStops
  BY <1>2 DEF DispatcherStops
<1>3. CASE RecorderBoots
  BY <1>3 DEF RecorderBoots
<1>4. CASE ServiceLeaves
  BY <1>4 DEF ServiceLeaves, Frees
<1>5. CASE TerminalLeaves
  BY <1>5 DEF TerminalLeaves, Frees
<1>6. CASE TerminalStarts
  BY <1>6 DEF TerminalStarts
<1>7. CASE OperatorUnloads
  BY <1>7 DEF OperatorUnloads, Goto
<1>8. CASE OperatorLoads
  BY <1>8 DEF OperatorLoads
<1>9. ASSUME NEW w \in Worker, ServiceCrashes(w) PROVE Debt'
  BY <1>9 DEF ServiceCrashes, Frees
<1>10. ASSUME NEW p \in Package, Edit(p) PROVE Debt'
  BY <1>10 DEF Edit
<1>11. ASSUME NEW a \in Actor, Unit(a) PROVE Debt'
  BY <1>11 DEF Unit, Goto, After
<1>12. ASSUME NEW a \in Actor, Gone(a) PROVE Debt'
  BY <1>12 DEF Gone, Goto
<1>13. ASSUME NEW a \in Actor, Look(a) PROVE Debt'
  BY <1>13 DEF Look, foreground_pid, After
<1>14. ASSUME NEW a \in Actor, Flag(a) PROVE Debt'
  BY <1>14 DEF Flag, Goto
<1>15. ASSUME NEW a \in Actor, Term(a) PROVE Debt'
  <2>1. CASE act' = Done(a) /\ (UNCHANGED <<lock, pidfile>> \/ Frees(Target(a)))
                   /\ Target(a) \in {"service", "terminal"}
    BY <1>15, <2>1 DEF Term, Done, After
  <2>2. ASSUME NEW s, act' = [Done(a) EXCEPT ![Target(a)] = s], Target(a) \in Records \ {a},
               Meets(Target(a), s, TRUE)
        PROVE  Debt'
    BY SMTT(30), <1>15, <2>2 DEF Term, Done, After, Meets
  <2> QED BY <1>15, <2>1, <2>2, TermMeets
<1>16. ASSUME NEW r \in Records, Launch(r) PROVE Debt'
  BY <1>16 DEF Launch, Goto
<1>17. ASSUME NEW r \in Records, Check(r) PROVE Debt'
  BY <1>17 DEF Check
<1>18. ASSUME NEW r \in Records, Wait(r) PROVE Debt'
  BY <1>18 DEF Wait, Goto
<1>19. ASSUME NEW r \in Records, Retreat(r) PROVE Debt'
  BY <1>19 DEF Retreat, Goto, Loads
<1>20. ASSUME NEW r \in Records, Acquire(r) PROVE Debt'
  BY <1>20 DEF Acquire, Goto
<1>21. ASSUME NEW r \in Records, Advance(r) PROVE Debt'
  BY <1>21 DEF Advance, Goto
<1>22. ASSUME NEW r \in Records, Decide(r) PROVE Debt'
  BY <1>22 DEF Decide, Goto
<1>23. ASSUME NEW r \in Records, Reload(r) PROVE Debt'
  BY <1>23 DEF Reload, Goto, Loads
<1>24. ASSUME NEW r \in Records, Leave(r) PROVE Debt'
  BY <1>24 DEF Leave, Goto, Frees
<1>25. ASSUME NEW r \in Records, Interrupt(r) PROVE Debt'
  <2>1. PICK s : act' = [act EXCEPT ![r] = s] /\ Meets(r, s, FALSE)
    BY <1>25, InterruptMeets
  <2> QED BY <1>25, <2>1 DEF Interrupt, Meets
<1>26. ASSUME NEW r \in Records, RecordKilled(r) PROVE Debt'
  BY <1>26 DEF RecordKilled, Goto, Frees
<1>27. ASSUME NEW u \in Updaters, UpdateBegins(u) PROVE Debt'
  BY <1>27 DEF UpdateBegins
<1>28. ASSUME NEW u \in Updaters, Drain(u) PROVE Debt'
  BY <1>28 DEF Drain, Goto
<1>29. ASSUME NEW u \in Updaters, UnloadDispatcher(u) PROVE Debt'
  BY <1>29 DEF UnloadDispatcher, Goto
<1>30. ASSUME NEW u \in Updaters, Install(u) PROVE Debt'
  BY <1>30 DEF Install, Goto
<1>31. ASSUME NEW u \in Updaters, Clear(u) PROVE Debt'
  BY <1>31 DEF Clear, Goto
<1>32. ASSUME NEW u \in Updaters, Write(u) PROVE Debt'
  <2>1. /\ act[u].pc = "write" /\ ~act[u].failed /\ act[u].todo = update_plan(act[u].changed)
        /\ dirty' = act[u].since /\ UNCHANGED <<svc, stale, outdated>>
    BY <1>32 DEF Write, UnderWay, Writing, InTry
  <2>2. /\ act'[u].pc \in {"load", "bot"} /\ ~act'[u].failed /\ act'[u].changed = act[u].changed
        /\ \A v \in Updaters \ {u} : act'[v] = act[v]
    BY <1>32, <2>1 DEF Write, Goto
  <2>3. ASSUME NEW w \in Planned, Live(w)
        PROVE  stale[w] \subseteq act[u].since
    <3>1. stale[w] \subseteq act[u].since \cup (IF w \in act[u].todo THEN {} ELSE act[u].changed)
      BY <2>1, <2>3 DEF UnderWay, Writing, Unloaded, InTry
    <3>2. stale[w] \subseteq Uses(w)
      OBVIOUS
    <3> QED BY <2>1, <3>1, <3>2, Unplanned
  <2>4. ASSUME Live("bot"), NEW p \in stale["bot"]
        PROVE  p \in act[u].since \/ Owed(p)'
    <3>1. p \in act[u].changed \cup act[u].since \/ Owed(p)
      BY <2>1, <2>4 DEF UnderWay, Writing
    <3> QED BY <2>1, <2>2, <3>1
  <2> QED BY <2>1, <2>3, <2>4
<1>33. ASSUME NEW u \in Updaters, Load(u) PROVE Debt'
  BY <1>33 DEF Load, Loads
<1>34. ASSUME NEW u \in Updaters, RestartBot(u) PROVE Debt'
  BY <1>34 DEF RestartBot, Goto
<1>35. ASSUME NEW u \in Updaters, UpdateEnds(u) PROVE Debt'
  BY <1>35 DEF UpdateEnds, Goto
<1> QED
  BY <1>1, <1>2, <1>3, <1>4, <1>5, <1>6, <1>7, <1>8, <1>9, <1>10, <1>11, <1>12, <1>13,
     <1>14, <1>15, <1>16, <1>17, <1>18, <1>19, <1>20, <1>21, <1>22, <1>23, <1>24, <1>25,
     <1>26, <1>27, <1>28, <1>29, <1>30, <1>31, <1>32, <1>33, <1>34, <1>35 DEF Next, Manager,
     RecordGoesOn, UpdateGoesOn, Unloads, Actor

LEMMA UnderWayStep ==
    ASSUME ActShape, Holders, Targets, Debt, \A u \in Updaters : UnderWay(u), Next,
           NEW x \in Updaters
    PROVE  UnderWay(x)'
<1> USE ActorsDiffer
    DEF ActShape, Debt, UnderWay, Writing, Unloaded, InTry, Live, Planned, Worker, Uses,
       Owed,
        Finishing, Target, Resting, At, Nobody, Operator, recorderVars
<1>1. ASSUME NEW w \in Worker, Start(w) PROVE UnderWay(x)'
  BY <1>1 DEF Start
<1>2. CASE DispatcherStops
  BY <1>2 DEF DispatcherStops
<1>3. CASE RecorderBoots
  BY <1>3 DEF RecorderBoots
<1>4. CASE ServiceLeaves
  BY <1>4 DEF ServiceLeaves, Frees
<1>5. CASE TerminalLeaves
  BY <1>5 DEF TerminalLeaves, Frees
<1>6. CASE TerminalStarts
  BY <1>6 DEF TerminalStarts
<1>7. CASE OperatorUnloads
  BY <1>7 DEF OperatorUnloads, Goto
<1>8. CASE OperatorLoads
  BY <1>8 DEF OperatorLoads
<1>9. ASSUME NEW w \in Worker, ServiceCrashes(w) PROVE UnderWay(x)'
  BY <1>9 DEF ServiceCrashes, Frees
<1>10. ASSUME NEW p \in Package, Edit(p) PROVE UnderWay(x)'
  BY SMTT(60), <1>10 DEF Edit
<1>11. ASSUME NEW a \in Actor, Unit(a) PROVE UnderWay(x)'
  BY <1>11 DEF Unit, Goto, After
<1>12. ASSUME NEW a \in Actor, Gone(a) PROVE UnderWay(x)'
  BY <1>12 DEF Gone, Goto
<1>13. ASSUME NEW a \in Actor, Look(a) PROVE UnderWay(x)'
  BY SMTT(60), <1>13 DEF Look, foreground_pid, After
<1>14. ASSUME NEW a \in Actor, Flag(a) PROVE UnderWay(x)'
  BY <1>14 DEF Flag, Goto
<1>15. ASSUME NEW a \in Actor, Term(a) PROVE UnderWay(x)'
  <2>1. CASE act' = Done(a) /\ (UNCHANGED <<lock, pidfile>> \/ Frees(Target(a)))
                   /\ Target(a) \in {"service", "terminal"}
    BY <1>15, <2>1 DEF Term, Done, After
  <2>2. ASSUME NEW s, act' = [Done(a) EXCEPT ![Target(a)] = s], Target(a) \in Records \ {a},
               Meets(Target(a), s, TRUE)
        PROVE  UnderWay(x)'
    <3>1. /\ UNCHANGED <<svc, stale, outdated, dirty>> /\ Target(a) \notin Updaters
          /\ \A v \in Updaters \ {a} : act'[v] = act[v]
      BY <1>15, <2>2 DEF Term, Done
    <3>2. a \in Updaters => act'[a] = [act[a] EXCEPT !.pc = "install", !.target = Nobody]
      BY <2>2, <3>1 DEF Done, After
    <3>3. \A p : Owed(p) => Owed(p)'
      BY <1>15, <3>1, <3>2 DEF Term
    <3>4. CASE x # a
      BY <3>1, <3>3, <3>4
    <3>5. CASE x = a
      <4>1. /\ act[x].pc = "term" /\ act'[x].pc = "install" /\ act'[x].failed = act[x].failed
            /\ act'[x].changed = act[x].changed /\ act'[x].since = act[x].since
            /\ act'[x].todo = act[x].todo
        <5>1. act[a].pc = "term" /\ DOMAIN act[a] = DOMAIN Resting
          BY <1>15 DEF Term
        <5>2. act'[x] = [act[x] EXCEPT !.pc = "install", !.target = Nobody]
          BY <3>2, <3>5
        <5> QED BY <3>5, <5>1, <5>2
      <4> QED BY <3>1, <3>3, <4>1
    <3> QED BY <3>4, <3>5
  <2> QED BY <1>15, <2>1, <2>2, TermMeets
<1>16. ASSUME NEW r \in Records, Launch(r) PROVE UnderWay(x)'
  BY <1>16 DEF Launch, Goto
<1>17. ASSUME NEW r \in Records, Check(r) PROVE UnderWay(x)'
  BY <1>17 DEF Check
<1>18. ASSUME NEW r \in Records, Wait(r) PROVE UnderWay(x)'
  BY <1>18 DEF Wait, Goto
<1>19. ASSUME NEW r \in Records, Retreat(r) PROVE UnderWay(x)'
  BY <1>19 DEF Retreat, Goto, Loads
<1>20. ASSUME NEW r \in Records, Acquire(r) PROVE UnderWay(x)'
  BY <1>20 DEF Acquire, Goto
<1>21. ASSUME NEW r \in Records, Advance(r) PROVE UnderWay(x)'
  BY <1>21 DEF Advance, Goto
<1>22. ASSUME NEW r \in Records, Decide(r) PROVE UnderWay(x)'
  BY <1>22 DEF Decide, Goto
<1>23. ASSUME NEW r \in Records, Reload(r) PROVE UnderWay(x)'
  BY <1>23 DEF Reload, Goto, Loads
<1>24. ASSUME NEW r \in Records, Leave(r) PROVE UnderWay(x)'
  BY <1>24 DEF Leave, Goto, Frees
<1>25. ASSUME NEW r \in Records, Interrupt(r) PROVE UnderWay(x)'
  <2>1. PICK s : act' = [act EXCEPT ![r] = s] /\ Meets(r, s, FALSE)
    BY <1>25, InterruptMeets
  <2> QED BY <1>25, <2>1 DEF Interrupt, Meets
<1>26. ASSUME NEW r \in Records, RecordKilled(r) PROVE UnderWay(x)'
  BY <1>26 DEF RecordKilled, Goto, Frees
<1>27. ASSUME NEW u \in Updaters, UpdateBegins(u) PROVE UnderWay(x)'
  <2>1. PICK changed \in {dirty, IF scenario.force THEN Package ELSE {}} \ {{}} :
          act' = [act EXCEPT ![u] = [Resting EXCEPT !.changed = changed,
                   !.todo = update_plan(changed),
                   !.pc = IF update_plan(changed) = {} THEN "write" ELSE "drain"]]
    BY <1>27 DEF UpdateBegins
  <2>2. UNCHANGED <<svc, stale, outdated, dirty>> /\ At(u, "off")
    BY <1>27 DEF UpdateBegins
  <2>3. \A p : Owed(p) => Owed(p)'
    BY <2>1, <2>2
  <2>4. CASE x # u
    BY <2>1, <2>2, <2>3, <2>4
  <2>5. CASE x = u
    <3>1. /\ act'[x].pc \in {"write", "drain"} /\ ~act'[x].failed /\ act'[x].changed = changed
          /\ act'[x].todo = update_plan(changed) /\ act'[x].since = {}
          /\ act'[x].pc = "write" => update_plan(changed) = {}
      BY <2>1, <2>5
    <3>2. ASSUME NEW w \in Worker, Live(w), NEW p \in stale[w]
          PROVE  p \in changed \/ (w = "bot" /\ Owed(p))
      <4>1. changed = dirty \/ changed = Package
        OBVIOUS
      <4> QED BY <3>2, <4>1, SeenWhole
    <3> QED BY <2>2, <2>3, <3>1, <3>2
  <2> QED BY <2>4, <2>5
<1>28. ASSUME NEW u \in Updaters, Drain(u) PROVE UnderWay(x)'
  BY <1>28 DEF Drain, Goto
<1>29. ASSUME NEW u \in Updaters, UnloadDispatcher(u) PROVE UnderWay(x)'
  BY <1>29 DEF UnloadDispatcher, Goto
<1>30. ASSUME NEW u \in Updaters, Install(u) PROVE UnderWay(x)'
  BY <1>30 DEF Install, Goto
<1>31. ASSUME NEW u \in Updaters, Clear(u) PROVE UnderWay(x)'
  BY <1>31 DEF Clear, Goto
<1>32. ASSUME NEW u \in Updaters, Write(u) PROVE UnderWay(x)'
  BY <1>32 DEF Write, Goto
<1>33. ASSUME NEW u \in Updaters, Load(u) PROVE UnderWay(x)'
  BY SMTT(30), <1>33 DEF Load, Loads
<1>34. ASSUME NEW u \in Updaters, RestartBot(u) PROVE UnderWay(x)'
  BY <1>34 DEF RestartBot, Goto
<1>35. ASSUME NEW u \in Updaters, UpdateEnds(u) PROVE UnderWay(x)'
  BY <1>35 DEF UpdateEnds, Goto
<1> HIDE DEF UnderWay, Debt, ActShape
<1> QED
  BY <1>1, <1>2, <1>3, <1>4, <1>5, <1>6, <1>7, <1>8, <1>9, <1>10, <1>11, <1>12, <1>13,
     <1>14, <1>15, <1>16, <1>17, <1>18, <1>19, <1>20, <1>21, <1>22, <1>23, <1>24, <1>25,
     <1>26, <1>27, <1>28, <1>29, <1>30, <1>31, <1>32, <1>33, <1>34, <1>35 DEF Next, Manager,
     RecordGoesOn, UpdateGoesOn, Unloads, Actor

-----------------------------------------------------------------------------
LEMMA ServInit == Init => ServInv
<1> USE ServicesAssumption, ActorsDiffer
<1> SUFFICES ASSUME Init PROVE ServInv
  OBVIOUS
<1>1. /\ DOMAIN act = Actor
      /\ \A a \in Actor : act[a] = Resting \/ act[a] = [Resting EXCEPT !.pc = "new"]
  BY DEF Init
<1>2. \A a \in Actor : /\ DOMAIN act[a] = DOMAIN Resting
                       /\ act[a].pc \in {"new", "off"} /\ ~act[a].failed /\ ~act[a].told
  BY <1>1 DEF Resting
<1>3. /\ lock \in {"service", Nobody} /\ pidfile = lock
      /\ svc["bot"] \in {"up", "none"} /\ DOMAIN svc = Worker /\ DOMAIN stale = Worker
      /\ \A w \in Worker : stale[w] = {}
  BY DEF Init, Worker
<1>4. ActShape
  BY <1>1, <1>2, <1>3 DEF ActShape
<1>5. Holders
  BY <1>2, <1>3 DEF Holders, Holding, Nobody
<1>6. Targets /\ Flagged
  BY <1>2 DEF Targets, Flagged, At
<1>7. Debt
  BY <1>3 DEF Debt, Planned, Worker
<1>8. ASSUME NEW u \in Updaters PROVE UnderWay(u)
  BY <1>2 DEF UnderWay, Writing, InTry
<1> QED BY <1>4, <1>5, <1>6, <1>7, <1>8 DEF ServInv

\* The running of the services, recordings, unloads and updates keeps what ServInv
\* says of the lock, the flag and the fingerprints, for any number of each.
THEOREM ServicesInvariance == Spec => []ServInv
<1>1. ServInv /\ [Next]_vars => ServInv'
  <2>1. ASSUME ServInv, Next PROVE ServInv'
    BY <2>1, ActShapeStep, HoldersStep, TargetsStep, FlaggedStep, DebtStep, UnderWayStep
       DEF ServInv
  <2>2. ASSUME ServInv, UNCHANGED vars PROVE ServInv'
    <3>1. /\ act' = act /\ svc' = svc /\ stale' = stale /\ dirty' = dirty /\ lock' = lock
          /\ outdated' = outdated /\ pidfile' = pidfile /\ noReload' = noReload
      BY <2>2 DEF vars, recorderVars
    <3> QED
      BY <2>2, <3>1 DEF ServInv, ActShape, Holders, Targets, Flagged, Debt, UnderWay, Owed,
         Finishing, Live, Target, At
  <2> QED BY <2>1, <2>2
<1> QED BY <1>1, ServInit, PTL DEF Spec

\* A package that the fingerprints call deployed is what every running service runs,
\* whenever no update is under way, but for the exceptions recorded in outdated:
\* whatever updates, edits, crashes and failed unloads crossed each other.
THEOREM DeployedIsFresh == Spec => []CleanMeansFresh
<1>1. ServInv => CleanMeansFresh
  <2> SUFFICES ASSUME ServInv, \A u \in Updaters : At(u, "off"), NEW w \in Worker \ outdated,
                      svc[w] \in {"boot", "up"}
               PROVE  stale[w] \subseteq dirty
    BY DEF CleanMeansFresh
  <2>1. \A p : ~Owed(p)
    BY DEF Owed, Finishing, At
  <2>2. CASE w \in Planned
    BY <2>2 DEF ServInv, Debt, Live
  <2>3. CASE w = "bot"
    BY <2>1, <2>3 DEF ServInv, Debt, Live
  <2> QED BY <2>2, <2>3 DEF Worker, Planned
<1> QED BY <1>1, ServicesInvariance, PTL

\* A recording that an unload told to stop, and dropped the flag for, before it decided
\* never loads the service again, however many recordings and unloads there are.
THEOREM UnloadIsHonoured == Spec => []SuppressIsHonoured
<1>1. ServInv => SuppressIsHonoured
  BY DEF ServInv, Flagged, SuppressIsHonoured, At, Deciding
<1> QED BY <1>1, ServicesInvariance, PTL

-----------------------------------------------------------------------------
(* Accounts.  A row says sent only of a posted file, so what the sweep      *)
(* counted is posted and stays so (Counting).  A user marked for deletion   *)
(* gets no new rows, because the process that registers reads the same copy *)
(* of config.toml it deletes by; two copies disagree on a user only if a    *)
(* command overwrote his entry unread (Retention).  And a rename moves      *)
(* either all the rows that pointed to the folder, or all of the user's     *)
(* are on the list of the strayed (Following).                              *)

Fields == {"active", "banned", "deleting"}
RosterShape(entries) ==
    DOMAIN entries = User /\ \A u \in User : DOMAIN entries[u] = Fields

Shape ==
    /\ RosterShape(conf) /\ RosterShape(copy) /\ RosterShape(ccopy)
    /\ DOMAIN place = File
    /\ DOMAIN row = File /\ \A f \in File : DOMAIN row[f] = {"status", "path"}
    /\ lpc \notin {"down", "run"} => luser \in User
    /\ cpc # "idle" => cuser \in User
    /\ dpc # "idle" => dfile \in File
    /\ lane \in File \cup {NoFile}

\* What is recorded as sent, or was when the sweep counted, is posted.
Counting ==
    /\ dpc \in {"posted", "sent"} => dfile \in posted
    /\ \A f \in File : row[f].status = "sent" => f \in posted
    /\ lseen \subseteq posted

Clean(u) == \A f \in Files(u) : ~Unsent(f)
Trashed(entries, u) == entries[u].deleting = "trashed"

Retention ==
    /\ lane # NoFile => lpc # "down" /\ ~Deleting(copy, Owner[lane])
    /\ lpc \in {"counted", "trashed"} => copy[luser].deleting = "asked" /\ Clean(luser)
    /\ lpc = "purged" => Deleting(copy, luser)
    /\ \A u \in User \ overwritten :
          /\ Trashed(conf, u) \/ Trashed(copy, u) => Clean(u)
          /\ Trashed(conf, u) /\ lpc # "down" => Trashed(copy, u)

ArchiverMoves(u) == lpc = "moved" /\ luser = u
CommandMoves(u) == cpc = "moved" /\ cuser = u

\* Between the rename and the repoint: nothing is left in the old folder, and
\* the rows still pointing there are those of files in the new one.
Underway(u, from, to) ==
    \A f \in Files(u) \ strayed :
        /\ place[f] # from
        /\ Unsent(f) /\ place[f] # "trash" =>
              IF row[f].path = from THEN place[f] = to ELSE row[f].path = place[f]

Following ==
    /\ \A f \in File : place[f] = "none" => ~HasRow(f)
    /\ lane # NoFile => place[lane] # "none"
    /\ lpc = "moved" => lto # "home" /\ Underway(luser, "home", lto)
    /\ cpc = "moved" => Underway(cuser, "quarantine", "home")
    /\ \A u \in User : ArchiverMoves(u) /\ CommandMoves(u) => Files(u) \subseteq strayed

AInv ==
    /\ Shape /\ Counting /\ Retention /\ Following
    /\ RowsFollowFolder /\ TrashSparesQueuedWork

-----------------------------------------------------------------------------
(* The shape of the state *)

LEMMA ShapeStep ==
    ASSUME Shape, AccountsNext
    PROVE  Shape'
<1> USE OwnerAssumption, UserAssumption
    DEF Shape, RosterShape, Fields, NoCopy, NoRow, roster, archiver, command, dispatcher,
       history, bounds
<1>1. CASE StartArchiver
  BY <1>1 DEF StartArchiver
<1>2. CASE StopArchiver
  BY <1>2 DEF StopArchiver, Stop
<1>3. CASE Quarantine
  BY <1>3 DEF Quarantine, NextTurn, Rename
<1>4. CASE Repoint
  BY <1>4 DEF Repoint, NextTurn, Repointed, HasRow
<1>5. CASE Trash
  BY <1>5 DEF Trash
<1>6. CASE Stamp
  BY <1>6 DEF Stamp, Persist, NextTurn
<1>7. CASE Evict
  BY <1>7 DEF Evict, Persist, NextTurn
<1>8. ASSUME NEW u \in User, Count(u) PROVE Shape'
  BY <1>8 DEF Count
<1>9. ASSUME NEW u \in User, Purge(u) PROVE Shape'
  BY <1>9 DEF Purge
<1>10. CASE LaneInsert
  BY <1>10 DEF LaneInsert
<1>11. CASE LaneSkips
  BY <1>11 DEF LaneSkips
<1>12. ASSUME NEW f \in File, LaneWrite(f) PROVE Shape'
  BY <1>12 DEF LaneWrite
<1>13. ASSUME NEW f \in File, Download(f) PROVE Shape'
  BY <1>13 DEF Download
<1>14. ASSUME NEW f \in File, Register(f) PROVE Shape'
  BY <1>14 DEF Register
<1>15. ASSUME NEW u \in User, AccountGone(u) PROVE Shape'
  BY <1>15 DEF AccountGone, Persist
<1>16. ASSUME NEW u \in User, RetentionEnds(u) PROVE Shape'
  BY <1>16 DEF RetentionEnds
<1>17. CASE Crash
  BY <1>17 DEF Crash, Stop, Fault
<1>18. CASE QuarantineDeferred
  BY <1>18 DEF QuarantineDeferred, NextTurn, Fault
<1>19. CASE RepointFails
  BY <1>19 DEF RepointFails, NextTurn, Fault
<1>20. CASE TrashDeferred
  BY <1>20 DEF TrashDeferred, NextTurn, Fault
<1>21. CASE RestoreRepointFails
  BY <1>21 DEF RestoreRepointFails, Fault
<1>22. CASE CommandFails
  BY <1>22 DEF CommandFails, CommandEnds
<1>23. CASE CmdDelete
  BY <1>23 DEF CmdDelete, CommandPersist, CommandEnds
<1>24. CASE CmdCancel
  BY <1>24 DEF CmdCancel, CommandPersist, CommandEnds
<1>25. CASE CmdAdd
  BY <1>25 DEF CmdAdd, CommandPersist, CommandEnds
<1>26. CASE CmdUnban
  BY <1>26 DEF CmdUnban, CommandPersist
<1>27. CASE Restore
  BY <1>27 DEF Restore, Rename
<1>28. CASE RestoreRepoint
  BY <1>28 DEF RestoreRepoint, Repointed, HasRow
<1>29. ASSUME NEW u \in User, NEW cmd \in {"delete", "cancel", "add", "unban"},
               CommandStart(cmd, u)
        PROVE  Shape'
  BY <1>29 DEF CommandStart, OperatorActs
<1>30. ASSUME NEW f \in File, Retry(f) PROVE Shape'
  BY <1>30 DEF Retry, OperatorActs
<1>31. CASE FileMissing
  BY <1>31 DEF FileMissing, BatchEnds, Settled
<1>32. CASE SendFails
  BY <1>32 DEF SendFails, OperatorActs, BatchEnds, Settled
<1>33. CASE Post
  BY <1>33 DEF Post
<1>34. CASE MarkSent
  BY <1>34 DEF MarkSent, Settled
<1>35. CASE MaybeDelete
  BY <1>35 DEF MaybeDelete, BatchEnds
<1>36. ASSUME NEW f \in File, Claim(f) PROVE Shape'
  BY <1>36 DEF Claim
<1>37. ASSUME NEW f \in File, CollectGone(f) PROVE Shape'
  BY <1>37 DEF CollectGone
<1> QED
  BY <1>1, <1>2, <1>3, <1>4, <1>5, <1>6, <1>7, <1>8, <1>9, <1>10, <1>11, <1>12, <1>13,
     <1>14, <1>15, <1>16, <1>17, <1>18, <1>19, <1>20, <1>21, <1>22, <1>23, <1>24, <1>25,
     <1>26, <1>27, <1>28, <1>29, <1>30, <1>31, <1>32, <1>33, <1>34, <1>35, <1>36, <1>37 DEF
     AccountsNext, Archiver, Sweep, Lane, Faults, Commands, Dispatcher

-----------------------------------------------------------------------------
(* Counting: what is recorded or counted is posted *)

LEMMA CountingStep ==
    ASSUME Shape, Counting, AccountsNext
    PROVE  Counting'
<1> USE DEF Shape, Counting, NoRow, roster, archiver, command, dispatcher, history, bounds
<1>1. CASE Repoint
  BY <1>1 DEF Repoint, NextTurn, Repointed, HasRow
<1>2. ASSUME NEW u \in User, Count(u) PROVE Counting'
  BY <1>2 DEF Count, Blocks, HasRow, Files
<1>3. ASSUME NEW u \in User, Purge(u) PROVE Counting'
  BY <1>3 DEF Purge
<1>4. CASE LaneInsert
  BY <1>4 DEF LaneInsert
<1>5. ASSUME NEW f \in File, Register(f) PROVE Counting'
  BY <1>5 DEF Register
<1>6. CASE RestoreRepoint
  BY <1>6 DEF RestoreRepoint, Repointed, HasRow
<1>7. ASSUME NEW f \in File, Retry(f) PROVE Counting'
  BY <1>7 DEF Retry, OperatorActs
<1>8. CASE FileMissing
  BY <1>8 DEF FileMissing, BatchEnds, Settled
<1>9. CASE SendFails
  BY <1>9 DEF SendFails, OperatorActs, BatchEnds, Settled
<1>10. CASE Post
  BY <1>10 DEF Post
<1>11. CASE MarkSent
  BY <1>11 DEF MarkSent, Settled
<1>12. CASE MaybeDelete
  BY <1>12 DEF MaybeDelete, BatchEnds
<1>13. ASSUME NEW f \in File, Claim(f) PROVE Counting'
  BY <1>13 DEF Claim
<1>14. ASSUME NEW f \in File, CollectGone(f) PROVE Counting'
  BY <1>14 DEF CollectGone
<1>15. CASE
       \/ StartArchiver \/ StopArchiver \/ Quarantine \/ Trash
       \/ Stamp \/ Evict \/ LaneSkips \/ Crash
       \/ QuarantineDeferred \/ RepointFails \/ TrashDeferred \/ RestoreRepointFails
       \/ CommandFails \/ CmdDelete \/ CmdCancel \/ CmdAdd
       \/ CmdUnban \/ Restore
       \/ \E f \in File : LaneWrite(f)
       \/ \E f \in File : Download(f)
       \/ \E u \in User : AccountGone(u)
       \/ \E u \in User : RetentionEnds(u)
       \/ \E u \in User, cmd \in {"delete", "cancel", "add", "unban"} : CommandStart(cmd, u)
  BY <1>15 DEF StartArchiver, StopArchiver, Stop, Quarantine, NextTurn, Rename, Trash,
     Stamp, Persist, Evict, LaneSkips, LaneWrite, Download, AccountGone, RetentionEnds, Crash,
     Fault, QuarantineDeferred, RepointFails, TrashDeferred, RestoreRepointFails,
     CommandFails, CommandEnds, CmdDelete, CommandPersist, CmdCancel, CmdAdd, CmdUnban,
     Restore, CommandStart, OperatorActs
<1> QED
  BY <1>1, <1>2, <1>3, <1>4, <1>5, <1>6, <1>7, <1>8, <1>9, <1>10, <1>11, <1>12, <1>13,
     <1>14, <1>15 DEF AccountsNext, Archiver, Sweep, Lane, Faults, Commands, Dispatcher

LEMMA TrashedStep ==
    ASSUME Shape, Counting, TrashSparesQueuedWork, AccountsNext
    PROVE  TrashSparesQueuedWork'
<1> USE DEF Shape, Counting, TrashSparesQueuedWork, In, Files, roster, archiver, command,
   dispatcher, history, bounds
<1>1. CASE Quarantine
  BY <1>1 DEF Quarantine, NextTurn, Rename
<1>2. CASE Trash
  BY <1>2 DEF Trash
<1>3. ASSUME NEW f \in File, LaneWrite(f) PROVE TrashSparesQueuedWork'
  BY <1>3 DEF LaneWrite
<1>4. ASSUME NEW f \in File, Download(f) PROVE TrashSparesQueuedWork'
  BY <1>4 DEF Download
<1>5. CASE Restore
  BY <1>5 DEF Restore, Rename
<1>6. CASE Post
  BY <1>6 DEF Post
<1>7. CASE MaybeDelete
  BY <1>7 DEF MaybeDelete, BatchEnds
<1>8. CASE
       \/ StartArchiver \/ StopArchiver \/ Repoint \/ Stamp
       \/ Evict \/ LaneInsert \/ LaneSkips \/ Crash
       \/ QuarantineDeferred \/ RepointFails \/ TrashDeferred \/ RestoreRepointFails
       \/ CommandFails \/ CmdDelete \/ CmdCancel \/ CmdAdd
       \/ CmdUnban \/ RestoreRepoint \/ FileMissing \/ SendFails
       \/ MarkSent
       \/ \E u \in User : Count(u)
       \/ \E u \in User : Purge(u)
       \/ \E f \in File : Register(f)
       \/ \E u \in User : AccountGone(u)
       \/ \E u \in User : RetentionEnds(u)
       \/ \E u \in User, cmd \in {"delete", "cancel", "add", "unban"} : CommandStart(cmd, u)
       \/ \E f \in File : Retry(f)
       \/ \E f \in File : Claim(f)
       \/ \E f \in File : CollectGone(f)
  BY <1>8 DEF StartArchiver, StopArchiver, Stop, Repoint, NextTurn, Repointed, HasRow,
     Stamp, Persist, Evict, Count, Purge, LaneInsert, LaneSkips, Register, AccountGone,
     RetentionEnds, Crash, Fault, QuarantineDeferred, RepointFails, TrashDeferred,
     RestoreRepointFails, CommandFails, CommandEnds, CmdDelete, CommandPersist, CmdCancel,
     CmdAdd, CmdUnban, RestoreRepoint, CommandStart, OperatorActs, Retry, FileMissing,
     BatchEnds, Settled, SendFails, MarkSent, Claim, CollectGone
<1> QED
  BY <1>1, <1>2, <1>3, <1>4, <1>5, <1>6, <1>7, <1>8 DEF AccountsNext, Archiver, Sweep, Lane, Faults,
     Commands, Dispatcher

-----------------------------------------------------------------------------
(* Retention: a user on his way out gets no new work *)

\* A row that was not there is one the archiver inserted, for a user its own copy
\* of config.toml does not delete.
LEMMA OnlyTheKeptGetRows ==
    ASSUME Shape, AccountsNext, lane # NoFile => lpc # "down" /\ ~Deleting(copy, Owner[lane]),
           NEW x \in File, HasRow(x)', ~HasRow(x)
    PROVE  lpc # "down" /\ ~Deleting(copy, Owner[x])
<1> DEFINE Goal == lpc # "down" /\ ~Deleting(copy, Owner[x])
<1> USE DEF Shape, HasRow, NoRow, roster, archiver, command, dispatcher, history, bounds
<1>1. CASE Repoint
  BY <1>1 DEF Repoint, NextTurn, Repointed, HasRow
<1>2. ASSUME NEW u \in User, Purge(u) PROVE Goal
  BY <1>2 DEF Purge
<1>3. CASE LaneInsert
  BY <1>3 DEF LaneInsert
<1>4. ASSUME NEW f \in File, Register(f) PROVE Goal
  BY <1>4 DEF Register
<1>5. CASE RestoreRepoint
  BY <1>5 DEF RestoreRepoint, Repointed, HasRow
<1>6. ASSUME NEW f \in File, Retry(f) PROVE Goal
  BY <1>6 DEF Retry, OperatorActs
<1>7. CASE FileMissing
  BY <1>7 DEF FileMissing, BatchEnds, Settled
<1>8. CASE SendFails
  BY <1>8 DEF SendFails, OperatorActs, BatchEnds, Settled
<1>9. CASE MarkSent
  BY <1>9 DEF MarkSent, Settled
<1>10. ASSUME NEW f \in File, Claim(f) PROVE Goal
  BY <1>10 DEF Claim
<1>11. ASSUME NEW f \in File, CollectGone(f) PROVE Goal
  BY <1>11 DEF CollectGone
<1>12. CASE
       \/ StartArchiver \/ StopArchiver \/ Quarantine \/ Trash
       \/ Stamp \/ Evict \/ LaneSkips \/ Crash
       \/ QuarantineDeferred \/ RepointFails \/ TrashDeferred \/ RestoreRepointFails
       \/ CommandFails \/ CmdDelete \/ CmdCancel \/ CmdAdd
       \/ CmdUnban \/ Restore \/ Post \/ MaybeDelete
       \/ \E u \in User : Count(u)
       \/ \E f \in File : LaneWrite(f)
       \/ \E f \in File : Download(f)
       \/ \E u \in User : AccountGone(u)
       \/ \E u \in User : RetentionEnds(u)
       \/ \E u \in User, cmd \in {"delete", "cancel", "add", "unban"} : CommandStart(cmd, u)
  BY <1>12 DEF StartArchiver, StopArchiver, Stop, Quarantine, NextTurn, Rename, Trash,
     Stamp, Persist, Evict, Count, LaneSkips, LaneWrite, Download, AccountGone, RetentionEnds,
     Crash, Fault, QuarantineDeferred, RepointFails, TrashDeferred, RestoreRepointFails,
     CommandFails, CommandEnds, CmdDelete, CommandPersist, CmdCancel, CmdAdd, CmdUnban,
     Restore, CommandStart, OperatorActs, Post, MaybeDelete, BatchEnds
<1> QED
  BY <1>1, <1>2, <1>3, <1>4, <1>5, <1>6, <1>7, <1>8, <1>9, <1>10, <1>11, <1>12 DEF AccountsNext,
     Archiver, Sweep, Lane, Faults, Commands, Dispatcher

LEMMA PostedGrows ==
    ASSUME AccountsNext
    PROVE  posted \subseteq posted'
<1> USE DEF roster, archiver, command, dispatcher, history, bounds
<1>1. CASE Post
  BY <1>1 DEF Post
<1>2. CASE
       \/ StartArchiver \/ StopArchiver \/ Quarantine \/ Repoint
       \/ Trash \/ Stamp \/ Evict \/ LaneInsert
       \/ LaneSkips \/ Crash \/ QuarantineDeferred \/ RepointFails
       \/ TrashDeferred \/ RestoreRepointFails \/ CommandFails \/ CmdDelete
       \/ CmdCancel \/ CmdAdd \/ CmdUnban \/ Restore
       \/ RestoreRepoint \/ FileMissing \/ SendFails \/ MarkSent
       \/ MaybeDelete
       \/ \E u \in User : Count(u)
       \/ \E u \in User : Purge(u)
       \/ \E f \in File : LaneWrite(f)
       \/ \E f \in File : Download(f)
       \/ \E f \in File : Register(f)
       \/ \E u \in User : AccountGone(u)
       \/ \E u \in User : RetentionEnds(u)
       \/ \E u \in User, cmd \in {"delete", "cancel", "add", "unban"} : CommandStart(cmd, u)
       \/ \E f \in File : Retry(f)
       \/ \E f \in File : Claim(f)
       \/ \E f \in File : CollectGone(f)
  BY <1>2 DEF StartArchiver, StopArchiver, Stop, Quarantine, NextTurn, Rename, Repoint,
     Repointed, HasRow, Trash, Stamp, Persist, Evict, Count, Purge, LaneInsert, LaneSkips,
     LaneWrite, Download, Register, AccountGone, RetentionEnds, Crash, Fault, QuarantineDeferred,
     RepointFails, TrashDeferred, RestoreRepointFails, CommandFails, CommandEnds, CmdDelete,
     CommandPersist, CmdCancel, CmdAdd, CmdUnban, Restore, RestoreRepoint, CommandStart,
     OperatorActs, Retry, FileMissing, BatchEnds, Settled, SendFails, MarkSent, MaybeDelete,
     Claim, CollectGone
<1> QED
  BY <1>1, <1>2 DEF AccountsNext, Archiver, Sweep, Lane, Faults, Commands, Dispatcher

\* So a user with nothing left to send stays one while he is being deleted.
LEMMA CleanStays ==
    ASSUME Shape, Retention, AccountsNext, NEW u \in User, Clean(u), lpc = "down" \/ Deleting(copy, u)
    PROVE  Clean(u)'
<1>1. \A f \in Files(u) : HasRow(f)' => HasRow(f)
  BY OnlyTheKeptGetRows DEF Retention, Files
<1> QED BY <1>1, PostedGrows DEF Clean, Unsent, Files


LEMMA RetentionStep ==
    ASSUME Shape, Counting, Retention, AccountsNext
    PROVE  Retention'
<1>0. \A u \in User : Clean(u) /\ (lpc = "down" \/ Deleting(copy, u)) => Clean(u)'
  BY CleanStays
<1> USE <1>0, UserAssumption DEF Shape, RosterShape, Fields, Retention, Trashed, Deleting,
   roster, archiver, command, dispatcher, history, bounds
<1>1. CASE StartArchiver
  BY <1>1 DEF StartArchiver
<1>2. CASE StopArchiver
  BY <1>2 DEF StopArchiver, Stop, NoCopy
<1>3. CASE Trash
  BY <1>3 DEF Trash
<1>4. CASE Stamp
  BY <1>4 DEF Stamp, Persist, NextTurn
<1>5. CASE Evict
  BY <1>5 DEF Evict, Persist, NextTurn
<1>6. ASSUME NEW u \in User, Count(u) PROVE Retention'
  <2>1. Clean(u)
    BY <1>6 DEF Count, Blocks, Counting, Clean, Unsent, HasRow, Files
  <2>2. Clean(u)' /\ luser' = u /\ copy' = copy
    BY <1>6, <2>1, <1>0 DEF Count
  <2> QED BY <1>6, <2>2 DEF Count
<1>7. ASSUME NEW u \in User, Purge(u) PROVE Retention'
  BY <1>7 DEF Purge
<1>8. CASE LaneInsert
  BY <1>8 DEF LaneInsert
<1>9. ASSUME NEW f \in File, LaneWrite(f) PROVE Retention'
  <2>1. Owner[f] \in User
    BY OwnerAssumption
  <2> QED BY <1>9, <2>1 DEF LaneWrite, Fetched
<1>10. ASSUME NEW f \in File, Download(f) PROVE Retention'
  BY <1>10 DEF Download
<1>11. ASSUME NEW f \in File, Register(f) PROVE Retention'
  BY <1>11 DEF Register
<1>12. ASSUME NEW u \in User, AccountGone(u) PROVE Retention'
  BY <1>12 DEF AccountGone, Persist
<1>13. CASE Crash
  BY <1>13 DEF Crash, Stop, Fault, NoCopy
<1>14. CASE CmdDelete
  BY <1>14 DEF CmdDelete, CommandPersist, CommandEnds
<1>15. CASE CmdCancel
  BY <1>15 DEF CmdCancel, CommandPersist, CommandEnds
<1>16. CASE CmdAdd
  BY <1>16 DEF CmdAdd, CommandPersist, CommandEnds
<1>17. CASE CmdUnban
  BY <1>17 DEF CmdUnban, CommandPersist
<1>18. CASE
       \/ Quarantine \/ Repoint \/ LaneSkips \/ QuarantineDeferred
       \/ RepointFails \/ TrashDeferred \/ RestoreRepointFails \/ CommandFails
       \/ Restore \/ RestoreRepoint \/ FileMissing \/ SendFails
       \/ Post \/ MarkSent \/ MaybeDelete
       \/ \E u \in User : RetentionEnds(u)
       \/ \E u \in User, cmd \in {"delete", "cancel", "add", "unban"} : CommandStart(cmd, u)
       \/ \E f \in File : Retry(f)
       \/ \E f \in File : Claim(f)
       \/ \E f \in File : CollectGone(f)
  BY <1>18 DEF Quarantine, NextTurn, Rename, Repoint, Repointed, HasRow, LaneSkips,
     RetentionEnds, QuarantineDeferred, Fault, RepointFails, TrashDeferred,
     RestoreRepointFails, CommandFails, CommandEnds, Restore, RestoreRepoint, CommandStart,
     OperatorActs, Retry, FileMissing, BatchEnds, Settled, SendFails, Post, MarkSent,
     MaybeDelete, Claim, CollectGone
<1> QED
  BY <1>1, <1>2, <1>3, <1>4, <1>5, <1>6, <1>7, <1>8, <1>9, <1>10, <1>11, <1>12, <1>13,
     <1>14, <1>15, <1>16, <1>17, <1>18 DEF AccountsNext, Archiver, Sweep, Lane, Faults, Commands,
     Dispatcher

-----------------------------------------------------------------------------
(* Following: rows go where the folder goes *)

LEMMA FollowingStep ==
    ASSUME Shape, Counting, Following, RowsFollowFolder, AccountsNext
    PROVE  Following' /\ RowsFollowFolder'
<1> USE OwnerAssumption, UserAssumption
    DEF Shape, Counting, Following, RowsFollowFolder, Underway, ArchiverMoves, CommandMoves,
        MidMove, Unsent, HasRow, Files, In, NoRow, roster, archiver, command, dispatcher,
           history, bounds
<1>1. CASE Quarantine
  BY <1>1 DEF Quarantine, NextTurn, Rename
<1>2. CASE Repoint
  BY <1>2 DEF Repoint, NextTurn, Repointed, HasRow
<1>3. CASE Trash
  BY <1>3 DEF Trash
<1>4. ASSUME NEW u \in User, Purge(u) PROVE (Following' /\ RowsFollowFolder')
  BY <1>4 DEF Purge
<1>5. CASE LaneInsert
  BY <1>5 DEF LaneInsert, MovingTo
<1>6. ASSUME NEW f \in File, LaneWrite(f) PROVE (Following' /\ RowsFollowFolder')
  BY <1>6 DEF LaneWrite
<1>7. ASSUME NEW f \in File, Download(f) PROVE (Following' /\ RowsFollowFolder')
  BY <1>7 DEF Download
<1>8. ASSUME NEW f \in File, Register(f) PROVE (Following' /\ RowsFollowFolder')
  BY <1>8 DEF Register
<1>9. CASE Crash
  BY <1>9 DEF Crash, Stop, Fault
<1>10. CASE RepointFails
  BY <1>10 DEF RepointFails, NextTurn, Fault
<1>11. CASE RestoreRepointFails
  BY <1>11 DEF RestoreRepointFails, Fault
<1>12. CASE Restore
  BY <1>12 DEF Restore, Rename
<1>13. CASE RestoreRepoint
  BY <1>13 DEF RestoreRepoint, Repointed, HasRow
<1>14. ASSUME NEW f \in File, Retry(f) PROVE (Following' /\ RowsFollowFolder')
  BY <1>14 DEF Retry, OperatorActs
<1>15. CASE FileMissing
  BY <1>15 DEF FileMissing, BatchEnds, Settled
<1>16. CASE SendFails
  BY <1>16 DEF SendFails, OperatorActs, BatchEnds, Settled
<1>17. CASE Post
  BY <1>17 DEF Post
<1>18. CASE MarkSent
  BY <1>18 DEF MarkSent, Settled
<1>19. CASE MaybeDelete
  BY <1>19 DEF MaybeDelete, BatchEnds
<1>20. ASSUME NEW f \in File, Claim(f) PROVE (Following' /\ RowsFollowFolder')
  BY <1>20 DEF Claim
<1>21. ASSUME NEW f \in File, CollectGone(f) PROVE (Following' /\ RowsFollowFolder')
  BY <1>21 DEF CollectGone
<1>22. CASE
       \/ StartArchiver \/ StopArchiver \/ Stamp \/ Evict
       \/ \E u \in User : Count(u)
       \/ \E u \in User : AccountGone(u)
  BY <1>22 DEF StartArchiver, StopArchiver, Stop, Stamp, Persist, NextTurn, Evict, Count, AccountGone
<1>23. CASE
       \/ LaneSkips \/ QuarantineDeferred \/ TrashDeferred \/ CommandFails
       \/ \E u \in User : RetentionEnds(u)
  BY <1>23 DEF LaneSkips, RetentionEnds, NextTurn, QuarantineDeferred, Fault, TrashDeferred,
     CommandFails, CommandEnds
<1>24. CASE
       \/ CmdDelete \/ CmdCancel \/ CmdAdd \/ CmdUnban
       \/ \E u \in User, cmd \in {"delete", "cancel", "add", "unban"} : CommandStart(cmd, u)
  BY <1>24 DEF CommandEnds, CmdDelete, CommandPersist, CmdCancel, CmdAdd, CmdUnban,
     CommandStart, OperatorActs
<1> QED
  BY <1>1, <1>2, <1>3, <1>4, <1>5, <1>6, <1>7, <1>8, <1>9, <1>10, <1>11, <1>12, <1>13,
     <1>14, <1>15, <1>16, <1>17, <1>18, <1>19, <1>20, <1>21, <1>22, <1>23, <1>24
     DEF AccountsNext, Archiver,
     Sweep, Lane, Faults, Commands, Dispatcher

-----------------------------------------------------------------------------
(* The theorems *)

\* The inductive invariant of an account's life: its entry, its folder and its
\* rows, through quarantine, restore, deletion and purge.
THEOREM AccountsInvariance == AccountsSpec => []AInv
<1>1. AccountsInit => AInv
  <2> SUFFICES ASSUME AccountsInit PROVE AInv
    OBVIOUS
  <2>1. Shape
    BY DEF AccountsInit, Shape, RosterShape, Fields, NoCopy, NoRow
  <2>2. Counting /\ Retention
    BY DEF AccountsInit, Counting, Retention, Trashed, NoCopy, NoRow
  <2>3. Following /\ RowsFollowFolder /\ TrashSparesQueuedWork
    BY DEF AccountsInit, Following, ArchiverMoves, RowsFollowFolder, TrashSparesQueuedWork, Unsent,
           HasRow, NoRow
  <2> QED BY <2>1, <2>2, <2>3 DEF AInv
<1>2. AInv /\ [AccountsNext]_accountVars => AInv'
  <2> SUFFICES ASSUME AInv, [AccountsNext]_accountVars PROVE AInv'
    OBVIOUS
  <2>1. CASE AccountsNext
    BY <2>1, ShapeStep, CountingStep, TrashedStep, RetentionStep, FollowingStep DEF AInv
  <2>2. CASE UNCHANGED accountVars
    <3> USE <2>2 DEF AInv, accountVars, roster, archiver, command, dispatcher, history, bounds
    <3>1. Shape'
      BY DEF Shape, RosterShape
    <3>2. Counting' /\ TrashSparesQueuedWork'
      BY DEF Counting, TrashSparesQueuedWork
    <3>3. Retention'
      BY DEF Retention, Deleting, Trashed, Clean, Unsent, HasRow, Files
    <3>4. Following' /\ RowsFollowFolder'
      BY DEF Following, RowsFollowFolder, Underway, ArchiverMoves, CommandMoves, MidMove,
             Unsent, HasRow, Files
    <3> QED BY <3>1, <3>2, <3>3, <3>4
  <2> QED BY <2>1, <2>2
<1> QED BY <1>1, <1>2, PTL DEF AccountsSpec

\* Queued uploads survive a quarantine and its restore (quarantine_user,
\* restore_user, _repoint_rows): whatever else runs, an unsent row points at its
\* file, is about to, or was strayed by a listed cause.
THEOREM QueueFollowsFolder == AccountsSpec => []RowsFollowFolder
<1>1. AInv => RowsFollowFolder
  BY DEF AInv
<1> QED BY <1>1, AccountsInvariance, PTL

\* A deletion's trash takes no queued file (process_pending_deletions): what it
\* takes undelivered had no row when the sweep counted.
THEOREM TrashTakesNoQueuedWork == AccountsSpec => []TrashSparesQueuedWork
<1>1. AInv => TrashSparesQueuedWork
  BY DEF AInv
<1> QED BY <1>1, AccountsInvariance, PTL

\* A purge drops no unsent row of a user whose entry no command overwrote unread
\* (process_pending_deletions after RETENTION_DAYS, reset_user).
THEOREM PurgeSparesQueuedWork == AccountsSpec => PurgeDropsNoWork
<1>1. AInv /\ [AccountsNext]_accountVars =>
        [\A u \in User \ overwritten : Purge(u) => \A f \in Files(u) : ~Unsent(f)]_accountVars
  BY DEF AInv, Retention, Trashed, Clean, Purge
<1> QED BY <1>1, AccountsInvariance, PTL DEF AccountsSpec, PurgeDropsNoWork
=============================================================================
