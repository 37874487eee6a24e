---------------------------- MODULE RecorderProofs ----------------------------
(***************************************************************************)
(* Proofs about the recorder, for every set of users, every number of      *)
(* segments, stops, failures and faults, and every threshold.              *)
(*                                                                         *)
(* Why: from the opening of the first capture to the end of the session    *)
(* the lock names the user, so a sweep that looked in between has nobody's *)
(* files but others' on its list (Spared); a session hands its files over  *)
(* once and under one key, and a new session begins with a segment no      *)
(* earlier one has (OneKey); and a bench that is counted towards a ban, in *)
(* memory or in the file, is counted as silent too unless the clearing of  *)
(* the tally is still due or was lost (Tallied).                           *)
(***************************************************************************)
EXTENDS Recorder, SequenceTheorems, WellFoundedInduction, TLAPS

Live == {"opening", "started", "recording", "confirming"}
Born(s) == owner[s] # NoUser

Shape ==
    /\ queue \in Seq([seg : Segment, key : Segment \cup {Alone}])
    /\ session \in Seq(Segment) /\ cap \in Segment \cup {NoSegment}
    /\ tally \in [Users -> Nat] /\ saved \in [Users -> Nat] /\ silent \in [Users -> Nat]
    /\ clear \in [Users -> {"done", "due", "lost"}]
    /\ owner \in [Segment -> Users \cup {NoUser}]
    /\ origin \in [Segment -> Segment \cup {NoSegment}]
    /\ row \in [Segment -> NoRow .. Alone] /\ swept \subseteq Segment
    /\ DOMAIN sweep = Sweepers
    /\ \A w \in Sweepers : DOMAIN sweep[w] = DOMAIN Resting /\ sweep[w].todo \subseteq Segment

\* Only segments that were recorded have an origin, are one, or are spoken of.
Births ==
    /\ \A s \in Segment : Born(s) <=> origin[s] # NoSegment
    /\ \A s \in Segment : Born(s) => Born(origin[s])
    /\ \A s \in Segment : row[s] # NoRow => Born(s)
    /\ \A i \in 1 .. Len(queue) : Born(queue[i].seg)
    /\ \A w \in Sweepers : /\ sweep[w].during \in {s \in Segment : Born(s)} \cup {NoSegment}
                           /\ \A s \in sweep[w].todo : Born(s)

Session ==
    /\ lock # NoUser => lock = current /\ pc \in Live \cup {"ended"}
    /\ pc \in Live => lock = current /\ current \in Users
    /\ pc \in {"started", "recording", "confirming", "ended"} => cap # NoSegment
    /\ cap # NoSegment => pc \in Live \cup {"ended"} /\ owner[cap] = current /\ Born(cap)
    /\ sweep["startup"].pc = "walking" => pc = "down"
    /\ \A i \in 1 .. Len(session) : cap # NoSegment /\ origin[session[i]] = origin[cap]

\* A key has been given to the segment, by the machine.
Stamped(s, k) ==
    \/ row[s] = k /\ k # NoRow /\ s \notin swept
    \/ \E i \in 1 .. Len(queue) : queue[i].seg = s /\ queue[i].key = k

OneKey ==
    /\ \A s, t \in Segment : \A k, l \in NoRow .. Alone :
          Stamped(s, k) /\ Stamped(t, l) /\ origin[s] = origin[t] => k = l
    /\ cap # NoSegment => \A s \in Segment : \A k \in NoRow .. Alone :
                             Stamped(s, k) => origin[s] # origin[cap]

Tallied ==
    \A u \in Users :
        /\ saved[u] <= silent[u] \/ clear[u] # "done"
        /\ tally[u] <= silent[u] \/ clear[u] = "lost" \/ (pc = "started" /\ current = u)

\* The sweep has looked while the session that is on was on.
LookedDuring(w) ==
    sweep[w].during # NoSegment /\ cap # NoSegment /\ pc \in Live /\ origin[cap] = sweep[w].during

Spared == \A w \in Sweepers : LookedDuring(w) =>
    current \notin sweep[w].left /\ \A s \in sweep[w].todo : owner[s] # current

RInv == Shape /\ Births /\ Session /\ OneKey /\ Tallied /\ Spared

-----------------------------------------------------------------------------
(* Lemmas *)

LEMMA LeastNumber ==
    ASSUME NEW T, T \subseteq Nat, T # {}
    PROVE  \E x \in T : \A y \in T : x <= y
<1> DEFINE Less == OpToRel(<, Nat)
<1>1. IsWellFoundedOn(Less, Nat)
  BY NatLessThanWellFounded
<1>2. \A x, y \in Nat : <<x, y>> \in Less <=> x < y
  BY DEF OpToRel
<1> HIDE DEF Less
<1>3. PICK x \in T : \A y \in T : ~ (<<y, x>> \in Less)
  BY <1>1, WFMin
<1>4. ASSUME NEW y \in T PROVE x <= y
  <2>1. x \in Nat /\ y \in Nat /\ ~ (<<y, x>> \in Less)
    BY <1>3
  <2>2. ~ (y < x)
    BY <1>2, <2>1
  <2> QED BY <2>1, <2>2
<1> QED BY <1>4

LEMMA NextIsUnborn == Unborn # {} => Next1 \in Segment /\ owner[Next1] = NoUser
<1> SUFFICES ASSUME Unborn # {} PROVE Next1 \in Unborn
  BY DEF Unborn
<1>1. Unborn \subseteq Nat
  BY RecorderAssumption DEF Unborn, Segment
<1>2. \E s \in Unborn : \A t \in Unborn : s <= t
  BY <1>1, LeastNumber
<1> QED BY <1>2 DEF Next1

LEMMA SegmentsAreNumbers ==
    /\ Segment \subseteq Nat \ {0} /\ Alone \notin Segment /\ NoSegment \notin Segment
    /\ \A s \in Segment : s \in NoRow .. Alone
    /\ {NoRow, Alone} \subseteq NoRow .. Alone /\ Alone # NoRow
BY RecorderAssumption DEF Segment, Alone, NoSegment, NoRow

-----------------------------------------------------------------------------
(* Types *)

LEMMA Queued ==
    ASSUME Shape
    PROVE  \A i \in 1 .. Len(queue) : queue[i].seg \in Segment /\ queue[i].key \in NoRow .. Alone
<1> DEFINE Job == [seg : Segment, key : Segment \cup {Alone}]
<1>1. queue \in Seq(Job)
  BY DEF Shape
<1>2. \A j \in Job : j.seg \in Segment /\ j.key \in NoRow .. Alone
  BY SegmentsAreNumbers
<1> HIDE DEF Job
<1>3. \A i \in 1 .. Len(queue) : queue[i] \in Job
  BY <1>1
<1> QED BY <1>2, <1>3

\* What is handed over: the session's segments, under its key.
LEMMA HandedOver ==
    ASSUME Shape, HandOver
    PROVE  /\ queue' \in Seq([seg : Segment, key : Segment \cup {Alone}])
           /\ Len(queue') = Len(queue) + Len(session)
           /\ \A i \in 1 .. Len(queue) : queue'[i] = queue[i]
           /\ \A i \in 1 .. Len(session) :
                 queue'[Len(queue) + i] = [seg |-> session[i], key |-> SessionKey]
<1> DEFINE Job == [seg : Segment, key : Segment \cup {Alone}]
<1>1. session \in Seq(Segment) /\ queue \in Seq(Job)
  BY DEF Shape
<1>2. SessionKey \in Segment \cup {Alone}
  BY <1>1 DEF SessionKey
<1>3. DOMAIN session = 1 .. Len(session) /\ Len(session) \in Nat
  BY <1>1
<1>4. Jobs = [i \in 1 .. Len(session) |-> [seg |-> session[i], key |-> SessionKey]]
  BY <1>3 DEF Jobs
<1>5. \A i \in 1 .. Len(session) : [seg |-> session[i], key |-> SessionKey] \in Job
  BY <1>1, <1>2
<1>6. Jobs \in Seq(Job) /\ Len(Jobs) = Len(session)
  <2> HIDE DEF Job
  <2> QED BY <1>3, <1>4, <1>5
<1>7. queue' = queue \o Jobs
  BY DEF HandOver
<1> HIDE DEF Job
<1>8. /\ queue' \in Seq(Job) /\ Len(queue') = Len(queue) + Len(Jobs)
      /\ \A i \in 1 .. Len(queue) + Len(Jobs) :
            queue'[i] = IF i <= Len(queue) THEN queue[i] ELSE Jobs[i - Len(queue)]
  BY ZenonT(60), <1>1, <1>6, <1>7, ConcatProperties
<1>9. ASSUME NEW i \in 1 .. Len(session)
      PROVE  queue'[Len(queue) + i] = [seg |-> session[i], key |-> SessionKey]
  <2>1. Len(queue) \in Nat /\ Len(session) \in Nat
    BY <1>1, <1>3
  <2>2. queue'[Len(queue) + i] = Jobs[(Len(queue) + i) - Len(queue)]
    BY <1>6, <1>8, <2>1
  <2>3. (Len(queue) + i) - Len(queue) = i
    BY <2>1
  <2> QED BY <1>4, <2>2, <2>3
<1>10. Len(queue) \in Nat
  BY <1>1
<1> QED BY <1>3, <1>6, <1>8, <1>9, <1>10 DEF Job

\* What the uploader takes is the head of the queue; the rest moves up.
LEMMA TakenUp ==
    ASSUME Shape, EnqueueJob
    PROVE  /\ queue' \in Seq([seg : Segment, key : Segment \cup {Alone}])
           /\ Head(queue) = queue[1] /\ Len(queue) \in Nat \ {0} /\ Len(queue') = Len(queue) - 1
           /\ \A i \in 1 .. Len(queue') : queue'[i] = queue[i + 1]
<1> DEFINE Job == [seg : Segment, key : Segment \cup {Alone}]
<1>1. queue \in Seq(Job) /\ queue # <<>> /\ queue' = Tail(queue)
  BY DEF Shape, EnqueueJob
<1> HIDE DEF Job
<1>2. /\ queue' \in Seq(Job) /\ Len(queue') = Len(queue) - 1
      /\ \A i \in 1 .. Len(queue') : queue'[i] = queue[i + 1]
  BY <1>1, HeadTailProperties
<1>3. Head(queue) = queue[1] /\ Len(queue) \in Nat \ {0}
  BY <1>1
<1> QED BY <1>2, <1>3 DEF Job

\* What a capture that has ended adds to its session.
LEMMA SessionGrows ==
    ASSUME Shape, Session, NEW why, WaitReturns(why)
    PROVE  /\ session' \in Seq(Segment) /\ cap \in Segment
           /\ \A i \in 1 .. Len(session') : session'[i] = cap \/ \E j \in 1 .. Len(session) : session'[i] = session[j]
<1>1. session \in Seq(Segment) /\ cap \in Segment /\ session' \in {session, Append(session, cap)}
  BY DEF Shape, Session, WaitReturns, Snapshot
<1> QED BY <1>1

\* A save that succeeds writes what is in memory.
LEMMA Saved ==
    ASSUME Shape, NEW ok \in BOOLEAN, Save(ok), tally' \in [Users -> Nat]
    PROVE  /\ saved' \in [Users -> Nat] /\ clear' \in [Users -> {"done", "due", "lost"}]
           /\ \A u \in Users :
                 \/ saved'[u] = saved[u] /\ clear'[u] = clear[u]
                 \/ saved'[u] = tally'[u] /\ (clear'[u] = "lost" <=> clear[u] = "lost")
<1>1. saved \in [Users -> Nat] /\ clear \in [Users -> {"done", "due", "lost"}]
  BY DEF Shape
<1>2. CASE ok
  <2>1. saved' = tally' /\ clear' = [u \in Users |-> IF clear[u] = "due" THEN "done" ELSE clear[u]]
    BY <1>2 DEF Save
  <2> QED BY <1>1, <2>1
<1>3. CASE ~ ok
  <2>1. UNCHANGED <<saved, clear>>
    BY <1>3 DEF Save
  <2> QED BY <1>1, <2>1
<1> QED BY <1>2, <1>3

\* A bench: counted in memory and as silent, or a ban that is due.
LEMMA Benches ==
    ASSUME Shape, NEW u \in Users, NEW trouble, Deactivate(u, trouble)
    PROVE  /\ tally' \in [Users -> Nat] /\ silent' \in [Users -> Nat]
           /\ saved' \in [Users -> Nat] /\ clear' \in [Users -> {"done", "due", "lost"}]
           /\ silent'[u] = silent[u] + 1 /\ tally'[u] \in {0, tally[u] + 1}
           /\ \A v \in Users \ {u} : tally'[v] = tally[v] /\ silent'[v] = silent[v]
           /\ \A v \in Users :
                 \/ saved'[v] = saved[v] /\ clear'[v] = clear[v]
                 \/ saved'[v] = tally'[v] /\ (clear'[v] = "lost" <=> clear[v] = "lost")
           /\ \A v \in banned' \ banned : v = u /\ tally[u] + 1 >= BanCycles
<1>1. tally \in [Users -> Nat] /\ silent \in [Users -> Nat]
  BY DEF Shape
<1>2. silent' = [silent EXCEPT ![u] = silent[u] + 1] /\ Save(trouble # "save")
  BY DEF Deactivate
<1>3. \/ tally' = [tally EXCEPT ![u] = tally[u] + 1]
      \/ tally' = [tally EXCEPT ![u] = 0]
  BY DEF Deactivate
<1>4. \A v \in banned' \ banned : v = u /\ tally[u] + 1 >= BanCycles
  <2>1. CASE tally' = [tally EXCEPT ![u] = tally[u] + 1]
    <3>1. tally'[u] = tally[u] + 1
      BY <1>1, <2>1
    <3> QED BY <3>1 DEF Deactivate
  <2>2. CASE tally' # [tally EXCEPT ![u] = tally[u] + 1]
    BY <2>2 DEF Deactivate
  <2> QED BY <2>1, <2>2
<1>5. /\ tally' \in [Users -> Nat] /\ silent' \in [Users -> Nat]
      /\ silent'[u] = silent[u] + 1 /\ tally'[u] \in {0, tally[u] + 1}
      /\ \A v \in Users \ {u} : tally'[v] = tally[v] /\ silent'[v] = silent[v]
  BY <1>1, <1>2, <1>3
<1>6. (trouble # "save") \in BOOLEAN
  OBVIOUS
<1>7. /\ saved' \in [Users -> Nat] /\ clear' \in [Users -> {"done", "due", "lost"}]
      /\ \A v \in Users :
            \/ saved'[v] = saved[v] /\ clear'[v] = clear[v]
            \/ saved'[v] = tally'[v] /\ (clear'[v] = "lost" <=> clear[v] = "lost")
  BY <1>2, <1>5, <1>6, Saved
<1> QED BY <1>4, <1>5, <1>7

\* What an opening does to the counts.
LEMMA Standing ==
    ASSUME Shape, Session, OpenCapture
    PROVE  /\ current \in Users /\ UNCHANGED current
           /\ \/ UNCHANGED <<tally, saved, clear, silent, banned>> /\ pc' # "started"
              \/ pc' # "started" /\ \E trouble : Deactivate(current, trouble)
              \/ /\ pc' = "started" /\ UNCHANGED <<tally, saved, banned>>
                 /\ silent' = [silent EXCEPT ![current] = 0]
                 /\ clear' = [clear EXCEPT ![current] = IF saved[current] = 0 THEN "done" ELSE "due"]
<1>1. current \in Users /\ UNCHANGED current
  BY DEF Session, Live, OpenCapture
<1>2. ASSUME NEW trouble, NoteStartFailure(current, trouble)
      PROVE  Deactivate(current, trouble) \/ UNCHANGED <<tally, saved, clear, silent, banned>>
  BY <1>2 DEF NoteStartFailure
<1>3. GiveUp => pc' # "started"
  BY DEF GiveUp
<1> QED
  BY <1>1, <1>2, <1>3 DEF OpenCapture, standing

LEMMA StandingTypes ==
    ASSUME Shape, Session, OpenCapture
    PROVE  /\ tally' \in [Users -> Nat] /\ saved' \in [Users -> Nat] /\ silent' \in [Users -> Nat]
           /\ clear' \in [Users -> {"done", "due", "lost"}]
<1>1. CASE UNCHANGED <<tally, saved, clear, silent, banned>>
  BY <1>1 DEF Shape
<1>2. ASSUME NEW trouble, Deactivate(current, trouble), current \in Users
      PROVE  /\ tally' \in [Users -> Nat] /\ saved' \in [Users -> Nat] /\ silent' \in [Users -> Nat]
             /\ clear' \in [Users -> {"done", "due", "lost"}]
  BY <1>2, Benches
<1>3. CASE /\ UNCHANGED <<tally, saved, banned>>
           /\ silent' = [silent EXCEPT ![current] = 0]
           /\ clear' = [clear EXCEPT ![current] = IF saved[current] = 0 THEN "done" ELSE "due"]
  BY <1>3 DEF Shape
<1> QED BY <1>1, <1>2, <1>3, Standing

\* What an opening does to the segments.
LEMMA Opens ==
    ASSUME Shape, Session, OpenCapture
    PROVE  /\ current \in Users
           /\ \/ /\ UNCHANGED <<cap, owner, origin>>
                 /\ IF cap = NoSegment THEN pc' = "listening" /\ lock' = NoUser
                    ELSE pc' = "ended" /\ UNCHANGED lock
              \/ /\ cap' \in Segment /\ ~Born(cap') /\ pc' = "started"
                 /\ owner' = [owner EXCEPT ![cap'] = current]
                 /\ origin' = [origin EXCEPT ![cap'] = IF cap = NoSegment THEN cap' ELSE origin[cap]]
                 /\ UNCHANGED lock
           /\ UNCHANGED <<current, session, queue, row, swept, sweep>>
<1>1. current \in Users
  BY DEF Session, Live, OpenCapture
<1> QED
  BY <1>1, NextIsUnborn DEF OpenCapture, GiveUp, Born, machine, standing, files, table

\* What the rest of an opening does.
LEMMA Forgiven ==
    ASSUME Shape, Session, Forgive
    PROVE  /\ current \in Users
           /\ tally' = [tally EXCEPT ![current] = 0] /\ tally' \in [Users -> Nat]
           /\ saved' \in [Users -> Nat] /\ clear' \in [Users -> {"done", "due", "lost"}]
           /\ \A v \in Users :
                 \/ saved'[v] = saved[v] /\ clear'[v] = clear[v]
                 \/ saved'[v] = tally'[v] /\ (clear'[v] = "lost" <=> clear[v] = "lost")
<1>1. current \in Users /\ tally \in [Users -> Nat]
  BY DEF Session, Live, Forgive, Shape
<1>2. tally' = [tally EXCEPT ![current] = 0]
  BY DEF Forgive
<1>3. tally' \in [Users -> Nat]
  BY <1>1, <1>2
<1>4. CASE UNCHANGED <<saved, clear>>
  BY <1>1, <1>2, <1>3, <1>4 DEF Shape
<1>5. ASSUME NEW ok \in BOOLEAN, Save(ok)
      PROVE  /\ saved' \in [Users -> Nat] /\ clear' \in [Users -> {"done", "due", "lost"}]
             /\ \A v \in Users :
                   \/ saved'[v] = saved[v] /\ clear'[v] = clear[v]
                   \/ saved'[v] = tally'[v] /\ (clear'[v] = "lost" <=> clear[v] = "lost")
  BY <1>3, <1>5, Saved
<1> QED BY <1>1, <1>2, <1>3, <1>4, <1>5 DEF Forgive

LEMMA ShapeStep ==
    ASSUME Shape, Births, Session, Next
    PROVE  Shape'
<1> USE SegmentsAreNumbers DEF Shape, Resting, machine, standing, files, table
<1>1. ASSUME NEW u \in Users, CooldownElapses(u) PROVE Shape'
  BY <1>1 DEF CooldownElapses
<1>2. ASSUME NEW s \in Segment, Grow(s) PROVE Shape'
  BY <1>2 DEF Grow
<1>3. ASSUME NEW s \in Segment, Exit(s) PROVE Shape'
  BY <1>3 DEF Exit
<1>4. CASE PollForLive
  BY <1>4 DEF PollForLive, StartRecording, Candidates
<1>5. CASE ScanPriorityListOnce
  <2>1. ASSUME NEW u \in Candidates, StartRecording(u) PROVE Shape'
    BY <1>5, <2>1 DEF ScanPriorityListOnce, StartRecording, Candidates
  <2>2. CASE pc' = "listening" /\ UNCHANGED <<current, stop, cap, session, streak, lock,
                 queue, standing, files, table, sweep, budget>>
    BY <1>5, <2>2 DEF ScanPriorityListOnce
  <2> QED BY <1>5, <2>1, <2>2 DEF ScanPriorityListOnce
<1>6. CASE OpenCapture
  <2>1. /\ tally' \in [Users -> Nat] /\ saved' \in [Users -> Nat] /\ silent' \in [Users -> Nat]
        /\ clear' \in [Users -> {"done", "due", "lost"}]
    BY <1>6, StandingTypes
  <2>3. CASE UNCHANGED <<cap, owner, origin>>
    BY <1>6, <2>1, <2>3, Opens
  <2>4. CASE ~ UNCHANGED <<cap, owner, origin>>
    <3>1. origin' \in [Segment -> Segment \cup {NoSegment}] /\ owner' \in [Segment -> Users \cup {NoUser}]
      <4>1. /\ current \in Users /\ cap' \in Segment /\ owner' = [owner EXCEPT ![cap'] = current]
            /\ origin' = [origin EXCEPT ![cap'] = IF cap = NoSegment THEN cap' ELSE origin[cap]]
        BY <1>6, <2>4, Opens
      <4>2. (IF cap = NoSegment THEN cap' ELSE origin[cap]) \in Segment \cup {NoSegment}
        BY <4>1
      <4> QED BY <4>1, <4>2
    <3> QED BY <1>6, <2>1, <2>4, <3>1, Opens
  <2> QED BY <2>3, <2>4
<1>7. ASSUME NEW why \in {Finished, "stop", "dead", "stalled"}, WaitReturns(why) PROVE Shape'
  BY <1>7, SessionGrows DEF WaitReturns
<1>8. CASE Reconnect
  BY <1>8 DEF Reconnect
<1>9. CASE ReleaseLock
  BY <1>9 DEF ReleaseLock
<1>10. CASE HandOver
  <2>1. queue' \in Seq([seg : Segment, key : Segment \cup {Alone}])
    BY <1>10, HandedOver
  <2> QED BY <1>10, <2>1 DEF HandOver
<1>11. CASE Leave
  BY <1>11 DEF Leave
<1>12. CASE Stopped
  BY <1>12 DEF Stopped, Reset
<1>13. CASE EnqueueJob
  <2>1. Head(queue).key \in NoRow .. Alone
    <3>1. 1 \in 1 .. Len(queue) /\ Head(queue) = queue[1]
      BY <1>13, TakenUp
    <3> QED BY <3>1, Queued
  <2>2. row' \in [Segment -> NoRow .. Alone]
    BY <1>13, <2>1 DEF EnqueueJob
  <2> QED BY <1>13, <2>2, TakenUp DEF EnqueueJob
<1>14. CASE RequestStop
  BY <1>14 DEF RequestStop
<1>15. CASE TickFails
  BY <1>15 DEF TickFails
<1>16. CASE Killed
  BY <1>16 DEF Killed, Reset
<1>17. ASSUME NEW w \in Sweepers, SweepLooks(w) PROVE Shape'
  BY <1>17 DEF SweepLooks
<1>18. ASSUME NEW w \in Sweepers, SweepEnds(w) PROVE Shape'
  BY <1>18 DEF SweepEnds
<1>19. ASSUME NEW w \in Sweepers, NEW u \in Users, SweepLists(w, u) PROVE Shape'
  BY <1>19 DEF SweepLists, Found
<1>20. ASSUME NEW w \in Sweepers, NEW s \in Segment, SweepTakes(w, s) PROVE Shape'
  <2>0. row' \in {row, [row EXCEPT ![s] = Alone]} /\ swept' \in {swept, swept \cup {s}}
    BY <1>20 DEF SweepTakes
  <2>1. row' \in [Segment -> NoRow .. Alone] /\ swept' \subseteq Segment
    BY <2>0
  <2>2. sweep' = [sweep EXCEPT ![w].todo = sweep[w].todo \ {s}]
    BY <1>20 DEF SweepTakes
  <2>3. /\ DOMAIN sweep' = Sweepers
        /\ \A v \in Sweepers : DOMAIN sweep'[v] = DOMAIN Resting /\ sweep'[v].todo \subseteq Segment
    BY <2>2
  <2> QED BY <1>20, <2>1, <2>3 DEF SweepTakes
<1>21. CASE Forgive
  BY <1>21, Forgiven DEF Forgive
<1>22. CASE UploaderEnds
  BY <1>22 DEF UploaderEnds
<1>23. CASE Unreadable
  BY <1>23 DEF Unreadable
<1> QED
  BY <1>1, <1>2, <1>3, <1>4, <1>5, <1>6, <1>7, <1>8, <1>9, <1>10, <1>11, <1>12, <1>13,
     <1>14, <1>15, <1>16, <1>17, <1>18, <1>19, <1>20, <1>21, <1>22, <1>23 DEF Next,
     Machine, Sweep

LEMMA BirthsStep ==
    ASSUME Shape, Births, Session, Next
    PROVE  Births'
<1> USE SegmentsAreNumbers, RecorderAssumption DEF Births, Born, Resting, machine, standing,
   files, table
<1>1. ASSUME NEW u \in Users, CooldownElapses(u) PROVE Births'
  BY <1>1 DEF CooldownElapses
<1>2. ASSUME NEW s \in Segment, Grow(s) PROVE Births'
  BY <1>2 DEF Grow
<1>3. ASSUME NEW s \in Segment, Exit(s) PROVE Births'
  BY <1>3 DEF Exit
<1>4. CASE PollForLive
  BY <1>4 DEF PollForLive, StartRecording, Candidates
<1>5. CASE ScanPriorityListOnce
  <2>1. ASSUME NEW u \in Candidates, StartRecording(u) PROVE Births'
    BY <1>5, <2>1 DEF ScanPriorityListOnce, StartRecording, Candidates
  <2>2. CASE pc' = "listening" /\ UNCHANGED <<current, stop, cap, session, streak, lock,
                 queue, standing, files, table, sweep, budget>>
    BY <1>5, <2>2 DEF ScanPriorityListOnce
  <2> QED BY <1>5, <2>1, <2>2 DEF ScanPriorityListOnce
<1>6. CASE OpenCapture
  <2>1. CASE UNCHANGED <<cap, owner, origin>>
    BY <1>6, <2>1, Opens
  <2>2. CASE ~ UNCHANGED <<cap, owner, origin>>
    <3>1. /\ current # NoUser /\ cap' \in Segment /\ ~ Born(cap')
          /\ owner' = [owner EXCEPT ![cap'] = current]
          /\ origin' = [origin EXCEPT ![cap'] = IF cap = NoSegment THEN cap' ELSE origin[cap]]
          /\ UNCHANGED <<queue, row, swept, sweep>>
      BY <1>6, <2>2, Opens
    <3>2. /\ owner \in [Segment -> Users \cup {NoUser}]
          /\ origin \in [Segment -> Segment \cup {NoSegment}]
          /\ cap # NoSegment => cap \in Segment /\ Born(cap)
      BY DEF Shape, Session
    <3>3. \A s \in Segment : Born(s)' <=> (Born(s) \/ s = cap')
      BY <3>1, <3>2
    <3>4. \A s \in Segment : origin'[s] = IF s # cap' THEN origin[s]
                                           ELSE IF cap = NoSegment THEN cap' ELSE origin[cap]
      BY <3>1, <3>2
    <3>5. \A s \in Segment : Born(s)' <=> origin'[s] # NoSegment
      BY <3>1, <3>2, <3>3, <3>4
    <3>6. \A s \in Segment : Born(s)' => owner'[origin'[s]] # NoUser
      <4>1. ASSUME NEW s \in Segment, Born(s), s # cap' PROVE owner'[origin'[s]] # NoUser
        <5>1. origin'[s] = origin[s] /\ origin[s] \in Segment /\ Born(origin[s])
          BY <3>2, <3>4, <4>1
        <5> QED BY <3>3, <5>1
      <4>2. owner'[origin'[cap']] # NoUser
        <5>1. CASE cap = NoSegment
          BY <3>1, <3>2, <3>4, <5>1
        <5>2. CASE cap # NoSegment
          <6>1. origin'[cap'] = origin[cap] /\ origin[cap] \in Segment /\ Born(origin[cap])
            BY <3>1, <3>2, <3>4, <5>2
          <6> QED BY <3>3, <6>1
        <5> QED BY <5>1, <5>2
      <4> QED BY <3>3, <4>1, <4>2
    <3>7. \A i \in 1 .. Len(queue) : queue[i].seg \in Segment
      BY Queued
    <3>8. \A w \in Sweepers : sweep[w].todo \subseteq Segment
      BY DEF Shape
    <3> QED BY <3>8, <3>1, <3>3, <3>5, <3>6, <3>7
  <2> QED BY <2>1, <2>2
<1>7. ASSUME NEW why \in {Finished, "stop", "dead", "stalled"}, WaitReturns(why) PROVE Births'
  BY <1>7 DEF WaitReturns
<1>8. CASE Reconnect
  BY <1>8 DEF Reconnect
<1>9. CASE ReleaseLock
  BY <1>9 DEF ReleaseLock
<1>10. CASE HandOver
  <2>1. ASSUME NEW i \in 1 .. Len(session) PROVE Born(session[i])
    <3>1. session[i] \in Segment /\ cap \in Segment
      BY <2>1 DEF Shape, Session
    <3>2. origin[session[i]] = origin[cap] /\ origin[cap] # NoSegment
      BY <2>1, <3>1 DEF Session
    <3> QED BY <3>1, <3>2
  <2>2. ASSUME NEW i \in 1 .. Len(queue') PROVE Born(queue'[i].seg)
    <3>1. Len(queue) \in Nat /\ Len(session) \in Nat
      BY DEF Shape
    <3>2. CASE i \in 1 .. Len(queue)
      BY <1>10, <3>2, HandedOver
    <3>3. CASE i \notin 1 .. Len(queue)
      <4>1. i - Len(queue) \in 1 .. Len(session) /\ Len(queue) + (i - Len(queue)) = i
        BY <1>10, <3>1, <3>3, HandedOver
      <4>2. queue'[Len(queue) + (i - Len(queue))] = [seg |-> session[i - Len(queue)], key |->
      SessionKey]
        BY <1>10, <4>1, HandedOver
      <4>3. Born(session[i - Len(queue)])
        BY <2>1, <4>1
      <4>4. queue'[i] = [seg |-> session[i - Len(queue)], key |-> SessionKey]
        BY <4>1, <4>2
      <4> HIDE DEF Born
      <4> QED BY <4>3, <4>4
    <3> QED BY <3>2, <3>3
  <2> QED BY <1>10, <2>2 DEF HandOver
<1>11. CASE Leave
  BY <1>11 DEF Leave
<1>12. CASE Stopped
  BY <1>12 DEF Stopped, Reset
<1>13. CASE EnqueueJob
  <2>1. ASSUME NEW i \in 1 .. Len(queue') PROVE Born(queue'[i].seg)
    <3>1. Len(queue) \in Nat /\ Len(queue') = Len(queue) - 1 /\ queue'[i] = queue[i + 1]
      BY <1>13, <2>1, TakenUp
    <3>2. i + 1 \in 1 .. Len(queue)
      BY <2>1, <3>1
    <3> QED BY <3>1, <3>2
  <2>2. Head(queue).seg \in Segment /\ Born(Head(queue).seg)
    <3>1. 1 \in 1 .. Len(queue) /\ Head(queue) = queue[1]
      BY <1>13, TakenUp
    <3> QED BY <3>1, Queued
  <2>3. \A s \in Segment : row'[s] # NoRow => Born(s)
    BY <1>13, <2>2 DEF EnqueueJob, Shape
  <2> QED BY <1>13, <2>1, <2>3 DEF EnqueueJob
<1>14. CASE RequestStop
  BY <1>14 DEF RequestStop
<1>15. CASE TickFails
  BY <1>15 DEF TickFails
<1>16. CASE Killed
  BY <1>16 DEF Killed, Reset, Shape
<1>17. ASSUME NEW w \in Sweepers, SweepLooks(w) PROVE Births'
  <2>1. cap # NoSegment => Born(origin[cap]) /\ origin[cap] \in Segment
    BY DEF Session, Shape
  <2>2. sweep' = [sweep EXCEPT ![w] = [pc |-> "walking", left |-> Users \ {lock}, todo |-> {},
                     during |-> IF cap = NoSegment THEN NoSegment ELSE origin[cap]]]
    BY <1>17 DEF SweepLooks
  <2> QED BY <1>17, <2>1, <2>2 DEF SweepLooks, Shape
<1>18. ASSUME NEW w \in Sweepers, SweepEnds(w) PROVE Births'
  BY <1>18 DEF SweepEnds, Shape
<1>19. ASSUME NEW w \in Sweepers, NEW u \in Users, SweepLists(w, u) PROVE Births'
  <2>1. \A s \in Found(u) : s \in Segment /\ Born(s)
    BY <1>19 DEF Found
  <2>2. \A v \in Sweepers : /\ sweep'[v].during = sweep[v].during
                            /\ sweep'[v].todo \subseteq sweep[v].todo \cup Found(u)
    BY <1>19 DEF SweepLists, Shape
  <2> QED BY <1>19, <2>1, <2>2 DEF SweepLists
<1>20. ASSUME NEW w \in Sweepers, NEW s \in Segment, SweepTakes(w, s) PROVE Births'
  <2>1. Born(s) /\ s \in Segment
    BY <1>20 DEF SweepTakes, Shape
  <2>2. \A t \in Segment : row'[t] # NoRow => Born(t)
    BY <1>20, <2>1 DEF SweepTakes, Shape
  <2>3. \A v \in Sweepers : sweep'[v].during = sweep[v].during /\ sweep'[v].todo \subseteq sweep[v].todo
    BY <1>20 DEF SweepTakes, Shape
  <2> QED BY <1>20, <2>2, <2>3 DEF SweepTakes
<1>21. CASE Forgive
  BY <1>21 DEF Forgive
<1>22. CASE UploaderEnds
  BY <1>22 DEF UploaderEnds
<1>23. CASE Unreadable
  BY <1>23 DEF Unreadable
<1> QED
  BY <1>1, <1>2, <1>3, <1>4, <1>5, <1>6, <1>7, <1>8, <1>9, <1>10, <1>11, <1>12, <1>13,
     <1>14, <1>15, <1>16, <1>17, <1>18, <1>19, <1>20, <1>21, <1>22, <1>23 DEF Next,
     Machine, Sweep

LEMMA SessionStep ==
    ASSUME Shape, Births, Session, Next
    PROVE  Session'
<1> USE SegmentsAreNumbers, RecorderAssumption DEF Session, Live, Born, Resting, machine,
   standing, files, table
<1>1. ASSUME NEW u \in Users, CooldownElapses(u) PROVE Session'
  BY <1>1 DEF CooldownElapses
<1>2. ASSUME NEW s \in Segment, Grow(s) PROVE Session'
  BY <1>2 DEF Grow
<1>3. ASSUME NEW s \in Segment, Exit(s) PROVE Session'
  BY <1>3 DEF Exit
<1>4. CASE PollForLive
  BY <1>4 DEF PollForLive, StartRecording, Candidates
<1>5. CASE ScanPriorityListOnce
  <2>1. ASSUME NEW u \in Candidates, StartRecording(u) PROVE Session'
    BY <1>5, <2>1 DEF ScanPriorityListOnce, StartRecording, Candidates
  <2>2. CASE pc' = "listening" /\ UNCHANGED <<current, stop, cap, session, streak, lock,
                 queue, standing, files, table, sweep, budget>>
    BY <1>5, <2>2 DEF ScanPriorityListOnce
  <2> QED BY <1>5, <2>1, <2>2 DEF ScanPriorityListOnce
<1>6. CASE OpenCapture
  <2>1. CASE UNCHANGED <<cap, owner, origin>>
    <3>1. CASE cap = NoSegment
      <4>1. Len(session) \in Nat /\ 1 .. Len(session) = {}
        BY <3>1 DEF Shape
      <4> QED BY <1>6, <2>1, <3>1, <4>1, Opens DEF OpenCapture
    <3>2. CASE cap # NoSegment
      BY <1>6, <2>1, <3>2, Opens DEF OpenCapture
    <3> QED BY <3>1, <3>2
  <2>2. CASE ~ UNCHANGED <<cap, owner, origin>>
    <3>1. /\ current \in Users /\ current # NoUser /\ cap' \in Segment /\ owner[cap'] = NoUser
          /\ owner' = [owner EXCEPT ![cap'] = current]
          /\ origin' = [origin EXCEPT ![cap'] = IF cap = NoSegment THEN cap' ELSE origin[cap]]
          /\ pc' = "started" /\ UNCHANGED <<queue, row, swept, sweep, current, session, lock>>
      BY <1>6, <2>2, Opens
    <3>2. owner'[cap'] = current
      BY <3>1 DEF Shape
    <3>3. ASSUME NEW i \in 1 .. Len(session) PROVE origin'[session[i]] = origin'[cap']
      <4>0. cap # NoSegment /\ origin[session[i]] = origin[cap]
        BY <3>3
      <4>3. session \in Seq(Segment) /\ cap \in Segment \cup {NoSegment}
        BY DEF Shape
      <4>1. session[i] \in Segment /\ cap \in Segment /\ origin[session[i]] = origin[cap]
        BY <3>3, <4>0, <4>3
      <4>2. owner[session[i]] # NoUser
        BY <4>1 DEF Births
      <4> QED BY <3>1, <4>1, <4>2 DEF Shape
    <3> QED BY <1>6, <3>1, <3>2, <3>3 DEF OpenCapture
  <2> QED BY <2>1, <2>2
<1>7. ASSUME NEW why \in {Finished, "stop", "dead", "stalled"}, WaitReturns(why) PROVE Session'
  <2>1. ASSUME NEW i \in 1 .. Len(session') PROVE origin[session'[i]] = origin[cap]
    <3>1. session'[i] = cap \/ \E j \in 1 .. Len(session) : session'[i] = session[j]
      BY <1>7, <2>1, SessionGrows
    <3> QED BY <3>1 DEF Session
  <2> QED BY <1>7, <2>1, SessionGrows DEF WaitReturns
<1>8. CASE Reconnect
  BY <1>8 DEF Reconnect
<1>9. CASE ReleaseLock
  BY <1>9 DEF ReleaseLock
<1>10. CASE HandOver
  BY <1>10 DEF HandOver
<1>11. CASE Leave
  BY <1>11 DEF Leave
<1>12. CASE Stopped
  BY <1>12 DEF Stopped, Reset, Shape
<1>13. CASE EnqueueJob
  BY <1>13 DEF EnqueueJob
<1>14. CASE RequestStop
  BY <1>14 DEF RequestStop
<1>15. CASE TickFails
  BY <1>15 DEF TickFails
<1>16. CASE Killed
  BY <1>16 DEF Killed, Reset, Shape
<1>17. ASSUME NEW w \in Sweepers, SweepLooks(w) PROVE Session'
  BY <1>17 DEF SweepLooks, Shape
<1>18. ASSUME NEW w \in Sweepers, SweepEnds(w) PROVE Session'
  <2>1. \/ UNCHANGED pc
        \/ pc = "down" /\ pc' = "listening" /\ w = "startup"
    BY <1>18 DEF SweepEnds
  <2>2. sweep' = [sweep EXCEPT ![w] = Resting] /\ DOMAIN sweep = Sweepers /\ Resting.pc = "resting"
    BY <1>18 DEF SweepEnds, Shape
  <2>3. sweep'["startup"].pc = "walking" => w # "startup" /\ sweep["startup"].pc = "walking"
    BY <2>2 DEF Sweepers
  <2>4. UNCHANGED <<lock, current, cap, owner, origin, session>>
    BY <1>18 DEF SweepEnds
  <2> QED BY <2>1, <2>3, <2>4
<1>19. ASSUME NEW w \in Sweepers, NEW u \in Users, SweepLists(w, u) PROVE Session'
  <2>1. sweep'["startup"].pc = sweep["startup"].pc
    BY <1>19 DEF SweepLists, Shape, Sweepers
  <2> QED BY <1>19, <2>1 DEF SweepLists
<1>20. ASSUME NEW w \in Sweepers, NEW s \in Segment, SweepTakes(w, s) PROVE Session'
  BY <1>20 DEF SweepTakes, Shape
<1>21. CASE Forgive
  BY <1>21 DEF Forgive
<1>22. CASE UploaderEnds
  BY <1>22 DEF UploaderEnds
<1>23. CASE Unreadable
  BY <1>23 DEF Unreadable
<1> QED
  BY <1>1, <1>2, <1>3, <1>4, <1>5, <1>6, <1>7, <1>8, <1>9, <1>10, <1>11, <1>12, <1>13,
     <1>14, <1>15, <1>16, <1>17, <1>18, <1>19, <1>20, <1>21, <1>22, <1>23 DEF Next,
     Machine, Sweep

-----------------------------------------------------------------------------
(* One session, one key *)

LEMMA OneKeyStep ==
    ASSUME Shape, Births, Session, OneKey, Next
    PROVE  OneKey'
<1> DEFINE Keys == NoRow .. Alone
<1> USE SegmentsAreNumbers DEF machine, standing, files, table
<1>1. CASE OpenCapture
  <2>1. UNCHANGED <<queue, row, swept>>
    BY <1>1, Opens
  <2>2. \A s \in Segment : \A k \in Keys : Stamped(s, k)' <=> Stamped(s, k)
    BY <2>1 DEF Stamped
  <2>3. CASE UNCHANGED <<cap, owner, origin>>
    BY <2>2, <2>3 DEF OneKey
  <2>4. CASE ~ UNCHANGED <<cap, owner, origin>>
    <3>1. /\ cap' \in Segment /\ ~ Born(cap')
          /\ origin' = [origin EXCEPT ![cap'] = IF cap = NoSegment THEN cap' ELSE origin[cap]]
      BY <1>1, <2>4, Opens
    <3>2. ASSUME NEW s \in Segment, NEW k \in Keys, Stamped(s, k) PROVE Born(s) /\ Born(origin[s])
      <4>1. Born(s)
        BY <3>2 DEF Births, Stamped
      <4> QED BY <4>1 DEF Births
    <3>3. ASSUME NEW s \in Segment, NEW k \in Keys, Stamped(s, k) PROVE origin'[s] = origin[s]
      BY <3>1, <3>2, <3>3 DEF Shape
    <3>4. ASSUME NEW s \in Segment, NEW k \in Keys, Stamped(s, k) PROVE origin[s] # origin'[cap']
      <4>1. CASE cap = NoSegment
        <5>1. origin'[cap'] = cap'
          BY <3>1, <4>1 DEF Shape
        <5> QED BY <3>1, <3>2, <3>4, <5>1
      <4>2. CASE cap # NoSegment
        <5>1. origin'[cap'] = origin[cap]
          BY <3>1, <4>2 DEF Shape
        <5> QED BY <3>4, <4>2, <5>1 DEF OneKey
      <4> QED BY <4>1, <4>2
    <3> HIDE DEF Born
    <3>5. \A s, t \in Segment : \A k, l \in Keys :
             Stamped(s, k)' /\ Stamped(t, l)' /\ origin'[s] = origin'[t] => k = l
      BY <2>2, <3>3 DEF OneKey
    <3>6. \A s \in Segment : \A k \in Keys : Stamped(s, k)' => origin'[s] # origin'[cap']
      BY <2>2, <3>3, <3>4
    <3> QED BY <3>5, <3>6 DEF OneKey
  <2> QED BY <2>3, <2>4
<1>2. CASE HandOver
  <2>1. UNCHANGED <<origin, row, swept>> /\ cap' = NoSegment
    BY <1>2 DEF HandOver
  <2>2. ASSUME NEW s \in Segment, NEW k \in Keys, Stamped(s, k)', ~ Stamped(s, k)
        PROVE  k = SessionKey /\ cap # NoSegment /\ origin[s] = origin[cap]
    <3>1. PICK i \in 1 .. Len(queue') : queue'[i].seg = s /\ queue'[i].key = k
      BY <2>1, <2>2 DEF Stamped
    <3>2. Len(queue) \in Nat /\ Len(session) \in Nat
      BY DEF Shape
    <3>3. i \notin 1 .. Len(queue)
      BY <1>2, <2>2, <3>1, HandedOver DEF Stamped
    <3>4. i - Len(queue) \in 1 .. Len(session) /\ Len(queue) + (i - Len(queue)) = i
      BY <1>2, <3>2, <3>3, HandedOver
    <3>5. queue'[i] = [seg |-> session[i - Len(queue)], key |-> SessionKey]
      BY <1>2, <3>4, HandedOver
    <3> QED BY <3>1, <3>4, <3>5 DEF Session
  <2> QED BY <2>1, <2>2 DEF OneKey
<1>3. CASE EnqueueJob
  <2>1. ASSUME NEW s \in Segment, NEW k \in Keys, Stamped(s, k)' PROVE Stamped(s, k)
    <3>1. CASE \E i \in 1 .. Len(queue') : queue'[i].seg = s /\ queue'[i].key = k
      <4>1. PICK i \in 1 .. Len(queue') : queue'[i].seg = s /\ queue'[i].key = k
        BY <3>1
      <4>2. i + 1 \in 1 .. Len(queue) /\ queue'[i] = queue[i + 1]
        BY <1>3, TakenUp
      <4> QED BY <4>1, <4>2 DEF Stamped
    <3>2. CASE row'[s] = k /\ k # NoRow /\ s \notin swept /\ row[s] # k
      <4>1. Head(queue).seg = s /\ Head(queue).key = k
        BY <1>3, <3>2 DEF EnqueueJob, Shape
      <4>2. 1 \in 1 .. Len(queue) /\ queue[1].seg = s /\ queue[1].key = k
        BY <1>3, <4>1, TakenUp
      <4> QED BY <4>2 DEF Stamped
    <3>3. UNCHANGED swept
      BY <1>3 DEF EnqueueJob
    <3> QED BY <2>1, <3>1, <3>2, <3>3 DEF Stamped
  <2>2. UNCHANGED <<origin, cap>>
    BY <1>3 DEF EnqueueJob
  <2> QED BY <2>1, <2>2 DEF OneKey
<1>4. ASSUME NEW w \in Sweepers, NEW s \in Segment, SweepTakes(w, s) PROVE OneKey'
  <2>1. ASSUME NEW t \in Segment, NEW k \in Keys, Stamped(t, k)' PROVE Stamped(t, k)
    BY <1>4, <2>1 DEF SweepTakes, Stamped, Shape
  <2>2. UNCHANGED <<origin, cap>>
    BY <1>4 DEF SweepTakes
  <2> QED BY <2>1, <2>2 DEF OneKey
<1>5. CASE
       \/ PollForLive \/ ScanPriorityListOnce \/ Reconnect \/ ReleaseLock \/ Leave
       \/ Stopped \/ RequestStop \/ TickFails \/ Killed
       \/ Forgive \/ UploaderEnds \/ Unreadable
       \/ \E u \in Users : CooldownElapses(u)
       \/ \E s \in Segment : Grow(s) \/ Exit(s)
       \/ \E why \in {Finished, "stop", "dead", "stalled"} : WaitReturns(why)
       \/ \E w \in Sweepers : SweepLooks(w) \/ SweepEnds(w)
       \/ \E w \in Sweepers, u \in Users : SweepLists(w, u)
  <2>1. UNCHANGED <<origin, row, swept>> /\ cap' \in {cap, NoSegment} /\ queue' \in {queue, <<>>}
    BY <1>5 DEF CooldownElapses, Grow, Exit, PollForLive, StartRecording, Candidates,
       ScanPriorityListOnce, WaitReturns, Snapshot, Reconnect, ReleaseLock, Leave, Stopped,
       Reset, RequestStop, TickFails, Killed, Forgive, UploaderEnds, Unreadable, SweepLooks,
       SweepEnds, SweepLists
  <2>2. ASSUME NEW s \in Segment, NEW k \in Keys, Stamped(s, k)' PROVE Stamped(s, k)
    BY <2>1, <2>2 DEF Stamped
  <2> QED BY <2>1, <2>2 DEF OneKey
<1> QED
  BY <1>1, <1>2, <1>3, <1>4, <1>5 DEF Next, Machine, Sweep

-----------------------------------------------------------------------------
(* Counts and sweeps *)

LEMMA TalliedStep ==
    ASSUME Shape, Session, Tallied, Next
    PROVE  Tallied'
<1> USE DEF machine, standing, files, table
<1>0. \A u \in Users : /\ tally[u] \in Nat /\ saved[u] \in Nat /\ silent[u] \in Nat
                       /\ clear[u] \in {"done", "due", "lost"}
  BY DEF Shape
<1>1. CASE OpenCapture
  <2>1. current \in Users /\ UNCHANGED current /\ pc # "started" /\ pc \in Live
    BY <1>1, Standing DEF OpenCapture, Live
  <2>2. CASE UNCHANGED <<tally, saved, clear, silent, banned>> /\ pc' # "started"
    BY <2>1, <2>2 DEF Tallied
  <2>3. ASSUME NEW trouble, Deactivate(current, trouble), pc' # "started" PROVE Tallied'
    <3>1. /\ silent'[current] = silent[current] + 1 /\ tally'[current] \in {0, tally[current] + 1}
          /\ \A v \in Users \ {current} : tally'[v] = tally[v] /\ silent'[v] = silent[v]
          /\ \A v \in Users :
                \/ saved'[v] = saved[v] /\ clear'[v] = clear[v]
                \/ saved'[v] = tally'[v] /\ (clear'[v] = "lost" <=> clear[v] = "lost")
      BY <2>1, <2>3, Benches
    <3>2. ASSUME NEW v \in Users
          PROVE  /\ tally'[v] <= silent'[v] \/ clear[v] = "lost"
                 /\ saved[v] <= silent'[v] \/ clear[v] # "done"
      <4>1. CASE v = current
        BY <1>0, <2>1, <3>1, <4>1 DEF Tallied
      <4>2. CASE v # current
        BY <2>1, <3>1, <4>2 DEF Tallied
      <4> QED BY <4>1, <4>2
    <3> QED BY <3>1, <3>2 DEF Tallied
  <2>4. CASE /\ pc' = "started" /\ UNCHANGED <<tally, saved, banned>>
             /\ silent' = [silent EXCEPT ![current] = 0]
             /\ clear' = [clear EXCEPT ![current] = IF saved[current] = 0 THEN "done" ELSE "due"]
    <3>1. ASSUME NEW v \in Users, v # current PROVE silent'[v] = silent[v] /\ clear'[v] = clear[v]
      BY <2>4, <3>1 DEF Shape
    <3>2. silent'[current] = 0 /\ clear'[current] = IF saved[current] = 0 THEN "done" ELSE "due"
      BY <2>1, <2>4 DEF Shape
    <3> QED BY <2>1, <2>4, <3>1, <3>2 DEF Tallied
  <2> QED BY <1>1, <2>2, <2>3, <2>4, Standing
<1>2. CASE Forgive
  <2>1. /\ current \in Users /\ UNCHANGED <<silent, current>> /\ pc' = "recording"
        /\ tally' = [tally EXCEPT ![current] = 0]
        /\ \A v \in Users :
              \/ saved'[v] = saved[v] /\ clear'[v] = clear[v]
              \/ saved'[v] = tally'[v] /\ (clear'[v] = "lost" <=> clear[v] = "lost")
    BY <1>2, Forgiven DEF Forgive
  <2>2. ASSUME NEW v \in Users PROVE tally'[v] <= silent[v] \/ clear[v] = "lost"
    <3>1. CASE v = current
      <4>1. tally'[v] = 0
        BY <2>1, <3>1 DEF Shape
      <4> QED BY <1>0, <4>1
    <3>2. CASE v # current
      <4>1. tally'[v] = tally[v]
        BY <2>1, <3>2 DEF Shape
      <4> QED BY <3>2, <4>1 DEF Tallied
    <3> QED BY <3>1, <3>2
  <2> QED BY <2>1, <2>2 DEF Tallied
<1>3. CASE Reset
  <2>1. /\ tally' = saved /\ UNCHANGED <<saved, silent>>
        /\ clear' = [u \in Users |-> IF clear[u] = "due" THEN "lost" ELSE clear[u]]
    BY <1>3 DEF Reset
  <2> QED BY <1>0, <2>1 DEF Tallied
<1>4. CASE Unreadable
  <2>1. tally' = [u \in Users |-> 0] /\ UNCHANGED <<saved, clear, silent>>
    BY <1>4 DEF Unreadable
  <2> QED BY <1>0, <2>1 DEF Tallied
<1>5. CASE
       \/ PollForLive \/ ScanPriorityListOnce \/ Reconnect \/ ReleaseLock \/ HandOver
       \/ Leave \/ EnqueueJob \/ UploaderEnds \/ RequestStop \/ TickFails
       \/ \E u \in Users : CooldownElapses(u)
       \/ \E s \in Segment : Grow(s) \/ Exit(s)
       \/ \E why \in {Finished, "stop", "dead", "stalled"} : WaitReturns(why)
       \/ \E w \in Sweepers : SweepLooks(w) \/ SweepEnds(w)
       \/ \E w \in Sweepers, u \in Users : SweepLists(w, u)
       \/ \E w \in Sweepers, s \in Segment : SweepTakes(w, s)
  <2>1. /\ UNCHANGED <<tally, saved, clear, silent>>
        /\ \/ UNCHANGED <<pc, current>>
           \/ pc # "started"
    BY <1>5 DEF CooldownElapses, Grow, Exit, PollForLive, StartRecording, Candidates,
       ScanPriorityListOnce, WaitReturns, Snapshot, Reconnect, ReleaseLock, HandOver, Leave,
       EnqueueJob, UploaderEnds, RequestStop, TickFails, SweepLooks, SweepEnds, SweepLists,
       SweepTakes, Session, Sweepers
  <2> QED BY <2>1 DEF Tallied
<1> QED
  BY <1>1, <1>2, <1>3, <1>4, <1>5 DEF Next, Machine, Sweep, Stopped, Killed

LEMMA SparedStep ==
    ASSUME Shape, Births, Session, Spared, Next
    PROVE  Spared'
<1> USE SegmentsAreNumbers DEF machine, standing, files, table
<1>1. CASE PollForLive
  BY <1>1 DEF PollForLive, StartRecording, Candidates, Spared, LookedDuring, Live
<1>2. CASE ScanPriorityListOnce
  <2>1. ASSUME NEW u \in Candidates, StartRecording(u) PROVE Spared'
    BY <1>2, <2>1 DEF ScanPriorityListOnce, StartRecording, Candidates, Spared,
       LookedDuring, Live
  <2>2. CASE pc' = "listening" /\ UNCHANGED <<current, stop, cap, session, streak, lock,
                 queue, standing, files, table, sweep, budget>>
    BY <1>2, <2>2 DEF ScanPriorityListOnce, Spared, LookedDuring, Live
  <2> QED BY <1>2, <2>1, <2>2 DEF ScanPriorityListOnce
<1>3. CASE OpenCapture
  <2>1. CASE UNCHANGED <<cap, owner, origin>>
    BY <1>3, <2>1, Opens DEF Spared, LookedDuring, Live, OpenCapture
  <2>2. CASE ~ UNCHANGED <<cap, owner, origin>>
    <3>1. /\ cap' \in Segment /\ ~ Born(cap') /\ UNCHANGED <<sweep, current>>
          /\ owner' = [owner EXCEPT ![cap'] = current]
          /\ origin' = [origin EXCEPT ![cap'] = IF cap = NoSegment THEN cap' ELSE origin[cap]]
      BY <1>3, <2>2, Opens
    <3>2. SUFFICES ASSUME NEW w \in Sweepers, LookedDuring(w)'
                   PROVE  current \notin sweep[w].left /\ \A s \in sweep[w].todo : owner'[s] # current
      BY <3>1 DEF Spared
    <3>3. sweep[w].during # NoSegment /\ Born(sweep[w].during) /\ origin'[cap'] = sweep[w].during
      BY <3>1, <3>2 DEF LookedDuring, Births
    <3>4. cap # NoSegment /\ origin[cap] = sweep[w].during
      BY <3>1, <3>3 DEF Shape
    <3>5. LookedDuring(w)
      BY <1>3, <3>3, <3>4 DEF LookedDuring, OpenCapture, Live
    <3>6. current \notin sweep[w].left /\ \A s \in sweep[w].todo : owner[s] # current
      BY <3>5 DEF Spared
    <3>7. ASSUME NEW s \in sweep[w].todo PROVE owner'[s] # current
      <4>1. s \in Segment /\ Born(s)
        BY DEF Births, Shape
      <4> QED BY <3>1, <3>6, <4>1 DEF Shape
    <3> QED BY <3>6, <3>7
  <2> QED BY <2>1, <2>2
<1>4. ASSUME NEW why \in {Finished, "stop", "dead", "stalled"}, WaitReturns(why) PROVE Spared'
  BY <1>4 DEF WaitReturns, Snapshot, Spared, LookedDuring, Live
<1>5. CASE Reconnect
  BY <1>5 DEF Reconnect, Spared, LookedDuring, Live
<1>6. CASE Stopped
  BY <1>6 DEF Stopped, Reset, Spared, LookedDuring, Live
<1>7. CASE Killed
  BY <1>7 DEF Killed, Reset, Spared, LookedDuring
<1>8. ASSUME NEW w \in Sweepers, SweepLooks(w) PROVE Spared'
  <2>1. pc \in Live /\ cap # NoSegment => lock = current
    BY DEF Session
  <2>2. /\ UNCHANGED <<pc, cap, current, owner, origin>>
        /\ sweep' = [sweep EXCEPT ![w] = [pc |-> "walking", left |-> Users \ {lock}, todo |-> {},
                         during |-> IF cap = NoSegment THEN NoSegment ELSE origin[cap]]]
    BY <1>8 DEF SweepLooks
  <2> QED BY <2>1, <2>2 DEF Spared, LookedDuring, Shape
<1>9. ASSUME NEW w \in Sweepers, SweepEnds(w) PROVE Spared'
  BY <1>9 DEF SweepEnds, Resting, Spared, LookedDuring, Shape, Live
<1>10. ASSUME NEW w \in Sweepers, NEW u \in Users, SweepLists(w, u) PROVE Spared'
  BY <1>10 DEF SweepLists, Found, Spared, LookedDuring, Shape
<1>11. ASSUME NEW w \in Sweepers, NEW s \in Segment, SweepTakes(w, s) PROVE Spared'
  BY <1>11 DEF SweepTakes, Spared, LookedDuring, Shape
<1>12. CASE
       \/ ReleaseLock \/ HandOver \/ Leave \/ EnqueueJob \/ RequestStop
       \/ TickFails \/ Forgive \/ UploaderEnds \/ Unreadable
       \/ \E u \in Users : CooldownElapses(u)
       \/ \E s \in Segment : Grow(s) \/ Exit(s)
  BY <1>12 DEF CooldownElapses, Grow, Exit, ReleaseLock, HandOver, Leave, EnqueueJob,
     RequestStop, TickFails, Forgive, UploaderEnds, Unreadable, Spared, LookedDuring, Live
<1> QED
  BY <1>1, <1>2, <1>3, <1>4, <1>5, <1>6, <1>7, <1>8, <1>9, <1>10, <1>11, <1>12 DEF Next,
     Machine, Sweep

-----------------------------------------------------------------------------
(* The theorems *)

\* The inductive invariant of the recorder, its queue, its lock and the sweeps.
THEOREM RecorderInvariance == Spec => []RInv
<1>1. Init => RInv
  <2> SUFFICES ASSUME Init PROVE RInv
    OBVIOUS
  <2> USE SegmentsAreNumbers, RecorderAssumption DEF Init, Resting, Born, Live
  <2>1. Shape
    <3>1. queue \in Seq([seg : Segment, key : Segment \cup {Alone}]) /\ session \in Seq(Segment)
      OBVIOUS
    <3>2. /\ owner \in [Segment -> Users \cup {NoUser}] /\ row \in [Segment -> NoRow .. Alone]
          /\ tally \in [Users -> Nat] /\ saved \in [Users -> Nat] /\ silent \in [Users -> Nat]
          /\ clear \in [Users -> {"done", "due", "lost"}]
      OBVIOUS
    <3>3. \A w \in Sweepers : DOMAIN sweep[w] = DOMAIN Resting /\ sweep[w].todo \subseteq Segment
      OBVIOUS
    <3> QED BY <3>1, <3>2, <3>3 DEF Shape
  <2>2. /\ \A s \in Segment : owner[s] = NoUser /\ origin[s] = NoSegment /\ row[s] = NoRow
        /\ Len(queue) = 0 /\ Len(session) = 0
        /\ \A w \in Sweepers : sweep[w].during = NoSegment /\ sweep[w].todo = {}
        /\ sweep["startup"].pc = "resting"
    BY DEF Sweepers
  <2>4. Births
    BY <2>2 DEF Births
  <2>5. Session
    BY <2>2 DEF Session
  <2>3. OneKey /\ Tallied /\ Spared
    BY <2>2 DEF OneKey, Stamped, Tallied, Spared, LookedDuring
  <2> QED BY <2>1, <2>3, <2>4, <2>5 DEF RInv
<1>2. RInv /\ [Next]_vars => RInv'
  <2> SUFFICES ASSUME RInv, [Next]_vars PROVE RInv'
    OBVIOUS
  <2>1. CASE Next
    BY <2>1, ShapeStep, BirthsStep, SessionStep, OneKeyStep, TalliedStep, SparedStep DEF
       RInv
  <2>2. CASE UNCHANGED vars
    <3> USE <2>2 DEF RInv, vars, machine, standing, files, table
    <3>1. Shape' /\ Births'
      BY DEF Shape, Births, Born
    <3>2. Session' /\ Tallied'
      BY DEF Session, Born, Tallied
    <3>3. OneKey' /\ Spared'
      BY DEF OneKey, Stamped, Spared, LookedDuring
    <3> QED BY <3>1, <3>2, <3>3
  <2> QED BY <2>1, <2>2
<1> QED BY <1>1, <1>2, PTL DEF Spec

\* LookedDuringMeansSpared (recover_recordings and reconcile_recordings read the
\* lock once, before their walk): no order of looking, walking, reconnecting and
\* dying puts the file of the running capture on the list of a sweep that looked
\* during its broadcast.
THEOREM BroadcastIsSpared == Spec => []LookedDuringMeansSpared
<1>1. RInv => LookedDuringMeansSpared
  <2> SUFFICES ASSUME RInv, NEW w \in Sweepers, NEW s \in sweep[w].todo,
                      pc \in {"started", "recording"}, s = cap, sweep[w].during = origin[cap]
               PROVE  FALSE
    BY DEF LookedDuringMeansSpared
  <2>1. cap \in Segment /\ cap # NoSegment /\ owner[cap] = current /\ Born(cap)
    BY SegmentsAreNumbers DEF RInv, Shape, Session, Live
  <2>2. origin[cap] # NoSegment
    BY <2>1 DEF RInv, Births
  <2>3. LookedDuring(w)
    BY <2>1, <2>2 DEF LookedDuring, Live
  <2> QED BY <2>1, <2>3 DEF RInv, Spared
<1> QED BY <1>1, RecorderInvariance, PTL

\* OneAlbum (_handoff_session, _enqueue_job): whatever is interrupted, two files of one
\* broadcast that the machine itself registered are in one album, or on their own both.
THEOREM OneKeyPerBroadcast == Spec => []OneAlbum
<1>1. RInv => OneAlbum
  <2> SUFFICES ASSUME RInv, NEW s \in Segment, NEW t \in Segment, origin[s] = origin[t],
                      row[s] # NoRow, row[t] # NoRow, s \notin swept, t \notin swept
               PROVE  row[s] = row[t]
    BY DEF OneAlbum
  <2>1. row[s] \in NoRow .. Alone /\ row[t] \in NoRow .. Alone
    BY DEF RInv, Shape
  <2>2. Stamped(s, row[s]) /\ Stamped(t, row[t])
    BY DEF Stamped
  <2> QED BY <2>1, <2>2 DEF RInv, OneKey
<1> QED BY <1>1, RecorderInvariance, PTL

\* BanNeedsSilence (_deactivate_user, _maybe_ban_unstartable, UnstartableTracker): no
\* order of failures, cooldowns, starts, kills, restarts and failed saves puts a user
\* on the roster who was benched less often in a row, unless the clearing of their
\* tally was lost with a process.
THEOREM BansFollowSilence == Spec => BanNeedsSilence
<1>1. RInv /\ [Next]_vars => [\A u \in banned' \ banned : silent'[u] >= BanCycles \/ clear[u] = "lost"]_vars
  <2> SUFFICES ASSUME RInv, Next, NEW u \in banned' \ banned
               PROVE  silent'[u] >= BanCycles \/ clear[u] = "lost"
    BY DEF vars, standing
  <2> USE DEF machine, standing, files, table
  <2>1. OpenCapture
    BY DEF Next, Machine, Sweep, CooldownElapses, Grow, Exit, PollForLive, StartRecording,
       Candidates, ScanPriorityListOnce, Forgive, WaitReturns, Reconnect, ReleaseLock, HandOver,
       Leave, Stopped, Reset, EnqueueJob, UploaderEnds, RequestStop, TickFails, Killed,
       Unreadable, SweepLooks, SweepEnds, SweepLists, SweepTakes
  <2>2. Shape /\ Session /\ Tallied /\ pc # "started"
    BY <2>1 DEF RInv, OpenCapture
  <2>3. current \in Users /\ \E trouble : Deactivate(current, trouble)
    BY <2>1, <2>2, Standing
  <2>4. PICK trouble : Deactivate(current, trouble)
    BY <2>3
  <2>5. u = current /\ tally[u] + 1 >= BanCycles /\ silent'[u] = silent[u] + 1
    BY <2>2, <2>3, <2>4, Benches
  <2>6. tally[u] <= silent[u] \/ clear[u] = "lost"
    BY <2>2, <2>3, <2>5 DEF Tallied
  <2>7. tally[u] \in Nat /\ silent[u] \in Nat /\ BanCycles \in Nat
    BY <2>2, <2>3, <2>5, RecorderAssumption DEF Shape
  <2> QED BY <2>5, <2>6, <2>7
<1> QED BY <1>1, RecorderInvariance, PTL DEF Spec, BanNeedsSilence

\* LockIsAroundTheSession (_start_recording, _handoff_session, run_forever): the
\* lock names the recorded user through the whole broadcast, and nobody outside one.
THEOREM LockFollowsSession == Spec => []LockIsAroundTheSession
<1>1. RInv => LockIsAroundTheSession
  BY DEF RInv, Session, Live, LockIsAroundTheSession
<1> QED BY <1>1, RecorderInvariance, PTL
=============================================================================
