------------------------------- MODULE Recorder -------------------------------
(***************************************************************************)
(* The live-stream recorder: its state machine, the capture process it      *)
(* starts, the uploader thread behind its in-memory queue, the tally of     *)
(* unstartable users in memory and in its file, the soft lock that names    *)
(* the user being recorded, and the two sweeps (the archiver's              *)
(* reconcile_recordings and the recorder's own at its start) that register  *)
(* what they find in the recording folders of everyone else.                *)
(*                                                                          *)
(* A capture is a process of its own: it outlives the recorder when that is *)
(* killed.  What a sweep does to the bytes of a file is MediaPrep's         *)
(* subject; here registering one segment is one step.                       *)
(***************************************************************************)
EXTENDS Integers, Sequences, FiniteSets, SequencesExt

CONSTANTS
    Users,          \* config.tiktok_users (their priority is dropped: what the
                    \* platform answers of those before is free)
    Segments,       \* bound: how many files the captures may ever produce
    SkipAfterFails, \* _SKIP_AFTER_FAILS
    BanCycles,      \* _BAN_AFTER_COOLDOWNS
    MaxZeroByte,    \* max_zero_byte_reconnects
    Failures,       \* bound: how many captures fail to start
    Faults,         \* bound: kills, raising ticks, refused registrations, orphans,
                    \* saves of the tally and bans that fail halfway
    Stops           \* bound: how often the recorder is asked to stop

Segment == 1 .. Segments
NoSegment == 0
NoUser == "nobody"

\* The group_key of a row: none yet, a file on its own, or the album named
\* after the session's first file.
NoRow == 0
Alone == Segments + 1

ASSUME RecorderAssumption ==
    /\ NoUser \notin Users
    /\ {Segments, SkipAfterFails, BanCycles} \subseteq Nat \ {0}
    /\ {MaxZeroByte, Failures, Faults, Stops} \subseteq Nat

\* listening, recording, handoff and down are the RecorderStates; the others
\* are the points between where the machine waits on the network or a thread.
PC == {"listening", "opening", "started", "recording", "confirming", "ended",
       "handoff", "leaving", "down"}

Sweepers == {"archiver", "startup"}
Resting == [pc |-> "resting", during |-> NoSegment, todo |-> {}, left |-> {}]

VARIABLES
    pc, current, stop,
    lock,       \* the user a live lockfile names
    cap,        \* the segment of the machine's latest capture
    session,    \* session_files, in order
    streak,     \* zero_byte_streak
    queue,      \* _upload_q: sequence of [seg, key]
    uploader,   \* the uploader thread: "up" or "gone"
    fails, benched,     \* _consec_fail, _skipped
    dropped,    \* who this process does not poll: the roster when it started, _banned
    banned,     \* the roster of config.toml
    tally,      \* UnstartableTracker._data: cooldown cycles
    saved,      \* unstartable.json
    clear,      \* ghost: [Users -> "done"; "due": a capture has started and the file
                \* still has the tally; "lost": the process ended meanwhile]
    owner,      \* [Segment -> the user it records, or NoUser]
    size,       \* [Segment -> {"none", "stub", "full"}]
    writing,    \* the segments some capture process still writes
    at,         \* [Segment -> where the file lies]
    row,        \* [Segment -> group_key]
    sweep,      \* [Sweepers -> state]; ghost field during: the first segment
                \* of the session that was on when it looked
    swept,      \* ghost: segments registered by a sweep
    origin,     \* ghost: [Segment -> the first segment of its session]
    silent,     \* ghost: [Users -> benches since a capture last started]
    budget      \* what is left of the bounds

machine == <<pc, current, stop, cap, session, streak>>
standing == <<fails, benched, dropped, banned, tally, saved, clear, silent>>
files == <<owner, size, writing, at, origin>>
table == <<row, swept>>
vars == <<machine, lock, queue, uploader, standing, files, table, sweep, budget>>

Unborn == {s \in Segment : owner[s] = NoUser}
Next1 == CHOOSE s \in Unborn : \A t \in Unborn : s <= t
Found(u) == {s \in Segment : /\ owner[s] = u /\ at[s] = "folder"
                             /\ size[s] # "none" /\ row[s] = NoRow}

Init ==
    /\ lock = NoUser
    /\ pc = "listening" /\ current = NoUser /\ stop = FALSE
    /\ cap = NoSegment /\ session = <<>> /\ streak = 0
    /\ queue = <<>> /\ uploader = "up"
    /\ fails = [u \in Users |-> 0] /\ benched = {} /\ dropped = {} /\ banned = {}
    /\ tally = [u \in Users |-> 0] /\ saved = [u \in Users |-> 0]
    /\ clear = [u \in Users |-> "done"] /\ silent = [u \in Users |-> 0]
    /\ owner = [s \in Segment |-> NoUser] /\ size = [s \in Segment |-> "none"]
    /\ writing = {} /\ at = [s \in Segment |-> "folder"]
    /\ origin = [s \in Segment |-> NoSegment]
    /\ row = [s \in Segment |-> NoRow] /\ swept = {}
    /\ sweep = [w \in Sweepers |-> Resting]
    /\ budget = [failures |-> Failures, faults |-> Faults, stops |-> Stops]

Spend(what) == /\ budget[what] > 0
               /\ budget' = [budget EXCEPT ![what] = @ - 1]

-----------------------------------------------------------------------------
(* The capture processes.                                                  *)

Grow(s) ==
    /\ s \in writing
    /\ size' = [size EXCEPT ![s] = IF @ = "none" THEN "stub" ELSE "full"]
    /\ size' # size
    /\ UNCHANGED <<machine, lock, queue, uploader, standing, owner, writing, at,
                   origin, table, sweep, budget>>

Exit(s) ==
    /\ s \in writing
    /\ writing' = writing \ {s}
    /\ UNCHANGED <<machine, lock, queue, uploader, standing, owner, size, at,
                   origin, table, sweep, budget>>

-----------------------------------------------------------------------------
(* Starting a capture.                                                     *)

Candidates == Users \ (dropped \cup benched)

\* The lock is taken before the capture is opened.  (Unborn: the bound.)
StartRecording(u) ==
    /\ Unborn # {}
    /\ lock' = u /\ current' = u
    /\ pc' = "opening"
    /\ cap' = NoSegment /\ session' = <<>> /\ streak' = 0
    /\ UNCHANGED <<stop, queue, uploader, standing, files, table, sweep, budget>>

PollForLive ==
    /\ pc = "listening" /\ ~stop
    /\ \E u \in Candidates : StartRecording(u)

ScanPriorityListOnce ==
    /\ pc = "handoff" /\ ~stop
    /\ \/ \E u \in Candidates : StartRecording(u)
       \/ /\ pc' = "listening"
          /\ UNCHANGED <<current, stop, cap, session, streak, lock,
                         queue, uploader, standing, files, table, sweep, budget>>

\* quarantine_user(lock_platform="tiktok"): skipped while the lock names u.
Quarantined(u) ==
    [s \in Segment |-> IF owner[s] = u /\ at[s] = "folder" /\ lock # u
                       THEN "deleted" ELSE at[s]]

\* UnstartableTracker._save writes the whole tally, or fails and says nothing.  What
\* is in memory no longer holds what a start has cleared.
Save(ok) ==
    \/ /\ ok
       /\ saved' = tally'
       /\ clear' = [u \in Users |-> IF clear[u] = "due" THEN "done" ELSE clear[u]]
    \/ ~ok /\ UNCHANGED <<saved, clear>>

\* _deactivate_user and _maybe_ban_unstartable: the age of the tally and the
\* verdict of the profile page are free, and what follows the entry in the roster
\* (the store, the folder) may raise: then the user stays benched, and is polled
\* again by this process.
Deactivate(u, trouble) ==
    /\ fails' = [fails EXCEPT ![u] = 0]
    /\ silent' = [silent EXCEPT ![u] = @ + 1]
    /\ \/ /\ benched' = benched \cup {u}
          /\ tally' = [tally EXCEPT ![u] = @ + 1]
          /\ \/ trouble # "store" /\ UNCHANGED banned
             \/ trouble = "store" /\ tally'[u] >= BanCycles /\ banned' = banned \cup {u}
          /\ UNCHANGED <<dropped, at>>
       \/ /\ trouble # "store" /\ tally[u] + 1 >= BanCycles
          /\ banned' = banned \cup {u} /\ dropped' = dropped \cup {u}
          /\ benched' = benched \ {u}
          /\ tally' = [tally EXCEPT ![u] = 0]
          /\ at' = Quarantined(u)
    /\ Save(trouble # "save")

NoteStartFailure(u, trouble) ==
    \/ fails[u] + 1 >= SkipAfterFails /\ Deactivate(u, trouble)
    \/ /\ trouble = "none" /\ fails[u] + 1 < SkipAfterFails
       /\ fails' = [fails EXCEPT ![u] = @ + 1]
       /\ UNCHANGED <<benched, dropped, banned, tally, saved, clear, silent, at>>

\* What the callers of _open_capture do when it returns False: _start_recording
\* gives the lock back, the session of a reconnect ends.
GiveUp == IF cap = NoSegment
          THEN pc' = "listening" /\ lock' = NoUser
          ELSE pc' = "ended" /\ UNCHANGED lock

\* _open_capture: no cookies, another failure, or a capture.
OpenCapture ==
    /\ pc = "opening"
    /\ \/ /\ \E trouble \in {"none", "save", "store"} :
                LET cost == IF trouble = "none" THEN 0 ELSE 1 IN
                /\ budget.failures > 0 /\ budget.faults >= cost
                /\ budget' = [budget EXCEPT !.failures = @ - 1, !.faults = @ - cost]
                /\ Deactivate(current, trouble) \/ NoteStartFailure(current, trouble)
          /\ GiveUp
          /\ UNCHANGED <<current, stop, cap, session, streak, owner, size,
                         writing, origin>>
       \/ /\ Unborn = {} /\ GiveUp
          /\ UNCHANGED <<current, stop, cap, session, streak, standing, files, budget>>
       \/ /\ Unborn # {}
          /\ cap' = Next1
          /\ owner' = [owner EXCEPT ![Next1] = current]
          /\ origin' = [origin EXCEPT ![Next1] =
                            IF cap = NoSegment THEN Next1 ELSE origin[cap]]
          /\ writing' = writing \cup {Next1}
          /\ silent' = [silent EXCEPT ![current] = 0]
          /\ clear' = [clear EXCEPT ![current] = IF saved[current] = 0 THEN "done" ELSE "due"]
          /\ pc' = "started"
          /\ UNCHANGED <<lock, current, stop, session, streak, size, at, fails,
                         benched, dropped, banned, tally, saved, budget>>
    /\ UNCHANGED <<queue, uploader, table, sweep>>

\* Mutant: only the short count is reset by a start.
ForgiveShort ==
    /\ pc = "started" /\ pc' = "recording"
    /\ fails' = [fails EXCEPT ![current] = 0]
    /\ UNCHANGED <<current, stop, cap, session, streak, lock, queue, uploader, tally,
                   saved, clear, benched, dropped, banned, silent, files, table, sweep, budget>>

\* The rest of _open_capture, after capture.start: there is nothing to save when
\* the tally in memory does not have the user.
Forgive ==
    /\ pc = "started" /\ pc' = "recording"
    /\ fails' = [fails EXCEPT ![current] = 0]
    /\ tally' = [tally EXCEPT ![current] = 0]
    /\ \/ tally[current] = 0 /\ UNCHANGED <<saved, clear, budget>>
       \/ tally[current] # 0 /\ Save(TRUE) /\ UNCHANGED budget
       \/ tally[current] # 0 /\ Save(FALSE) /\ Spend("faults")
    /\ UNCHANGED <<current, stop, cap, session, streak, lock, queue, uploader,
                   benched, dropped, banned, silent, files, table, sweep>>

\* _is_skipped: who is benched is asked by a poll.
CooldownElapses(u) ==
    /\ pc \in {"listening", "handoff"} /\ ~stop
    /\ u \in benched
    /\ benched' = benched \ {u}
    /\ fails' = [fails EXCEPT ![u] = 0]
    /\ UNCHANGED <<machine, lock, queue, uploader, dropped, banned, tally, saved,
                   clear, silent, files, table, sweep, budget>>

-----------------------------------------------------------------------------
(* A session.                                                              *)

\* The file wait() leaves behind, seen before any relaunch: output_files drops
\* what no longer exists.
Snapshot == IF size[cap] # "none" /\ at[cap] = "folder"
            THEN Append(session, cap) ELSE session

\* StreamCapture.wait returns: the capture has exited by itself, or wait stops
\* it and says why (-1 stop, -2 no byte in time, -3 byte count flat).  A capture
\* that survives the kill goes on writing.
Finished == "exit"
WaitReturns(why) ==
    /\ pc = "recording"
    /\ \/ why = Finished /\ cap \notin writing /\ UNCHANGED <<writing, budget>>
       \/ /\ \/ why = "stop" /\ stop
             \/ why = "dead" /\ size[cap] = "none"
             \/ why = "stalled" /\ size[cap] # "none"
          /\ cap \in writing
          /\ \/ writing' = writing \ {cap} /\ UNCHANGED budget
             \/ Spend("faults") /\ UNCHANGED writing
    /\ session' = Snapshot
    /\ pc' = IF why = Finished /\ ~stop THEN "confirming" ELSE "ended"
    /\ UNCHANGED <<current, stop, lock, cap, streak, queue, uploader, standing,
                   owner, size, at, origin, table, sweep>>

\* Mutant: the lock is given back for the time of the backoff.
ReconnectUnlocked ==
    /\ pc = "confirming"
    /\ LET empty == IF size[cap] = "none" THEN streak + 1 ELSE 0 IN
       \/ /\ ~stop /\ empty <= MaxZeroByte
          /\ streak' = empty /\ lock' = NoUser
          /\ pc' = "opening"
       \/ streak' = streak /\ pc' = "ended" /\ UNCHANGED lock
    /\ UNCHANGED <<current, stop, cap, session, queue, uploader, standing, files, table,
                   sweep, budget>>

\* _confirm_still_live, the budgets and the backoff.
Reconnect ==
    /\ pc = "confirming"
    /\ LET empty == IF size[cap] = "none" THEN streak + 1 ELSE 0 IN
       \/ /\ ~stop /\ empty <= MaxZeroByte
          /\ streak' = empty
          /\ pc' = "opening"
       \/ \* stopped, not confirmed live (a sample may raise), or a budget trips
          /\ streak' = streak
          /\ pc' = "ended"
    /\ UNCHANGED <<current, stop, lock, cap, session, queue, uploader, standing,
                   files, table, sweep, budget>>

\* The lock is released before the files are on the queue.
ReleaseLock ==
    /\ pc = "ended" /\ lock # NoUser
    /\ lock' = NoUser
    /\ UNCHANGED <<machine, queue, uploader, standing, files, table, sweep, budget>>

SessionKey == IF Len(session) > 1 THEN session[1] ELSE Alone

\* Mutant: only what came after a reconnect is stamped.
StampLater == [i \in DOMAIN session |-> [seg |-> session[i],
                  key |-> IF i = 1 THEN Alone ELSE SessionKey]]

Jobs == [i \in DOMAIN session |-> [seg |-> session[i], key |-> SessionKey]]

HandOver ==
    /\ pc = "ended" /\ lock = NoUser
    /\ queue' = queue \o Jobs
    /\ session' = <<>> /\ cap' = NoSegment /\ current' = NoUser /\ streak' = 0
    /\ pc' = IF stop THEN "leaving" ELSE "handoff"
    /\ UNCHANGED <<stop, lock, uploader, standing, files, table, sweep, budget>>

-----------------------------------------------------------------------------
(* Stopping, raising, dying.                                               *)

RequestStop ==
    /\ pc \notin {"leaving", "down"} /\ ~stop
    /\ Spend("stops")
    /\ stop' = TRUE
    /\ UNCHANGED <<pc, current, lock, cap, session, streak, queue,
                   uploader, standing, files, table, sweep>>

\* Mutant: a tick that raises keeps the lock.
TickFailsLocked ==
    /\ pc \in {"listening", "opening", "recording", "confirming", "handoff"}
    /\ Spend("faults")
    /\ pc' = "listening"
    /\ session' = <<>> /\ cap' = NoSegment /\ current' = NoUser /\ streak' = 0
    /\ UNCHANGED <<stop, lock, queue, uploader, standing, files, table, sweep>>

\* run_forever: a tick that raises gives the lock back and forgets its session.
TickFails ==
    /\ pc \in {"listening", "opening", "recording", "confirming", "handoff"}
    /\ Spend("faults")
    /\ lock' = NoUser
    /\ pc' = "listening"
    /\ session' = <<>> /\ cap' = NoSegment /\ current' = NoUser /\ streak' = 0
    /\ UNCHANGED <<stop, queue, uploader, standing, files, table, sweep>>

\* Mutant: the scan of the handoff does not end on a stop.
LeaveListening ==
    /\ pc = "listening" /\ stop
    /\ pc' = "leaving"
    /\ UNCHANGED <<current, stop, lock, cap, session, streak, queue,
                   uploader, standing, files, table, sweep, budget>>

Leave ==
    /\ pc \in {"listening", "handoff"} /\ stop
    /\ pc' = "leaving"
    /\ UNCHANGED <<current, stop, lock, cap, session, streak, queue,
                   uploader, standing, files, table, sweep, budget>>

\* Mutant: the lockfile of a dead process still reads as held.
ResetButLock ==
    /\ pc' = "down" /\ stop' = FALSE /\ current' = NoUser
    /\ cap' = NoSegment /\ session' = <<>> /\ streak' = 0
    /\ queue' = <<>> /\ uploader' = "up"
    /\ UNCHANGED lock
    /\ fails' = [u \in Users |-> 0] /\ benched' = {}
    /\ dropped' = banned /\ tally' = saved
    /\ clear' = [u \in Users |-> IF clear[u] = "due" THEN "lost" ELSE clear[u]]
    /\ UNCHANGED <<banned, saved, silent>>

\* The end of a process, and what the next one starts with.
Reset ==
    /\ pc' = "down" /\ stop' = FALSE /\ current' = NoUser
    /\ cap' = NoSegment /\ session' = <<>> /\ streak' = 0
    /\ queue' = <<>> /\ uploader' = "up"
    /\ lock' = NoUser
    /\ fails' = [u \in Users |-> 0] /\ benched' = {}
    /\ dropped' = banned /\ tally' = saved
    /\ clear' = [u \in Users |-> IF clear[u] = "due" THEN "lost" ELSE clear[u]]
    /\ UNCHANGED <<banned, saved, silent>>

\* UnstartableTracker._load: a file that cannot be read is as good as none.
Unreadable ==
    /\ pc = "down" /\ sweep["startup"] = Resting
    /\ Spend("faults")
    /\ tally' = [u \in Users |-> 0]
    /\ UNCHANGED <<machine, lock, queue, uploader, fails, benched, dropped, banned,
                   saved, clear, silent, files, table, sweep>>

\* The uploader has ended, whatever it left in the queue, or has not drained it
\* within 15 s.
Stopped ==
    /\ pc = "leaving"
    /\ uploader = "gone" \/ queue # <<>>
    /\ Reset
    /\ UNCHANGED <<files, table, sweep, budget>>

\* A killed recorder's lock no longer reads as held; its capture lives on.
Killed ==
    /\ pc # "down" \/ sweep["startup"] # Resting
    /\ Spend("faults")
    /\ Reset
    /\ sweep' = [sweep EXCEPT !["startup"] = Resting]
    /\ UNCHANGED <<files, table>>

-----------------------------------------------------------------------------
(* The uploader thread.                                                    *)

\* _enqueue_job: vanished, a stub, registered (the row of a known file stays as
\* it is), or refused and kept on the disk.
EnqueueJob ==
    /\ pc # "down" /\ uploader = "up" /\ queue # <<>>
    /\ queue' = Tail(queue)
    /\ LET s == Head(queue).seg IN
       \/ /\ at[s] # "folder" \/ row[s] # NoRow
          /\ UNCHANGED <<at, row, budget>>
       \/ /\ at[s] = "folder" /\ row[s] = NoRow /\ size[s] # "full"
          /\ at' = [at EXCEPT ![s] = "discarded"]
          /\ UNCHANGED <<row, budget>>
       \/ /\ at[s] = "folder" /\ row[s] = NoRow /\ size[s] = "full"
          /\ \/ row' = [row EXCEPT ![s] = Head(queue).key] /\ UNCHANGED budget
             \/ Spend("faults") /\ UNCHANGED row
          /\ UNCHANGED at
    /\ UNCHANGED <<machine, lock, uploader, standing, owner, size, writing, origin,
                   swept, sweep>>

\* _uploader_loop ends when it finds the stop flag set and nothing queued, be it
\* long before the session that the stop interrupts hands its files over.
UploaderEnds ==
    /\ pc # "down" /\ uploader = "up" /\ stop /\ queue = <<>>
    /\ uploader' = "gone"
    /\ UNCHANGED <<machine, lock, queue, standing, files, table, sweep, budget>>

-----------------------------------------------------------------------------
(* The sweeps.                                                             *)

\* The lock is read once, before the walk.
SweepLooks(w) ==
    /\ sweep[w].pc = "resting"
    /\ w = "startup" => pc = "down" \* main() has not built the machine yet
    /\ sweep' = [sweep EXCEPT ![w] =
           [pc |-> "walking", left |-> Users \ {lock}, todo |-> {},
            during |-> IF cap = NoSegment THEN NoSegment ELSE origin[cap]]]
    /\ UNCHANGED <<machine, lock, queue, uploader, standing, files, table, budget>>

SweepLists(w, u) ==
    /\ sweep[w].pc = "walking" /\ sweep[w].todo = {} /\ u \in sweep[w].left
    /\ Found(u) # {}
    /\ sweep' = [sweep EXCEPT ![w].left = @ \ {u}, ![w].todo = Found(u)]
    /\ UNCHANGED <<machine, lock, queue, uploader, standing, files, table, budget>>

\* is_stable passes a capture that has written nothing for five seconds.  What
\* is converted is retired under the capture's feet.  A file that is busy or
\* cannot be prepared stays for the next pass.
SweepTakes(w, s) ==
    /\ sweep[w].pc = "walking" /\ s \in sweep[w].todo
    /\ sweep' = [sweep EXCEPT ![w].todo = @ \ {s}]
    /\ \/ /\ at[s] = "folder" /\ row[s] = NoRow
          /\ row' = [row EXCEPT ![s] = Alone]
          /\ swept' = swept \cup {s}
          /\ at' = IF s \in writing THEN [at EXCEPT ![s] = "retired"] ELSE at
          /\ UNCHANGED budget
       \/ /\ at[s] = "folder" /\ row[s] = NoRow
          /\ \/ s \in writing /\ UNCHANGED budget
             \/ Spend("faults")
          /\ UNCHANGED <<row, swept, at>>
       \/ /\ at[s] # "folder" \/ row[s] # NoRow
          /\ UNCHANGED <<row, swept, at, budget>>
    /\ UNCHANGED <<machine, lock, queue, uploader, standing, owner, size,
                   writing, origin>>

\* After the startup sweep the recorder runs.
SweepEnds(w) ==
    /\ sweep[w].pc = "walking" /\ sweep[w].todo = {}
    /\ \A u \in sweep[w].left : Found(u) = {}
    /\ sweep' = [sweep EXCEPT ![w] = Resting]
    /\ pc' = IF w = "startup" THEN "listening" ELSE pc
    /\ UNCHANGED <<current, stop, lock, cap, session, streak, queue,
                   uploader, standing, files, table, budget>>

-----------------------------------------------------------------------------
Machine == \/ PollForLive \/ ScanPriorityListOnce \/ OpenCapture \/ Forgive
           \/ \E why \in {Finished, "stop", "dead", "stalled"} : WaitReturns(why)
           \/ Reconnect \/ ReleaseLock \/ HandOver \/ Leave \/ Stopped
Sweep(w) == \/ SweepLooks(w) \/ SweepEnds(w)
            \/ \E u \in Users : SweepLists(w, u)
            \/ \E s \in Segment : SweepTakes(w, s)

Next == \/ \E u \in Users : CooldownElapses(u)
        \/ \E s \in Segment : Grow(s) \/ Exit(s)
        \/ Machine \/ EnqueueJob \/ UploaderEnds \/ RequestStop \/ TickFails \/ Killed
        \/ Unreadable
        \/ \E w \in Sweepers : Sweep(w)

Spec == Init /\ [][Next]_vars

\* The service manager starts the recorder again (the main thread sweeps, then runs
\* the machine), the archiver comes round, and every broadcast ends; nothing forces a start, a stop or a fault.
Fairness == /\ WF_vars(Sweep("startup") \/ Machine)
            /\ WF_vars(EnqueueJob \/ UploaderEnds)
            /\ WF_vars(Sweep("archiver"))
            /\ WF_vars(\E s \in Segment : Exit(s))

FairSpec == Spec /\ Fairness

-----------------------------------------------------------------------------
(* Properties.                                                             *)

TypeOK ==
    /\ benched \subseteq Users /\ dropped \subseteq Users /\ banned \subseteq Users
    /\ pc \in PC /\ stop \in BOOLEAN
    /\ {current, lock} \subseteq Users \cup {NoUser}
    /\ cap \in Segment \cup {NoSegment} /\ session \in Seq(Segment)
    /\ streak \in 0 .. MaxZeroByte
    /\ \A j \in ToSet(queue) : j.seg \in Segment /\ j.key \in Segment \cup {Alone}
    /\ uploader \in {"up", "gone"}
    /\ fails \in [Users -> 0 .. SkipAfterFails - 1]
    /\ {tally, saved, silent} \subseteq [Users -> Nat]
    /\ clear \in [Users -> {"done", "due", "lost"}]
    /\ owner \in [Segment -> Users \cup {NoUser}]
    /\ size \in [Segment -> {"none", "stub", "full"}]
    /\ writing \subseteq Segment /\ swept \subseteq Segment
    /\ at \in [Segment -> {"folder", "discarded", "retired", "deleted"}]
    /\ row \in [Segment -> NoRow .. Alone]
    /\ origin \in [Segment -> Segment \cup {NoSegment}]

\* The lock is around a session and nothing else: it names the recorded user
\* from before the capture is opened, through every reconnect, to its end, and
\* while the recorder listens, has failed a tick, stops or is dead, nobody
\* reads it as held (the archiver would stop downloading).
LockIsAroundTheSession ==
    /\ pc \in {"opening", "started", "recording", "confirming"} => lock = current
    /\ pc \in {"listening", "handoff", "leaving", "down"} => lock = NoUser

\* A sweep that looks at the lock at any moment of a broadcast, the gaps between
\* its reconnects included, never has the file of its capture on its list: what
\* it converts would be retired under the running capture.
LookedDuringMeansSpared ==
    \A w \in Sweepers : \A s \in sweep[w].todo :
        pc \in {"started", "recording"} /\ cap \in writing /\ s = cap => sweep[w].during # origin[cap]

\* The files of one broadcast have one key, unless a sweep found one of them
\* between the release of the lock and the uploader (or after a crash, or a
\* refused registration).
OneAlbum ==
    \A s, t \in Segment :
        /\ origin[s] # NoSegment /\ origin[s] = origin[t]
        /\ row[s] # NoRow /\ row[t] # NoRow /\ row[s] # row[t]
        => {s, t} \cap swept # {}

\* An entry in the roster means the user has been benched _BAN_AFTER_COOLDOWNS times
\* without one capture started in between, however many processes counted - unless
\* the last such start is one whose clearing of the tally did not reach the file
\* before its process ended (killed between the two, a save that failed, or a file
\* that could not be read): what came before it is then counted again.
BanNeedsSilence ==
    [][\A u \in banned' \ banned : silent'[u] >= BanCycles \/ clear[u] = "lost"]_vars

\* unstartable.py says of a tally that cannot be kept that it "only DELAYS a ban,
\* never causes a wrong one".  It does: this is refuted.
NeverAWrongBan == [][\A u \in banned' \ banned : silent'[u] >= BanCycles]_vars

\* A finished recording that is more than a stub is registered in the end - by the
\* queue, or by a sweep when a stop found the uploader gone or busy, the session was
\* forgotten or the file refused - and not deleted before.  (A file discarded as a
\* stub while its capture still wrote it has no name left.)
EveryRecordingIsQueued ==
    <>[](\A s \in Segment :
            size[s] = "full" /\ s \notin writing /\ at[s] # "discarded" => row[s] # NoRow)

\* A requested stop ends the process, whatever it was doing; stops are bounded.
StopEnds == <>[](stop => pc = "down")

\* Once a banned user's session is over, the folder with their recordings is out
\* of the active tree.  _maybe_ban_unstartable: "A confirmed ban ... quarantines
\* the user's folder".  The machine itself holds the lock while it decides.
BannedFolderIsMoved ==
    \A u \in banned : \A s \in Segment :
        pc = "listening" /\ writing = {} /\ owner[s] = u /\ size[s] = "full"
        => at[s] # "folder"
=============================================================================
