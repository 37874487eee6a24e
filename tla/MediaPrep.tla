------------------------------ MODULE MediaPrep ------------------------------
(***************************************************************************)
(* One recording on its way from the capture to the chat.  Two processes    *)
(* walk the folder it lies in: the recorder (its uploader thread, and the   *)
(* sweep of its start) and the archiver (reconcile_recordings and           *)
(* recover_oversize_failed).  Both run media_prep.prepare on what they find *)
(* and register the outputs; the dispatcher sends and deletes what has a    *)
(* row.  Files are shared, and only prepare takes a lock.                   *)
(*                                                                          *)
(* The two halves of the footage stand for the parts of a split.  Ingest    *)
(* models the registration of one file step by step, Dispatcher its upload; *)
(* here each is one step.                                                   *)
(***************************************************************************)
EXTENDS Naturals, FiniteSets

CONSTANT Recordings     \* the kinds of recording, and of luck, to consider

\* stage: what is found is the capture, the mp4 the recorder remuxed it to, or
\* such an mp4 with a row that failed as oversize;
\* fresh: the uploader thread has it in its queue;
\* oversize: the mp4 made of it is over the upload ceiling;
\* foreign: Telegram cannot stream its codecs, so that a remux is not enough;
\* deaths, faults: bounds, how often a worker dies and how often an external
\* command fails.
Recording == [stage : {"captured", "remuxed", "refused"}, fresh : BOOLEAN,
              oversize : BOOLEAN, foreign : BOOLEAN, deaths : Nat, faults : Nat]

\* The uploader's queue holds captures; a row is made only of what prepare
\* found streamable, and refused as oversize only if it is.
Occurs(r) == /\ r.fresh => r.stage = "captured"
             /\ r.stage = "refused" => r.oversize /\ ~r.foreign

ASSUME PrepAssumption == Recordings \subseteq {r \in Recording : Occurs(r)}

Worker == {"recorder", "archiver"}

\* <stem>.flv, <stem>.mp4, <stem>.tgprep.mp4 and the two parts of either mp4.
Whole == {"raw", "mp4", "tgprep"}
Part == {"mp4_1", "mp4_2", "tgprep_1", "tgprep_2"}
File == Whole \cup Part

PartsOf(f) == CASE f = "mp4" -> {"mp4_1", "mp4_2"}
                [] f = "tgprep" -> {"tgprep_1", "tgprep_2"}
                [] OTHER -> {}

\* The halves of the footage a file holds.
Holds(f) == CASE f \in {"mp4_1", "tgprep_1"} -> {1}
              [] f \in {"mp4_2", "tgprep_2"} -> {2}
              [] OTHER -> {1, 2}

\* The order of sorted(): '.' comes before '_'.
Rank == [raw |-> 1, mp4 |-> 2, tgprep |-> 3, tgprep_1 |-> 4, tgprep_2 |-> 5,
         mp4_1 |-> 6, mp4_2 |-> 7]

FirstOf(S) == CHOOSE f \in S : \A g \in S : Rank[f] <= Rank[g]

VARIABLES
    rec,        \* the recording
    content,    \* [File -> Content]: what lies on the disk under that name
    torn,       \* files two processes are writing, or have written, at a time
    row,        \* [File -> Status]: the row with that file_path
    hashed,     \* [File -> Content]: the bytes behind the row's content_hash
    oversized,  \* rows whose last_error carries _OVERSIZE_ERROR_SIG
    posted,     \* {<<file, bytes, number>>} in the chat
    work,       \* [Worker -> what the process is doing]
    walk,       \* [Worker -> the files its sweep has yet to visit]
    jobs,       \* _upload_q: captures handed to the uploader thread
    started,    \* the recorder has swept and runs
    met,        \* history: both workers had the recording in hand
    remade,     \* history: a worker wrote anew what another had just made
    half,       \* history: a row was made of half-written bytes
    crashes, faults

files == <<content, torn>>
table == <<row, hashed, oversized, posted>>
control == <<walk, jobs, started>>
vars == <<rec, files, table, work, control, met, remade, half, crashes, faults>>

\* How it was made: "remuxed" by the recorder, streams copied; "encoded" by
\* media_prep from the capture, "again" from the recorder's mp4.
Good == {"captured", "remuxed", "encoded", "again"}
Content == Good \cup {"none", "broken"}
Status == {"none", "pending", "sent", "failed"}

\* src: the file being prepared; out: the file being written, or split;
\* first: its first part is done; outs: the outputs still to be registered.
Idle == [pc |-> "idle", src |-> "raw", out |-> "raw", first |-> FALSE,
         outs |-> {}, made |-> FALSE, missed |-> FALSE]

OnDisk == {f \in File : content[f] # "none"}
Known(f) == row[f] # "none"

Writing(w) ==
    CASE work[w].pc \in {"convert", "remux"} -> {work[w].out}
      [] work[w].pc \in {"split", "recover"} ->
            {p \in PartsOf(work[w].out) : work[w].first => Holds(p) # {1}}
      [] OTHER -> {}

Writers(f) == {w \in Worker : f \in Writing(w)}

AssumeStable(f) == f \in OnDisk     \* mutant: a growing file is taken for a finished one

\* is_stable: nobody is writing to it.
Stable(f) == f \in OnDisk /\ Writers(f) = {}

StaleLock(f) == crashes > 0        \* mutant: a lock that survives its holder

\* _prep_lock, keyed on the source; the kernel frees it with its holder.
Locked(f) == \E w \in Worker :
                work[w].pc \in {"convert", "split", "recover"} /\ work[w].src = f

Probes(f) == content[f] \in Good
Streamable(f) == \/ content[f] \in {"encoded", "again"}
                 \/ content[f] = "remuxed" /\ ~rec.foreign
Big(f) == f \in {"mp4", "tgprep"} /\ rec.oversize

Goto(w, next) == work' = [work EXCEPT ![w] = next]

-----------------------------------------------------------------------------
(* Files *)

Unlink(S) == content' = [f \in File |-> IF f \in S THEN "none" ELSE content[f]]

\* -y: whatever lies there is cut to nothing and written again.
Open(S) == /\ content' = [f \in File |-> IF f \in S THEN "broken" ELSE content[f]]
           /\ torn' = torn \cup {f \in S : Writers(f) # {}}

\* What a writer may leave under a name: nothing if it was unlinked meanwhile.
Leaves(f, good) == CASE content[f] = "none" -> {"none"}
                     [] f \in torn -> {good, "broken"}
                     [] OTHER -> {good}

Write(S, good) == /\ \A f \in S : good \in Leaves(f, good)
                  /\ content' = [f \in File |-> IF f \in S THEN good ELSE content[f]]
                  /\ torn' = torn \ S

Fault == faults < rec.faults /\ faults' = faults + 1

\* ffmpeg or AutoSplitter failed of itself, or what it made is not usable.
Fails(S) == IF \E f \in S : Leaves(f, "encoded") # {"encoded"} THEN UNCHANGED faults ELSE Fault

-----------------------------------------------------------------------------
(* Finding work *)

Init ==
    /\ rec \in Recordings
    /\ LET f == IF rec.stage = "captured" THEN "raw" ELSE "mp4"
           bytes == IF rec.stage = "captured" THEN "captured" ELSE "remuxed"
           refused == {g \in {f} : rec.stage = "refused"}
       IN /\ content = [g \in File |-> IF g = f THEN bytes ELSE "none"]
          /\ row = [g \in File |-> IF g \in refused THEN "failed" ELSE "none"]
          /\ hashed = [g \in File |-> IF g \in refused THEN bytes ELSE "none"]
          /\ oversized = refused
          /\ jobs = {g \in {f} : rec.fresh}
    /\ torn = {} /\ posted = {}
    /\ work = [w \in Worker |-> Idle]
    /\ walk = [w \in Worker |-> {}]
    /\ started = rec.fresh /\ met = FALSE /\ remade = FALSE /\ half = FALSE
    /\ crashes = 0 /\ faults = 0

\* A sweep lists the folder: the archiver's periodically, the recorder's once.
Sweep(w) ==
    /\ work[w] = Idle /\ walk[w] = {} /\ OnDisk # {}
    /\ w = "archiver" \/ ~started
    /\ walk' = [walk EXCEPT ![w] = OnDisk]
    /\ started' = (started \/ w = "recorder")
    /\ UNCHANGED <<rec, files, table, work, jobs, crashes, faults>>

\* A listed file is passed over: gone, unstable, or it has a row.  The start
\* sweep also deletes what is sent and re-arms what failed.
Pass(w) ==
    /\ work[w] = Idle /\ walk[w] # {}
    /\ LET f == FirstOf(walk[w])
           mine == w = "recorder" /\ f \in OnDisk
       IN /\ ~Stable(f) \/ Known(f)
          /\ Unlink({g \in {f} : mine /\ row[f] = "sent"})
          /\ row' = [row EXCEPT ![f] = IF mine /\ @ = "failed" THEN "pending" ELSE @]
          /\ oversized' = {g \in oversized : row'[g] = "failed"}
          /\ walk' = [walk EXCEPT ![w] = @ \ {f}]
    /\ UNCHANGED <<rec, torn, hashed, posted, work, jobs, started, crashes, faults>>

\* A new file that holds still: prepare it.
Visit(w) ==
    /\ work[w] = Idle /\ walk[w] # {}
    /\ LET f == FirstOf(walk[w])
       IN /\ Stable(f) /\ ~Known(f)
          /\ Goto(w, [Idle EXCEPT !.pc = "probe", !.src = f])
          /\ walk' = [walk EXCEPT ![w] = @ \ {f}]
    /\ UNCHANGED <<rec, files, table, jobs, started, crashes, faults>>

\* The uploader thread takes a job: a capture that vanished is reported lost,
\* one that is there is remuxed, without a lock, into the visible <stem>.mp4.
TakeJob ==
    /\ work["recorder"] = Idle
    /\ \E f \in jobs :
          /\ jobs' = jobs \ {f}
          /\ IF f \in OnDisk
             THEN Open({"mp4"}) /\ Goto("recorder", [Idle EXCEPT !.pc = "remux",
                                                      !.src = f, !.out = "mp4"])
             ELSE UNCHANGED <<files, work>>
    /\ UNCHANGED <<rec, table, walk, started, crashes, faults>>

\* The source goes as soon as the output is there.
RemuxDone ==
    /\ work["recorder"].pc = "remux"
    /\ \E c \in Leaves("mp4", "remuxed") \ {"none"} :
          content' = [content EXCEPT !["mp4"] = c, ![work["recorder"].src] = "none"]
    /\ torn' = torn \ {"mp4"}
    /\ Goto("recorder", [Idle EXCEPT !.pc = "arrive", !.src = "mp4"])
    /\ UNCHANGED <<rec, table, control, crashes, faults>>

\* ffmpeg failed, or left no output: register the capture as it is.
RemuxFails ==
    /\ work["recorder"].pc = "remux"
    /\ IF content["mp4"] = "none" THEN UNCHANGED faults ELSE Fault
    /\ Unlink({"mp4"}) /\ torn' = torn \ {"mp4"}
    /\ Goto("recorder", [Idle EXCEPT !.pc = "arrive", !.src = work["recorder"].src])
    /\ UNCHANGED <<rec, table, control, crashes>>

\* register_media asks for stability before it prepares.
Arrive ==
    /\ work["recorder"].pc = "arrive"
    /\ IF Stable(work["recorder"].src)
       THEN Goto("recorder", [work["recorder"] EXCEPT !.pc = "probe"])
       ELSE Goto("recorder", Idle)
    /\ UNCHANGED <<rec, files, table, control, crashes, faults>>

-----------------------------------------------------------------------------
(* media_prep.prepare *)

NeedsWork(f) == \/ Probes(f) /\ (~Streamable(f) \/ Big(f))
                \/ content[f] = "broken" /\ Big(f)

\* Already streamable and small enough, or ffprobe makes nothing of it and it
\* is taken as it is (what was half written may be small).
PassThrough(w) ==
    /\ work[w].pc = "probe"
    /\ LET f == work[w].src
       IN /\ ~NeedsWork(f) \/ content[f] = "broken"
          /\ Goto(w, [work[w] EXCEPT !.pc = "register", !.outs = {f}])
    /\ UNCHANGED <<rec, files, table, control, crashes, faults>>

\* Another worker prepares this very source: next time.
Busy(w) ==
    /\ work[w].pc = "probe"
    /\ NeedsWork(work[w].src) /\ Locked(work[w].src)
    /\ Goto(w, Idle)
    /\ UNCHANGED <<rec, files, table, control, crashes, faults>>

\* _convert: the clean name if it is free, or else the tagged one.
Target(f) == IF f = "raw" /\ "mp4" \notin OnDisk THEN "mp4" ELSE "tgprep"

Convert(w) ==
    /\ work[w].pc = "probe"
    /\ LET f == work[w].src
       IN /\ NeedsWork(f) /\ ~Locked(f) /\ Probes(f) /\ ~Streamable(f)
          /\ Open({Target(f)})
          /\ Goto(w, [work[w] EXCEPT !.pc = "convert", !.out = Target(f)])
    /\ UNCHANGED <<rec, table, control, crashes, faults>>

Split(w) ==
    /\ work[w].pc = "probe"
    /\ LET f == work[w].src
       IN /\ NeedsWork(f) /\ ~Locked(f) /\ (Probes(f) => Streamable(f))
          /\ Open(PartsOf(f))
          /\ Goto(w, [work[w] EXCEPT !.pc = "split", !.out = f])
    /\ UNCHANGED <<rec, table, control, crashes, faults>>

\* _accept takes the encoder's output.
Encoded(w) == IF work[w].src = "raw" THEN "encoded" ELSE "again"

Converted(w) ==
    /\ work[w].pc = "convert" /\ ~Big(work[w].out)
    /\ Write({work[w].out}, Encoded(w))
    /\ Goto(w, [work[w] EXCEPT !.pc = "register", !.outs = {work[w].out}, !.made = TRUE])
    /\ UNCHANGED <<rec, table, control, crashes, faults>>

\* The same, and it is too big: it is split at once, under the lock of its source.
ConvertedTooBig(w) ==
    /\ work[w].pc = "convert" /\ Big(work[w].out)
    /\ LET dst == work[w].out
       IN /\ Encoded(w) \in Leaves(dst, Encoded(w))
          /\ content' = [f \in File |-> IF f = dst THEN Encoded(w)
                                        ELSE IF f \in PartsOf(dst) THEN "broken"
                                        ELSE content[f]]
          /\ torn' = (torn \ {dst}) \cup {f \in PartsOf(dst) : Writers(f) # {}}
    /\ Goto(w, [work[w] EXCEPT !.pc = "split"])
    /\ UNCHANGED <<rec, table, control, crashes, faults>>

\* No usable output: what lies there under its name is unlinked.
ConvertFails(w) ==
    /\ work[w].pc = "convert"
    /\ Fails({work[w].out})
    /\ Unlink({work[w].out}) /\ torn' = torn \ {work[w].out}
    /\ Goto(w, Idle)
    /\ UNCHANGED <<rec, table, control, crashes>>

\* AutoSplitter closes the first part and goes on with the second.
FirstPart(w) ==
    /\ work[w].pc \in {"split", "recover"} /\ ~work[w].first
    /\ Probes(work[w].out)
    /\ Write({p \in PartsOf(work[w].out) : Holds(p) = {1}}, content[work[w].out])
    /\ Goto(w, [work[w] EXCEPT !.first = TRUE])
    /\ UNCHANGED <<rec, table, control, crashes, faults>>

\* Its integrity check passed.  A converted source is consumed.
SplitDone(w) ==
    /\ work[w].pc \in {"split", "recover"} /\ work[w].first /\ Probes(work[w].out)
    /\ LET f == work[w].out
           last == {p \in PartsOf(f) : Holds(p) = {2}}
           good == content[f]
       IN /\ \A p \in PartsOf(f) : content[p] # "none"
          /\ \A p \in last : good \in Leaves(p, good)
          /\ content' = [g \in File |-> IF g \in last THEN good
                                        ELSE IF g = f /\ f # work[w].src THEN "none"
                                        ELSE content[g]]
          /\ torn' = torn \ last
          /\ Goto(w, [work[w] EXCEPT !.outs = PartsOf(f), !.made = TRUE,
                        !.pc = IF @ = "split" THEN "register" ELSE "requeue"])
    /\ UNCHANGED <<rec, table, control, crashes, faults>>

\* _cleanup_split_debris: every <stem>_part* goes, whoever made it.
SplitFails(w) ==
    /\ work[w].pc \in {"split", "recover"}
    /\ LET f == work[w].out
       IN /\ IF Probes(f) THEN Fails(PartsOf(f)) ELSE UNCHANGED faults
          /\ Unlink(PartsOf(f) \cup ({f} \ {work[w].src}))
          /\ torn' = torn \ PartsOf(f)
    /\ Goto(w, Idle)
    /\ UNCHANGED <<rec, table, control, crashes>>

-----------------------------------------------------------------------------
(* Registering the outputs *)

\* Rows with the digest of f.  Two broken files have no bytes in common.
Twins(f) == {g \in File : Known(g) /\ Holds(g) = Holds(f) /\ hashed[g] = content[f]
                          /\ content[f] \in Good}

\* register_file asks whether the path has a row and is stable; reconcile has
\* asked that of the source alone.
Asks(w) == w = "recorder" \/ work[w].pc = "requeue"

Accounted(w, f) == Goto(w, [work[w] EXCEPT !.outs = @ \ {f}])
Missed(w, f) == Goto(w, [work[w] EXCEPT !.outs = @ \ {f}, !.missed = TRUE])

AddItem(f) == /\ row' = [row EXCEPT ![f] = "pending"]
              /\ hashed' = [hashed EXCEPT ![f] = content[f]]

\* register_file of an output that is gone or still being written.
RegisterMisses(w, f) ==
    /\ IF Asks(w) THEN ~Known(f) /\ ~Stable(f) ELSE f \notin OnDisk
    /\ Missed(w, f)
    /\ UNCHANGED <<files, row, hashed, oversized>>

\* It has its row.  (reconcile does not ask; add_item ignores it.)
RegisterKnown(w, f) ==
    /\ Known(f)
    /\ Asks(w) \/ (f \in OnDisk /\ ~\E g \in Twins(f) \ {f} : row[g] = "sent")
    /\ Accounted(w, f)
    /\ UNCHANGED <<files, row, hashed, oversized>>

RegisterNew(w, f) ==
    /\ ~Known(f) /\ f \in OnDisk
    /\ IF Asks(w) THEN Stable(f) /\ Twins(f) = {}
       ELSE ~\E g \in Twins(f) : row[g] = "sent"
    /\ AddItem(f) /\ Accounted(w, f)
    /\ UNCHANGED <<files, oversized>>

\* reconcile: these bytes were sent under another name.
RegisterSent(w, f) ==
    /\ ~Asks(w) /\ f \in OnDisk
    /\ \E g \in Twins(f) \ {f} : row[g] = "sent"
    /\ Unlink({f}) /\ UNCHANGED torn
    /\ Accounted(w, f)
    /\ UNCHANGED <<row, hashed, oversized>>

\* _collapse: one copy stays, and the row follows it; a failed row is re-armed.
RegisterTwin(w, f) ==
    /\ Asks(w) /\ Stable(f) /\ ~Known(f)
    /\ \E g \in Twins(f) :
          /\ row[g] = "failed" => \A h \in Twins(f) : row[h] = "failed"
          /\ LET now == IF row[g] = "failed" THEN "pending" ELSE row[g]
                 adopt == /\ Unlink({g})
                          /\ row' = [row EXCEPT ![g] = "none", ![f] = now]
                          /\ hashed' = [hashed EXCEPT ![g] = "none", ![f] = hashed[g]]
                          /\ oversized' = oversized \ {g}
                 drop == /\ Unlink({f})
                         /\ row' = [row EXCEPT ![g] = now]
                         /\ oversized' = oversized \ {g}
                         /\ UNCHANGED hashed
             IN adopt \/ (g \in OnDisk /\ drop)
    /\ Accounted(w, f) /\ UNCHANGED torn

Register(w) ==
    /\ work[w].pc \in {"register", "requeue"} /\ work[w].outs # {}
    /\ LET f == FirstOf(work[w].outs)
       IN \/ RegisterMisses(w, f) \/ RegisterKnown(w, f) \/ RegisterNew(w, f)
          \/ RegisterSent(w, f) \/ RegisterTwin(w, f)
    /\ UNCHANGED <<rec, posted, control, crashes, faults>>

RetireAlways(w) == TRUE        \* mutant: also what was registered as it is

\* The replaced original is retired once every output is accounted for.
RetireOriginal(w) == work[w].made /\ ~work[w].missed

Retire(w) ==
    /\ work[w].pc = "register" /\ work[w].outs = {}
    /\ Unlink({f \in {work[w].src} : RetireOriginal(w)})
    /\ Goto(w, Idle)
    /\ UNCHANGED <<rec, torn, table, control, crashes, faults>>

\* recover_oversize_failed: the failed file is split under the lock ...
Recover ==
    /\ work["archiver"] = Idle /\ walk["archiver"] = {}
    /\ \E f \in oversized :
          /\ row[f] = "failed" /\ f \in OnDisk /\ Big(f) /\ ~Locked(f)
          /\ Open(PartsOf(f))
          /\ Goto("archiver", [Idle EXCEPT !.pc = "recover", !.src = f, !.out = f])
    /\ UNCHANGED <<rec, table, control, crashes, faults>>

\* ... and once its parts are registered the file goes, and then the row.
RetireOversize ==
    /\ work["archiver"].pc = "requeue" /\ work["archiver"].outs = {}
    /\ IF RetireOriginal("archiver")
       THEN /\ Unlink({work["archiver"].src})
            /\ Goto("archiver", [work["archiver"] EXCEPT !.pc = "forget"])
       ELSE Goto("archiver", Idle) /\ UNCHANGED content
    /\ UNCHANGED <<rec, torn, table, control, crashes, faults>>

Forget(f) == /\ row' = [row EXCEPT ![f] = "none"]
             /\ hashed' = [hashed EXCEPT ![f] = "none"]
             /\ oversized' = oversized \ {f}

DeleteRow ==
    /\ work["archiver"].pc = "forget"
    /\ Forget(work["archiver"].src)
    /\ Goto("archiver", Idle)
    /\ UNCHANGED <<rec, files, posted, control, crashes, faults>>

-----------------------------------------------------------------------------
(* The dispatcher, and deaths *)

NoSentTwin(f) == FALSE                   \* mutant: the digest is not asked at send time

SentTwin(f) == \E g \in File \ {f} : /\ row[g] = "sent" /\ Holds(g) = Holds(f)
                                     /\ hashed[g] = hashed[f] /\ hashed[f] \in Good

\* Missing: failed.  Too big: refused.  Sent before: suppressed.  Or posted.
Send(f) ==
    /\ row[f] = "pending"
    /\ IF f \notin OnDisk \/ Big(f)
       THEN /\ row' = [row EXCEPT ![f] = "failed"]
            /\ oversized' = IF f \in OnDisk THEN oversized \cup {f} ELSE oversized
            /\ UNCHANGED <<content, posted>>
       ELSE /\ row' = [row EXCEPT ![f] = "sent"]
            /\ posted' = IF SentTwin(f) THEN posted
                         ELSE posted \cup {<<f, content[f], Cardinality(posted) + 1>>}
            /\ Unlink({f}) /\ UNCHANGED oversized
    /\ UNCHANGED <<rec, torn, hashed, work, control, crashes, faults>>

\* delete_failed_missing
Collect(f) ==
    /\ row[f] = "failed" /\ f \notin OnDisk
    /\ Forget(f)
    /\ UNCHANGED <<rec, files, posted, work, control, crashes, faults>>

\* A worker dies with its encoder; locks are freed, what was being written
\* stays, and the recorder sweeps when it starts again.
Crash(w) ==
    /\ crashes < rec.deaths /\ crashes' = crashes + 1
    /\ Goto(w, Idle)
    /\ walk' = [walk EXCEPT ![w] = {}]
    /\ IF w = "recorder" THEN jobs' = {} /\ started' = FALSE ELSE UNCHANGED <<jobs, started>>
    /\ UNCHANGED <<rec, files, table, faults>>

Prepare(w) ==
    \/ PassThrough(w) \/ Busy(w) \/ Convert(w) \/ Split(w)
    \/ Converted(w) \/ ConvertedTooBig(w) \/ FirstPart(w) \/ SplitDone(w)

\* What a worker does once it has begun.
Proceed(w) ==
    \/ Pass(w) \/ Visit(w) \/ Prepare(w) \/ Register(w) \/ Retire(w)
    \/ w = "recorder" /\ (TakeJob \/ RemuxDone \/ Arrive)
    \/ w = "archiver" /\ (RetireOversize \/ DeleteRow)
    \/ ConvertFails(w) \/ SplitFails(w)
    \/ w = "recorder" /\ RemuxFails

Deliver == \E f \in File : Send(f) \/ Collect(f)

Step == \/ \E w \in Worker : Sweep(w) \/ Proceed(w) \/ Crash(w)
        \/ Recover \/ Deliver

\* Both have it in hand, or the uploader remuxes what the archiver has prepared.
Meet == \/ \A w \in Worker : work'[w] # Idle
        \/ jobs' # jobs /\ work'["recorder"].pc = "remux"
           /\ \E f \in File \ {"raw"} : f \in OnDisk \/ Known(f)

\* The lock is gone once prepare returns: what it made is made again, over
\* the output that is being registered and under the source about to be retired.
Remake == \E w \in Worker : \E f \in Writing(w)' \ Writing(w) : Probes(f)

Note == /\ met' = (met \/ Meet)
        /\ remade' = (remade \/ Remake)
        /\ half' = (half \/ \E f \in File : hashed'[f] = "broken")

Next == Step /\ Note

Spec == Init /\ [][Next]_vars

\* Both processes run on, every sweep of the archiver ends with the recovery of
\* what is oversize, and the dispatcher keeps draining.
FairSpec ==
    /\ Spec
    /\ \A w \in Worker : WF_vars((Sweep(w) \/ Proceed(w)) /\ Note)
    /\ SF_vars(Recover /\ Note)
    /\ WF_vars(Deliver /\ Note)

-----------------------------------------------------------------------------
(* Properties *)

TypeOK ==
    /\ rec \in Recordings
    /\ content \in [File -> Content] /\ torn \subseteq File
    /\ row \in [File -> Status] /\ hashed \in [File -> Content]
    /\ oversized \subseteq File /\ \A p \in posted : <<p[1], p[2]>> \in File \X Content
    /\ \A w \in Worker :
          /\ work[w].pc \in {"idle", "remux", "arrive", "probe", "convert", "split",
                             "recover", "register", "requeue", "forget"}
          /\ work[w].src \in File /\ work[w].out \in File /\ work[w].outs \subseteq File
          /\ walk[w] \subseteq File
    /\ jobs \subseteq File /\ started \in BOOLEAN /\ met \in BOOLEAN /\ remade \in BOOLEAN
    /\ half \in BOOLEAN
    /\ crashes \in 0..rec.deaths /\ faults \in 0..rec.faults

Posted(h) == {p \in posted : h \in Holds(p[1]) /\ p[2] \in Good}

\* Half h is in the chat, or whole in a file.
Kept(h) == Posted(h) # {} \/ \E f \in File : h \in Holds(f) /\ content[f] \in Good

\* No recording is ever lost: each half of the footage is in the chat or whole
\* in a file.  (_remux_for_telegram, register_media and _split say so.)
FootageKept == \A h \in {1, 2} : Kept(h)

BrokenPosted == \E p \in posted : p[2] = "broken"

\* The mp4 is converted and then split.
Intermediate == rec.oversize /\ (rec.stage = "captured" \/ rec.foreign)

\* The workers met where the lock does not help: it covers neither the remux
\* of the uploader, nor the mp4 on its way to be split under its own name, nor
\* the output a dead worker left half written.
Contended == met /\ (rec.fresh \/ Intermediate \/ crashes > 0)

\* And it ends before its outputs have rows and its source is retired.
Excused == Contended \/ remade

\* The footage survives conversion, splitting, registration, retirement and
\* collection, whatever fails or dies between two of these steps: originals go
\* only after every output is accounted for.
FootageSurvives == ~Excused /\ ~BrokenPosted => FootageKept

\* No half of the footage is posted twice, however often it was prepared again
\* after a death or a failed split: rows, digests and the send-time suppression
\* together see to it.  (Not if a row was made of bytes that a dead worker had
\* left half written: split again, the part no longer has the row's digest.)
PostedOnce == ~(met /\ rec.fresh) /\ ~half => \A h \in {1, 2} : Cardinality(Posted(h)) <= 1

\* No two encoders write one file (_prep_lock: "two workers picking up the
\* same big file write the same output names ... corrupt each other").
OneWriter == ~Contended => torn = {}

\* A row that failed and is not recovered waits for an operator.
Waits == \E f \in OnDisk : row[f] = "failed"

\* Every recording reaches the chat whole, or waits as a failed row: no pass of
\* a sweep, no death and no failed command strands it.
Delivered == <>[](\/ \A h \in {1, 2} : Posted(h) # {}
                  \/ Waits \/ Excused \/ BrokenPosted)
=============================================================================
