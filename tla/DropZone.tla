------------------------------ MODULE DropZone -------------------------------
(***************************************************************************)
(* Folders named after a chat (core/orphaned.py, ingest_folder): whatever   *)
(* the user drops there is made fit for Telegram, given rows, posted and    *)
(* removed.  The archiver's loop sweeps them under its ingest_lock;         *)
(* `archiver ingest` does the same work in another process, under no lock.  *)
(* All they share is the disk, the items table and two memos, each one JSON *)
(* value for every folder there is, read when a pass over one folder begins *)
(* and written back whole when it ends.                                     *)
(*                                                                          *)
(* MediaPrep models what prepare itself does to the disk when two processes *)
(* write one file, and what a death in the middle of it leaves behind; here *)
(* it is the step that ends it.                                             *)
(***************************************************************************)
EXTENDS Naturals, FiniteSets

CONSTANTS
    Sources,      \* what the user drops
    Folder,       \* [Sources -> the folder it is dropped into]
    Scenarios,    \* what is dropped, how often, and the policies, to consider
    MaxDrops      \* bound: how often one name is dropped

\* ready: sent as it is;  convert: Telegram cannot play it, an mp4 is made and
\* the original is posted beside it as a document;  vast: the same, and the
\* original is over the upload ceiling;  wrap: an .flv, of which only the mp4
\* is worth keeping;  large: playable, over the ceiling.
Kind == {"ready", "convert", "vast", "wrap", "large"}

Version == 0..MaxDrops

\* times: how often each name is dropped;  protected: a safebrake covers the
\* folders;  deleteAfter: delete_after_split;  runs, faults: bounds, how often
\* `archiver ingest` is run, and how often a process dies, a command fails or the
\* disk or the database does.
Scenario == [kind : [Sources -> Kind], times : [Sources -> Version],
             protected : BOOLEAN, deleteAfter : BOOLEAN, runs : Nat, faults : Nat]

ASSUME DropZoneAssumption ==
    /\ MaxDrops \in Nat \ {0}
    /\ Scenarios \subseteq Scenario

Ingester == {"loop", "cli"}

\* src: as dropped;  o1, o2: <stem>.mp4, or the two parts;  t: <stem>.tgprep.mp4;
\* d: the original split for upload;  do, dt: what a conversion of d makes.
Role == {"src", "o1", "o2", "t", "d", "do", "dt"}
Rank == [src |-> 1, o1 |-> 2, o2 |-> 3, t |-> 4, d |-> 5, do |-> 6, dt |-> 7]
Name == Sources \X Role

VARIABLES
    scenario,
    drops,        \* [Sources -> Version]: how often the name was dropped
    mtime,        \* [Sources -> Version]: of the file dropped last
    disk,         \* [Name -> Version]: the drop whose bytes lie there, 0 for no file
    row,          \* [Name -> "none" | "pending" | "sent"]
    memo,         \* [Name -> Version]: orphaned_prepped, orphaned_hashfail; 0 for no entry
    work,         \* [Ingester -> its pass]
    runs,         \* of `archiver ingest`
    posts,        \* [Posting -> 0..2]: what is in the chat; 2 is "more than once"
    faults,
    \* history
    contested,    \* sources two passes had in hand at a time
    died,         \* sources a process died over
    lapsed,       \* sources whose memo entry was lost, or saved too late to be seen
    forgone       \* postings given up for a reason of the code's own

world == <<scenario, drops, mtime>>
history == <<contested, died, lapsed, forgone>>
vars == <<world, disk, row, memo, work, runs, posts, faults, history>>

Posting == Sources \X {"whole", "document", "preview", "part1", "part2", "extra"} \X (1..MaxDrops)

Shape(n) == CASE n[2] = "src" -> scenario.kind[n[1]] [] n[2] = "d" -> "convert" [] OTHER -> "ready"

PieceOf(n) ==
    CASE n[2] = "src" -> IF scenario.kind[n[1]] = "ready" THEN "whole" ELSE "document"
      [] n[2] = "d" -> "document"
      [] n[2] = "o1" -> IF scenario.kind[n[1]] = "large" THEN "part1" ELSE "preview"
      [] n[2] = "o2" -> "part2"
      [] n[2] = "t" -> "preview"
      [] OTHER -> "extra"

\* What is posted of a drop when all goes well.
Pieces(f) == CASE scenario.kind[f] = "ready" -> {"whole"}
               [] scenario.kind[f] = "large" -> {"part1", "part2"}
               [] scenario.kind[f] = "wrap" -> {"preview"}
               [] OTHER -> {"preview", "document"}

\* What split_for_upload and the outputs of a drop are when they are made anew has a
\* new mtime, so that no memo of an older file matches (MadeAnew).
Mtime(n) == IF n[2] = "src" THEN mtime[n[1]] ELSE disk[n]

Nothing == [n \in Name |-> 0]
NoName == <<>>

Idle == [pc |-> "idle", walk |-> {}, cur |-> NoName, seen |-> 0, was |-> 0, outs |-> {},
         accounted |-> TRUE, unread |-> FALSE, keep |-> FALSE,
         blob |-> Nothing, dirty |-> {}]

Init ==
    /\ scenario \in Scenarios
    /\ drops = [f \in Sources |-> 0] /\ mtime = [f \in Sources |-> 0]
    /\ disk = Nothing /\ row = [n \in Name |-> "none"] /\ memo = Nothing
    /\ work = [i \in Ingester |-> Idle] /\ runs = 0
    /\ posts = [p \in Posting |-> 0]
    /\ faults = 0
    /\ contested = {} /\ died = {} /\ lapsed = {} /\ forgone = {}

Fault == faults < scenario.faults /\ faults' = faults + 1
OnDisk == {n \in Name : disk[n] # 0}
Goto(i, next) == work' = [work EXCEPT ![i] = next]
FirstOf(S) == CHOOSE n \in S : \A m \in S :
                 n[1] = m[1] => Rank[n[2]] <= Rank[m[2]]

\* <<f, p>> of every piece of the drop that was in hand.
Forgo(f, P, v) == forgone' = forgone \cup {<<f, p, v>> : p \in P}

-----------------------------------------------------------------------------
(* A pass over one folder *)

StartPass(i, d) ==
    /\ work[i].pc = "idle"
    /\ IF i = "cli" THEN runs < scenario.runs /\ runs' = runs + 1 ELSE UNCHANGED runs
    /\ Goto(i, [Idle EXCEPT !.pc = "walk", !.blob = memo,
                            !.walk = {n \in OnDisk : Folder[n[1]] = d}])
    /\ UNCHANGED <<world, disk, row, memo, posts, faults, history>>

\* _prep_lock, keyed on the source file.
Locked(n, i) == \E j \in Ingester \ {i} : work[j].pc = "prepare" /\ work[j].cur = n

\* What the pass leaves alone: gone, remembered, known by its path.
Skips(i, n) == \/ disk[n] = 0
               \/ work[i].blob[n] = Mtime(n)
               \/ row[n] # "none"

Skip(i) ==
    /\ work[i].pc = "walk" /\ work[i].walk # {}
    /\ LET n == FirstOf(work[i].walk) IN
        /\ Skips(i, n)
        /\ Goto(i, [work[i] EXCEPT !.walk = @ \ {n}])
    /\ UNCHANGED <<world, runs, disk, row, memo, posts, faults, history>>

RememberBusy(i, n) ==            \* mutant: busy is remembered like a failure
    [work[i] EXCEPT !.walk = @ \ {n}, !.blob[n] = Mtime(n), !.dirty = @ \cup {"prepped"}]

\* prep.busy: not memoized.
PassOver(i, n) == [work[i] EXCEPT !.walk = @ \ {n}]

Busy(i) ==
    /\ work[i].pc = "walk" /\ work[i].walk # {}
    /\ LET n == FirstOf(work[i].walk) IN
        /\ ~Skips(i, n) /\ Shape(n) # "ready" /\ Locked(n, i)
        /\ Goto(i, PassOver(i, n))
    /\ UNCHANGED <<world, runs, disk, row, memo, posts, faults, history>>

\* Where the outputs of n go: a clean name that is taken is not written to, the
\* tagged one and the parts of a split are.
Outputs(n) ==
    LET f == n[1]
        clean == <<f, IF n[2] = "d" THEN "do" ELSE "o1">>
        tagged == <<f, IF n[2] = "d" THEN "dt" ELSE "t">>
    IN CASE Shape(n) = "ready" -> {n}
         [] Shape(n) = "large" -> {<<f, "o1">>, <<f, "o2">>}
         [] OTHER -> {IF disk[clean] = 0 THEN clean ELSE tagged}

InHand(i) == IF work[i].cur = NoName THEN {} ELSE {work[i].cur[1]}

\* prepare finds work to do, or none.
Begin(i) ==
    /\ work[i].pc = "walk" /\ work[i].walk # {}
    /\ LET n == FirstOf(work[i].walk)
           f == n[1]
       IN
        /\ ~Skips(i, n) /\ (Shape(n) # "ready" => ~Locked(n, i))
        /\ Goto(i, [work[i] EXCEPT
                !.pc = IF Shape(n) = "ready" THEN "register" ELSE "prepare",
                !.walk = @ \ {n}, !.cur = n, !.seen = Mtime(n), !.was = disk[n],
                !.outs = Outputs(n), !.accounted = TRUE, !.unread = FALSE,
                !.keep = Shape(n) \in {"convert", "vast"}])
        /\ contested' = contested \cup
               {g \in {f} : \E j \in Ingester \ {i} : g \in InHand(j)}
        /\ lapsed' = lapsed \cup {g \in {f} : Mtime(n) \in {memo[n]} \cup {work[j].blob[n] : j \in Ingester}}
    /\ UNCHANGED <<world, runs, disk, row, memo, posts, faults, died, forgone>>

\* New files under the names S, with the bytes of drop v.
MadeAnew(i, S, v, next) ==
    LET fresh(b) == [n \in Name |-> IF n \in S THEN 0 ELSE b[n]] IN
    /\ disk' = [n \in Name |-> IF n \in S THEN v ELSE disk[n]]
    /\ memo' = fresh(memo)
    /\ work' = [j \in Ingester |->
                  IF j = i THEN [next EXCEPT !.blob = fresh(@)]
                  ELSE [work[j] EXCEPT !.blob = fresh(@),
                                       !.seen = IF work[j].cur \in S THEN 0 ELSE @]]

\* ffmpeg keeps reading a file that was unlinked.
Prepared(i) ==
    /\ work[i].pc = "prepare"
    /\ MadeAnew(i, work[i].outs, work[i].was,
                [work[i] EXCEPT !.pc = IF work[i].keep THEN "document" ELSE "register"])
    /\ UNCHANGED <<world, runs, row, posts, faults, history>>

\* The next file of the walk.
Done(i, next) == Goto(i, [next EXCEPT !.pc = "walk", !.cur = NoName, !.seen = 0, !.was = 0,
                                      !.outs = {}, !.accounted = TRUE, !.unread = FALSE,
                                      !.keep = FALSE])

FailureIgnored(i) ==             \* mutant: not prep.ok is not looked at
    /\ work[i].pc = "prepare"
    /\ IF disk[work[i].cur] = 0 THEN UNCHANGED faults ELSE Fault
    /\ disk' = [n \in Name |-> IF n \in work[i].outs THEN 0 ELSE disk[n]]
    /\ Goto(i, [work[i] EXCEPT !.pc = "register"])
    /\ UNCHANGED <<world, row, memo, runs, posts, history>>

\* The outputs, _cleanup_split_debris included, are removed; not prep.ok: memoized.
PrepareFails(i) ==
    /\ work[i].pc = "prepare"
    /\ IF disk[work[i].cur] = 0 THEN UNCHANGED faults ELSE Fault
    /\ disk' = [n \in Name |-> IF n \in work[i].outs THEN 0 ELSE disk[n]]
    /\ Done(i, [work[i] EXCEPT !.blob[work[i].cur] = work[i].seen,
                               !.dirty = @ \cup {"prepped"}])
    /\ Forgo(work[i].cur[1], Pieces(work[i].cur[1]), work[i].was)
    /\ UNCHANGED <<world, runs, row, memo, posts, contested, died, lapsed>>

\* split_for_upload on an original over the ceiling; without parts, no document.
SplitOriginal(i) ==
    /\ work[i].pc = "document" /\ Shape(work[i].cur) = "vast"
    /\ ~Locked(work[i].cur, i) /\ disk[work[i].cur] # 0
    /\ MadeAnew(i, {<<work[i].cur[1], "d">>}, work[i].was, [work[i] EXCEPT !.pc = "parts"])
    /\ UNCHANGED <<world, runs, row, posts, faults, history>>

NoDocument(i) ==
    /\ work[i].pc = "document" /\ Shape(work[i].cur) = "vast" /\ disk[work[i].cur] # 0
    /\ \/ Locked(work[i].cur, i) /\ UNCHANGED <<disk, faults>>
       \/ /\ ~Locked(work[i].cur, i) /\ Fault
          /\ disk' = [disk EXCEPT ![<<work[i].cur[1], "d">>] = 0]
    /\ Goto(i, [work[i] EXCEPT !.pc = "register", !.keep = FALSE])
    /\ Forgo(work[i].cur[1], {"document"}, work[i].was)
    /\ UNCHANGED <<world, runs, row, memo, posts, contested, died, lapsed>>

-----------------------------------------------------------------------------
(* Rows *)

\* register_file without the dedup: an insert unless the path has a row, or the
\* file is gone (UNSTABLE).
Insert(n) == row' = [row EXCEPT ![n] = IF @ = "none" /\ disk[n] # 0 THEN "pending" ELSE @]

\* The bytes cannot be read (HASH_FAILED), or the database raises.
Refused(n) == row[n] = "none" /\ disk[n] # 0 /\ Fault /\ UNCHANGED row

Document(i) == IF work[i].pc = "parts" THEN <<work[i].cur[1], "d">> ELSE work[i].cur

RegisterDocument(i) ==
    /\ \/ work[i].pc = "parts"
       \/ work[i].pc = "document" /\ Shape(work[i].cur) = "convert" /\ disk[work[i].cur] # 0
    /\ LET n == Document(i)
           next(ok) == [work[i] EXCEPT !.pc = "register", !.accounted = ok]
       IN \/ Insert(n) /\ Goto(i, next(TRUE)) /\ UNCHANGED <<faults, forgone>>
          \/ /\ Refused(n) /\ \E ok \in BOOLEAN : Goto(i, next(ok))
             /\ Forgo(n[1], {"document"}, work[i].was)
    /\ UNCHANGED <<world, runs, disk, memo, posts, contested, died, lapsed>>

Register(i) ==
    /\ work[i].pc = "register" /\ work[i].outs # {}
    /\ LET n == FirstOf(work[i].outs)
           next == [work[i] EXCEPT !.outs = @ \ {n}]
       IN \/ Insert(n) /\ Goto(i, next) /\ UNCHANGED faults
          \/ Refused(n) /\ Goto(i, [next EXCEPT !.unread = TRUE])       \* HASH_FAILED
          \/ Refused(n) /\ Goto(i, [next EXCEPT !.accounted = FALSE])   \* raised
    /\ UNCHANGED <<world, runs, disk, memo, posts, history>>

Finishing(i) == work[i].pc = "register" /\ work[i].outs = {}

\* An untouched original: what could not be read is quarantined until it changes.
FinishReady(i) ==
    /\ Finishing(i) /\ Shape(work[i].cur) = "ready"
    /\ LET n == work[i].cur
           entry == IF work[i].unread THEN work[i].seen ELSE 0
       IN
        /\ Done(i, IF entry = work[i].blob[n] THEN work[i]
                   ELSE [work[i] EXCEPT !.blob[n] = entry, !.dirty = @ \cup {"hashfail"}])
        /\ IF work[i].unread THEN Forgo(n[1], {PieceOf(n)}, work[i].was) ELSE UNCHANGED forgone
    /\ UNCHANGED <<world, runs, disk, row, memo, posts, faults, contested, died, lapsed>>

NotRemembered(i) == work[i]         \* mutant: a kept original is not memoized

Remembered(i) == [work[i] EXCEPT !.blob[work[i].cur] = work[i].seen,
                                 !.dirty = @ \cup {"prepped"}]

\* The kept original is memoized, whatever became of its document.
FinishKept(i) ==
    /\ Finishing(i) /\ Shape(work[i].cur) = "convert"
    /\ Done(i, Remembered(i))
    /\ UNCHANGED <<world, runs, disk, row, memo, posts, faults, history>>

\* HASH_FAILED and UNSTABLE count, an exception does not.
Accounted(i) == work[i].accounted

\* _delete_replaced_original: delete-after-split and the safebrake.
Retire(i) ==
    /\ Finishing(i) /\ Shape(work[i].cur) \in {"vast", "wrap", "large"}
    /\ IF Accounted(i) /\ scenario.deleteAfter /\ ~scenario.protected
       THEN disk' = [disk EXCEPT ![work[i].cur] = 0] /\ Done(i, work[i])
       ELSE UNCHANGED disk /\ Done(i, Remembered(i))
    /\ UNCHANGED <<world, runs, row, memo, posts, faults, history>>

\* Which memo an entry belongs to: prepare failed or replaced the file, or left it alone.
MemoOf(n) == IF Shape(n) = "ready" THEN "hashfail" ELSE "prepped"

\* Both are saved; the other pass sees none of them or both.
EndPass(i) ==
    /\ work[i].pc = "walk" /\ work[i].walk = {}
    /\ memo' = [n \in Name |-> IF MemoOf(n) \in work[i].dirty THEN work[i].blob[n] ELSE memo[n]]
    /\ lapsed' = lapsed \cup {n[1] : n \in {m \in OnDisk : memo[m] = Mtime(m) /\ memo'[m] # memo[m]}}
    /\ Goto(i, Idle)
    /\ UNCHANGED <<world, runs, disk, row, posts, faults, contested, died, forgone>>

\* The two memos are two commits: the death of EndPass between them.
HalfSaved(i) ==
    /\ work[i].pc = "walk" /\ work[i].walk = {} /\ "hashfail" \in work[i].dirty
    /\ memo' = [n \in Name |-> IF MemoOf(n) = "hashfail" THEN work[i].blob[n] ELSE memo[n]]

\* What the pass has learnt, and not saved, is in memory only.
PassIsLost(i) ==
    /\ died' = died \cup InHand(i)
    /\ lapsed' = lapsed \cup
         {n[1] : n \in {m \in OnDisk : \/ work[i].blob[m] = Mtime(m) /\ memo'[m] # Mtime(m)
                                       \/ memo[m] = Mtime(m) /\ memo'[m] # memo[m]}}
    /\ Goto(i, Idle)
    /\ UNCHANGED <<world, runs, disk, row, posts, contested, forgone>>

Die(i) ==
    /\ work[i].pc # "idle" /\ Fault
    /\ HalfSaved(i) \/ UNCHANGED memo
    /\ PassIsLost(i)

\* f.stat() of an original that left while it was converted raises, out of the pass.
Vanished(i) ==
    /\ work[i].pc = "document" /\ disk[work[i].cur] = 0
    /\ UNCHANGED <<memo, faults>> /\ PassIsLost(i)

-----------------------------------------------------------------------------
(* The dispatcher, and the user *)

Ship(n) ==
    /\ row[n] = "pending" /\ disk[n] # 0
    /\ posts' = [posts EXCEPT ![<<n[1], PieceOf(n), disk[n]>>] = IF @ = 0 THEN 1 ELSE 2]
    /\ IF scenario.protected
       THEN row' = [row EXCEPT ![n] = "sent"] /\ UNCHANGED disk
       ELSE row' = [row EXCEPT ![n] = "none"] /\ disk' = [disk EXCEPT ![n] = 0]
    /\ UNCHANGED <<world, runs, memo, work, faults, history>>

\* A row whose file is gone is failed, then swept away.
ShipMissing(n) ==
    /\ row[n] = "pending" /\ disk[n] = 0
    /\ row' = [row EXCEPT ![n] = "none"]
    /\ UNCHANGED <<world, runs, disk, memo, work, posts, faults, history>>

\* The user drops the next file of that name once the one before has left; a copy
\* that keeps its mtime (mv, cp -p) may be the same file again.
Drop(f, m) ==
    /\ drops[f] < scenario.times[f]
    /\ \A n \in Name : n[1] = f => disk[n] = 0 /\ row[n] = "none"
    /\ LET n == <<f, "src">>
           v == drops[f] + 1
       IN
        /\ m \in {mtime[f], v} \ {0}
        /\ drops' = [drops EXCEPT ![f] = v]
        /\ mtime' = [mtime EXCEPT ![f] = m]
        /\ disk' = [disk EXCEPT ![n] = v]
        /\ IF memo[n] = m \/ \E i \in Ingester : work[i].blob[n] = m \/ f \in InHand(i)
           THEN Forgo(f, Pieces(f), v) ELSE UNCHANGED forgone
    /\ UNCHANGED <<scenario, row, memo, work, runs, posts, faults, contested, died, lapsed>>

Step(i) == \/ Skip(i) \/ Busy(i) \/ Begin(i) \/ Prepared(i) \/ SplitOriginal(i) \/ NoDocument(i)
           \/ RegisterDocument(i) \/ Register(i) \/ FinishReady(i) \/ FinishKept(i) \/ Retire(i)
           \/ Vanished(i) \/ EndPass(i)

Next ==
    \/ \E i \in Ingester : \/ \E f \in Sources : StartPass(i, Folder[f])
                           \/ Step(i) \/ PrepareFails(i) \/ Die(i)
    \/ \E n \in Name : Ship(n) \/ ShipMissing(n)
    \/ \E f \in Sources, m \in Version : Drop(f, m)

\* The loop sweeps every folder again and again; a pass that was begun goes on;
\* the dispatcher ships what has a row.
Fairness ==
    /\ \A f \in Sources : SF_vars(StartPass("loop", Folder[f]))
    /\ \A i \in Ingester : WF_vars(Step(i))
    /\ \A n \in Name : WF_vars(Ship(n)) /\ WF_vars(ShipMissing(n))

Spec == Init /\ [][Next]_vars /\ Fairness

-----------------------------------------------------------------------------
(* Properties *)

\* The shape of the state: rows, memos and files of every name, one drop at a time.
TypeOK ==
    /\ scenario \in Scenarios
    /\ drops \in [Sources -> Version] /\ mtime \in [Sources -> Version]
    /\ disk \in [Name -> Version] /\ memo \in [Name -> Version]
    /\ row \in [Name -> {"none", "pending", "sent"}]
    /\ posts \in [Posting -> 0..2] /\ runs \in 0..scenario.runs /\ faults \in 0..scenario.faults
    /\ contested \cup died \cup lapsed \subseteq Sources /\ forgone \subseteq Posting

\* The memos and the rows together keep a file that stays on the disk (a kept
\* original, a safebraked folder) from being prepared and posted a second time -
\* unless two passes had it in hand at once, a process died over it, or the entry
\* that remembers it was overwritten by the other process or died with a pass.
PostedOnce ==
    \A p \in Posting : posts[p] = 2 => p[1] \in contested \cup died \cup lapsed

\* Until it is posted, or given up for a reason of the code's own (a document over
\* the ceiling that cannot be split, a drop a memo takes for the one before: forgone),
\* every piece of a drop is on the disk, in a file of its own or in the original.
BytesKept ==
    \A f \in Sources \ contested : \A p \in Pieces(f) : drops[f] # 0 =>
        \/ posts[<<f, p, drops[f]>>] > 0
        \/ \E n \in OnDisk : n[1] = f /\ (n[2] = "src" \/ PieceOf(n) = p)
        \/ p = "document" /\ <<f, p, drops[f]>> \in forgone

Posted == \A f \in Sources : \A p \in Pieces(f), v \in 1..drops[f] :
            <<f, p, v>> \in forgone \/ posts[<<f, p, v>>] > 0

\* Whatever fails, dies or is swept twice, each piece of each drop reaches the chat in
\* the end, or was given up for a reason the code has (it could not be prepared,
\* split or read, or came back under a remembered mtime).
EveryDropIsPosted == <>[]Posted
=============================================================================
