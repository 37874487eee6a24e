--------------------------- MODULE MediaPrepProofs ---------------------------
(***************************************************************************)
(* What MediaPrep keeps for every kind of recording, however often a worker *)
(* dies or a command fails and however the recorder, the archiver and the   *)
(* dispatcher interleave, but for the causes the statements name: no half   *)
(* of the footage is posted twice, no file has two encoders, and none of    *)
(* the footage is lost.                                                     *)
(*                                                                          *)
(* The invariant has four parts, each resting on the ones before it.  Types *)
(* says what the variables hold.  Traced says what each file of a recording *)
(* of this kind can be made of (Line), and that rows carry the digest of    *)
(* that one make (Rows).  Paired says what the lock keeps apart.  Footing   *)
(* says where each half of the footage is safe (Spread, Booked, InHand).    *)
(***************************************************************************)
EXTENDS MediaPrep, FiniteSetTheorems, TLAPS

-----------------------------------------------------------------------------
(* What a worker has in hand, and the types.  TypeOK says what each field   *)
(* holds; Types says too that a record has no other fields, so that what    *)
(* EXCEPT makes of it is known.                                             *)

WorkPC == {"idle", "remux", "arrive", "probe", "convert", "split", "recover", "register",
       "requeue", "forget"}

Fields(r) ==
    r = [pc |-> r.pc, src |-> r.src, out |-> r.out, first |-> r.first, outs |-> r.outs,
         made |-> r.made, missed |-> r.missed]

WorkType ==
    /\ work = [w \in Worker |-> work[w]]
    /\ \A w \in Worker : /\ Fields(work[w]) /\ work[w].pc \in WorkPC /\ work[w].src \in File
                         /\ work[w].out \in File /\ work[w].outs \in SUBSET File

WalkType == /\ walk = [w \in Worker |-> walk[w]] /\ \A w \in Worker : walk[w] \in SUBSET File
            /\ jobs \in SUBSET File /\ started \in BOOLEAN

FileType == content \in [File -> Content] /\ torn \in SUBSET File

TableType ==
    /\ row \in [File -> Status] /\ hashed \in [File -> Content] /\ oversized \in SUBSET File
    /\ \A p \in posted : p[1] \in File /\ p[2] \in Content

CountType ==
    /\ rec \in Recordings
    /\ met \in BOOLEAN /\ remade \in BOOLEAN /\ half \in BOOLEAN
    /\ crashes \in 0..rec.deaths /\ faults \in 0..rec.faults

Types == WorkType /\ WalkType /\ FileType /\ TableType /\ CountType

Rest(w) == /\ work' = [v \in Worker |-> work'[v]]
           /\ \A v \in Worker \ {w} : work'[v] = work[v]

\* The worker goes on with this in hand.
Becomes(w, p, s, o, S, a, m) ==
    /\ Rest(w) /\ Fields(work'[w])
    /\ work'[w].pc = p /\ work'[w].src = s /\ work'[w].out = o /\ work'[w].outs = S
    /\ (work'[w].first <=> a) /\ (work'[w].made <=> m)

LEMMA GotoIs ==
    ASSUME Types, NEW w \in Worker, NEW r, Goto(w, r)
    PROVE  work'[w] = r /\ Rest(w)
BY DEF Types, WorkType, Goto, Rest

LEMMA IdleIs ==
    /\ Fields(Idle) /\ Idle.pc = "idle" /\ Idle.src = "raw" /\ Idle.out = "raw"
    /\ Idle.outs = {} /\ Idle.first = FALSE /\ Idle.made = FALSE
BY DEF Idle, Fields

LEMMA FileFacts ==
    /\ File = {"raw", "mp4", "tgprep", "mp4_1", "mp4_2", "tgprep_1", "tgprep_2"}
    /\ PartsOf("mp4") = {"mp4_1", "mp4_2"} /\ PartsOf("tgprep") = {"tgprep_1", "tgprep_2"}
    /\ \A f \in File \ {"mp4", "tgprep"} : PartsOf(f) = {}
    /\ \A f \in File : PartsOf(f) \in SUBSET Part /\ f \notin PartsOf(f)
    /\ \A f \in {"raw", "mp4", "tgprep"} : Holds(f) = {1, 2}
    /\ \A f \in {"mp4_1", "tgprep_1"} : Holds(f) = {1}
    /\ \A f \in {"mp4_2", "tgprep_2"} : Holds(f) = {2}
BY DEF File, Whole, Part, PartsOf, Holds

LEMMA FirstIsIn ==
    ASSUME NEW S \in SUBSET File, S # {}
    PROVE  FirstOf(S) \in S
<1>1. \E f \in S : \A g \in S : Rank[f] <= Rank[g]
  <2> /\ Rank["raw"] = 1 /\ Rank["mp4"] = 2 /\ Rank["tgprep"] = 3 /\ Rank["tgprep_1"] = 4
      /\ Rank["tgprep_2"] = 5 /\ Rank["mp4_1"] = 6 /\ Rank["mp4_2"] = 7
    BY DEF Rank
  <2>1. CASE "raw" \in S
    BY <2>1, FileFacts
  <2>2. CASE "raw" \notin S /\ "mp4" \in S
    BY <2>2, FileFacts
  <2>3. CASE "raw" \notin S /\ "mp4" \notin S /\ "tgprep" \in S
    BY <2>3, FileFacts
  <2>4. CASE "raw" \notin S /\ "mp4" \notin S /\ "tgprep" \notin S /\ "tgprep_1" \in S
    BY <2>4, FileFacts
  <2>5. CASE /\ "raw" \notin S /\ "mp4" \notin S /\ "tgprep" \notin S /\ "tgprep_1" \notin S
             /\ "tgprep_2" \in S
    BY <2>5, FileFacts
  <2>6. CASE /\ "raw" \notin S /\ "mp4" \notin S /\ "tgprep" \notin S /\ "tgprep_1" \notin S
             /\ "tgprep_2" \notin S
    <3>1. S \subseteq {"mp4_1", "mp4_2"}
      BY <2>6, FileFacts
    <3>2. CASE "mp4_1" \in S
      BY <3>1, <3>2
    <3>3. CASE "mp4_1" \notin S
      <4>1. S = {"mp4_2"}
        BY <3>1, <3>3
      <4> QED BY <4>1
    <3> QED BY <3>2, <3>3
  <2> QED BY <2>1, <2>2, <2>3, <2>4, <2>5, <2>6
<1> QED BY <1>1 DEF FirstOf
\* What a record is with some of its fields changed.
LEMMA HandIs ==
    ASSUME Types, NEW w \in Worker, NEW r, Fields(r), NEW p, NEW s, NEW o, NEW S
    PROVE  /\ Goto(w, [r EXCEPT !.pc = p])
                => Becomes(w, p, r.src, r.out, r.outs, r.first, r.made)
           /\ Goto(w, [r EXCEPT !.pc = p, !.src = s])
                => Becomes(w, p, s, r.out, r.outs, r.first, r.made)
           /\ Goto(w, [r EXCEPT !.pc = p, !.src = s, !.out = o])
                => Becomes(w, p, s, o, r.outs, r.first, r.made)
           /\ Goto(w, [r EXCEPT !.pc = p, !.out = o])
                => Becomes(w, p, r.src, o, r.outs, r.first, r.made)
           /\ Goto(w, [r EXCEPT !.pc = p, !.outs = S])
                => Becomes(w, p, r.src, r.out, S, r.first, r.made)
           /\ Goto(w, [r EXCEPT !.outs = S])
                => Becomes(w, r.pc, r.src, r.out, S, r.first, r.made)
           /\ Goto(w, [r EXCEPT !.outs = S, !.missed = TRUE])
                => Becomes(w, r.pc, r.src, r.out, S, r.first, r.made)
           /\ Goto(w, [r EXCEPT !.first = TRUE])
                => Becomes(w, r.pc, r.src, r.out, r.outs, TRUE, r.made)
           /\ Goto(w, [r EXCEPT !.pc = p, !.outs = S, !.made = TRUE])
                => Becomes(w, p, r.src, r.out, S, r.first, TRUE)
           /\ Goto(w, [r EXCEPT !.outs = S, !.made = TRUE, !.pc = p])
                => Becomes(w, p, r.src, r.out, S, r.first, TRUE)
<1>1. ASSUME Goto(w, [r EXCEPT !.pc = p])
      PROVE  Becomes(w, p, r.src, r.out, r.outs, r.first, r.made)
  <2>1. work'[w] = [r EXCEPT !.pc = p] /\ Rest(w)
    BY <1>1, GotoIs
  <2>2. Fields(work'[w])
    BY <2>1 DEF Fields
  <2>3. /\ work'[w].pc = p /\ work'[w].src = r.src /\ work'[w].out = r.out
        /\ work'[w].outs = r.outs
        /\ (work'[w].first <=> r.first) /\ (work'[w].made <=> r.made)
    BY <2>1 DEF Fields
  <2> QED BY <2>1, <2>2, <2>3 DEF Becomes
<1>2. ASSUME Goto(w, [r EXCEPT !.pc = p, !.src = s])
      PROVE  Becomes(w, p, s, r.out, r.outs, r.first, r.made)
  <2>1. work'[w] = [r EXCEPT !.pc = p, !.src = s] /\ Rest(w)
    BY <1>2, GotoIs
  <2>2. Fields(work'[w])
    BY <2>1 DEF Fields
  <2>3. /\ work'[w].pc = p /\ work'[w].src = s /\ work'[w].out = r.out /\ work'[w].outs = r.outs
        /\ (work'[w].first <=> r.first) /\ (work'[w].made <=> r.made)
    BY <2>1 DEF Fields
  <2> QED BY <2>1, <2>2, <2>3 DEF Becomes
<1>3. ASSUME Goto(w, [r EXCEPT !.pc = p, !.src = s, !.out = o])
      PROVE  Becomes(w, p, s, o, r.outs, r.first, r.made)
  <2>1. work'[w] = [r EXCEPT !.pc = p, !.src = s, !.out = o] /\ Rest(w)
    BY <1>3, GotoIs
  <2>2. Fields(work'[w])
    BY <2>1 DEF Fields
  <2>3. /\ work'[w].pc = p /\ work'[w].src = s /\ work'[w].out = o /\ work'[w].outs = r.outs
        /\ (work'[w].first <=> r.first) /\ (work'[w].made <=> r.made)
    BY <2>1 DEF Fields
  <2> QED BY <2>1, <2>2, <2>3 DEF Becomes
<1>4. ASSUME Goto(w, [r EXCEPT !.pc = p, !.out = o])
      PROVE  Becomes(w, p, r.src, o, r.outs, r.first, r.made)
  <2>1. work'[w] = [r EXCEPT !.pc = p, !.out = o] /\ Rest(w)
    BY <1>4, GotoIs
  <2>2. Fields(work'[w])
    BY <2>1 DEF Fields
  <2>3. /\ work'[w].pc = p /\ work'[w].src = r.src /\ work'[w].out = o /\ work'[w].outs = r.outs
        /\ (work'[w].first <=> r.first) /\ (work'[w].made <=> r.made)
    BY <2>1 DEF Fields
  <2> QED BY <2>1, <2>2, <2>3 DEF Becomes
<1>5. ASSUME Goto(w, [r EXCEPT !.pc = p, !.outs = S])
      PROVE  Becomes(w, p, r.src, r.out, S, r.first, r.made)
  <2>1. work'[w] = [r EXCEPT !.pc = p, !.outs = S] /\ Rest(w)
    BY <1>5, GotoIs
  <2>2. Fields(work'[w])
    BY <2>1 DEF Fields
  <2>3. /\ work'[w].pc = p /\ work'[w].src = r.src /\ work'[w].out = r.out /\ work'[w].outs = S
        /\ (work'[w].first <=> r.first) /\ (work'[w].made <=> r.made)
    BY <2>1 DEF Fields
  <2> QED BY <2>1, <2>2, <2>3 DEF Becomes
<1>6. ASSUME Goto(w, [r EXCEPT !.outs = S])
      PROVE  Becomes(w, r.pc, r.src, r.out, S, r.first, r.made)
  <2>1. work'[w] = [r EXCEPT !.outs = S] /\ Rest(w)
    BY <1>6, GotoIs
  <2>2. Fields(work'[w])
    BY <2>1 DEF Fields
  <2>3. /\ work'[w].pc = r.pc /\ work'[w].src = r.src /\ work'[w].out = r.out
        /\ work'[w].outs = S
        /\ (work'[w].first <=> r.first) /\ (work'[w].made <=> r.made)
    BY <2>1 DEF Fields
  <2> QED BY <2>1, <2>2, <2>3 DEF Becomes
<1>7. ASSUME Goto(w, [r EXCEPT !.outs = S, !.missed = TRUE])
      PROVE  Becomes(w, r.pc, r.src, r.out, S, r.first, r.made)
  <2>1. work'[w] = [r EXCEPT !.outs = S, !.missed = TRUE] /\ Rest(w)
    BY <1>7, GotoIs
  <2>2. Fields(work'[w])
    BY <2>1 DEF Fields
  <2>3. /\ work'[w].pc = r.pc /\ work'[w].src = r.src /\ work'[w].out = r.out
        /\ work'[w].outs = S
        /\ (work'[w].first <=> r.first) /\ (work'[w].made <=> r.made)
    BY <2>1 DEF Fields
  <2> QED BY <2>1, <2>2, <2>3 DEF Becomes
<1>8. ASSUME Goto(w, [r EXCEPT !.first = TRUE])
      PROVE  Becomes(w, r.pc, r.src, r.out, r.outs, TRUE, r.made)
  <2>1. work'[w] = [r EXCEPT !.first = TRUE] /\ Rest(w)
    BY <1>8, GotoIs
  <2>2. Fields(work'[w])
    BY <2>1 DEF Fields
  <2>3. /\ work'[w].pc = r.pc /\ work'[w].src = r.src /\ work'[w].out = r.out
        /\ work'[w].outs = r.outs
        /\ (work'[w].first <=> TRUE) /\ (work'[w].made <=> r.made)
    BY <2>1 DEF Fields
  <2> QED BY <2>1, <2>2, <2>3 DEF Becomes
<1>9. ASSUME Goto(w, [r EXCEPT !.pc = p, !.outs = S, !.made = TRUE])
      PROVE  Becomes(w, p, r.src, r.out, S, r.first, TRUE)
  <2>1. work'[w] = [r EXCEPT !.pc = p, !.outs = S, !.made = TRUE] /\ Rest(w)
    BY <1>9, GotoIs
  <2>2. Fields(work'[w])
    BY <2>1 DEF Fields
  <2>3. /\ work'[w].pc = p /\ work'[w].src = r.src /\ work'[w].out = r.out /\ work'[w].outs = S
        /\ (work'[w].first <=> r.first) /\ (work'[w].made <=> TRUE)
    BY <2>1 DEF Fields
  <2> QED BY <2>1, <2>2, <2>3 DEF Becomes
<1>10. ASSUME Goto(w, [r EXCEPT !.outs = S, !.made = TRUE, !.pc = p])
      PROVE  Becomes(w, p, r.src, r.out, S, r.first, TRUE)
  <2>1. work'[w] = [r EXCEPT !.outs = S, !.made = TRUE, !.pc = p] /\ Rest(w)
    BY <1>10, GotoIs
  <2>2. Fields(work'[w])
    BY <2>1 DEF Fields
  <2>3. /\ work'[w].pc = p /\ work'[w].src = r.src /\ work'[w].out = r.out /\ work'[w].outs = S
        /\ (work'[w].first <=> r.first) /\ (work'[w].made <=> TRUE)
    BY <2>1 DEF Fields
  <2> QED BY <2>1, <2>2, <2>3 DEF Becomes
<1> QED BY <1>1, <1>2, <1>3, <1>4, <1>5, <1>6, <1>7, <1>8, <1>9, <1>10

LEMMA FromIdle ==
    ASSUME Types, NEW w \in Worker, NEW p, NEW s, NEW o
    PROVE  /\ Goto(w, [Idle EXCEPT !.pc = p, !.src = s])
                => Becomes(w, p, s, "raw", {}, FALSE, FALSE)
           /\ Goto(w, [Idle EXCEPT !.pc = p, !.src = s, !.out = o])
                => Becomes(w, p, s, o, {}, FALSE, FALSE)
           /\ Goto(w, Idle) => Becomes(w, "idle", "raw", "raw", {}, FALSE, FALSE)
<1>1. /\ Goto(w, [Idle EXCEPT !.pc = p, !.src = s])
            => Becomes(w, p, s, Idle.out, Idle.outs, Idle.first, Idle.made)
      /\ Goto(w, [Idle EXCEPT !.pc = p, !.src = s, !.out = o])
            => Becomes(w, p, s, o, Idle.outs, Idle.first, Idle.made)
  BY IdleIs, HandIs
<1>2. ASSUME Goto(w, Idle) PROVE Becomes(w, "idle", "raw", "raw", {}, FALSE, FALSE)
  <2>1. work'[w] = Idle /\ Rest(w)
    BY <1>2, GotoIs
  <2> QED BY <2>1, IdleIs DEF Becomes
<1> QED BY <1>1, <1>2, IdleIs

-----------------------------------------------------------------------------
(* What each action puts into a worker's hand.                              *)

LEMMA WorkStays ==
    ASSUME Types, NEW w \in Worker, NEW p \in WorkPC, NEW s \in File, NEW o \in File,
           NEW S \in SUBSET File, NEW a, NEW m, Becomes(w, p, s, o, S, a, m)
    PROVE  WorkType'
BY DEF Types, WorkType, Becomes, Rest

LEMMA TypesAreRight == Types => TypeOK
BY DEF Types, WorkType, WalkType, FileType, TableType, CountType, TypeOK, WorkPC

LEMMA GoesIdle ==
    ASSUME Types, NEW w \in Worker, Goto(w, Idle)
    PROVE  WorkType'
<1>1. Becomes(w, "idle", "raw", "raw", {}, FALSE, FALSE)
  BY FromIdle
<1>2. "idle" \in WorkPC /\ "raw" \in File /\ {} \in SUBSET File
  BY FileFacts DEF WorkPC
<1> QED BY <1>1, <1>2, WorkStays

LEMMA VisitIs ==
    ASSUME Types, NEW w \in Worker, Visit(w)
    PROVE  \E f \in walk[w] : f \in File /\ Becomes(w, "probe", f, "raw", {}, FALSE, FALSE)
<1> DEFINE f == FirstOf(walk[w])
<1>1. f \in walk[w] /\ f \in File
  BY FirstIsIn DEF Visit, Types, WalkType
<1>2. Goto(w, [Idle EXCEPT !.pc = "probe", !.src = f])
  BY DEF Visit
<1> HIDE DEF f
<1> QED BY <1>1, <1>2, FromIdle

LEMMA TakeJobIs ==
    ASSUME Types, TakeJob
    PROVE  \E f \in jobs :
              /\ f \in File /\ jobs' = jobs \ {f}
              /\ \/ /\ f \in OnDisk /\ Open({"mp4"})
                    /\ Becomes("recorder", "remux", f, "mp4", {}, FALSE, FALSE)
                 \/ UNCHANGED <<files, work>>
<1>1. PICK f \in jobs :
          /\ jobs' = jobs \ {f}
          /\ IF f \in OnDisk
             THEN Open({"mp4"}) /\ Goto("recorder", [Idle EXCEPT !.pc = "remux",
                                                      !.src = f, !.out = "mp4"])
             ELSE UNCHANGED <<files, work>>
  BY DEF TakeJob
<1>2. f \in File /\ "recorder" \in Worker
  BY DEF Types, WalkType, Worker
<1> QED BY <1>1, <1>2, FromIdle

LEMMA PassThroughIs ==
    ASSUME Types, NEW w \in Worker, PassThrough(w)
    PROVE  Becomes(w, "register", work[w].src, work[w].out, {work[w].src}, work[w].first,
                   work[w].made)
<1>1. Fields(work[w]) /\ w \in Worker
  BY DEF Types, WorkType, Worker
<1> QED BY <1>1, HandIs DEF PassThrough

LEMMA ConvertIs ==
    ASSUME Types, NEW w \in Worker, Convert(w)
    PROVE  Becomes(w, "convert", work[w].src, Target(work[w].src), work[w].outs, work[w].first,
                   work[w].made)
<1>1. Fields(work[w]) /\ w \in Worker
  BY DEF Types, WorkType, Worker
<1> QED BY <1>1, HandIs DEF Convert

LEMMA SplitIs ==
    ASSUME Types, NEW w \in Worker, Split(w)
    PROVE  Becomes(w, "split", work[w].src, work[w].src, work[w].outs, work[w].first,
                   work[w].made)
<1>1. Fields(work[w]) /\ w \in Worker
  BY DEF Types, WorkType, Worker
<1> QED BY <1>1, HandIs DEF Split

LEMMA ConvertedIs ==
    ASSUME Types, NEW w \in Worker, Converted(w)
    PROVE  Becomes(w, "register", work[w].src, work[w].out, {work[w].out}, work[w].first, TRUE)
<1>1. Fields(work[w]) /\ w \in Worker
  BY DEF Types, WorkType, Worker
<1> QED BY <1>1, HandIs DEF Converted

LEMMA ConvertedTooBigIs ==
    ASSUME Types, NEW w \in Worker, ConvertedTooBig(w)
    PROVE  Becomes(w, "split", work[w].src, work[w].out, work[w].outs, work[w].first,
                   work[w].made)
<1>1. Fields(work[w]) /\ w \in Worker
  BY DEF Types, WorkType, Worker
<1> QED BY <1>1, HandIs DEF ConvertedTooBig

LEMMA FirstPartIs ==
    ASSUME Types, NEW w \in Worker, FirstPart(w)
    PROVE  Becomes(w, work[w].pc, work[w].src, work[w].out, work[w].outs, TRUE, work[w].made)
<1>1. Fields(work[w]) /\ w \in Worker
  BY DEF Types, WorkType, Worker
<1> QED BY <1>1, HandIs DEF FirstPart

LEMMA SplitDoneIs ==
    ASSUME Types, NEW w \in Worker, SplitDone(w)
    PROVE  Becomes(w, (IF work[w].pc = "split" THEN "register" ELSE "requeue"), work[w].src,
                   work[w].out, PartsOf(work[w].out), work[w].first, TRUE)
<1>1. Fields(work[w]) /\ w \in Worker
  BY DEF Types, WorkType, Worker
<1> QED BY <1>1, HandIs DEF SplitDone

LEMMA RemuxDoneIs ==
    ASSUME Types, RemuxDone
    PROVE  Becomes("recorder", "arrive", "mp4", "raw", {}, FALSE, FALSE)
<1>1. Fields(work["recorder"]) /\ "recorder" \in Worker
  BY DEF Types, WorkType, Worker
<1> QED BY <1>1, FromIdle DEF RemuxDone

LEMMA RemuxFailsIs ==
    ASSUME Types, RemuxFails
    PROVE  Becomes("recorder", "arrive", work["recorder"].src, "raw", {}, FALSE, FALSE)
<1>1. Fields(work["recorder"]) /\ "recorder" \in Worker
  BY DEF Types, WorkType, Worker
<1> QED BY <1>1, FromIdle DEF RemuxFails

LEMMA ArriveIs ==
    ASSUME Types, Arrive
    PROVE  \/ Becomes("recorder", "probe", work["recorder"].src, work["recorder"].out,
                      work["recorder"].outs, work["recorder"].first, work["recorder"].made)
           \/ Becomes("recorder", "idle", "raw", "raw", {}, FALSE, FALSE)
<1>1. Fields(work["recorder"]) /\ "recorder" \in Worker
  BY DEF Types, WorkType, Worker
<1> QED BY <1>1, HandIs, FromIdle DEF Arrive

LEMMA RetireOversizeIs ==
    ASSUME Types, RetireOversize
    PROVE  \/ /\ RetireOriginal("archiver") /\ Unlink({work["archiver"].src})
              /\ Becomes("archiver", "forget", work["archiver"].src, work["archiver"].out,
                         work["archiver"].outs, work["archiver"].first, work["archiver"].made)
           \/ Becomes("archiver", "idle", "raw", "raw", {}, FALSE, FALSE) /\ UNCHANGED content
<1>1. Fields(work["archiver"]) /\ "archiver" \in Worker
  BY DEF Types, WorkType, Worker
<1> QED BY <1>1, HandIs, FromIdle DEF RetireOversize

LEMMA AccountedIs ==
    ASSUME Types, NEW w \in Worker, NEW f, Accounted(w, f)
    PROVE  Becomes(w, work[w].pc, work[w].src, work[w].out, work[w].outs \ {f}, work[w].first,
                   work[w].made)
<1>1. Fields(work[w]) /\ w \in Worker
  BY DEF Types, WorkType, Worker
<1> QED BY <1>1, HandIs DEF Accounted

LEMMA MissedIs ==
    ASSUME Types, NEW w \in Worker, NEW f, Missed(w, f)
    PROVE  Becomes(w, work[w].pc, work[w].src, work[w].out, work[w].outs \ {f}, work[w].first,
                   work[w].made)
<1>1. Fields(work[w]) /\ w \in Worker
  BY DEF Types, WorkType, Worker
<1> QED BY <1>1, HandIs DEF Missed

LEMMA RecoverIs ==
    ASSUME Types, Recover
    PROVE  \E f \in oversized :
              /\ f \in File /\ row[f] = "failed" /\ f \in OnDisk /\ Big(f) /\ ~Locked(f)
              /\ Open(PartsOf(f)) /\ work["archiver"] = Idle
              /\ Becomes("archiver", "recover", f, f, {}, FALSE, FALSE)
<1>1. PICK f \in oversized :
          /\ row[f] = "failed" /\ f \in OnDisk /\ Big(f) /\ ~Locked(f)
          /\ Open(PartsOf(f))
          /\ Goto("archiver", [Idle EXCEPT !.pc = "recover", !.src = f, !.out = f])
  BY DEF Recover
<1>2. f \in File /\ "archiver" \in Worker /\ work["archiver"] = Idle
  BY DEF Types, TableType, Worker, Recover
<1> QED BY <1>1, <1>2, FromIdle

-----------------------------------------------------------------------------
(* Every action keeps the types.                                            *)

CountStep ==
    /\ rec' = rec
    /\ crashes' = crashes \/ (crashes < rec.deaths /\ crashes' = crashes + 1)
    /\ faults' = faults \/ (faults < rec.faults /\ faults' = faults + 1)

\* What one action leaves behind is typed.
Typed == WorkType' /\ WalkType' /\ FileType' /\ TableType' /\ CountStep

LEMMA CountStays == ASSUME Types, CountStep, Note PROVE CountType'
<1>1. rec.deaths \in Nat /\ rec.faults \in Nat
  BY PrepAssumption DEF Types, CountType, Recording
<1>2. crashes' \in 0..rec.deaths /\ faults' \in 0..rec.faults
  BY <1>1 DEF Types, CountType, CountStep
<1> QED BY <1>2 DEF Types, CountType, CountStep, Note

LEMMA OpenTyped ==
    ASSUME Types, NEW S \in SUBSET File, Open(S)
    PROVE  FileType'
BY DEF Types, FileType, Open, Content, Good

LEMMA UnlinkTyped ==
    ASSUME Types, NEW S, Unlink(S), torn' \in SUBSET torn
    PROVE  FileType'
BY DEF Types, FileType, Unlink, Content, Good

LEMMA WriteTyped ==
    ASSUME Types, NEW S, NEW g \in Content, Write(S, g)
    PROVE  FileType'
BY DEF Types, FileType, Write

LEMMA PartsAreFiles == \A f \in File : PartsOf(f) \in SUBSET File /\ Target(f) \in File
BY FileFacts DEF Part, Target

LEMMA SamesTyped ==
    ASSUME Types
    PROVE  /\ UNCHANGED work => WorkType'
           /\ UNCHANGED <<walk, jobs, started>> => WalkType'
           /\ UNCHANGED files => FileType'
           /\ UNCHANGED table => TableType'
BY DEF Types, WorkType, WalkType, FileType, TableType, files, table

LEMMA SweepTyped ==
    ASSUME Types, NEW w \in Worker, Sweep(w)
    PROVE  Typed
<1> USE DEF Types
<1>1. WorkType'
  BY SamesTyped DEF Sweep
<1>2. WalkType'
  BY DEF Sweep, WalkType, OnDisk
<1>3. FileType'
  BY SamesTyped DEF Sweep, files
<1>4. TableType'
  BY SamesTyped DEF Sweep, table
<1>5. CountStep
  BY DEF CountStep, Sweep
<1> QED BY <1>1, <1>2, <1>3, <1>4, <1>5 DEF Typed

LEMMA PassTyped ==
    ASSUME Types, NEW w \in Worker, Pass(w)
    PROVE  Typed
<1> USE DEF Types
<1>1. FirstOf(walk[w]) \in File
  BY FirstIsIn DEF Pass, WalkType
<1>2. WorkType'
  BY <1>1, SamesTyped DEF Pass
<1>3. WalkType'
  BY <1>1 DEF Pass, WalkType
<1>4. FileType'
  BY <1>1, <1>1, UnlinkTyped DEF Pass, OnDisk
<1>5. TableType'
  BY <1>1 DEF Pass, TableType, Status
<1>6. CountStep
  BY <1>1 DEF CountStep, Pass
<1> QED BY <1>1, <1>2, <1>3, <1>4, <1>5, <1>6 DEF Typed

LEMMA VisitTyped ==
    ASSUME Types, NEW w \in Worker, Visit(w)
    PROVE  Typed
<1> USE DEF Types
<1>1. WorkType'
  BY VisitIs, WorkStays, FileFacts DEF WorkPC
<1>2. WalkType'
  BY DEF Visit, WalkType
<1>3. FileType'
  BY SamesTyped DEF Visit, files
<1>4. TableType'
  BY SamesTyped DEF Visit, table
<1>5. CountStep
  BY DEF CountStep, Visit
<1> QED BY <1>1, <1>2, <1>3, <1>4, <1>5 DEF Typed

LEMMA TakeJobTyped ==
    ASSUME Types, TakeJob
    PROVE  Typed
<1> USE DEF Types
<1>1. PICK f \in jobs :
                /\ f \in File /\ jobs' = jobs \ {f}
                /\ \/ /\ Open({"mp4"})
                      /\ Becomes("recorder", "remux", f, "mp4", {}, FALSE, FALSE)
                   \/ UNCHANGED <<files, work>>
  BY TakeJobIs
<1>2. /\ walk' = walk /\ started' = started /\ rec' = rec /\ crashes' = crashes
      /\ faults' = faults /\ table' = table
  BY DEF TakeJob
<1>3. "recorder" \in Worker
  BY DEF Worker
<1>4. WorkType'
  BY <1>1, <1>2, <1>3, WorkStays, SamesTyped, FileFacts DEF WorkPC
<1>5. WalkType'
  BY <1>1, <1>2, <1>3 DEF WalkType
<1>6. FileType'
  BY <1>1, <1>2, <1>3, OpenTyped, SamesTyped, FileFacts
<1>7. TableType'
  BY <1>1, <1>2, <1>3, SamesTyped
<1>8. CountStep
  BY <1>1, <1>2, <1>3 DEF CountStep
<1> QED BY <1>1, <1>2, <1>3, <1>4, <1>5, <1>6, <1>7, <1>8 DEF Typed

LEMMA RemuxDoneTyped ==
    ASSUME Types, RemuxDone
    PROVE  Typed
<1> USE DEF Types
<1>1. /\ work["recorder"].src \in File /\ work["recorder"].pc \in WorkPC
      /\ "recorder" \in Worker /\ work["recorder"].out \in File
      /\ work["recorder"].outs \in SUBSET File
  BY DEF WorkType, Worker
<1>2. WorkType'
  BY <1>1, RemuxDoneIs, WorkStays, FileFacts DEF WorkPC
<1>3. WalkType'
  BY <1>1, SamesTyped DEF RemuxDone, control
<1>4. FileType'
  BY <1>1 DEF RemuxDone, FileType, Leaves, Content, Good
<1>5. TableType'
  BY <1>1, SamesTyped DEF RemuxDone, table
<1>6. CountStep
  BY <1>1 DEF CountStep, RemuxDone
<1> QED BY <1>1, <1>2, <1>3, <1>4, <1>5, <1>6 DEF Typed

LEMMA RemuxFailsTyped ==
    ASSUME Types, RemuxFails
    PROVE  Typed
<1> USE DEF Types
<1>1. /\ work["recorder"].src \in File /\ work["recorder"].pc \in WorkPC
      /\ "recorder" \in Worker /\ work["recorder"].out \in File
      /\ work["recorder"].outs \in SUBSET File
  BY DEF WorkType, Worker
<1>2. WorkType'
  BY <1>1, RemuxFailsIs, WorkStays, FileFacts DEF WorkPC
<1>3. WalkType'
  BY <1>1, SamesTyped DEF RemuxFails, control
<1>4. FileType'
  BY <1>1, UnlinkTyped DEF RemuxFails
<1>5. TableType'
  BY <1>1, SamesTyped DEF RemuxFails, table
<1>6. CountStep
  BY <1>1 DEF CountStep, RemuxFails, Fault
<1> QED BY <1>1, <1>2, <1>3, <1>4, <1>5, <1>6 DEF Typed

LEMMA ArriveTyped ==
    ASSUME Types, Arrive
    PROVE  Typed
<1> USE DEF Types
<1>1. /\ work["recorder"].src \in File /\ work["recorder"].pc \in WorkPC
      /\ "recorder" \in Worker /\ work["recorder"].out \in File
      /\ work["recorder"].outs \in SUBSET File
  BY DEF WorkType, Worker
<1>2. WorkType'
  BY <1>1, ArriveIs, WorkStays, FileFacts DEF WorkPC
<1>3. WalkType'
  BY <1>1, SamesTyped DEF Arrive, control
<1>4. FileType'
  BY <1>1, SamesTyped DEF Arrive, files
<1>5. TableType'
  BY <1>1, SamesTyped DEF Arrive, table
<1>6. CountStep
  BY <1>1 DEF CountStep, Arrive
<1> QED BY <1>1, <1>2, <1>3, <1>4, <1>5, <1>6 DEF Typed

LEMMA PassThroughTyped ==
    ASSUME Types, NEW w \in Worker, PassThrough(w)
    PROVE  Typed
<1> USE DEF Types
<1>1. /\ work[w].src \in File /\ work[w].out \in File /\ work[w].outs \in SUBSET File
      /\ work[w].pc \in WorkPC
  BY DEF WorkType
<1>2. WorkType'
  BY <1>1, PassThroughIs, WorkStays DEF WorkPC
<1>3. WalkType'
  BY <1>1, SamesTyped DEF PassThrough, control
<1>4. FileType'
  BY <1>1, SamesTyped DEF PassThrough, files
<1>5. TableType'
  BY <1>1, SamesTyped DEF PassThrough, table
<1>6. CountStep
  BY <1>1 DEF CountStep, PassThrough
<1> QED BY <1>1, <1>2, <1>3, <1>4, <1>5, <1>6 DEF Typed

LEMMA BusyTyped ==
    ASSUME Types, NEW w \in Worker, Busy(w)
    PROVE  Typed
<1> USE DEF Types
<1>1. /\ work[w].src \in File /\ work[w].out \in File /\ work[w].outs \in SUBSET File
      /\ work[w].pc \in WorkPC
  BY DEF WorkType
<1>2. WorkType'
  BY <1>1, GoesIdle DEF Busy
<1>3. WalkType'
  BY <1>1, SamesTyped DEF Busy, control
<1>4. FileType'
  BY <1>1, SamesTyped DEF Busy, files
<1>5. TableType'
  BY <1>1, SamesTyped DEF Busy, table
<1>6. CountStep
  BY <1>1 DEF CountStep, Busy
<1> QED BY <1>1, <1>2, <1>3, <1>4, <1>5, <1>6 DEF Typed

LEMMA ConvertTyped ==
    ASSUME Types, NEW w \in Worker, Convert(w)
    PROVE  Typed
<1> USE DEF Types
<1>1. /\ work[w].src \in File /\ work[w].out \in File /\ work[w].outs \in SUBSET File
      /\ work[w].pc \in WorkPC
  BY DEF WorkType
<1>2. WorkType'
  BY <1>1, ConvertIs, WorkStays, PartsAreFiles DEF WorkPC
<1>3. WalkType'
  BY <1>1, SamesTyped DEF Convert, control
<1>4. FileType'
  BY <1>1, PartsAreFiles, OpenTyped DEF Convert
<1>5. TableType'
  BY <1>1, SamesTyped DEF Convert, table
<1>6. CountStep
  BY <1>1 DEF CountStep, Convert
<1> QED BY <1>1, <1>2, <1>3, <1>4, <1>5, <1>6 DEF Typed

LEMMA SplitTyped ==
    ASSUME Types, NEW w \in Worker, Split(w)
    PROVE  Typed
<1> USE DEF Types
<1>1. /\ work[w].src \in File /\ work[w].out \in File /\ work[w].outs \in SUBSET File
      /\ work[w].pc \in WorkPC
  BY DEF WorkType
<1>2. WorkType'
  BY <1>1, SplitIs, WorkStays DEF WorkPC
<1>3. WalkType'
  BY <1>1, SamesTyped DEF Split, control
<1>4. FileType'
  BY <1>1, PartsAreFiles, OpenTyped DEF Split
<1>5. TableType'
  BY <1>1, SamesTyped DEF Split, table
<1>6. CountStep
  BY <1>1 DEF CountStep, Split
<1> QED BY <1>1, <1>2, <1>3, <1>4, <1>5, <1>6 DEF Typed

LEMMA ConvertedTyped ==
    ASSUME Types, NEW w \in Worker, Converted(w)
    PROVE  Typed
<1> USE DEF Types
<1>1. /\ work[w].src \in File /\ work[w].out \in File /\ work[w].outs \in SUBSET File
      /\ work[w].pc \in WorkPC
  BY DEF WorkType
<1>2. WorkType'
  BY <1>1, ConvertedIs, WorkStays DEF WorkPC
<1>3. WalkType'
  BY <1>1, SamesTyped DEF Converted, control
<1>4. FileType'
  BY <1>1, WriteTyped DEF Converted, Encoded, Content, Good
<1>5. TableType'
  BY <1>1, SamesTyped DEF Converted, table
<1>6. CountStep
  BY <1>1 DEF CountStep, Converted
<1> QED BY <1>1, <1>2, <1>3, <1>4, <1>5, <1>6 DEF Typed

LEMMA ConvertedTooBigTyped ==
    ASSUME Types, NEW w \in Worker, ConvertedTooBig(w)
    PROVE  Typed
<1> USE DEF Types
<1>1. /\ work[w].src \in File /\ work[w].out \in File /\ work[w].outs \in SUBSET File
      /\ work[w].pc \in WorkPC
  BY DEF WorkType
<1>2. WorkType'
  BY <1>1, ConvertedTooBigIs, WorkStays DEF WorkPC
<1>3. WalkType'
  BY <1>1, SamesTyped DEF ConvertedTooBig, control
<1>4. FileType'
  BY <1>1, PartsAreFiles DEF ConvertedTooBig, FileType, Encoded, Content, Good
<1>5. TableType'
  BY <1>1, SamesTyped DEF ConvertedTooBig, table
<1>6. CountStep
  BY <1>1 DEF CountStep, ConvertedTooBig
<1> QED BY <1>1, <1>2, <1>3, <1>4, <1>5, <1>6 DEF Typed

LEMMA ConvertFailsTyped ==
    ASSUME Types, NEW w \in Worker, ConvertFails(w)
    PROVE  Typed
<1> USE DEF Types
<1>1. /\ work[w].src \in File /\ work[w].out \in File /\ work[w].outs \in SUBSET File
      /\ work[w].pc \in WorkPC
  BY DEF WorkType
<1>2. WorkType'
  BY <1>1, GoesIdle DEF ConvertFails
<1>3. WalkType'
  BY <1>1, SamesTyped DEF ConvertFails, control
<1>4. FileType'
  BY <1>1, UnlinkTyped DEF ConvertFails
<1>5. TableType'
  BY <1>1, SamesTyped DEF ConvertFails, table
<1>6. CountStep
  BY <1>1 DEF CountStep, ConvertFails, Fails, Fault
<1> QED BY <1>1, <1>2, <1>3, <1>4, <1>5, <1>6 DEF Typed

LEMMA FirstPartTyped ==
    ASSUME Types, NEW w \in Worker, FirstPart(w)
    PROVE  Typed
<1> USE DEF Types
<1>1. /\ work[w].src \in File /\ work[w].out \in File /\ work[w].outs \in SUBSET File
      /\ work[w].pc \in WorkPC
  BY DEF WorkType
<1>2. WorkType'
  BY <1>1, FirstPartIs, WorkStays DEF WorkPC
<1>3. WalkType'
  BY <1>1, SamesTyped DEF FirstPart, control
<1>4. FileType'
  BY <1>1, WriteTyped DEF FirstPart, FileType
<1>5. TableType'
  BY <1>1, SamesTyped DEF FirstPart, table
<1>6. CountStep
  BY <1>1 DEF CountStep, FirstPart
<1> QED BY <1>1, <1>2, <1>3, <1>4, <1>5, <1>6 DEF Typed

LEMMA SplitDoneTyped ==
    ASSUME Types, NEW w \in Worker, SplitDone(w)
    PROVE  Typed
<1> USE DEF Types
<1>1. /\ work[w].src \in File /\ work[w].out \in File /\ work[w].outs \in SUBSET File
      /\ work[w].pc \in WorkPC
  BY DEF WorkType
<1>2. WorkType'
  BY <1>1, SplitDoneIs, WorkStays, PartsAreFiles DEF WorkPC
<1>3. WalkType'
  BY <1>1, SamesTyped DEF SplitDone, control
<1>4. FileType'
  BY <1>1 DEF SplitDone, FileType, Content
<1>5. TableType'
  BY <1>1, SamesTyped DEF SplitDone, table
<1>6. CountStep
  BY <1>1 DEF CountStep, SplitDone
<1> QED BY <1>1, <1>2, <1>3, <1>4, <1>5, <1>6 DEF Typed

LEMMA SplitFailsTyped ==
    ASSUME Types, NEW w \in Worker, SplitFails(w)
    PROVE  Typed
<1> USE DEF Types
<1>1. /\ work[w].src \in File /\ work[w].out \in File /\ work[w].outs \in SUBSET File
      /\ work[w].pc \in WorkPC
  BY DEF WorkType
<1>2. WorkType'
  BY <1>1, GoesIdle DEF SplitFails
<1>3. WalkType'
  BY <1>1, SamesTyped DEF SplitFails, control
<1>4. FileType'
  BY <1>1, UnlinkTyped DEF SplitFails
<1>5. TableType'
  BY <1>1, SamesTyped DEF SplitFails, table
<1>6. CountStep
  BY <1>1 DEF CountStep, SplitFails, Fails, Fault
<1> QED BY <1>1, <1>2, <1>3, <1>4, <1>5, <1>6 DEF Typed

LEMMA RetireTyped ==
    ASSUME Types, NEW w \in Worker, Retire(w)
    PROVE  Typed
<1> USE DEF Types
<1>1. /\ work[w].src \in File /\ work[w].out \in File /\ work[w].outs \in SUBSET File
      /\ work[w].pc \in WorkPC
  BY DEF WorkType
<1>2. WorkType'
  BY <1>1, GoesIdle DEF Retire
<1>3. WalkType'
  BY <1>1, SamesTyped DEF Retire, control
<1>4. FileType'
  BY <1>1, UnlinkTyped DEF Retire
<1>5. TableType'
  BY <1>1, SamesTyped DEF Retire, table
<1>6. CountStep
  BY <1>1 DEF CountStep, Retire
<1> QED BY <1>1, <1>2, <1>3, <1>4, <1>5, <1>6 DEF Typed

LEMMA RecoverTyped ==
    ASSUME Types, Recover
    PROVE  Typed
<1> USE DEF Types
<1>1. PICK f \in oversized :
                /\ f \in File /\ Open(PartsOf(f))
                /\ Becomes("archiver", "recover", f, f, {}, FALSE, FALSE)
  BY RecoverIs
<1>2. "archiver" \in Worker
  BY DEF Worker
<1>3. WorkType'
  BY <1>1, <1>2, WorkStays DEF WorkPC
<1>4. WalkType'
  BY <1>1, <1>2, SamesTyped DEF Recover, control
<1>5. FileType'
  BY <1>1, <1>2, PartsAreFiles, OpenTyped
<1>6. TableType'
  BY <1>1, <1>2, SamesTyped DEF Recover, table
<1>7. CountStep
  BY <1>1, <1>2 DEF CountStep, Recover
<1> QED BY <1>1, <1>2, <1>3, <1>4, <1>5, <1>6, <1>7 DEF Typed

LEMMA RetireOversizeTyped ==
    ASSUME Types, RetireOversize
    PROVE  Typed
<1> USE DEF Types
<1>1. /\ work["archiver"].src \in File /\ work["archiver"].pc \in WorkPC
      /\ "archiver" \in Worker /\ work["archiver"].out \in File
      /\ work["archiver"].outs \in SUBSET File
  BY DEF WorkType, Worker
<1>2. WorkType'
  <2>1. CASE Goto("archiver", Idle)
    BY <1>1, <2>1, GoesIdle
  <2>2. CASE Goto("archiver", [work["archiver"] EXCEPT !.pc = "forget"])
    <3>1. Fields(work["archiver"]) /\ "forget" \in WorkPC
      BY <1>1 DEF WorkType, WorkPC
    <3>2. Becomes("archiver", "forget", work["archiver"].src, work["archiver"].out,
                  work["archiver"].outs, work["archiver"].first, work["archiver"].made)
      BY <1>1, <2>2, <3>1, HandIs
    <3> QED BY <1>1, <3>1, <3>2, WorkStays
  <2> QED BY <2>1, <2>2 DEF RetireOversize
<1>3. WalkType'
  BY <1>1, SamesTyped DEF RetireOversize, control
<1>4. FileType'
  BY <1>1, UnlinkTyped DEF RetireOversize, FileType
<1>5. TableType'
  BY <1>1, SamesTyped DEF RetireOversize, table
<1>6. CountStep
  BY <1>1 DEF CountStep, RetireOversize
<1> QED BY <1>1, <1>2, <1>3, <1>4, <1>5, <1>6 DEF Typed

LEMMA DeleteRowTyped ==
    ASSUME Types, DeleteRow
    PROVE  Typed
<1> USE DEF Types
<1>1. /\ work["archiver"].src \in File /\ work["archiver"].pc \in WorkPC
      /\ "archiver" \in Worker /\ work["archiver"].out \in File
      /\ work["archiver"].outs \in SUBSET File
  BY DEF WorkType, Worker
<1>2. WorkType'
  BY <1>1, GoesIdle DEF DeleteRow
<1>3. WalkType'
  BY <1>1, SamesTyped DEF DeleteRow, control
<1>4. FileType'
  BY <1>1, SamesTyped DEF DeleteRow, files
<1>5. TableType'
  BY <1>1 DEF DeleteRow, Forget, TableType, Status, Content
<1>6. CountStep
  BY <1>1 DEF CountStep, DeleteRow
<1> QED BY <1>1, <1>2, <1>3, <1>4, <1>5, <1>6 DEF Typed

LEMMA CrashTyped ==
    ASSUME Types, NEW w \in Worker, Crash(w)
    PROVE  Typed
<1> USE DEF Types
<1>1. WorkType'
  BY GoesIdle DEF Crash
<1>2. WalkType'
  BY DEF Crash, WalkType
<1>3. FileType'
  BY SamesTyped DEF Crash, files
<1>4. TableType'
  BY SamesTyped DEF Crash, table
<1>5. CountStep
  BY DEF CountStep, Crash
<1> QED BY <1>1, <1>2, <1>3, <1>4, <1>5 DEF Typed

LEMMA RegisterTyped ==
    ASSUME Types, NEW w \in Worker, Register(w)
    PROVE  Typed
<1> USE DEF Types
<1> DEFINE f == FirstOf(work[w].outs)
<1>1. /\ work[w].src \in File /\ work[w].out \in File /\ work[w].outs \in SUBSET File
      /\ work[w].pc \in WorkPC
  BY DEF WorkType
<1>2. f \in work[w].outs /\ f \in File
  BY <1>1, FirstIsIn DEF Register
<1>3. \/ RegisterMisses(w, f) \/ RegisterKnown(w, f) \/ RegisterNew(w, f)
      \/ RegisterSent(w, f) \/ RegisterTwin(w, f)
  BY DEF Register
<1>4. UNCHANGED posted /\ WalkType' /\ CountStep
  BY SamesTyped DEF Register, control, CountStep
<1> HIDE DEF f
<1>5. Accounted(w, f) \/ Missed(w, f)
  BY <1>3 DEF RegisterMisses, RegisterKnown, RegisterNew, RegisterSent, RegisterTwin
<1>6. WorkType'
  <2>1. work[w].outs \ {f} \in SUBSET File
    BY <1>1
  <2> QED BY <1>1, <1>5, <2>1, AccountedIs, MissedIs, WorkStays
<1>7. FileType'
  <2>1. CASE UNCHANGED files
    BY <2>1, SamesTyped
  <2>2. CASE ~UNCHANGED files
    <3>1. torn' = torn /\ \E S : Unlink(S)
      BY <1>3, <2>2 DEF RegisterMisses, RegisterKnown, RegisterNew, RegisterSent,
         RegisterTwin, files
    <3> QED BY <3>1, UnlinkTyped
  <2> QED BY <2>1, <2>2
<1>8. TableType'
  <2>1. CASE RegisterTwin(w, f)
    <3>1. PICK g \in Twins(f) : /\ row' \in [File -> Status]
                                /\ hashed' \in [File -> Content]
                                /\ oversized' \in SUBSET File
      BY <1>2, <2>1 DEF RegisterTwin, TableType, Twins, Status, Content
    <3> QED BY <1>4, <3>1 DEF TableType
  <2>2. CASE RegisterNew(w, f)
    BY <1>2, <1>4, <2>2 DEF RegisterNew, AddItem, TableType, FileType, Status
  <2>3. CASE UNCHANGED table
    BY <2>3, SamesTyped
  <2> QED BY <1>3, <1>4, <2>1, <2>2, <2>3 DEF RegisterMisses, RegisterKnown, RegisterSent, table
<1> QED BY <1>4, <1>6, <1>7, <1>8 DEF Typed

LEMMA DeliverTyped ==
    ASSUME Types, Deliver
    PROVE  Typed
<1> USE DEF Types
<1>1. PICK f \in File : Send(f) \/ Collect(f)
  BY DEF Deliver
<1>2. CASE Send(f)
  <2>1. WorkType' /\ WalkType' /\ CountStep
    BY <1>2, SamesTyped DEF Send, control, CountStep
  <2>2. row' \in [File -> Status] /\ hashed' = hashed /\ oversized' \in SUBSET File
    BY <1>2 DEF Send, TableType, Status
  <2>3. \A p \in posted' : p[1] \in File /\ p[2] \in Content
    BY <1>2 DEF Send, TableType, FileType
  <2>4. FileType'
    BY <1>2, UnlinkTyped DEF Send, FileType
  <2> QED BY <2>1, <2>2, <2>3, <2>4 DEF Typed, TableType
<1>3. CASE Collect(f)
  BY <1>3, SamesTyped DEF Typed, Collect, Forget, TableType, Status, Content, control, CountStep
<1> QED BY <1>1, <1>2, <1>3

LEMMA TypesStep ==
    ASSUME Types, [Next]_vars
    PROVE  Types'
<1>1. CASE UNCHANGED vars
  BY <1>1 DEF Types, WorkType, WalkType, FileType, TableType, CountType, vars, files, table,
     control
<1>2. CASE Next
  <2>1. Typed
    BY <1>2, SweepTyped, PassTyped, VisitTyped, TakeJobTyped, RemuxDoneTyped, RemuxFailsTyped,
       ArriveTyped, PassThroughTyped, BusyTyped, ConvertTyped, SplitTyped, ConvertedTyped,
       ConvertedTooBigTyped, ConvertFailsTyped, FirstPartTyped, SplitDoneTyped,
       SplitFailsTyped, RetireTyped, RecoverTyped, RetireOversizeTyped, DeleteRowTyped,
       CrashTyped, RegisterTyped, DeliverTyped
    DEF Next, Step, Proceed, Prepare
  <2> QED BY <1>2, <2>1, CountStays DEF Typed, Types, Next
<1> QED BY <1>1, <1>2

LEMMA InitTyped == Init => Types
<1> SUFFICES ASSUME Init PROVE Types
  OBVIOUS
<1>1. /\ rec \in Recordings /\ rec.deaths \in Nat /\ rec.faults \in Nat
      /\ 0 \in 0..rec.deaths /\ 0 \in 0..rec.faults
  BY PrepAssumption DEF Init, Recording
<1>2. WorkType
  BY IdleIs, FileFacts DEF Init, WorkType, WorkPC
<1>3. WalkType
  BY PrepAssumption DEF Init, WalkType, Recording, File, Whole
<1>4. FileType
  BY DEF Init, FileType, Content, Good
<1>5. TableType
  <2> DEFINE b == IF rec.stage = "captured" THEN "captured" ELSE "remuxed"
             f == IF rec.stage = "captured" THEN "raw" ELSE "mp4"
             S == {g \in {f} : rec.stage = "refused"}
  <2>1. /\ row = [g \in File |-> IF g \in S THEN "failed" ELSE "none"]
        /\ hashed = [g \in File |-> IF g \in S THEN b ELSE "none"]
        /\ oversized = S /\ posted = {}
    BY DEF Init
  <2>2. b \in Content /\ S \in SUBSET File
    BY FileFacts DEF Content, Good
  <2> QED BY <2>1, <2>2 DEF TableType, Status, Content
<1> QED BY <1>1, <1>2, <1>3, <1>4, <1>5 DEF Types, CountType, Init

\* The recording, its files, their rows and the workers' hands stay well-formed.
THEOREM PrepTypes == Spec => []TypeOK
<1>1. Init => Types
  BY InitTyped
<1>2. Types /\ [Next]_vars => Types'
  BY TypesStep
<1>3. Types => TypeOK
  BY TypesAreRight
<1> QED BY <1>1, <1>2, <1>3, PTL DEF Spec

-----------------------------------------------------------------------------
(* What the files of one recording are made of.  There is one way to make   *)
(* the mp4s of a recording of a given kind (encoded from the capture,       *)
(* copied by the uploader, or encoded again from its mp4), so any two good  *)
(* files that hold the same half have the same bytes, and a file that       *)
(* cannot be streamed is only ever the source of that one conversion.       *)

Makes == {"encoded", "remuxed", "again"}
Unfit(f) == content[f] = "captured" \/ (content[f] = "remuxed" /\ rec.foreign)
Registers(w) == work[w].pc \in {"register", "requeue"}
Splits(w) == work[w].pc \in {"split", "recover"}

\* A file that this recording can be made into.
Writable(f) == /\ f # "raw" /\ (f \in Part => rec.oversize)
               /\ f \in {"tgprep", "tgprep_1", "tgprep_2"} => rec.stage = "captured" \/ rec.foreign

\* A file of which c is made.
Consumed(c, f) == f = "raw" \/ (f = "mp4" /\ c = "again")

FilesFine(c) ==
    /\ content["raw"] \in {"captured", "none"} /\ content["mp4"] # "again"
    /\ rec.stage # "captured" => content["raw"] = "none"
    /\ \A f \in File :
          /\ content[f] = "captured" => f = "raw" /\ c = "encoded"
          /\ content[f] = "remuxed" =>
                /\ IF rec.foreign THEN f = "mp4" /\ c = "again" ELSE c = "remuxed"
                /\ rec.stage # "captured" \/ rec.fresh
          /\ content[f] \in {"encoded", "again"} => content[f] = c
          /\ f = "raw" \/ Writable(f) \/ content[f] = "none"
          /\ row[f] # "none" => Writable(f) /\ ~Unfit(f)
          /\ row[f] = "sent" => ~Big(f)
          /\ f \in oversized => Big(f)

HandFine(c, w) ==
    /\ work[w].pc = "convert" =>
          /\ rec.stage = "captured" \/ rec.foreign
          /\ work[w].out \in {"mp4", "tgprep"} /\ Writable(work[w].out)
          /\ \/ work[w].src = "raw" /\ c = "encoded"
             \/ work[w].src = "mp4" /\ c = "again" /\ work[w].out = "tgprep"
    /\ work[w].pc = "remux" => work[w].src = "raw" /\ work[w].out = "mp4"
    /\ Splits(w) => /\ work[w].out \in {"mp4", "tgprep"} /\ Writable(work[w].out) /\ rec.oversize
                    /\ ~Unfit(work[w].out)
                    /\ work[w].out # work[w].src => Consumed(c, work[w].src) /\ work[w].pc = "split"
    /\ Registers(w) /\ work[w].made => Big(work[w].src) \/ Consumed(c, work[w].src)
    /\ \A f \in work[w].outs : Registers(w) /\ ~Unfit(f) /\ (work[w].made => f # work[w].src)
    /\ work[w].pc \in {"recover", "requeue", "forget"} => Big(work[w].src)
    /\ work[w].pc \in {"remux", "arrive"} => w = "recorder" /\ rec.fresh
    /\ work[w].pc \in {"probe", "arrive", "convert", "remux"} => ~work[w].made /\ ~work[w].first
    /\ Splits(w) => ~work[w].made

JobsFine == jobs \subseteq {"raw"} /\ (jobs # {} => rec.fresh)

CleanRemux ==
    work["recorder"].pc = "remux" =>
        /\ work["archiver"] = Idle /\ content["mp4"] \in {"broken", "none"}
        /\ \A f \in File : row[f] = "none" /\ (f \notin {"raw", "mp4"} => content[f] = "none")

Line(c) == /\ FilesFine(c) /\ (\A w \in Worker : HandFine(c, w)) /\ JobsFine /\ CleanRemux
           /\ Occurs(rec)

Sound(c, f) == /\ f = "mp4" => c # "again"
               /\ c = "remuxed" => ~rec.foreign /\ (rec.stage # "captured" \/ rec.fresh)

Grows(c) == \A f \in File : \/ content'[f] \in {content[f], "none"}
                            \/ Writable(f) /\ content'[f] = "broken"
                            \/ Writable(f) /\ content'[f] = c /\ Sound(c, f)

RowsGrow == \A f \in File : /\ row'[f] # "none" => row[f] # "none" \/ (Writable(f) /\ ~Unfit(f))
                            /\ row'[f] = "sent" => row[f] = "sent" \/ ~Big(f)
                            /\ f \in oversized' => f \in oversized \/ Big(f)

LEMMA RecStays ==
    ASSUME rec' = rec
    PROVE  /\ \A f : (Writable(f)' <=> Writable(f)) /\ (Big(f)' <=> Big(f))
           /\ Occurs(rec)' <=> Occurs(rec)
BY DEF Writable, Big, Occurs

LEMMA UnfitStays ==
    ASSUME Types, NEW c \in Makes, Grows(c), rec' = rec
    PROVE  \A f \in File : Unfit(f)' => Unfit(f)
BY DEF Grows, Sound, Unfit, Makes

LEMMA FilesGrow ==
    ASSUME Types, NEW c \in Makes, FilesFine(c), Grows(c), RowsGrow, rec' = rec
    PROVE  FilesFine(c)'
<1>1. /\ content["raw"] \in {"captured", "none"} /\ content["mp4"] # "again"
      /\ rec.stage # "captured" => content["raw"] = "none"
  BY DEF FilesFine
<1>2. ~Writable("raw") /\ {"raw", "mp4"} \subseteq File
  BY FileFacts DEF Writable
<1>3. /\ content'["raw"] \in {"captured", "none"} /\ content'["mp4"] # "again"
      /\ rec.stage # "captured" => content'["raw"] = "none"
  BY <1>1, <1>2 DEF Grows, Sound, Makes
<1>4. ASSUME NEW f \in File
      PROVE  /\ content'[f] = "captured" => f = "raw" /\ c = "encoded"
             /\ content'[f] = "remuxed" =>
                   /\ IF rec.foreign THEN f = "mp4" /\ c = "again" ELSE c = "remuxed"
                   /\ rec.stage # "captured" \/ rec.fresh
             /\ content'[f] \in {"encoded", "again"} => content'[f] = c
             /\ f = "raw" \/ Writable(f) \/ content'[f] = "none"
  <2>1. /\ content[f] = "captured" => f = "raw" /\ c = "encoded"
        /\ content[f] = "remuxed" =>
              /\ IF rec.foreign THEN f = "mp4" /\ c = "again" ELSE c = "remuxed"
              /\ rec.stage # "captured" \/ rec.fresh
        /\ content[f] \in {"encoded", "again"} => content[f] = c
        /\ f = "raw" \/ Writable(f) \/ content[f] = "none"
    BY DEF FilesFine
  <2> QED BY <2>1 DEF Grows, Sound, Makes
<1>5. ASSUME NEW f \in File
      PROVE  /\ row'[f] # "none" => Writable(f) /\ ~Unfit(f)'
             /\ row'[f] = "sent" => ~Big(f)
             /\ f \in oversized' => Big(f)
  BY UnfitStays DEF RowsGrow, FilesFine
<1> QED BY <1>3, <1>4, <1>5, RecStays DEF FilesFine

LEMMA HandStays ==
    ASSUME Types, NEW c \in Makes, NEW w \in Worker, HandFine(c, w), work'[w] = work[w], Grows(c),
           rec' = rec
    PROVE  HandFine(c, w)'
<1>1. work[w].out \in File /\ work[w].outs \in SUBSET File
  BY DEF Types, WorkType
<1> QED BY <1>1, UnfitStays, RecStays DEF HandFine, Splits, Registers, Consumed

LEMMA IdleFine ==
    ASSUME Types, NEW c, NEW w \in Worker, NEW s, NEW o, NEW a, NEW m,
           Becomes(w, "idle", s, o, {}, a, m)
    PROVE  HandFine(c, w)'
BY DEF HandFine, Becomes, Splits, Registers

LEMMA NotRemux ==
    ASSUME Types, CleanRemux, NEW w \in Worker, Rest(w), work[w].pc \notin {"idle", "remux"},
           work'[w].pc # "remux"
    PROVE  work'["recorder"].pc # "remux"
BY IdleIs DEF CleanRemux, Rest, Worker

LEMMA RemuxStays ==
    ASSUME Types, NEW c, Line(c), Note, ~(met' /\ rec.fresh), UNCHANGED <<content, row>>,
           work'["recorder"].pc = "remux" => work["recorder"].pc = "remux"
    PROVE  CleanRemux'
<1> SUFFICES ASSUME work'["recorder"].pc = "remux"
             PROVE  CleanRemux'
  BY DEF CleanRemux
<1>1. ~met' /\ CleanRemux
  BY DEF Line, HandFine, Worker
<1>2. work'["archiver"] = Idle
  BY <1>1, IdleIs DEF Note, Meet, Worker
<1> QED BY <1>1, <1>2 DEF CleanRemux

LEMMA LineStays ==
    ASSUME Types, NEW c \in Makes, Line(c), NEW w \in Worker, Rest(w), Grows(c), RowsGrow,
           rec' = rec, HandFine(c, w)', jobs' \subseteq jobs, CleanRemux'
    PROVE  Line(c)'
<1>1. \A v \in Worker : HandFine(c, v)'
  BY HandStays DEF Line, Rest
<1> QED BY <1>1, FilesGrow, RecStays DEF Line, JobsFine

LEMMA Quiet ==
    ASSUME UNCHANGED <<content, row, oversized>>
    PROVE  \A c : Grows(c) /\ RowsGrow
BY DEF Grows, RowsGrow

-----------------------------------------------------------------------------
(* The actions that write files keep the line.                              *)

\* What is not streamable, and what can be split.
LEMMA UnfitFile ==
    ASSUME Types, NEW c, FilesFine(c), NEW f \in File, Probes(f), ~Streamable(f)
    PROVE  /\ Unfit(f) /\ f \in {"raw", "mp4"} /\ (rec.stage = "captured" \/ rec.foreign)
           /\ f = "raw" => c = "encoded"
           /\ f = "mp4" => c = "again"
BY DEF FilesFine, Probes, Streamable, Unfit, Good

LEMMA GoodIsMade ==
    ASSUME Types, NEW c, FilesFine(c), NEW f \in File, Probes(f), ~Unfit(f)
    PROVE  /\ content[f] = c
           /\ c = "remuxed" => ~rec.foreign /\ (rec.stage # "captured" \/ rec.fresh)
BY DEF FilesFine, Probes, Unfit, Good

LEMMA SplittableFile ==
    ASSUME Types, NEW c, FilesFine(c), NEW f \in File, NeedsWork(f), Probes(f) => Streamable(f)
    PROVE  f \in {"mp4", "tgprep"} /\ Writable(f) /\ rec.oversize /\ ~Unfit(f)
BY DEF FilesFine, Probes, Streamable, Unfit, Good, NeedsWork, Big

LEMMA PartsWritable ==
    ASSUME NEW f \in {"mp4", "tgprep"}, Writable(f), rec.oversize
    PROVE  \A p \in PartsOf(f) : Writable(p)
BY FileFacts DEF Writable

LEMMA BusyLine ==
    ASSUME Types, NEW c \in Makes, Line(c), Note, ~(met' /\ rec.fresh),
           NEW w \in Worker, Busy(w)
    PROVE  Line(c)'
<1>1. Becomes(w, "idle", "raw", "raw", {}, FALSE, FALSE)
  BY FromIdle DEF Busy
<1>2. /\ work[w].pc = "probe" /\ rec' = rec /\ jobs' = jobs /\ w \in Worker
      /\ FilesFine(c) /\ HandFine(c, w) /\ CleanRemux
      /\ work[w].src \in File /\ work[w].out \in File /\ work[w].outs \in SUBSET File
  BY DEF Line, Busy, Types, WorkType, control, Worker
<1>3. Rest(w)
  BY <1>1 DEF Becomes
<1>4. Grows(c)
  BY Quiet DEF Busy, files, table
<1>5. RowsGrow
  BY Quiet DEF Busy, files, table
<1>6. HandFine(c, w)'
  BY <1>1, IdleFine
<1>7. CleanRemux'
  BY <1>1, <1>2, <1>3, NotRemux DEF CleanRemux, Becomes
<1> QED BY <1>1, <1>2, <1>3, <1>4, <1>5, <1>6, <1>7, LineStays

LEMMA PassThroughLine ==
    ASSUME Types, NEW c \in Makes, Line(c), Note, ~(met' /\ rec.fresh),
           NEW w \in Worker, PassThrough(w)
    PROVE  Line(c)'
<1>1. Becomes(w, "register", work[w].src, work[w].out, {work[w].src}, work[w].first, work[w].made)
  BY PassThroughIs
<1>2. /\ work[w].pc = "probe"
      /\ (~NeedsWork(work[w].src) \/ content[work[w].src] = "broken") /\ rec' = rec
      /\ jobs' = jobs /\ w \in Worker
      /\ FilesFine(c) /\ HandFine(c, w) /\ CleanRemux
      /\ work[w].src \in File /\ work[w].out \in File /\ work[w].outs \in SUBSET File
  BY DEF Line, PassThrough, Types, WorkType, control, Worker
<1>3. Rest(w)
  BY <1>1 DEF Becomes
<1>4. Grows(c)
  BY Quiet DEF PassThrough, files, table
<1>5. RowsGrow
  BY Quiet DEF PassThrough, files, table
<1>6. HandFine(c, w)'
  <2>1. ~Unfit(work[w].src)
    BY <1>2 DEF NeedsWork, Unfit, Probes, Streamable, Good
  <2> QED BY <1>1, <1>2, <2>1, RecStays, UnfitStays, <1>4 DEF HandFine, Becomes, Registers,
     Splits, Unfit, PassThrough, files
<1>7. CleanRemux'
  BY <1>1, <1>2, <1>3, NotRemux DEF CleanRemux, Becomes
<1> QED BY <1>1, <1>2, <1>3, <1>4, <1>5, <1>6, <1>7, LineStays

LEMMA ConvertLine ==
    ASSUME Types, NEW c \in Makes, Line(c), Note, ~(met' /\ rec.fresh),
           NEW w \in Worker, Convert(w)
    PROVE  Line(c)'
<1>1. Becomes(w, "convert", work[w].src, Target(work[w].src), work[w].outs, work[w].first,
work[w].made)
  BY ConvertIs
<1>2. /\ work[w].pc = "probe" /\ Probes(work[w].src) /\ ~Streamable(work[w].src)
      /\ Open({Target(work[w].src)}) /\ rec' = rec /\ jobs' = jobs /\ w \in Worker
      /\ FilesFine(c) /\ HandFine(c, w) /\ CleanRemux
      /\ work[w].src \in File /\ work[w].out \in File /\ work[w].outs \in SUBSET File
  BY DEF Line, Convert, Types, WorkType, control, Worker
<1>3. Rest(w)
  BY <1>1 DEF Becomes
<1>4. Grows(c)
  <2>1. Writable(Target(work[w].src))
    BY <1>2, UnfitFile DEF Target, Writable, Part
  <2> QED BY <1>2, <2>1 DEF Grows, Open
<1>5. RowsGrow
  BY Quiet DEF Convert, table, RowsGrow
<1>6. HandFine(c, w)'
  <2>1. /\ work[w].src \in {"raw", "mp4"} /\ (rec.stage = "captured" \/ rec.foreign)
        /\ work[w].src = "raw" => c = "encoded"
        /\ work[w].src = "mp4" => c = "again"
    BY <1>2, UnfitFile
  <2>2. /\ Target(work[w].src) \in {"mp4", "tgprep"} /\ Writable(Target(work[w].src))
        /\ work[w].src = "mp4" => Target(work[w].src) = "tgprep"
    BY <2>1 DEF Target, Writable, Part
  <2>3. work[w].outs = {}
    BY <1>2 DEF HandFine, Registers
  <2> QED BY <1>1, <1>2, <2>1, <2>2, <2>3, RecStays DEF HandFine, Becomes, Registers, Splits
<1>7. CleanRemux'
  BY <1>1, <1>2, <1>3, NotRemux DEF CleanRemux, Becomes
<1> QED BY <1>1, <1>2, <1>3, <1>4, <1>5, <1>6, <1>7, LineStays

LEMMA SplitLine ==
    ASSUME Types, NEW c \in Makes, Line(c), Note, ~(met' /\ rec.fresh),
           NEW w \in Worker, Split(w)
    PROVE  Line(c)'
<1>1. Becomes(w, "split", work[w].src, work[w].src, work[w].outs, work[w].first, work[w].made)
  BY SplitIs
<1>2. /\ work[w].pc = "probe" /\ NeedsWork(work[w].src)
      /\ (Probes(work[w].src) => Streamable(work[w].src))
      /\ Open(PartsOf(work[w].src)) /\ rec' = rec /\ jobs' = jobs /\ w \in Worker
      /\ FilesFine(c) /\ HandFine(c, w) /\ CleanRemux
      /\ work[w].src \in File /\ work[w].out \in File /\ work[w].outs \in SUBSET File
  BY DEF Line, Split, Types, WorkType, control, Worker
<1>3. Rest(w)
  BY <1>1 DEF Becomes
<1>4. Grows(c)
  <2>1. /\ work[w].src \in {"mp4", "tgprep"} /\ Writable(work[w].src) /\ rec.oversize
    BY <1>2, SplittableFile
  <2>2. \A p \in PartsOf(work[w].src) : Writable(p)
    BY <2>1, PartsWritable
  <2> QED BY <1>2, <2>2 DEF Grows, Open
<1>5. RowsGrow
  BY Quiet DEF Split, table, RowsGrow
<1>6. HandFine(c, w)'
  <2>1. /\ work[w].src \in {"mp4", "tgprep"} /\ Writable(work[w].src) /\ rec.oversize
        /\ ~Unfit(work[w].src)
    BY <1>2, SplittableFile
  <2>2. work[w].outs = {}
    BY <1>2 DEF HandFine, Registers
  <2> QED BY <1>1, <1>2, <1>4, <2>1, <2>2, RecStays, UnfitStays DEF HandFine, Becomes,
     Registers, Splits
<1>7. CleanRemux'
  BY <1>1, <1>2, <1>3, NotRemux DEF CleanRemux, Becomes
<1> QED BY <1>1, <1>2, <1>3, <1>4, <1>5, <1>6, <1>7, LineStays

LEMMA ConvertedLine ==
    ASSUME Types, NEW c \in Makes, Line(c), Note, ~(met' /\ rec.fresh),
           NEW w \in Worker, Converted(w)
    PROVE  Line(c)'
<1>1. Becomes(w, "register", work[w].src, work[w].out, {work[w].out}, work[w].first, TRUE)
  BY ConvertedIs
<1>2. /\ work[w].pc = "convert" /\ Write({work[w].out}, Encoded(w)) /\ rec' = rec
      /\ jobs' = jobs /\ w \in Worker
      /\ FilesFine(c) /\ HandFine(c, w) /\ CleanRemux
      /\ work[w].src \in File /\ work[w].out \in File /\ work[w].outs \in SUBSET File
  BY DEF Line, Converted, Types, WorkType, control, Worker
<1>3. Rest(w)
  BY <1>1 DEF Becomes
<1>4. Grows(c)
  <2>1. Encoded(w) = c /\ Sound(c, work[w].out) /\ Writable(work[w].out)
    BY <1>2 DEF HandFine, Encoded, Sound
  <2> QED BY <1>2, <2>1 DEF Grows, Write
<1>5. RowsGrow
  BY Quiet DEF Converted, table, RowsGrow
<1>6. HandFine(c, w)'
  <2>1. /\ work[w].out # work[w].src /\ Consumed(c, work[w].src) /\ c \in {"encoded", "again"}
        /\ Encoded(w) = c
    BY <1>2 DEF HandFine, Consumed, Encoded
  <2>2. content'[work[w].out] = c
    BY <1>2, <2>1 DEF Write
  <2>3. \A f \in File : f = work[w].out => ~Unfit(f)'
    BY <2>1, <2>2 DEF Unfit
  <2> QED BY <1>1, <1>2, <2>1, <2>3, RecStays DEF HandFine, Becomes, Registers, Splits, Consumed
<1>7. CleanRemux'
  BY <1>1, <1>2, <1>3, NotRemux DEF CleanRemux, Becomes
<1> QED BY <1>1, <1>2, <1>3, <1>4, <1>5, <1>6, <1>7, LineStays

LEMMA ConvertedTooBigLine ==
    ASSUME Types, NEW c \in Makes, Line(c), Note, ~(met' /\ rec.fresh),
           NEW w \in Worker, ConvertedTooBig(w)
    PROVE  Line(c)'
<1>1. Becomes(w, "split", work[w].src, work[w].out, work[w].outs, work[w].first, work[w].made)
  BY ConvertedTooBigIs
<1>2. /\ work[w].pc = "convert" /\ Big(work[w].out) /\ rec' = rec /\ jobs' = jobs
      /\ w \in Worker
      /\ FilesFine(c) /\ HandFine(c, w) /\ CleanRemux
      /\ work[w].src \in File /\ work[w].out \in File /\ work[w].outs \in SUBSET File
  BY DEF Line, ConvertedTooBig, Types, WorkType, control, Worker
<1>3. Rest(w)
  BY <1>1 DEF Becomes
<1>4. Grows(c)
  <2>1. /\ Encoded(w) = c /\ Sound(c, work[w].out) /\ Writable(work[w].out)
        /\ work[w].out \in {"mp4", "tgprep"} /\ rec.oversize
    BY <1>2 DEF HandFine, Encoded, Sound, Big
  <2>2. \A p \in PartsOf(work[w].out) : Writable(p)
    BY <2>1, PartsWritable
  <2> QED BY <2>1, <2>2 DEF Grows, ConvertedTooBig
<1>5. RowsGrow
  BY Quiet DEF ConvertedTooBig, table, RowsGrow
<1>6. HandFine(c, w)'
  <2>1. /\ work[w].out # work[w].src /\ Consumed(c, work[w].src) /\ c \in {"encoded", "again"}
        /\ Encoded(w) = c /\ work[w].outs = {} /\ rec.oversize
    BY <1>2 DEF HandFine, Consumed, Encoded, Big, Registers
  <2>2. content'[work[w].out] = c
    BY <1>2, <2>1 DEF ConvertedTooBig
  <2>3. \A f \in File : f = work[w].out => ~Unfit(f)'
    BY <2>1, <2>2 DEF Unfit
  <2> QED BY <1>1, <1>2, <2>1, <2>3, RecStays DEF HandFine, Becomes, Registers, Splits, Consumed
<1>7. CleanRemux'
  BY <1>1, <1>2, <1>3, NotRemux DEF CleanRemux, Becomes
<1> QED BY <1>1, <1>2, <1>3, <1>4, <1>5, <1>6, <1>7, LineStays

LEMMA ConvertFailsLine ==
    ASSUME Types, NEW c \in Makes, Line(c), Note, ~(met' /\ rec.fresh),
           NEW w \in Worker, ConvertFails(w)
    PROVE  Line(c)'
<1>1. Becomes(w, "idle", "raw", "raw", {}, FALSE, FALSE)
  BY FromIdle DEF ConvertFails
<1>2. /\ work[w].pc = "convert" /\ rec' = rec /\ jobs' = jobs /\ w \in Worker
      /\ FilesFine(c) /\ HandFine(c, w) /\ CleanRemux
      /\ work[w].src \in File /\ work[w].out \in File /\ work[w].outs \in SUBSET File
  BY DEF Line, ConvertFails, Types, WorkType, control, Worker
<1>3. Rest(w)
  BY <1>1 DEF Becomes
<1>4. Grows(c)
  BY DEF ConvertFails, Grows, Unlink
<1>5. RowsGrow
  BY Quiet DEF ConvertFails, table, RowsGrow
<1>6. HandFine(c, w)'
  BY <1>1, IdleFine
<1>7. CleanRemux'
  BY <1>1, <1>2, <1>3, NotRemux DEF CleanRemux, Becomes
<1> QED BY <1>1, <1>2, <1>3, <1>4, <1>5, <1>6, <1>7, LineStays

LEMMA FirstPartLine ==
    ASSUME Types, NEW c \in Makes, Line(c), Note, ~(met' /\ rec.fresh),
           NEW w \in Worker, FirstPart(w)
    PROVE  Line(c)'
<1>1. Becomes(w, work[w].pc, work[w].src, work[w].out, work[w].outs, TRUE, work[w].made)
  BY FirstPartIs
<1>2. /\ work[w].pc \in {"split", "recover"} /\ Probes(work[w].out) /\ rec' = rec
      /\ jobs' = jobs /\ w \in Worker
      /\ FilesFine(c) /\ HandFine(c, w) /\ CleanRemux
      /\ work[w].src \in File /\ work[w].out \in File /\ work[w].outs \in SUBSET File
  BY DEF Line, FirstPart, Types, WorkType, control, Worker
<1>3. Rest(w)
  BY <1>1 DEF Becomes
<1>4. Grows(c)
  <2>1. /\ work[w].out \in {"mp4", "tgprep"} /\ Writable(work[w].out) /\ rec.oversize
        /\ ~Unfit(work[w].out)
    BY <1>2 DEF HandFine, Splits
  <2>2. \A p \in PartsOf(work[w].out) : Writable(p) /\ p # "mp4"
    BY <2>1, PartsWritable, FileFacts
  <2>3. /\ content[work[w].out] = c
        /\ (c = "remuxed" => ~rec.foreign /\ (rec.stage # "captured" \/ rec.fresh))
    BY <1>2, <2>1, GoodIsMade
  <2> QED BY <2>2, <2>3 DEF Grows, FirstPart, Write, Sound
<1>5. RowsGrow
  BY Quiet DEF FirstPart, table, RowsGrow
<1>6. HandFine(c, w)'
  BY <1>1, <1>2, <1>4, RecStays, UnfitStays DEF HandFine, Becomes, Registers, Splits, Consumed
<1>7. CleanRemux'
  BY <1>1, <1>2, <1>3, NotRemux DEF CleanRemux, Becomes
<1> QED BY <1>1, <1>2, <1>3, <1>4, <1>5, <1>6, <1>7, LineStays

LEMMA SplitDoneLine ==
    ASSUME Types, NEW c \in Makes, Line(c), Note, ~(met' /\ rec.fresh),
           NEW w \in Worker, SplitDone(w)
    PROVE  Line(c)'
<1>1. Becomes(w, (IF work[w].pc = "split" THEN "register" ELSE "requeue"), work[w].src,
work[w].out, PartsOf(work[w].out), work[w].first, TRUE)
  BY SplitDoneIs
<1>2. /\ work[w].pc \in {"split", "recover"} /\ Probes(work[w].out) /\ rec' = rec
      /\ jobs' = jobs /\ w \in Worker
      /\ FilesFine(c) /\ HandFine(c, w) /\ CleanRemux
      /\ work[w].src \in File /\ work[w].out \in File /\ work[w].outs \in SUBSET File
  BY DEF Line, SplitDone, Types, WorkType, control, Worker
<1>3. Rest(w)
  BY <1>1 DEF Becomes
<1>4. Grows(c)
  <2>1. /\ work[w].out \in {"mp4", "tgprep"} /\ Writable(work[w].out) /\ rec.oversize
        /\ ~Unfit(work[w].out)
    BY <1>2 DEF HandFine, Splits
  <2>2. \A p \in PartsOf(work[w].out) : Writable(p) /\ p # "mp4"
    BY <2>1, PartsWritable, FileFacts
  <2>3. /\ content[work[w].out] = c
        /\ (c = "remuxed" => ~rec.foreign /\ (rec.stage # "captured" \/ rec.fresh))
    BY <1>2, <2>1, GoodIsMade
  <2> QED BY <2>2, <2>3 DEF Grows, SplitDone, Sound
<1>5. RowsGrow
  BY Quiet DEF SplitDone, table, RowsGrow
<1>6. HandFine(c, w)'
  <2>1. /\ work[w].out \in {"mp4", "tgprep"} /\ rec.oversize
        /\ work[w].out # work[w].src => Consumed(c, work[w].src) /\ work[w].pc = "split"
        /\ work[w].pc = "recover" => Big(work[w].src)
    BY <1>2 DEF HandFine, Splits
  <2>2. Big(work[w].out) /\ (Big(work[w].src) \/ Consumed(c, work[w].src))
    BY <2>1 DEF Big
  <2>3. \A p \in PartsOf(work[w].out) : p \in File /\ ~Unfit(p)' /\ p # work[w].src
    <3>1. \A p \in PartsOf(work[w].out) : p \in File /\ p \in Part
      BY <1>2, FileFacts DEF Part
    <3>2. \A p \in PartsOf(work[w].out) : ~Unfit(p) /\ p # work[w].src
      BY <1>2, <2>2, <3>1 DEF FilesFine, Unfit, Big, Consumed, Part
    <3> QED BY <1>2, <1>4, <3>1, <3>2, UnfitStays
  <2> QED BY <1>1, <1>2, <2>1, <2>2, <2>3, RecStays DEF HandFine, Becomes, Registers, Splits,
     Consumed
<1>7. CleanRemux'
  BY <1>1, <1>2, <1>3, NotRemux DEF CleanRemux, Becomes
<1> QED BY <1>1, <1>2, <1>3, <1>4, <1>5, <1>6, <1>7, LineStays

LEMMA SplitFailsLine ==
    ASSUME Types, NEW c \in Makes, Line(c), Note, ~(met' /\ rec.fresh),
           NEW w \in Worker, SplitFails(w)
    PROVE  Line(c)'
<1>1. Becomes(w, "idle", "raw", "raw", {}, FALSE, FALSE)
  BY FromIdle DEF SplitFails
<1>2. /\ work[w].pc \in {"split", "recover"} /\ rec' = rec /\ jobs' = jobs /\ w \in Worker
      /\ FilesFine(c) /\ HandFine(c, w) /\ CleanRemux
      /\ work[w].src \in File /\ work[w].out \in File /\ work[w].outs \in SUBSET File
  BY DEF Line, SplitFails, Types, WorkType, control, Worker
<1>3. Rest(w)
  BY <1>1 DEF Becomes
<1>4. Grows(c)
  BY DEF SplitFails, Grows, Unlink
<1>5. RowsGrow
  BY Quiet DEF SplitFails, table, RowsGrow
<1>6. HandFine(c, w)'
  BY <1>1, IdleFine
<1>7. CleanRemux'
  BY <1>1, <1>2, <1>3, NotRemux DEF CleanRemux, Becomes
<1> QED BY <1>1, <1>2, <1>3, <1>4, <1>5, <1>6, <1>7, LineStays

LEMMA RetireLine ==
    ASSUME Types, NEW c \in Makes, Line(c), Note, ~(met' /\ rec.fresh),
           NEW w \in Worker, Retire(w)
    PROVE  Line(c)'
<1>1. Becomes(w, "idle", "raw", "raw", {}, FALSE, FALSE)
  BY FromIdle DEF Retire
<1>2. /\ work[w].pc = "register" /\ rec' = rec /\ jobs' = jobs /\ w \in Worker
      /\ FilesFine(c) /\ HandFine(c, w) /\ CleanRemux
      /\ work[w].src \in File /\ work[w].out \in File /\ work[w].outs \in SUBSET File
  BY DEF Line, Retire, Types, WorkType, control, Worker
<1>3. Rest(w)
  BY <1>1 DEF Becomes
<1>4. Grows(c)
  BY DEF Retire, Grows, Unlink
<1>5. RowsGrow
  BY Quiet DEF Retire, table, RowsGrow
<1>6. HandFine(c, w)'
  BY <1>1, IdleFine
<1>7. CleanRemux'
  BY <1>1, <1>2, <1>3, NotRemux DEF CleanRemux, Becomes
<1> QED BY <1>1, <1>2, <1>3, <1>4, <1>5, <1>6, <1>7, LineStays

LEMMA RetireOversizeLine ==
    ASSUME Types, NEW c \in Makes, Line(c), Note, ~(met' /\ rec.fresh),
           RetireOversize
    PROVE  Line(c)'
<1>1. \/ Becomes("archiver", "forget", work["archiver"].src, work["archiver"].out,
                 work["archiver"].outs, work["archiver"].first, work["archiver"].made)
      \/ Becomes("archiver", "idle", "raw", "raw", {}, FALSE, FALSE)
  BY RetireOversizeIs
<1>2. /\ work["archiver"].pc = "requeue" /\ work["archiver"].outs = {} /\ rec' = rec
      /\ jobs' = jobs /\ "archiver" \in Worker
      /\ FilesFine(c) /\ HandFine(c, "archiver") /\ CleanRemux
      /\ work["archiver"].src \in File /\ work["archiver"].out \in File
      /\ work["archiver"].outs \in SUBSET File
  BY DEF Line, RetireOversize, Types, WorkType, control, Worker
<1>3. Rest("archiver")
  BY <1>1 DEF Becomes
<1>4. Grows(c)
  BY DEF RetireOversize, Grows, Unlink
<1>5. RowsGrow
  BY Quiet DEF RetireOversize, table, RowsGrow
<1>6. HandFine(c, "archiver")'
  <2>1. CASE Becomes("archiver", "idle", "raw", "raw", {}, FALSE, FALSE)
    BY <1>2, <2>1, IdleFine
  <2>2. CASE ~Becomes("archiver", "idle", "raw", "raw", {}, FALSE, FALSE)
    BY <1>1, <1>2, <2>2, RecStays DEF HandFine, Becomes, Registers, Splits
  <2> QED BY <2>1, <2>2
<1>7. CleanRemux'
  BY <1>1, <1>2, <1>3, NotRemux DEF CleanRemux, Becomes
<1> QED BY <1>1, <1>2, <1>3, <1>4, <1>5, <1>6, <1>7, LineStays

LEMMA DeleteRowLine ==
    ASSUME Types, NEW c \in Makes, Line(c), Note, ~(met' /\ rec.fresh),
           DeleteRow
    PROVE  Line(c)'
<1>1. Becomes("archiver", "idle", "raw", "raw", {}, FALSE, FALSE)
  BY FromIdle DEF DeleteRow, Worker
<1>2. /\ work["archiver"].pc = "forget" /\ rec' = rec /\ jobs' = jobs /\ "archiver" \in Worker
      /\ FilesFine(c) /\ HandFine(c, "archiver") /\ CleanRemux
      /\ work["archiver"].src \in File /\ work["archiver"].out \in File
      /\ work["archiver"].outs \in SUBSET File
  BY DEF Line, DeleteRow, Types, WorkType, control, Worker
<1>3. Rest("archiver")
  BY <1>1 DEF Becomes
<1>4. Grows(c)
  BY Quiet DEF DeleteRow, files, Grows
<1>5. RowsGrow
  BY DEF DeleteRow, Forget, RowsGrow, Types, TableType
<1>6. HandFine(c, "archiver")'
  BY <1>1, <1>2, IdleFine
<1>7. CleanRemux'
  BY <1>1, <1>2, <1>3, NotRemux DEF CleanRemux, Becomes
<1> QED BY <1>1, <1>2, <1>3, <1>4, <1>5, <1>6, <1>7, LineStays

LEMMA ArriveLine ==
    ASSUME Types, NEW c \in Makes, Line(c), Note, ~(met' /\ rec.fresh),
           Arrive
    PROVE  Line(c)'
<1>1. \/ Becomes("recorder", "probe", work["recorder"].src, work["recorder"].out,
                 work["recorder"].outs, work["recorder"].first, work["recorder"].made)
      \/ Becomes("recorder", "idle", "raw", "raw", {}, FALSE, FALSE)
  BY ArriveIs
<1>2. /\ work["recorder"].pc = "arrive" /\ rec' = rec /\ jobs' = jobs /\ "recorder" \in Worker
      /\ FilesFine(c) /\ HandFine(c, "recorder") /\ CleanRemux
      /\ work["recorder"].src \in File /\ work["recorder"].out \in File
      /\ work["recorder"].outs \in SUBSET File
  BY DEF Line, Arrive, Types, WorkType, control, Worker
<1>3. Rest("recorder")
  BY <1>1 DEF Becomes
<1>4. Grows(c)
  BY Quiet DEF Arrive, files, table
<1>5. RowsGrow
  BY Quiet DEF Arrive, files, table
<1>6. HandFine(c, "recorder")'
  <2>1. CASE Becomes("recorder", "idle", "raw", "raw", {}, FALSE, FALSE)
    BY <1>2, <2>1, IdleFine
  <2>2. CASE ~Becomes("recorder", "idle", "raw", "raw", {}, FALSE, FALSE)
    BY <1>1, <1>2, <2>2, RecStays DEF HandFine, Becomes, Registers, Splits
  <2> QED BY <2>1, <2>2
<1>7. CleanRemux'
  BY <1>1, <1>2, <1>3, NotRemux DEF CleanRemux, Becomes
<1> QED BY <1>1, <1>2, <1>3, <1>4, <1>5, <1>6, <1>7, LineStays

-----------------------------------------------------------------------------
(* The other actions keep it too, and a finished remux starts it.           *)

LEMMA SweepLine ==
    ASSUME Types, NEW c \in Makes, Line(c), Note, ~(met' /\ rec.fresh),
           NEW w \in Worker, Sweep(w)
    PROVE  Line(c)'
<1>1. /\ work' = work /\ UNCHANGED <<content, row, oversized>> /\ rec' = rec /\ jobs' = jobs
      /\ Rest(w)
  BY DEF Sweep, files, table, Rest, Types, WorkType
<1>2. Grows(c) /\ RowsGrow
  BY <1>1, Quiet
<1>3. HandFine(c, w)'
  BY <1>1, <1>2, HandStays DEF Line
<1>4. CleanRemux'
  BY <1>1, RemuxStays
<1> QED BY <1>1, <1>2, <1>3, <1>4, LineStays

LEMMA PassLine ==
    ASSUME Types, NEW c \in Makes, Line(c), Note, ~(met' /\ rec.fresh),
           NEW w \in Worker, Pass(w)
    PROVE  Line(c)'
<1>1. work' = work /\ rec' = rec /\ jobs' = jobs /\ Rest(w)
  BY DEF Pass, Rest, Types, WorkType
<1>2. /\ \A f \in File : /\ content'[f] \in {content[f], "none"}
                         /\ row'[f] = row[f] \/ (row[f] = "failed" /\ row'[f] = "pending")
      /\ oversized' \subseteq oversized
  <2>1. FirstOf(walk[w]) \in File
    BY FirstIsIn DEF Pass, Types, WalkType
  <2> QED BY <2>1 DEF Pass, Unlink, Types, TableType
<1>3. Grows(c) /\ RowsGrow
  BY <1>2 DEF Grows, RowsGrow
<1>4. HandFine(c, w)'
  BY <1>1, <1>3, HandStays DEF Line
<1>5. CleanRemux'
  <2> SUFFICES ASSUME work["recorder"].pc = "remux" PROVE CleanRemux'
    BY <1>1 DEF CleanRemux
  <2>1. w = "archiver"
    BY IdleIs DEF Pass, Worker
  <2>2. \A f \in File : row[f] = "none"
    BY DEF Line, CleanRemux
  <2>3. UNCHANGED <<content, row>>
    BY <2>1, <2>2 DEF Pass, Unlink, Types, TableType, FileType
  <2> QED BY <1>1, <2>3, RemuxStays
<1> QED BY <1>1, <1>3, <1>4, <1>5, LineStays

LEMMA VisitLine ==
    ASSUME Types, NEW c \in Makes, Line(c), Note, ~(met' /\ rec.fresh),
           NEW w \in Worker, Visit(w)
    PROVE  Line(c)'
<1>1. PICK f \in File : Becomes(w, "probe", f, "raw", {}, FALSE, FALSE)
  BY VisitIs
<1>2. UNCHANGED <<content, row, oversized>> /\ rec' = rec /\ jobs' = jobs /\ Rest(w)
  BY <1>1 DEF Visit, files, table, Becomes
<1>3. Grows(c) /\ RowsGrow
  BY <1>2, Quiet
<1>4. HandFine(c, w)'
  BY <1>1 DEF HandFine, Becomes, Registers, Splits
<1>5. CleanRemux'
  BY <1>1, <1>2, RemuxStays DEF Becomes, Rest, Worker
<1> QED BY <1>2, <1>3, <1>4, <1>5, LineStays

LEMMA CrashLine ==
    ASSUME Types, NEW c \in Makes, Line(c), Note, ~(met' /\ rec.fresh),
           NEW w \in Worker, Crash(w)
    PROVE  Line(c)'
<1>1. Becomes(w, "idle", "raw", "raw", {}, FALSE, FALSE)
  BY FromIdle DEF Crash
<1>2. UNCHANGED <<content, row, oversized>> /\ rec' = rec /\ jobs' \subseteq jobs /\ Rest(w)
  BY <1>1 DEF Crash, files, table, Becomes
<1>3. Grows(c) /\ RowsGrow
  BY <1>2, Quiet
<1>4. HandFine(c, w)'
  BY <1>1, IdleFine
<1>5. CleanRemux'
  BY <1>1, <1>2, RemuxStays DEF Becomes, Rest, Worker
<1> QED BY <1>2, <1>3, <1>4, <1>5, LineStays

LEMMA TakeJobLine ==
    ASSUME Types, NEW c \in Makes, Line(c), Note, ~(met' /\ rec.fresh), TakeJob
    PROVE  Line(c)'
<1>1. PICK f \in jobs :
              /\ f \in File /\ jobs' = jobs \ {f}
              /\ \/ /\ f \in OnDisk /\ Open({"mp4"})
                    /\ Becomes("recorder", "remux", f, "mp4", {}, FALSE, FALSE)
                 \/ UNCHANGED <<files, work>>
  BY TakeJobIs
<1>2. /\ rec' = rec /\ UNCHANGED <<row, oversized>> /\ f = "raw" /\ rec.fresh
      /\ "recorder" \in Worker /\ work["recorder"] = Idle /\ ~met'
  BY <1>1 DEF TakeJob, table, Line, JobsFine, Worker
<1>3. Rest("recorder")
  BY <1>1 DEF Becomes, Rest, Types, WorkType
<1>4. CASE UNCHANGED <<files, work>>
  <2>1. Grows(c) /\ RowsGrow
    BY <1>2, <1>4, Quiet DEF files
  <2>2. HandFine(c, "recorder")'
    BY <1>2, <1>4, <2>1, HandStays DEF Line
  <2>3. CleanRemux'
    BY <1>2, <1>4, RemuxStays DEF files
  <2> QED BY <1>1, <1>2, <1>3, <2>1, <2>2, <2>3, LineStays
<1>5. CASE ~UNCHANGED <<files, work>>
  <2>1. Open({"mp4"}) /\ Becomes("recorder", "remux", "raw", "mp4", {}, FALSE, FALSE)
    BY <1>1, <1>2, <1>5
  <2>2. Writable("mp4")
    BY DEF Writable, Part
  <2>3. Grows(c) /\ RowsGrow
    BY <1>2, <2>1, <2>2 DEF Grows, RowsGrow, Open
  <2>4. HandFine(c, "recorder")'
    BY <1>2, <2>1 DEF HandFine, Becomes, Registers, Splits
  <2>5. work'["archiver"] = Idle
    BY <1>2, <2>1, IdleIs DEF Note, Meet, Worker, Becomes
  <2>6. \A g \in File : row[g] = "none" /\ (g # "raw" => content[g] = "none")
    <3>1. ~\E g \in File \ {"raw"} : g \in OnDisk \/ Known(g)
      BY <1>1, <1>2, <2>1 DEF Note, Meet, Becomes
    <3>2. row["raw"] = "none"
      BY FileFacts DEF Line, FilesFine, Writable
    <3> QED BY <3>1, <3>2 DEF OnDisk, Known
  <2>7. CleanRemux'
    BY <1>2, <2>1, <2>5, <2>6, FileFacts DEF CleanRemux, Open
  <2> QED BY <1>1, <1>2, <1>3, <2>3, <2>4, <2>7, LineStays
<1> QED BY <1>4, <1>5

\* The uploader made the mp4: whatever comes of the recording now is of it.
LEMMA RemuxDoneLine ==
    ASSUME Types, NEW c \in Makes, Line(c), Note, ~(met' /\ rec.fresh), RemuxDone
    PROVE  \E d \in Makes : Line(d)'
<1>1. /\ work["recorder"].pc = "remux" /\ work["recorder"].src = "raw" /\ rec.fresh
      /\ work["archiver"] = Idle /\ rec' = rec /\ jobs' = jobs /\ row' = row
      /\ oversized' = oversized
      /\ \A f \in File : row[f] = "none" /\ (f \notin {"raw", "mp4"} => content[f] = "none")
  BY DEF RemuxDone, Line, CleanRemux, HandFine, Worker, control, table
<1>2. Becomes("recorder", "arrive", "mp4", "raw", {}, FALSE, FALSE)
  BY RemuxDoneIs
<1>3. /\ content'["raw"] = "none" /\ content'["mp4"] \in {"remuxed", "broken"}
      /\ \A f \in File \ {"raw", "mp4"} : content'[f] = content[f]
  BY <1>1, FileFacts DEF RemuxDone, Leaves, Types, FileType
<1>4. PICK d \in Makes : d = IF rec.foreign THEN "again" ELSE "remuxed"
  BY DEF Makes
<1>5. FilesFine(d)'
  <2>1. \A f \in File : row'[f] = "none" /\ (f \notin {"raw", "mp4"} => content'[f] = "none")
    BY <1>1, <1>3
  <2>2. \A f \in File : f \in oversized => Big(f)
    BY DEF Line, FilesFine
  <2>3. Writable("mp4")
    BY DEF Writable, Part
  <2>4. ASSUME NEW f \in File
        PROVE  /\ content'[f] = "captured" => f = "raw" /\ d = "encoded"
               /\ content'[f] = "remuxed" =>
                     /\ IF rec.foreign THEN f = "mp4" /\ d = "again" ELSE d = "remuxed"
                     /\ rec.stage # "captured" \/ rec.fresh
               /\ content'[f] \in {"encoded", "again"} => content'[f] = d
               /\ f = "raw" \/ Writable(f) \/ content'[f] = "none"
    BY <1>1, <1>3, <1>4, <2>1, <2>3
  <2>5. \A f \in File : f \in oversized => Big(f)'
    BY <1>1, <2>2, RecStays
  <2> QED BY <1>1, <1>3, <2>1, <2>4, <2>5, RecStays DEF FilesFine
<1>6. HandFine(d, "recorder")'
  BY <1>1, <1>2 DEF HandFine, Becomes, Registers, Splits
<1>7. HandFine(d, "archiver")'
  <2>1. work'["archiver"] = Idle
    BY <1>1, <1>2 DEF Becomes, Rest, Worker
  <2> QED BY <2>1, IdleIs DEF HandFine, Registers, Splits
<1>8. JobsFine' /\ CleanRemux' /\ Occurs(rec)'
  BY <1>1, <1>2, RecStays DEF Line, JobsFine, CleanRemux, Becomes
<1> QED BY <1>4, <1>5, <1>6, <1>7, <1>8 DEF Line, Worker

LEMMA RemuxFailsLine ==
    ASSUME Types, NEW c \in Makes, Line(c), Note, ~(met' /\ rec.fresh), RemuxFails
    PROVE  Line(c)'
<1>1. /\ work["recorder"].pc = "remux" /\ work["recorder"].src = "raw" /\ rec.fresh
      /\ rec' = rec /\ jobs' = jobs /\ row' = row /\ oversized' = oversized
      /\ "recorder" \in Worker
  BY DEF RemuxFails, Line, HandFine, Worker, control, table
<1>2. Becomes("recorder", "arrive", "raw", "raw", {}, FALSE, FALSE)
  BY <1>1, RemuxFailsIs
<1>3. Grows(c) /\ RowsGrow
  BY <1>1 DEF RemuxFails, Unlink, Grows, RowsGrow
<1>4. HandFine(c, "recorder")'
  BY <1>1, <1>2 DEF HandFine, Becomes, Registers, Splits
<1>5. CleanRemux' /\ Rest("recorder")
  BY <1>2 DEF CleanRemux, Becomes
<1> QED BY <1>1, <1>3, <1>4, <1>5, LineStays

LEMMA RecoverLine ==
    ASSUME Types, NEW c \in Makes, Line(c), Note, ~(met' /\ rec.fresh), Recover
    PROVE  Line(c)'
<1>1. PICK f \in oversized :
              /\ f \in File /\ row[f] = "failed" /\ f \in OnDisk /\ Big(f) /\ ~Locked(f)
              /\ Open(PartsOf(f)) /\ work["archiver"] = Idle
              /\ Becomes("archiver", "recover", f, f, {}, FALSE, FALSE)
  BY RecoverIs
<1>2. /\ rec' = rec /\ jobs' = jobs /\ row' = row /\ oversized' = oversized
      /\ "archiver" \in Worker
      /\ FilesFine(c)
  BY DEF Recover, Line, Worker, control, table
<1>3. f \in {"mp4", "tgprep"} /\ Writable(f) /\ rec.oversize /\ ~Unfit(f)
  BY <1>1, <1>2 DEF FilesFine, Big
<1>4. Grows(c) /\ RowsGrow
  <2>1. \A p \in PartsOf(f) : Writable(p)
    BY <1>3, PartsWritable
  <2> QED BY <1>1, <1>2, <2>1 DEF Grows, RowsGrow, Open
<1>5. HandFine(c, "archiver")'
  <2>1. ~Unfit(f)' /\ Big(f)' /\ Writable(f)'
    BY <1>1, <1>2, <1>3, <1>4, UnfitStays, RecStays
  <2> QED BY <1>1, <1>2, <1>3, <2>1 DEF HandFine, Becomes, Registers, Splits, Unfit
<1>6. CleanRemux' /\ Rest("archiver")
  <2>1. work'["recorder"] = work["recorder"] /\ Rest("archiver")
    BY <1>1 DEF Becomes, Rest, Worker
  <2>2. work["recorder"].pc # "remux"
    BY <1>1 DEF Line, CleanRemux
  <2> QED BY <2>1, <2>2 DEF CleanRemux
<1> QED BY <1>2, <1>4, <1>5, <1>6, LineStays

LEMMA DeliverLine ==
    ASSUME Types, NEW c \in Makes, Line(c), Note, ~(met' /\ rec.fresh), Deliver
    PROVE  Line(c)'
<1>1. PICK f \in File : Send(f) \/ Collect(f)
  BY DEF Deliver
<1>2. /\ work' = work /\ rec' = rec /\ jobs' = jobs /\ Rest("recorder") /\ "recorder" \in Worker
      /\ row[f] # "none"
  BY <1>1 DEF Send, Collect, control, Rest, Types, WorkType, Worker
<1>3. Grows(c)
  BY <1>1 DEF Send, Collect, Unlink, Grows, files
<1>4. RowsGrow
  BY <1>1 DEF Send, Collect, RowsGrow, Forget, Types, TableType
<1>5. HandFine(c, "recorder")'
  BY <1>2, <1>3, HandStays DEF Line
<1>6. CleanRemux'
  BY <1>2 DEF Line, CleanRemux
<1> QED BY <1>2, <1>3, <1>4, <1>5, <1>6, LineStays

LEMMA RegisterLine ==
    ASSUME Types, NEW c \in Makes, Line(c), Note, ~(met' /\ rec.fresh),
           NEW w \in Worker, Register(w)
    PROVE  Line(c)'
<1> DEFINE f == FirstOf(work[w].outs)
<1>1. /\ f \in work[w].outs /\ f \in File /\ ~Unfit(f)
      /\ work[w].pc \in {"register", "requeue"} /\ HandFine(c, w) /\ FilesFine(c)
  <2>1. /\ work[w].outs \in SUBSET File /\ work[w].outs # {}
        /\ work[w].pc \in {"register", "requeue"}
    BY DEF Register, Types, WorkType
  <2>2. f \in work[w].outs
    BY <2>1, FirstIsIn
  <2> QED BY <2>1, <2>2 DEF Line, HandFine
<1>2. \/ RegisterMisses(w, f) \/ RegisterKnown(w, f) \/ RegisterNew(w, f)
      \/ RegisterSent(w, f) \/ RegisterTwin(w, f)
  BY DEF Register
<1>3. rec' = rec /\ jobs' = jobs
  BY DEF Register, control
<1> HIDE DEF f
<1>4. Becomes(w, work[w].pc, work[w].src, work[w].out, work[w].outs \ {f}, work[w].first,
work[w].made)
  BY <1>2, AccountedIs, MissedIs DEF RegisterMisses, RegisterKnown, RegisterNew, RegisterSent,
     RegisterTwin
<1>5. Grows(c)
  BY <1>2 DEF RegisterMisses, RegisterKnown, RegisterNew, RegisterSent, RegisterTwin, Grows,
     Unlink, files
<1>6. RowsGrow
  <2>1. f \in OnDisk => Writable(f)
    BY <1>1 DEF FilesFine, OnDisk, Unfit
  <2>2. CASE RegisterNew(w, f)
    BY <1>1, <2>1, <2>2 DEF RegisterNew, AddItem, RowsGrow, Types, TableType
  <2>3. CASE RegisterTwin(w, f)
    <3>1. f \in OnDisk
      BY <2>3 DEF RegisterTwin, Stable
    <3>2. PICK g \in Twins(f), now \in Status :
              /\ now = IF row[g] = "failed" THEN "pending" ELSE row[g]
              /\ oversized' = oversized \ {g}
              /\ \/ row' = [row EXCEPT ![g] = "none", ![f] = now]
                 \/ row' = [row EXCEPT ![g] = now]
      BY <2>3 DEF RegisterTwin, Twins, Types, TableType, Status
    <3>3. g \in File /\ row[g] # "none" /\ Holds(g) = Holds(f)
      BY DEF Twins, Known
    <3>4. ~Big(g) => ~Big(f)
      BY <1>1, <2>1, <3>1, <3>3, FileFacts DEF Big, Writable, FilesFine
    <3> QED BY <1>1, <2>1, <3>1, <3>2, <3>3, <3>4 DEF RowsGrow, FilesFine, Types, TableType
  <2>4. CASE UNCHANGED <<row, oversized>>
    BY <2>4 DEF RowsGrow
  <2> QED BY <1>2, <2>2, <2>3, <2>4 DEF RegisterMisses, RegisterKnown, RegisterSent
<1>7. HandFine(c, w)'
  <2>1. \A g \in File : ~Unfit(g) => ~Unfit(g)'
    BY <1>3, <1>5, UnfitStays
  <2>2. work[w].outs \in SUBSET File
    BY DEF Types, WorkType
  <2> QED BY <1>1, <1>3, <1>4, <2>1, <2>2, RecStays DEF HandFine, Becomes, Registers, Splits,
     Consumed
<1>8. CleanRemux' /\ Rest(w)
  BY <1>1, <1>4, NotRemux DEF CleanRemux, Becomes, Line
<1> QED BY <1>3, <1>5, <1>6, <1>7, <1>8, LineStays

-----------------------------------------------------------------------------
(* Posted once.  Rows carry the digest of the one good make, so a row that  *)
(* says sent is found by whatever would be sent next of the same half.      *)

\* Where a row can be sent from: the recording in one file, or its parts.
Level(f) == Writable(f) /\ ~Big(f)

Rows(c) ==
    /\ \A f \in File : row[f] # "none" => hashed[f] = c
    /\ \A p \in posted : p[2] \in Good =>
          /\ Level(p[1])
          /\ \E g \in File : row[g] = "sent" /\ Holds(g) = Holds(p[1])
    /\ \A p, q \in posted : /\ p[2] \in Good /\ q[2] \in Good
                            /\ Holds(p[1]) \cap Holds(q[1]) # {}
                            => p = q

Traced == (met /\ rec.fresh) \/ \E c \in Makes : Line(c) /\ (half \/ Rows(c))

LEMMA LevelHolds ==
    ASSUME NEW f \in File, NEW g \in File, Level(f), Level(g), Holds(f) \cap Holds(g) # {}
    PROVE  Holds(f) = Holds(g)
BY FileFacts DEF Level, Writable, Big, Part

LEMMA RowsMove ==
    ASSUME Types, NEW c, Rows(c), posted' = posted, rec' = rec,
           \A f \in File : row'[f] # "none" => hashed'[f] = c,
           \A g \in File : row[g] = "sent" =>
               \E k \in File : row'[k] = "sent" /\ Holds(k) = Holds(g)
    PROVE  Rows(c)'
BY RecStays DEF Rows, Level

LEMMA RowsSame ==
    ASSUME Types, NEW c, Rows(c), UNCHANGED <<rec, row, hashed, posted>>
    PROVE  Rows(c)'
BY RowsMove DEF Rows

LEMMA PassRows ==
    ASSUME Types, NEW c, Rows(c), NEW w \in Worker, Pass(w)
    PROVE  Rows(c)'
<1>1. /\ rec' = rec /\ posted' = posted /\ hashed' = hashed
      /\ \A f \in File : row'[f] = row[f] \/ (row[f] = "failed" /\ row'[f] = "pending")
  <2>1. FirstOf(walk[w]) \in File
    BY FirstIsIn DEF Pass, Types, WalkType
  <2> QED BY <2>1 DEF Pass, Types, TableType
<1> QED BY <1>1, RowsMove DEF Rows

LEMMA ForgetRows ==
    ASSUME Types, NEW c, Rows(c), NEW f \in File, Forget(f), row[f] # "sent", rec' = rec,
           posted' = posted
    PROVE  Rows(c)'
<1>1. \A g \in File : row'[g] # "none" => row'[g] = row[g] /\ hashed'[g] = hashed[g]
  BY DEF Forget, Types, TableType
<1>2. \A g \in File : row[g] = "sent" => row'[g] = "sent"
  BY DEF Forget, Types, TableType
<1> QED BY <1>1, <1>2, RowsMove DEF Rows

LEMMA RegisterRows ==
    ASSUME Types, NEW c \in Makes, Line(c), Rows(c), Note, ~half', NEW w \in Worker, Register(w)
    PROVE  Rows(c)'
<1> DEFINE f == FirstOf(work[w].outs)
<1>1. f \in File /\ ~Unfit(f) /\ FilesFine(c)
  <2>1. work[w].outs \in SUBSET File /\ work[w].outs # {}
    BY DEF Register, Types, WorkType
  <2>2. f \in work[w].outs
    BY <2>1, FirstIsIn
  <2> QED BY <2>1, <2>2 DEF Line, HandFine
<1>2. \/ RegisterMisses(w, f) \/ RegisterKnown(w, f) \/ RegisterNew(w, f)
      \/ RegisterSent(w, f) \/ RegisterTwin(w, f)
  BY DEF Register
<1>3. rec' = rec /\ posted' = posted
  BY DEF Register
<1> HIDE DEF f
<1>4. CASE RegisterNew(w, f)
  <2>1. /\ row' = [row EXCEPT ![f] = "pending"] /\ hashed' = [hashed EXCEPT ![f] = content[f]]
        /\ row[f] = "none" /\ content[f] # "none"
    BY <1>4 DEF RegisterNew, AddItem, Known, OnDisk
  <2>2. content[f] = c
    <3>1. hashed'[f] # "broken"
      BY <1>1 DEF Note
    <3>2. content[f] \in Good
      BY <1>1, <2>1, <3>1 DEF Types, TableType, FileType, Content
    <3> QED BY <1>1, <3>2, GoodIsMade DEF Probes
  <2>3. \A k \in File : row'[k] # "none" => hashed'[k] = c
    BY <1>1, <2>1, <2>2 DEF Rows, Types, TableType
  <2>4. \A k \in File : row[k] = "sent" => row'[k] = "sent"
    BY <1>1, <2>1 DEF Types, TableType
  <2> QED BY <1>3, <2>3, <2>4, RowsMove
<1>5. CASE RegisterTwin(w, f)
  <2>1. PICK g \in Twins(f), now \in Status :
              /\ now = IF row[g] = "failed" THEN "pending" ELSE row[g]
              /\ \/ /\ row' = [row EXCEPT ![g] = "none", ![f] = now]
                    /\ hashed' = [hashed EXCEPT ![g] = "none", ![f] = hashed[g]]
                 \/ /\ row' = [row EXCEPT ![g] = now]
                    /\ hashed' = hashed
    BY <1>5 DEF RegisterTwin, Twins, Types, TableType, Status
  <2>2. g \in File /\ row[g] # "none" /\ Holds(g) = Holds(f) /\ row[f] = "none" /\ hashed[g] = c
    BY <1>5 DEF Twins, Known, RegisterTwin, Rows
  <2>3. \A k \in File : row'[k] # "none" => hashed'[k] = c
    BY <1>1, <2>1, <2>2 DEF Rows, Types, TableType
  <2>4. \A k \in File \ {g} : row[k] = "sent" => row'[k] = "sent"
    BY <1>1, <2>1, <2>2 DEF Types, TableType
  <2>5. row[g] = "sent" => row'[g] = "sent" \/ row'[f] = "sent"
    BY <1>1, <2>1, <2>2 DEF Types, TableType
  <2> QED BY <1>1, <1>3, <2>2, <2>3, <2>4, <2>5, RowsMove
<1>6. CASE UNCHANGED <<row, hashed>>
  BY <1>3, <1>6, RowsSame
<1> QED BY <1>2, <1>4, <1>5, <1>6 DEF RegisterMisses, RegisterKnown, RegisterSent

LEMMA SendRows ==
    ASSUME Types, NEW c \in Makes, Line(c), Rows(c), NEW f \in File, Send(f)
    PROVE  Rows(c)'
<1>1. row[f] = "pending" /\ hashed' = hashed /\ rec' = rec
  BY DEF Send
<1>2. CASE f \notin OnDisk \/ Big(f)
  <2>1. row' = [row EXCEPT ![f] = "failed"] /\ posted' = posted
    BY <1>2 DEF Send
  <2> QED BY <1>1, <2>1, RowsMove DEF Rows, Types, TableType
<1>3. CASE ~(f \notin OnDisk \/ Big(f))
  <2>1. row' = [row EXCEPT ![f] = "sent"]
    BY <1>3 DEF Send
  <2>2. /\ \A g \in File : row'[g] # "none" => hashed'[g] = c
        /\ \A g \in File : row[g] = "sent" => row'[g] = "sent"
    BY <1>1, <2>1 DEF Rows, Types, TableType
  <2>3. CASE SentTwin(f)
    <3>1. posted' = posted
      BY <1>3, <2>3 DEF Send
    <3> QED BY <1>1, <2>2, <3>1, RowsMove
  <2>4. CASE ~SentTwin(f)
    <3> DEFINE n == <<f, content[f], Cardinality(posted) + 1>>
    <3>1. posted' = posted \cup {n} /\ n[1] = f
      BY <1>3, <2>4 DEF Send
    <3> HIDE DEF n
    <3>2. Level(f) /\ row'[f] = "sent"
      BY <1>1, <1>3, <2>1 DEF Line, FilesFine, Level, Types, TableType
    <3>3. hashed[f] = c /\ c \in Good
      BY <1>1 DEF Rows, Makes, Good
    <3>4. \A p \in posted : p[2] \in Good => Holds(p[1]) \cap Holds(f) = {}
      <4> SUFFICES ASSUME NEW p \in posted, p[2] \in Good, Holds(p[1]) \cap Holds(f) # {}
                   PROVE  FALSE
        OBVIOUS
      <4>1. PICK g \in File : row[g] = "sent" /\ Holds(g) = Holds(p[1])
        BY DEF Rows
      <4>2. Level(p[1]) /\ p[1] \in File
        BY DEF Rows, Types, TableType
      <4>3. Holds(g) = Holds(f) /\ hashed[g] = c /\ g # f
        BY <1>1, <3>2, <4>1, <4>2, LevelHolds DEF Rows
      <4> QED BY <2>4, <3>3, <4>1, <4>3 DEF SentTwin
    <3>5. \A p \in posted' : p[2] \in Good =>
             Level(p[1]) /\ \E g \in File : row'[g] = "sent" /\ Holds(g) = Holds(p[1])
      BY <2>2, <3>1, <3>2 DEF Rows
    <3>6. \A p, q \in posted' :
            p[2] \in Good /\ q[2] \in Good /\ Holds(p[1]) \cap Holds(q[1]) # {} => p = q
      BY <3>1, <3>4 DEF Rows
    <3> QED BY <1>1, <2>2, <3>5, <3>6, RecStays DEF Rows, Level
  <2> QED BY <2>3, <2>4
<1> QED BY <1>2, <1>3

LEMMA RemuxDoneRows ==
    ASSUME Types, NEW c, NEW d, Line(c), Rows(c), RemuxDone
    PROVE  Rows(d)'
<1>1. \A f \in File : row[f] = "none"
  BY DEF RemuxDone, Line, CleanRemux
<1>2. UNCHANGED <<rec, row, hashed, posted>>
  BY DEF RemuxDone, table
<1>3. \A p \in posted : p[2] \notin Good
  BY <1>1 DEF Rows
<1> QED BY <1>1, <1>2, <1>3 DEF Rows

LEMMA RowsStep ==
    ASSUME Types, NEW c \in Makes, Line(c), Rows(c), Step, Note, ~half', ~RemuxDone
    PROVE  Rows(c)'
<1>1. ASSUME NEW w \in Worker, Sweep(w) \/ Crash(w) \/ Visit(w) \/ Prepare(w) \/ Retire(w)
                                \/ ConvertFails(w) \/ SplitFails(w)
      PROVE  Rows(c)'
  BY <1>1, RowsSame DEF Sweep, Crash, Visit, Prepare, PassThrough, Busy, Convert, Split,
     Converted, ConvertedTooBig, FirstPart, SplitDone, Retire, ConvertFails, SplitFails, table
<1>2. ASSUME TakeJob \/ Arrive \/ RetireOversize \/ RemuxFails \/ Recover
      PROVE  Rows(c)'
  BY <1>2, RowsSame DEF TakeJob, Arrive, RetireOversize, RemuxFails, Recover, table
<1>3. ASSUME DeleteRow PROVE Rows(c)'
  <2>1. /\ Forget(work["archiver"].src) /\ work["archiver"].pc = "forget" /\ rec' = rec
        /\ posted' = posted /\ work["archiver"].src \in File /\ "archiver" \in Worker
    BY <1>3 DEF DeleteRow, Types, WorkType, Worker
  <2>2. row[work["archiver"].src] # "sent"
    BY <2>1 DEF Line, HandFine, FilesFine
  <2> QED BY <2>1, <2>2, ForgetRows
<1>4. ASSUME Deliver PROVE Rows(c)'
  <2>1. PICK f \in File : Send(f) \/ Collect(f)
    BY <1>4 DEF Deliver
  <2>2. CASE Collect(f)
    <3>1. row[f] # "sent" /\ Forget(f) /\ rec' = rec /\ posted' = posted
      BY <2>2 DEF Collect
    <3> QED BY <3>1, ForgetRows
  <2> QED BY <2>1, <2>2, SendRows
<1> QED BY <1>1, <1>2, <1>3, <1>4, PassRows, RegisterRows DEF Step, Proceed

LEMMA LineStep ==
    ASSUME Types, NEW c \in Makes, Line(c), Step, Note, ~(met' /\ rec.fresh)
    PROVE  \E d \in Makes : Line(d)' /\ (d = c \/ RemuxDone)
<1>1. CASE RemuxDone
  BY <1>1, RemuxDoneLine
<1>2. CASE ~RemuxDone
  BY <1>2, SweepLine, PassLine, VisitLine, TakeJobLine, RemuxFailsLine, ArriveLine,
     PassThroughLine, BusyLine, ConvertLine, SplitLine, ConvertedLine, ConvertedTooBigLine,
     ConvertFailsLine, FirstPartLine, SplitDoneLine, SplitFailsLine, RetireLine, RecoverLine,
     RetireOversizeLine, DeleteRowLine, CrashLine, RegisterLine, DeliverLine DEF Step,
     Proceed, Prepare
<1> QED BY <1>1, <1>2

LEMMA StutterTraced == ASSUME Traced, UNCHANGED vars PROVE Traced'
<1>1. UNCHANGED <<rec, content, row, hashed, oversized, posted, work, jobs, met, half>>
  BY DEF vars, files, table, control
<1>2. \A c : (Line(c)' <=> Line(c)) /\ (Rows(c)' <=> Rows(c))
  BY <1>1 DEF Line, FilesFine, HandFine, JobsFine, CleanRemux, Rows, Level, Writable, Big,
     Unfit, Registers, Splits, Occurs, Consumed
<1> QED BY <1>1, <1>2 DEF Traced

LEMMA TracedStep ==
    ASSUME Types, Traced, [Next]_vars
    PROVE  Traced'
<1>1. CASE UNCHANGED vars
  BY <1>1, StutterTraced
<1>2. CASE Next
  <2>1. Step /\ Note /\ rec' = rec
    <3>1. Step /\ Note
      BY <1>2 DEF Next
    <3>2. Types'
      BY TypesStep
    <3>3. rec' = rec
      BY <3>1, SweepTyped, PassTyped, VisitTyped, TakeJobTyped, RemuxDoneTyped,
         RemuxFailsTyped, ArriveTyped, PassThroughTyped, BusyTyped, ConvertTyped, SplitTyped,
         ConvertedTyped, ConvertedTooBigTyped, ConvertFailsTyped, FirstPartTyped,
         SplitDoneTyped, SplitFailsTyped, RetireTyped, RecoverTyped, RetireOversizeTyped,
         DeleteRowTyped, CrashTyped, RegisterTyped, DeliverTyped
      DEF Step, Proceed, Prepare, Typed, CountStep
    <3> QED BY <3>1, <3>3
  <2>2. CASE met' /\ rec.fresh
    BY <2>1, <2>2 DEF Traced
  <2>3. CASE ~(met' /\ rec.fresh)
    <3>1. PICK c \in Makes : Line(c) /\ (half \/ Rows(c))
      BY <2>1, <2>3 DEF Traced, Note
    <3>2. PICK d \in Makes : Line(d)' /\ (d = c \/ RemuxDone)
      BY <2>1, <2>3, <3>1, LineStep
    <3>3. CASE half'
      BY <3>2, <3>3 DEF Traced
    <3>4. CASE ~half'
      <4>1. Rows(c)
        BY <2>1, <3>1, <3>4 DEF Note
      <4>2. Rows(d)'
        BY <2>1, <3>1, <3>2, <3>4, <4>1, RowsStep, RemuxDoneRows
      <4> QED BY <3>2, <4>2 DEF Traced
    <3> QED BY <3>3, <3>4
  <2> QED BY <2>2, <2>3
<1> QED BY <1>1, <1>2

LEMMA TracedOnce == ASSUME Types, Traced PROVE PostedOnce
<1> SUFFICES ASSUME ~(met /\ rec.fresh), ~half, NEW h \in {1, 2}
             PROVE  Cardinality(Posted(h)) <= 1
  BY DEF PostedOnce
<1>1. PICK c \in Makes : Rows(c)
  BY DEF Traced
<1>2. \A p, q \in Posted(h) : p = q
  BY <1>1 DEF Posted, Rows
<1>3. CASE Posted(h) = {}
  BY <1>3, FS_EmptySet
<1>4. CASE Posted(h) # {}
  <2>1. PICK p \in Posted(h) : TRUE
    BY <1>4
  <2>2. Posted(h) = {p}
    BY <1>2, <2>1
  <2>3. Cardinality({p}) = 1
    BY FS_Singleton
  <2> QED BY <2>2, <2>3
<1> QED BY <1>3, <1>4

LEMMA InitTraced == Init => Traced
<1> SUFFICES ASSUME Init PROVE Traced
  OBVIOUS
<1>1. Occurs(rec) /\ rec \in Recording
  BY PrepAssumption DEF Init
<1>2. PICK c \in Makes : c = IF rec.stage = "captured" THEN "encoded"
                             ELSE IF rec.foreign THEN "again" ELSE "remuxed"
  BY DEF Makes
<1> DEFINE b == IF rec.stage = "captured" THEN "captured" ELSE "remuxed"
           f == IF rec.stage = "captured" THEN "raw" ELSE "mp4"
           S == {g \in {f} : rec.stage = "refused"}
<1>3. /\ content = [g \in File |-> IF g = f THEN b ELSE "none"]
      /\ row = [g \in File |-> IF g \in S THEN "failed" ELSE "none"]
      /\ hashed = [g \in File |-> IF g \in S THEN b ELSE "none"]
      /\ oversized = S /\ posted = {} /\ jobs = {g \in {f} : rec.fresh}
      /\ work = [w \in Worker |-> Idle]
  BY DEF Init
<1>4. Writable("mp4")
  BY DEF Writable, Part
<1>5. FilesFine(c)
  BY <1>1, <1>2, <1>3, <1>4, FileFacts DEF FilesFine, Occurs, Unfit, Big, Recording
<1>6. \A w \in Worker : HandFine(c, w)
  BY <1>3, IdleIs DEF HandFine, Registers, Splits
<1>7. JobsFine /\ CleanRemux
  BY <1>1, <1>3, IdleIs DEF JobsFine, CleanRemux, Occurs, Worker
<1>8. Rows(c)
  BY <1>1, <1>2, <1>3 DEF Rows, Occurs
<1> QED BY <1>1, <1>5, <1>6, <1>7, <1>8 DEF Line, Traced

\* No half of the footage is posted twice, however often it is prepared again
\* after a death, a failed split or a lost race: find_by_content_hash, sent_twin
\* and the status column together see to it - unless a row was made of
\* half-written bytes, whose digest tells nothing.
THEOREM HalvesArePostedOnce == Spec => []PostedOnce
<1>1. Init => Types /\ Traced
  BY InitTyped, InitTraced
<1>2. Types /\ Traced /\ [Next]_vars => (Types /\ Traced)'
  BY TypesStep, TracedStep
<1>3. Types /\ Traced => PostedOnce
  BY TracedOnce
<1> QED BY <1>1, <1>2, <1>3, PTL DEF Spec

-----------------------------------------------------------------------------
(* The lock.  While the workers are apart, or have met where the lock       *)
(* covers all that either makes, at most one of them prepares, what is      *)
(* prepared or about to be replaced is the origin, and no file has two      *)
(* writers.                                                                 *)

\* The workers may meet: the lock covers all that either makes.
Duo == ~rec.fresh /\ ~Intermediate /\ crashes = 0
Apart == met => Duo
Origin == IF rec.stage = "captured" THEN "raw" ELSE "mp4"

Preps(w) == work[w].pc \in {"convert", "split", "recover"}
Replaces(w) == Registers(w) /\ work[w].made

OneAtATime == ~met => \E w \in Worker : work[w] = Idle

Pair == Duo =>
    /\ \A w \in Worker : Preps(w) \/ Replaces(w) => work[w].src = Origin
    /\ \A v, w \in Worker : Preps(v) /\ Preps(w) => v = w

Paired == Contended \/ (OneAtATime /\ Pair /\ torn = {})

\* The lock is taken.
Starts(w) == Convert(w) \/ Split(w) \/ (w = "archiver" /\ Recover)

\* Nothing else is prepared, or is to replace its source, than before.
Onward(w) ==
    /\ Rest(w)
    /\ work'[w].pc \in {"convert", "split", "recover"} => Preps(w) /\ work'[w].src = work[w].src
    /\ work'[w].pc \in {"register", "requeue"} /\ work'[w].made =>
          (Preps(w) \/ Replaces(w)) /\ work'[w].src = work[w].src

LEMMA ApartIs == ASSUME Types PROVE ~Contended <=> Apart
<1>1. crashes \in Nat
  BY PrepAssumption DEF Types, CountType, Recording
<1> QED BY <1>1 DEF Contended, Apart, Duo

LEMMA Company ==
    ASSUME Types, OneAtATime, Apart, NEW v \in Worker, NEW w \in Worker, v # w,
           work[v].pc # "idle", work[w].pc # "idle"
    PROVE  met /\ Duo
BY IdleIs DEF OneAtATime, Apart, Worker

LEMMA Joined ==
    ASSUME Note, met' => Duo, NEW v \in Worker, NEW w \in Worker, v # w,
           work'[v].pc # "idle", work'[w].pc # "idle"
    PROVE  met' /\ Duo
BY IdleIs DEF Note, Meet, Worker

LEMMA DuoFiles ==
    ASSUME Types, NEW c \in Makes, Line(c), Duo
    PROVE  /\ \A f \in File : Probes(f) /\ ~Streamable(f) => f = Origin
           /\ \A f \in {"mp4", "tgprep"} : Writable(f) /\ rec.oversize => f = Origin
           /\ \A w \in Worker : Splits(w) => work[w].out = Origin
           /\ \A f \in Part : Writable(f) => f \in {"mp4_1", "mp4_2"}
<1>1. ASSUME NEW f \in File, Probes(f), ~Streamable(f) PROVE f = Origin
  <2>1. FilesFine(c) /\ ~rec.fresh
    BY DEF Line, Duo
  <2>2. /\ Unfit(f) /\ f \in {"raw", "mp4"}
        /\ f = "raw" => c = "encoded"
        /\ f = "mp4" => c = "again"
    BY <1>1, <2>1, UnfitFile
  <2>3. content[f] = "captured" => f = "raw"
    BY <2>1 DEF FilesFine
  <2>4. content[f] = "remuxed" => f = "mp4" /\ rec.stage # "captured"
    BY <2>1, <2>2 DEF FilesFine, Unfit
  <2>5. /\ content["raw"] \in {"captured", "none"}
        /\ (rec.stage # "captured" => content["raw"] = "none")
    BY <2>1 DEF FilesFine
  <2> QED BY <2>2, <2>3, <2>4, <2>5 DEF Unfit, Origin
<1>2. \A f \in {"mp4", "tgprep"} : Writable(f) /\ rec.oversize => f = Origin
  BY DEF Duo, Intermediate, Writable, Origin
<1>3. \A w \in Worker : Splits(w) => work[w].out = Origin
  BY <1>2 DEF Line, HandFine
<1>4. \A f \in Part : Writable(f) => f \in {"mp4_1", "mp4_2"}
  BY DEF Duo, Intermediate, Writable, Part
<1> QED BY <1>1, <1>2, <1>3, <1>4

LEMMA StartIs ==
    ASSUME Types, NEW c \in Makes, Line(c), NEW w \in Worker, Starts(w)
    PROVE  /\ Rest(w) /\ Fields(work'[w]) /\ work[w].pc \in {"probe", "idle"}
           /\ ~work'[w].first /\ work'[w].outs = {} /\ ~work'[w].made
           /\ UNCHANGED <<rec, row, hashed, oversized, posted, crashes>>
           /\ \E f, o \in File :
                 /\ work'[w].src = f /\ work'[w].out = o /\ ~Locked(f) /\ (Duo => f = Origin)
                 /\ \/ work'[w].pc = "convert" /\ Open({o}) /\ o # f /\ o \in {"mp4", "tgprep"}
                    \/ work'[w].pc \in {"split", "recover"} /\ Open(PartsOf(o)) /\ o = f
                       /\ o \in {"mp4", "tgprep"} /\ rec.oversize
<1>1. CASE Convert(w)
  <2> DEFINE f == work[w].src
             o == Target(work[w].src)
  <2>1. /\ Becomes(w, "convert", f, o, work[w].outs, work[w].first, work[w].made)
        /\ f \in File /\ o \in File
    BY <1>1, ConvertIs, PartsAreFiles DEF Types, WorkType
  <2>2. /\ work[w].pc = "probe" /\ Probes(f) /\ ~Streamable(f) /\ ~Locked(f) /\ Open({o})
        /\ UNCHANGED <<rec, row, hashed, oversized, posted, crashes>>
        /\ HandFine(c, w) /\ FilesFine(c)
    BY <1>1 DEF Convert, table, Line
  <2>3. work[w].outs = {} /\ ~work[w].first /\ ~work[w].made
    BY <2>2 DEF HandFine, Registers
  <2>4. f \in {"raw", "mp4"}
    BY <2>1, <2>2, UnfitFile
  <2>5. o # f /\ o \in {"mp4", "tgprep"}
    BY <2>4 DEF Target
  <2>6. Duo => f = Origin
    BY <2>1, <2>2, DuoFiles
  <2> HIDE DEF f, o
  <2>7. /\ Rest(w) /\ Fields(work'[w]) /\ ~work'[w].first /\ work'[w].outs = {}
        /\ ~work'[w].made
        /\ work'[w].src = f /\ work'[w].out = o /\ work'[w].pc = "convert"
    BY <2>1, <2>3 DEF Becomes
  <2> QED BY <2>1, <2>2, <2>5, <2>6, <2>7
<1>2. CASE Split(w)
  <2> DEFINE f == work[w].src
  <2>1. /\ Becomes(w, "split", f, f, work[w].outs, work[w].first, work[w].made)
        /\ f \in File
    BY <1>2, SplitIs DEF Types, WorkType
  <2>2. /\ work[w].pc = "probe" /\ NeedsWork(f) /\ (Probes(f) => Streamable(f)) /\ ~Locked(f)
        /\ Open(PartsOf(f))
        /\ UNCHANGED <<rec, row, hashed, oversized, posted, crashes>>
        /\ HandFine(c, w) /\ FilesFine(c)
    BY <1>2 DEF Split, table, Line
  <2>3. work[w].outs = {} /\ ~work[w].first /\ ~work[w].made
    BY <2>2 DEF HandFine, Registers
  <2>4. f \in {"mp4", "tgprep"} /\ Writable(f) /\ rec.oversize
    BY <2>1, <2>2, SplittableFile
  <2>6. Duo => f = Origin
    BY <2>4, DuoFiles
  <2> HIDE DEF f
  <2>7. /\ Rest(w) /\ Fields(work'[w]) /\ ~work'[w].first /\ work'[w].outs = {}
        /\ ~work'[w].made
        /\ work'[w].src = f /\ work'[w].out = f /\ work'[w].pc = "split"
    BY <2>1, <2>3 DEF Becomes
  <2> QED BY <2>1, <2>2, <2>4, <2>6, <2>7
<1>3. CASE w = "archiver" /\ Recover
  <2>1. PICK f \in oversized :
              /\ f \in File /\ row[f] = "failed" /\ f \in OnDisk /\ Big(f) /\ ~Locked(f)
              /\ Open(PartsOf(f)) /\ work["archiver"] = Idle
              /\ Becomes("archiver", "recover", f, f, {}, FALSE, FALSE)
    BY <1>3, RecoverIs
  <2>2. UNCHANGED <<rec, row, hashed, oversized, posted, crashes>> /\ FilesFine(c)
    BY <1>3 DEF Recover, table, Line
  <2>3. f \in {"mp4", "tgprep"} /\ Writable(f) /\ rec.oversize
    BY <2>1, <2>2 DEF FilesFine, Big
  <2>4. Duo => f = Origin
    BY <2>3, DuoFiles
  <2>5. /\ Rest(w) /\ Fields(work'[w]) /\ ~work'[w].first /\ work'[w].outs = {}
        /\ ~work'[w].made
        /\ work'[w].src = f /\ work'[w].out = f /\ work'[w].pc = "recover"
        /\ work[w].pc = "idle"
    BY <1>3, <2>1, IdleIs DEF Becomes
  <2> QED BY <2>1, <2>2, <2>3, <2>4, <2>5
<1> QED BY <1>1, <1>2, <1>3 DEF Starts

LEMMA OnwardIs ==
    ASSUME Types, NEW c \in Makes, Line(c), Step
    PROVE  \E w \in Worker : Starts(w) \/ Onward(w)
<1> USE DEF Onward, Preps, Replaces, Registers
<1>1. ASSUME UNCHANGED work PROVE \E w \in Worker : Onward(w)
  BY <1>1 DEF Rest, Types, WorkType, Worker
<1>2. ASSUME NEW w \in Worker,
             \/ \E s, o \in File : \E S, a : Becomes(w, "idle", s, o, S, a, FALSE)
             \/ \E s, o \in File : \E S, a : Becomes(w, "probe", s, o, S, a, FALSE)
             \/ \E s, o \in File : \E S, a : Becomes(w, "arrive", s, o, S, a, FALSE)
             \/ \E s, o \in File : \E S, a : Becomes(w, "remux", s, o, S, a, FALSE)
      PROVE  Onward(w)
  BY <1>2 DEF Becomes
<1>3. ASSUME NEW w \in Worker, Becomes(w, "idle", "raw", "raw", {}, FALSE, FALSE)
      PROVE  Onward(w)
  BY <1>3 DEF Becomes
<1>4. ASSUME NEW w \in Worker, Sweep(w) \/ Pass(w) PROVE \E v \in Worker : Onward(v)
  BY <1>1, <1>4 DEF Sweep, Pass
<1>5. ASSUME Deliver PROVE \E v \in Worker : Onward(v)
  BY <1>1, <1>5 DEF Deliver, Send, Collect
<1>6. ASSUME NEW w \in Worker, Visit(w) PROVE \E v \in Worker : Onward(v)
  BY <1>6, VisitIs DEF Becomes
<1>7. ASSUME TakeJob PROVE \E v \in Worker : Onward(v)
  BY <1>1, <1>7, TakeJobIs DEF Becomes, Worker
<1>8. ASSUME RemuxDone \/ RemuxFails PROVE \E v \in Worker : Onward(v)
  BY <1>8, RemuxDoneIs, RemuxFailsIs DEF Becomes, Worker
<1>9. ASSUME Arrive PROVE \E v \in Worker : Onward(v)
  BY <1>9, ArriveIs DEF Becomes, Worker
<1>10. ASSUME NEW w \in Worker, PassThrough(w) PROVE \E v \in Worker : Onward(v)
  <2>1. ~work[w].made
    BY <1>10 DEF PassThrough, Line, HandFine
  <2> QED BY <1>10, <2>1, PassThroughIs DEF Becomes
<1>11. ASSUME NEW w \in Worker, Busy(w) \/ ConvertFails(w) \/ SplitFails(w) \/ Retire(w) \/ Crash(w)
       PROVE  \E v \in Worker : Onward(v)
  BY <1>3, <1>11, FromIdle DEF Busy, ConvertFails, SplitFails, Retire, Crash
<1>12. ASSUME NEW w \in Worker, Converted(w) PROVE \E v \in Worker : Onward(v)
  BY <1>12, ConvertedIs DEF Converted, Becomes
<1>13. ASSUME NEW w \in Worker, ConvertedTooBig(w) PROVE \E v \in Worker : Onward(v)
  BY <1>13, ConvertedTooBigIs DEF ConvertedTooBig, Becomes
<1>14. ASSUME NEW w \in Worker, FirstPart(w) PROVE \E v \in Worker : Onward(v)
  <2>1. work[w].pc \in {"split", "recover"}
    BY <1>14 DEF FirstPart
  <2> QED BY <1>14, <2>1, FirstPartIs DEF Becomes
<1>15. ASSUME NEW w \in Worker, SplitDone(w) PROVE \E v \in Worker : Onward(v)
  <2>1. work[w].pc \in {"split", "recover"}
    BY <1>15 DEF SplitDone
  <2> QED BY <1>15, <2>1, SplitDoneIs DEF Becomes
<1>16. ASSUME NEW w \in Worker, Register(w) PROVE \E v \in Worker : Onward(v)
  <2>1. PICK f : Accounted(w, f) \/ Missed(w, f)
    BY <1>16 DEF Register, RegisterMisses, RegisterKnown, RegisterNew, RegisterSent, RegisterTwin
  <2>2. Becomes(w, work[w].pc, work[w].src, work[w].out, work[w].outs \ {f}, work[w].first,
  work[w].made)
    BY <2>1, AccountedIs, MissedIs
  <2> QED BY <2>2 DEF Becomes
<1>17. ASSUME RetireOversize PROVE \E v \in Worker : Onward(v)
  BY <1>17, RetireOversizeIs DEF Becomes, Worker
<1>18. ASSUME DeleteRow PROVE \E v \in Worker : Onward(v)
  BY <1>3, <1>18, FromIdle DEF DeleteRow, Worker
<1> QED BY <1>4, <1>5, <1>6, <1>7, <1>8, <1>9, <1>10, <1>11, <1>12, <1>13, <1>14, <1>15,
   <1>16, <1>17, <1>18 DEF Step, Proceed, Prepare, Starts, Worker

LEMMA DuoBack ==
    ASSUME Types, CountStep, Duo'
    PROVE  Duo /\ Origin' = Origin
<1>1. crashes \in Nat
  BY PrepAssumption DEF Types, CountType, Recording
<1> QED BY <1>1 DEF CountStep, Duo, Intermediate, Origin

LEMMA PairStays ==
    ASSUME Types, NEW c \in Makes, Line(c), Pair, Step, CountStep
    PROVE  Pair'
<1> SUFFICES ASSUME Duo'
             PROVE  /\ \A w \in Worker : (Preps(w) \/ Replaces(w))' => work'[w].src = Origin'
                    /\ \A v, w \in Worker : Preps(v)' /\ Preps(w)' => v = w
  BY DEF Pair
<1>1. Duo /\ Origin' = Origin
  BY DuoBack
<1>2. /\ \A w \in Worker : Preps(w) \/ Replaces(w) => work[w].src = Origin
      /\ \A v, w \in Worker : Preps(v) /\ Preps(w) => v = w
  BY <1>1 DEF Pair
<1>3. PICK w \in Worker : Starts(w) \/ Onward(w)
  BY OnwardIs
<1>4. CASE Onward(w)
  BY <1>1, <1>2, <1>4 DEF Onward, Rest, Preps, Replaces, Registers
<1>5. CASE Starts(w)
  <2>1. /\ Rest(w) /\ work'[w].pc \in {"convert", "split", "recover"} /\ work'[w].src = Origin
        /\ ~Locked(Origin)
    BY <1>1, <1>5, StartIs
  <2>2. \A v \in Worker : ~Preps(v)
    BY <1>2, <2>1 DEF Locked, Preps
  <2>3. \A v \in Worker \ {w} : ~Preps(v)' /\ (Replaces(v)' => Replaces(v) /\ work'[v].src = work[v].src)
    BY <2>1, <2>2 DEF Rest, Preps, Replaces, Registers
  <2> QED BY <1>1, <1>2, <2>1, <2>3 DEF Preps, Replaces, Registers
<1> QED BY <1>3, <1>4, <1>5

\* Who starts to write is alone in it, and so is who goes on.
LEMMA StartsAlone ==
    ASSUME Types, NEW c \in Makes, Line(c), Pair, Note, met' => Duo,
           NEW w \in Worker, Starts(w), NEW v \in Worker, v # w
    PROVE  work[v].pc \notin {"convert", "split", "recover", "remux"}
<1> SUFFICES ASSUME work[v].pc \in {"convert", "split", "recover", "remux"} PROVE FALSE
  OBVIOUS
<1>1. Rest(w) /\ work'[w].pc # "idle"
  BY StartIs
<1>2. work'[v] = work[v]
  BY <1>1 DEF Rest
<1>3. Duo
  BY <1>1, <1>2, Joined
<1>4. Preps(v)
  BY <1>3 DEF Line, HandFine, Duo, Preps
<1>5. ~Locked(Origin) /\ work[v].src = Origin
  BY <1>3, <1>4, StartIs DEF Pair
<1> QED BY <1>4, <1>5 DEF Locked, Preps

LEMMA GoesAlone ==
    ASSUME Types, NEW c \in Makes, Line(c), OneAtATime, Pair, Apart,
           NEW w \in Worker, Preps(w), NEW v \in Worker, v # w
    PROVE  work[v].pc \notin {"convert", "split", "recover", "remux"}
<1> SUFFICES ASSUME work[v].pc \in {"convert", "split", "recover", "remux"} PROVE FALSE
  OBVIOUS
<1>1. Duo
  BY Company DEF Preps
<1>2. Preps(v)
  BY <1>1 DEF Line, HandFine, Duo, Preps
<1> QED BY <1>1, <1>2 DEF Pair

LEMMA WritersPrepare ==
    ASSUME Types, NEW f \in File, NEW v \in Writers(f)
    PROVE  v \in Worker /\ work[v].pc \in {"convert", "split", "recover", "remux"}
BY DEF Writers, Writing

LEMMA TornStays ==
    ASSUME Types, NEW c \in Makes, Line(c), OneAtATime, Pair, torn = {}, Apart, met' => Duo,
           Step, Note, CountStep
    PROVE  torn' = {}
<1>1. ASSUME NEW w \in Worker, Starts(w) PROVE torn' = {}
  <2>1. PICK S : S \in SUBSET File /\ Open(S)
    BY <1>1, StartIs, PartsAreFiles
  <2>2. work[w].pc \in {"probe", "idle"}
    BY <1>1, StartIs
  <2>3. \A f \in S : Writers(f) = {}
    BY <1>1, <2>1, <2>2, StartsAlone, WritersPrepare
  <2> QED BY <2>1, <2>3 DEF Open
<1>2. ASSUME TakeJob PROVE torn' = {}
  <2>1. PICK f \in jobs : /\ Open({"mp4"})
                          /\ Becomes("recorder", "remux", f, "mp4", {}, FALSE, FALSE)
                          \/ UNCHANGED <<files, work>>
    BY <1>2, TakeJobIs
  <2>2. CASE Open({"mp4"}) /\ Becomes("recorder", "remux", f, "mp4", {}, FALSE, FALSE)
    <3>1. rec.fresh /\ work["recorder"] = Idle
      BY <1>2 DEF Line, JobsFine, TakeJob
    <3>2. work'["recorder"].pc # "idle" /\ work'["archiver"] = work["archiver"]
      BY <2>2 DEF Becomes, Rest, Worker
    <3>3. work["archiver"].pc = "idle"
      BY <3>1, <3>2, Joined DEF Duo, Worker
    <3>4. Writers("mp4") = {}
      BY <3>1, <3>3, IdleIs DEF Writers, Writing, Worker
    <3> QED BY <2>2, <3>4 DEF Open
  <2> QED BY <2>1, <2>2 DEF files
<1>3. ASSUME NEW w \in Worker, ConvertedTooBig(w) PROVE torn' = {}
  <2>1. work[w].pc = "convert" /\ Big(work[w].out) /\ HandFine(c, w)
    BY <1>3 DEF ConvertedTooBig, Line
  <2>2. Intermediate
    BY <2>1 DEF HandFine, Intermediate, Big
  <2>3. ~Duo
    BY <2>2 DEF Duo
  <2>4. \A v \in Worker \ {w} : work[v].pc = "idle"
    BY <2>1, <2>3, Company
  <2>5. \A f \in PartsOf(work[w].out) : Writers(f) = {}
    BY <2>1, <2>4, FileFacts DEF Writers, Writing, Types, WorkType
  <2> QED BY <1>3, <2>5 DEF ConvertedTooBig
<1>4. ASSUME NEW w \in Worker,
             \/ Sweep(w) \/ Pass(w) \/ Visit(w) \/ PassThrough(w) \/ Busy(w) \/ Converted(w)
             \/ FirstPart(w) \/ SplitDone(w) \/ ConvertFails(w) \/ SplitFails(w) \/ Retire(w) \/ Crash(w)
      PROVE  torn' = {}
  BY <1>4 DEF Sweep, Pass, Visit, PassThrough, Busy, Converted, Write, FirstPart, SplitDone,
     ConvertFails, SplitFails, Retire, Crash, files
<1>5. ASSUME RemuxDone \/ RemuxFails \/ Arrive \/ RetireOversize \/ DeleteRow \/ Deliver
      PROVE  torn' = {}
  BY <1>5 DEF RemuxDone, RemuxFails, Arrive, RetireOversize, DeleteRow, Deliver, Send,
     Collect, files
<1>6. ASSUME NEW w \in Worker, Register(w) PROVE torn' = {}
  BY <1>6 DEF Register, RegisterMisses, RegisterKnown, RegisterNew, RegisterSent,
     RegisterTwin, files
<1> QED BY <1>1, <1>2, <1>3, <1>4, <1>5, <1>6 DEF Step, Proceed, Prepare, Starts, Worker

LEMMA StepCounts ==
    ASSUME Types, Step
    PROVE  CountStep
BY SweepTyped, PassTyped, VisitTyped, TakeJobTyped, RemuxDoneTyped, RemuxFailsTyped,
   ArriveTyped, PassThroughTyped, BusyTyped, ConvertTyped, SplitTyped, ConvertedTyped,
   ConvertedTooBigTyped, ConvertFailsTyped, FirstPartTyped, SplitDoneTyped, SplitFailsTyped,
   RetireTyped, RecoverTyped, RetireOversizeTyped, DeleteRowTyped, CrashTyped, RegisterTyped,
   DeliverTyped DEF Step, Proceed, Prepare, Typed

\* What holds of the workers before and after a step that leaves them apart.
LEMMA ApartBack ==
    ASSUME Types, Step, Note, ~Contended'
    PROVE  ~Contended /\ Apart /\ (met' => Duo) /\ (met => met') /\ CountStep /\ Apart'
<1>1. CountStep /\ (met => met') /\ met' \in BOOLEAN
  BY StepCounts DEF Note, Types, CountType
<1>2. Types'
  BY TypesStep DEF Next
<1>3. crashes' \in Nat /\ crashes \in Nat
  BY <1>2, PrepAssumption DEF Types, CountType, Recording
<1>4. met' => Duo'
  BY <1>3 DEF Contended, Duo
<1>5. met' => Duo
  BY <1>1, <1>4, DuoBack
<1> QED BY <1>1, <1>4, <1>5, ApartIs DEF Apart

LEMMA PairedStep ==
    ASSUME Types, Traced, Paired, [Next]_vars
    PROVE  Paired'
<1>1. CASE UNCHANGED vars
  BY <1>1 DEF vars, files, control, Paired, Contended, Intermediate, OneAtATime, Pair, Duo,
     Preps, Replaces, Registers, Origin
<1>2. CASE Next
  <2> SUFFICES ASSUME ~Contended' PROVE (OneAtATime /\ Pair /\ torn = {})'
    BY DEF Paired
  <2>1. Step /\ Note
    BY <1>2 DEF Next
  <2>2. ~Contended /\ Apart /\ (met' => Duo) /\ CountStep
    BY <2>1, ApartBack
  <2>3. OneAtATime /\ Pair /\ torn = {}
    BY <2>2 DEF Paired
  <2>4. PICK c \in Makes : Line(c)
    BY <2>2 DEF Traced, Apart, Duo
  <2>5. OneAtATime'
    BY <2>1 DEF OneAtATime, Note, Meet
  <2>6. Pair'
    BY <2>1, <2>2, <2>3, <2>4, PairStays
  <2>7. torn' = {}
    BY <2>1, <2>2, <2>3, <2>4, TornStays
  <2> QED BY <2>5, <2>6, <2>7
<1> QED BY <1>1, <1>2

LEMMA InitPaired == Init => Paired
BY IdleIs DEF Init, Paired, OneAtATime, Pair, Preps, Replaces, Registers, Worker

\* _prep_lock: no two encoders write one file, whatever dies or fails, as long as
\* the workers meet only where the lock is taken.
THEOREM OneEncoderAFile == Spec => []OneWriter
<1>1. Init => Types /\ Traced /\ Paired
  BY InitTyped, InitTraced, InitPaired
<1>2. Types /\ Traced /\ Paired /\ [Next]_vars => (Types /\ Traced /\ Paired)'
  BY TypesStep, TracedStep, PairedStep
<1>3. Paired => OneWriter
  BY DEF Paired, OneWriter
<1> QED BY <1>1, <1>2, <1>3, PTL DEF Spec

-----------------------------------------------------------------------------
(* No footage is lost.  At every moment each half is posted, or whole in a  *)
(* file that nobody is to unlink before another one holds the same; a row   *)
(* that says sent is posted; and a row stands for such a file or for what   *)
(* is posted.                                                               *)

\* What w may unlink: the parts of an unfinished split, with the file it made to
\* split, and the source it is to replace.
AtRisk(f, w) ==
    \/ Splits(w) /\ (f \in PartsOf(work[w].out) \/ (f = work[w].out /\ f # work[w].src))
    \/ Replaces(w) /\ f = work[w].src

InWriting(f, w) ==
    \/ work[w].pc \in {"convert", "remux"} /\ f = work[w].out
    \/ Splits(w) /\ f \in PartsOf(work[w].out) /\ (work[w].first => Holds(f) # {1})

\* A file nobody is to unlink before another one holds the same.
Sure(f) == content[f] \in Good /\ \A w \in Worker : ~AtRisk(f, w)

AllPosted(f) == \A h \in Holds(f) : Posted(h) # {}
Covered(f) == \A h \in Holds(f) : Posted(h) # {} \/ \E g \in File : Sure(g) /\ h \in Holds(g)

\* A row that stands for its file.  (Parts may be split anew when the workers meet.)
Owed(g) == Known(g) /\ hashed[g] \in Good /\ ~Big(g) /\ (met => g \notin Part)

Spread == \A h \in {1, 2} : Posted(h) # {} \/ \E f \in File : Sure(f) /\ h \in Holds(f)

Booked == /\ \A f \in File : row[f] = "sent" => AllPosted(f)
          /\ \A g \in File : Owed(g) => AllPosted(g) \/ Sure(g)

InHand == \A w \in Worker :
    /\ \A f \in File : InWriting(f, w) => content[f] \notin Good
    /\ Splits(w) /\ work[w].first =>
          \A p \in PartsOf(work[w].out) : Holds(p) = {1} => content[p] # "broken"
    /\ \A f \in work[w].outs : Big(f) => content[f] \notin Good

Keeps == Spread /\ Booked /\ InHand

Ready(c) == Types /\ Line(c) /\ OneAtATime /\ Pair /\ torn = {} /\ Apart /\ Keeps
Moved == Types' /\ Note /\ (met' => Duo) /\ (met => met') /\ ~remade' /\ rec' = rec

\* No worker takes on anything that puts a file at risk.
Rested(v) ==
    /\ work'[v].pc \notin {"convert", "split", "recover", "remux"}
    /\ work'[v].pc \in {"register", "requeue"} /\ work'[v].made =>
          Replaces(v) /\ work'[v].src = work[v].src
    /\ \A f \in work'[v].outs : f \in work[v].outs \/ ~(Big(f) /\ content[f] \in Good)

Hush == \A v \in Worker : work'[v] = work[v] \/ Rested(v)
Shrinks == \A f \in File : content'[f] \in {content[f], "none"}

LEMMA PostedGrow ==
    ASSUME posted \subseteq posted'
    PROVE  /\ \A h : Posted(h) # {} => Posted(h)' # {}
           /\ \A f : AllPosted(f) => AllPosted(f)'
BY DEF Posted, AllPosted

LEMMA SpreadMoves ==
    ASSUME Spread, posted \subseteq posted', \A f \in File : Sure(f) => Sure(f)' \/ Covered(f)'
    PROVE  Spread'
<1> SUFFICES ASSUME NEW h \in {1, 2}
             PROVE  Posted(h)' # {} \/ \E f \in File : Sure(f)' /\ h \in Holds(f)
  BY DEF Spread
<1>1. CASE Posted(h) # {}
  BY <1>1, PostedGrow
<1>2. CASE Posted(h) = {}
  <2>1. PICK f \in File : Sure(f) /\ h \in Holds(f)
    BY <1>2 DEF Spread
  <2>2. CASE Covered(f)'
    BY <2>1, <2>2 DEF Covered
  <2> QED BY <2>1, <2>2
<1> QED BY <1>1, <1>2

LEMMA BookedMoves ==
    ASSUME Booked, posted \subseteq posted',
           \A f \in File : row'[f] = "sent" => row[f] = "sent" \/ AllPosted(f)',
           \A g \in File : Owed(g)' => \/ Owed(g) /\ (Sure(g) => Sure(g)')
                                       \/ AllPosted(g)' \/ Sure(g)'
    PROVE  Booked'
BY PostedGrow DEF Booked

LEMMA OwedStays ==
    ASSUME UNCHANGED <<rec, row, hashed>>, met => met'
    PROVE  \A g : Owed(g)' => Owed(g)
BY DEF Owed, Known, Big

LEMMA HushHands ==
    ASSUME Types, InHand, Hush, Shrinks, rec' = rec
    PROVE  /\ InHand'
           /\ \A f \in File : \A w \in Worker : AtRisk(f, w)' => AtRisk(f, w)
<1>1. ASSUME NEW w \in Worker, NEW f \in File, AtRisk(f, w)' PROVE AtRisk(f, w)
  BY <1>1 DEF Hush, Rested, AtRisk, Splits, Replaces, Registers
<1>2. ASSUME NEW w \in Worker, NEW f \in File, InWriting(f, w)' PROVE content'[f] \notin Good
  <2>1. InWriting(f, w)
    BY <1>2 DEF Hush, Rested, InWriting, Splits
  <2> QED BY <2>1 DEF InHand, Shrinks, Good
<1>3. ASSUME NEW w \in Worker, Splits(w)', work'[w].first, NEW p \in PartsOf(work'[w].out),
Holds(p) = {1}
      PROVE  content'[p] # "broken"
  <2>1. work'[w] = work[w] /\ Splits(w) /\ p \in File
    BY <1>3, PartsAreFiles DEF Hush, Rested, Splits, Types, WorkType
  <2> QED BY <1>3, <2>1 DEF InHand, Shrinks
<1>4. ASSUME NEW w \in Worker, NEW f \in work'[w].outs, Big(f) PROVE content'[f] \notin Good
  <2>1. f \in File
    BY <1>4 DEF Big, File, Whole
  <2>2. content[f] \notin Good
    BY <1>4 DEF Hush, Rested, InHand
  <2> QED BY <2>1, <2>2 DEF Shrinks, Good
<1> QED BY <1>1, <1>2, <1>3, <1>4, RecStays DEF InHand

LEMMA HushKeeps ==
    ASSUME Types, Keeps, Hush, Shrinks, rec' = rec, posted \subseteq posted',
           \A f \in File : row'[f] = "sent" => row[f] = "sent" \/ AllPosted(f)',
           \A f \in File : Sure(f) => content'[f] = content[f] \/ Covered(f)',
           \A g \in File : Owed(g)' => \/ Owed(g) /\ (Sure(g) => content'[g] = content[g])
                                       \/ AllPosted(g)' \/ Sure(g)'
    PROVE  Keeps'
<1>1. InHand' /\ \A f \in File : \A w \in Worker : AtRisk(f, w)' => AtRisk(f, w)
  BY HushHands DEF Keeps
<1>2. \A f \in File : Sure(f) /\ content'[f] = content[f] => Sure(f)'
  BY <1>1 DEF Sure
<1>3. Spread'
  BY <1>2, SpreadMoves DEF Keeps
<1>4. Booked'
  BY <1>2, BookedMoves DEF Keeps
<1> QED BY <1>1, <1>3, <1>4 DEF Keeps

LEMMA HushSure ==
    ASSUME Types, Keeps, Hush, Shrinks, rec' = rec, posted' = posted, met => met',
           \A f \in File : row'[f] \in {row[f], "none"} /\ (row'[f] # "none" => hashed'[f] = hashed[f]),
           \A f \in File : Sure(f) => content'[f] = content[f]
    PROVE  Keeps'
<1>1. \A g \in File : Owed(g)' => Owed(g)
  BY RecStays DEF Owed, Known
<1>2. \A f \in File : row'[f] = "sent" => row[f] = "sent"
  OBVIOUS
<1> QED BY <1>1, <1>2, HushKeeps

LEMMA HushSame ==
    ASSUME Types, Keeps, Hush, UNCHANGED <<rec, content, row, hashed, posted>>, met => met'
    PROVE  Keeps'
BY HushSure DEF Shrinks

LEMMA OpenKeeps ==
    ASSUME Types, Keeps, NEW w \in Worker, Rest(w), NEW S \in SUBSET File, Open(S),
           UNCHANGED <<rec, row, hashed, posted>>, met => met',
           \A f \in S : content[f] \notin Good,
           \A v \in Worker \ {w} : work[v].pc \notin {"convert", "split", "recover", "remux"},
           work'[w].outs = {},
           \/ work'[w].pc \in {"convert", "remux"} /\ S = {work'[w].out}
           \/ /\ work'[w].pc \in {"split", "recover"} /\ S = PartsOf(work'[w].out)
              /\ work'[w].out = work'[w].src /\ ~work'[w].first
    PROVE  Keeps'
<1>1. \A f \in File : content'[f] = IF f \in S THEN "broken" ELSE content[f]
  BY DEF Open
<1>2. \A v \in Worker \ {w} : work'[v] = work[v]
  BY DEF Rest
<1>3. ASSUME NEW f \in File, Sure(f) PROVE Sure(f)'
  <2>1. f \notin S /\ content'[f] = content[f]
    BY <1>1, <1>3 DEF Sure
  <2>2. ~AtRisk(f, w)'
    BY <2>1 DEF AtRisk, Splits, Replaces, Registers
  <2>3. \A v \in Worker \ {w} : ~AtRisk(f, v)'
    BY <1>2, <1>3 DEF Sure, AtRisk, Splits, Replaces, Registers
  <2> QED BY <1>3, <2>1, <2>2, <2>3 DEF Sure
<1>4. Spread'
  BY <1>3, SpreadMoves DEF Keeps
<1>5. Booked'
  BY <1>3, OwedStays, BookedMoves DEF Keeps
<1>6. InHand'
  <2>1. ASSUME NEW v \in Worker, NEW f \in File, InWriting(f, v)' PROVE content'[f] \notin Good
    <3>1. v = w /\ f \in S
      BY <1>2, <2>1 DEF InWriting, Splits
    <3> QED BY <1>1, <3>1 DEF Good
  <2>2. \A v \in Worker : ~(Splits(v)' /\ work'[v].first)
    BY <1>2 DEF Splits
  <2>3. ASSUME NEW v \in Worker, NEW f \in work'[v].outs, Big(f) PROVE content'[f] \notin Good
    <3>1. f \in File /\ content[f] \notin Good
      BY <1>2, <2>3 DEF Big, File, Whole, Keeps, InHand
    <3> QED BY <1>1, <3>1 DEF Good
  <2> QED BY <2>1, <2>2, <2>3, RecStays DEF InHand
<1> QED BY <1>4, <1>5, <1>6 DEF Keeps

LEMMA StartKeeps ==
    ASSUME NEW c \in Makes, Ready(c), Moved, NEW w \in Worker, Starts(w)
    PROVE  Keeps'
<1>1. /\ Types /\ Line(c) /\ Pair /\ Note /\ (met' => Duo) /\ (met => met') /\ ~remade' /\ Keeps
  BY DEF Ready, Moved
<1>2. /\ Rest(w) /\ work[w].pc \in {"probe", "idle"} /\ ~work'[w].first /\ work'[w].outs = {}
      /\ UNCHANGED <<rec, row, hashed, posted>>
  BY <1>1, StartIs
<1>3. PICK o \in File :
          /\ work'[w].out = o
          /\ \/ work'[w].pc = "convert" /\ Open({o})
             \/ work'[w].pc \in {"split", "recover"} /\ Open(PartsOf(o)) /\ o = work'[w].src
  BY <1>1, StartIs
<1>4. \A v \in Worker \ {w} : work[v].pc \notin {"convert", "split", "recover", "remux"}
  BY <1>1, StartsAlone
<1>5. \A f \in File : f \in Writing(w)' => content[f] \notin Good
  <2>1. ~Remake
    BY <1>1 DEF Note
  <2>2. Writing(w) = {}
    BY <1>2 DEF Writing
  <2> QED BY <2>1, <2>2 DEF Remake, Probes
<1>6. CASE work'[w].pc = "convert" /\ Open({o})
  <2>1. o \in Writing(w)'
    BY <1>3, <1>6 DEF Writing
  <2>2. {o} \in SUBSET File /\ \A f \in {o} : content[f] \notin Good
    BY <1>5, <2>1
  <2> QED BY <1>1, <1>2, <1>3, <1>4, <1>6, <2>2, OpenKeeps
<1>7. CASE work'[w].pc \in {"split", "recover"} /\ Open(PartsOf(o)) /\ o = work'[w].src
  <2>1. \A f \in PartsOf(o) : f \in Writing(w)'
    BY <1>2, <1>3, <1>7 DEF Writing
  <2>2. PartsOf(o) \in SUBSET File /\ \A f \in PartsOf(o) : content[f] \notin Good
    BY <1>5, <2>1, PartsAreFiles
  <2> QED BY <1>1, <1>2, <1>3, <1>4, <1>7, <2>2, OpenKeeps
<1> QED BY <1>3, <1>6, <1>7

LEMMA TakeJobKeeps ==
    ASSUME NEW c \in Makes, Ready(c), Moved, TakeJob
    PROVE  Keeps'
<1>1. /\ Types /\ Line(c) /\ Note /\ (met' => Duo) /\ (met => met') /\ Keeps
      /\ UNCHANGED <<rec, row, hashed, posted>> /\ "recorder" \in Worker
  BY DEF Ready, Moved, TakeJob, table, Worker
<1>2. PICK f \in jobs :
              /\ f \in File /\ jobs' = jobs \ {f}
              /\ \/ /\ f \in OnDisk /\ Open({"mp4"})
                    /\ Becomes("recorder", "remux", f, "mp4", {}, FALSE, FALSE)
                 \/ UNCHANGED <<files, work>>
  BY <1>1, TakeJobIs
<1>3. CASE UNCHANGED <<files, work>>
  BY <1>1, <1>3, HushSame DEF Hush, files
<1>4. CASE Open({"mp4"}) /\ Becomes("recorder", "remux", f, "mp4", {}, FALSE, FALSE)
  <2>1. rec.fresh /\ ~met'
    BY <1>1, <1>2 DEF Line, JobsFine, Duo
  <2>2. "mp4" \notin OnDisk /\ "mp4" \in File
    <3>1. ~\E g \in File \ {"raw"} : g \in OnDisk \/ Known(g)
      BY <1>1, <1>2, <1>4, <2>1 DEF Note, Meet, Becomes
    <3> QED BY <3>1, FileFacts
  <2>3. content["mp4"] \notin Good
    BY <2>2 DEF OnDisk, Good
  <2>4. /\ Rest("recorder") /\ work'["recorder"].pc = "remux" /\ work'["recorder"].out = "mp4"
        /\ work'["recorder"].outs = {}
    BY <1>4 DEF Becomes
  <2>5. \A v \in Worker \ {"recorder"} : work[v].pc = "idle"
    BY <1>1, <2>1, <2>4, Joined DEF Rest
  <2>6. {"mp4"} \in SUBSET File
    BY <2>2
  <2> QED BY <1>1, <1>4, <2>3, <2>4, <2>5, <2>6, OpenKeeps
<1> QED BY <1>2, <1>3, <1>4

-----------------------------------------------------------------------------
(* Passing, giving up, sending and collecting keep the footage.             *)

LEMMA HushOf ==
    ASSUME Types, NEW w \in Worker, Rest(w), Rested(w)
    PROVE  Hush
BY DEF Hush, Rest

LEMMA IdleRests ==
    ASSUME Types, NEW w \in Worker, NEW p \in {"idle", "probe", "arrive"}, NEW s, NEW o,
           NEW a, NEW m, Becomes(w, p, s, o, {}, a, m)
    PROVE  Hush
<1>1. Rested(w) /\ Rest(w)
  BY DEF Rested, Becomes
<1> QED BY <1>1, HushOf

LEMMA SameKeeps ==
    ASSUME NEW c \in Makes, Ready(c), Moved, NEW w \in Worker,
           \/ Sweep(w) \/ Visit(w) \/ PassThrough(w) \/ Busy(w) \/ Crash(w)
           \/ (w = "recorder" /\ Arrive)
    PROVE  Keeps'
<1>1. /\ Types /\ Keeps /\ (met => met') /\ UNCHANGED <<rec, content, row, hashed, posted>>
      /\ HandFine(c, w)
  BY DEF Ready, Moved, Sweep, Visit, PassThrough, Busy, Crash, Arrive, files, table, Line
<1>2. Hush
  <2>1. CASE Sweep(w)
    BY <2>1 DEF Sweep, Hush
  <2>2. CASE Visit(w)
    BY <1>1, <2>2, VisitIs, IdleRests
  <2>3. CASE Busy(w)
    BY <1>1, <2>3, FromIdle, IdleRests DEF Busy
  <2>4. CASE Crash(w)
    BY <1>1, <2>4, FromIdle, IdleRests DEF Crash
  <2>5. CASE w = "recorder" /\ Arrive
    <3>1. work[w].outs = {} /\ work[w].outs \in SUBSET File
      BY <1>1, <2>5 DEF Arrive, HandFine, Registers, Types, WorkType
    <3> QED BY <1>1, <2>5, <3>1, ArriveIs, IdleRests
  <2>6. CASE PassThrough(w)
    <3>1. /\ Becomes(w, "register", work[w].src, work[w].out, {work[w].src}, work[w].first, work[w].made)
          /\ work[w].pc = "probe" /\ ~work[w].made
      BY <1>1, <2>6, PassThroughIs DEF PassThrough, HandFine
    <3>2. ~(Big(work[w].src) /\ content[work[w].src] \in Good)
      BY <2>6 DEF PassThrough, NeedsWork, Probes, Good
    <3>3. Rested(w) /\ Rest(w)
      BY <3>1, <3>2 DEF Rested, Becomes
    <3> QED BY <1>1, <3>3, HushOf
  <2> QED BY <2>1, <2>2, <2>3, <2>4, <2>5, <2>6
<1> QED BY <1>1, <1>2, HushSame

\* What is given up, or retired, was not what the footage relies on.
LEMMA GiveUpKeeps ==
    ASSUME NEW c \in Makes, Ready(c), Moved, NEW w \in Worker,
           \/ ConvertFails(w) \/ SplitFails(w) \/ Retire(w) \/ (w = "recorder" /\ RemuxFails)
           \/ (w = "archiver" /\ (RetireOversize \/ DeleteRow))
    PROVE  Keeps'
<1>1. /\ Types /\ Keeps /\ (met => met') /\ UNCHANGED <<rec, posted>>
      /\ HandFine(c, w) /\ InHand /\ w \in Worker
      /\ work[w].outs \in SUBSET File /\ work[w].out \in File /\ work[w].src \in File
  BY DEF Ready, Moved, ConvertFails, SplitFails, Retire, RemuxFails, RetireOversize,
     DeleteRow, table, Line, Keeps, Types, WorkType
<1>2. Hush
  <2>1. CASE ConvertFails(w) \/ SplitFails(w) \/ Retire(w)
    BY <1>1, <2>1, FromIdle, IdleRests DEF ConvertFails, SplitFails, Retire
  <2>2. CASE w = "recorder" /\ RemuxFails
    BY <1>1, <2>2, RemuxFailsIs, IdleRests
  <2>3. CASE w = "archiver" /\ DeleteRow
    BY <1>1, <2>3, FromIdle, IdleRests DEF DeleteRow
  <2>4. CASE w = "archiver" /\ RetireOversize
    <3>1. CASE Becomes("archiver", "idle", "raw", "raw", {}, FALSE, FALSE)
      BY <1>1, <2>4, <3>1, IdleRests
    <3>2. CASE Becomes("archiver", "forget", work["archiver"].src, work["archiver"].out,
    work["archiver"].outs, work["archiver"].first, work["archiver"].made)
      <4>1. Rested(w) /\ Rest(w)
        BY <2>4, <3>2 DEF Rested, Becomes
      <4> QED BY <1>1, <4>1, HushOf
    <3> QED BY <1>1, <2>4, <3>1, <3>2, RetireOversizeIs
  <2> QED BY <2>1, <2>2, <2>3, <2>4
<1>3. Shrinks
  BY DEF ConvertFails, SplitFails, Retire, RemuxFails, RetireOversize, DeleteRow, Unlink,
     Shrinks, files
<1>4. \A f \in File : Sure(f) => content'[f] = content[f]
  <2> SUFFICES ASSUME NEW f \in File, Sure(f), content'[f] # content[f] PROVE FALSE
    OBVIOUS
  <2>1. content[f] \in Good /\ ~AtRisk(f, w)
    BY <1>1 DEF Sure
  <2>2. ~InWriting(f, w)
    BY <1>1, <2>1 DEF InHand
  <2>3. ~DeleteRow
    BY DEF DeleteRow, files
  <2>4. CASE ConvertFails(w)
    BY <2>2, <2>4 DEF ConvertFails, Unlink, InWriting, Types, FileType
  <2>5. CASE SplitFails(w)
    BY <2>1, <2>5 DEF SplitFails, Unlink, AtRisk, Splits
  <2>6. CASE Retire(w)
    <3>1. f = work[w].src /\ RetireOriginal(w) /\ work[w].pc = "register"
      BY <2>6 DEF Retire, Unlink
    <3> QED BY <2>1, <3>1 DEF AtRisk, Replaces, Registers, RetireOriginal
  <2>7. CASE w = "recorder" /\ RemuxFails
    <3>1. f = "mp4" /\ work[w].pc = "remux"
      BY <2>7 DEF RemuxFails, Unlink
    <3> QED BY <1>1, <2>2, <3>1 DEF InWriting, HandFine
  <2>8. CASE w = "archiver" /\ RetireOversize
    <3>1. f = work[w].src /\ RetireOriginal(w) /\ work[w].pc = "requeue"
      BY <2>8 DEF RetireOversize, Unlink
    <3> QED BY <2>1, <3>1 DEF AtRisk, Replaces, Registers, RetireOriginal
  <2> QED BY <2>3, <2>4, <2>5, <2>6, <2>7, <2>8
<1>5. \A f \in File : row'[f] \in {row[f], "none"} /\ (row'[f] # "none" => hashed'[f] = hashed[f])
  BY <1>1 DEF ConvertFails, SplitFails, Retire, RemuxFails, RetireOversize, DeleteRow, Forget,
     table, Types, TableType
<1>6. posted' = posted
  BY <1>1
<1> QED BY <1>1, <1>2, <1>3, <1>4, <1>5, <1>6, HushSure

LEMMA CollectKeeps ==
    ASSUME NEW c \in Makes, Ready(c), Moved, NEW f \in File, Collect(f)
    PROVE  Keeps'
<1>1. /\ Types /\ Keeps /\ (met => met') /\ UNCHANGED <<rec, posted, content, work>>
      /\ Forget(f)
  BY DEF Ready, Moved, Collect, files
<1>2. \A g \in File : row'[g] \in {row[g], "none"} /\ (row'[g] # "none" => hashed'[g] = hashed[g])
  BY <1>1 DEF Forget, Types, TableType
<1>3. Hush /\ Shrinks
  BY <1>1 DEF Hush, Shrinks
<1> QED BY <1>1, <1>2, <1>3, HushSure

LEMMA PassKeeps ==
    ASSUME NEW c \in Makes, Ready(c), Moved, NEW w \in Worker, Pass(w)
    PROVE  Keeps'
<1> DEFINE f == FirstOf(walk[w])
<1>1. /\ Types /\ Keeps /\ Booked /\ (met => met') /\ UNCHANGED <<rec, posted, work, hashed>>
      /\ f \in File
  BY FirstIsIn DEF Ready, Moved, Pass, Types, WalkType, Keeps
<1>2. /\ \A g \in File : content'[g] = content[g] \/ (content'[g] = "none" /\ row[g] = "sent")
      /\ \A g \in File : row'[g] = row[g] \/ (row[g] = "failed" /\ row'[g] = "pending")
  BY <1>1 DEF Pass, Unlink, Types, TableType
<1>3. Hush /\ Shrinks
  BY <1>1, <1>2 DEF Hush, Shrinks
<1>4. \A g \in File : row[g] = "sent" => AllPosted(g)'
  BY <1>1, PostedGrow DEF Booked
<1>5. \A g \in File : row'[g] = "sent" => row[g] = "sent"
  BY <1>2
<1>6. \A g \in File : AllPosted(g)' => Covered(g)'
  BY DEF AllPosted, Covered
<1>7. \A g \in File : Owed(g)' => Owed(g)
  BY <1>1, <1>2, RecStays DEF Owed, Known
<1> QED BY <1>1, <1>2, <1>3, <1>4, <1>5, <1>6, <1>7, HushKeeps

\* Sent, or suppressed because a twin was: the file goes, its halves are there.
LEMMA SendKeeps ==
    ASSUME NEW c \in Makes, Ready(c), Moved, NEW f \in File, Send(f), ~BrokenPosted'
    PROVE  Keeps'
<1>1. /\ Types /\ Keeps /\ Booked /\ (met => met') /\ UNCHANGED <<rec, work, hashed>>
      /\ row[f] = "pending"
  BY DEF Ready, Moved, Send, Keeps
<1>2. Hush
  BY <1>1 DEF Hush
<1>3. \A g \in File : Owed(g)' => Owed(g)
  <2>1. \A g \in File : Known(g)' => Known(g)
    BY <1>1 DEF Send, Known, Types, TableType
  <2> QED BY <1>1, <2>1, RecStays DEF Owed
<1>4. CASE f \notin OnDisk \/ Big(f)
  <2>1. row' = [row EXCEPT ![f] = "failed"] /\ UNCHANGED <<content, posted>>
    BY <1>4 DEF Send
  <2>2. Shrinks /\ \A g \in File : row'[g] = "sent" => row[g] = "sent"
    BY <1>1, <2>1 DEF Shrinks, Types, TableType
  <2>3. posted \subseteq posted'
    BY <2>1
  <2> QED BY <1>1, <1>2, <1>3, <2>1, <2>2, <2>3, HushKeeps
<1>5. CASE f \in OnDisk /\ ~Big(f)
  <2>1. /\ row' = [row EXCEPT ![f] = "sent"] /\ Unlink({f})
        /\ posted' = IF SentTwin(f) THEN posted
                     ELSE posted \cup {<<f, content[f], Cardinality(posted) + 1>>}
    BY <1>5 DEF Send
  <2>2. posted \subseteq posted'
    BY <2>1
  <2>3. AllPosted(f)'
    <3>1. CASE SentTwin(f)
      <4>1. PICK g \in File : row[g] = "sent" /\ Holds(g) = Holds(f)
        BY <3>1 DEF SentTwin
      <4>2. AllPosted(g)'
        BY <1>1, <2>2, <4>1, PostedGrow DEF Booked
      <4> QED BY <4>1, <4>2 DEF AllPosted
    <3>2. CASE ~SentTwin(f)
      <4> DEFINE p == <<f, content[f], Cardinality(posted) + 1>>
      <4>1. p \in posted' /\ p[1] = f /\ p[2] = content[f]
        BY <2>1, <3>2
      <4>2. content[f] \in Good
        <5>1. content[f] # "broken"
          BY <4>1 DEF BrokenPosted
        <5> QED BY <1>1, <1>5, <5>1 DEF OnDisk, Types, FileType, Content
      <4> HIDE DEF p
      <4> QED BY <4>1, <4>2 DEF AllPosted, Posted
    <3> QED BY <3>1, <3>2
  <2>4. \A g \in File : row'[g] = "sent" => row[g] = "sent" \/ AllPosted(g)'
    BY <1>1, <2>1, <2>3 DEF Types, TableType
  <2>5. \A g \in File : content'[g] = content[g] \/ (g = f /\ content'[g] = "none")
    BY <2>1 DEF Unlink
  <2>6. Shrinks
    BY <2>5 DEF Shrinks
  <2>7. \A g \in File : Sure(g) => content'[g] = content[g] \/ Covered(g)'
    BY <2>3, <2>5 DEF AllPosted, Covered
  <2>8. \A g \in File : Owed(g)' => \/ Owed(g) /\ (Sure(g) => content'[g] = content[g])
                                    \/ AllPosted(g)' \/ Sure(g)'
    BY <1>3, <2>3, <2>5
  <2> QED BY <1>1, <1>2, <2>2, <2>4, <2>6, <2>7, <2>8, HushKeeps
<1> QED BY <1>4, <1>5

-----------------------------------------------------------------------------
(* Registering the outputs keeps it.                                        *)

\* What was made into something else cannot be streamed, and has no row.
LEMMA ConsumedUnfit ==
    ASSUME Types, NEW c \in Makes, FilesFine(c), NEW f \in File, Consumed(c, f),
           content[f] \in Good
    PROVE  Unfit(f) /\ ~Known(f)
<1>1. Unfit(f)
  <2>1. content["raw"] \in {"captured", "none"} /\ content["mp4"] # "again"
    BY DEF FilesFine
  <2>2. CASE f = "raw"
    BY <2>1, <2>2 DEF Unfit, Good
  <2>3. CASE f = "mp4" /\ c = "again"
    BY <2>1, <2>3 DEF FilesFine, Unfit, Good
  <2> QED BY <2>2, <2>3 DEF Consumed
<1> QED BY <1>1 DEF FilesFine, Known

LEMMA OutsSure ==
    ASSUME NEW c \in Makes, Ready(c), NEW w \in Worker, NEW f \in work[w].outs, f \in File,
           content[f] \in Good
    PROVE  Sure(f) \/ (met /\ f \in Part)
<1>1. /\ Types /\ OneAtATime /\ Apart /\ Pair /\ InHand /\ Line(c) /\ HandFine(c, w)
      /\ FilesFine(c)
  BY DEF Ready, Line, Keeps
<1>2. Registers(w) /\ ~Unfit(f) /\ (work[w].made => f # work[w].src) /\ ~Big(f)
  BY <1>1 DEF HandFine, InHand
<1>3. ~AtRisk(f, w)
  BY <1>2 DEF AtRisk, Splits, Replaces, Registers
<1>4. ASSUME NEW v \in Worker, v # w, AtRisk(f, v) PROVE met /\ f \in Part
  <2>1. met /\ Duo
    BY <1>1, <1>2, <1>4, Company DEF AtRisk, Splits, Replaces, Registers
  <2>2. CASE Splits(v)
    <3>1. work[v].src = Origin /\ work[v].out = Origin
      BY <1>1, <2>1, <2>2, DuoFiles DEF Pair, Preps, Splits
    <3>2. f \in PartsOf(work[v].out) /\ work[v].out \in File
      BY <1>1, <1>4, <2>2, <3>1 DEF AtRisk, Replaces, Registers, Splits, Types, WorkType
    <3> QED BY <2>1, <3>2, FileFacts
  <2>3. CASE Replaces(v)
    <3>1. f = work[v].src
      BY <1>4, <2>3 DEF AtRisk, Replaces, Registers, Splits
    <3>2. Big(f) \/ Consumed(c, f)
      BY <1>1, <2>3, <3>1 DEF Line, HandFine, Replaces
    <3> QED BY <1>1, <1>2, <3>2, ConsumedUnfit
  <2> QED BY <1>4, <2>1, <2>2, <2>3 DEF AtRisk
<1> QED BY <1>3, <1>4 DEF Sure

LEMMA RegisterKeeps ==
    ASSUME NEW c \in Makes, Ready(c), Moved, NEW w \in Worker, Register(w)
    PROVE  Keeps'
<1>1. /\ Types /\ Keeps /\ Booked /\ (met => met') /\ (met' => Duo) /\ UNCHANGED <<rec, posted>>
      /\ FilesFine(c) /\ HandFine(c, w)
  BY DEF Ready, Moved, Register, Keeps, Line
<1>2. PICK f \in File : f \in work[w].outs /\ f = FirstOf(work[w].outs)
  <2>1. work[w].outs \in SUBSET File /\ work[w].outs # {}
    BY <1>1 DEF Register, Types, WorkType
  <2> QED BY <2>1, FirstIsIn
<1>3. \/ RegisterMisses(w, f) \/ RegisterKnown(w, f) \/ RegisterNew(w, f)
      \/ RegisterSent(w, f) \/ RegisterTwin(w, f)
  BY <1>2 DEF Register
<1>4. Becomes(w, work[w].pc, work[w].src, work[w].out, work[w].outs \ {f}, work[w].first,
work[w].made)
  BY <1>1, <1>3, AccountedIs, MissedIs DEF RegisterMisses, RegisterKnown, RegisterNew,
     RegisterSent, RegisterTwin
<1>5. Hush
  <2>1. Rested(w) /\ Rest(w)
    BY <1>4 DEF Rested, Becomes, Replaces, Registers, Register
  <2> QED BY <1>1, <2>1, HushOf
<1>6. ~Unfit(f) /\ (content[f] \in Good => ~Big(f) /\ (Sure(f) \/ (met /\ f \in Part)))
  BY <1>1, <1>2, OutsSure DEF HandFine, Keeps, InHand
<1>7. CASE RegisterMisses(w, f) \/ RegisterKnown(w, f)
  BY <1>1, <1>5, <1>7, HushSame DEF RegisterMisses, RegisterKnown, files
<1>8. CASE RegisterNew(w, f)
  <2>1. /\ row' = [row EXCEPT ![f] = "pending"] /\ hashed' = [hashed EXCEPT ![f] = content[f]]
        /\ content' = content
    BY <1>8 DEF RegisterNew, AddItem, files
  <2>2. \A g \in File : row'[g] = "sent" => row[g] = "sent"
    BY <1>1, <2>1 DEF Types, TableType
  <2>3. \A g \in File \ {f} : Owed(g)' => Owed(g)
    BY <1>1, <1>2, <2>1 DEF Owed, Known, Big, Types, TableType
  <2>4. ASSUME Owed(f)' PROVE Sure(f)'
    <3>1. content[f] \in Good /\ (met' => f \notin Part)
      BY <1>1, <1>2, <2>1, <2>4 DEF Owed, Types, TableType
    <3>2. Sure(f)
      BY <1>1, <1>6, <3>1
    <3>3. Shrinks
      BY <2>1 DEF Shrinks
    <3>4. \A v \in Worker : AtRisk(f, v)' => AtRisk(f, v)
      BY <1>1, <1>2, <1>5, <3>3, HushHands DEF Keeps
    <3> QED BY <2>1, <3>1, <3>2, <3>4 DEF Sure
  <2>5. Shrinks /\ posted \subseteq posted'
    BY <1>1, <2>1 DEF Shrinks
  <2>6. \A g \in File : Owed(g)' => \/ Owed(g) /\ (Sure(g) => content'[g] = content[g])
                                    \/ AllPosted(g)' \/ Sure(g)'
    BY <2>1, <2>3, <2>4
  <2> QED BY <1>1, <1>5, <2>1, <2>2, <2>5, <2>6, HushKeeps
<1>9. CASE RegisterSent(w, f)
  <2>1. PICK g \in Twins(f) : row[g] = "sent"
    BY <1>9 DEF RegisterSent
  <2>2. g \in File /\ Holds(g) = Holds(f)
    BY DEF Twins
  <2>3. /\ Unlink({f}) /\ UNCHANGED <<row, hashed>>
    BY <1>9 DEF RegisterSent
  <2>4. posted \subseteq posted'
    BY <1>1
  <2>5. AllPosted(g)'
    BY <1>1, <2>1, <2>2, <2>4, PostedGrow DEF Booked
  <2>6. AllPosted(f)'
    BY <2>2, <2>5 DEF AllPosted
  <2>7. \A k \in File : content'[k] = content[k] \/ (k = f /\ content'[k] = "none")
    BY <2>3 DEF Unlink
  <2>8. Shrinks
    BY <2>7 DEF Shrinks
  <2>9. \A k \in File : Sure(k) => content'[k] = content[k] \/ Covered(k)'
    BY <2>6, <2>7 DEF AllPosted, Covered
  <2>10. \A k \in File : Owed(k)' => Owed(k)
    BY <1>1, <2>3, OwedStays
  <2>11. \A k \in File : Owed(k)' => \/ Owed(k) /\ (Sure(k) => content'[k] = content[k])
                                     \/ AllPosted(k)' \/ Sure(k)'
    BY <2>6, <2>7, <2>10
  <2> QED BY <1>1, <1>5, <2>3, <2>4, <2>8, <2>9, <2>11, HushKeeps
<1>10. CASE RegisterTwin(w, f)
  <2>1. PICK g \in Twins(f), now \in Status :
              /\ now = IF row[g] = "failed" THEN "pending" ELSE row[g]
              /\ \/ /\ Unlink({g})
                    /\ row' = [row EXCEPT ![g] = "none", ![f] = now]
                    /\ hashed' = [hashed EXCEPT ![g] = "none", ![f] = hashed[g]]
                 \/ /\ g \in OnDisk /\ Unlink({f})
                    /\ row' = [row EXCEPT ![g] = now]
                    /\ hashed' = hashed
    BY <1>1, <1>10 DEF RegisterTwin, Twins, Types, TableType, Status
  <2>2. /\ g \in File /\ Known(g) /\ Holds(g) = Holds(f) /\ hashed[g] = content[f]
        /\ content[f] \in Good
        /\ ~Known(f) /\ g # f
    BY <1>10 DEF Twins, RegisterTwin
  <2>3. ~Big(g)
    <3>1. Writable(f) /\ f # "raw"
      BY <1>1, <1>2, <1>6, <2>2 DEF FilesFine, Unfit, Good
    <3> QED BY <1>2, <1>6, <2>2, <3>1, FileFacts DEF Big, Part
  <2>4. ~(met' /\ f \in Part) /\ ~(met' /\ g \in Part)
    <3> SUFFICES ASSUME met', f \in Part \/ g \in Part PROVE FALSE
      OBVIOUS
    <3>1. Duo /\ f \in Part /\ g \in Part
      BY <1>1, <1>2, <2>2, FileFacts DEF Part
    <3>2. Writable(f) /\ Writable(g)
      BY <1>1, <1>2, <2>2, <3>1 DEF FilesFine, Known, Part, Good
    <3>3. f \in {"mp4_1", "mp4_2"} /\ g \in {"mp4_1", "mp4_2"}
      BY <1>1, <3>1, <3>2, DuoFiles DEF Ready
    <3> QED BY <2>2, <3>3, FileFacts
  <2>5. Owed(g)
    BY <1>1, <2>2, <2>3, <2>4 DEF Owed
  <2>6. AllPosted(g) \/ Sure(g)
    BY <1>1, <2>2, <2>5 DEF Booked
  <2>7. Sure(f)
    BY <1>1, <1>6, <2>2, <2>4
  <2>8. posted \subseteq posted' /\ Shrinks
    BY <1>1, <2>1 DEF Shrinks, Unlink
  <2>9. \A k \in File : \A v \in Worker : AtRisk(k, v)' => AtRisk(k, v)
    BY <1>1, <1>5, <2>8, HushHands DEF Keeps
  <2>10. \A k \in File : row[k] = "sent" => AllPosted(k)'
    BY <1>1, <2>8, PostedGrow DEF Booked
  <2>11. row[g] = "sent" => AllPosted(f)'
    BY <2>2, <2>10 DEF AllPosted
  <2>12. CASE /\ Unlink({g})
              /\ row' = [row EXCEPT ![g] = "none", ![f] = now]
              /\ hashed' = [hashed EXCEPT ![g] = "none", ![f] = hashed[g]]
    <3>1. \A k \in File : content'[k] = content[k] \/ (k = g /\ content'[k] = "none")
      BY <2>12 DEF Unlink
    <3>2. Sure(f)'
      BY <1>2, <2>2, <2>7, <2>9, <3>1 DEF Sure
    <3>3. Covered(g)'
      BY <1>2, <2>2, <3>2 DEF Covered
    <3>4. \A k \in File : row'[k] = "sent" => row[k] = "sent" \/ AllPosted(k)'
      BY <1>1, <1>2, <2>1, <2>2, <2>11, <2>12 DEF Types, TableType
    <3>5. \A k \in File \ {f, g} : Owed(k)' => Owed(k)
      BY <1>1, <1>2, <2>2, <2>12 DEF Owed, Known, Big, Types, TableType
    <3>6. ~Owed(g)'
      BY <1>1, <1>2, <2>2, <2>12 DEF Owed, Known, Types, TableType
    <3>7. \A k \in File : Owed(k)' => \/ Owed(k) /\ (Sure(k) => content'[k] = content[k])
                                      \/ AllPosted(k)' \/ Sure(k)'
      BY <3>1, <3>2, <3>5, <3>6
    <3>8. \A k \in File : Sure(k) => content'[k] = content[k] \/ Covered(k)'
      BY <3>1, <3>3
    <3> QED BY <1>1, <1>5, <2>8, <3>4, <3>7, <3>8, HushKeeps
  <2>13. CASE /\ g \in OnDisk /\ Unlink({f})
              /\ row' = [row EXCEPT ![g] = now]
              /\ hashed' = hashed
    <3>1. \A k \in File : content'[k] = content[k] \/ (k = f /\ content'[k] = "none")
      BY <2>13 DEF Unlink
    <3>2. AllPosted(g)' \/ Sure(g)'
      <4>1. CASE AllPosted(g)
        BY <2>8, <4>1, PostedGrow
      <4>2. CASE Sure(g)
        BY <2>2, <2>9, <3>1, <4>2 DEF Sure
      <4> QED BY <2>6, <4>1, <4>2
    <3>3. Covered(f)'
      BY <2>2, <3>2 DEF Covered, AllPosted
    <3>4. \A k \in File : row'[k] = "sent" => row[k] = "sent" \/ AllPosted(k)'
      BY <1>1, <2>1, <2>2, <2>13 DEF Types, TableType
    <3>5. \A k \in File : Owed(k)' => Owed(k)
      <4>1. \A k \in File : Known(k)' => Known(k)
        BY <1>1, <2>1, <2>2, <2>13 DEF Known, Types, TableType
      <4> QED BY <1>1, <2>13, <4>1, RecStays DEF Owed
    <3>6. ~Owed(f)
      BY <2>2 DEF Owed
    <3>7. \A k \in File : Owed(k)' => \/ Owed(k) /\ (Sure(k) => content'[k] = content[k])
                                      \/ AllPosted(k)' \/ Sure(k)'
      BY <3>1, <3>5, <3>6
    <3>8. \A k \in File : Sure(k) => content'[k] = content[k] \/ Covered(k)'
      BY <3>1, <3>3
    <3> QED BY <1>1, <1>5, <2>8, <3>4, <3>7, <3>8, HushKeeps
  <2> QED BY <2>1, <2>12, <2>13
<1> QED BY <1>3, <1>7, <1>8, <1>9, <1>10

-----------------------------------------------------------------------------
(* A finished conversion, and a finished first part.                        *)

\* What is finished holds what it was made of.
LEMMA ConvertedKeeps ==
    ASSUME NEW c \in Makes, Ready(c), Moved, NEW w \in Worker, Converted(w)
    PROVE  Keeps'
<1>1. /\ Types /\ Keeps /\ Booked /\ InHand /\ Spread /\ (met => met') /\ OneAtATime
      /\ Apart /\ Pair
      /\ UNCHANGED <<rec, row, hashed, posted>> /\ FilesFine(c) /\ HandFine(c, w) /\ Line(c)
  BY DEF Ready, Moved, Converted, Keeps, Line, table
<1>2. PICK s, o \in File : s = work[w].src /\ o = work[w].out
  BY <1>1 DEF Types, WorkType
<1>3. /\ work[w].pc = "convert" /\ ~Big(o) /\ Preps(w)
      /\ \A f \in File : content'[f] = IF f = o THEN Encoded(w) ELSE content[f]
      /\ Encoded(w) \in Good
  BY <1>2 DEF Converted, Write, Preps, Encoded, Good
<1>4. /\ Rest(w) /\ work'[w].pc = "register" /\ work'[w].src = s /\ work'[w].outs = {o}
      /\ work'[w].made
  BY <1>1, <1>2, ConvertedIs DEF Becomes
<1>5. s # o /\ Consumed(c, s) /\ o \in {"mp4", "tgprep"}
  BY <1>1, <1>2, <1>3 DEF HandFine, Consumed
<1>6. \A v \in Worker \ {w} : /\ work[v].pc \notin {"convert", "split", "recover", "remux"}
                              /\ work'[v] = work[v]
  BY <1>1, <1>3, <1>4, GoesAlone DEF Rest
<1>7. content[o] \notin Good
  BY <1>1, <1>2, <1>3 DEF InHand, InWriting
<1>8. ASSUME NEW f \in File, Sure(f), f # s PROVE Sure(f)'
  <2>1. content'[f] = content[f]
    BY <1>3, <1>7, <1>8 DEF Sure
  <2>2. ~AtRisk(f, w)'
    BY <1>4, <1>8 DEF AtRisk, Splits, Replaces
  <2>3. \A v \in Worker \ {w} : ~AtRisk(f, v)'
    BY <1>6, <1>8 DEF Sure, AtRisk, Splits, Replaces, Registers
  <2> QED BY <1>8, <2>1, <2>2, <2>3 DEF Sure
<1>9. Sure(o)'
  <2>1. ~AtRisk(o, w)'
    BY <1>4, <1>5 DEF AtRisk, Splits, Replaces
  <2>2. ASSUME NEW v \in Worker \ {w}, AtRisk(o, v)' PROVE FALSE
    <3>1. Replaces(v) /\ work[v].src = o
      BY <1>6, <2>2 DEF AtRisk, Splits, Replaces, Registers
    <3>2. Duo
      BY <1>1, <1>3, <3>1, Company DEF Replaces, Registers
    <3> QED BY <1>1, <1>2, <1>3, <1>5, <3>1, <3>2 DEF Pair
  <2> QED BY <1>3, <2>1, <2>2 DEF Sure
<1>10. Covered(s)'
  BY <1>2, <1>5, <1>9, FileFacts DEF Covered, Consumed
<1>11. posted \subseteq posted'
  BY <1>1
<1>12. Spread'
  BY <1>1, <1>8, <1>10, <1>11, SpreadMoves
<1>13. Booked'
  <2>1. \A g \in File : Owed(g)' => Owed(g)
    BY <1>1, OwedStays
  <2>2. ~(Owed(s) /\ Sure(s))
    BY <1>1, <1>2, <1>5, ConsumedUnfit DEF Owed, Sure
  <2> QED BY <1>1, <1>8, <1>11, <2>1, <2>2, BookedMoves
<1>14. InHand'
  <2>1. \A v \in Worker : work'[v].pc \notin {"convert", "split", "recover", "remux"}
    BY <1>4, <1>6
  <2>2. ASSUME NEW v \in Worker, NEW f \in work'[v].outs, Big(f) PROVE content'[f] \notin Good
    <3>1. v # w /\ f # o /\ f \in File
      BY <1>3, <1>4, <2>2 DEF Big, File, Whole
    <3> QED BY <1>1, <1>3, <1>6, <2>2, <3>1 DEF InHand
  <2> QED BY <1>1, <2>1, <2>2, RecStays DEF InHand, InWriting, Splits
<1> QED BY <1>12, <1>13, <1>14 DEF Keeps

LEMMA ConvertedTooBigKeeps ==
    ASSUME NEW c \in Makes, Ready(c), Moved, NEW w \in Worker, ConvertedTooBig(w)
    PROVE  Keeps'
<1>1. /\ Types /\ Keeps /\ Booked /\ InHand /\ Spread /\ (met => met') /\ OneAtATime /\ Apart
      /\ UNCHANGED <<rec, row, hashed, posted>> /\ HandFine(c, w) /\ Line(c) /\ Note /\ ~remade'
  BY DEF Ready, Moved, ConvertedTooBig, Keeps, Line, table
<1>2. PICK s, o \in File : s = work[w].src /\ o = work[w].out
  BY <1>1 DEF Types, WorkType
<1>3. /\ work[w].pc = "convert" /\ Big(o)
      /\ \A f \in File : content'[f] = IF f = o THEN Encoded(w)
                                       ELSE IF f \in PartsOf(o) THEN "broken" ELSE content[f]
  BY <1>2 DEF ConvertedTooBig
<1>4. /\ Rest(w) /\ work'[w].pc = "split" /\ work'[w].src = s /\ work'[w].out = o
      /\ work'[w].outs = {} /\ ~work'[w].first
  BY <1>1, <1>2, <1>3, ConvertedTooBigIs DEF Becomes, HandFine, Registers
<1>5. ~Duo
  BY <1>1, <1>2, <1>3 DEF HandFine, Big, Intermediate, Duo
<1>6. \A v \in Worker \ {w} : work[v].pc = "idle" /\ work'[v] = work[v] /\ work[v].outs = {}
  <2>1. \A v \in Worker \ {w} : work[v].pc = "idle" /\ work'[v] = work[v]
    BY <1>1, <1>3, <1>4, <1>5, Company DEF Rest
  <2>2. \A v \in Worker \ {w} : work[v].outs = {}
    BY <1>1, <2>1 DEF Line, HandFine, Registers
  <2> QED BY <2>1, <2>2
<1>7. content[o] \notin Good
  BY <1>1, <1>2, <1>3 DEF InHand, InWriting
<1>8. \A f \in PartsOf(o) : f \in File /\ content[f] \notin Good
  <2>1. ~Remake
    BY <1>1 DEF Note
  <2>2. \A f \in PartsOf(o) : f \in Writing(w)'
    BY <1>4 DEF Writing
  <2>3. \A f \in PartsOf(o) : f \notin Writing(w)
    BY <1>2, <1>3, FileFacts DEF Writing
  <2> QED BY <2>1, <2>2, <2>3, PartsAreFiles DEF Remake, Probes
<1>9. ASSUME NEW f \in File, Sure(f) PROVE Sure(f)'
  <2>1. content'[f] = content[f] /\ f # o /\ f \notin PartsOf(o)
    BY <1>3, <1>7, <1>8, <1>9 DEF Sure
  <2>2. ~AtRisk(f, w)'
    BY <1>4, <2>1 DEF AtRisk, Splits, Replaces, Registers
  <2>3. \A v \in Worker \ {w} : ~AtRisk(f, v)'
    BY <1>6, <1>9 DEF Sure, AtRisk, Splits, Replaces, Registers
  <2> QED BY <1>9, <2>1, <2>2, <2>3 DEF Sure
<1>10. posted \subseteq posted'
  BY <1>1
<1>11. Spread'
  BY <1>1, <1>9, <1>10, SpreadMoves
<1>12. Booked'
  BY <1>1, <1>9, <1>10, OwedStays, BookedMoves
<1>13. InHand'
  <2>1. ASSUME NEW v \in Worker, NEW f \in File, InWriting(f, v)' PROVE content'[f] \notin Good
    <3>1. v = w /\ f \in PartsOf(o)
      BY <1>4, <1>6, <2>1 DEF InWriting, Splits
    <3>2. f # o
      BY <1>2, <3>1, FileFacts
    <3> QED BY <1>3, <3>1, <3>2 DEF Good
  <2>2. \A v \in Worker : ~(Splits(v)' /\ work'[v].first)
    BY <1>4, <1>6 DEF Splits
  <2>3. \A v \in Worker : work'[v].outs = {}
    BY <1>4, <1>6
  <2> QED BY <1>1, <2>1, <2>2, <2>3 DEF InHand
<1> QED BY <1>11, <1>12, <1>13 DEF Keeps

LEMMA FirstPartKeeps ==
    ASSUME NEW c \in Makes, Ready(c), Moved, NEW w \in Worker, FirstPart(w)
    PROVE  Keeps'
<1>1. /\ Types /\ Keeps /\ Booked /\ InHand /\ Spread /\ (met => met') /\ OneAtATime
      /\ Apart /\ Pair
      /\ UNCHANGED <<rec, row, hashed, posted>> /\ HandFine(c, w) /\ Line(c)
  BY DEF Ready, Moved, FirstPart, Keeps, Line, table
<1>2. PICK s, o \in File : s = work[w].src /\ o = work[w].out
  BY <1>1 DEF Types, WorkType
<1>3. /\ work[w].pc \in {"split", "recover"} /\ Splits(w) /\ Preps(w) /\ ~work[w].first
      /\ content[o] \in Good
      /\ \A f \in File : content'[f] = IF f \in PartsOf(o) /\ Holds(f) = {1} THEN content[o] ELSE content[f]
  BY <1>2 DEF FirstPart, Splits, Preps, Probes, Write
<1>4. /\ Rest(w) /\ work'[w].pc = work[w].pc /\ work'[w].src = s /\ work'[w].out = o
      /\ work'[w].outs = {}
  BY <1>1, <1>2, <1>3, FirstPartIs DEF Becomes, HandFine, Registers
<1>5. \A v \in Worker \ {w} : /\ work[v].pc \notin {"convert", "split", "recover", "remux"}
                              /\ work'[v] = work[v]
  BY <1>1, <1>3, <1>4, GoesAlone DEF Rest
<1>6. ASSUME NEW f \in File, Sure(f) PROVE Sure(f)'
  <2>1. content'[f] = content[f]
    BY <1>2, <1>3, <1>6 DEF Sure, AtRisk
  <2>2. \A v \in Worker : AtRisk(f, v)' => AtRisk(f, v)
    BY <1>2, <1>3, <1>4, <1>5 DEF AtRisk, Splits, Replaces, Registers
  <2> QED BY <1>6, <2>1, <2>2 DEF Sure
<1>7. posted \subseteq posted'
  BY <1>1
<1>8. Spread'
  BY <1>1, <1>6, <1>7, SpreadMoves
<1>9. Booked'
  BY <1>1, <1>6, <1>7, OwedStays, BookedMoves
<1>10. InHand'
  <2>1. work'[w].first
    BY <1>1, FirstPartIs DEF Becomes
  <2>2. ASSUME NEW v \in Worker, NEW f \in File, InWriting(f, v)' PROVE content'[f] \notin Good
    <3>1. v = w /\ f \in PartsOf(o) /\ Holds(f) # {1}
      BY <1>3, <1>4, <1>5, <2>1, <2>2 DEF InWriting, Splits
    <3>2. InWriting(f, w)
      BY <1>2, <1>3, <3>1 DEF InWriting
    <3> QED BY <1>1, <1>3, <3>1, <3>2 DEF InHand
  <2>3. ASSUME NEW v \in Worker, Splits(v)', NEW p \in PartsOf(work'[v].out), Holds(p) = {1}
        PROVE  content'[p] # "broken"
    <3>1. v = w /\ p \in PartsOf(o) /\ p \in File
      BY <1>2, <1>4, <1>5, <2>3, PartsAreFiles DEF Splits
    <3> QED BY <1>3, <2>3, <3>1 DEF Good
  <2>4. ASSUME NEW v \in Worker, NEW f \in work'[v].outs, Big(f) PROVE content'[f] \notin Good
    <3>1. v # w /\ f \in {"mp4", "tgprep"} /\ f \in File
      BY <1>4, <2>4 DEF Big, File, Whole
    <3>2. content'[f] = content[f]
      BY <1>3, <3>1, FileFacts
    <3> QED BY <1>1, <1>5, <2>4, <3>1, <3>2 DEF InHand
  <2> QED BY <1>1, <2>2, <2>3, <2>4, RecStays DEF InHand
<1> QED BY <1>8, <1>9, <1>10 DEF Keeps

-----------------------------------------------------------------------------
(* A finished split and a finished remux; and the invariant.                *)

\* The parts hold what the file did that was split.
LEMMA SplitDoneKeeps ==
    ASSUME NEW c \in Makes, Ready(c), Moved, NEW w \in Worker, SplitDone(w)
    PROVE  Keeps'
<1>1. /\ Types /\ Keeps /\ Booked /\ InHand /\ Spread /\ (met => met') /\ OneAtATime
      /\ Apart /\ Pair
      /\ UNCHANGED <<rec, row, hashed, posted>> /\ HandFine(c, w) /\ FilesFine(c) /\ Line(c)
  BY DEF Ready, Moved, SplitDone, Keeps, Line, table
<1>2. PICK s, o \in File : s = work[w].src /\ o = work[w].out
  BY <1>1 DEF Types, WorkType
<1>3. /\ work[w].pc \in {"split", "recover"} /\ Splits(w) /\ Preps(w) /\ work[w].first
      /\ content[o] \in Good
      /\ \A p \in PartsOf(o) : content[p] # "none"
      /\ \A f \in File : content'[f] = IF f \in PartsOf(o) /\ Holds(f) = {2} THEN content[o]
                                       ELSE IF f = o /\ f # s THEN "none" ELSE content[f]
  BY <1>2 DEF SplitDone, Splits, Preps, Probes
<1>4. /\ o \in {"mp4", "tgprep"} /\ rec.oversize /\ Big(o)
      /\ o # s => Consumed(c, s)
  BY <1>1, <1>2, <1>3 DEF HandFine, Big
<1>5. /\ Rest(w) /\ work'[w].pc \in {"register", "requeue"} /\ work'[w].src = s
      /\ work'[w].outs = PartsOf(o) /\ work'[w].made
  BY <1>1, <1>2, SplitDoneIs DEF Becomes
<1>6. \A v \in Worker \ {w} : /\ work[v].pc \notin {"convert", "split", "recover", "remux"}
                              /\ work'[v] = work[v]
  BY <1>1, <1>3, <1>5, GoesAlone DEF Rest
<1>7. \A p \in PartsOf(o) : p \in File /\ p \in Part /\ p # s /\ p # o /\ content'[p] \in Good
  <2> SUFFICES ASSUME NEW p \in PartsOf(o)
               PROVE  p \in File /\ p \in Part /\ p # s /\ p # o /\ content'[p] \in Good
    OBVIOUS
  <2>1. p \in Part /\ p \in File /\ (Holds(p) = {1} \/ Holds(p) = {2})
    BY <1>4, FileFacts DEF Part
  <2>2. p # s /\ p # o
    BY <1>4, <2>1 DEF Consumed, Part
  <2>3. CASE Holds(p) = {1}
    <3>1. content[p] \notin {"broken", "none"}
      BY <1>1, <1>2, <1>3, <2>3 DEF InHand
    <3>2. Holds(p) # {2}
      BY <2>3
    <3> QED BY <1>1, <1>3, <2>1, <2>2, <3>1, <3>2 DEF Types, FileType, Content
  <2>4. CASE Holds(p) = {2}
    BY <1>3, <2>1, <2>2, <2>4
  <2> QED BY <2>1, <2>2, <2>3, <2>4
<1>8. ASSUME NEW f \in File, Sure(f), f # s PROVE Sure(f)'
  <2>1. f \notin PartsOf(o) /\ f # o
    BY <1>1, <1>2, <1>3, <1>8 DEF Sure, AtRisk
  <2>2. content'[f] = content[f]
    BY <1>3, <2>1
  <2>3. ~AtRisk(f, w)'
    BY <1>5, <1>8 DEF AtRisk, Splits, Replaces
  <2>4. \A v \in Worker \ {w} : ~AtRisk(f, v)'
    BY <1>6, <1>8 DEF Sure, AtRisk, Splits, Replaces, Registers
  <2> QED BY <1>8, <2>2, <2>3, <2>4 DEF Sure
<1>9. ASSUME NEW p \in PartsOf(o) PROVE Sure(p)'
  <2>1. ~AtRisk(p, w)'
    BY <1>5, <1>7 DEF AtRisk, Splits, Replaces
  <2>2. ASSUME NEW v \in Worker \ {w}, AtRisk(p, v)' PROVE FALSE
    <3>1. Replaces(v) /\ work[v].src = p
      BY <1>6, <2>2 DEF AtRisk, Splits, Replaces, Registers
    <3>2. Duo
      BY <1>1, <1>3, <3>1, Company DEF Replaces, Registers
    <3> QED BY <1>1, <1>2, <1>3, <1>7, <3>1, <3>2 DEF Pair
  <2> QED BY <1>7, <2>1, <2>2 DEF Sure
<1>10. Covered(s)'
  <2>1. \A h \in {1, 2} : \E p \in PartsOf(o) : h \in Holds(p)
    BY <1>4, FileFacts
  <2>2. \A h \in Holds(s) : h \in {1, 2}
    BY <1>2, FileFacts DEF Part
  <2> QED BY <1>7, <1>9, <2>1, <2>2 DEF Covered
<1>11. posted \subseteq posted'
  BY <1>1
<1>12. Spread'
  BY <1>1, <1>8, <1>10, <1>11, SpreadMoves
<1>13. Booked'
  <2>1. \A g \in File : Owed(g)' => Owed(g)
    BY <1>1, OwedStays
  <2>2. ~(Owed(s) /\ Sure(s))
    BY <1>1, <1>2, <1>4, ConsumedUnfit DEF Owed, Sure
  <2> QED BY <1>1, <1>8, <1>11, <2>1, <2>2, BookedMoves
<1>14. InHand'
  <2>1. \A v \in Worker : work'[v].pc \notin {"convert", "split", "recover", "remux"}
    BY <1>5, <1>6
  <2>2. ASSUME NEW v \in Worker, NEW f \in work'[v].outs, Big(f) PROVE content'[f] \notin Good
    <3>1. v # w /\ f \in File /\ f \notin PartsOf(o)
      BY <1>5, <1>7, <2>2 DEF Big, File, Whole, Part
    <3> QED BY <1>1, <1>3, <1>6, <2>2, <3>1 DEF InHand, Good
  <2> QED BY <1>1, <2>1, <2>2, RecStays DEF InHand, InWriting, Splits
<1> QED BY <1>12, <1>13, <1>14 DEF Keeps

LEMMA RemuxDoneKeeps ==
    ASSUME NEW c \in Makes, Ready(c), Moved, RemuxDone
    PROVE  Keeps'
<1>1. /\ Types /\ Keeps /\ Booked /\ Spread /\ (met => met') /\ torn = {}
      /\ UNCHANGED <<rec, row, hashed, posted>> /\ HandFine(c, "recorder") /\ Line(c)
      /\ work["recorder"].pc = "remux" /\ work["recorder"].src = "raw"
  BY DEF Ready, Moved, RemuxDone, Keeps, Line, table, HandFine, Worker
<1>2. /\ work["archiver"] = Idle
      /\ \A f \in File : row[f] = "none" /\ (f \notin {"raw", "mp4"} => content[f] = "none")
  BY <1>1 DEF Line, CleanRemux
<1>3. Becomes("recorder", "arrive", "mp4", "raw", {}, FALSE, FALSE)
  BY <1>1, RemuxDoneIs
<1>4. content'["mp4"] = "remuxed" /\ "mp4" \in File
  BY <1>1, FileFacts DEF RemuxDone, Leaves, Types, FileType
<1>5. \A v \in Worker : /\ work'[v].pc \in {"idle", "arrive"} /\ work'[v].outs = {}
  BY <1>2, <1>3, IdleIs DEF Becomes, Rest, Worker
<1>6. Sure("mp4")'
  BY <1>4, <1>5 DEF Sure, AtRisk, Splits, Replaces, Registers, Good
<1>7. Spread'
  BY <1>4, <1>6, FileFacts DEF Spread
<1>8. Booked'
  BY <1>1, <1>2 DEF Booked, Owed, Known
<1>9. InHand'
  BY <1>5 DEF InHand, InWriting, Splits
<1> QED BY <1>7, <1>8, <1>9 DEF Keeps

Footing == Excused \/ BrokenPosted \/ Keeps

LEMMA PostedStays ==
    ASSUME Types, Step
    PROVE  posted \subseteq posted'
<1>1. ASSUME Deliver PROVE posted \subseteq posted'
  BY <1>1 DEF Deliver, Send, Collect
<1>2. ASSUME NEW w \in Worker, Sweep(w) \/ Pass(w) \/ Visit(w) \/ Crash(w) PROVE posted' = posted
  BY <1>2 DEF Sweep, Pass, Visit, Crash, table
<1>3. ASSUME NEW w \in Worker, Prepare(w) PROVE posted' = posted
  BY <1>3 DEF Prepare, PassThrough, Busy, Convert, Split, Converted, ConvertedTooBig, FirstPart,
     SplitDone, table
<1>4. ASSUME NEW w \in Worker, Register(w) \/ Retire(w) \/ ConvertFails(w) \/ SplitFails(w)
      PROVE  posted' = posted
  BY <1>4 DEF Register, Retire, ConvertFails, SplitFails, table
<1>5. ASSUME TakeJob \/ RemuxDone \/ RemuxFails \/ Arrive \/ Recover \/ RetireOversize \/ DeleteRow
      PROVE  posted' = posted
  BY <1>5 DEF TakeJob, RemuxDone, RemuxFails, Arrive, Recover, RetireOversize, DeleteRow, table
<1> QED BY <1>1, <1>2, <1>3, <1>4, <1>5 DEF Step, Proceed

LEMMA KeepsStep ==
    ASSUME NEW c \in Makes, Ready(c), Moved, Step, ~BrokenPosted'
    PROVE  Keeps'
<1>1. ASSUME Deliver PROVE Keeps'
  BY <1>1, SendKeeps, CollectKeeps DEF Deliver
<1>2. ASSUME NEW w \in Worker, Prepare(w) PROVE Keeps'
  BY <1>2, SameKeeps, StartKeeps, ConvertedKeeps, ConvertedTooBigKeeps, FirstPartKeeps,
     SplitDoneKeeps DEF Prepare, Starts
<1>3. ASSUME NEW w \in Worker, Sweep(w) \/ Crash(w) \/ Visit(w) \/ Pass(w) \/ Register(w)
                                \/ Retire(w) \/ ConvertFails(w) \/ SplitFails(w)
      PROVE  Keeps'
  BY <1>3, SameKeeps, PassKeeps, RegisterKeeps, GiveUpKeeps
<1>4. ASSUME TakeJob \/ RemuxDone \/ Arrive \/ RemuxFails \/ RetireOversize \/ DeleteRow \/ Recover
      PROVE  Keeps'
  BY <1>4, TakeJobKeeps, RemuxDoneKeeps, SameKeeps, GiveUpKeeps, StartKeeps DEF Starts, Worker
<1> QED BY <1>1, <1>2, <1>3, <1>4 DEF Step, Proceed

LEMMA FootingStep ==
    ASSUME Types, Traced, Paired, Footing, [Next]_vars
    PROVE  Footing'
<1>1. CASE UNCHANGED vars
  BY <1>1 DEF vars, files, table, control, Footing, Excused, Contended, Intermediate,
     BrokenPosted, Keeps, Spread, Booked, InHand, Sure, AtRisk, InWriting, AllPosted, Posted,
     Owed, Known, Big, Splits, Replaces, Registers
<1>2. CASE Next
  <2> SUFFICES ASSUME ~Excused', ~BrokenPosted' PROVE Keeps'
    BY DEF Footing
  <2>1. Step /\ Note /\ ~remade' /\ ~remade
    BY <1>2 DEF Next, Note, Excused
  <2>2. ~Contended /\ Apart /\ (met' => Duo) /\ (met => met') /\ CountStep
    BY <2>1, ApartBack DEF Excused
  <2>3. ~BrokenPosted
    BY <2>1, PostedStays DEF BrokenPosted
  <2>4. OneAtATime /\ Pair /\ torn = {} /\ Keeps
    BY <2>1, <2>2, <2>3 DEF Paired, Footing, Excused
  <2>5. PICK c \in Makes : Line(c)
    BY <2>2 DEF Traced, Apart, Duo
  <2>6. Ready(c)
    BY <2>2, <2>4, <2>5 DEF Ready
  <2>7. Moved
    BY <2>1, <2>2, TypesStep DEF Moved, CountStep
  <2> QED BY <2>1, <2>6, <2>7, KeepsStep
<1> QED BY <1>1, <1>2

LEMMA InitFooting == Init => Footing
<1> SUFFICES ASSUME Init PROVE Keeps
  BY DEF Footing
<1>1. Occurs(rec)
  BY PrepAssumption DEF Init
<1>2. PICK f \in File : f = IF rec.stage = "captured" THEN "raw" ELSE "mp4"
  BY FileFacts
<1>3. /\ content[f] \in Good /\ posted = {} /\ work = [w \in Worker |-> Idle]
      /\ \A g \in File : row[g] \in {"none", "failed"} /\ (row[g] # "none" => g = f /\ rec.stage = "refused")
  BY <1>2 DEF Init, Good
<1>4. \A w \in Worker : work[w].pc = "idle" /\ work[w].outs = {}
  BY <1>3, IdleIs
<1>5. Sure(f)
  BY <1>3, <1>4 DEF Sure, AtRisk, Splits, Replaces, Registers
<1>6. Spread
  BY <1>2, <1>5, FileFacts DEF Spread
<1>7. Booked
  BY <1>1, <1>2, <1>3 DEF Booked, Owed, Known, Big, Occurs
<1>8. InHand
  BY <1>4 DEF InHand, InWriting, Splits
<1> QED BY <1>6, <1>7, <1>8 DEF Keeps

LEMMA FootingKeeps == ASSUME Footing PROVE FootageSurvives
BY DEF Footing, FootageSurvives, Keeps, Spread, FootageKept, Kept, Sure

\* Each half of the footage is in the chat or whole in a file, through conversion,
\* split, registration, collapse, retirement, recovery and collection: originals go
\* only after every output is accounted for.
THEOREM FootageIsNeverLost == Spec => []FootageSurvives
<1>1. Init => Types /\ Traced /\ Paired /\ Footing
  BY InitTyped, InitTraced, InitPaired, InitFooting
<1>2. Types /\ Traced /\ Paired /\ Footing /\ [Next]_vars => (Types /\ Traced /\ Paired /\ Footing)'
  BY TypesStep, TracedStep, PairedStep, FootingStep
<1>3. Footing => FootageSurvives
  BY FootingKeeps
<1> QED BY <1>1, <1>2, <1>3, PTL DEF Spec
=============================================================================
