----------------------------- MODULE DropZoneProofs -----------------------------
(***************************************************************************)
(* The drop zone (DropZone: core/orphaned.py ingest_folder, beside the     *)
(* dispatcher and the user), for every set of sources, every kind of drop, *)
(* every policy and however the passes of the two processes fall: no drop  *)
(* is lost before it is posted, and none is posted twice.                  *)
(*                                                                         *)
(* Both are stated of one source at a time, since a pass has one file in   *)
(* hand and no step is about the files of two. Kept(f) holds of every      *)
(* source that no two passes ever had in hand at once. Once(f) rests on    *)
(* it, and on what the code remembers: a file that prepare would work on   *)
(* has a row, a memo, or a pass that holds it, or it is untouched. It      *)
(* holds of the sources that PostedOnce does not except; the exceptions    *)
(* are the only steps at which a memo entry can be missed: EndRecall,      *)
(* LostRecall and BeginOnce say which.                                     *)
(*                                                                         *)
(* Most lemmas say that one kind of step keeps one of the two (...Keeps,   *)
(* ...Once). A step that leaves the files of a source alone is done with   *)
(* by Frame and OnceFrame.                                                 *)
(***************************************************************************)
EXTENDS DropZone, WellFoundedInduction, TLAPS

-----------------------------------------------------------------------------
(* The state: names, passes, types *)

\* Where a pass is.
PC == {"idle", "walk", "prepare", "document", "parts", "register"}

\* A pass is a record of these fields.  Said apart from their types, so that what
\* an EXCEPT leaves alone is read off it.
Fields(w) ==
    w = [pc |-> w.pc, walk |-> w.walk, cur |-> w.cur, seen |-> w.seen, was |-> w.was,
         outs |-> w.outs, accounted |-> w.accounted, unread |-> w.unread,
         keep |-> w.keep, blob |-> w.blob, dirty |-> w.dirty]

\* A pass has a file in hand from Begin until it is done with it.
IsPass(w) ==
    /\ w.pc \in PC /\ w.walk \in SUBSET Name /\ w.cur \in Name \cup {NoName}
    /\ w.seen \in Version /\ w.was \in Version /\ w.outs \in SUBSET Name
    /\ w.blob \in [Name -> Version] /\ w.dirty \in SUBSET {"prepped", "hashfail"}
    /\ w.cur = NoName <=> w.pc \in {"idle", "walk"}
    /\ w.cur # NoName => w.was # 0

\* The shape of the state, of the passes too.
Types == /\ TypeOK
         /\ work = [i \in Ingester |-> work[i]]
         /\ \A i \in Ingester : Fields(work[i]) /\ IsPass(work[i])

USE DropZoneAssumption

\* Names, shapes and pieces, role by role.
LEMMA NameIsPair ==
    ASSUME NEW n \in Name
    PROVE  /\ n = <<n[1], n[2]>> /\ n[1] \in Sources /\ n[2] \in Role /\ n # NoName
BY DEF Name, NoName

LEMMA PairIsName ==
    ASSUME NEW f \in Sources, NEW r \in Role
    PROVE  /\ <<f, r>> \in Name /\ <<f, r>>[1] = f /\ <<f, r>>[2] = r
BY DEF Name

LEMMA Shapes ==
    ASSUME NEW f \in Sources
    PROVE  /\ Shape(<<f, "src">>) = scenario.kind[f]
           /\ Shape(<<f, "d">>) = "convert"
           /\ \A r \in Role \ {"src", "d"} : Shape(<<f, r>>) = "ready"
BY DEF Shape, Role

LEMMA PieceNames ==
    ASSUME NEW f \in Sources
    PROVE  /\ PieceOf(<<f, "src">>) = IF scenario.kind[f] = "ready" THEN "whole" ELSE "document"
           /\ PieceOf(<<f, "d">>) = "document"
           /\ PieceOf(<<f, "o1">>) = IF scenario.kind[f] = "large" THEN "part1" ELSE "preview"
           /\ PieceOf(<<f, "o2">>) = "part2"
           /\ PieceOf(<<f, "t">>) = "preview"
           /\ PieceOf(<<f, "do">>) = "extra" /\ PieceOf(<<f, "dt">>) = "extra"
BY DEF PieceOf

\* FirstOf is one of the names it is given: some name of the file of any of them
\* has the least rank.
LEMMA FirstIsIn ==
    ASSUME NEW S \in SUBSET Name, S # {}
    PROVE  FirstOf(S) \in S
<1> DEFINE Less == OpToRel(<, Nat)
<1>1. IsWellFoundedOn(Less, Nat)
  BY NatLessThanWellFounded
<1>2. \A x, y \in Nat : <<x, y>> \in Less <=> x < y
  BY DEF OpToRel
<1> HIDE DEF Less
<1>3. PICK a \in S : TRUE
  OBVIOUS
<1> DEFINE R == {Rank[m[2]] : m \in {m \in S : m[1] = a[1]}}
<1>4. \A m \in S : Rank[m[2]] \in Nat
  BY NameIsPair DEF Rank, Role
<1>5. R \subseteq Nat /\ R # {}
  BY <1>3, <1>4
<1>6. PICK x \in R : \A y \in R : ~ (<<y, x>> \in Less)
  BY <1>1, <1>5, WFMin
<1>7. PICK n \in S : n[1] = a[1] /\ Rank[n[2]] = x
  BY <1>6
<1>8. ASSUME NEW m \in S, n[1] = m[1] PROVE Rank[n[2]] <= Rank[m[2]]
  <2>1. Rank[m[2]] \in R
    BY <1>7, <1>8
  <2>2. ~ (Rank[m[2]] < Rank[n[2]])
    BY <1>2, <1>4, <1>6, <1>7, <2>1
  <2> QED BY <1>4, <2>2
<1> QED BY <1>7, <1>8 DEF FirstOf

\* What prepare writes has a name.
LEMMA OutputsAreNames ==
    ASSUME NEW n \in Name
    PROVE  Outputs(n) \in SUBSET Name
<1>1. PICK f \in Sources, r \in Role : n = <<f, r>>
  BY DEF Name
<1>2. n[1] = f /\ n[2] = r
  BY <1>1
<1>3. \A s \in Role : <<f, s>> \in Name
  BY DEF Name
<1> QED BY <1>2, <1>3 DEF Outputs, Role

-----------------------------------------------------------------------------
(* How a pass moves *)

\* What a step of one pass leaves of the others.
Rest(i) == /\ work' = [j \in Ingester |-> work'[j]]
           /\ \A j \in Ingester \ {i} : work'[j] = work[j]

\* A pass that goes on is what it goes on as.
LEMMA GotoIs ==
    ASSUME Types, NEW i \in Ingester, NEW w, Goto(i, w)
    PROVE  work'[i] = w /\ Rest(i)
BY DEF Types, Goto, Rest

\* The pass is done with the file in hand, and has learnt this much of it.
LetsGo(i, b, d) ==
    /\ Fields(work'[i]) /\ Rest(i)
    /\ work'[i].pc = "walk" /\ work'[i].cur = NoName /\ work'[i].seen = 0 /\ work'[i].was = 0
    /\ work'[i].outs = {} /\ work'[i].walk = work[i].walk
    /\ work'[i].blob = b /\ work'[i].dirty = d

LEMMA DoneIs ==
    ASSUME Types, NEW i \in Ingester, NEW w, Fields(w), w.walk = work[i].walk, Done(i, w)
    PROVE  LetsGo(i, w.blob, w.dirty)
<1>1. Fields(work[i])
  BY DEF Types
<1>2. Rest(i) /\ work'[i] = [w EXCEPT !.pc = "walk", !.cur = NoName, !.seen = 0, !.was = 0,
                                      !.outs = {}, !.accounted = TRUE, !.unread = FALSE,
                                      !.keep = FALSE]
  BY GotoIs DEF Done
<1>3. Fields(work'[i])
  BY <1>2 DEF Fields
<1> QED BY <1>2, <1>3 DEF Fields, LetsGo

\* Skip and Busy only shorten the walk.
LEMMA SkipMoves ==
    ASSUME Types, NEW i \in Ingester, Skip(i) \/ Busy(i)
    PROVE  /\ Rest(i) /\ Fields(work'[i]) /\ work'[i].walk \in SUBSET work[i].walk
           /\ work'[i].pc = "walk" /\ work[i].pc = "walk" /\ work'[i].cur = work[i].cur
           /\ work'[i].seen = work[i].seen /\ work'[i].was = work[i].was
           /\ work'[i].outs = work[i].outs /\ work'[i].blob = work[i].blob
           /\ work'[i].dirty = work[i].dirty
<1>1. Fields(work[i])
  BY DEF Types
<1>2. PICK n \in Name \cup {NoName} : Goto(i, [work[i] EXCEPT !.walk = @ \ {n}])
  BY FirstIsIn DEF Skip, Busy, PassOver, Types, IsPass
<1>3. Rest(i) /\ work'[i] = [work[i] EXCEPT !.walk = @ \ {n}]
  BY <1>2, GotoIs
<1> QED BY <1>1, <1>3 DEF Fields, Skip, Busy

\* Begin takes a name of the walk in hand, as it is now.
LEMMA BeginMoves ==
    ASSUME Types, NEW i \in Ingester, Begin(i)
    PROVE  \E n \in work[i].walk :
             /\ n \in Name /\ ~Skips(i, n)
             /\ work[i].pc = "walk"
             /\ Rest(i) /\ Fields(work'[i]) /\ work'[i].walk = work[i].walk \ {n}
             /\ work'[i].pc = IF Shape(n) = "ready" THEN "register" ELSE "prepare"
             /\ work'[i].cur = n /\ work'[i].seen = Mtime(n) /\ work'[i].was = disk[n]
             /\ work'[i].outs = Outputs(n)
             /\ work'[i].blob = work[i].blob /\ work'[i].dirty = work[i].dirty
             /\ (work'[i].keep <=> Shape(n) \in {"convert", "vast"})
             /\ contested' = contested \cup {g \in {n[1]} : \E j \in Ingester \ {i} : g \in InHand(j)}
             /\ lapsed' = lapsed \cup {g \in {n[1]} :
                    Mtime(n) \in {memo[n]} \cup {work[j].blob[n] : j \in Ingester}}
<1>1. Fields(work[i]) /\ work[i].walk \in SUBSET Name
  BY DEF Types, IsPass
<1> DEFINE n == FirstOf(work[i].walk)
<1>2. n \in work[i].walk /\ n \in Name
  BY <1>1, FirstIsIn DEF Begin
<1>3. Rest(i) /\ work'[i] = [work[i] EXCEPT
                !.pc = IF Shape(n) = "ready" THEN "register" ELSE "prepare",
                !.walk = @ \ {n}, !.cur = n, !.seen = Mtime(n), !.was = disk[n],
                !.outs = Outputs(n), !.accounted = TRUE, !.unread = FALSE,
                !.keep = Shape(n) \in {"convert", "vast"}]
  BY GotoIs DEF Begin
<1> HIDE DEF n
<1>4. Fields(work'[i])
  BY <1>1, <1>3 DEF Fields
<1>5. /\ work'[i].walk = work[i].walk \ {n}
      /\ work'[i].pc = IF Shape(n) = "ready" THEN "register" ELSE "prepare"
      /\ work'[i].cur = n /\ work'[i].seen = Mtime(n) /\ work'[i].was = disk[n]
      /\ work'[i].outs = Outputs(n)
      /\ work'[i].blob = work[i].blob /\ work'[i].dirty = work[i].dirty
      /\ (work'[i].keep <=> Shape(n) \in {"convert", "vast"})
  BY <1>1, <1>3 DEF Fields
<1> USE DEF n
<1>6. /\ ~Skips(i, n) /\ work[i].pc = "walk"
      /\ contested' = contested \cup {g \in {n[1]} : \E j \in Ingester \ {i} : g \in InHand(j)}
      /\ lapsed' = lapsed \cup {g \in {n[1]} :
                    Mtime(n) \in {memo[n]} \cup {work[j].blob[n] : j \in Ingester}}
  BY DEF Begin
<1> HIDE DEF n
<1> QED BY <1>2, <1>3, <1>4, <1>5, <1>6

\* Another pass's file rewritten under it: only its memos and what it saw change.
SameHand(j) ==
    /\ work'[j].pc = work[j].pc /\ work'[j].walk = work[j].walk /\ work'[j].cur = work[j].cur
    /\ work'[j].was = work[j].was /\ work'[j].outs = work[j].outs
    /\ (work'[j].keep <=> work[j].keep) /\ work'[j].dirty = work[j].dirty

\* The memo without the entries of the names in S.
Fresh(b, S) == [n \in Name |-> IF n \in S THEN 0 ELSE b[n]]

\* New files are in no memo, and no pass has seen them.
LEMMA AnewMoves ==
    ASSUME Types, NEW i \in Ingester, NEW S, NEW v, NEW w, Fields(w), MadeAnew(i, S, v, w)
    PROVE  /\ work' = [j \in Ingester |-> work'[j]]
           /\ Fields(work'[i]) /\ work'[i].pc = w.pc /\ work'[i].walk = w.walk
           /\ work'[i].cur = w.cur /\ work'[i].seen = w.seen /\ work'[i].was = w.was
           /\ work'[i].outs = w.outs /\ (work'[i].keep <=> w.keep) /\ work'[i].dirty = w.dirty
           /\ work'[i].blob = Fresh(w.blob, S)
           /\ \A j \in Ingester \ {i} :
                /\ Fields(work'[j]) /\ SameHand(j) /\ work'[j].blob = Fresh(work[j].blob, S)
                /\ work'[j].seen = IF work[j].cur \in S THEN 0 ELSE work[j].seen
           /\ disk' = [n \in Name |-> IF n \in S THEN v ELSE disk[n]]
           /\ memo' = Fresh(memo, S)
<1>1. \A j \in Ingester : Fields(work[j])
  BY DEF Types
<1>2. work'[i] = [w EXCEPT !.blob = Fresh(@, S)]
  BY DEF MadeAnew, Fresh
<1>3. ASSUME NEW j \in Ingester \ {i}
      PROVE  work'[j] = [work[j] EXCEPT !.blob = Fresh(@, S),
                                        !.seen = IF work[j].cur \in S THEN 0 ELSE @]
  BY DEF MadeAnew, Fresh
<1>4. /\ Fields(work'[i]) /\ work'[i].pc = w.pc /\ work'[i].walk = w.walk
      /\ work'[i].cur = w.cur /\ work'[i].seen = w.seen /\ work'[i].was = w.was
      /\ work'[i].outs = w.outs /\ (work'[i].keep <=> w.keep) /\ work'[i].dirty = w.dirty
      /\ work'[i].blob = Fresh(w.blob, S)
  BY <1>2 DEF Fields
<1>5. ASSUME NEW j \in Ingester \ {i}
      PROVE  /\ Fields(work'[j]) /\ SameHand(j) /\ work'[j].blob = Fresh(work[j].blob, S)
             /\ work'[j].seen = IF work[j].cur \in S THEN 0 ELSE work[j].seen
  <2> DEFINE x == IF work[j].cur \in S THEN 0 ELSE work[j].seen
             y == Fresh(work[j].blob, S)
  <2>1. Fields(work[j]) /\ work'[j] = [work[j] EXCEPT !.blob = y, !.seen = x]
    <3>1. Fields(work[j])
      BY <1>1
    <3>2. work'[j] = [work[j] EXCEPT !.blob = Fresh(work[j].blob, S), !.seen = x]
      BY <1>3, <3>1 DEF Fields
    <3> QED BY <3>1, <3>2
  <2>2. work'[j].blob = y /\ work'[j].seen = x
    <3> HIDE DEF x, y
    <3> QED BY <2>1 DEF Fields
  <2>3. Fields(work'[j]) /\ SameHand(j)
    <3> HIDE DEF x, y
    <3> QED BY <2>1 DEF Fields, SameHand
  <2> QED BY <2>2, <2>3
<1>6. work' = [j \in Ingester |-> work'[j]]
  BY DEF MadeAnew
<1>7. /\ disk' = [n \in Name |-> IF n \in S THEN v ELSE disk[n]]
      /\ memo' = Fresh(memo, S)
  BY DEF MadeAnew, Fresh
<1> QED BY <1>4, <1>5, <1>6, <1>7

\* What prepare and the split go on as.
LEMMA PreparedMoves ==
    ASSUME Types, NEW i \in Ingester, Prepared(i)
    PROVE  \E w : /\ MadeAnew(i, work[i].outs, work[i].was, w) /\ Fields(w)
                  /\ w.pc = (IF work[i].keep THEN "document" ELSE "register")
                  /\ w.walk = work[i].walk /\ w.cur = work[i].cur /\ w.seen = work[i].seen
                  /\ w.was = work[i].was /\ w.outs = work[i].outs /\ (w.keep <=> work[i].keep)
                  /\ w.dirty = work[i].dirty /\ w.blob = work[i].blob
<1> DEFINE w == [work[i] EXCEPT !.pc = IF work[i].keep THEN "document" ELSE "register"]
<1>1. Fields(work[i])
  BY DEF Types
<1>2. MadeAnew(i, work[i].outs, work[i].was, w)
  BY DEF Prepared
<1>3. /\ Fields(w)
      /\ w.pc = (IF work[i].keep THEN "document" ELSE "register")
      /\ w.walk = work[i].walk /\ w.cur = work[i].cur /\ w.seen = work[i].seen
      /\ w.was = work[i].was /\ w.outs = work[i].outs /\ (w.keep <=> work[i].keep)
      /\ w.dirty = work[i].dirty /\ w.blob = work[i].blob
  BY <1>1 DEF Fields
<1> QED BY <1>2, <1>3

LEMMA SplitMoves ==
    ASSUME Types, NEW i \in Ingester, SplitOriginal(i)
    PROVE  \E w : /\ MadeAnew(i, {<<work[i].cur[1], "d">>}, work[i].was, w) /\ Fields(w)
                  /\ w.pc = "parts"
                  /\ w.walk = work[i].walk /\ w.cur = work[i].cur /\ w.seen = work[i].seen
                  /\ w.was = work[i].was /\ w.outs = work[i].outs /\ (w.keep <=> work[i].keep)
                  /\ w.dirty = work[i].dirty /\ w.blob = work[i].blob
<1> DEFINE w == [work[i] EXCEPT !.pc = "parts"]
<1>1. Fields(work[i])
  BY DEF Types
<1>2. MadeAnew(i, {<<work[i].cur[1], "d">>}, work[i].was, w)
  BY DEF SplitOriginal
<1>3. /\ Fields(w) /\ w.pc = "parts"
      /\ w.walk = work[i].walk /\ w.cur = work[i].cur /\ w.seen = work[i].seen
      /\ w.was = work[i].was /\ w.outs = work[i].outs /\ (w.keep <=> work[i].keep)
      /\ w.dirty = work[i].dirty /\ w.blob = work[i].blob
  BY <1>1 DEF Fields
<1> QED BY <1>2, <1>3

\* A pass moves on with the same file in hand.
GoesOn(i, next, outs) ==
    /\ Rest(i) /\ Fields(work'[i]) /\ work'[i].pc = next /\ work'[i].outs = outs
    /\ work'[i].walk = work[i].walk /\ work'[i].cur = work[i].cur /\ work'[i].seen = work[i].seen
    /\ work'[i].was = work[i].was /\ work'[i].blob = work[i].blob /\ work'[i].dirty = work[i].dirty

\* The steps between prepare and the last row keep the file in hand.
LEMMA NoDocumentMoves ==
    ASSUME Types, NEW i \in Ingester, NoDocument(i)
    PROVE  GoesOn(i, "register", work[i].outs)
<1>1. Fields(work[i])
  BY DEF Types
<1>2. Rest(i) /\ work'[i] = [work[i] EXCEPT !.pc = "register", !.keep = FALSE]
  BY GotoIs DEF NoDocument
<1> QED BY <1>1, <1>2 DEF Fields, GoesOn

LEMMA RegisterDocumentMoves ==
    ASSUME Types, NEW i \in Ingester, RegisterDocument(i)
    PROVE  GoesOn(i, "register", work[i].outs)
<1>1. Fields(work[i])
  BY DEF Types
<1>2. PICK ok \in BOOLEAN : Goto(i, [work[i] EXCEPT !.pc = "register", !.accounted = ok])
  BY DEF RegisterDocument
<1>3. Rest(i) /\ work'[i] = [work[i] EXCEPT !.pc = "register", !.accounted = ok]
  BY <1>2, GotoIs
<1> QED BY <1>1, <1>3 DEF Fields, GoesOn

\* Register takes one output off the list, with a row or without.
LEMMA RegisterMoves ==
    ASSUME Types, NEW i \in Ingester, Register(i)
    PROVE  \E n \in work[i].outs :
             /\ n \in Name /\ GoesOn(i, "register", work[i].outs \ {n})
             /\ Insert(n) \/ UNCHANGED row
<1>1. Fields(work[i]) /\ work[i].outs \in SUBSET Name
  BY DEF Types, IsPass
<1> DEFINE n == FirstOf(work[i].outs)
<1>2. n \in work[i].outs /\ n \in Name
  BY <1>1, FirstIsIn DEF Register
<1>3. /\ work[i].pc = "register"
      /\ \/ Goto(i, [work[i] EXCEPT !.outs = @ \ {n}]) /\ Insert(n)
         \/ /\ UNCHANGED row
            /\ \/ Goto(i, [[work[i] EXCEPT !.outs = @ \ {n}] EXCEPT !.unread = TRUE])
               \/ Goto(i, [[work[i] EXCEPT !.outs = @ \ {n}] EXCEPT !.accounted = FALSE])
  BY DEF Register, Refused
<1> HIDE DEF n
<1>4. ASSUME NEW w, Goto(i, w),
             \/ w = [work[i] EXCEPT !.outs = @ \ {n}]
             \/ w = [[work[i] EXCEPT !.outs = @ \ {n}] EXCEPT !.unread = TRUE]
             \/ w = [[work[i] EXCEPT !.outs = @ \ {n}] EXCEPT !.accounted = FALSE]
      PROVE  GoesOn(i, "register", work[i].outs \ {n})
  <2>1. Rest(i) /\ work'[i] = w
    BY <1>4, GotoIs
  <2> QED BY <1>1, <1>3, <1>4, <2>1 DEF Fields, GoesOn
<1> QED BY <1>2, <1>3, <1>4

\* What each way of being done with a file has learnt of it.
LEMMA FinishReadyMoves ==
    ASSUME Types, NEW i \in Ingester, FinishReady(i)
    PROVE  LET n == work[i].cur
               entry == IF work[i].unread THEN work[i].seen ELSE 0
           IN  IF entry = work[i].blob[n] THEN LetsGo(i, work[i].blob, work[i].dirty)
               ELSE LetsGo(i, [work[i].blob EXCEPT ![n] = entry], work[i].dirty \cup {"hashfail"})
<1> DEFINE n == work[i].cur
           entry == IF work[i].unread THEN work[i].seen ELSE 0
<1>1. Fields(work[i])
  BY DEF Types
<1>2. CASE entry = work[i].blob[n]
  <2>1. Done(i, work[i])
    BY <1>2 DEF FinishReady
  <2> QED BY <1>1, <1>2, <2>1, DoneIs
<1>3. CASE entry # work[i].blob[n]
  <2> DEFINE w == [work[i] EXCEPT !.blob[n] = entry, !.dirty = @ \cup {"hashfail"}]
  <2>1. Done(i, w)
    BY <1>3 DEF FinishReady
  <2>2. /\ Fields(w) /\ w.walk = work[i].walk /\ w.blob = [work[i].blob EXCEPT ![n] = entry]
        /\ w.dirty = work[i].dirty \cup {"hashfail"}
    <3> DEFINE b == [work[i].blob EXCEPT ![n] = entry]
    <3>1. w = [work[i] EXCEPT !.blob = b, !.dirty = @ \cup {"hashfail"}]
      BY <1>1 DEF Fields
    <3> HIDE DEF w, b
    <3>2. /\ Fields(w) /\ w.walk = work[i].walk /\ w.blob = b
          /\ w.dirty = work[i].dirty \cup {"hashfail"}
      BY <1>1, <3>1 DEF Fields
    <3> QED BY <3>2 DEF b
  <2> HIDE DEF w
  <2>3. LetsGo(i, w.blob, w.dirty)
    BY <2>1, <2>2, DoneIs
  <2>4. LetsGo(i, [work[i].blob EXCEPT ![n] = entry], work[i].dirty \cup {"hashfail"})
    BY <2>2, <2>3 DEF LetsGo
  <2> QED BY <1>3, <2>4
<1> QED BY <1>2, <1>3

\* The original is remembered as it was seen.
Remembers(i) == LetsGo(i, [work[i].blob EXCEPT ![work[i].cur] = work[i].seen],
                       work[i].dirty \cup {"prepped"})

\* A pass that lets go and remembers has the file under the mtime it saw.
LEMMA RememberedIs ==
    ASSUME Types, NEW i \in Ingester,
           Done(i, [work[i] EXCEPT !.blob[work[i].cur] = work[i].seen,
                                   !.dirty = @ \cup {"prepped"}])
    PROVE  Remembers(i)
<1>1. Fields(work[i])
  BY DEF Types
<1> DEFINE w == [work[i] EXCEPT !.blob[work[i].cur] = work[i].seen,
                                !.dirty = @ \cup {"prepped"}]
<1> DEFINE b == [work[i].blob EXCEPT ![work[i].cur] = work[i].seen]
<1>2. Fields(w) /\ w.walk = work[i].walk /\ w.blob = b /\ w.dirty = work[i].dirty \cup {"prepped"}
  <2>1. w = [work[i] EXCEPT !.blob = b, !.dirty = @ \cup {"prepped"}]
    BY <1>1 DEF Fields
  <2> HIDE DEF w, b
  <2> QED BY <1>1, <2>1 DEF Fields
<1>3. Done(i, w)
  OBVIOUS
<1> HIDE DEF w
<1>4. LetsGo(i, w.blob, w.dirty)
  BY <1>2, <1>3, DoneIs
<1> QED BY <1>2, <1>4 DEF Remembers, LetsGo

\* A kept original, a failure and a retired original are remembered; what is
\* removed is not.
LEMMA FinishKeptMoves ==
    ASSUME Types, NEW i \in Ingester, FinishKept(i)
    PROVE  Remembers(i)
BY RememberedIs DEF FinishKept, Remembered

LEMMA PrepareFailsMoves ==
    ASSUME Types, NEW i \in Ingester, PrepareFails(i)
    PROVE  Remembers(i)
BY RememberedIs DEF PrepareFails

LEMMA RetireMoves ==
    ASSUME Types, NEW i \in Ingester, Retire(i)
    PROVE  \/ /\ disk' = [disk EXCEPT ![work[i].cur] = 0]
              /\ LetsGo(i, work[i].blob, work[i].dirty)
           \/ UNCHANGED disk /\ Remembers(i)
<1>1. CASE Accounted(i) /\ scenario.deleteAfter /\ ~scenario.protected
  <2>1. disk' = [disk EXCEPT ![work[i].cur] = 0] /\ Done(i, work[i])
    BY <1>1 DEF Retire
  <2>2. Fields(work[i])
    BY DEF Types
  <2> QED BY <2>1, <2>2, DoneIs
<1>2. CASE ~(Accounted(i) /\ scenario.deleteAfter /\ ~scenario.protected)
  BY <1>2, RememberedIs DEF Retire, Remembered
<1> QED BY <1>1, <1>2

\* A pass that is over, and one that starts.
LEMMA IdleIs ==
    /\ Fields(Idle) /\ Idle.pc = "idle" /\ Idle.walk = {} /\ Idle.cur = NoName /\ Idle.seen = 0
    /\ Idle.was = 0 /\ Idle.outs = {} /\ Idle.blob = Nothing /\ Idle.dirty = {}
BY DEF Idle, Fields

LEMMA EndMoves ==
    ASSUME Types, NEW i \in Ingester, EndPass(i) \/ PassIsLost(i)
    PROVE  Rest(i) /\ work'[i] = Idle
BY GotoIs DEF EndPass, PassIsLost

LEMMA StartMoves ==
    ASSUME Types, NEW i \in Ingester, NEW d, StartPass(i, d)
    PROVE  /\ Rest(i) /\ Fields(work'[i]) /\ work[i].pc = "idle" /\ work'[i].pc = "walk"
           /\ work'[i].cur = NoName /\ work'[i].seen = 0 /\ work'[i].was = 0
           /\ work'[i].outs = {} /\ work'[i].dirty = {} /\ work'[i].blob = memo
           /\ work'[i].walk \in SUBSET Name
<1>1. /\ Rest(i) /\ work[i].pc = "idle"
      /\ work'[i] = [Idle EXCEPT !.pc = "walk", !.blob = memo,
                                 !.walk = {n \in OnDisk : Folder[n[1]] = d}]
  BY GotoIs DEF StartPass
<1>2. {n \in OnDisk : Folder[n[1]] = d} \in SUBSET Name
  BY DEF OnDisk
<1> QED BY <1>1, <1>2, IdleIs DEF Fields

-----------------------------------------------------------------------------
(* Types *)

-----------------------------------------------------------------------------
(* Every step keeps the types *)

\* The types of the passes, move by move.
LEMMA RestTypes ==
    ASSUME Types, NEW i \in Ingester, Rest(i), Fields(work'[i]), IsPass(work'[i])
    PROVE  /\ work' = [j \in Ingester |-> work'[j]]
           /\ \A j \in Ingester : Fields(work'[j]) /\ IsPass(work'[j])
BY DEF Types, Rest

LEMMA LetsGoTypes ==
    ASSUME Types, NEW i \in Ingester, NEW b \in [Name -> Version],
           NEW d \in SUBSET {"prepped", "hashfail"}, LetsGo(i, b, d)
    PROVE  /\ work' = [j \in Ingester |-> work'[j]]
           /\ \A j \in Ingester : Fields(work'[j]) /\ IsPass(work'[j])
<1>1. 0 \in Version
  BY DEF Version
<1>2. IsPass(work'[i])
  BY <1>1 DEF Types, IsPass, LetsGo, PC
<1> QED BY <1>2, RestTypes DEF LetsGo

LEMMA RemembersTypes ==
    ASSUME Types, NEW i \in Ingester, Remembers(i)
    PROVE  /\ work' = [j \in Ingester |-> work'[j]]
           /\ \A j \in Ingester : Fields(work'[j]) /\ IsPass(work'[j])
<1> DEFINE b == [work[i].blob EXCEPT ![work[i].cur] = work[i].seen]
           d == work[i].dirty \cup {"prepped"}
<1>1. b \in [Name -> Version] /\ d \in SUBSET {"prepped", "hashfail"}
  BY DEF Types, IsPass
<1>2. LetsGo(i, b, d)
  BY DEF Remembers
<1> HIDE DEF b, d
<1> QED BY <1>1, <1>2, LetsGoTypes

LEMMA FreshTypes ==
    ASSUME NEW b \in [Name -> Version], NEW S
    PROVE  Fresh(b, S) \in [Name -> Version]
BY DEF Fresh, Version

LEMMA AnewTypes ==
    ASSUME Types, NEW i \in Ingester, NEW S, NEW v, NEW w, Fields(w), MadeAnew(i, S, v, w),
           w.pc \in PC \ {"idle", "walk"}, w.walk = work[i].walk, w.cur = work[i].cur,
           w.seen = work[i].seen, w.was = work[i].was, w.outs = work[i].outs,
           w.dirty = work[i].dirty, w.blob = work[i].blob,
           work[i].pc \in PC \ {"idle", "walk"}
    PROVE  /\ work' = [j \in Ingester |-> work'[j]]
           /\ \A j \in Ingester : Fields(work'[j]) /\ IsPass(work'[j])
<1>1. 0 \in Version
  BY DEF Version
<1>2. IsPass(work'[i])
  BY AnewMoves, FreshTypes DEF Types, IsPass
<1>3. ASSUME NEW j \in Ingester \ {i} PROVE IsPass(work'[j])
  BY <1>1, AnewMoves, FreshTypes DEF Types, IsPass, SameHand
<1> QED BY <1>2, <1>3, AnewMoves

\* Every step leaves the passes well formed.
LEMMA WorkStep ==
    ASSUME Types, Next
    PROVE  /\ work' = [i \in Ingester |-> work'[i]]
           /\ \A i \in Ingester : Fields(work'[i]) /\ IsPass(work'[i])
<1> DEFINE Shaped == /\ work' = [j \in Ingester |-> work'[j]]
                     /\ \A j \in Ingester : Fields(work'[j]) /\ IsPass(work'[j])
<1>0. /\ memo \in [Name -> Version] /\ disk \in [Name -> Version]
      /\ mtime \in [Sources -> Version] /\ 0 \in Version
  BY DEF Types, TypeOK, Version
<1>1. ASSUME NEW i \in Ingester, NEW f \in Sources, StartPass(i, Folder[f]) PROVE Shaped
  <2>1. IsPass(work'[i])
    BY <1>0, <1>1, StartMoves DEF IsPass, PC
  <2> QED BY <1>1, <2>1, StartMoves, RestTypes
<1>2. ASSUME NEW i \in Ingester, Skip(i) \/ Busy(i) PROVE Shaped
  <2>1. IsPass(work[i])
    BY DEF Types
  <2>2. IsPass(work'[i])
    BY <1>2, <2>1, SkipMoves DEF IsPass
  <2> QED BY <1>2, <2>2, SkipMoves, RestTypes
<1>3. ASSUME NEW i \in Ingester, Begin(i) PROVE Shaped
  <2>1. PICK n \in Name :
             /\ ~Skips(i, n)
             /\ Rest(i) /\ Fields(work'[i]) /\ work'[i].walk = work[i].walk \ {n}
             /\ work'[i].pc = IF Shape(n) = "ready" THEN "register" ELSE "prepare"
             /\ work'[i].cur = n /\ work'[i].seen = Mtime(n) /\ work'[i].was = disk[n]
             /\ work'[i].outs = Outputs(n)
             /\ work'[i].blob = work[i].blob /\ work'[i].dirty = work[i].dirty
    BY <1>3, BeginMoves
  <2>2. /\ Outputs(n) \in SUBSET Name /\ Mtime(n) \in Version /\ disk[n] \in Version
        /\ n # NoName /\ disk[n] # 0
    BY <2>1, <1>0, OutputsAreNames, NameIsPair DEF Mtime, Skips
  <2>3. IsPass(work[i])
    BY DEF Types
  <2>4. IsPass(work'[i])
    BY <2>1, <2>2, <2>3 DEF IsPass, PC
  <2> QED BY <2>1, <2>4, RestTypes
<1>4. ASSUME NEW i \in Ingester, Prepared(i) PROVE Shaped
  <2>1. work[i].pc = "prepare"
    BY <1>4 DEF Prepared
  <2> QED BY <1>4, <2>1, PreparedMoves, AnewTypes DEF PC
<1>5. ASSUME NEW i \in Ingester, SplitOriginal(i) PROVE Shaped
  <2>1. work[i].pc = "document"
    BY <1>5 DEF SplitOriginal
  <2> QED BY <1>5, <2>1, SplitMoves, AnewTypes DEF PC
<1>6. ASSUME NEW i \in Ingester, PrepareFails(i) \/ FinishKept(i) PROVE Shaped
  BY <1>6, PrepareFailsMoves, FinishKeptMoves, RemembersTypes
<1>7. ASSUME NEW i \in Ingester, NoDocument(i) \/ RegisterDocument(i) PROVE Shaped
  <2>1. GoesOn(i, "register", work[i].outs) /\ work[i].pc \in {"document", "parts"}
    BY <1>7, NoDocumentMoves, RegisterDocumentMoves DEF NoDocument, RegisterDocument
  <2>2. IsPass(work[i])
    BY DEF Types
  <2>3. IsPass(work'[i])
    BY <2>1, <2>2 DEF IsPass, PC, GoesOn
  <2> QED BY <2>1, <2>3, RestTypes DEF GoesOn
<1>8. ASSUME NEW i \in Ingester, Register(i) PROVE Shaped
  <2>1. PICK n \in Name : GoesOn(i, "register", work[i].outs \ {n})
    BY <1>8, RegisterMoves
  <2>2. IsPass(work[i]) /\ work[i].pc = "register"
    BY <1>8 DEF Types, Register
  <2>3. IsPass(work'[i])
    BY <2>1, <2>2 DEF IsPass, PC, GoesOn
  <2> QED BY <2>1, <2>3, RestTypes DEF GoesOn
<1>9. ASSUME NEW i \in Ingester, FinishReady(i) PROVE Shaped
  <2> DEFINE n == work[i].cur
             entry == IF work[i].unread THEN work[i].seen ELSE 0
             b == [work[i].blob EXCEPT ![n] = entry]
             d == work[i].dirty \cup {"hashfail"}
  <2>1. IsPass(work[i])
    BY DEF Types
  <2>2. b \in [Name -> Version] /\ d \in SUBSET {"prepped", "hashfail"}
    BY <1>0, <2>1 DEF IsPass
  <2>3. LetsGo(i, work[i].blob, work[i].dirty) \/ LetsGo(i, b, d)
    BY <1>9, FinishReadyMoves
  <2> HIDE DEF b, d
  <2>4. work[i].blob \in [Name -> Version] /\ work[i].dirty \in SUBSET {"prepped", "hashfail"}
    BY <2>1 DEF IsPass
  <2> QED BY <2>2, <2>3, <2>4, LetsGoTypes
<1>10. ASSUME NEW i \in Ingester, Retire(i) PROVE Shaped
  <2>1. work[i].blob \in [Name -> Version] /\ work[i].dirty \in SUBSET {"prepped", "hashfail"}
    BY DEF Types, IsPass
  <2>2. LetsGo(i, work[i].blob, work[i].dirty) \/ Remembers(i)
    BY <1>10, RetireMoves
  <2> QED BY <2>1, <2>2, LetsGoTypes, RemembersTypes
<1>11. ASSUME NEW i \in Ingester, EndPass(i) \/ PassIsLost(i) PROVE Shaped
  <2>1. IsPass(Idle)
    BY <1>0, IdleIs DEF IsPass, PC, Nothing
  <2> QED BY <1>11, <2>1, EndMoves, IdleIs, RestTypes
<1>12. ASSUME UNCHANGED work PROVE Shaped
  BY <1>12 DEF Types
<1>13. ASSUME NEW i \in Ingester, Vanished(i) \/ Die(i) PROVE Shaped
  BY <1>11, <1>13 DEF Vanished, Die
<1>14. ASSUME NEW n \in Name, Ship(n) \/ ShipMissing(n) PROVE Shaped
  BY <1>12, <1>14 DEF Ship, ShipMissing
<1>15. ASSUME NEW f \in Sources, NEW m \in Version, Drop(f, m) PROVE Shaped
  BY <1>12, <1>15 DEF Drop
<1> QED BY <1>1, <1>2, <1>3, <1>4, <1>5, <1>6, <1>7, <1>8, <1>9, <1>10, <1>11, <1>13, <1>14,
   <1>15 DEF Next, Step

\* The files, rows, memos and counters keep their shape.
LEMMA WorldTypes ==
    ASSUME Types, Next
    PROVE  TypeOK'
<1> USE DEF Types, TypeOK
<1>0. /\ \A i \in Ingester : work[i].cur \in Name \cup {NoName} /\ work[i].was \in Version
                           /\ work[i].outs \subseteq Name
                           /\ work[i].seen \in Version /\ work[i].blob \in [Name -> Version]
                           /\ (work[i].cur = NoName <=> work[i].pc \in {"idle", "walk"})
                           /\ (work[i].cur # NoName => work[i].was # 0)
      /\ 0 \in Version
  BY DEF IsPass, Version
<1>1. ASSUME NEW i \in Ingester, NEW f \in Sources, StartPass(i, Folder[f]) PROVE TypeOK'
  BY <1>1 DEF StartPass, world, history, Scenario
<1>2. ASSUME NEW i \in Ingester, Skip(i) \/ Busy(i) PROVE TypeOK'
  BY <1>2 DEF Skip, Busy, world, history
<1>3. ASSUME NEW i \in Ingester, Begin(i) PROVE TypeOK'
  <2>1. PICK n \in Name :
             /\ contested' = contested \cup {g \in {n[1]} : \E j \in Ingester \ {i} : g \in InHand(j)}
             /\ lapsed' = lapsed \cup {g \in {n[1]} :
                    Mtime(n) \in {memo[n]} \cup {work[j].blob[n] : j \in Ingester}}
    BY <1>3, BeginMoves
  <2>2. n[1] \in Sources
    BY NameIsPair
  <2> QED BY <1>3, <2>1, <2>2 DEF Begin, world
<1>4. ASSUME NEW i \in Ingester, NEW S, NEW v \in Version, NEW w, Fields(w), MadeAnew(i, S, v, w)
      PROVE  disk' \in [Name -> Version] /\ memo' \in [Name -> Version]
  BY <1>4, AnewMoves, FreshTypes
<1>5. ASSUME NEW i \in Ingester, Prepared(i) PROVE TypeOK'
  <2>1. disk' \in [Name -> Version] /\ memo' \in [Name -> Version]
    BY <1>0, <1>4, <1>5, PreparedMoves
  <2> QED BY <1>5, <2>1 DEF Prepared, world, history
<1>6. ASSUME NEW i \in Ingester, SplitOriginal(i) PROVE TypeOK'
  <2>1. work[i].was \in Version
    BY <1>0
  <2>2. PICK w : MadeAnew(i, {<<work[i].cur[1], "d">>}, work[i].was, w) /\ Fields(w)
    BY <1>6, SplitMoves
  <2>3. disk' \in [Name -> Version] /\ memo' \in [Name -> Version]
    BY <1>4, <2>1, <2>2
  <2> QED BY <1>6, <2>3 DEF SplitOriginal, world, history
<1>7. ASSUME Fault PROVE faults' \in 0..scenario.faults
  BY <1>7 DEF Fault, Scenario
<1>8. ASSUME NEW f \in Sources, NEW v \in Version, v # 0,
             NEW P \in SUBSET {"whole", "document", "preview", "part1", "part2", "extra"},
             Forgo(f, P, v)
      PROVE  forgone' \subseteq Posting
  BY <1>8 DEF Forgo, Posting, Version
<1>9. \A f \in Sources : Pieces(f) \subseteq {"whole", "document", "preview", "part1", "part2", "extra"}
  BY DEF Pieces
<1>10. ASSUME NEW i \in Ingester, PrepareFails(i) PROVE TypeOK'
  <2>1. work[i].cur[1] \in Sources /\ work[i].was # 0
    BY <1>0, <1>10, NameIsPair DEF PrepareFails
  <2>2. forgone' \subseteq Posting
    BY <1>0, <1>8, <1>9, <1>10, <2>1 DEF PrepareFails
  <2>3. faults' \in 0..scenario.faults
    BY <1>7, <1>10 DEF PrepareFails
  <2>4. disk' \in [Name -> Version]
    BY <1>0, <1>10 DEF PrepareFails
  <2> QED BY <1>10, <2>2, <2>3, <2>4 DEF PrepareFails, world
<1>11. ASSUME NEW i \in Ingester, NoDocument(i) PROVE TypeOK'
  <2>1. work[i].cur[1] \in Sources /\ work[i].was # 0
    BY <1>0, <1>11, NameIsPair DEF NoDocument
  <2>2. forgone' \subseteq Posting
    BY <1>0, <1>8, <1>11, <2>1 DEF NoDocument
  <2>3. faults' \in 0..scenario.faults
    BY <1>7, <1>11 DEF NoDocument
  <2>4. disk' \in [Name -> Version]
    BY <1>0, <1>11 DEF NoDocument
  <2> QED BY <1>11, <2>2, <2>3, <2>4 DEF NoDocument, world
<1>12. ASSUME NEW i \in Ingester, RegisterDocument(i) PROVE TypeOK'
  <2> DEFINE n == Document(i)
  <2>1. /\ work[i].cur \in Name /\ work[i].cur[1] \in Sources /\ work[i].was # 0
        /\ n[1] \in Sources
    BY <1>0, <1>12, NameIsPair DEF RegisterDocument, Document
  <2>2. \/ Insert(n) /\ UNCHANGED <<faults, forgone>>
        \/ UNCHANGED row /\ Fault /\ Forgo(n[1], {"document"}, work[i].was)
    BY <1>12 DEF RegisterDocument, Refused
  <2>3. row' \in [Name -> {"none", "pending", "sent"}]
    BY <2>2 DEF Insert
  <2>4. forgone' \subseteq Posting
    BY <1>0, <1>8, <2>1, <2>2
  <2>5. faults' \in 0..scenario.faults
    BY <1>7, <2>2
  <2> QED BY <1>12, <2>3, <2>4, <2>5 DEF RegisterDocument, world
<1>13. ASSUME NEW i \in Ingester, Register(i) PROVE TypeOK'
  <2>1. PICK n \in Name : Insert(n) \/ UNCHANGED row
    BY <1>13, RegisterMoves
  <2>2. row' \in [Name -> {"none", "pending", "sent"}]
    BY <2>1 DEF Insert
  <2>3. UNCHANGED faults \/ Fault
    BY <1>13 DEF Register, Refused
  <2>4. faults' \in 0..scenario.faults
    BY <1>7, <2>3
  <2> QED BY <1>13, <2>2, <2>4 DEF Register, world, history
<1>14. ASSUME NEW i \in Ingester, FinishReady(i) PROVE TypeOK'
  <2>1. /\ work[i].cur \in Name /\ work[i].cur[1] \in Sources /\ work[i].was # 0
    BY <1>0, <1>14, NameIsPair DEF FinishReady, Finishing
  <2>2. PieceOf(work[i].cur) \in {"whole", "document", "preview", "part1", "part2", "extra"}
    BY DEF PieceOf
  <2>3. Forgo(work[i].cur[1], {PieceOf(work[i].cur)}, work[i].was) \/ UNCHANGED forgone
    BY <1>14 DEF FinishReady
  <2>4. forgone' \subseteq Posting
    <3>1. {PieceOf(work[i].cur)} \in SUBSET {"whole", "document", "preview", "part1", "part2", "extra"}
      BY <2>2
    <3> QED BY <1>0, <1>8, <2>1, <2>3, <3>1
  <2> QED BY <1>14, <2>4 DEF FinishReady, world
<1>15. ASSUME NEW i \in Ingester, FinishKept(i) PROVE TypeOK'
  BY <1>15 DEF FinishKept, world, history
<1>16. ASSUME NEW i \in Ingester, Retire(i) PROVE TypeOK'
  <2>1. disk' \in [Name -> Version]
    BY <1>0, <1>16, RetireMoves
  <2> QED BY <1>16, <2>1 DEF Retire, world, history
<1>17. ASSUME NEW i \in Ingester, EndPass(i) PROVE TypeOK'
  <2>1. memo' \in [Name -> Version]
    BY <1>0, <1>17 DEF EndPass
  <2>2. lapsed' \subseteq Sources
    BY <1>17, NameIsPair DEF EndPass, OnDisk
  <2> QED BY <1>17, <2>1, <2>2 DEF EndPass, world
<1>18. ASSUME NEW i \in Ingester, Vanished(i) \/ Die(i) PROVE TypeOK'
  <2>1. PassIsLost(i) /\ (UNCHANGED faults \/ Fault)
    BY <1>18 DEF Vanished, Die
  <2>2. lapsed' \subseteq Sources /\ died' \subseteq Sources
    BY <1>0, <2>1, NameIsPair DEF PassIsLost, OnDisk, InHand
  <2>3. memo' \in [Name -> Version]
    <3>1. HalfSaved(i) \/ UNCHANGED memo
      BY <1>18 DEF Vanished, Die
    <3> QED BY <1>0, <3>1 DEF HalfSaved
  <2> QED BY <1>7, <2>1, <2>2, <2>3 DEF PassIsLost, world
<1>19. ASSUME NEW n \in Name, Ship(n) \/ ShipMissing(n) PROVE TypeOK'
  <2>1. posts' \in [Posting -> 0..2]
    BY <1>19 DEF Ship, ShipMissing
  <2>2. disk' \in [Name -> Version] /\ row' \in [Name -> {"none", "pending", "sent"}]
    BY <1>0, <1>19 DEF Ship, ShipMissing
  <2> QED BY <1>19, <2>1, <2>2 DEF Ship, ShipMissing, world, history
<1>20. ASSUME NEW f \in Sources, NEW m \in Version, Drop(f, m) PROVE TypeOK'
  <2> DEFINE v == drops[f] + 1
  <2>1. v \in Version /\ v # 0
    <3>1. drops[f] \in Nat /\ MaxDrops \in Nat /\ scenario.times[f] \in 0..MaxDrops /\ drops[f] < scenario.times[f]
      BY <1>20 DEF Drop, Scenario, Version
    <3> QED BY <3>1 DEF Version
  <2>2. UNCHANGED forgone \/ Forgo(f, Pieces(f), v)
    BY <1>20 DEF Drop
  <2>3. forgone' \subseteq Posting
    <3> HIDE DEF v
    <3> QED BY <1>8, <1>9, <2>1, <2>2
  <2>4. /\ drops' \in [Sources -> Version] /\ mtime' \in [Sources -> Version]
        /\ disk' \in [Name -> Version]
    BY <1>20, <2>1 DEF Drop
  <2> QED BY <1>20, <2>3, <2>4 DEF Drop
<1> QED BY <1>1, <1>2, <1>3, <1>5, <1>6, <1>10, <1>11, <1>12, <1>13, <1>14, <1>15, <1>16, <1>17,
   <1>18, <1>19, <1>20 DEF Next, Step

-----------------------------------------------------------------------------
(* What a pass has in hand *)

-----------------------------------------------------------------------------
(* What a pass is about *)

\* What prepare may make of n.
Makes(n) ==
    LET f == n[1]
    IN CASE Shape(n) = "large" -> {{<<f, "o1">>, <<f, "o2">>}}
         [] Shape(n) # "large" /\ n[2] = "d" -> {{<<f, "do">>}, {<<f, "dt">>}}
         [] OTHER -> {{<<f, "o1">>}, {<<f, "t">>}}

\* What the program point says of the file in hand and of the names made of it.
PassShape(i) ==
    LET w == work[i] IN
    /\ w.pc \in {"prepare", "document", "parts"} => Shape(w.cur) # "ready" /\ w.outs \in Makes(w.cur)
    /\ w.pc = "prepare" => (w.keep <=> Shape(w.cur) \in {"convert", "vast"})
    /\ w.pc = "document" => Shape(w.cur) \in {"convert", "vast"}
    /\ w.pc = "parts" => Shape(w.cur) = "vast"
    /\ w.pc = "register" =>
          IF Shape(w.cur) = "ready" THEN w.outs \subseteq {w.cur}
          ELSE \E S \in Makes(w.cur) : w.outs \subseteq S

Passes == \A i \in Ingester : PassShape(i)

\* What is dropped, and how, is settled at the start; history only grows.
LEMMA HistoryGrows ==
    ASSUME Next
    PROVE  /\ scenario' = scenario
           /\ contested \subseteq contested' /\ died \subseteq died' /\ lapsed \subseteq lapsed'
<1> DEFINE Grown == /\ scenario' = scenario
                    /\ contested \subseteq contested' /\ died \subseteq died' /\ lapsed \subseteq lapsed'
<1>1. ASSUME NEW i \in Ingester, NEW f \in Sources, StartPass(i, Folder[f]) PROVE Grown
  BY <1>1 DEF StartPass, world, history
<1>2. ASSUME NEW i \in Ingester, Skip(i) \/ Busy(i) \/ Prepared(i) \/ SplitOriginal(i) PROVE Grown
  BY <1>2 DEF Skip, Busy, Prepared, SplitOriginal, world, history
<1>3. ASSUME NEW i \in Ingester, Begin(i) PROVE Grown
  BY <1>3 DEF Begin, world
<1>4. ASSUME NEW i \in Ingester, NoDocument(i) \/ RegisterDocument(i) \/ Register(i) PROVE Grown
  BY <1>4 DEF NoDocument, RegisterDocument, Register, world, history
<1>5. ASSUME NEW i \in Ingester, FinishReady(i) \/ FinishKept(i) \/ Retire(i) PROVE Grown
  BY <1>5 DEF FinishReady, FinishKept, Retire, world, history
<1>6. ASSUME NEW i \in Ingester, PrepareFails(i) \/ EndPass(i) PROVE Grown
  BY <1>6 DEF PrepareFails, EndPass, world
<1>7. ASSUME NEW i \in Ingester, Vanished(i) \/ Die(i) PROVE Grown
  BY <1>7 DEF Vanished, Die, PassIsLost, world
<1>8. ASSUME NEW n \in Name, Ship(n) \/ ShipMissing(n) PROVE Grown
  BY <1>8 DEF Ship, ShipMissing, world, history
<1>9. ASSUME NEW f \in Sources, NEW m \in Version, Drop(f, m) PROVE Grown
  BY <1>9 DEF Drop
<1> HIDE DEF Grown
<1>10. Grown
  BY <1>1, <1>2, <1>3, <1>4, <1>5, <1>6, <1>7, <1>8, <1>9 DEF Next, Step
<1> QED BY <1>10 DEF Grown

LEMMA ShapesStay ==
    ASSUME scenario' = scenario
    PROVE  /\ \A n : Shape(n)' = Shape(n) /\ Makes(n)' = Makes(n) /\ PieceOf(n)' = PieceOf(n)
           /\ \A f : Pieces(f)' = Pieces(f)
BY DEF Shape, Makes, PieceOf, Pieces

\* The shape of a pass that no step touches stays.
LEMMA RestIsSame ==
    ASSUME NEW i \in Ingester, Rest(i)
    PROVE  \A j \in Ingester \ {i} : SameHand(j)
BY DEF Rest, SameHand

LEMMA SameShape ==
    ASSUME scenario' = scenario, NEW j \in Ingester, PassShape(j), SameHand(j)
    PROVE  PassShape(j)'
BY ShapesStay DEF PassShape, SameHand

LEMMA IdleShape ==
    ASSUME NEW i \in Ingester, work'[i].pc \in {"idle", "walk"}
    PROVE  PassShape(i)'
BY DEF PassShape

\* The outputs of a name are among what can be made of it.
LEMMA MadeOf ==
    ASSUME NEW n \in Name, Shape(n) # "ready"
    PROVE  Outputs(n) \in Makes(n)
BY DEF Outputs, Makes

\* Every step keeps the passes in shape.
LEMMA PassesStep ==
    ASSUME Types, Passes, Next
    PROVE  Passes'
<1>0. scenario' = scenario
  BY HistoryGrows
<1>1. ASSUME NEW i \in Ingester, \A j \in Ingester \ {i} : SameHand(j), PassShape(i)'
      PROVE  Passes'
  BY <1>0, <1>1, SameShape DEF Passes
<1>2. ASSUME NEW i \in Ingester, Rest(i), work'[i].pc \in {"idle", "walk"} PROVE Passes'
  BY <1>1, <1>2, RestIsSame, IdleShape
<1>3. ASSUME NEW i \in Ingester, NEW f \in Sources, StartPass(i, Folder[f]) PROVE Passes'
  BY <1>2, <1>3, StartMoves
<1>4. ASSUME NEW i \in Ingester, Skip(i) \/ Busy(i) PROVE Passes'
  BY <1>2, <1>4, SkipMoves
<1>5. ASSUME NEW i \in Ingester, Begin(i) PROVE Passes'
  <2>1. PICK n \in Name :
             /\ Rest(i)
             /\ work'[i].pc = IF Shape(n) = "ready" THEN "register" ELSE "prepare"
             /\ work'[i].cur = n /\ work'[i].outs = Outputs(n)
             /\ (work'[i].keep <=> Shape(n) \in {"convert", "vast"})
    BY <1>5, BeginMoves
  <2>2. Shape(n) = "ready" => Outputs(n) = {n}
    BY DEF Outputs
  <2>3. PassShape(i)'
    BY <1>0, <2>1, <2>2, MadeOf, ShapesStay DEF PassShape
  <2> QED BY <1>1, <2>1, <2>3, RestIsSame
<1>6. ASSUME NEW i \in Ingester, Prepared(i) PROVE Passes'
  <2>1. PICK w : /\ MadeAnew(i, work[i].outs, work[i].was, w) /\ Fields(w)
                 /\ w.pc = (IF work[i].keep THEN "document" ELSE "register")
                 /\ w.cur = work[i].cur /\ w.outs = work[i].outs
    BY <1>6, PreparedMoves
  <2>2. /\ work'[i].pc = w.pc /\ work'[i].cur = w.cur /\ work'[i].outs = w.outs
        /\ \A j \in Ingester \ {i} : SameHand(j)
    BY <2>1, AnewMoves
  <2>3. PassShape(i) /\ work[i].pc = "prepare"
    BY <1>6 DEF Prepared, Passes
  <2>4. PassShape(i)'
    BY <1>0, <2>1, <2>2, <2>3, ShapesStay DEF PassShape
  <2> QED BY <1>1, <2>2, <2>4
<1>7. ASSUME NEW i \in Ingester, SplitOriginal(i) PROVE Passes'
  <2>1. PICK w : /\ MadeAnew(i, {<<work[i].cur[1], "d">>}, work[i].was, w) /\ Fields(w)
                 /\ w.pc = "parts" /\ w.cur = work[i].cur /\ w.outs = work[i].outs
    BY <1>7, SplitMoves
  <2>2. /\ work'[i].pc = w.pc /\ work'[i].cur = w.cur /\ work'[i].outs = w.outs
        /\ \A j \in Ingester \ {i} : SameHand(j)
    BY <2>1, AnewMoves
  <2>3. PassShape(i) /\ work[i].pc = "document" /\ Shape(work[i].cur) = "vast"
    BY <1>7 DEF SplitOriginal, Passes
  <2>4. PassShape(i)'
    BY <1>0, <2>1, <2>2, <2>3, ShapesStay DEF PassShape
  <2> QED BY <1>1, <2>2, <2>4
<1>8. ASSUME NEW i \in Ingester, NoDocument(i) \/ RegisterDocument(i) PROVE Passes'
  <2>1. GoesOn(i, "register", work[i].outs) /\ work[i].pc \in {"document", "parts"}
    BY <1>8, NoDocumentMoves, RegisterDocumentMoves DEF NoDocument, RegisterDocument
  <2>2. PassShape(i)
    BY DEF Passes
  <2>3. PassShape(i)'
    BY <1>0, <2>1, <2>2, ShapesStay DEF PassShape, GoesOn
  <2> QED BY <1>1, <2>1, <2>3, RestIsSame DEF GoesOn
<1>9. ASSUME NEW i \in Ingester, Register(i) PROVE Passes'
  <2>1. PICK n \in Name : GoesOn(i, "register", work[i].outs \ {n})
    BY <1>9, RegisterMoves
  <2>2. PassShape(i) /\ work[i].pc = "register"
    BY <1>9 DEF Passes, Register
  <2>3. PassShape(i)'
    BY <1>0, <2>1, <2>2, ShapesStay DEF PassShape, GoesOn
  <2> QED BY <1>1, <2>1, <2>3, RestIsSame DEF GoesOn
<1>10. ASSUME NEW i \in Ingester, PrepareFails(i) \/ FinishReady(i) \/ FinishKept(i) \/ Retire(i)
       PROVE  Passes'
  <2>1. Rest(i) /\ work'[i].pc = "walk"
    BY <1>10, PrepareFailsMoves, FinishReadyMoves, FinishKeptMoves, RetireMoves DEF LetsGo,
       Remembers
  <2> QED BY <1>2, <2>1
<1>11. ASSUME NEW i \in Ingester, EndPass(i) \/ Vanished(i) \/ Die(i) PROVE Passes'
  BY <1>2, <1>11, EndMoves, IdleIs DEF Vanished, Die
<1>12. ASSUME UNCHANGED work PROVE Passes'
  <2>1. \A j \in Ingester : SameHand(j)
    BY <1>12 DEF SameHand
  <2> QED BY <1>0, <2>1, SameShape DEF Passes
<1>13. ASSUME NEW n \in Name, Ship(n) \/ ShipMissing(n) PROVE Passes'
  BY <1>12, <1>13 DEF Ship, ShipMissing
<1>14. ASSUME NEW f \in Sources, NEW m \in Version, Drop(f, m) PROVE Passes'
  BY <1>12, <1>14 DEF Drop
<1> QED BY <1>3, <1>4, <1>5, <1>6, <1>7, <1>8, <1>9, <1>10, <1>11, <1>13, <1>14 DEF Next, Step

-----------------------------------------------------------------------------
(* The bytes of a drop *)

-----------------------------------------------------------------------------
(* The bytes of a drop *)

\* A piece needs the original no more: it is in the chat or in a file of its own.
Safe(f, p) ==
    \/ posts[<<f, p, drops[f]>>] > 0
    \/ \E r \in Role \ {"src"} : disk[<<f, r>>] # 0 /\ PieceOf(<<f, r>>) = p

\* Everything but the document of a drop is safe without the original.
Apart(f) == \A p \in Pieces(f) \ {"document"} : Safe(f, p)

\* The document of the drop was given up.
GivenUp(f) == <<f, "document", drops[f]>> \in forgone

\* The pass has this file in hand.
Has(i, f, r) == work[i].cur = <<f, r>>

\* One pass at a time.
Sole(f) ==
    \A i, j \in Ingester, r, s \in Role : Has(i, f, r) /\ Has(j, f, s) => i = j

\* What lies there under the names of f is of the drop that is the last.
Current(f) == \A r \in Role : disk[<<f, r>>] \in {0, drops[f]}

\* What a pass holds is of the last drop; between prepare and the removal of the
\* original the pieces it was cut into are on the disk.
HandShape(i, f, r) ==
    LET w == work[i]
        n == <<f, r>>
    IN  /\ w.pc \in {"prepare", "document", "parts"} => disk[n] = w.was /\ w.was = drops[f]
        /\ w.pc \in {"prepare", "document"} => row[n] = "none"
        /\ w.pc = "parts" => Safe(f, "document")
        /\ w.pc \in {"document", "parts"} /\ r = "src" => Apart(f)
        /\ w.pc = "register" /\ Shape(n) \in {"vast", "wrap", "large"} =>
              /\ disk[n] # 0 /\ Apart(f)
              /\ Shape(n) = "vast" => Safe(f, "document") \/ GivenUp(f)

\* Of every pass that has a file of the source in hand.
InWork(f) == \A i \in Ingester, r \in Role : Has(i, f, r) => HandShape(i, f, r)

\* An original has a row only if it is posted itself.
Original(f) ==
    row[<<f, "src">>] # "none" =>
        /\ scenario.kind[f] \in {"ready", "convert"}
        /\ scenario.kind[f] = "convert" => Apart(f)

\* Each piece is safe, or in the original that is still there, or was given up.
Bytes(f) ==
    drops[f] # 0 => \A p \in Pieces(f) :
        disk[<<f, "src">>] # 0 \/ Safe(f, p) \/ (p = "document" /\ GivenUp(f))

\* What keeps the bytes of a source that no two passes worked on at a time.
Kept(f) == Sole(f) /\ Current(f) /\ InWork(f) /\ Original(f) /\ Bytes(f)

\* The kinds of a posting.
Piece == {"whole", "document", "preview", "part1", "part2", "extra"}

\* Nothing happens to the files, rows and posts of f.
Calm(f) ==
    /\ scenario' = scenario /\ drops'[f] = drops[f] /\ forgone \subseteq forgone'
    /\ \A r \in Role : disk'[<<f, r>>] = disk[<<f, r>>] /\ row'[<<f, r>>] = row[<<f, r>>]
    /\ \A p \in Piece : posts'[<<f, p, drops[f]>>] = posts[<<f, p, drops[f]>>]

\* No pass takes f in hand or goes on with it.
Held(f) == \A i \in Ingester, r \in Role : Has(i, f, r)' => SameHand(i)

\* The frame: a step that leaves the files, postings and hands of a source alone
\* keeps its bytes.
LEMMA PiecesAre ==
    ASSUME NEW f \in Sources
    PROVE  Pieces(f) \subseteq Piece
BY DEF Pieces, Piece

LEMMA CalmSafe ==
    ASSUME NEW f \in Sources, Calm(f), NEW p \in Piece
    PROVE  Safe(f, p)' <=> Safe(f, p)
<1>1. posts'[<<f, p, drops'[f]>>] = posts[<<f, p, drops[f]>>]
  BY DEF Calm
<1>2. \A r \in Role : disk'[<<f, r>>] = disk[<<f, r>>]
  BY DEF Calm
<1>3. \A n : PieceOf(n)' = PieceOf(n)
  BY ShapesStay DEF Calm
<1> QED BY <1>1, <1>2, <1>3 DEF Safe

LEMMA CalmApart ==
    ASSUME NEW f \in Sources, Calm(f)
    PROVE  (Apart(f)' <=> Apart(f)) /\ (GivenUp(f) => GivenUp(f)')
<1>1. Pieces(f)' = Pieces(f) /\ Pieces(f) \subseteq Piece
  BY ShapesStay, PiecesAre DEF Calm
<1>2. Apart(f)' <=> Apart(f)
  BY <1>1, CalmSafe DEF Apart
<1> QED BY <1>2 DEF GivenUp, Calm

LEMMA CalmFiles ==
    ASSUME NEW f \in Sources, Calm(f), Current(f), Original(f), Bytes(f)
    PROVE  Current(f)' /\ Original(f)' /\ Bytes(f)'
<1>1. Pieces(f)' = Pieces(f) /\ Pieces(f) \subseteq Piece
  BY ShapesStay, PiecesAre DEF Calm
<1>2. Current(f)'
  BY DEF Current, Calm
<1>3. Original(f)'
  <2>1. row'[<<f, "src">>] = row[<<f, "src">>] /\ scenario' = scenario
    BY DEF Calm, Role
  <2> QED BY <2>1, CalmApart DEF Original
<1>4. Bytes(f)'
  BY <1>1, CalmSafe, CalmApart DEF Bytes, Calm, Role
<1> QED BY <1>2, <1>3, <1>4

LEMMA CalmHand ==
    ASSUME NEW f \in Sources, Calm(f), NEW i \in Ingester, NEW r \in Role,
           HandShape(i, f, r), SameHand(i)
    PROVE  HandShape(i, f, r)'
<1>1. "document" \in Piece
  BY DEF Piece
<1> QED BY <1>1, CalmSafe, CalmApart, ShapesStay DEF HandShape, SameHand, Calm

\* What is not touched stays.
LEMMA Frame ==
    ASSUME NEW f \in Sources, Calm(f), Held(f), Kept(f)
    PROVE  Kept(f)'
<1>1. \A i \in Ingester, r \in Role : Has(i, f, r)' => Has(i, f, r) /\ SameHand(i)
  BY DEF Held, Has, SameHand
<1>2. Sole(f)'
  BY <1>1 DEF Sole, Kept
<1>3. InWork(f)'
  BY <1>1, CalmHand DEF InWork, Kept
<1> QED BY <1>2, <1>3, CalmFiles DEF Kept

\* When a step is such a step.
LEMMA CalmIf ==
    ASSUME NEW f \in Sources, UNCHANGED <<scenario, drops, disk, row, posts>>, forgone \subseteq forgone'
    PROVE  Calm(f)
BY DEF Calm

LEMMA HeldIf ==
    ASSUME NEW f \in Sources, NEW i \in Ingester, \A j \in Ingester \ {i} : SameHand(j),
           \A r \in Role : ~Has(i, f, r)'
    PROVE  Held(f)
BY DEF Held

LEMMA NobodyIsName ==
    ASSUME NEW f \in Sources, NEW r \in Role
    PROVE  <<f, r>> # NoName
BY NameIsPair, PairIsName

LEMMA LetGoHeld ==
    ASSUME NEW f \in Sources, NEW i \in Ingester, Rest(i), work'[i].cur = NoName
    PROVE  Held(f)
BY RestIsSame, HeldIf, NobodyIsName DEF Has

\* Steps that touch no file and no row, and take nothing in hand.
LEMMA QuietKeeps ==
    ASSUME Types, NEW i \in Ingester, NEW f \in Sources, Kept(f),
           \/ \E g \in Sources : StartPass(i, Folder[g])
           \/ Skip(i) \/ Busy(i) \/ FinishReady(i) \/ FinishKept(i)
           \/ EndPass(i) \/ Vanished(i) \/ Die(i)
    PROVE  Kept(f)'
<1>1. ASSUME NEW g \in Sources, StartPass(i, Folder[g]) PROVE Calm(f) /\ Held(f)
  <2>1. /\ UNCHANGED <<scenario, drops, disk, row, posts>> /\ forgone \subseteq forgone'
        /\ Rest(i) /\ work'[i].cur = NoName
    BY <1>1, StartMoves DEF StartPass, world, history
  <2> QED BY <2>1, LetGoHeld, CalmIf
<1>2. ASSUME Skip(i) \/ Busy(i) PROVE Calm(f) /\ Held(f)
  <2>1. work[i].cur = NoName /\ work'[i].cur = work[i].cur /\ Rest(i)
    BY <1>2, SkipMoves DEF Types, IsPass
  <2> QED BY <1>2, <2>1, LetGoHeld, CalmIf DEF Skip, Busy, world, history
<1>3. ASSUME FinishReady(i) \/ FinishKept(i) PROVE Calm(f) /\ Held(f)
  <2>1. Rest(i) /\ work'[i].cur = NoName
    BY <1>3, FinishReadyMoves, FinishKeptMoves DEF LetsGo, Remembers
  <2>2. forgone \subseteq forgone'
    BY <1>3 DEF FinishReady, FinishKept, Forgo, history
  <2> QED BY <1>3, <2>1, <2>2, LetGoHeld, CalmIf DEF FinishReady, FinishKept, world
<1>4. ASSUME EndPass(i) \/ Vanished(i) \/ Die(i) PROVE Calm(f) /\ Held(f)
  <2>1. Rest(i) /\ work'[i].cur = NoName
    BY <1>4, EndMoves, IdleIs DEF Vanished, Die
  <2> QED BY <1>4, <2>1, LetGoHeld, CalmIf DEF EndPass, Vanished, Die, PassIsLost, world
<1> QED BY <1>1, <1>2, <1>3, <1>4, Frame

\* A pass has one file in hand, that of a source.
LEMMA InHandIs ==
    ASSUME Types, NEW j \in Ingester, NEW f \in Sources, NEW s \in Role, Has(j, f, s)
    PROVE  f \in InHand(j)
BY PairIsName, NobodyIsName DEF InHand, Has

\* A name is taken in hand: another pass may have it too, which contests it.
LEMMA BeginKeeps ==
    ASSUME Types, NEW i \in Ingester, NEW f \in Sources, f \notin contested', Kept(f), Begin(i)
    PROVE  Kept(f)'
<1>1. PICK n \in Name :
         /\ ~Skips(i, n) /\ Rest(i)
         /\ work'[i].pc = (IF Shape(n) = "ready" THEN "register" ELSE "prepare")
         /\ work'[i].cur = n /\ work'[i].was = disk[n]
         /\ contested' = contested \cup {g \in {n[1]} : \E j \in Ingester \ {i} : g \in InHand(j)}
  BY BeginMoves
<1>2. PICK g \in Sources, r \in Role : n = <<g, r>>
  BY DEF Name
<1>3. Calm(f)
  BY CalmIf DEF Begin, world
<1>4. \A j \in Ingester \ {i} : SameHand(j)
  BY <1>1, RestIsSame
<1>5. CASE f # g
  <2>1. \A s \in Role : ~Has(i, f, s)'
    BY <1>1, <1>2, <1>5 DEF Has
  <2> QED BY <1>3, <1>4, <2>1, HeldIf, Frame
<1>6. CASE f = g
  <2>1. \A j \in Ingester \ {i}, s \in Role : ~Has(j, f, s)
    <3>1. n[1] = f
      BY <1>2, <1>6
    <3> QED BY <1>1, <3>1, InHandIs
  <2>2. \A j \in Ingester \ {i}, s \in Role : ~Has(j, f, s)'
    BY <1>4, <2>1 DEF Has, SameHand
  <2>3. \A s \in Role : Has(i, f, s)' => s = r
    BY <1>1, <1>2 DEF Has
  <2>4. Sole(f)'
    BY <2>2 DEF Sole
  <2>5. HandShape(i, f, r)'
    <3>1. disk[n] = drops[f] /\ row[n] = "none"
      BY <1>1, <1>2, <1>6 DEF Skips, Kept, Current
    <3>2. disk'[n] = disk[n] /\ row'[n] = row[n] /\ drops'[f] = drops[f] /\ Shape(n)' = Shape(n)
      BY <1>2, <1>3, <1>6, ShapesStay DEF Calm
    <3>3. work'[i].pc = "register" => Shape(n)' = "ready"
      BY <1>1, <3>2
    <3>4. work'[i].pc \in {"register", "prepare"}
      BY <1>1
    <3> QED BY <1>1, <1>2, <1>6, <3>1, <3>2, <3>3, <3>4 DEF HandShape
  <2>6. InWork(f)'
    BY <2>2, <2>3, <2>5 DEF InWork
  <2> QED BY <1>3, <2>4, <2>6, CalmFiles DEF Kept
<1> QED BY <1>5, <1>6

\* A pass that has f in hand is alone with it: only its own next place is to be shown.
LEMMA OneHand ==
    ASSUME NEW f \in Sources, NEW i \in Ingester, NEW r \in Role, Sole(f), Has(i, f, r),
           \A j \in Ingester \ {i} : SameHand(j),
           \/ work'[i].cur = NoName
           \/ work'[i].cur = work[i].cur /\ HandShape(i, f, r)'
    PROVE  Sole(f)' /\ InWork(f)'
<1>1. \A j \in Ingester \ {i}, s \in Role : ~Has(j, f, s)'
  BY DEF Sole, Has, SameHand
<1>2. \A s \in Role : Has(i, f, s)' => s = r /\ HandShape(i, f, r)'
  BY NobodyIsName DEF Has
<1> QED BY <1>1, <1>2 DEF Sole, InWork

\* A piece that leaves the disk is in the chat.
Grows(f, p) ==
    /\ scenario' = scenario /\ drops'[f] = drops[f]
    /\ posts[<<f, p, drops[f]>>] > 0 => posts'[<<f, p, drops[f]>>] > 0
    /\ \A s \in Role \ {"src"} :
          disk[<<f, s>>] # 0 /\ PieceOf(<<f, s>>) = p =>
              disk'[<<f, s>>] # 0 \/ posts'[<<f, p, drops[f]>>] > 0

\* New files and postings make a piece no less safe.
LEMMA GrowsSafe ==
    ASSUME NEW f \in Sources, NEW p \in Piece, Grows(f, p), Safe(f, p)
    PROVE  Safe(f, p)'
<1>1. \A n : PieceOf(n)' = PieceOf(n)
  BY ShapesStay DEF Grows
<1>2. drops'[f] = drops[f]
  BY DEF Grows
<1>3. CASE posts[<<f, p, drops[f]>>] > 0
  BY <1>2, <1>3 DEF Safe, Grows
<1>4. ASSUME NEW s \in Role \ {"src"}, disk[<<f, s>>] # 0, PieceOf(<<f, s>>) = p
      PROVE  Safe(f, p)'
  BY <1>1, <1>2, <1>4 DEF Safe, Grows
<1> QED BY <1>3, <1>4 DEF Safe

LEMMA GrowsFiles ==
    ASSUME NEW f \in Sources, scenario' = scenario, drops'[f] = drops[f], forgone \subseteq forgone',
           \A p \in Pieces(f) : Grows(f, p)
    PROVE  /\ \A p \in Pieces(f) : Safe(f, p) => Safe(f, p)'
           /\ Apart(f) => Apart(f)'
           /\ GivenUp(f) => GivenUp(f)'
           /\ disk'[<<f, "src">>] = disk[<<f, "src">>] /\ Bytes(f) => Bytes(f)'
           /\ row'[<<f, "src">>] = row[<<f, "src">>] /\ Original(f) => Original(f)'
<1>1. Pieces(f)' = Pieces(f) /\ Pieces(f) \subseteq Piece
  BY ShapesStay, PiecesAre
<1>2. \A p \in Pieces(f) : Safe(f, p) => Safe(f, p)'
  BY <1>1, GrowsSafe
<1>3. Apart(f) => Apart(f)'
  BY <1>1, <1>2 DEF Apart
<1>4. GivenUp(f) => GivenUp(f)'
  BY DEF GivenUp
<1>5. disk'[<<f, "src">>] = disk[<<f, "src">>] /\ Bytes(f) => Bytes(f)'
  BY <1>1, <1>2, <1>4 DEF Bytes
<1>6. row'[<<f, "src">>] = row[<<f, "src">>] /\ Original(f) => Original(f)'
  BY <1>3 DEF Original
<1> QED BY <1>2, <1>3, <1>4, <1>5, <1>6

\* A drop is of one of five kinds.
LEMMA KindIs ==
    ASSUME Types, NEW f \in Sources
    PROVE  scenario.kind[f] \in Kind
BY DEF Types, TypeOK, Scenario

\* Only a dropped file, or the document cut off it, is prepared.
LEMMA PreparedAre ==
    ASSUME NEW f \in Sources, NEW r \in Role, Shape(<<f, r>>) # "ready"
    PROVE  /\ r \in {"src", "d"} /\ (r = "d" => Shape(<<f, r>>) = "convert")
           /\ \A S \in Makes(<<f, r>>) :
                 /\ S \subseteq {<<f, s>> : s \in Role \ {"src", "d"}} /\ <<f, r>> \notin S
                 /\ r = "d" => S \subseteq {<<f, "do">>, <<f, "dt">>}
<1>1. r \in {"src", "d"} /\ (r = "d" => Shape(<<f, r>>) = "convert")
  BY Shapes
<1>2. <<f, r>>[1] = f /\ <<f, r>>[2] = r
  OBVIOUS
<1>3. ASSUME NEW S \in Makes(<<f, r>>)
      PROVE  /\ S \subseteq {<<f, "o1">>, <<f, "o2">>, <<f, "t">>, <<f, "do">>, <<f, "dt">>}
             /\ r = "d" => S \subseteq {<<f, "do">>, <<f, "dt">>}
  <2>1. CASE r = "d"
    <3>1. S \in {{<<f, "do">>}, {<<f, "dt">>}}
      BY <1>1, <1>2, <2>1 DEF Makes
    <3> QED BY <2>1, <3>1
  <2>2. CASE r = "src"
    <3>1. S \in {{<<f, "o1">>, <<f, "o2">>}, {<<f, "o1">>}, {<<f, "t">>}}
      BY <1>2, <2>2 DEF Makes
    <3> QED BY <2>2, <3>1
  <2> QED BY <1>1, <2>1, <2>2
<1>4. {<<f, "o1">>, <<f, "o2">>, <<f, "t">>, <<f, "do">>, <<f, "dt">>} \subseteq {<<f, s>> : s \in Role \ {"src", "d"}}
  BY DEF Role
<1>5. <<f, r>> \notin {<<f, "o1">>, <<f, "o2">>, <<f, "t">>, <<f, "do">>, <<f, "dt">>}
  BY <1>1
<1> QED BY <1>1, <1>3, <1>4, <1>5

\* What is made of a dropped file is all of its pieces but the document.
LEMMA MadeApart ==
    ASSUME Types, NEW f \in Sources, NEW S \in Makes(<<f, "src">>), Shape(<<f, "src">>) # "ready",
           scenario' = scenario, \A m \in S : disk'[m] # 0
    PROVE  Apart(f)'
<1>1. Pieces(f)' = Pieces(f) /\ \A n : PieceOf(n)' = PieceOf(n)
  BY ShapesStay
<1>2. Shape(<<f, "src">>) = scenario.kind[f] /\ scenario.kind[f] \in Kind
  BY KindIs, Shapes
<1>3. <<f, "src">>[1] = f /\ <<f, "src">>[2] = "src"
  OBVIOUS
<1>4. CASE scenario.kind[f] = "large"
  <2>1. S = {<<f, "o1">>, <<f, "o2">>}
    BY <1>2, <1>3, <1>4 DEF Makes
  <2>2. Pieces(f) = {"part1", "part2"} /\ PieceOf(<<f, "o1">>) = "part1" /\ PieceOf(<<f, "o2">>) = "part2"
    BY <1>4, PieceNames DEF Pieces
  <2>3. disk'[<<f, "o1">>] # 0 /\ disk'[<<f, "o2">>] # 0
    BY <2>1
  <2> QED BY <1>1, <2>2, <2>3 DEF Apart, Safe, Role
<1>5. CASE scenario.kind[f] # "large"
  <2>1. PICK s \in {"o1", "t"} : S = {<<f, s>>}
    BY <1>2, <1>3, <1>5 DEF Makes
  <2>2. Pieces(f) \ {"document"} = {"preview"}
    BY <1>2, <1>5 DEF Pieces, Kind
  <2>3. PieceOf(<<f, s>>) = "preview" /\ disk'[<<f, s>>] # 0
    BY <1>5, <2>1, PieceNames
  <2> QED BY <1>1, <2>2, <2>3 DEF Apart, Safe, Role
<1> QED BY <1>4, <1>5

\* What is done to the files of g leaves f alone.
LEMMA OutsideCalm ==
    ASSUME NEW f \in Sources, UNCHANGED <<scenario, drops, row, posts>>, forgone \subseteq forgone',
           NEW g \in Sources, f # g,
           \A m \in Name : m[1] # g => disk'[m] = disk[m]
    PROVE  Calm(f)
<1>1. \A r \in Role : <<f, r>> \in Name /\ <<f, r>>[1] = f
  BY PairIsName
<1> QED BY <1>1 DEF Calm

\* The shape of what a pass holds, read off the step.
LEMMA HandIs ==
    ASSUME Types, NEW i \in Ingester, work[i].pc \notin {"idle", "walk"}
    PROVE  \E g \in Sources, r \in Role :
              /\ Has(i, g, r) /\ work[i].cur[1] = g /\ work[i].cur[2] = r
              /\ work[i].was # 0 /\ work[i].was \in Version
<1>1. work[i].cur \in Name /\ work[i].was # 0 /\ work[i].was \in Version
  BY DEF Types, IsPass
<1> QED BY <1>1, NameIsPair DEF Has

\* New files beside the one in hand.
LEMMA AnewKeeps ==
    ASSUME Types, NEW i \in Ingester, NEW f \in Sources, NEW r \in Role, Has(i, f, r), Kept(f),
           NEW S, S \subseteq {<<f, s>> : s \in Role \ {"src"}},
           work[i].was # 0, work[i].was = drops[f],
           disk' = [n \in Name |-> IF n \in S THEN work[i].was ELSE disk[n]],
           UNCHANGED <<scenario, drops, row, posts, forgone>>
    PROVE  /\ Current(f)' /\ Original(f)' /\ Bytes(f)'
           /\ \A p \in Pieces(f) : Grows(f, p)
<1>1. \A s \in Role : <<f, s>> \in Name
  BY PairIsName
<1>2. \A s \in Role : disk'[<<f, s>>] \in {drops[f], disk[<<f, s>>]}
  BY <1>1
<1>3. \A s \in Role : disk[<<f, s>>] # 0 => disk'[<<f, s>>] # 0
  BY <1>1
<1>4. <<f, "src">> \notin S
  OBVIOUS
<1>5. disk'[<<f, "src">>] = disk[<<f, "src">>]
  BY <1>1, <1>4 DEF Role
<1>6. \A p \in Pieces(f) : Grows(f, p)
  BY <1>3 DEF Grows
<1>7. Current(f)'
  BY <1>2 DEF Kept, Current
<1> QED BY <1>5, <1>6, <1>7, GrowsFiles DEF Kept

\* prepare has written its outputs beside the original.
LEMMA PreparedKeeps ==
    ASSUME Types, Passes, NEW i \in Ingester, NEW f \in Sources, Kept(f), Prepared(i)
    PROVE  Kept(f)'
<1>1. PICK w : /\ MadeAnew(i, work[i].outs, work[i].was, w) /\ Fields(w)
               /\ w.pc = (IF work[i].keep THEN "document" ELSE "register")
               /\ w.cur = work[i].cur /\ w.was = work[i].was /\ w.outs = work[i].outs
  BY PreparedMoves
<1>2. /\ work'[i].pc = w.pc /\ work'[i].cur = work[i].cur /\ work'[i].was = work[i].was
      /\ \A j \in Ingester \ {i} : SameHand(j)
      /\ disk' = [n \in Name |-> IF n \in work[i].outs THEN work[i].was ELSE disk[n]]
  BY <1>1, AnewMoves
<1>3. work[i].pc = "prepare" /\ UNCHANGED <<scenario, drops, row, posts, forgone>>
  BY DEF Prepared, world, history
<1>4. PICK g \in Sources, r \in Role :
         Has(i, g, r) /\ work[i].cur[1] = g /\ work[i].was # 0 /\ work[i].was \in Version
  BY <1>3, HandIs
<1> DEFINE S == work[i].outs
<1>5. /\ Shape(<<g, r>>) # "ready" /\ S \in Makes(<<g, r>>)
      /\ (work[i].keep <=> Shape(<<g, r>>) \in {"convert", "vast"})
  BY <1>3, <1>4 DEF Passes, PassShape, Has
<1>6. /\ r \in {"src", "d"} /\ (r = "d" => Shape(<<g, r>>) = "convert")
      /\ S \subseteq {<<g, s>> : s \in Role \ {"src", "d"}} /\ <<g, r>> \notin S
  BY <1>5, PreparedAre
<1>7. CASE f # g
  <2>1. \A m \in Name : m[1] # g => disk'[m] = disk[m]
    BY <1>2, <1>6
  <2>2. Calm(f)
    BY <1>3, <1>7, <2>1, OutsideCalm
  <2>3. \A s \in Role : ~Has(i, f, s)'
    BY <1>2, <1>4, <1>7 DEF Has
  <2> QED BY <1>2, <2>2, <2>3, HeldIf, Frame
<1>8. CASE f = g
  <2>1. HandShape(i, f, r)
    BY <1>4, <1>8 DEF Kept, InWork
  <2>2. disk[<<f, r>>] = work[i].was /\ work[i].was = drops[f] /\ row[<<f, r>>] = "none"
    BY <1>3, <2>1 DEF HandShape
  <2>3. S \subseteq {<<f, s>> : s \in Role \ {"src"}}
    BY <1>6, <1>8
  <2>4. Current(f)' /\ Original(f)' /\ Bytes(f)'
    BY <1>2, <1>3, <1>4, <1>8, <2>2, <2>3, AnewKeeps
  <2>5. r = "src" => Apart(f)'
    <3>1. S \subseteq Name
      BY DEF Types, IsPass
    <3>2. \A m \in S : disk'[m] # 0
      BY <1>2, <1>4, <3>1
    <3> QED BY <1>3, <1>5, <1>8, <3>2, MadeApart
  <2>6. disk'[<<f, r>>] = disk[<<f, r>>]
    BY <1>2, <1>6, <1>8, PairIsName
  <2>7. HandShape(i, f, r)'
    <3>1. Shape(<<f, r>>)' = Shape(<<f, r>>)
      BY <1>3, ShapesStay
    <3>2. work'[i].pc \in {"document", "register"}
      BY <1>1, <1>2
    <3>3. work'[i].pc = "register" => Shape(<<f, r>>) # "vast"
      BY <1>1, <1>2, <1>5, <1>8
    <3>4. Shape(<<f, r>>) \in {"vast", "wrap", "large"} => r = "src"
      BY <1>6, <1>8
    <3> QED BY <1>2, <1>3, <1>4, <2>2, <2>5, <2>6, <3>1, <3>2, <3>3, <3>4 DEF HandShape
  <2>8. Sole(f)' /\ InWork(f)'
    BY <1>2, <1>4, <1>8, <2>7, OneHand DEF Kept
  <2> QED BY <2>4, <2>8 DEF Kept
<1> QED BY <1>7, <1>8

\* The original is split beside itself.
LEMMA SplitKeeps ==
    ASSUME Types, Passes, NEW i \in Ingester, NEW f \in Sources, Kept(f), SplitOriginal(i)
    PROVE  Kept(f)'
<1> DEFINE S == {<<work[i].cur[1], "d">>}
<1>1. PICK w : /\ MadeAnew(i, S, work[i].was, w) /\ Fields(w)
               /\ w.pc = "parts" /\ w.cur = work[i].cur /\ w.was = work[i].was
  BY SplitMoves
<1>2. /\ work'[i].pc = "parts" /\ work'[i].cur = work[i].cur /\ work'[i].was = work[i].was
      /\ \A j \in Ingester \ {i} : SameHand(j)
      /\ disk' = [n \in Name |-> IF n \in S THEN work[i].was ELSE disk[n]]
  BY <1>1, AnewMoves
<1>3. /\ work[i].pc = "document" /\ Shape(work[i].cur) = "vast"
      /\ UNCHANGED <<scenario, drops, row, posts, forgone>>
  BY DEF SplitOriginal, world, history
<1>4. PICK g \in Sources, r \in Role :
         Has(i, g, r) /\ work[i].cur[1] = g /\ work[i].was # 0 /\ work[i].was \in Version
  BY <1>3, HandIs
<1>5. r = "src"
  BY <1>3, <1>4, PreparedAre DEF Has
<1>6. CASE f # g
  <2>1. \A m \in Name : m[1] # g => disk'[m] = disk[m]
    BY <1>2, <1>4
  <2>2. Calm(f)
    BY <1>3, <1>6, <2>1, OutsideCalm
  <2>3. \A s \in Role : ~Has(i, f, s)'
    BY <1>2, <1>4, <1>6 DEF Has
  <2> QED BY <1>2, <2>2, <2>3, HeldIf, Frame
<1>7. CASE f = g
  <2>1. HandShape(i, f, r)
    BY <1>4, <1>7 DEF Kept, InWork
  <2>2. /\ disk[<<f, r>>] = work[i].was /\ work[i].was = drops[f] /\ row[<<f, r>>] = "none"
        /\ Apart(f)
    BY <1>3, <1>5, <2>1 DEF HandShape
  <2>3. S \subseteq {<<f, s>> : s \in Role \ {"src"}}
    BY <1>4, <1>7 DEF Role
  <2>4. Current(f)' /\ Original(f)' /\ Bytes(f)' /\ \A p \in Pieces(f) : Grows(f, p)
    BY <1>2, <1>3, <1>4, <1>7, <2>2, <2>3, AnewKeeps
  <2>5. Apart(f)'
    BY <1>3, <2>2, <2>4, GrowsFiles
  <2>6. disk'[<<f, r>>] = disk[<<f, r>>] /\ disk'[<<f, "d">>] # 0
    BY <1>2, <1>4, <1>5, <1>7, PairIsName DEF Role
  <2>7. Safe(f, "document")'
    <3>1. PieceOf(<<f, "d">>)' = "document"
      BY <1>3, ShapesStay, PieceNames
    <3> QED BY <2>6, <3>1 DEF Safe, Role
  <2>8. HandShape(i, f, r)'
    BY <1>2, <1>3, <2>2, <2>5, <2>6, <2>7 DEF HandShape
  <2>9. Sole(f)' /\ InWork(f)'
    BY <1>2, <1>4, <1>7, <2>8, OneHand DEF Kept
  <2> QED BY <2>4, <2>9 DEF Kept
<1> QED BY <1>6, <1>7

\* Only what prepare wrote is removed, and a source that is being prepared has
\* nothing else that is needed.
LEMMA PrepareFailsKeeps ==
    ASSUME Types, Passes, NEW i \in Ingester, NEW f \in Sources, Kept(f), PrepareFails(i)
    PROVE  Kept(f)'
<1> DEFINE S == work[i].outs
<1>1. /\ work[i].pc = "prepare" /\ UNCHANGED <<scenario, drops, row, posts>>
      /\ disk' = [n \in Name |-> IF n \in S THEN 0 ELSE disk[n]]
      /\ forgone \subseteq forgone'
  BY DEF PrepareFails, Forgo, world
<1>2. Rest(i) /\ work'[i].cur = NoName
  BY PrepareFailsMoves DEF Remembers, LetsGo
<1>3. PICK g \in Sources, r \in Role :
         Has(i, g, r) /\ work[i].cur[1] = g /\ work[i].was # 0 /\ work[i].was \in Version
  BY <1>1, HandIs
<1>4. Shape(<<g, r>>) # "ready" /\ S \in Makes(<<g, r>>)
  BY <1>1, <1>3 DEF Passes, PassShape, Has
<1>5. /\ r \in {"src", "d"}
      /\ S \subseteq {<<g, s>> : s \in Role \ {"src", "d"}}
      /\ r = "d" => S \subseteq {<<g, "do">>, <<g, "dt">>}
  BY <1>4, PreparedAre
<1>6. CASE f # g
  <2>1. \A m \in Name : m[1] # g => disk'[m] = disk[m]
    BY <1>1, <1>5
  <2>2. Calm(f)
    BY <1>1, <1>6, <2>1, OutsideCalm
  <2> QED BY <1>2, <2>2, LetGoHeld, Frame
<1>7. CASE f = g
  <2>1. HandShape(i, f, r)
    BY <1>3, <1>7 DEF Kept, InWork
  <2>2. disk[<<f, r>>] = work[i].was /\ row[<<f, r>>] = "none"
    BY <1>1, <2>1 DEF HandShape
  <2>3. \A s \in Role : /\ <<f, s>> \in Name
                        /\ disk'[<<f, s>>] \in {0, disk[<<f, s>>]}
    BY <1>1, PairIsName
  <2>4. disk'[<<f, "src">>] = disk[<<f, "src">>]
    <3>1. <<f, "src">> \notin S
      BY <1>5, <1>7
    <3> QED BY <1>1, <2>3, <3>1 DEF Role
  <2>5. Current(f)'
    BY <1>1, <2>3 DEF Kept, Current
  <2>6. Sole(f)' /\ InWork(f)'
    BY <1>2, <1>3, <1>7, OneHand, RestIsSame DEF Kept
  <2>7. CASE r = "src"
    <3>1. Original(f)'
      BY <1>1, <2>2, <2>7 DEF Original
    <3>2. Bytes(f)'
      BY <1>3, <2>2, <2>4, <2>7 DEF Bytes
    <3> QED BY <2>5, <2>6, <3>1, <3>2 DEF Kept
  <2>8. CASE r = "d"
    <3>1. ASSUME NEW p \in Pieces(f) PROVE Grows(f, p)
      <4>1. p # "extra"
        BY DEF Pieces
      <4>2. \A s \in Role : PieceOf(<<f, s>>) = p => s \notin {"do", "dt"}
        BY <4>1, PieceNames
      <4>3. \A s \in Role : PieceOf(<<f, s>>) = p => disk'[<<f, s>>] = disk[<<f, s>>]
        BY <1>1, <1>5, <1>7, <2>3, <2>8, <4>2
      <4> QED BY <1>1, <4>3 DEF Grows
    <3>2. Original(f)' /\ Bytes(f)'
      BY <1>1, <2>4, <3>1, GrowsFiles DEF Kept
    <3> QED BY <2>5, <2>6, <3>2 DEF Kept
  <2> QED BY <1>5, <2>7, <2>8
<1> QED BY <1>6, <1>7

\* The parts are removed; the document is given up, the original is not.
LEMMA NoDocumentKeeps ==
    ASSUME Types, Passes, NEW i \in Ingester, NEW f \in Sources, Kept(f), NoDocument(i)
    PROVE  Kept(f)'
<1>1. /\ work[i].pc = "document" /\ Shape(work[i].cur) = "vast"
      /\ UNCHANGED <<scenario, drops, row, posts>>
      /\ disk' \in {disk, [disk EXCEPT ![<<work[i].cur[1], "d">>] = 0]}
      /\ Forgo(work[i].cur[1], {"document"}, work[i].was)
  BY DEF NoDocument, world
<1>2. forgone \subseteq forgone' /\ <<work[i].cur[1], "document", work[i].was>> \in forgone'
  BY <1>1 DEF Forgo
<1>3. GoesOn(i, "register", work[i].outs)
  BY NoDocumentMoves
<1>4. PICK g \in Sources, r \in Role :
         Has(i, g, r) /\ work[i].cur[1] = g /\ work[i].was # 0 /\ work[i].was \in Version
  BY <1>1, HandIs
<1>5. r = "src" /\ scenario.kind[g] = "vast"
  BY <1>1, <1>4, PreparedAre, Shapes DEF Has
<1>6. CASE f # g
  <2>1. \A m \in Name : m[1] # g => disk'[m] = disk[m]
    <3>1. disk \in [Name -> Version]
      BY DEF Types, TypeOK
    <3>2. <<g, "d">>[1] = g
      OBVIOUS
    <3> QED BY <1>1, <1>4, <3>1, <3>2
  <2>2. Calm(f)
    BY <1>1, <1>2, <1>6, <2>1, OutsideCalm
  <2>3. \A s \in Role : ~Has(i, f, s)'
    BY <1>3, <1>4, <1>6 DEF Has, GoesOn
  <2> QED BY <1>3, <2>2, <2>3, RestIsSame, HeldIf, Frame DEF GoesOn
<1>7. CASE f = g
  <2>1. HandShape(i, f, r)
    BY <1>4, <1>7 DEF Kept, InWork
  <2>2. /\ disk[<<f, r>>] = work[i].was /\ work[i].was = drops[f] /\ row[<<f, r>>] = "none"
        /\ Apart(f)
    BY <1>1, <1>5, <2>1 DEF HandShape
  <2>3. /\ disk \in [Name -> Version] /\ \A s \in Role : <<f, s>> \in Name
    BY PairIsName DEF Types, TypeOK
  <2>4. /\ \A s \in Role : disk'[<<f, s>>] \in {0, disk[<<f, s>>]}
        /\ \A s \in Role \ {"d"} : disk'[<<f, s>>] = disk[<<f, s>>]
    BY <1>1, <1>4, <1>7, <2>3
  <2>5. Current(f)'
    BY <1>1, <2>4 DEF Kept, Current
  <2>6. Pieces(f)' = Pieces(f) /\ Pieces(f) \ {"document"} \subseteq Piece
    BY <1>1, ShapesStay, PiecesAre
  <2>7. ASSUME NEW p \in Pieces(f) \ {"document"} PROVE Grows(f, p)
    <3>1. \A s \in Role : PieceOf(<<f, s>>) = p => s # "d"
      BY PieceNames
    <3> QED BY <1>1, <2>4, <3>1 DEF Grows
  <2>8. Apart(f)'
    BY <2>2, <2>6, <2>7, GrowsSafe DEF Apart
  <2>9. Original(f)' /\ Bytes(f)'
    <3>1. disk'[<<f, "src">>] # 0 /\ row'[<<f, "src">>] = "none"
      BY <1>1, <1>4, <1>5, <2>2, <2>4 DEF Role
    <3> QED BY <3>1 DEF Original, Bytes
  <2>10. HandShape(i, f, r)'
    <3>1. GivenUp(f)' /\ disk'[<<f, r>>] # 0
      BY <1>1, <1>2, <1>4, <1>5, <1>7, <2>2, <2>4 DEF GivenUp
    <3> QED BY <1>3, <2>8, <3>1 DEF HandShape, GoesOn
  <2>11. Sole(f)' /\ InWork(f)'
    BY <1>3, <1>4, <1>7, <2>10, OneHand, RestIsSame DEF Kept, GoesOn
  <2> QED BY <2>5, <2>9, <2>11 DEF Kept
<1> QED BY <1>6, <1>7

\* A row is given: only an original's is of interest.
LEMMA RowsKeep ==
    ASSUME Types, NEW f \in Sources, Kept(f), UNCHANGED <<scenario, drops, disk, posts>>,
           forgone \subseteq forgone',
           row'[<<f, "src">>] = row[<<f, "src">>] \/ Original(f)'
    PROVE  Current(f)' /\ Original(f)' /\ Bytes(f)' /\ \A p \in Pieces(f) : Grows(f, p)
<1>1. \A p \in Pieces(f) : Grows(f, p)
  BY DEF Grows
<1>2. Current(f)'
  BY DEF Kept, Current
<1> QED BY <1>1, <1>2, GrowsFiles DEF Kept

\* Rows are given; the document may be given up.
LEMMA RegisterDocumentKeeps ==
    ASSUME Types, Passes, NEW i \in Ingester, NEW f \in Sources, Kept(f), RegisterDocument(i)
    PROVE  Kept(f)'
<1> DEFINE n == Document(i)
<1>1. /\ UNCHANGED <<scenario, drops, disk, posts>>
      /\ Insert(n) \/ UNCHANGED row
      /\ forgone \subseteq forgone'
      /\ \/ work[i].pc = "parts"
         \/ work[i].pc = "document" /\ Shape(work[i].cur) = "convert"
  BY DEF RegisterDocument, Refused, Forgo, world
<1>2. GoesOn(i, "register", work[i].outs)
  BY RegisterDocumentMoves
<1>3. PICK g \in Sources, r \in Role :
         Has(i, g, r) /\ work[i].cur[1] = g /\ work[i].was # 0 /\ work[i].was \in Version
  BY <1>1, HandIs
<1>4. n = IF work[i].pc = "parts" THEN <<g, "d">> ELSE <<g, r>>
  BY <1>3 DEF Document, Has
<1>5. work[i].pc = "parts" => Shape(<<g, r>>) = "vast" /\ r = "src"
  <2>1. work[i].pc = "parts" => Shape(<<g, r>>) = "vast"
    BY <1>3 DEF Passes, PassShape, Has
  <2> QED BY <2>1, PreparedAre
<1>6. \A m \in Name : m # n => row'[m] = row[m]
  BY <1>1 DEF Insert, Types, TypeOK
<1> HIDE DEF n
<1>7. CASE f # g
  <2>1. \A s \in Role : row'[<<f, s>>] = row[<<f, s>>]
    BY <1>4, <1>6, <1>7, PairIsName
  <2>2. Calm(f)
    BY <1>1, <2>1 DEF Calm
  <2>3. \A s \in Role : ~Has(i, f, s)'
    BY <1>2, <1>3, <1>7 DEF Has, GoesOn
  <2> QED BY <1>2, <2>2, <2>3, RestIsSame, HeldIf, Frame DEF GoesOn
<1>8. CASE f = g
  <2>1. HandShape(i, f, r)
    BY <1>3, <1>8 DEF Kept, InWork
  <2>2. /\ disk[<<f, r>>] = work[i].was /\ work[i].was = drops[f]
        /\ r = "src" => Apart(f)
        /\ work[i].pc = "parts" => Safe(f, "document")
    BY <1>1, <2>1 DEF HandShape
  <2>3. \A p \in Pieces(f) : Grows(f, p)
    BY <1>1 DEF Grows
  <2>4. Apart(f) => Apart(f)'
    BY <1>1, <2>3, GrowsFiles
  <2>5. row'[<<f, "src">>] = row[<<f, "src">>] \/ Original(f)'
    <3>1. CASE n # <<f, "src">>
      <4>1. <<f, "src">> \in Name
        BY PairIsName DEF Role
      <4>2. row'[<<f, "src">>] = row[<<f, "src">>]
        BY <1>6, <3>1, <4>1
      <4> QED BY <4>2
    <3>2. CASE n = <<f, "src">>
      <4>1. work[i].pc # "parts" /\ r = "src"
        BY <1>4, <1>8, <3>2
      <4>2. scenario.kind[f] = "convert"
        BY <1>1, <1>3, <1>8, <4>1, Shapes DEF Has
      <4> QED BY <1>1, <2>2, <2>4, <4>1, <4>2 DEF Original
    <3> QED BY <3>1, <3>2
  <2>6. Current(f)' /\ Original(f)' /\ Bytes(f)'
    BY <1>1, <2>5, RowsKeep
  <2>7. HandShape(i, f, r)'
    <3>1. Shape(<<f, r>>)' = Shape(<<f, r>>)
      BY <1>1, ShapesStay
    <3>2. work'[i].pc = "register"
      BY <1>2 DEF GoesOn
    <3>3. CASE work[i].pc = "parts"
      <4>1. "document" \in Pieces(f)
        BY <1>5, <1>8, <3>3, Shapes DEF Pieces
      <4>2. Safe(f, "document")'
        BY <1>1, <2>2, <2>3, <3>3, <4>1, GrowsFiles
      <4> QED BY <1>1, <1>3, <1>5, <1>8, <2>2, <2>4, <3>1, <3>2, <3>3, <4>2 DEF HandShape
    <3>4. CASE work[i].pc # "parts"
      <4>1. Shape(<<f, r>>) = "convert"
        BY <1>1, <1>3, <1>8, <3>4 DEF Has
      <4> QED BY <3>1, <3>2, <4>1 DEF HandShape
    <3> QED BY <3>3, <3>4
  <2>8. Sole(f)' /\ InWork(f)'
    BY <1>2, <1>3, <1>8, <2>7, OneHand, RestIsSame DEF Kept, GoesOn
  <2> QED BY <2>6, <2>8 DEF Kept
<1> QED BY <1>7, <1>8

\* A row, or none, for one output.
LEMMA RegisterKeeps ==
    ASSUME Types, Passes, NEW i \in Ingester, NEW f \in Sources, Kept(f), Register(i)
    PROVE  Kept(f)'
<1>1. work[i].pc = "register" /\ UNCHANGED <<scenario, drops, disk, posts, forgone>>
  BY DEF Register, world, history
<1>2. PICK n \in work[i].outs :
         /\ n \in Name /\ GoesOn(i, "register", work[i].outs \ {n})
         /\ Insert(n) \/ UNCHANGED row
  BY RegisterMoves
<1>3. PICK g \in Sources, r \in Role : Has(i, g, r)
  BY <1>1, HandIs
<1>4. \A m \in Name : m # n => row'[m] = row[m]
  BY <1>2 DEF Insert, Types, TypeOK
<1>5. \/ Shape(<<g, r>>) = "ready" /\ n = <<g, r>>
      \/ n \in {<<g, s>> : s \in Role \ {"src", "d"}}
  <2>1. IF Shape(<<g, r>>) = "ready" THEN work[i].outs \subseteq {<<g, r>>}
        ELSE \E S \in Makes(<<g, r>>) : work[i].outs \subseteq S
    BY <1>1, <1>3 DEF Passes, PassShape, Has
  <2> QED BY <1>2, <2>1, PreparedAre
<1>6. CASE f # g
  <2>1. \A s \in Role : row'[<<f, s>>] = row[<<f, s>>]
    BY <1>4, <1>5, <1>6, PairIsName
  <2>2. Calm(f)
    BY <1>1, <2>1 DEF Calm
  <2>3. \A s \in Role : ~Has(i, f, s)'
    BY <1>2, <1>3, <1>6 DEF Has, GoesOn
  <2> QED BY <1>2, <2>2, <2>3, RestIsSame, HeldIf, Frame DEF GoesOn
<1>7. CASE f = g
  <2>1. row'[<<f, "src">>] = row[<<f, "src">>] \/ Original(f)'
    <3>1. CASE n # <<f, "src">>
      <4>1. <<f, "src">> \in Name
        BY PairIsName DEF Role
      <4>2. row'[<<f, "src">>] = row[<<f, "src">>]
        BY <1>4, <3>1, <4>1
      <4> QED BY <4>2
    <3>2. CASE n = <<f, "src">>
      <4>1. scenario.kind[f] = "ready"
        BY <1>5, <1>7, <3>2, Shapes
      <4> QED BY <1>1, <4>1 DEF Original
    <3> QED BY <3>1, <3>2
  <2>2. Current(f)' /\ Original(f)' /\ Bytes(f)' /\ \A p \in Pieces(f) : Grows(f, p)
    BY <1>1, <2>1, RowsKeep
  <2>3. Apart(f) => Apart(f)'
    BY <1>1, <2>2, GrowsFiles
  <2>4. HandShape(i, f, r)'
    <3>1. Shape(<<f, r>>)' = Shape(<<f, r>>)
      BY <1>1, ShapesStay
    <3>2. HandShape(i, f, r)
      BY <1>3, <1>7 DEF Kept, InWork
    <3>3. Safe(f, "document") => Safe(f, "document")'
      <4>1. \A m : PieceOf(m)' = PieceOf(m)
        BY <1>1, ShapesStay
      <4> QED BY <1>1, <4>1 DEF Safe
    <3>4. work'[i].pc = "register"
      BY <1>2 DEF GoesOn
    <3> QED BY <1>1, <2>3, <3>1, <3>2, <3>3, <3>4 DEF HandShape, GivenUp
  <2>5. Sole(f)' /\ InWork(f)'
    BY <1>2, <1>3, <1>7, <2>4, OneHand, RestIsSame DEF Kept, GoesOn
  <2> QED BY <2>2, <2>5 DEF Kept
<1> QED BY <1>6, <1>7

\* The original goes only when every other piece is safe and the document has its
\* parts.
LEMMA RetireKeeps ==
    ASSUME Types, NEW i \in Ingester, NEW f \in Sources, Kept(f), Retire(i)
    PROVE  Kept(f)'
<1>1. /\ work[i].pc = "register" /\ Shape(work[i].cur) \in {"vast", "wrap", "large"}
      /\ UNCHANGED <<scenario, drops, row, posts, forgone>>
  BY DEF Retire, Finishing, world, history
<1>2. Rest(i) /\ work'[i].cur = NoName /\ disk' \in {disk, [disk EXCEPT ![work[i].cur] = 0]}
  BY RetireMoves DEF Remembers, LetsGo
<1>3. PICK g \in Sources, r \in Role : Has(i, g, r)
  BY <1>1, HandIs
<1>4. r = "src" /\ Shape(<<g, r>>) \in {"vast", "wrap", "large"}
  BY <1>1, <1>3, PreparedAre DEF Has
<1>5. \A m \in Name : m # <<g, "src">> => disk'[m] = disk[m]
  BY <1>2, <1>3, <1>4 DEF Types, TypeOK, Has
<1>6. CASE f # g
  <2>1. \A m \in Name : m[1] # g => disk'[m] = disk[m]
    BY <1>5
  <2>2. Calm(f)
    BY <1>1, <1>6, <2>1, OutsideCalm
  <2> QED BY <1>2, <2>2, LetGoHeld, Frame
<1>7. CASE f = g
  <2>1. HandShape(i, f, r)
    BY <1>3, <1>7 DEF Kept, InWork
  <2>2. Apart(f) /\ (Shape(<<f, r>>) = "vast" => Safe(f, "document") \/ GivenUp(f))
    BY <1>1, <1>4, <1>7, <2>1 DEF HandShape
  <2>3. \A s \in Role \ {"src"} : disk'[<<f, s>>] = disk[<<f, s>>]
    BY <1>5, PairIsName
  <2>4. \A p \in Pieces(f) : Grows(f, p)
    BY <1>1, <2>3 DEF Grows
  <2>5. Apart(f)' /\ Original(f)' /\ (GivenUp(f) => GivenUp(f)')
        /\ \A p \in Pieces(f) : Safe(f, p) => Safe(f, p)'
    BY <1>1, <2>2, <2>4, GrowsFiles DEF Kept
  <2>6. Current(f)'
    <3>1. \A s \in Role : disk'[<<f, s>>] \in {0, disk[<<f, s>>]}
      BY <1>2, <1>3, <1>4, <1>7, PairIsName DEF Types, TypeOK, Has
    <3> QED BY <1>1, <3>1 DEF Kept, Current
  <2>7. Bytes(f)'
    <3>1. Pieces(f)' = Pieces(f)
      BY <1>1, ShapesStay
    <3>2. \A p \in Pieces(f) \ {"document"} : Safe(f, p)'
      BY <2>2, <2>5 DEF Apart
    <3>3. "document" \in Pieces(f) => Shape(<<f, r>>) = "vast"
      BY <1>4, <1>7, Shapes DEF Pieces
    <3> QED BY <2>2, <2>5, <3>1, <3>2, <3>3 DEF Bytes
  <2>8. Sole(f)' /\ InWork(f)'
    BY <1>2, <1>3, <1>7, OneHand, RestIsSame DEF Kept
  <2> QED BY <2>5, <2>6, <2>7, <2>8 DEF Kept
<1> QED BY <1>6, <1>7

\* Steps outside the passes hold what the passes have.
LEMMA AllHeld ==
    ASSUME UNCHANGED work, NEW f \in Sources
    PROVE  Held(f)
BY DEF Held, SameHand

\* An original somebody is to prepare, split or retire has no row.
LEMMA InHandNoRow ==
    ASSUME Types, Passes, NEW f \in Sources, Kept(f), NEW i \in Ingester, NEW r \in Role, Has(i, f, r),
           \/ work[i].pc \in {"prepare", "document", "parts"}
           \/ work[i].pc = "register" /\ Shape(<<f, r>>) \in {"vast", "wrap", "large"}
    PROVE  row[<<f, r>>] = "none" /\ disk[<<f, r>>] # 0
<1>1. HandShape(i, f, r) /\ PassShape(i)
  BY DEF Kept, InWork, Passes
<1>2. disk[<<f, r>>] # 0
  <2>1. work[i].pc \notin {"idle", "walk"} => work[i].was # 0
    BY HandIs
  <2> QED BY <1>1, <2>1 DEF HandShape
<1>3. CASE work[i].pc \in {"prepare", "document"}
  BY <1>1, <1>2, <1>3 DEF HandShape
<1>4. CASE work[i].pc \notin {"prepare", "document"}
  <2>1. Shape(<<f, r>>) \in {"vast", "wrap", "large"}
    BY <1>1, <1>4 DEF PassShape, Has
  <2>2. r = "src"
    BY <2>1, PreparedAre
  <2>3. scenario.kind[f] \notin {"ready", "convert"}
    BY <2>1, <2>2, Shapes
  <2> QED BY <1>2, <2>2, <2>3 DEF Kept, Original
<1> QED BY <1>3, <1>4

\* The dispatcher removes a file it posted, and the posting counts for the piece.
LEMMA ShipKeeps ==
    ASSUME Types, Passes, NEW n \in Name, NEW f \in Sources, Kept(f), Ship(n)
    PROVE  Kept(f)'
<1>1. /\ row[n] = "pending" /\ disk[n] # 0
      /\ posts' = [posts EXCEPT ![<<n[1], PieceOf(n), disk[n]>>] = IF @ = 0 THEN 1 ELSE 2]
      /\ UNCHANGED <<scenario, drops, work, forgone>>
      /\ \/ row' = [row EXCEPT ![n] = "sent"] /\ UNCHANGED disk
         \/ row' = [row EXCEPT ![n] = "none"] /\ disk' = [disk EXCEPT ![n] = 0]
  BY DEF Ship, world, history
<1>2. PICK g \in Sources, r \in Role : n = <<g, r>> /\ n[1] = g
  BY NameIsPair
<1>3. /\ \A m \in Name : m # n => row'[m] = row[m] /\ disk'[m] = disk[m]
      /\ disk'[n] \in {0, disk[n]}
  BY <1>1 DEF Types, TypeOK
<1>4. Held(f)
  BY <1>1, AllHeld
<1>5. posts \in [Posting -> 0..2] /\ \A p \in Posting : posts[p] > 0 => posts'[p] > 0
  <2>1. posts \in [Posting -> 0..2]
    BY DEF Types, TypeOK
  <2> QED BY <1>1, <2>1
<1>6. CASE f # g
  <2>1. \A s \in Role : row'[<<f, s>>] = row[<<f, s>>] /\ disk'[<<f, s>>] = disk[<<f, s>>]
    BY <1>2, <1>3, <1>6, PairIsName
  <2>2. \A p \in Piece : posts'[<<f, p, drops[f]>>] = posts[<<f, p, drops[f]>>]
    BY <1>1, <1>2, <1>5, <1>6
  <2>3. Calm(f)
    BY <1>1, <2>1, <2>2 DEF Calm
  <2> QED BY <1>4, <2>3, Frame
<1>7. CASE f = g
  <2>1. disk[n] = drops[f] /\ drops[f] \in 1..MaxDrops
    <3>1. disk[n] = drops[f]
      BY <1>1, <1>2, <1>7 DEF Kept, Current
    <3>2. drops[f] \in 0..MaxDrops /\ MaxDrops \in Nat
      BY DEF Types, TypeOK, Version
    <3> QED BY <1>1, <3>1, <3>2
  <2>2. PieceOf(n) \in Piece
    BY DEF PieceOf, Piece
  <2>3. \A p \in Piece : <<f, p, drops[f]>> \in Posting
    BY <2>1 DEF Posting, Piece
  <2>4. posts'[<<f, PieceOf(n), drops[f]>>] > 0
    BY <1>1, <1>2, <1>5, <1>7, <2>1, <2>2, <2>3
  <2>5. \A s \in Role : <<f, s>> \in Name
    BY PairIsName
  <2>6. \A p \in Piece : Grows(f, p)
    BY <1>1, <1>3, <1>5, <2>3, <2>4, <2>5 DEF Grows
  <2>7. Pieces(f) \subseteq Piece /\ Pieces(f)' = Pieces(f)
    BY <1>1, PiecesAre, ShapesStay
  <2>8. /\ \A p \in Pieces(f) : Safe(f, p) => Safe(f, p)'
        /\ Apart(f) => Apart(f)'
        /\ GivenUp(f) => GivenUp(f)'
        /\ disk'[<<f, "src">>] = disk[<<f, "src">>] /\ Bytes(f) => Bytes(f)'
    BY <1>1, <2>6, <2>7, GrowsFiles
  <2>9. Safe(f, "document") => Safe(f, "document")'
    BY <2>6, GrowsSafe DEF Piece
  <2>10. Current(f)'
    BY <1>1, <1>2, <1>3, <2>5 DEF Kept, Current
  <2>11. Original(f)'
    <3>1. row'[<<f, "src">>] # "none" => row[<<f, "src">>] # "none"
      BY <1>1, <1>3, <2>5 DEF Role
    <3> QED BY <1>1, <2>8, <3>1 DEF Kept, Original
  <2>12. Bytes(f)'
    <3>1. CASE n # <<f, "src">>
      BY <1>3, <2>5, <2>8, <3>1 DEF Kept, Role
    <3>2. CASE n = <<f, "src">>
      <4>1. /\ scenario.kind[f] \in {"ready", "convert"}
            /\ scenario.kind[f] = "convert" => Apart(f)'
        BY <1>1, <2>8, <3>2 DEF Kept, Original
      <4>0. PICK q \in Piece : q = PieceOf(n)
        BY <2>2
      <4>2. q = IF scenario.kind[f] = "ready" THEN "whole" ELSE "document"
        BY <3>2, <4>0, PieceNames
      <4>3. Safe(f, q)'
        BY <1>1, <2>4, <4>0 DEF Safe
      <4>4. CASE scenario.kind[f] = "ready"
        <5>1. Pieces(f) = {q}
          BY <4>2, <4>4 DEF Pieces
        <5> QED BY <2>7, <4>3, <5>1 DEF Bytes
      <4>5. CASE scenario.kind[f] = "convert"
        <5>1. q = "document" /\ \A p \in Pieces(f) \ {"document"} : Safe(f, p)'
          BY <2>7, <4>1, <4>2, <4>5 DEF Apart
        <5> QED BY <2>7, <4>3, <5>1 DEF Bytes
      <4> QED BY <4>1, <4>4, <4>5
    <3> QED BY <3>1, <3>2
  <2>13. ASSUME NEW i \in Ingester, NEW s \in Role, Has(i, f, s)
         PROVE  HandShape(i, f, s)'
    <3>1. work'[i] = work[i] /\ Shape(<<f, s>>)' = Shape(<<f, s>>) /\ drops'[f] = drops[f]
      BY <1>1, ShapesStay
    <3>2. HandShape(i, f, s)
      BY <2>13 DEF Kept, InWork
    <3>3. CASE \/ work[i].pc \in {"prepare", "document", "parts"}
               \/ work[i].pc = "register" /\ Shape(<<f, s>>) \in {"vast", "wrap", "large"}
      <4>1. row[<<f, s>>] = "none"
        BY <2>13, <3>3, InHandNoRow
      <4>2. row'[<<f, s>>] = row[<<f, s>>] /\ disk'[<<f, s>>] = disk[<<f, s>>]
        BY <1>1, <1>3, <2>5, <4>1
      <4> QED BY <2>8, <2>9, <3>1, <3>2, <4>2 DEF HandShape
    <3>4. CASE ~ \/ work[i].pc \in {"prepare", "document", "parts"}
                 \/ work[i].pc = "register" /\ Shape(<<f, s>>) \in {"vast", "wrap", "large"}
      BY <3>1, <3>4 DEF HandShape
    <3> QED BY <3>3, <3>4
  <2>14. InWork(f)' /\ Sole(f)'
    BY <1>1, <2>13 DEF Kept, InWork, Sole, Has
  <2> QED BY <2>10, <2>11, <2>12, <2>14 DEF Kept
<1> QED BY <1>6, <1>7

\* The row of a file that is gone goes.
LEMMA ShipMissingKeeps ==
    ASSUME Types, Passes, NEW n \in Name, NEW f \in Sources, Kept(f), ShipMissing(n)
    PROVE  Kept(f)'
<1>1. /\ row[n] = "pending" /\ disk[n] = 0 /\ row' = [row EXCEPT ![n] = "none"]
      /\ UNCHANGED <<scenario, drops, disk, posts, work, forgone>>
  BY DEF ShipMissing, world, history
<1>2. \A s \in Role : <<f, s>> \in Name /\ row'[<<f, s>>] \in {"none", row[<<f, s>>]}
  BY <1>1, PairIsName DEF Types, TypeOK
<1>3. \A p \in Pieces(f) : Grows(f, p)
  BY <1>1 DEF Grows
<1>4. Apart(f) => Apart(f)'
  BY <1>1, <1>3, GrowsFiles
<1>5. Original(f)'
  <2>1. row'[<<f, "src">>] # "none" => row[<<f, "src">>] # "none"
    BY <1>2 DEF Role
  <2> QED BY <1>1, <1>4, <2>1 DEF Kept, Original
<1>6. Current(f)' /\ Bytes(f)'
  BY <1>1, <1>5, RowsKeep
<1>7. ASSUME NEW i \in Ingester, NEW s \in Role, Has(i, f, s) PROVE HandShape(i, f, s)'
  <2>1. HandShape(i, f, s) /\ Shape(<<f, s>>)' = Shape(<<f, s>>)
    BY <1>1, <1>7, ShapesStay DEF Kept, InWork
  <2>2. Safe(f, "document") => Safe(f, "document")'
    <3>1. \A m : PieceOf(m)' = PieceOf(m)
      BY <1>1, ShapesStay
    <3> QED BY <1>1, <3>1 DEF Safe
  <2> QED BY <1>1, <1>2, <1>4, <2>1, <2>2 DEF HandShape, GivenUp
<1>8. InWork(f)' /\ Sole(f)'
  BY <1>1, <1>7 DEF Kept, InWork, Sole, Has
<1> QED BY <1>5, <1>6, <1>8 DEF Kept

\* A name is dropped anew only when nothing of the former drop is left.
LEMMA DropKeeps ==
    ASSUME Types, Passes, NEW g \in Sources, NEW m \in Version, Drop(g, m),
           NEW f \in Sources, Kept(f)
    PROVE  Kept(f)'
<1> DEFINE v == drops[g] + 1
<1>1. /\ \A n \in Name : n[1] = g => disk[n] = 0 /\ row[n] = "none"
      /\ drops' = [drops EXCEPT ![g] = v]
      /\ disk' = [disk EXCEPT ![<<g, "src">>] = v]
      /\ forgone \subseteq forgone'
      /\ UNCHANGED <<scenario, row, work, posts>>
  BY DEF Drop, Forgo
<1>2. v \in Nat /\ v # 0
  BY DEF Types, TypeOK, Version
<1> HIDE DEF v
<1>3. Held(f)
  BY <1>1, AllHeld
<1>4. /\ \A n \in Name : n # <<g, "src">> => disk'[n] = disk[n]
      /\ disk'[<<g, "src">>] = v /\ drops'[g] = v
  <2>1. disk \in [Name -> Version] /\ drops \in [Sources -> Version] /\ <<g, "src">> \in Name
    BY PairIsName DEF Types, TypeOK, Role
  <2> QED BY <1>1, <2>1
<1>5. CASE f # g
  <2>1. \A s \in Role : disk'[<<f, s>>] = disk[<<f, s>>]
    BY <1>4, <1>5, PairIsName
  <2>2. drops'[f] = drops[f]
    BY <1>1, <1>5 DEF Types, TypeOK
  <2>3. Calm(f)
    BY <1>1, <2>1, <2>2 DEF Calm
  <2> QED BY <1>3, <2>3, Frame
<1>6. CASE f = g
  <2>1. \A s \in Role : <<f, s>> \in Name /\ disk[<<f, s>>] = 0 /\ row[<<f, s>>] = "none"
    BY <1>1, <1>6, PairIsName
  <2>2. Current(f)'
    <3>1. \A s \in Role : disk'[<<f, s>>] \in {0, v}
      BY <1>4, <1>6, <2>1
    <3> QED BY <1>4, <1>6, <3>1 DEF Current
  <2>3. Original(f)'
    BY <1>1, <2>1 DEF Original, Role
  <2>4. Bytes(f)'
    BY <1>2, <1>4, <1>6 DEF Bytes
  <2>5. ASSUME NEW i \in Ingester, NEW s \in Role, Has(i, f, s) PROVE HandShape(i, f, s)'
    <3>1. work'[i] = work[i] /\ Shape(<<f, s>>)' = Shape(<<f, s>>)
      BY <1>1, ShapesStay
    <3>2. ~ \/ work[i].pc \in {"prepare", "document", "parts"}
            \/ work[i].pc = "register" /\ Shape(<<f, s>>) \in {"vast", "wrap", "large"}
      BY <2>1, <2>5, InHandNoRow
    <3> QED BY <3>1, <3>2 DEF HandShape
  <2>6. InWork(f)' /\ Sole(f)'
    BY <1>1, <2>5 DEF Kept, InWork, Sole, Has
  <2> QED BY <2>2, <2>3, <2>4, <2>6 DEF Kept
<1> QED BY <1>5, <1>6

\* The inductive invariant of BytesKept.
KeptInv == Types /\ Passes /\ \A f \in Sources \ contested : Kept(f)

\* Every step keeps it.
LEMMA KeptStep ==
    ASSUME KeptInv, Next
    PROVE  KeptInv'
<1>1. Types'
  BY WorkStep, WorldTypes DEF KeptInv, Types
<1>2. Passes'
  BY PassesStep DEF KeptInv
<1>3. ASSUME NEW f \in Sources, f \notin contested' PROVE Kept(f)'
  <2>1. Types /\ Passes /\ Kept(f)
    BY <1>3, HistoryGrows DEF KeptInv
  <2>2. ASSUME NEW i \in Ingester, NEW g \in Sources, StartPass(i, Folder[g]) PROVE Kept(f)'
    BY <2>1, <2>2, QuietKeeps
  <2>3. ASSUME NEW i \in Ingester,
               Skip(i) \/ Busy(i) \/ FinishReady(i) \/ FinishKept(i) \/ EndPass(i) \/ Vanished(i) \/ Die(i)
        PROVE  Kept(f)'
    BY <2>1, <2>3, QuietKeeps
  <2>4. ASSUME NEW i \in Ingester, Begin(i) PROVE Kept(f)'
    BY <1>3, <2>1, <2>4, BeginKeeps
  <2>5. ASSUME NEW i \in Ingester, Prepared(i) \/ SplitOriginal(i) \/ PrepareFails(i) \/ NoDocument(i)
        PROVE  Kept(f)'
    BY <2>1, <2>5, PreparedKeeps, SplitKeeps, PrepareFailsKeeps, NoDocumentKeeps
  <2>6. ASSUME NEW i \in Ingester, RegisterDocument(i) \/ Register(i) \/ Retire(i) PROVE Kept(f)'
    BY <2>1, <2>6, RegisterDocumentKeeps, RegisterKeeps, RetireKeeps
  <2>7. ASSUME NEW n \in Name, Ship(n) \/ ShipMissing(n) PROVE Kept(f)'
    BY <2>1, <2>7, ShipKeeps, ShipMissingKeeps
  <2>8. ASSUME NEW g \in Sources, NEW m \in Version, Drop(g, m) PROVE Kept(f)'
    BY <2>1, <2>8, DropKeeps
  <2> QED BY <2>2, <2>3, <2>4, <2>5, <2>6, <2>7, <2>8 DEF Next, Step
<1> QED BY <1>1, <1>2, <1>3 DEF KeptInv

\* It holds of an empty folder.
LEMMA KeptAtFirst ==
    ASSUME Init
    PROVE  KeptInv
<1>1. 0 \in Version
  BY DEF Version
<1>2. TypeOK
  <2>1. scenario \in Scenario /\ runs \in 0..scenario.runs /\ faults \in 0..scenario.faults
    BY DEF Init, Scenario
  <2> QED BY <1>1, <2>1 DEF Init, TypeOK, Nothing, Posting
<1>3. /\ work = [i \in Ingester |-> work[i]]
      /\ \A i \in Ingester : work[i] = Idle /\ Fields(work[i]) /\ IsPass(work[i])
  BY <1>1, IdleIs DEF Init, IsPass, PC, Nothing
<1>4. Types
  BY <1>2, <1>3 DEF Types
<1>5. Passes
  BY <1>3, IdleIs DEF Passes, PassShape
<1>6. ASSUME NEW f \in Sources PROVE Kept(f)
  <2>1. \A i \in Ingester, r \in Role : ~Has(i, f, r)
    BY <1>3, IdleIs, NobodyIsName DEF Has
  <2>2. \A r \in Role : disk[<<f, r>>] = 0 /\ row[<<f, r>>] = "none"
    BY PairIsName DEF Init, Nothing
  <2>3. drops[f] = 0
    BY DEF Init
  <2> QED BY <2>1, <2>2, <2>3 DEF Kept, Sole, Current, InWork, Original, Bytes, Role
<1> QED BY <1>4, <1>5, <1>6 DEF KeptInv

\* It is a statement about the state.
LEMMA KeptStutter ==
    ASSUME KeptInv, UNCHANGED vars
    PROVE  KeptInv'
<1>1. UNCHANGED <<scenario, drops, mtime, disk, row, memo, work, runs, posts, faults,
                  contested, died, lapsed, forgone>>
  BY DEF vars, world, history
<1>2. Types'
  <2>1. TypeOK'
    BY <1>1 DEF KeptInv, Types, TypeOK
  <2>2. \A i \in Ingester : (Fields(work[i]) /\ IsPass(work[i]))'
    BY <1>1 DEF KeptInv, Types, Fields, IsPass
  <2> QED BY <1>1, <2>1, <2>2 DEF KeptInv, Types
<1>3. Passes'
  BY <1>1, SameShape DEF KeptInv, Passes, SameHand
<1>4. ASSUME NEW f \in Sources, f \notin contested' PROVE Kept(f)'
  BY <1>1, <1>4, CalmIf, AllHeld, Frame DEF KeptInv
<1> QED BY <1>2, <1>3, <1>4 DEF KeptInv

\* ingest_folder, the dispatcher and the user keep KeptInv between them: for every
\* set of sources, every kind of drop and every policy, the files of a source that
\* no two passes had in hand at a time are those of its last drop, and the original
\* stays until the pieces made of it are safe.
THEOREM DropZoneInvariance == Spec => []KeptInv
<1>1. Init => KeptInv
  BY KeptAtFirst
<1>2. KeptInv /\ [Next]_vars => KeptInv'
  BY KeptStep, KeptStutter
<1> QED BY <1>1, <1>2, PTL DEF Spec

\* No piece of a drop is lost before it is posted, whatever fails or dies:
\* _delete_replaced_original, the clean-up after a failed prepare and the
\* dispatcher's removal of what it sent leave each piece in a file of its own or in
\* the original, until it was posted or the document was given up.
THEOREM NoDropIsLost == Spec => []BytesKept
<1>1. KeptInv => BytesKept
  <2> SUFFICES ASSUME KeptInv, NEW f \in Sources \ contested, NEW p \in Pieces(f), drops[f] # 0
               PROVE  \/ posts[<<f, p, drops[f]>>] > 0
                      \/ \E n \in OnDisk : n[1] = f /\ (n[2] = "src" \/ PieceOf(n) = p)
                      \/ p = "document" /\ <<f, p, drops[f]>> \in forgone
    BY DEF BytesKept
  <2>1. disk[<<f, "src">>] # 0 \/ Safe(f, p) \/ (p = "document" /\ GivenUp(f))
    BY DEF KeptInv, Kept, Bytes
  <2>2. \A r \in Role : disk[<<f, r>>] # 0 => <<f, r>> \in OnDisk /\ <<f, r>>[1] = f /\ <<f, r>>[2] = r
    BY PairIsName DEF OnDisk
  <2> QED BY <2>1, <2>2 DEF Safe, GivenUp, Role
<1> QED BY <1>1, DropZoneInvariance, PTL

-----------------------------------------------------------------------------
(* Nothing is posted twice *)

-----------------------------------------------------------------------------
(* Posted once *)

\* The drops of a name.
Num == 1 .. MaxDrops

\* No file and no row under these names.
Absent(f, R) == \A r \in R : disk[<<f, r>>] = 0 /\ row[<<f, r>>] = "none"

\* Of the last drop these pieces were not posted.
Unposted(f, P) == \A p \in P : posts[<<f, p, drops[f]>>] = 0

\* What prepare may be given: the dropped file, or the document cut off it.
Given == {"src", "d"}

\* Nothing has been made of <<f, r>> or posted for it.
Untouched(f, r) ==
    /\ row[<<f, r>>] = "none"
    /\ r = "src" => Absent(f, Role \ {"src"}) /\ Unposted(f, Piece)
    /\ r = "d" => Absent(f, {"do", "dt"}) /\ Unposted(f, {"extra"})

\* Some pass has the file in hand, as it lies there.
InProgress(f, r) ==
    \E i \in Ingester : /\ Has(i, f, r)
                        /\ work[i].seen = Mtime(<<f, r>>) /\ work[i].was = disk[<<f, r>>]

\* On the record, or on what a pass is going to write to it.
Recalled(f, r) ==
    \/ memo[<<f, r>>] = Mtime(<<f, r>>)
    \/ \E i \in Ingester : /\ ~Has(i, f, r) /\ "prepped" \in work[i].dirty
                           /\ work[i].blob[<<f, r>>] = Mtime(<<f, r>>)

\* A file of the user's, or its split, that prepare would do something to.
ToPrepare(f, r) == r \in Given /\ disk[<<f, r>>] # 0 /\ Shape(<<f, r>>) # "ready"

\* Postings are single, and none is of a drop yet to come.
Single(f) == \A p \in Piece, v \in Num :
    posts[<<f, p, v>>] \in {0, 1} /\ (v > drops[f] => posts[<<f, p, v>>] = 0)

\* What lies there and may yet be posted has not been.
Owed(f) == \A r \in Role :
    /\ disk[<<f, r>>] # 0 /\ row[<<f, r>>] # "sent"
    /\ r = "src" => scenario.kind[f] \in {"ready", "convert"}
    => posts[<<f, PieceOf(<<f, r>>), drops[f]>>] = 0

\* No name a clean one would have been in the way of.
Clean(f) == /\ disk[<<f, "t">>] = 0 /\ disk[<<f, "dt">>] = 0
            /\ disk[<<f, "d">>] # 0 => scenario.kind[f] = "vast"

\* A file to prepare was met before: it has a row, or a memo, or it is in hand; or
\* it was not, and then nothing was made of it and nothing posted.
Known(f) == \A r \in Role : ToPrepare(f, r) =>
    row[<<f, r>>] # "none" \/ Untouched(f, r) \/ InProgress(f, r) \/ Recalled(f, r)

\* What a pass is preparing was untouched when it began, and is.
FreshHand(i, f, r) ==
    /\ work[i].pc = "prepare" =>
          Untouched(f, r) /\ <<f, "t">> \notin work[i].outs /\ <<f, "dt">> \notin work[i].outs
    /\ work[i].pc = "document" /\ r = "src" =>
          Absent(f, {"t", "d", "do", "dt"}) /\ Unposted(f, {"document", "extra"})
    /\ work[i].pc \in {"prepare", "document"} => work[i].seen = Mtime(<<f, r>>)

\* Of every pass that has a file of the source in hand.
Fresher(f) == \A i \in Ingester, r \in Role : Has(i, f, r) => FreshHand(i, f, r)

\* What keeps the pieces of a source from being posted twice.
Once(f) == Single(f) /\ Owed(f) /\ Clean(f) /\ Known(f) /\ Fresher(f)

\* What is going on elsewhere.
Still(f) ==
    /\ scenario' = scenario /\ drops'[f] = drops[f] /\ mtime'[f] = mtime[f]
    /\ \A r \in Role : disk'[<<f, r>>] = disk[<<f, r>>] /\ row'[<<f, r>>] = row[<<f, r>>]
    /\ \A p \in Piece, v \in Num : posts'[<<f, p, v>>] = posts[<<f, p, v>>]

\* No pass takes f in hand or goes on with it, and what it saw stays.
HandsOff(f) == \A i \in Ingester, r \in Role :
    Has(i, f, r)' => SameHand(i) /\ work'[i].seen = work[i].seen

\* What was known of f is known.
Recall(f) == \A r \in Role :
    ToPrepare(f, r) /\ (InProgress(f, r) \/ Recalled(f, r)) => InProgress(f, r)' \/ Recalled(f, r)'

\* What the definitions come to, file by file.
LEMMA Now ==
    ASSUME Types, NEW f \in Sources, Kept(f), NEW r \in Role, disk[<<f, r>>] # 0
    PROVE  disk[<<f, r>>] = drops[f] /\ drops[f] \in Num
<1>1. disk[<<f, r>>] = drops[f]
  BY DEF Kept, Current
<1>2. drops[f] \in 0..MaxDrops /\ MaxDrops \in Nat
  BY DEF Types, TypeOK, Version
<1> QED BY <1>1, <1>2 DEF Num

LEMMA MtimeIs ==
    ASSUME NEW f \in Sources, NEW r \in Role
    PROVE  /\ Mtime(<<f, r>>) = IF r = "src" THEN mtime[f] ELSE disk[<<f, r>>]
           /\ Mtime(<<f, r>>)' = IF r = "src" THEN mtime'[f] ELSE disk'[<<f, r>>]
BY DEF Mtime

LEMMA PieceIsOne ==
    ASSUME NEW n
    PROVE  PieceOf(n) \in Piece
BY DEF PieceOf, Piece

LEMMA StillUntouched ==
    ASSUME NEW f \in Sources, NEW r \in Given, Still(f), Untouched(f, r), drops[f] \in Num
    PROVE  Untouched(f, r)'
<1>1. /\ r \in Role /\ {"do", "dt"} \subseteq Role /\ {"extra"} \subseteq Piece
  BY DEF Given, Role, Piece
<1>2. \A p \in Piece : posts'[<<f, p, drops'[f]>>] = posts[<<f, p, drops[f]>>]
  BY DEF Still
<1>3. \A s \in Role : disk'[<<f, s>>] = disk[<<f, s>>] /\ row'[<<f, s>>] = row[<<f, s>>]
  BY DEF Still
<1> QED BY <1>1, <1>2, <1>3 DEF Untouched, Absent, Unposted

LEMMA StillHand ==
    ASSUME NEW f \in Sources, NEW i \in Ingester, NEW r \in Role, Still(f), SameHand(i),
           work'[i].seen = work[i].seen, FreshHand(i, f, r),
           work[i].pc \in {"prepare", "document"} => drops[f] \in Num,
           work[i].pc = "prepare" => r \in Given
    PROVE  FreshHand(i, f, r)'
<1>1. Mtime(<<f, r>>)' = Mtime(<<f, r>>)
  BY MtimeIs DEF Still
<1>2. work'[i].pc = work[i].pc /\ work'[i].outs = work[i].outs
  BY DEF SameHand
<1>3. ASSUME work[i].pc = "document", r = "src"
      PROVE  (Absent(f, {"t", "d", "do", "dt"}) /\ Unposted(f, {"document", "extra"}))'
  <2>1. {"t", "d", "do", "dt"} \subseteq Role /\ {"document", "extra"} \subseteq Piece
    BY DEF Role, Piece
  <2>2. \A p \in Piece : posts'[<<f, p, drops'[f]>>] = posts[<<f, p, drops[f]>>]
    BY <1>3 DEF Still
  <2> QED BY <1>3, <2>1, <2>2 DEF FreshHand, Absent, Unposted, Still
<1>4. work[i].pc = "prepare" => Untouched(f, r)'
  BY StillUntouched DEF FreshHand
<1> QED BY <1>1, <1>2, <1>3, <1>4 DEF FreshHand

\* If the files, rows and posts of f stay, all that is left to show is what is in hand.
LEMMA OnceFiles ==
    ASSUME Types, NEW f \in Sources, Kept(f), Once(f), Still(f), Recall(f)
    PROVE  Single(f)' /\ Owed(f)' /\ Clean(f)' /\ Known(f)'
<1>1. /\ scenario' = scenario /\ drops'[f] = drops[f]
      /\ \A s \in Role : disk'[<<f, s>>] = disk[<<f, s>>] /\ row'[<<f, s>>] = row[<<f, s>>]
  BY DEF Still
<1>2. \A n : PieceOf(n)' = PieceOf(n) /\ Shape(n)' = Shape(n)
  BY <1>1, ShapesStay
<1>3. Single(f)'
  BY <1>1 DEF Once, Single, Still
<1>4. Owed(f)'
  <2> SUFFICES ASSUME NEW r \in Role, disk[<<f, r>>] # 0, row[<<f, r>>] # "sent",
                      r = "src" => scenario.kind[f] \in {"ready", "convert"}
               PROVE  posts'[<<f, PieceOf(<<f, r>>), drops[f]>>] = 0
    BY <1>1, <1>2 DEF Owed
  <2>1. posts[<<f, PieceOf(<<f, r>>), drops[f]>>] = 0
    BY DEF Once, Owed
  <2> QED BY <2>1, Now, PieceIsOne DEF Still
<1>5. Clean(f)'
  BY <1>1 DEF Once, Clean, Role
<1>6. Known(f)'
  <2> SUFFICES ASSUME NEW r \in Role, ToPrepare(f, r)'
               PROVE  (row[<<f, r>>] # "none" \/ Untouched(f, r) \/ InProgress(f, r) \/ Recalled(f, r))'
    BY DEF Known
  <2>1. ToPrepare(f, r)
    BY <1>1, <1>2 DEF ToPrepare
  <2>2. row[<<f, r>>] # "none" \/ Untouched(f, r) \/ InProgress(f, r) \/ Recalled(f, r)
    BY <2>1 DEF Once, Known
  <2>3. drops[f] \in Num /\ r \in Given
    BY <2>1, Now DEF ToPrepare
  <2> QED BY <1>1, <2>1, <2>2, <2>3, StillUntouched DEF Recall
<1> QED BY <1>3, <1>4, <1>5, <1>6

\* What is not touched stays.
LEMMA OnceFrame ==
    ASSUME Types, Passes, NEW f \in Sources, Kept(f), Once(f), Still(f), HandsOff(f), Recall(f)
    PROVE  Once(f)'
<1>1. Fresher(f)'
  <2> SUFFICES ASSUME NEW i \in Ingester, NEW r \in Role, Has(i, f, r)' PROVE FreshHand(i, f, r)'
    BY DEF Fresher
  <2>1. SameHand(i) /\ work'[i].seen = work[i].seen /\ Has(i, f, r)
    BY DEF HandsOff, Has, SameHand
  <2>2. FreshHand(i, f, r)
    BY <2>1 DEF Once, Fresher
  <2>3. ASSUME work[i].pc \in {"prepare", "document"} PROVE drops[f] \in Num
    BY <2>1, <2>3, InHandNoRow, Now
  <2>4. ASSUME work[i].pc = "prepare" PROVE r \in Given
    <3>1. Shape(<<f, r>>) # "ready"
      BY <2>1, <2>4 DEF Passes, PassShape, Has
    <3> QED BY <3>1, PreparedAre DEF Given
  <2> QED BY <2>1, <2>2, <2>3, <2>4, StillHand
<1> QED BY <1>1, OnceFiles DEF Once

\* A pass that is not on has nothing to write down.
Tidy == \A i \in Ingester : work[i].pc = "idle" => work[i].dirty = {}

\* The witnesses of InProgress and Recalled.
InProgressAt(i, f, r) == Has(i, f, r) /\ work[i].seen = Mtime(<<f, r>>) /\ work[i].was = disk[<<f, r>>]

WouldRecall(i, f, r) ==
    ~Has(i, f, r) /\ "prepped" \in work[i].dirty /\ work[i].blob[<<f, r>>] = Mtime(<<f, r>>)

\* Only what the pass that moves, or the record, knew can be forgotten.
LEMMA RecallIf ==
    ASSUME NEW f \in Sources, NEW i \in Ingester, Rest(i),
           \A r \in Role : disk'[<<f, r>>] = disk[<<f, r>>], mtime'[f] = mtime[f],
           \A r \in Role : ToPrepare(f, r) =>
              /\ memo[<<f, r>>] = Mtime(<<f, r>>) => Recalled(f, r)'
              /\ WouldRecall(i, f, r) => Recalled(f, r)'
              /\ InProgressAt(i, f, r) => InProgress(f, r)' \/ Recalled(f, r)'
    PROVE  Recall(f)
<1> SUFFICES ASSUME NEW r \in Role, ToPrepare(f, r), InProgress(f, r) \/ Recalled(f, r)
             PROVE  InProgress(f, r)' \/ Recalled(f, r)'
  BY DEF Recall
<1>1. Mtime(<<f, r>>)' = Mtime(<<f, r>>) /\ disk'[<<f, r>>] = disk[<<f, r>>]
  BY MtimeIs
<1>2. \A j \in Ingester \ {i} : work'[j] = work[j]
  BY DEF Rest
<1>3. ASSUME NEW j \in Ingester \ {i}, InProgressAt(j, f, r) PROVE InProgress(f, r)'
  BY <1>1, <1>2, <1>3 DEF InProgress, InProgressAt, Has
<1>4. ASSUME NEW j \in Ingester \ {i}, WouldRecall(j, f, r) PROVE Recalled(f, r)'
  BY <1>1, <1>2, <1>4 DEF Recalled, WouldRecall, Has
<1>5. CASE InProgress(f, r)
  BY <1>3, <1>5 DEF InProgress, InProgressAt
<1>6. CASE Recalled(f, r)
  <2>1. CASE memo[<<f, r>>] = Mtime(<<f, r>>)
    BY <2>1
  <2>2. ASSUME NEW j \in Ingester, WouldRecall(j, f, r) PROVE Recalled(f, r)'
    BY <1>4, <2>2
  <2> QED BY <1>6, <2>1, <2>2 DEF Recalled, WouldRecall
<1> QED BY <1>5, <1>6

\* When a step leaves a source alone.
LEMMA StillIf ==
    ASSUME NEW f \in Sources, UNCHANGED <<scenario, drops, mtime, disk, row, posts>>
    PROVE  Still(f)
BY DEF Still

LEMMA LetGoHandsOff ==
    ASSUME NEW f \in Sources, NEW i \in Ingester, Rest(i), work'[i].cur = NoName
    PROVE  HandsOff(f)
BY RestIsSame, NobodyIsName DEF HandsOff, Has, Rest

\* A pass that lets go with all its memory stays as good a witness as it was.
LEMMA LetsGoRecall ==
    ASSUME Types, NEW f \in Sources, NEW i \in Ingester, NEW b, NEW d, LetsGo(i, b, d),
           UNCHANGED <<mtime, memo, disk>>,
           work[i].dirty \subseteq d,
           \A r \in Role : ToPrepare(f, r) /\ ~Has(i, f, r) => b[<<f, r>>] = work[i].blob[<<f, r>>],
           \A r \in Role : ToPrepare(f, r) /\ Has(i, f, r) =>
              "prepped" \in d /\ b[<<f, r>>] = work[i].seen
    PROVE  Recall(f)
<1>1. /\ Rest(i) /\ work'[i].cur = NoName /\ work'[i].blob = b /\ work'[i].dirty = d
  BY DEF LetsGo
<1>2. \A r \in Role : ~Has(i, f, r)'
  BY <1>1, NobodyIsName DEF Has
<1>3. ASSUME NEW r \in Role, ToPrepare(f, r)
      PROVE  /\ memo[<<f, r>>] = Mtime(<<f, r>>) => Recalled(f, r)'
             /\ WouldRecall(i, f, r) => Recalled(f, r)'
             /\ InProgressAt(i, f, r) => InProgress(f, r)' \/ Recalled(f, r)'
  <2>1. Mtime(<<f, r>>)' = Mtime(<<f, r>>)
    BY MtimeIs
  <2>2. memo[<<f, r>>] = Mtime(<<f, r>>) => Recalled(f, r)'
    BY <2>1 DEF Recalled
  <2>3. WouldRecall(i, f, r) => Recalled(f, r)'
    BY <1>1, <1>2, <1>3, <2>1 DEF Recalled, WouldRecall
  <2>4. InProgressAt(i, f, r) => Recalled(f, r)'
    BY <1>1, <1>2, <1>3, <2>1 DEF Recalled, InProgressAt
  <2> QED BY <2>2, <2>3, <2>4
<1> QED BY <1>1, <1>3, RecallIf

\* The same, of a pass that goes on with nothing in hand before or after.
LEMMA WalkRecall ==
    ASSUME Types, NEW f \in Sources, NEW i \in Ingester, Rest(i),
           UNCHANGED <<mtime, memo, disk>>, work[i].cur = NoName, work'[i].cur = NoName,
           "prepped" \in work[i].dirty =>
              "prepped" \in work'[i].dirty /\ work'[i].blob = work[i].blob
    PROVE  Recall(f)
<1>1. \A r \in Role : ~Has(i, f, r) /\ ~Has(i, f, r)'
  BY NobodyIsName DEF Has
<1>2. ASSUME NEW r \in Role, ToPrepare(f, r)
      PROVE  /\ memo[<<f, r>>] = Mtime(<<f, r>>) => Recalled(f, r)'
             /\ WouldRecall(i, f, r) => Recalled(f, r)'
             /\ InProgressAt(i, f, r) => InProgress(f, r)' \/ Recalled(f, r)'
  <2>1. Mtime(<<f, r>>)' = Mtime(<<f, r>>)
    BY MtimeIs
  <2> QED BY <1>1, <2>1 DEF Recalled, WouldRecall, InProgressAt
<1> QED BY <1>2, RecallIf

\* What the file at hand is remembered by is what it was seen with.
LEMMA RemembersRecall ==
    ASSUME Types, NEW f \in Sources, NEW i \in Ingester, Remembers(i), UNCHANGED <<mtime, memo, disk>>
    PROVE  Recall(f)
<1> DEFINE b == [work[i].blob EXCEPT ![work[i].cur] = work[i].seen]
           d == work[i].dirty \cup {"prepped"}
<1>1. LetsGo(i, b, d)
  BY DEF Remembers
<1>2. ASSUME NEW r \in Role
      PROVE  b[<<f, r>>] = IF Has(i, f, r) THEN work[i].seen ELSE work[i].blob[<<f, r>>]
  <2>1. work[i].blob \in [Name -> Version] /\ <<f, r>> \in Name
    BY PairIsName DEF Types, IsPass
  <2> QED BY <2>1 DEF Has
<1>3. work[i].dirty \subseteq d /\ "prepped" \in d
  OBVIOUS
<1> HIDE DEF b, d
<1> QED BY <1>1, <1>2, <1>3, LetsGoRecall

\* A file that was posted as it is has no business in the other memo.
LEMMA FinishReadyRecall ==
    ASSUME Types, Passes, NEW f \in Sources, NEW i \in Ingester, FinishReady(i)
    PROVE  Recall(f)
<1>1. /\ work[i].pc = "register" /\ Shape(work[i].cur) = "ready" /\ UNCHANGED <<mtime, memo, disk>>
  BY DEF FinishReady, Finishing, world
<1> DEFINE entry == IF work[i].unread THEN work[i].seen ELSE 0
<1>2. PICK b, d : /\ LetsGo(i, b, d) /\ work[i].dirty \subseteq d
                  /\ b \in {work[i].blob, [work[i].blob EXCEPT ![work[i].cur] = entry]}
  <2>1. \/ LetsGo(i, work[i].blob, work[i].dirty)
        \/ LetsGo(i, [work[i].blob EXCEPT ![work[i].cur] = entry], work[i].dirty \cup {"hashfail"})
    BY FinishReadyMoves
  <2> QED BY <2>1
<1>3. ASSUME NEW r \in Role, ToPrepare(f, r)
      PROVE  ~Has(i, f, r) /\ b[<<f, r>>] = work[i].blob[<<f, r>>]
  <2>1. ~Has(i, f, r)
    BY <1>1, <1>3 DEF ToPrepare, Has
  <2>2. work[i].blob \in [Name -> Version] /\ <<f, r>> \in Name
    BY PairIsName DEF Types, IsPass
  <2>3. work[i].cur # <<f, r>>
    BY <2>1 DEF Has
  <2> QED BY <1>2, <2>1, <2>2, <2>3
<1> QED BY <1>1, <1>2, <1>3, LetsGoRecall

\* The record is overwritten with what the pass has: what that loses is in lapsed.
LEMMA EndRecall ==
    ASSUME Types, NEW f \in Sources, NEW i \in Ingester, EndPass(i), f \notin lapsed'
    PROVE  Recall(f)
<1>1. /\ work[i].pc = "walk" /\ work[i].cur = NoName /\ Rest(i) /\ work'[i].cur = NoName
      /\ UNCHANGED <<mtime, disk>>
      /\ memo' = [n \in Name |-> IF MemoOf(n) \in work[i].dirty THEN work[i].blob[n] ELSE memo[n]]
      /\ lapsed' = lapsed \cup {n[1] : n \in {m \in OnDisk : memo[m] = Mtime(m) /\ memo'[m] # memo[m]}}
  BY EndMoves, IdleIs DEF EndPass, world, Types, IsPass
<1>2. \A r \in Role : ~Has(i, f, r) /\ ~Has(i, f, r)'
  BY <1>1, NobodyIsName DEF Has
<1>3. ASSUME NEW r \in Role, ToPrepare(f, r)
      PROVE  /\ memo[<<f, r>>] = Mtime(<<f, r>>) => Recalled(f, r)'
             /\ WouldRecall(i, f, r) => Recalled(f, r)'
             /\ InProgressAt(i, f, r) => InProgress(f, r)' \/ Recalled(f, r)'
  <2>1. Mtime(<<f, r>>)' = Mtime(<<f, r>>) /\ <<f, r>> \in OnDisk /\ <<f, r>>[1] = f
    <3>1. mtime' = mtime /\ disk' = disk
      BY <1>1
    <3>2. Mtime(<<f, r>>)' = Mtime(<<f, r>>)
      BY <3>1, MtimeIs
    <3> QED BY <1>3, <3>2, PairIsName DEF ToPrepare, OnDisk
  <2>2. MemoOf(<<f, r>>) = "prepped"
    BY <1>3 DEF MemoOf, ToPrepare
  <2>3. memo'[<<f, r>>] = IF "prepped" \in work[i].dirty THEN work[i].blob[<<f, r>>] ELSE memo[<<f, r>>]
    BY <1>1, <2>2, PairIsName
  <2>4. memo[<<f, r>>] = Mtime(<<f, r>>) => memo'[<<f, r>>] = memo[<<f, r>>]
    BY <1>1, <2>1
  <2> QED BY <1>2, <2>1, <2>3, <2>4 DEF Recalled, WouldRecall, InProgressAt
<1> QED BY <1>1, <1>3, RecallIf

\* A pass that dies takes what it knew with it: what nobody else knows is in lapsed.
LEMMA LostRecall ==
    ASSUME Types, NEW f \in Sources, NEW i \in Ingester, PassIsLost(i), f \notin lapsed', f \notin died',
           HalfSaved(i) \/ UNCHANGED memo
    PROVE  Recall(f)
<1>1. /\ Rest(i) /\ work'[i].cur = NoName /\ UNCHANGED <<mtime, disk>>
      /\ died' = died \cup InHand(i)
      /\ \A m \in OnDisk : work[i].blob[m] = Mtime(m) /\ memo'[m] # Mtime(m) => m[1] \in lapsed'
  BY EndMoves, IdleIs DEF PassIsLost, world
<1>2. \A r \in Role : ~Has(i, f, r) /\ ~Has(i, f, r)'
  BY <1>1, NobodyIsName, InHandIs DEF Has
<1>3. ASSUME NEW r \in Role, ToPrepare(f, r)
      PROVE  /\ memo[<<f, r>>] = Mtime(<<f, r>>) => Recalled(f, r)'
             /\ WouldRecall(i, f, r) => Recalled(f, r)'
             /\ InProgressAt(i, f, r) => InProgress(f, r)' \/ Recalled(f, r)'
  <2>1. Mtime(<<f, r>>)' = Mtime(<<f, r>>) /\ <<f, r>> \in OnDisk /\ <<f, r>>[1] = f
    <3>1. mtime' = mtime /\ disk' = disk
      BY <1>1
    <3>2. Mtime(<<f, r>>)' = Mtime(<<f, r>>)
      BY <3>1, MtimeIs
    <3> QED BY <1>3, <3>2, PairIsName DEF ToPrepare, OnDisk
  <2>3. memo'[<<f, r>>] = memo[<<f, r>>]
    <3>1. MemoOf(<<f, r>>) # "hashfail" /\ <<f, r>> \in Name
      BY <1>3, PairIsName DEF MemoOf, ToPrepare
    <3> QED BY <3>1 DEF HalfSaved
  <2>2. WouldRecall(i, f, r) => memo[<<f, r>>] = Mtime(<<f, r>>)
    BY <1>1, <2>1, <2>3 DEF WouldRecall
  <2> QED BY <2>3, <1>1, <1>2, <2>1, <2>2 DEF Recalled, InProgressAt
<1> QED BY <1>1, <1>3, RecallIf

\* The sources PostedOnce excepts.
Flawed == contested \cup died \cup lapsed

\* Steps that touch no file and no row, and take nothing in hand.
LEMMA QuietOnce ==
    ASSUME Types, Passes, Tidy, NEW i \in Ingester, NEW f \in Sources, f \notin Flawed', Kept(f), Once(f),
           \/ \E g \in Sources : StartPass(i, Folder[g])
           \/ Skip(i) \/ Busy(i) \/ FinishReady(i) \/ FinishKept(i)
           \/ EndPass(i) \/ Vanished(i) \/ Die(i)
    PROVE  Once(f)'
<1>1. ASSUME NEW g \in Sources, StartPass(i, Folder[g]) PROVE Still(f) /\ HandsOff(f) /\ Recall(f)
  <2>1. UNCHANGED <<scenario, drops, mtime, disk, row, posts, memo>>
    BY <1>1 DEF StartPass, world
  <2>2. /\ Rest(i) /\ work'[i].cur = NoName /\ work[i].cur = NoName /\ work[i].dirty = {}
    BY <1>1, StartMoves DEF Tidy, Types, IsPass
  <2> QED BY <2>1, <2>2, StillIf, LetGoHandsOff, WalkRecall
<1>2. ASSUME Skip(i) \/ Busy(i) PROVE Still(f) /\ HandsOff(f) /\ Recall(f)
  <2>1. UNCHANGED <<scenario, drops, mtime, disk, row, posts, memo>>
    BY <1>2 DEF Skip, Busy, world
  <2>2. /\ Rest(i) /\ work'[i].cur = NoName /\ work[i].cur = NoName
        /\ work'[i].dirty = work[i].dirty /\ work'[i].blob = work[i].blob
    BY <1>2, SkipMoves DEF Types, IsPass
  <2> QED BY <2>1, <2>2, StillIf, LetGoHandsOff, WalkRecall
<1>3. ASSUME FinishReady(i) \/ FinishKept(i) PROVE Still(f) /\ HandsOff(f) /\ Recall(f)
  <2>1. UNCHANGED <<scenario, drops, mtime, disk, row, posts, memo>>
    BY <1>3 DEF FinishReady, FinishKept, world
  <2>2. Rest(i) /\ work'[i].cur = NoName
    BY <1>3, FinishReadyMoves, FinishKeptMoves DEF LetsGo, Remembers
  <2>3. Recall(f)
    BY <1>3, <2>1, FinishReadyRecall, FinishKeptMoves, RemembersRecall
  <2> QED BY <2>1, <2>2, <2>3, StillIf, LetGoHandsOff
<1>4. ASSUME EndPass(i) PROVE Still(f) /\ HandsOff(f) /\ Recall(f)
  <2>1. UNCHANGED <<scenario, drops, mtime, disk, row, posts>>
    BY <1>4 DEF EndPass, world
  <2>2. Rest(i) /\ work'[i].cur = NoName
    BY <1>4, EndMoves, IdleIs
  <2> QED BY <1>4, <2>1, <2>2, StillIf, LetGoHandsOff, EndRecall DEF Flawed
<1>5. ASSUME Vanished(i) \/ Die(i) PROVE Still(f) /\ HandsOff(f) /\ Recall(f)
  <2>1. /\ PassIsLost(i) /\ UNCHANGED <<scenario, drops, mtime, disk, row, posts>>
        /\ HalfSaved(i) \/ UNCHANGED memo
    BY <1>5 DEF Vanished, Die, PassIsLost, world
  <2>2. Rest(i) /\ work'[i].cur = NoName
    BY <2>1, EndMoves, IdleIs
  <2> QED BY <2>1, <2>2, StillIf, LetGoHandsOff, LostRecall DEF Flawed
<1> QED BY <1>1, <1>2, <1>3, <1>4, <1>5, OnceFrame

\* No pass learns or forgets anything of the file.
SameMemory(f, r) == \A j \in Ingester :
    /\ Has(j, f, r)' <=> Has(j, f, r)
    /\ Has(j, f, r) => work'[j].seen = work[j].seen /\ work'[j].was = work[j].was
    /\ work'[j].dirty = work[j].dirty /\ work'[j].blob[<<f, r>>] = work[j].blob[<<f, r>>]

\* What no pass forgets is still recalled.
LEMMA RecallOne ==
    ASSUME NEW f \in Sources, NEW r \in Role, disk'[<<f, r>>] = disk[<<f, r>>], mtime'[f] = mtime[f],
           memo'[<<f, r>>] = memo[<<f, r>>], SameMemory(f, r)
    PROVE  /\ InProgress(f, r) => InProgress(f, r)'
           /\ Recalled(f, r) => Recalled(f, r)'
<1>1. Mtime(<<f, r>>)' = Mtime(<<f, r>>)
  BY MtimeIs
<1>2. InProgress(f, r) => InProgress(f, r)'
  BY <1>1 DEF InProgress, SameMemory
<1>3. Recalled(f, r) => Recalled(f, r)'
  BY <1>1 DEF Recalled, SameMemory
<1> QED BY <1>2, <1>3

LEMMA RecallAll ==
    ASSUME NEW f \in Sources, Still(f),
           \A r \in Role : memo'[<<f, r>>] = memo[<<f, r>>] /\ SameMemory(f, r)
    PROVE  Recall(f)
BY RecallOne DEF Recall, Still

\* New files of g: what is known of f is as good as it was.
LEMMA AnewOutside ==
    ASSUME Types, NEW i \in Ingester, NEW S, NEW v, NEW w, Fields(w), MadeAnew(i, S, v, w),
           NEW f \in Sources, NEW g \in Sources, NEW r \in Role, f # g, Has(i, g, r),
           S \subseteq {<<g, s>> : s \in Role}, w.cur = work[i].cur, w.dirty = work[i].dirty,
           w.blob = work[i].blob, UNCHANGED <<scenario, drops, mtime, row, posts>>
    PROVE  Still(f) /\ HandsOff(f) /\ Recall(f)
<1>1. /\ work'[i].cur = work[i].cur /\ work'[i].dirty = work[i].dirty
      /\ work'[i].blob = Fresh(work[i].blob, S)
      /\ \A j \in Ingester \ {i} :
            /\ SameHand(j) /\ work'[j].blob = Fresh(work[j].blob, S)
            /\ work'[j].seen = IF work[j].cur \in S THEN 0 ELSE work[j].seen
      /\ disk' = [n \in Name |-> IF n \in S THEN v ELSE disk[n]]
      /\ memo' = Fresh(memo, S)
  BY AnewMoves
<1>2. \A s \in Role : <<f, s>> \in Name /\ <<f, s>> \notin S
  BY PairIsName
<1>3. Still(f)
  BY <1>1, <1>2 DEF Still
<1>4. \A s \in Role : ~Has(i, f, s) /\ ~Has(i, f, s)'
  BY <1>1 DEF Has
<1>5. \A j \in Ingester \ {i}, s \in Role : Has(j, f, s) => work'[j].seen = work[j].seen
  BY <1>1, <1>2 DEF Has
<1>6. HandsOff(f)
  BY <1>1, <1>4, <1>5 DEF HandsOff, Has, SameHand
<1>7. \A s \in Role : memo'[<<f, s>>] = memo[<<f, s>>]
  BY <1>1, <1>2 DEF Fresh
<1>8. \A j \in Ingester, s \in Role : work'[j].blob[<<f, s>>] = work[j].blob[<<f, s>>]
  <2>1. \A b : \A s \in Role : Fresh(b, S)[<<f, s>>] = b[<<f, s>>]
    BY <1>2 DEF Fresh
  <2>2. \A j \in Ingester : work'[j].blob = Fresh(work[j].blob, S)
    BY <1>1
  <2> QED BY <2>1, <2>2
<1>9. \A s \in Role : SameMemory(f, s)
  BY <1>1, <1>4, <1>5, <1>8 DEF SameMemory, SameHand, Has
<1> QED BY <1>3, <1>6, <1>7, <1>9, RecallAll

\* A pass goes on, or lets go, with a file of g.
LEMMA OtherHand ==
    ASSUME NEW i \in Ingester, NEW f \in Sources, Still(f), memo' = memo, Rest(i),
           \A s \in Role : ~Has(i, f, s) /\ ~Has(i, f, s)',
           work'[i].dirty = work[i].dirty,
           \A s \in Role : work'[i].blob[<<f, s>>] = work[i].blob[<<f, s>>]
    PROVE  HandsOff(f) /\ Recall(f)
<1>1. \A j \in Ingester \ {i} : work'[j] = work[j]
  BY DEF Rest
<1>2. HandsOff(f)
  BY <1>1 DEF HandsOff, SameHand
<1>3. \A s \in Role : SameMemory(f, s)
  BY <1>1 DEF SameMemory, Has
<1> QED BY <1>2, <1>3, RecallAll

\* The pass that had f in hand lets go of it, or goes on to give it a row.
LEMMA NoFreshHand ==
    ASSUME NEW f \in Sources, NEW i \in Ingester, NEW r \in Role, Sole(f), Has(i, f, r),
           \A j \in Ingester \ {i} : SameHand(j),
           work'[i].pc \notin {"prepare", "document"} \/ work'[i].cur = NoName
    PROVE  Fresher(f)'
<1>1. \A j \in Ingester \ {i}, s \in Role : ~Has(j, f, s)'
  BY DEF Sole, Has, SameHand
<1>2. ASSUME NEW s \in Role, Has(i, f, s)' PROVE FreshHand(i, f, s)'
  BY <1>2, NobodyIsName DEF Has, FreshHand
<1> QED BY <1>1, <1>2 DEF Fresher

\* Taken in hand, a file is known to nobody: it was not prepared before.
LEMMA BeginOnce ==
    ASSUME Types, Passes, NEW i \in Ingester, NEW f \in Sources, f \notin Flawed', Kept(f), Once(f), Begin(i)
    PROVE  Once(f)'
<1>1. PICK n \in Name :
         /\ ~Skips(i, n) /\ work[i].pc = "walk" /\ Rest(i)
         /\ work'[i].pc = (IF Shape(n) = "ready" THEN "register" ELSE "prepare")
         /\ work'[i].cur = n /\ work'[i].seen = Mtime(n) /\ work'[i].was = disk[n]
         /\ work'[i].outs = Outputs(n)
         /\ work'[i].blob = work[i].blob /\ work'[i].dirty = work[i].dirty
         /\ contested' = contested \cup {g \in {n[1]} : \E j \in Ingester \ {i} : g \in InHand(j)}
         /\ lapsed' = lapsed \cup {g \in {n[1]} :
                    Mtime(n) \in {memo[n]} \cup {work[j].blob[n] : j \in Ingester}}
  BY BeginMoves
<1>2. PICK g \in Sources, r \in Role : n = <<g, r>>
  BY DEF Name
<1>3. UNCHANGED <<scenario, drops, mtime, disk, row, posts, memo>>
  BY DEF Begin, world
<1>4. Still(f)
  BY <1>3, StillIf
<1>5. work[i].cur = NoName /\ \A s \in Role : ~Has(i, f, s)
  <2>1. work[i].pc = "walk"
    BY <1>1
  <2>2. work[i].cur = NoName
    BY <2>1 DEF Types, IsPass
  <2> QED BY <2>2, NobodyIsName DEF Has
<1>6. CASE f # g
  <2>1. \A s \in Role : ~Has(i, f, s)'
    BY <1>1, <1>2, <1>6 DEF Has
  <2>2. HandsOff(f) /\ Recall(f)
    BY <1>1, <1>3, <1>4, <1>5, <2>1, OtherHand
  <2> QED BY <1>4, <2>2, OnceFrame
<1>7. CASE f = g
  <2>1. n[1] = f
    BY <1>2, <1>7
  <2>2. \A j \in Ingester, s \in Role : ~Has(j, f, s)
    BY <1>1, <1>5, <2>1, InHandIs DEF Flawed
  <2>3. \A j \in Ingester \ {i}, s \in Role : ~Has(j, f, s)'
    BY <1>1, <2>2 DEF Has, Rest
  <2>4. Mtime(n) # memo[n] /\ \A j \in Ingester : Mtime(n) # work[j].blob[n]
    BY <1>1, <2>1 DEF Flawed
  <2>5. ~Recalled(f, r) /\ ~InProgress(f, r)
    BY <1>2, <1>7, <2>2, <2>4 DEF Recalled, InProgress
  <2>6. disk[<<f, r>>] # 0 /\ row[<<f, r>>] = "none"
    BY <1>1, <1>2, <1>7 DEF Skips
  <2>7. \A s \in Role : ~InProgress(f, s)
    BY <2>2 DEF InProgress
  <2>8. ASSUME NEW s \in Role, ToPrepare(f, s), Recalled(f, s) PROVE Recalled(f, s)'
    <3>1. s # r
      BY <2>5, <2>8
    <3>2. ~Has(i, f, s)'
      BY <1>1, <1>2, <3>1 DEF Has
    <3>3. \A j \in Ingester \ {i} : work'[j] = work[j]
      BY <1>1 DEF Rest
    <3>4. SameMemory(f, s)
      BY <1>1, <2>2, <2>3, <3>2, <3>3 DEF SameMemory
    <3> QED BY <1>3, <2>8, <3>4, RecallOne
  <2>9. Recall(f)
    BY <2>7, <2>8 DEF Recall
  <2>10. Single(f)' /\ Owed(f)' /\ Clean(f)' /\ Known(f)'
    BY <1>4, <2>9, OnceFiles
  <2>11. FreshHand(i, f, r)'
    <3>1. CASE Shape(n) = "ready"
      BY <1>1, <3>1 DEF FreshHand
    <3>2. CASE Shape(n) # "ready"
      <4>1. r \in Given /\ ToPrepare(f, r)
        BY <1>2, <1>7, <2>6, <3>2, PreparedAre DEF Given, ToPrepare
      <4>2. Untouched(f, r)
        BY <2>5, <2>6, <4>1 DEF Once, Known
      <4>3. Untouched(f, r)'
        BY <1>4, <2>6, <4>1, <4>2, Now, StillUntouched
      <4>4. <<f, "t">> \notin Outputs(n) /\ <<f, "dt">> \notin Outputs(n)
        <5>1. n[1] = f /\ n[2] = r
          BY <1>2, <1>7
        <5>2. r = "src" => disk[<<f, "o1">>] = 0
          BY <4>2 DEF Untouched, Absent, Role
        <5>3. r = "d" => disk[<<f, "do">>] = 0
          BY <4>2 DEF Untouched, Absent
        <5>4. r \in {"src", "d"}
          BY <4>1 DEF Given
        <5> QED BY <3>2, <5>1, <5>2, <5>3, <5>4 DEF Outputs
      <4>5. Mtime(n)' = Mtime(n)
        BY <1>2, <1>3, MtimeIs
      <4> QED BY <1>1, <1>2, <1>7, <3>2, <4>3, <4>4, <4>5 DEF FreshHand
    <3> QED BY <3>1, <3>2
  <2>12. \A s \in Role : Has(i, f, s)' => s = r
    BY <1>1, <1>2 DEF Has
  <2>13. Fresher(f)'
    BY <2>3, <2>11, <2>12 DEF Fresher
  <2> QED BY <2>10, <2>13 DEF Once
<1> QED BY <1>6, <1>7

\* The names prepare writes to when nothing was there.
LEMMA CleanOuts ==
    ASSUME NEW f \in Sources, NEW r \in Role, Shape(<<f, r>>) # "ready", NEW S \in Makes(<<f, r>>),
           <<f, "t">> \notin S, <<f, "dt">> \notin S
    PROVE  /\ r \in Given
           /\ r = "src" => S \subseteq {<<f, "o1">>, <<f, "o2">>}
           /\ r = "d" => S = {<<f, "do">>}
<1>1. r \in {"src", "d"} /\ (r = "d" => Shape(<<f, r>>) = "convert")
  BY PreparedAre
<1>2. <<f, r>>[1] = f /\ <<f, r>>[2] = r
  OBVIOUS
<1>3. CASE r = "d"
  <2>1. S \in {{<<f, "do">>}, {<<f, "dt">>}}
    BY <1>1, <1>2, <1>3 DEF Makes
  <2> QED BY <1>3, <2>1 DEF Given
<1>4. CASE r = "src"
  <2>1. S \in {{<<f, "o1">>, <<f, "o2">>}, {<<f, "o1">>}, {<<f, "t">>}}
    BY <1>2, <1>4 DEF Makes
  <2> QED BY <1>4, <2>1 DEF Given
<1> QED BY <1>1, <1>3, <1>4

\* While the document cut off it lies there, an original is only known by being recalled.
LEMMA CutIsRecalled ==
    ASSUME Types, NEW f \in Sources, Kept(f), Once(f), ToPrepare(f, "src"), disk[<<f, "d">>] # 0,
           \A i \in Ingester : ~Has(i, f, "src")
    PROVE  Recalled(f, "src")
<1>1. "src" \in Role /\ "d" \in Role /\ "d" # "src"
  BY DEF Role
<1>2. row[<<f, "src">>] = "none"
  BY DEF Once, Clean, Kept, Original
<1>3. ~Untouched(f, "src")
  BY <1>1 DEF Untouched, Absent
<1>4. ~InProgress(f, "src")
  BY DEF InProgress
<1> QED BY <1>1, <1>2, <1>3, <1>4 DEF Once, Known

\* prepare is done: what is on the disk now is new, and its original is in hand.
LEMMA PreparedOnce ==
    ASSUME Types, Passes, NEW i \in Ingester, NEW f \in Sources, Kept(f), Once(f), Prepared(i)
    PROVE  Once(f)'
<1> DEFINE S == work[i].outs
<1>1. PICK w : /\ MadeAnew(i, S, work[i].was, w) /\ Fields(w)
               /\ w.pc = (IF work[i].keep THEN "document" ELSE "register")
               /\ w.cur = work[i].cur /\ w.seen = work[i].seen /\ w.was = work[i].was
               /\ w.outs = work[i].outs /\ w.dirty = work[i].dirty /\ w.blob = work[i].blob
  BY PreparedMoves
<1>2. /\ work'[i].pc = w.pc /\ work'[i].cur = work[i].cur /\ work'[i].was = work[i].was
      /\ work'[i].seen = work[i].seen /\ work'[i].dirty = work[i].dirty
      /\ work'[i].blob = Fresh(work[i].blob, S)
      /\ \A j \in Ingester \ {i} : SameHand(j) /\ work'[j].blob = Fresh(work[j].blob, S)
      /\ disk' = [n \in Name |-> IF n \in S THEN work[i].was ELSE disk[n]]
      /\ memo' = Fresh(memo, S)
  BY <1>1, AnewMoves
<1>3. work[i].pc = "prepare" /\ UNCHANGED <<scenario, drops, mtime, row, posts>>
  BY DEF Prepared, world
<1>4. PICK g \in Sources, r \in Role :
         Has(i, g, r) /\ work[i].cur[1] = g /\ work[i].was # 0 /\ work[i].was \in Version
  BY <1>3, HandIs
<1>5. Shape(<<g, r>>) # "ready" /\ S \in Makes(<<g, r>>)
  BY <1>3, <1>4 DEF Passes, PassShape, Has
<1>6. S \subseteq {<<g, s>> : s \in Role \ {"src", "d"}}
  BY <1>5, PreparedAre
<1>7. CASE f # g
  <2>1. S \subseteq {<<g, s>> : s \in Role}
    BY <1>6
  <2>2. Still(f) /\ HandsOff(f) /\ Recall(f)
    BY <1>1, <1>3, <1>4, <1>7, <2>1, AnewOutside
  <2> QED BY <2>2, OnceFrame
<1>8. CASE f = g
  <2>1. FreshHand(i, f, r) /\ HandShape(i, f, r)
    BY <1>4, <1>8 DEF Once, Fresher, Kept, InWork
  <2>2. /\ Untouched(f, r) /\ <<f, "t">> \notin S /\ <<f, "dt">> \notin S
        /\ work[i].seen = Mtime(<<f, r>>)
        /\ disk[<<f, r>>] = work[i].was /\ row[<<f, r>>] = "none"
    BY <1>3, <2>1 DEF FreshHand, HandShape
  <2>3. disk[<<f, r>>] # 0 /\ work[i].was = drops[f] /\ drops[f] \in Num
    BY <1>4, <2>2, Now
  <2>4. r \in Given /\ (r = "src" => S \subseteq {<<f, "o1">>, <<f, "o2">>}) /\ (r = "d" => S = {<<f, "do">>})
    BY <1>5, <1>8, <2>2, CleanOuts
  <2>5. \A s \in Role : <<f, s>> \in Name /\ <<f, s>>[1] = f /\ <<f, s>>[2] = s
    BY PairIsName
  <2>6. \A s \in Role : disk'[<<f, s>>] = IF <<f, s>> \in S THEN drops[f] ELSE disk[<<f, s>>]
    BY <1>2, <2>3, <2>5
  <2>7. Single(f)'
    BY <1>3 DEF Once, Single
  <2>8. \A n : PieceOf(n)' = PieceOf(n) /\ Shape(n)' = Shape(n)
    BY <1>3, ShapesStay
  <2>9. Owed(f)'
    <3> SUFFICES ASSUME NEW s \in Role, disk'[<<f, s>>] # 0, row[<<f, s>>] # "sent",
                        s = "src" => scenario.kind[f] \in {"ready", "convert"}
                 PROVE  posts[<<f, PieceOf(<<f, s>>), drops[f]>>] = 0
      BY <1>3, <2>8 DEF Owed
    <3>1. CASE <<f, s>> \notin S
      BY <2>6, <3>1 DEF Once, Owed
    <3>2. CASE <<f, s>> \in S /\ r = "src"
      BY <2>2, <3>2, PieceIsOne DEF Untouched, Unposted
    <3>3. CASE <<f, s>> \in S /\ r = "d"
      <4>1. PieceOf(<<f, s>>) = "extra"
        BY <2>4, <3>3, PieceNames
      <4> QED BY <2>2, <3>3, <4>1 DEF Untouched, Unposted
    <3> QED BY <2>4, <3>1, <3>2, <3>3 DEF Given
  <2>10. \A s \in {"t", "d", "dt", "src"} : <<f, s>> \notin S
    BY <2>4 DEF Given
  <2>11. Clean(f)'
    <3>1. \A s \in {"t", "d", "dt", "src"} : disk'[<<f, s>>] = disk[<<f, s>>]
      BY <2>6, <2>10 DEF Role
    <3> QED BY <1>3, <3>1 DEF Once, Clean
  <2>12. ASSUME NEW s \in Role, ToPrepare(f, s)' PROVE InProgress(f, s)' \/ Recalled(f, s)'
    <3>1. s \in Given /\ <<f, s>> \notin S /\ disk'[<<f, s>>] = disk[<<f, s>>] /\ disk[<<f, s>>] # 0
      BY <2>6, <2>10, <2>12 DEF ToPrepare, Given
    <3>2. ToPrepare(f, s)
      BY <2>8, <2>12, <3>1 DEF ToPrepare
    <3>3. Mtime(<<f, s>>)' = Mtime(<<f, s>>)
      BY <1>3, <3>1, MtimeIs
    <3>4. CASE s = r
      BY <1>2, <1>4, <1>8, <2>2, <3>1, <3>3, <3>4 DEF InProgress, Has
    <3>5. CASE s # r
      <4>1. s = "src" /\ r = "d"
        BY <2>2, <2>4, <3>1, <3>5 DEF Given, Untouched, Absent, Role
      <4>2. \A j \in Ingester : ~Has(j, f, "src")
        BY <1>4, <1>8, <4>1 DEF Kept, Sole, Has, Role
      <4>3. Recalled(f, s)
        BY <2>3, <3>2, <4>1, <4>2, CutIsRecalled
      <4>4. /\ memo'[<<f, s>>] = memo[<<f, s>>]
            /\ \A j \in Ingester : work'[j].blob[<<f, s>>] = work[j].blob[<<f, s>>]
        <5>1. \A b : Fresh(b, S)[<<f, s>>] = b[<<f, s>>]
          BY <2>5, <3>1 DEF Fresh
        <5>2. \A j \in Ingester : work'[j].blob = Fresh(work[j].blob, S)
          BY <1>2
        <5> QED BY <1>2, <5>1, <5>2
      <4>5. SameMemory(f, s)
        BY <1>2, <4>1, <4>2, <4>4 DEF SameMemory, SameHand, Has
      <4> QED BY <1>3, <3>1, <4>3, <4>4, <4>5, RecallOne
    <3> QED BY <3>4, <3>5
  <2>13. Known(f)'
    BY <2>12 DEF Known
  <2>14. FreshHand(i, f, r)'
    <3>1. work'[i].pc \in {"document", "register"}
      BY <1>1, <1>2
    <3>2. Mtime(<<f, r>>)' = Mtime(<<f, r>>)
      <4>1. disk'[<<f, r>>] = disk[<<f, r>>]
        BY <2>4, <2>6, <2>10 DEF Given
      <4> QED BY <1>3, <4>1, MtimeIs
    <3>3. r = "src" => (Absent(f, {"t", "d", "do", "dt"}) /\ Unposted(f, {"document", "extra"}))'
      <4>1. SUFFICES ASSUME r = "src"
                     PROVE  (Absent(f, {"t", "d", "do", "dt"}) /\ Unposted(f, {"document", "extra"}))'
        OBVIOUS
      <4>2. Absent(f, Role \ {"src"}) /\ Unposted(f, Piece)
        BY <2>2, <4>1 DEF Untouched
      <4>3. \A s \in {"t", "d", "do", "dt"} : s \in Role \ {"src"} /\ disk'[<<f, s>>] = disk[<<f, s>>]
        BY <2>4, <2>6, <4>1 DEF Role
      <4>4. {"document", "extra"} \subseteq Piece
        BY DEF Piece
      <4> QED BY <1>3, <4>2, <4>3, <4>4 DEF Absent, Unposted
    <3> QED BY <1>2, <2>2, <3>1, <3>2, <3>3 DEF FreshHand
  <2>15. Fresher(f)'
    <3>1. \A j \in Ingester \ {i}, s \in Role : ~Has(j, f, s)'
      BY <1>2, <1>4, <1>8 DEF Kept, Sole, Has, SameHand
    <3>2. \A s \in Role : Has(i, f, s)' => s = r
      BY <1>2, <1>4 DEF Has
    <3> QED BY <2>14, <3>1, <3>2 DEF Fresher
  <2> QED BY <2>7, <2>9, <2>11, <2>13, <2>15 DEF Once
<1> QED BY <1>7, <1>8

\* A failed preparation is remembered, and takes nothing but its own outputs away.
LEMMA PrepareFailsOnce ==
    ASSUME Types, Passes, NEW i \in Ingester, NEW f \in Sources, Kept(f), Once(f), PrepareFails(i)
    PROVE  Once(f)'
<1> DEFINE S == work[i].outs
           b == [work[i].blob EXCEPT ![work[i].cur] = work[i].seen]
           d == work[i].dirty \cup {"prepped"}
<1>1. /\ Rest(i) /\ work'[i].cur = NoName /\ work'[i].blob = b /\ work'[i].dirty = d
  BY PrepareFailsMoves DEF Remembers, LetsGo
<1>2. /\ work[i].pc = "prepare" /\ UNCHANGED <<scenario, drops, mtime, row, memo, posts>>
      /\ disk' = [n \in Name |-> IF n \in S THEN 0 ELSE disk[n]]
  BY DEF PrepareFails, world
<1>3. PICK g \in Sources, r \in Role : Has(i, g, r)
  BY <1>2, HandIs
<1>4. Shape(<<g, r>>) # "ready" /\ S \in Makes(<<g, r>>)
  BY <1>2, <1>3 DEF Passes, PassShape, Has
<1>5. S \subseteq {<<g, s>> : s \in Role \ {"src", "d"}} /\ r \in Given
  BY <1>4, PreparedAre DEF Given
<1>6. \A s \in Role : <<f, s>> \in Name /\ <<f, s>>[1] = f /\ <<f, s>>[2] = s
  BY PairIsName
<1>7. \A s \in Role : disk'[<<f, s>>] = IF <<f, s>> \in S THEN 0 ELSE disk[<<f, s>>]
  BY <1>2, <1>6
<1>8. \A s \in Role : ~Has(i, f, s)'
  BY <1>1, NobodyIsName DEF Has
<1>9. \A s \in Role : ~Has(i, f, s) => work'[i].blob[<<f, s>>] = work[i].blob[<<f, s>>]
  <2>1. work[i].blob \in [Name -> Version]
    BY DEF Types, IsPass
  <2> QED BY <1>1, <1>6, <2>1 DEF Has
<1>10. ASSUME NEW s \in Role, s \in Given, \A j \in Ingester : ~Has(j, f, s), Recalled(f, s)
       PROVE  Recalled(f, s)'
  <2>1. disk'[<<f, s>>] = disk[<<f, s>>]
    BY <1>5, <1>7, <1>10 DEF Given
  <2>2. Mtime(<<f, s>>)' = Mtime(<<f, s>>)
    BY <1>2, <2>1, MtimeIs
  <2>3. \A j \in Ingester \ {i} : work'[j] = work[j]
    BY <1>1 DEF Rest
  <2> HIDE DEF b
  <2> QED BY <1>1, <1>2, <1>8, <1>9, <1>10, <2>2, <2>3 DEF Recalled, Has
<1>11. CASE f # g
  <2>1. \A s \in Role : ~Has(i, f, s)
    BY <1>3, <1>11 DEF Has
  <2>2. Still(f)
    <3>1. \A s \in Role : disk'[<<f, s>>] = disk[<<f, s>>]
      BY <1>5, <1>7, <1>11
    <3> QED BY <1>2, <3>1 DEF Still
  <2>3. HandsOff(f)
    BY <1>1, LetGoHandsOff
  <2>4. Recall(f)
    <3> SUFFICES ASSUME NEW s \in Role, ToPrepare(f, s), InProgress(f, s) \/ Recalled(f, s)
                 PROVE  InProgress(f, s)' \/ Recalled(f, s)'
      BY DEF Recall
    <3>1. Mtime(<<f, s>>)' = Mtime(<<f, s>>)
      BY <2>2, MtimeIs DEF Still
    <3>2. \A j \in Ingester \ {i} : work'[j] = work[j]
      BY <1>1 DEF Rest
    <3>3. InProgress(f, s) => InProgress(f, s)'
      BY <2>1, <2>2, <3>1, <3>2 DEF InProgress, Has, Still
    <3>4. work'[i].blob[<<f, s>>] = work[i].blob[<<f, s>>] /\ work[i].dirty \subseteq work'[i].dirty
      BY <1>1, <1>9, <2>1
    <3>5. Recalled(f, s) => Recalled(f, s)'
      BY <1>2, <1>8, <3>1, <3>2, <3>4 DEF Recalled, Has
    <3> QED BY <3>3, <3>5
  <2> QED BY <2>2, <2>3, <2>4, OnceFrame
<1>12. CASE f = g
  <2>1. FreshHand(i, f, r) /\ HandShape(i, f, r)
    BY <1>3, <1>12 DEF Once, Fresher, Kept, InWork
  <2>2. Untouched(f, r) /\ work[i].seen = Mtime(<<f, r>>)
    BY <1>2, <2>1 DEF FreshHand
  <2>3. \A n : PieceOf(n)' = PieceOf(n) /\ Shape(n)' = Shape(n)
    BY <1>2, ShapesStay
  <2>4. Single(f)'
    BY <1>2 DEF Once, Single
  <2>5. Owed(f)'
    BY <1>2, <1>7, <2>3 DEF Once, Owed
  <2>6. Clean(f)'
    BY <1>2, <1>7 DEF Once, Clean, Role
  <2>7. ASSUME NEW s \in Role, ToPrepare(f, s)' PROVE Recalled(f, s)'
    <3>1. s \in Given /\ <<f, s>> \notin S /\ disk'[<<f, s>>] = disk[<<f, s>>] /\ disk[<<f, s>>] # 0
      BY <1>5, <1>7, <2>7 DEF ToPrepare, Given
    <3>2. ToPrepare(f, s)
      BY <2>3, <2>7, <3>1 DEF ToPrepare
    <3>3. CASE s = r
      <4>1. Mtime(<<f, s>>)' = Mtime(<<f, s>>)
        BY <1>2, <3>1, MtimeIs
      <4>2. work'[i].blob[<<f, s>>] = work[i].seen
        <5>1. work[i].blob \in [Name -> Version] /\ work[i].cur = <<f, s>>
          BY <1>3, <1>12, <3>3 DEF Types, IsPass, Has
        <5> QED BY <1>1, <1>6, <5>1
      <4>3. "prepped" \in work'[i].dirty
        BY <1>1
      <4> QED BY <1>8, <2>2, <3>3, <4>1, <4>2, <4>3 DEF Recalled
    <3>4. CASE s # r
      <4>1. s = "src" /\ r = "d"
        BY <1>5, <2>2, <3>1, <3>4 DEF Given, Untouched, Absent, Role
      <4>2. \A j \in Ingester : ~Has(j, f, "src")
        BY <1>3, <1>12, <4>1 DEF Kept, Sole, Has, Role
      <4>3. disk[<<f, "d">>] # 0
        <5>1. work[i].pc # "idle" /\ work[i].pc # "walk" /\ disk[<<f, r>>] = work[i].was
          BY <1>2, <2>1 DEF HandShape
        <5> QED BY <4>1, <5>1, HandIs
      <4>4. Recalled(f, s)
        BY <3>2, <4>1, <4>2, <4>3, CutIsRecalled
      <4> QED BY <1>10, <3>1, <4>1, <4>2, <4>4
    <3> QED BY <3>3, <3>4
  <2>8. Known(f)'
    BY <2>7 DEF Known
  <2>9. Fresher(f)'
    BY <1>1, <1>3, <1>12, NoFreshHand, RestIsSame DEF Kept
  <2> QED BY <2>4, <2>5, <2>6, <2>8, <2>9 DEF Once
<1> QED BY <1>11, <1>12

\* The split of the original is a new file, to be converted by a later pass.
LEMMA SplitOnce ==
    ASSUME Types, Passes, NEW i \in Ingester, NEW f \in Sources, Kept(f), Once(f), SplitOriginal(i)
    PROVE  Once(f)'
<1> DEFINE S == {<<work[i].cur[1], "d">>}
<1>1. PICK w : /\ MadeAnew(i, S, work[i].was, w) /\ Fields(w) /\ w.pc = "parts"
               /\ w.cur = work[i].cur /\ w.seen = work[i].seen /\ w.was = work[i].was
               /\ w.outs = work[i].outs /\ w.dirty = work[i].dirty /\ w.blob = work[i].blob
  BY SplitMoves
<1>2. /\ work'[i].pc = "parts" /\ work'[i].cur = work[i].cur /\ work'[i].was = work[i].was
      /\ work'[i].seen = work[i].seen
      /\ \A j \in Ingester \ {i} : SameHand(j)
      /\ disk' = [n \in Name |-> IF n \in S THEN work[i].was ELSE disk[n]]
  BY <1>1, AnewMoves
<1>3. /\ work[i].pc = "document" /\ Shape(work[i].cur) = "vast"
      /\ UNCHANGED <<scenario, drops, mtime, row, posts>>
  BY DEF SplitOriginal, world
<1>4. PICK g \in Sources, r \in Role :
         Has(i, g, r) /\ work[i].cur[1] = g /\ work[i].was # 0 /\ work[i].was \in Version
  BY <1>3, HandIs
<1>5. r = "src" /\ scenario.kind[g] = "vast" /\ S = {<<g, "d">>}
  <2>1. Shape(<<g, r>>) = "vast"
    BY <1>3, <1>4 DEF Has
  <2>2. r = "src"
    BY <2>1, PreparedAre
  <2> QED BY <1>4, <2>1, <2>2, Shapes
<1>6. CASE f # g
  <2>1. S \subseteq {<<g, s>> : s \in Role}
    BY <1>5 DEF Role
  <2>2. Still(f) /\ HandsOff(f) /\ Recall(f)
    BY <1>1, <1>3, <1>4, <1>6, <2>1, AnewOutside
  <2> QED BY <2>2, OnceFrame
<1>7. CASE f = g
  <2>1. FreshHand(i, f, r) /\ HandShape(i, f, r)
    BY <1>4, <1>7 DEF Once, Fresher, Kept, InWork
  <2>2. /\ Absent(f, {"t", "d", "do", "dt"}) /\ Unposted(f, {"document", "extra"})
        /\ work[i].seen = Mtime(<<f, r>>) /\ disk[<<f, r>>] = work[i].was
        /\ work[i].was = drops[f]
    BY <1>3, <1>5, <2>1 DEF FreshHand, HandShape
  <2>3. \A s \in Role : <<f, s>> \in Name /\ (<<f, s>> \in S <=> s = "d")
    BY <1>5, <1>7, PairIsName
  <2>4. \A s \in Role : disk'[<<f, s>>] = IF s = "d" THEN drops[f] ELSE disk[<<f, s>>]
    BY <1>2, <2>2, <2>3
  <2>5. \A n : PieceOf(n)' = PieceOf(n) /\ Shape(n)' = Shape(n)
    BY <1>3, ShapesStay
  <2>6. Single(f)'
    BY <1>3 DEF Once, Single
  <2>7. Owed(f)'
    <3> SUFFICES ASSUME NEW s \in Role, disk'[<<f, s>>] # 0, row[<<f, s>>] # "sent",
                        s = "src" => scenario.kind[f] \in {"ready", "convert"}
                 PROVE  posts[<<f, PieceOf(<<f, s>>), drops[f]>>] = 0
      BY <1>3, <2>5 DEF Owed
    <3>1. CASE s # "d"
      BY <2>4, <3>1 DEF Once, Owed
    <3>2. CASE s = "d"
      <4>1. PieceOf(<<f, s>>) = "document"
        BY <3>2, PieceNames
      <4> QED BY <2>2, <4>1 DEF Unposted
    <3> QED BY <3>1, <3>2
  <2>8. Clean(f)'
    BY <1>3, <1>5, <1>7, <2>4 DEF Once, Clean, Role
  <2>9. ASSUME NEW s \in Role, ToPrepare(f, s)' PROVE InProgress(f, s)' \/ Untouched(f, s)'
    <3>1. CASE s = "src"
      <4>1. Mtime(<<f, s>>)' = Mtime(<<f, s>>) /\ disk'[<<f, s>>] = disk[<<f, s>>]
        BY <1>3, <2>4, <3>1, MtimeIs
      <4> QED BY <1>2, <1>4, <1>5, <1>7, <2>2, <3>1, <4>1 DEF InProgress, Has
    <3>2. CASE s = "d"
      <4>1. row'[<<f, s>>] = "none"
        BY <1>3, <2>2, <3>2 DEF Absent
      <4>2. Absent(f, {"do", "dt"})'
        BY <1>3, <2>2, <2>4 DEF Absent, Role
      <4>3. Unposted(f, {"extra"})'
        BY <1>3, <2>2 DEF Unposted
      <4> QED BY <3>2, <4>1, <4>2, <4>3 DEF Untouched
    <3> QED BY <2>9, <3>1, <3>2 DEF ToPrepare, Given
  <2>10. Known(f)'
    BY <2>9 DEF Known
  <2>11. Fresher(f)'
    BY <1>2, <1>4, <1>7, NoFreshHand DEF Kept
  <2> QED BY <2>6, <2>7, <2>8, <2>10, <2>11 DEF Once
<1> QED BY <1>6, <1>7

\* What a pass knows of f when it goes on with the same file in hand.
LEMMA GoesOnRecall ==
    ASSUME NEW i \in Ingester, NEW f \in Sources, NEW next, NEW outs, GoesOn(i, next, outs),
           UNCHANGED <<mtime, memo>>, \A s \in Role : disk'[<<f, s>>] = disk[<<f, s>>]
    PROVE  Recall(f)
<1>1. \A s \in Role : SameMemory(f, s)
  BY DEF SameMemory, GoesOn, Rest, Has
<1> QED BY <1>1, RecallOne DEF Recall

\* A pass that goes on with its file takes up no other.
LEMMA GoesOnHandsOff ==
    ASSUME NEW i \in Ingester, NEW f \in Sources, NEW g \in Sources, NEW r \in Role, f # g, Has(i, g, r),
           NEW next, NEW outs, GoesOn(i, next, outs)
    PROVE  HandsOff(f)
BY RestIsSame DEF HandsOff, GoesOn, Has, Rest, SameHand

\* The parts of the document are gone again, and were not posted.
LEMMA NoDocumentOnce ==
    ASSUME Types, Passes, NEW i \in Ingester, NEW f \in Sources, Kept(f), Once(f), NoDocument(i)
    PROVE  Once(f)'
<1>1. /\ work[i].pc = "document" /\ Shape(work[i].cur) = "vast"
      /\ UNCHANGED <<scenario, drops, mtime, row, memo, posts>>
      /\ disk' \in {disk, [disk EXCEPT ![<<work[i].cur[1], "d">>] = 0]}
  BY DEF NoDocument, world
<1>2. GoesOn(i, "register", work[i].outs)
  BY NoDocumentMoves
<1>3. PICK g \in Sources, r \in Role : Has(i, g, r) /\ work[i].cur[1] = g
  BY <1>1, HandIs
<1>4. r = "src"
  BY <1>1, <1>3, PreparedAre DEF Has
<1>5. f = g => disk[<<f, "d">>] = 0
  BY <1>1, <1>3, <1>4 DEF Once, Fresher, FreshHand, Absent
<1>6. \A s \in Role : disk'[<<f, s>>] = disk[<<f, s>>]
  <2>1. disk \in [Name -> Version] /\ \A s \in Role : <<f, s>> \in Name
    BY PairIsName DEF Types, TypeOK
  <2> QED BY <1>1, <1>3, <1>5, <2>1
<1>7. Still(f)
  BY <1>1, <1>6 DEF Still
<1>8. Recall(f)
  BY <1>1, <1>2, <1>6, GoesOnRecall
<1>9. CASE f # g
  BY <1>2, <1>3, <1>7, <1>8, <1>9, GoesOnHandsOff, OnceFrame
<1>10. CASE f = g
  <2>1. Fresher(f)'
    BY <1>2, <1>3, <1>10, NoFreshHand, RestIsSame DEF Kept, GoesOn
  <2> QED BY <1>7, <1>8, <2>1, OnceFiles DEF Once
<1> QED BY <1>9, <1>10

\* A row is given to a file that is there, which an untouched one has only itself.
LEMMA RowFiles ==
    ASSUME Types, NEW f \in Sources, Kept(f), Once(f), NEW n, Insert(n) \/ UNCHANGED row,
           UNCHANGED <<scenario, drops, mtime, disk, posts>>, Recall(f)
    PROVE  Single(f)' /\ Owed(f)' /\ Clean(f)' /\ Known(f)'
<1>1. \A m \in Name : /\ row[m] # "none" => row'[m] = row[m]
                      /\ row[m] = "none" => row'[m] \in {"none", "pending"}
                      /\ disk[m] = 0 \/ m # n => row'[m] = row[m]
                      /\ row'[m] # row[m] => row'[m] = "pending"
  BY DEF Insert, Types, TypeOK
<1>2. \A s \in Role : <<f, s>> \in Name
  BY PairIsName
<1>3. \A m : PieceOf(m)' = PieceOf(m) /\ Shape(m)' = Shape(m)
  BY ShapesStay
<1>4. Single(f)'
  BY DEF Once, Single
<1>5. Owed(f)'
  <2>1. \A s \in Role : row'[<<f, s>>] # "sent" => row[<<f, s>>] # "sent"
    BY <1>1, <1>2
  <2> QED BY <1>3, <2>1 DEF Once, Owed
<1>6. Clean(f)'
  BY DEF Once, Clean
<1>7. ASSUME NEW s \in Role, ToPrepare(f, s)'
      PROVE  row'[<<f, s>>] # "none" \/ Untouched(f, s)' \/ InProgress(f, s)' \/ Recalled(f, s)'
  <2>1. ToPrepare(f, s) /\ s \in Given
    BY <1>3, <1>7 DEF ToPrepare
  <2>2. CASE row[<<f, s>>] # "none"
    BY <1>1, <1>2, <2>2
  <2>3. CASE InProgress(f, s) \/ Recalled(f, s)
    BY <2>1, <2>3 DEF Recall
  <2>4. CASE Untouched(f, s) /\ row'[<<f, s>>] = "none"
    <3>1. {"do", "dt"} \subseteq Role
      BY DEF Role
    <3>2. \A t \in Role : disk[<<f, t>>] = 0 => row'[<<f, t>>] = row[<<f, t>>]
      BY <1>1, <1>2
    <3> QED BY <2>4, <3>1, <3>2 DEF Untouched, Absent, Unposted
  <2> QED BY <2>1, <2>2, <2>3, <2>4 DEF Once, Known
<1>8. Known(f)'
  BY <1>7 DEF Known
<1> QED BY <1>4, <1>5, <1>6, <1>8

\* The row goes to the file in hand, or to what was made of it.
LEMMA RowGoesTo ==
    ASSUME Types, Passes, NEW i \in Ingester, RegisterDocument(i) \/ Register(i),
           NEW g \in Sources, NEW r \in Role, Has(i, g, r)
    PROVE  \E n \in {<<g, s>> : s \in Role} : Insert(n) \/ UNCHANGED row
<1>1. CASE RegisterDocument(i)
  <2>1. Insert(Document(i)) \/ UNCHANGED row
    BY <1>1 DEF RegisterDocument, Refused
  <2>2. Document(i) \in {<<g, "d">>, <<g, r>>}
    BY PairIsName DEF Document, Has
  <2>3. Document(i) \in {<<g, s>> : s \in Role}
    BY <2>2 DEF Role
  <2> QED BY <2>1, <2>3
<1>2. CASE Register(i)
  <2>1. PICK n \in work[i].outs : Insert(n) \/ UNCHANGED row
    BY <1>2, RegisterMoves
  <2>2. work[i].pc = "register"
    BY <1>2 DEF Register
  <2>3. IF Shape(<<g, r>>) = "ready" THEN work[i].outs \subseteq {<<g, r>>}
        ELSE \E S \in Makes(<<g, r>>) : work[i].outs \subseteq S
    BY <2>2 DEF Passes, PassShape, Has
  <2>4. n \in {<<g, s>> : s \in Role}
    BY <2>1, <2>3, PreparedAre
  <2> QED BY <2>1, <2>4
<1> QED BY <1>1, <1>2

\* A row for a file that is on the disk and unposted.
LEMMA RegisterOnce ==
    ASSUME Types, Passes, NEW i \in Ingester, NEW f \in Sources, Kept(f), Once(f),
           RegisterDocument(i) \/ Register(i)
    PROVE  Once(f)'
<1>1. /\ UNCHANGED <<scenario, drops, mtime, disk, memo, posts>>
      /\ work[i].pc \in {"parts", "document", "register"}
  BY DEF RegisterDocument, Register, world
<1>2. \E n : Insert(n) \/ UNCHANGED row
  BY DEF RegisterDocument, Register, Refused
<1>3. PICK outs : GoesOn(i, "register", outs)
  BY RegisterDocumentMoves, RegisterMoves
<1>4. PICK g \in Sources, r \in Role : Has(i, g, r)
  BY <1>1, HandIs
<1>5. Recall(f)
  BY <1>1, <1>3, GoesOnRecall
<1>6. Single(f)' /\ Owed(f)' /\ Clean(f)' /\ Known(f)'
  BY <1>1, <1>2, <1>5, RowFiles
<1>7. CASE f = g
  BY <1>3, <1>4, <1>6, <1>7, NoFreshHand, RestIsSame DEF Kept, GoesOn, Once
<1>8. CASE f # g
  <2>1. HandsOff(f)
    BY <1>3, <1>4, <1>8, GoesOnHandsOff
  <2>2. PICK n \in {<<g, s>> : s \in Role} : Insert(n) \/ UNCHANGED row
    BY <1>4, RowGoesTo
  <2>3. \A s \in Role : row'[<<f, s>>] = row[<<f, s>>]
    <3>1. \A s \in Role : <<f, s>> \in Name /\ <<f, s>> # n
      BY <1>8, PairIsName
    <3> QED BY <2>2, <3>1 DEF Insert, Types, TypeOK
  <2>4. Still(f)
    BY <1>1, <2>3 DEF Still
  <2> QED BY <1>5, <2>1, <2>4, OnceFrame
<1> QED BY <1>7, <1>8

\* The original that is removed leaves what was made of it as it is.
LEMMA RetireOnce ==
    ASSUME Types, Passes, NEW i \in Ingester, NEW f \in Sources, Kept(f), Once(f), Retire(i)
    PROVE  Once(f)'
<1>1. /\ work[i].pc = "register" /\ Shape(work[i].cur) \in {"vast", "wrap", "large"}
      /\ UNCHANGED <<scenario, drops, mtime, row, memo, posts>>
  BY DEF Retire, Finishing, world
<1>2. PICK g \in Sources, r \in Role : Has(i, g, r)
  BY <1>1, HandIs
<1>3. r = "src"
  BY <1>1, <1>2, PreparedAre DEF Has
<1>4. CASE UNCHANGED disk /\ Remembers(i)
  <2>1. Recall(f)
    BY <1>1, <1>4, RemembersRecall
  <2>2. Rest(i) /\ work'[i].cur = NoName
    BY <1>4 DEF Remembers, LetsGo
  <2> QED BY <1>1, <1>4, <2>1, <2>2, StillIf, LetGoHandsOff, OnceFrame
<1>5. CASE disk' = [disk EXCEPT ![work[i].cur] = 0] /\ LetsGo(i, work[i].blob, work[i].dirty)
  <2>1. /\ Rest(i) /\ work'[i].cur = NoName
        /\ work'[i].blob = work[i].blob /\ work'[i].dirty = work[i].dirty
    BY <1>5 DEF LetsGo
  <2>2. \A m \in Name : m # <<g, "src">> => disk'[m] = disk[m]
    BY <1>2, <1>3, <1>5 DEF Types, TypeOK, Has
  <2>3. \A s \in Role : ~Has(i, f, s)'
    BY <2>1, NobodyIsName DEF Has
  <2>4. CASE f # g
    <3>1. \A s \in Role : ~Has(i, f, s)
      BY <1>2, <2>4 DEF Has
    <3>2. \A s \in Role : disk'[<<f, s>>] = disk[<<f, s>>]
      BY <2>2, <2>4, PairIsName
    <3>3. Still(f)
      BY <1>1, <3>2 DEF Still
    <3>4. HandsOff(f) /\ Recall(f)
      BY <1>1, <2>1, <2>3, <3>1, <3>3, OtherHand
    <3> QED BY <3>3, <3>4, OnceFrame
  <2>5. CASE f = g
    <3>1. disk'[<<f, "src">>] = 0 /\ \A s \in Role \ {"src"} : disk'[<<f, s>>] = disk[<<f, s>>]
      <4>1. disk \in [Name -> Version] /\ \A s \in Role : <<f, s>> \in Name
        BY PairIsName DEF Types, TypeOK
      <4>2. work[i].cur = <<f, "src">> /\ "src" \in Role
        BY <1>2, <1>3, <2>5 DEF Has, Role
      <4> QED BY <1>5, <2>2, <2>5, <4>1, <4>2
    <3>2. \A n : PieceOf(n)' = PieceOf(n) /\ Shape(n)' = Shape(n)
      BY <1>1, ShapesStay
    <3>3. Single(f)'
      BY <1>1 DEF Once, Single
    <3>4. Owed(f)'
      BY <1>1, <3>1, <3>2 DEF Once, Owed
    <3>5. Clean(f)'
      BY <1>1, <3>1 DEF Once, Clean, Role
    <3>6. ASSUME NEW s \in Role, ToPrepare(f, s)'
          PROVE  row'[<<f, s>>] # "none" \/ Untouched(f, s)' \/ Recalled(f, s)'
      <4>1. s = "d" /\ disk'[<<f, s>>] = disk[<<f, s>>]
        BY <3>1, <3>6 DEF ToPrepare, Given
      <4>2. ToPrepare(f, s)
        BY <3>2, <3>6, <4>1 DEF ToPrepare
      <4>3. \A j \in Ingester : ~Has(j, f, "d") /\ ~Has(j, f, "d")'
        <5>1. \A j \in Ingester : ~Has(j, f, "d")
          BY <1>2, <1>3, <2>5 DEF Kept, Sole, Has, Role
        <5> QED BY <2>1, <2>3, <4>1, <5>1 DEF Has, Rest
      <4>4. ~InProgress(f, s)
        BY <4>1, <4>3 DEF InProgress
      <4>5. SameMemory(f, s)
        BY <2>1, <4>1, <4>3 DEF SameMemory, Rest
      <4>6. Recalled(f, s) => Recalled(f, s)'
        BY <1>1, <4>1, <4>5, RecallOne
      <4>7. Untouched(f, s) => Untouched(f, s)'
        BY <1>1, <3>1, <4>1 DEF Untouched, Absent, Unposted, Role
      <4> QED BY <1>1, <4>2, <4>4, <4>6, <4>7 DEF Once, Known
    <3>7. Known(f)'
      BY <3>6 DEF Known
    <3>8. Fresher(f)'
      BY <1>2, <2>1, <2>5, NoFreshHand, RestIsSame DEF Kept
    <3> QED BY <3>3, <3>4, <3>5, <3>7, <3>8 DEF Once
  <2> QED BY <2>4, <2>5
<1> QED BY <1>4, <1>5, RetireMoves

\* No two files that lie there and may be posted are the same piece.
LEMMA PiecesDiffer ==
    ASSUME NEW f \in Sources, Clean(f), NEW r \in Role, NEW s \in Role, r # s,
           disk[<<f, r>>] # 0, disk[<<f, s>>] # 0,
           r = "src" => scenario.kind[f] \in {"ready", "convert"},
           s = "src" => scenario.kind[f] \in {"ready", "convert"}
    PROVE  PieceOf(<<f, r>>) # PieceOf(<<f, s>>)
<1>1. r \notin {"t", "dt"} /\ s \notin {"t", "dt"}
  BY DEF Clean
<1>2. r = "d" => s # "src"
  BY DEF Clean
<1>3. s = "d" => r # "src"
  BY DEF Clean
<1>4. r \in {"src", "o1", "o2", "d", "do"} /\ s \in {"src", "o1", "o2", "d", "do"}
  BY <1>1 DEF Role
<1> QED BY <1>2, <1>3, <1>4, PieceNames

\* A post changes nothing for another file nothing has been made of.
LEMMA ShipUntouched ==
    ASSUME NEW f \in Sources, NEW r \in Role, NEW s \in Given, r # s, disk[<<f, r>>] # 0, Untouched(f, s),
           drops' = drops,
           \A t \in Role : t # r => row'[<<f, t>>] = row[<<f, t>>] /\ disk'[<<f, t>>] = disk[<<f, t>>],
           \A p \in Piece : p # PieceOf(<<f, r>>) => posts'[<<f, p, drops[f]>>] = posts[<<f, p, drops[f]>>]
    PROVE  s = "d" /\ r \notin {"do", "dt"} /\ Untouched(f, s)'
<1>1. s = "d" /\ r \notin {"do", "dt"}
  BY DEF Untouched, Absent, Given
<1>2. PieceOf(<<f, r>>) # "extra"
  BY <1>1, PieceNames DEF Role
<1>3. "extra" \in Piece /\ {"do", "dt", "d"} \subseteq Role
  BY DEF Piece, Role
<1>4. Unposted(f, {"extra"})'
  BY <1>1, <1>2, <1>3 DEF Untouched, Unposted
<1>5. Absent(f, {"do", "dt"})' /\ row'[<<f, s>>] = "none"
  BY <1>1, <1>3 DEF Untouched, Absent
<1> QED BY <1>1, <1>4, <1>5 DEF Untouched

\* A step outside the passes takes nothing up.
LEMMA SameWorkHandsOff ==
    ASSUME NEW f \in Sources, UNCHANGED work
    PROVE  HandsOff(f) /\ \A r \in Role : SameMemory(f, r)
BY DEF HandsOff, SameHand, SameMemory, Has

\* A posting is the first of its piece, for the piece was owed; and the file that
\* remains of it, if one does, is remembered.
LEMMA ShipOnce ==
    ASSUME Types, Passes, NEW n \in Name, NEW f \in Sources, Kept(f), Once(f), Ship(n)
    PROVE  Once(f)'
<1>1. /\ row[n] = "pending" /\ disk[n] # 0
      /\ posts' = [posts EXCEPT ![<<n[1], PieceOf(n), disk[n]>>] = IF @ = 0 THEN 1 ELSE 2]
      /\ UNCHANGED <<scenario, drops, mtime, memo, work>>
      /\ \/ row' = [row EXCEPT ![n] = "sent"] /\ UNCHANGED disk
         \/ row' = [row EXCEPT ![n] = "none"] /\ disk' = [disk EXCEPT ![n] = 0]
  BY DEF Ship, world
<1>2. PICK g \in Sources, r \in Role : n = <<g, r>> /\ n[1] = g
  BY NameIsPair
<1>3. /\ \A m \in Name : m # n => row'[m] = row[m] /\ disk'[m] = disk[m]
      /\ disk'[n] # 0 => row'[n] = "sent"
      /\ disk'[n] \in {0, disk[n]}
  BY <1>1 DEF Types, TypeOK
<1>4. HandsOff(f) /\ \A s \in Role : SameMemory(f, s)
  BY <1>1, SameWorkHandsOff
<1>5. posts \in [Posting -> 0..2] /\ \A p \in Piece, v \in Num : <<f, p, v>> \in Posting
  BY DEF Types, TypeOK, Posting, Piece, Num
<1>6. CASE f # g
  <2>1. \A s \in Role : row'[<<f, s>>] = row[<<f, s>>] /\ disk'[<<f, s>>] = disk[<<f, s>>]
    BY <1>2, <1>3, <1>6, PairIsName
  <2>2. \A p \in Piece, v \in Num : posts'[<<f, p, v>>] = posts[<<f, p, v>>]
    BY <1>1, <1>2, <1>5, <1>6
  <2>3. Still(f)
    BY <1>1, <2>1, <2>2 DEF Still
  <2>4. Recall(f)
    BY <1>1, <1>4, <2>3, RecallAll
  <2> QED BY <1>4, <2>3, <2>4, OnceFrame
<1>7. CASE f = g
  <2>1. disk[<<f, r>>] = drops[f] /\ drops[f] \in Num /\ disk[<<f, r>>] # 0 /\ row[<<f, r>>] = "pending"
    BY <1>1, <1>2, <1>7, Now
  <2>2. r = "src" => scenario.kind[f] \in {"ready", "convert"}
    BY <2>1 DEF Kept, Original
  <2>3. posts[<<f, PieceOf(<<f, r>>), drops[f]>>] = 0
    BY <2>1, <2>2 DEF Once, Owed
  <2>4. PICK q \in Piece : q = PieceOf(<<f, r>>)
    BY PieceIsOne
  <2>5. \A p \in Piece, v \in Num :
           posts'[<<f, p, v>>] = IF p = q /\ v = drops[f] THEN 1 ELSE posts[<<f, p, v>>]
    BY <1>1, <1>2, <1>5, <1>7, <2>1, <2>3, <2>4
  <2>6. \A s \in Role : <<f, s>> \in Name /\ (s # r => <<f, s>> # n)
    BY <1>2, PairIsName
  <2>7. \A s \in Role : s # r => row'[<<f, s>>] = row[<<f, s>>] /\ disk'[<<f, s>>] = disk[<<f, s>>]
    BY <1>3, <2>6
  <2>8. \A m : PieceOf(m)' = PieceOf(m) /\ Shape(m)' = Shape(m)
    BY <1>1, ShapesStay
  <2>9. Single(f)'
    <3> SUFFICES ASSUME NEW p \in Piece, NEW v \in Num
                 PROVE  posts'[<<f, p, v>>] \in {0, 1} /\ (v > drops[f] => posts'[<<f, p, v>>] = 0)
      BY <1>1 DEF Single
    <3>1. v \in Nat /\ drops[f] \in Nat
      BY <2>1 DEF Num
    <3> QED BY <2>5, <3>1 DEF Once, Single
  <2>10. Owed(f)'
    <3> SUFFICES ASSUME NEW s \in Role, disk'[<<f, s>>] # 0, row'[<<f, s>>] # "sent",
                        s = "src" => scenario.kind[f] \in {"ready", "convert"}
                 PROVE  posts'[<<f, PieceOf(<<f, s>>), drops[f]>>] = 0
      BY <1>1, <2>8 DEF Owed
    <3>1. s # r
      BY <1>2, <1>3, <1>7
    <3>2. disk[<<f, s>>] # 0 /\ row[<<f, s>>] # "sent"
      BY <2>7, <3>1
    <3>3. PieceOf(<<f, s>>) # q
      BY <2>1, <2>2, <2>4, <3>1, <3>2, PiecesDiffer DEF Once
    <3>4. posts[<<f, PieceOf(<<f, s>>), drops[f]>>] = 0
      BY <3>2 DEF Once, Owed
    <3> QED BY <2>1, <2>5, <3>3, <3>4, PieceIsOne
  <2>11. Clean(f)'
    <3>1. \A s \in Role : disk'[<<f, s>>] \in {0, disk[<<f, s>>]}
      BY <1>2, <1>3, <1>7, <2>7
    <3> QED BY <1>1, <3>1 DEF Once, Clean, Role
  <2>12. \A p \in Piece : p # PieceOf(<<f, r>>) => posts'[<<f, p, drops[f]>>] = posts[<<f, p, drops[f]>>]
    BY <2>1, <2>4, <2>5
  <2>13. \A s \in Given : s # r /\ Untouched(f, s) => s = "d" /\ r \notin {"do", "dt"} /\ Untouched(f, s)'
    BY <1>1, <2>1, <2>7, <2>12, ShipUntouched
  <2>14. ASSUME NEW s \in Role, ToPrepare(f, s)'
         PROVE  row'[<<f, s>>] # "none" \/ Untouched(f, s)' \/ InProgress(f, s)' \/ Recalled(f, s)'
    <3>1. CASE s = r
      BY <1>2, <1>3, <1>7, <2>14, <3>1 DEF ToPrepare
    <3>2. CASE s # r
      <4>1. ToPrepare(f, s) /\ s \in Given
        BY <2>7, <2>8, <2>14, <3>2 DEF ToPrepare
      <4>2. /\ InProgress(f, s) => InProgress(f, s)'
            /\ Recalled(f, s) => Recalled(f, s)'
        BY <1>1, <1>4, <2>7, <3>2, RecallOne
      <4> QED BY <2>7, <2>13, <3>2, <4>1, <4>2 DEF Once, Known
    <3> QED BY <3>1, <3>2
  <2>15. Known(f)'
    BY <2>14 DEF Known
  <2>16. ASSUME NEW j \in Ingester, NEW s \in Role, Has(j, f, s) PROVE FreshHand(j, f, s)'
    <3>1. FreshHand(j, f, s) /\ work'[j] = work[j]
      BY <1>1, <2>16 DEF Once, Fresher
    <3>2. CASE work[j].pc \notin {"prepare", "document"}
      BY <3>1, <3>2 DEF FreshHand
    <3>3. CASE work[j].pc \in {"prepare", "document"}
      <4>1. row[<<f, s>>] = "none" /\ s # r
        BY <2>1, <2>16, <3>3, InHandNoRow
      <4>2. Mtime(<<f, s>>)' = Mtime(<<f, s>>)
        BY <1>1, <2>7, <4>1, MtimeIs
      <4>3. Shape(<<f, s>>) # "ready"
        BY <2>16, <3>3 DEF Passes, PassShape, Has
      <4>4. s \in Given
        BY <4>3, PreparedAre DEF Given
      <4>5. work[j].pc = "prepare" => Untouched(f, s)'
        BY <2>13, <3>1, <4>1, <4>4 DEF FreshHand
      <4>6. ASSUME work[j].pc = "document", s = "src"
            PROVE  (Absent(f, {"t", "d", "do", "dt"}) /\ Unposted(f, {"document", "extra"}))'
        <5>1. Absent(f, {"t", "d", "do", "dt"}) /\ Unposted(f, {"document", "extra"})
          BY <3>1, <4>6 DEF FreshHand
        <5>2. r \in {"o1", "o2"}
          BY <2>1, <4>1, <4>6, <5>1 DEF Absent, Role
        <5>3. PieceOf(<<f, r>>) \notin {"document", "extra"} /\ {"document", "extra"} \subseteq Piece
          BY <5>2, PieceNames DEF Piece
        <5>4. Unposted(f, {"document", "extra"})'
          BY <1>1, <2>12, <5>1, <5>3 DEF Unposted
        <5>5. Absent(f, {"t", "d", "do", "dt"})'
          BY <2>7, <5>1, <5>2 DEF Absent, Role
        <5> QED BY <5>4, <5>5
      <4> QED BY <3>1, <4>2, <4>5, <4>6 DEF FreshHand
    <3> QED BY <3>2, <3>3
  <2>17. Fresher(f)'
    BY <1>1, <2>16 DEF Fresher, Has
  <2> QED BY <2>9, <2>10, <2>11, <2>15, <2>17 DEF Once
<1> QED BY <1>6, <1>7

\* A row without a file goes, and nothing was posted from it.
LEMMA ShipMissingOnce ==
    ASSUME Types, Passes, NEW n \in Name, NEW f \in Sources, Kept(f), Once(f), ShipMissing(n)
    PROVE  Once(f)'
<1>1. /\ row[n] = "pending" /\ disk[n] = 0 /\ row' = [row EXCEPT ![n] = "none"]
      /\ UNCHANGED <<scenario, drops, mtime, disk, memo, posts, work>>
  BY DEF ShipMissing, world
<1>2. \A s \in Role : /\ disk[<<f, s>>] # 0 => row'[<<f, s>>] = row[<<f, s>>]
                      /\ row[<<f, s>>] = "none" => row'[<<f, s>>] = "none"
  <2>1. row \in [Name -> {"none", "pending", "sent"}] /\ \A s \in Role : <<f, s>> \in Name
    BY PairIsName DEF Types, TypeOK
  <2> QED BY <1>1, <2>1
<1>3. \A s \in Role : SameMemory(f, s)
  BY <1>1, SameWorkHandsOff
<1>4. \A m : PieceOf(m)' = PieceOf(m) /\ Shape(m)' = Shape(m)
  BY <1>1, ShapesStay
<1>5. Single(f)'
  BY <1>1 DEF Once, Single
<1>6. Owed(f)'
  BY <1>1, <1>2, <1>4 DEF Once, Owed
<1>7. Clean(f)'
  BY <1>1 DEF Once, Clean
<1>8. ASSUME NEW s \in Role, s \in Given, Untouched(f, s) PROVE Untouched(f, s)'
  BY <1>1, <1>2, <1>8 DEF Untouched, Absent, Unposted, Role
<1>9. ASSUME NEW s \in Role, ToPrepare(f, s)'
      PROVE  row'[<<f, s>>] # "none" \/ Untouched(f, s)' \/ InProgress(f, s)' \/ Recalled(f, s)'
  <2>1. ToPrepare(f, s) /\ s \in Given /\ disk[<<f, s>>] # 0
    BY <1>1, <1>4, <1>9 DEF ToPrepare
  <2>2. /\ InProgress(f, s) => InProgress(f, s)'
        /\ Recalled(f, s) => Recalled(f, s)'
    BY <1>1, <1>3, RecallOne
  <2> QED BY <1>2, <1>8, <2>1, <2>2 DEF Once, Known
<1>10. Known(f)'
  BY <1>9 DEF Known
<1>11. ASSUME NEW j \in Ingester, NEW s \in Role, Has(j, f, s) PROVE FreshHand(j, f, s)'
  <2>1. FreshHand(j, f, s) /\ work'[j] = work[j]
    BY <1>1, <1>11 DEF Once, Fresher
  <2>2. Mtime(<<f, s>>)' = Mtime(<<f, s>>)
    BY <1>1, MtimeIs
  <2>3. ASSUME work[j].pc = "prepare" PROVE Untouched(f, s)'
    <3>1. Shape(<<f, s>>) # "ready"
      BY <1>11, <2>3 DEF Passes, PassShape, Has
    <3> QED BY <1>8, <2>1, <2>3, <3>1, PreparedAre DEF FreshHand, Given
  <2>4. ASSUME work[j].pc = "document", s = "src"
        PROVE  (Absent(f, {"t", "d", "do", "dt"}) /\ Unposted(f, {"document", "extra"}))'
    BY <1>1, <1>2, <2>1, <2>4 DEF FreshHand, Absent, Unposted, Role
  <2> QED BY <2>1, <2>2, <2>3, <2>4 DEF FreshHand
<1>12. Fresher(f)'
  BY <1>1, <1>11 DEF Fresher, Has
<1> QED BY <1>5, <1>6, <1>7, <1>10, <1>12 DEF Once

\* A new file of a name that has left is untouched, and its pieces are new ones.
LEMMA DropOnce ==
    ASSUME Types, Passes, NEW g \in Sources, NEW m \in Version, Drop(g, m),
           NEW f \in Sources, Kept(f), Once(f)
    PROVE  Once(f)'
<1> DEFINE v == drops[g] + 1
<1>1. /\ \A n \in Name : n[1] = g => disk[n] = 0 /\ row[n] = "none"
      /\ drops[g] < scenario.times[g]
      /\ drops' = [drops EXCEPT ![g] = v]
      /\ mtime' = [mtime EXCEPT ![g] = m]
      /\ disk' = [disk EXCEPT ![<<g, "src">>] = v]
      /\ UNCHANGED <<scenario, row, memo, work, posts>>
  BY DEF Drop
<1>2. v \in Num /\ drops[g] \in Nat /\ v > drops[g]
  <2>1. scenario.times[g] \in 0..MaxDrops /\ drops[g] \in 0..MaxDrops
    BY DEF Types, TypeOK, Scenario, Version
  <2> QED BY <1>1, <2>1 DEF Num
<1> HIDE DEF v
<1>3. /\ \A n \in Name : n # <<g, "src">> => disk'[n] = disk[n]
      /\ disk'[<<g, "src">>] = v /\ drops'[g] = v
      /\ f # g => drops'[f] = drops[f] /\ mtime'[f] = mtime[f]
  <2>1. /\ disk \in [Name -> Version] /\ drops \in [Sources -> Version] /\ mtime \in [Sources -> Version]
        /\ <<g, "src">> \in Name
    BY PairIsName DEF Types, TypeOK, Role
  <2> QED BY <1>1, <2>1
<1>4. HandsOff(f) /\ \A s \in Role : SameMemory(f, s)
  BY <1>1, SameWorkHandsOff
<1>5. CASE f # g
  <2>1. \A s \in Role : disk'[<<f, s>>] = disk[<<f, s>>]
    BY <1>3, <1>5, PairIsName
  <2>2. Still(f)
    BY <1>1, <1>3, <1>5, <2>1 DEF Still
  <2>3. Recall(f)
    BY <1>1, <1>4, <2>2, RecallAll
  <2> QED BY <1>4, <2>2, <2>3, OnceFrame
<1>6. CASE f = g
  <2>1. \A s \in Role : <<f, s>> \in Name /\ disk[<<f, s>>] = 0 /\ row[<<f, s>>] = "none"
    BY <1>1, <1>6, PairIsName
  <2>2. \A s \in Role \ {"src"} : disk'[<<f, s>>] = 0 /\ row'[<<f, s>>] = "none"
    BY <1>1, <1>3, <1>6, <2>1
  <2>3. \A p \in Piece : posts'[<<f, p, v>>] = 0
    BY <1>1, <1>2, <1>6 DEF Once, Single
  <2>4. Single(f)'
    <3> SUFFICES ASSUME NEW p \in Piece, NEW u \in Num
                 PROVE  posts[<<f, p, u>>] \in {0, 1} /\ (u > v => posts[<<f, p, u>>] = 0)
      BY <1>1, <1>3, <1>6 DEF Single
    <3>1. u > v => u > drops[f]
      BY <1>2, <1>6 DEF Num
    <3> QED BY <3>1 DEF Once, Single
  <2>5. Owed(f)'
    BY <1>3, <1>6, <2>3, PieceIsOne, ShapesStay, <1>1 DEF Owed
  <2>6. Clean(f)'
    BY <2>2 DEF Clean, Role
  <2>7. ASSUME NEW s \in Role, ToPrepare(f, s)' PROVE Untouched(f, s)'
    <3>1. s = "src"
      BY <2>2, <2>7 DEF ToPrepare
    <3>2. row'[<<f, s>>] = "none" /\ Absent(f, Role \ {"src"})'
      BY <1>1, <2>1, <2>2 DEF Absent
    <3>3. Unposted(f, Piece)'
      BY <1>3, <1>6, <2>3 DEF Unposted
    <3> QED BY <3>1, <3>2, <3>3 DEF Untouched
  <2>8. Known(f)'
    BY <2>7 DEF Known
  <2>9. ASSUME NEW j \in Ingester, NEW s \in Role, Has(j, f, s) PROVE FreshHand(j, f, s)'
    <3>1. work[j].pc \notin {"prepare", "document"}
      BY <2>1, <2>9, InHandNoRow
    <3>2. work'[j] = work[j]
      BY <1>1
    <3> QED BY <3>1, <3>2 DEF FreshHand
  <2>10. Fresher(f)'
    BY <1>1, <2>9 DEF Fresher, Has
  <2> QED BY <2>4, <2>5, <2>6, <2>8, <2>10 DEF Once
<1> QED BY <1>5, <1>6

\* A pass that is over has nothing left to save.
LEMMA TidyStep ==
    ASSUME Types, Passes, Tidy, Next
    PROVE  Tidy'
<1>1. ASSUME NEW i \in Ingester, \A j \in Ingester \ {i} : SameHand(j),
             work'[i].pc = "idle" => work'[i].dirty = {}
      PROVE  Tidy'
  BY <1>1 DEF Tidy, SameHand
<1>2. ASSUME NEW i \in Ingester, NEW g \in Sources, StartPass(i, Folder[g]) PROVE Tidy'
  BY <1>1, <1>2, StartMoves, RestIsSame
<1>3. ASSUME NEW i \in Ingester, Skip(i) \/ Busy(i) PROVE Tidy'
  BY <1>1, <1>3, SkipMoves, RestIsSame
<1>4. ASSUME NEW i \in Ingester, Begin(i) PROVE Tidy'
  <2>1. Rest(i) /\ work'[i].pc # "idle"
    BY <1>4, BeginMoves
  <2> QED BY <1>1, <2>1, RestIsSame
<1>5. ASSUME NEW i \in Ingester, Prepared(i) PROVE Tidy'
  <2>1. PICK w : /\ MadeAnew(i, work[i].outs, work[i].was, w) /\ Fields(w)
                 /\ w.pc = (IF work[i].keep THEN "document" ELSE "register")
    BY <1>5, PreparedMoves
  <2>2. work'[i].pc # "idle" /\ \A j \in Ingester \ {i} : SameHand(j)
    BY <2>1, AnewMoves
  <2> QED BY <1>1, <2>2
<1>6. ASSUME NEW i \in Ingester, SplitOriginal(i) PROVE Tidy'
  <2>1. PICK w : MadeAnew(i, {<<work[i].cur[1], "d">>}, work[i].was, w) /\ Fields(w) /\ w.pc = "parts"
    BY <1>6, SplitMoves
  <2>2. work'[i].pc # "idle" /\ \A j \in Ingester \ {i} : SameHand(j)
    BY <2>1, AnewMoves
  <2> QED BY <1>1, <2>2
<1>7. ASSUME NEW i \in Ingester, NoDocument(i) \/ RegisterDocument(i) \/ Register(i) PROVE Tidy'
  <2>1. Rest(i) /\ work'[i].pc = "register"
    BY <1>7, NoDocumentMoves, RegisterDocumentMoves, RegisterMoves DEF GoesOn
  <2> QED BY <1>1, <2>1, RestIsSame
<1>8. ASSUME NEW i \in Ingester, PrepareFails(i) \/ FinishReady(i) \/ FinishKept(i) \/ Retire(i)
      PROVE  Tidy'
  <2>1. Rest(i) /\ work'[i].pc = "walk"
    BY <1>8, PrepareFailsMoves, FinishReadyMoves, FinishKeptMoves, RetireMoves DEF LetsGo,
       Remembers
  <2> QED BY <1>1, <2>1, RestIsSame
<1>9. ASSUME NEW i \in Ingester, EndPass(i) \/ Vanished(i) \/ Die(i) PROVE Tidy'
  <2>1. Rest(i) /\ work'[i].dirty = {}
    BY <1>9, EndMoves, IdleIs DEF Vanished, Die
  <2> QED BY <1>1, <2>1, RestIsSame
<1>10. ASSUME NEW n \in Name, Ship(n) \/ ShipMissing(n) PROVE Tidy'
  BY <1>10 DEF Ship, ShipMissing, Tidy
<1>11. ASSUME NEW f \in Sources, NEW m \in Version, Drop(f, m) PROVE Tidy'
  BY <1>11 DEF Drop, Tidy
<1> QED BY <1>2, <1>3, <1>4, <1>5, <1>6, <1>7, <1>8, <1>9, <1>10, <1>11 DEF Next, Step

\* The inductive invariant of PostedOnce.
OnceInv == KeptInv /\ Tidy /\ \A f \in Sources \ Flawed : Once(f)

\* What is excepted stays excepted.
LEMMA FlawedStays ==
    ASSUME Next
    PROVE  Flawed \subseteq Flawed'
BY HistoryGrows DEF Flawed

\* Every step keeps it.
LEMMA OnceStep ==
    ASSUME OnceInv, Next
    PROVE  OnceInv'
<1>1. KeptInv' /\ Tidy'
  BY KeptStep, TidyStep DEF OnceInv, KeptInv
<1>2. ASSUME NEW f \in Sources, f \notin Flawed' PROVE Once(f)'
  <2>1. Types /\ Passes /\ Tidy /\ Kept(f) /\ Once(f)
    BY <1>2, FlawedStays DEF OnceInv, KeptInv, Flawed
  <2>2. ASSUME NEW i \in Ingester, NEW g \in Sources, StartPass(i, Folder[g]) PROVE Once(f)'
    BY <1>2, <2>1, <2>2, QuietOnce
  <2>3. ASSUME NEW i \in Ingester,
               Skip(i) \/ Busy(i) \/ FinishReady(i) \/ FinishKept(i) \/ EndPass(i) \/ Vanished(i) \/ Die(i)
        PROVE  Once(f)'
    BY <1>2, <2>1, <2>3, QuietOnce
  <2>4. ASSUME NEW i \in Ingester, Begin(i) PROVE Once(f)'
    BY <1>2, <2>1, <2>4, BeginOnce
  <2>5. ASSUME NEW i \in Ingester, Prepared(i) \/ SplitOriginal(i) \/ PrepareFails(i) \/ NoDocument(i)
        PROVE  Once(f)'
    BY <2>1, <2>5, PreparedOnce, SplitOnce, PrepareFailsOnce, NoDocumentOnce
  <2>6. ASSUME NEW i \in Ingester, RegisterDocument(i) \/ Register(i) \/ Retire(i) PROVE Once(f)'
    BY <2>1, <2>6, RegisterOnce, RetireOnce
  <2>7. ASSUME NEW n \in Name, Ship(n) \/ ShipMissing(n) PROVE Once(f)'
    BY <2>1, <2>7, ShipOnce, ShipMissingOnce
  <2>8. ASSUME NEW g \in Sources, NEW m \in Version, Drop(g, m) PROVE Once(f)'
    BY <2>1, <2>8, DropOnce
  <2> QED BY <2>2, <2>3, <2>4, <2>5, <2>6, <2>7, <2>8 DEF Next, Step
<1> QED BY <1>1, <1>2 DEF OnceInv

\* ingest_folder keeps OnceInv: what it has prepared is known by its row, by a memo
\* or by the pass that has it in hand, unless the history says how that was lost.
THEOREM PostedOnceInvariance == Spec => []OnceInv
<1>1. Init => OnceInv
  <2> SUFFICES ASSUME Init PROVE OnceInv
    OBVIOUS
  <2>1. KeptInv
    BY KeptAtFirst
  <2>2. \A i \in Ingester : work[i] = Idle
    BY DEF Init
  <2>3. Tidy
    BY <2>2, IdleIs DEF Tidy
  <2>4. ASSUME NEW f \in Sources PROVE Once(f)
    <3>1. \A r \in Role : disk[<<f, r>>] = 0
      BY PairIsName DEF Init, Nothing
    <3>2. \A p \in Piece, v \in Num : posts[<<f, p, v>>] = 0
      BY DEF Init, Posting, Piece, Num
    <3>3. \A i \in Ingester, r \in Role : ~Has(i, f, r)
      BY <2>2, IdleIs, NobodyIsName DEF Has
    <3> QED BY <3>1, <3>2, <3>3 DEF Once, Single, Owed, Clean, Known, ToPrepare, Fresher, Role
  <2> QED BY <2>1, <2>3, <2>4 DEF OnceInv
<1>2. OnceInv /\ [Next]_vars => OnceInv'
  <2> SUFFICES ASSUME OnceInv, [Next]_vars PROVE OnceInv'
    OBVIOUS
  <2>1. CASE UNCHANGED vars
    <3>1. UNCHANGED <<scenario, drops, mtime, disk, row, memo, work, posts, contested, died, lapsed>>
      BY <2>1 DEF vars, world, history
    <3>2. KeptInv'
      BY <2>1, KeptStutter DEF OnceInv
    <3>3. Tidy'
      BY <3>1 DEF OnceInv, Tidy
    <3>4. ASSUME NEW f \in Sources, f \notin Flawed' PROVE Once(f)'
      <4>1. Types /\ Passes /\ Kept(f) /\ Once(f)
        BY <3>1, <3>4 DEF OnceInv, KeptInv, Flawed
      <4>2. Still(f) /\ HandsOff(f) /\ \A r \in Role : SameMemory(f, r)
        BY <3>1, StillIf, SameWorkHandsOff
      <4> QED BY <3>1, <4>1, <4>2, RecallAll, OnceFrame
    <3> QED BY <3>2, <3>3, <3>4 DEF OnceInv
  <2> QED BY <2>1, OnceStep
<1> QED BY <1>1, <1>2, PTL DEF Spec

\* The rows and the two memos of ingest_folder keep a file that stays on the disk
\* from being prepared and posted again: a posting is double only for a source that
\* two passes had in hand at once, a process died over, or whose memo entry was
\* overwritten or came too late.
THEOREM DropsArePostedOnce == Spec => []PostedOnce
<1>1. OnceInv => PostedOnce
  <2> SUFFICES ASSUME OnceInv, NEW p \in Posting, p[1] \notin Flawed PROVE posts[p] # 2
    BY DEF PostedOnce, Flawed
  <2>1. PICK f \in Sources, q \in Piece, v \in Num : p = <<f, q, v>>
    BY DEF Posting, Piece, Num
  <2>2. posts[p] \in {0, 1}
    BY <2>1 DEF OnceInv, Once, Single
  <2> QED BY <2>2
<1> QED BY <1>1, PostedOnceInvariance, PTL
===============================================================================
