----------------------------- MODULE MCDropZone -----------------------------
EXTENDS DropZone

MCSources == {"a", "b"}
MCFolder == [a |-> "x", b |-> "y"]

Case(k, n, p, d, r, e) ==
    [kind |-> [a |-> k, b |-> "large"], times |-> [a |-> n, b |-> 0],
     protected |-> p, deleteAfter |-> d, runs |-> r, faults |-> e]

\* One name, dropped again after it has left.
Again == {Case(k, 2, FALSE, TRUE, 1, 1) : k \in {"ready", "wrap"}}
         \cup {Case("convert", 2, FALSE, TRUE, e, 1 - e) : e \in 0..1}

\* One name, and what keeps its original.
Kept == {Case(k, 1, TRUE, TRUE, 1, 1) : k \in {"ready", "convert", "wrap"}}
        \cup {Case("large", 1, FALSE, FALSE, 1, 1), Case("wrap", 1, FALSE, FALSE, 1, 1)}

Retired == {Case("large", 1, FALSE, TRUE, 1, 1), Case("vast", 1, FALSE, TRUE, 0, 1),
            Case("vast", 1, FALSE, TRUE, 1, 0)}

\* Two folders that share the memo.
Apart == {[Case("large", 1, FALSE, FALSE, 1, 0) EXCEPT !.kind["b"] = "wrap", !.times["b"] = 1]}

\* A file that cannot be read, and a death between the commits of the two memos.
Halves == {Case("ready", 1, TRUE, TRUE, 1, 2), Case("convert", 1, TRUE, TRUE, 0, 2)}

MCScenarios == Again \cup Kept \cup Retired \cup Apart \cup Halves
=============================================================================
