------------------------------ MODULE MCIngest ------------------------------
(* Small instances of Ingest for TLC. *)
EXTENDS Ingest

CONSTANTS x, y, z,      \* paths
          b,            \* the one content they all hold
          arch,         \* archiver: reconcile
          rec, orph     \* recorder and drop-zone sweeps: register_file

SameBytes == [p \in Path |-> b]
OwnIdent == [p \in Path |-> p]

\* y has a better name than x, and none better than z.
YWins == [p \in Path |-> IF p = x THEN 0 ELSE 1]

\* The archiver's sweep and the recorder's uploader meet on x; y is the recorder's.
Meeting == [w \in Worker |-> CASE w = arch -> {x} [] w = rec -> {x, y} [] OTHER -> {z}]
=============================================================================
