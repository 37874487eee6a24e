---------------------------- MODULE MCMediaPrep -----------------------------
EXTENDS MediaPrep

Kind(s, n, o, f, d, e) == [stage |-> s, fresh |-> n, oversize |-> o, foreign |-> f,
                           deaths |-> d, faults |-> e]

\* Two sweeps of what an earlier session left.
Left == {Kind("captured", FALSE, FALSE, TRUE, 1, 1), Kind("captured", FALSE, TRUE, FALSE, 0, 1),
         Kind("remuxed", FALSE, FALSE, TRUE, 1, 1), Kind("remuxed", FALSE, TRUE, FALSE, 1, 0)}

\* The uploader, and the sweeps that follow it.
Fresh == {Kind("captured", TRUE, o, f, 1, 1) : o \in BOOLEAN, f \in BOOLEAN}

\* The recovery of a row refused as oversize.
Refused == {Kind("refused", FALSE, TRUE, FALSE, 1, 1)}

AllRecordings == Left \cup Fresh \cup Refused

\* One fresh capture and no misfortune.
FreshCapture == {Kind("captured", TRUE, FALSE, FALSE, 0, 0)}

Uncontended == ~Contended
=============================================================================
