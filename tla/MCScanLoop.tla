----------------------------- MODULE MCScanLoop -----------------------------
EXTENDS ScanLoop

MCUsers == 1..4

Roster(p, bad, c, prio) ==
    [platform |-> p, account |-> [u \in MCUsers |-> IF u \in bad THEN c ELSE "posts"],
     priority |-> prio]

MCScenarios ==
    {Roster(p, {1}, "broken", {4}) : p \in {"x", "instagram", "tiktok"}}
    \cup {Roster("tiktok", {1}, "gone", {4}), Roster("instagram", {1, 2}, "missing", {4}),
          Roster("instagram", {}, "posts", {})}
=============================================================================
