------------------------------ MODULE ClaimBatch ------------------------------
(***************************************************************************)
(* Which rows ItemStore.claim_batch hands to the drain: the order of the    *)
(* clusters, the album gathered around the head, the minimum-batch gate     *)
(* with its age flush, and the documents that wait for their media.  The    *)
(* drain is reduced to one batch in flight and what may become of it        *)
(* (Dispatcher models the drain; there the choice of the batch is free).    *)
(***************************************************************************)
EXTENDS Integers, FiniteSets, FiniteSetsExt

CONSTANTS
    Row,
    Owner,      \* [Row -> (platform, username)]: the row's cluster
    Source,     \* [Row -> {"archiver", "recorder", "orphaned"}]
    Label,      \* [Row -> COALESCE(group_key, caption, '')]
    Dest,       \* [Row -> (chat_id, topic_id)]
    Media,      \* [Row -> {"photo", "inline", "container", "other"}], its extension
    Priority,   \* [Row -> Nat]
    Size,       \* [Row -> Nat], file_size_bytes
    SplitLabel, \* the labels minted by split_group_key
    MinBatch,   \* [owners -> Nat], BatchPolicy.min_batch_size
    Flushing,   \* the owners with max_wait_hours > 0
    AlbumMax, ByteCap, RetryBudget,
    Backlog,    \* the rows in the table when the dispatcher starts
    MaxSecond,  \* bound: seconds at which rows arrive
    FaultBound  \* bound: floods, deaths, re-arms

ASSUME ClaimAssumption ==
    /\ Source \in [Row -> {"archiver", "recorder", "orphaned"}]
    /\ Media \in [Row -> {"photo", "inline", "container", "other"}]
    /\ Priority \in [Row -> Nat] /\ Size \in [Row -> Nat]
    /\ AlbumMax \in Nat \ {0} /\ RetryBudget \in Nat \ {0}
    /\ Backlog \subseteq Row
    /\ MaxSecond \in Nat /\ FaultBound \in Nat

VARIABLES
    status,     \* [Row -> Status]; "gone": the row was deleted
    attempts,
    disc,       \* discovered_at, in seconds; kept by the model once gone
    backoff,    \* rows whose retry_after is in the future
    aged,       \* rows older than their owner's max_wait_hours
    flight,     \* the batch the drain is sending
    now,
    faults

claimVars == <<status, attempts, disc, backoff, aged, flight, now, faults>>

Status == {"absent", "pending", "sending", "sent", "failed", "gone"}

WithStatus(s) == {r \in Row : status[r] = s}

Present == {r \in Row : status[r] \notin {"absent", "gone"}}

-----------------------------------------------------------------------------
(* Albums *)

\* orphaned_kind: a drop-zone mixes photos and inline videos, and keeps the
\* rest as documents.  media_bucket: everyone else's photo / video / single.
Bucket(r) ==
    IF Source[r] = "orphaned"
    THEN IF Media[r] \in {"photo", "inline"} THEN "media" ELSE "document"
    ELSE CASE Media[r] = "photo" -> "photo"
           [] Media[r] \in {"inline", "container"} -> "video"
           [] OTHER -> "single"

\* Batch identity without the bucket: GROUP_DISC and DEST_DISC.
Folder(r) == <<Owner[r], Source[r], Label[r], Dest[r]>>

Ready == WithStatus("pending") \ backoff

Candidates(a) ==
    {r \in Ready : Folder(r) = Folder(a) /\ Bucket(r) = Bucket(a)}

\* ORDER BY priority, discovered_at; ties in any order.
Earlier(r, s) ==
    \/ Priority[r] < Priority[s]
    \/ Priority[r] = Priority[s] /\ disc[r] < disc[s]

Bytes(S) == MapThenSumSet(LAMBDA r : Size[r], S)

\* The prefixes of the candidates that can grow no further under AlbumMax and
\* ByteCap.  The first row is taken whatever its size.
IsPrefix(S, C) == \A r \in S, s \in C \ S : ~Earlier(s, r)

Prefixes[C \in SUBSET Row] ==
    {S \in SUBSET C :
        /\ Cardinality(S) \in 1..AlbumMax /\ IsPrefix(S, C)
        /\ Cardinality(S) = 1 \/ Bytes(S) <= ByteCap
        /\ \/ S = C
           \/ Cardinality(S) = AlbumMax
           \/ \E s \in C \ S : /\ IsPrefix(S \cup {s}, C)
                               /\ Bytes(S \cup {s}) > ByteCap}

Albums(a) == IF Bucket(a) = "single" THEN {{a}} ELSE Prefixes[Candidates(a)]

-----------------------------------------------------------------------------
(* The gate *)

\* _min_batch: only the archiver's groups are held, and never split parts.
Required(a) ==
    IF Source[a] = "archiver" /\ Label[a] \notin SplitLabel
    THEN MinBatch[Owner[a]] ELSE 1

\* _has_pending_media_sibling, of rows in backoff too.
HeldForMedia(a) ==
    /\ Source[a] = "orphaned" /\ Bucket(a) = "document"
    /\ \E r \in WithStatus("pending") : Folder(r) = Folder(a) /\ Bucket(r) = "media"

NeverFlush(a, S) == FALSE            \* mutant: the age flush is lost

FlushDue(a, S) ==
    Source[a] = "archiver" /\ Owner[a] \in Flushing /\ S \cap aged # {}

\* The albums the anchor could ship as: none while the gate defers its group.
Shippable(a) ==
    IF a \notin Ready \/ HeldForMedia(a) THEN {}
    ELSE {S \in Albums(a) :
            \/ Bucket(a) = "single"
            \/ Cardinality(S) >= Required(a)
            \/ S # Candidates(a)                 \* truncated: a complete unit
            \/ FlushDue(a, S)}

CanShip(a) == Shippable(a) # {}

-----------------------------------------------------------------------------
(* The order of the clusters: _CLUSTER_ORDER *)

MatesPending(r) ==                   \* mutant: anchored on the oldest pending row
    {s \in WithStatus("pending") : Owner[s] = Owner[r]}

\* MIN over all rows of the cluster, delivered ones included.
Mates(r) == {s \in Present : Owner[s] = Owner[r]}

ClusterPriority(r) == Min({Priority[s] : s \in Mates(r)})
ClusterSeen(r) == Min({disc[s] : s \in Mates(r)})

Precedes(r, s) ==
    \/ ClusterPriority(r) < ClusterPriority(s)
    \/ /\ ClusterPriority(r) = ClusterPriority(s)
       /\ \/ ClusterSeen(r) < ClusterSeen(s)
          \/ ClusterSeen(r) = ClusterSeen(s) /\ Earlier(r, s)

\* The first rows of a scan over the anchors that are not deferred.
First[able \in SUBSET Row] == {a \in able : \A b \in able : ~Precedes(b, a)}

Heads == First[{r \in Row : CanShip(r)}]

-----------------------------------------------------------------------------
(* Actions *)

ClaimInit ==
    /\ status = [r \in Row |-> IF r \in Backlog THEN "pending" ELSE "absent"]
    /\ attempts = [r \in Row |-> 0]
    /\ disc = [r \in Row |-> 0]
    /\ backoff = {} /\ aged = {} /\ flight = {}
    /\ now = 0 /\ faults = 0

\* add_item
Arrive(r) ==
    /\ status[r] = "absent"
    /\ status' = [status EXCEPT ![r] = "pending"]
    /\ disc' = [disc EXCEPT ![r] = now]
    /\ UNCHANGED <<attempts, backoff, aged, flight, now, faults>>

Tick ==
    /\ now < MaxSecond /\ WithStatus("absent") # {}
    /\ now' = now + 1
    /\ UNCHANGED <<status, attempts, disc, backoff, aged, flight, faults>>

\* A row passes max_wait_hours, after the older ones of its owner.
Age(r) ==
    /\ r \in WithStatus("pending") \ aged
    /\ Source[r] = "archiver" /\ Owner[r] \in Flushing
    /\ \A s \in WithStatus("pending") \ aged :
          Owner[s] = Owner[r] => disc[r] <= disc[s]
    /\ aged' = aged \cup {r}
    /\ UNCHANGED <<status, attempts, disc, backoff, flight, now, faults>>

Become(S, s) == status' = [r \in Row |-> IF r \in S THEN s ELSE status[r]]

\* One transaction: scan, gather, pending -> sending.
Claim ==
    /\ flight = {}
    /\ \E a \in Heads : \E S \in Shippable(a) :
          /\ Become(S, "sending")
          /\ attempts' = [r \in Row |-> attempts[r] + IF r \in S THEN 1 ELSE 0]
          /\ flight' = S
    /\ UNCHANGED <<disc, backoff, aged, now, faults>>

\* What becomes of a row on its own: delivered or suppressed; a drop-zone row
\* deleted with its file; quarantined or out of budget; back without a
\* backoff (the file is missing, or the fallback's single send failed).
Outcomes(r) ==
    {"sent", "failed"} \cup (IF Source[r] = "orphaned" THEN {"gone"} ELSE {})
                      \cup (IF attempts[r] < RetryBudget THEN {"pending"} ELSE {})

Settle ==
    /\ flight # {}
    /\ \E out \in [flight -> {"sent", "failed", "gone", "pending"}] :
          /\ \A r \in flight : out[r] \in Outcomes(r)
          /\ status' = [r \in Row |-> IF r \in flight THEN out[r] ELSE status[r]]
    /\ flight' = {}
    /\ UNCHANGED <<attempts, disc, backoff, aged, now, faults>>

\* mark_failed with a backoff: another go, or the budget is spent.
Fail ==
    /\ flight # {}
    /\ LET spent == {r \in flight : attempts[r] >= RetryBudget}
       IN /\ status' = [r \in Row |-> IF r \in spent THEN "failed"
                                      ELSE IF r \in flight THEN "pending"
                                      ELSE status[r]]
          /\ backoff' = (backoff \cup flight) \ spent
    /\ flight' = {}
    /\ UNCHANGED <<attempts, disc, aged, now, faults>>

Fault == faults < FaultBound /\ faults' = faults + 1

\* requeue: the claim's attempt is refunded, nothing is stamped.
Flood ==
    /\ Fault /\ flight # {}
    /\ Become(flight, "pending")
    /\ attempts' = [r \in Row |-> attempts[r] - IF r \in flight THEN 1 ELSE 0]
    /\ flight' = {}
    /\ UNCHANGED <<disc, backoff, aged, now>>

\* The process dies: its rows stay 'sending'.
Crash ==
    /\ Fault /\ flight # {}
    /\ flight' = {}
    /\ UNCHANGED <<status, attempts, disc, backoff, aged, now>>

\* reset_stuck_sending
Rescue ==
    LET stuck == WithStatus("sending") \ flight
    IN /\ stuck # {}
       /\ Become(stuck, "pending")
       /\ attempts' = [r \in Row |-> attempts[r] - IF r \in stuck THEN 1 ELSE 0]
       /\ UNCHANGED <<disc, backoff, aged, flight, now, faults>>

BackoffOver(r) ==
    /\ r \in backoff /\ backoff' = backoff \ {r}
    /\ UNCHANGED <<status, attempts, disc, aged, flight, now, faults>>

\* reset failed, auto-retry
Rearm(r) ==
    /\ Fault /\ status[r] = "failed"
    /\ Become({r}, "pending")
    /\ attempts' = [attempts EXCEPT ![r] = 0]
    /\ UNCHANGED <<disc, backoff, aged, flight, now>>

ClaimNext ==
    \/ \E r \in Row : Arrive(r) \/ Age(r) \/ BackoffOver(r) \/ Rearm(r)
    \/ Claim \/ Tick \/ Settle \/ Fail \/ Flood \/ Crash \/ Rescue

ClaimSpec == ClaimInit /\ [][ClaimNext]_claimVars

\* The drain polls for ever and every send returns; time passes, so ages and
\* backoffs come due and the watchdog runs.
FairClaimSpec ==
    /\ ClaimSpec
    /\ WF_claimVars(Claim)
    /\ WF_claimVars(Settle \/ Fail)
    /\ WF_claimVars(Rescue)
    /\ WF_claimVars(\E r \in Row : Age(r))
    /\ WF_claimVars(\E r \in Row : BackoffOver(r))

-----------------------------------------------------------------------------
(* Properties *)

ClaimTypeOK ==
    /\ status \in [Row -> Status] /\ attempts \in [Row -> 0..RetryBudget]
    /\ disc \in [Row -> 0..MaxSecond]
    /\ backoff \subseteq Row /\ aged \subseteq Row
    /\ flight \subseteq WithStatus("sending")
    /\ now \in 0..MaxSecond /\ faults \in 0..FaultBound

Claimed == {r \in Row : status[r] = "pending" /\ status'[r] = "sending"}

\* "an album must never mix two chats OR two forum topics", nor documents with
\* inline media, nor two users' files.
AlbumsHaveOneDestination ==
    [][\A r, s \in Claimed :
          /\ Dest[r] = Dest[s] /\ Owner[r] = Owner[s]
          /\ Bucket(r) = Bucket(s)]_claimVars

\* The rows that ever were in r's cluster; the first of them set its place.
EverMates(r) == {s \in Row : status[s] # "absent" /\ Owner[s] = Owner[r]}
FirstSeen(r) == Min({disc[s] : s \in EverMates(r)})
Urgency(r) == Min({Priority[s] : s \in EverMates(r)})

\* A user's place in the queue is that of their first file, whatever was
\* delivered since: nobody who came strictly later, with no more urgent file,
\* is claimed ahead of a user whose next album could ship.  Clusters that lost
\* a row to deletion are out (BlocksStayContiguous).
Overtakes(r, s) ==
    /\ Owner[r] # Owner[s] /\ s \in Ready
    /\ Urgency(s) <= Urgency(r) /\ FirstSeen(s) < FirstSeen(r)
    /\ CanShip(s)

FirstSeenFirstServed ==
    [][\A r \in Claimed, s \in Row :
          Overtakes(r, s) => \E g \in WithStatus("gone") : Owner[g] = Owner[s]]_claimVars

\* The claim's comment without the exception: a user's block keeps its place.
BlocksStayContiguous == [][\A r \in Claimed, s \in Row : ~Overtakes(r, s)]_claimVars

\* No pending row waits for ever behind the gate, its media siblings, its
\* backoff or the clusters before it: arrivals and faults are bounded, and the
\* table drains of every row that a gate does not hold for good.
NoStarvation ==
    <>[]\A r \in WithStatus("pending") :
            Required(r) > 1 /\ Owner[r] \notin Flushing
=============================================================================
