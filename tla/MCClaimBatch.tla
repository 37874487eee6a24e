---------------------------- MODULE MCClaimBatch ----------------------------
(* Instances of ClaimBatch. *)
EXTENDS ClaimBatch, TLC

CONSTANTS m, n, d, p, zone, alice

\* A drop-zone folder with two photos and a document, ingested with
\* --priority 10, the archiver's own; one file of an archiver user, behind a
\* gate of two that only its age opens.
MixOwner == [r \in {m, n, d} |-> zone] @@ p :> alice
MixSource == [r \in {m, n, d} |-> "orphaned"] @@ p :> "archiver"
MixLabel == [r \in {m, n, d, p} |-> "folder"]
MixDest == [r \in {m, n, d} |-> "chat"] @@ p :> "default"
MixMedia == d :> "container" @@ [r \in {m, n, p} |-> "photo"]
MixPriority == [r \in {m, n, d, p} |-> 10]
MixSize == [r \in {m, n, d, p} |-> 1]
MixMinBatch == alice :> 2 @@ zone :> 1
=============================================================================
