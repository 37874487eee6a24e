----------------------------- MODULE MCAccounts -----------------------------
(* Small instances of Accounts for TLC. *)
EXTENDS Accounts, TLC

CONSTANTS u, f, g

FileSymmetry == Permutations(File)
OneOwner == [x \in File |-> u]
=============================================================================
