------------------------------ MODULE Delivery ------------------------------
(***************************************************************************)
(* What the dispatcher promises of the queue, whatever its processes and    *)
(* operators do: the life of a row, the chat that only grows, and the files *)
(* it may take away.  Dispatcher implements it.                             *)
(***************************************************************************)
CONSTANTS
    Item,       \* files that may have a row
    Bytes       \* Bytes[i]: what i carries; copies carry the same

VARIABLES
    status,     \* [Item -> Status of the row]
    chat,       \* the bytes that are in the chat
    removed     \* the files the dispatcher has deleted

vars == <<status, chat, removed>>

Init ==
    /\ status = [i \in Item |-> "absent"]
    /\ chat = {}
    /\ removed = {}

\* A row may come back to the queue, or go, from anywhere.  Only a pending row
\* is claimed; only a row not yet concluded fails; and only a claimed row is
\* recorded as delivered, when its bytes are.
MayBecome(i, new) ==
    \/ new \in {"pending", "absent"}
    \/ new = "sending" /\ status[i] = "pending"
    \/ new = "failed" /\ status[i] \in {"pending", "sending"}
    \/ new = "sent" /\ status[i] = "sending" /\ Bytes[i] \in chat

\* One transaction on the table.
Record ==
    /\ DOMAIN status' = Item
    /\ \A i \in Item : status'[i] = status[i] \/ MayBecome(i, status'[i])
    /\ UNCHANGED <<chat, removed>>

\* One message, with the bytes of some files in it; it is never taken back.
Post ==
    /\ \E sent \in SUBSET Item : chat' = chat \cup {Bytes[i] : i \in sent}
    /\ UNCHANGED <<status, removed>>

\* A file is deleted only after its bytes are in the chat.
Remove ==
    /\ \E i \in Item : Bytes[i] \in chat /\ removed' = removed \cup {i}
    /\ UNCHANGED <<status, chat>>

Next == Record \/ Post \/ Remove

Spec == Init /\ [][Next]_vars
=============================================================================
