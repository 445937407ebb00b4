----------------------------- MODULE ItemLedger -----------------------------
(***************************************************************************)
(* What a queue of undelivered entries promises its caller, whatever it is *)
(* made of: an entry that was accepted is handed back at most once, and it *)
(* only leaves the queue otherwise by being reported as dropped or by      *)
(* being lost to a cause outside the queue.                                *)
(***************************************************************************)
CONSTANTS
    Items,         \* the entries that may be offered
    Preexisting    \* those an earlier process had stored

VARIABLES
    stored,        \* the entries that may still be handed back
    handed,        \* handed back
    told,          \* reported as dropped
    lost           \* lost to a crash or to another program

ledgerVars == <<stored, handed, told, lost>>

Init ==
    /\ stored = Preexisting
    /\ handed = {} /\ told = {} /\ lost = {}

Unseen == Items \ (stored \cup handed \cup told \cup lost)

Accept(i) ==
    /\ stored' = stored \cup {i}
    /\ UNCHANGED <<handed, told, lost>>

Refuse(i) ==
    /\ told' = told \cup {i}
    /\ UNCHANGED <<stored, handed, lost>>

Hand(i) ==
    /\ stored' = stored \ {i}
    /\ handed' = handed \cup {i}
    /\ UNCHANGED <<told, lost>>

(* Reports may precede the removal of the entry they are about. *)
LetGo ==
    /\ stored' \subseteq stored
    /\ told \subseteq told' /\ lost \subseteq lost'
    /\ stored \ stored' \subseteq told' \cup lost'
    /\ UNCHANGED handed

Next ==
    \/ \E i \in Unseen : Accept(i) \/ Refuse(i)
    \/ \E i \in stored : Hand(i)
    \/ LetGo

Spec == Init /\ [][Next]_ledgerVars

(* No entry that was handed back is kept for another delivery. *)
AtMostOnce == stored \cap handed = {}
=============================================================================
