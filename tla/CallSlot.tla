------------------------------ MODULE CallSlot ------------------------------
(***************************************************************************)
(* What the call bridge promises about waCallBridge.active: a slot that    *)
(* one call at a time holds.  A call takes the slot when it is free, holds *)
(* it at most once, and is the only one that gives it back.                *)
(***************************************************************************)
CONSTANTS Sessions,   \* the calls that may be bridged
          None        \* the empty slot

VARIABLES holder,     \* who has the slot
          spent       \* the calls that have ever held it

vars == <<holder, spent>>

Init == holder = None /\ spent = {}

Take(s) ==
    /\ holder = None
    /\ s \notin spent
    /\ holder' = s
    /\ spent' = spent \cup {s}

Release ==
    /\ holder # None
    /\ holder' = None
    /\ UNCHANGED spent

Next == Release \/ \E s \in Sessions : Take(s)

Spec == Init /\ [][Next]_vars
=============================================================================
