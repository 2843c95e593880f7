------------------------- MODULE OwnershipDiagram -------------------------
(***************************************************************************)
(* What timer ownership promises, without how it is obtained: the state    *)
(* diagram of the timer lifecycle in ARCHITECTURE.md together with the     *)
(* kernel request it stands for.  A request is in force only while it is   *)
(* claimed, it is claimed for certain only when it is in force, and every  *)
(* way back to Released drops it.                                          *)
(***************************************************************************)
VARIABLES own, held

Init == own = "Released" /\ held = FALSE

Acquire == own = "Released" /\ own' = "Owned" /\ held' = TRUE

AcquireUnverified == own = "Released" /\ own' = "Uncertain" /\ held' \in BOOLEAN

Release == own # "Released" /\ own' = "Released" /\ held' = FALSE

ReleaseFails == own = "Owned" /\ own' = "Uncertain" /\ UNCHANGED held

Next == Acquire \/ AcquireUnverified \/ Release \/ ReleaseFails

Spec == Init /\ [][Next]_<<own, held>>
=============================================================================
