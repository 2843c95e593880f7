----------------------------- MODULE TickPolicy -----------------------------
(***************************************************************************)
(* The pure decisions of True Tick: what power permits, which operating    *)
(* tier follows from the degradation counters, what a power change does to *)
(* an ownership, and which menu commands are enabled.                      *)
(***************************************************************************)
EXTENDS Integers

CONSTANTS
    AnomalyLimit,    \* MAX_ANOMALIES_BEFORE_QUIESCENT
    RejectionLimit   \* KERNEL_REJECTIONS_BEFORE_FLOOR

ASSUME PolicyAssumption ==
    /\ AnomalyLimit \in Nat \ {0}
    /\ RejectionLimit \in Nat \ {0}

PowerState    == {"Ac", "Battery", "BatterySaver", "Unknown"}
OperatingTier == {"Nominal", "SurfaceDegraded", "MetrologyDegraded", "Quiescent"}
-----------------------------------------------------------------------------
(* decide().status = Requested, with enabled and eligible_profile true as  *)
(* every caller passes them.                                               *)
decide(power, lockout) ==
    \/ power = "Ac"
    \/ power \in {"Battery", "BatterySaver"} /\ ~lockout

acquisition_is_allowed(automatic, power, lockout) ==
    automatic /\ decide(power, lockout)

resume_on_ac_applies(auto_resume, pending, power, own) ==
    auto_resume /\ pending /\ power = "Ac" /\ own = "Released"

power_reconciliation(automatic, power, own, lockout) ==
    IF ~decide(power, lockout) THEN "ReleaseBlocked"
    ELSE CASE own = "Owned"     -> "PreserveOwned"
           [] own = "Uncertain" -> "PreserveUncertain"
           [] own = "Released"  -> IF automatic THEN "Acquire" ELSE "ShowStopped"

uncertain_recovery_attempts_acquire(automatic, power) == automatic /\ power = "Ac"
-----------------------------------------------------------------------------
(* Where a tier evaluation leads: a tier to enter, or Stay.                *)
evaluate_tier(tier, surface, rejected, anomalies) ==
    IF anomalies >= AnomalyLimit THEN "Quiescent"
    ELSE IF ~surface /\ tier = "Nominal" THEN "SurfaceDegraded"
    ELSE IF rejected >= RejectionLimit /\ tier \notin {"MetrologyDegraded", "Quiescent"}
    THEN "MetrologyDegraded"
    ELSE IF /\ tier \in {"SurfaceDegraded", "MetrologyDegraded"}
            /\ surface /\ rejected = 0 /\ anomalies = 0
    THEN "Nominal"
    ELSE "Stay"

tier_allows_high_resolution(tier) == tier \in {"Nominal", "SurfaceDegraded"}
-----------------------------------------------------------------------------
(* What the tray shows for a stored status.                                *)
scheduled_lifecycle_status(status, handoff, scheduled) ==
    IF handoff \/ status = "Pausing" THEN "Stopping"
    ELSE CASE status = "Stopped" /\ scheduled = "Start" -> "ScheduledStart"
           [] status = "Running" /\ scheduled = "Stop"  -> "ScheduledStop"
           [] OTHER -> status

StartEnabled(status) == status \notin {"Running", "Starting", "Stopping", "Paused"}
StopEnabled(status)  == status \in {"Running", "Starting", "ScheduledStop", "Unverified"}
=============================================================================
