--------------------------- MODULE TimerOwnership ---------------------------
(***************************************************************************)
(* The timer controller driven by an arbitrary caller against an arbitrary *)
(* kernel: every public operation of TimerController<P> over               *)
(* WindowsTimerPlatform may be called at any time, and every native call   *)
(* in it may fail, return stale readings or be answered under different    *)
(* hardware bounds than the call before it.                                *)
(***************************************************************************)
EXTENDS TimerController

CONSTANTS
    Requested,      \* the configured interval, Automatic or fixed
    Readings,       \* effective resolutions the kernel may report
    KernelBounds,   \* bounds NtQueryTimerResolution may report
    Floors,         \* floors the degradation tier may impose
    ProbeThreshold, \* KERNEL_SETTLE_HIGH_RESOLUTION_THRESHOLD_HNS
    ProbeAttempts   \* SETTLE_PROBE_ATTEMPTS

ASSUME OwnershipAssumption ==
    /\ Requested \in Nat
    /\ Readings \subseteq Nat
    /\ KernelBounds \subseteq Bounds(Nat)
    /\ Floors \subseteq Nat \ {0}
    /\ ProbeThreshold \in Nat
    /\ ProbeAttempts \in Nat

VARIABLES
    ctl,       \* the controller and the kernel request of this process
    effective, \* snapshot.effective: the last reading, or NoReading
    attempts,  \* attempts_used of the startup settle probe
    floor      \* history: the highest floor imposed so far

vars == <<ctl, effective, attempts, floor>>

TypeOK ==
    /\ ctl \in Controller(Nat)
    /\ effective \in Option(Nat)
    /\ attempts \in 0..ProbeAttempts
    /\ floor \in Nat

Init ==
    /\ ctl = NewController(Requested)
    /\ effective = NoReading
    /\ attempts = 0
    /\ floor = 0
-----------------------------------------------------------------------------
(* platform.resolve: a query, then the interval the request resolves to.   *)
Resolutions ==
    {resolve_request(b, ctl.req) : b \in KernelBounds} \cup {NoInterval}

query ==
    \E resolved \in Resolutions, reading \in Readings \cup {NoReading} :
        /\ ctl' = Query(ctl, resolved)
        /\ effective' = IF QueryInterval(ctl, resolved) = NoInterval
                        THEN NoReading ELSE reading
        /\ UNCHANGED <<attempts, floor>>

(* The handoff watcher polls with the boundary it remembered.              *)
observe_current ==
    \E boundary \in {ctl.bnd}, reading \in Readings \cup {NoReading} :
        /\ boundary # NoInterval
        /\ CanObserve(ctl, boundary)
        /\ effective' = reading
        /\ UNCHANGED <<ctl, attempts, floor>>

(* start() and platform.request() under it: resolve, preflight, preflight  *)
(* again, set, sample three times, roll back what is not verified.         *)
StartWith(interval, outcome, reading) ==
    /\ ctl' = Start(ctl, interval, outcome)
    /\ effective' = IF StartIsNoop(ctl) THEN effective ELSE reading
    /\ UNCHANGED <<attempts, floor>>

start_fails ==
    \/ StartWith(NoInterval, "ResolveFailed", NoReading)
    \/ \E interval \in Resolutions \ {NoInterval} :
         \/ StartWith(interval, "PreflightFailed", NoReading)
         \/ \E reading \in Readings :
              \/ StartWith(interval, "PreflightFailed", reading)
              \/ StartWith(interval, "RequestFailed", reading)

(* The native set succeeded and left `current`; without a trusted median   *)
(* the record falls back to that value.                                    *)
start_samples ==
    \E interval \in Resolutions \ {NoInterval}, current \in Readings,
       samples \in [1..3 -> Readings \cup {NoReading}], rolled_back \in BOOLEAN :
        LET verdict == Postcondition(samples, interval)
            median  == sample_interval_median(samples, interval)
        IN  StartWith(interval,
                      IF verdict = "Unverified" /\ ~rolled_back
                      THEN "RollbackFailed" ELSE verdict,
                      IF median = NoReading THEN current ELSE median)

stop ==
    \E status \in BOOLEAN, reading \in Readings :
        /\ ctl' = Stop(ctl, status)
        /\ effective' = IF StopReachesKernel(ctl) /\ status THEN reading ELSE effective
        /\ UNCHANGED <<attempts, floor>>

ClearReleaseBoundary ==
    /\ ctl' = clear_release_boundary(ctl)
    /\ UNCHANGED <<effective, attempts, floor>>

ClampFloor ==
    \E f \in Floors :
        /\ ctl' = clamp_requested_interval_floor(ctl, f)
        /\ floor' = IF f > floor THEN f ELSE floor
        /\ UNCHANGED <<effective, attempts>>

(* Faulty: the attempts are not budgeted.                                  *)
SettleProbeUnbudgeted ==
    /\ effective # NoReading /\ ctl.own = "Released" /\ effective <= ProbeThreshold
    /\ attempts' = attempts + 1
    /\ UNCHANGED <<ctl, effective, floor>>

(* attempt_startup_kernel_settle_probe: a native release on a candidate    *)
(* interval, only while nothing is owned and the system is already fine.   *)
SettleProbe ==
    /\ attempts < ProbeAttempts
    /\ effective # NoReading
    /\ ctl.own = "Released"
    /\ effective <= ProbeThreshold
    /\ \/ /\ attempts' = attempts + 1                \* the native call failed
          /\ UNCHANGED <<ctl, effective>>
       \/ \E reading \in Readings :                  \* Resolved or external
            /\ ctl' = SettleProbed(ctl)
            /\ effective' = reading
            /\ attempts' = ProbeAttempts
    /\ UNCHANGED floor

Next ==
    \/ query \/ observe_current
    \/ start_fails \/ start_samples \/ stop
    \/ ClearReleaseBoundary \/ ClampFloor \/ SettleProbe

Spec == Init /\ [][Next]_vars
-----------------------------------------------------------------------------
(* A kernel request of this process is never in force while the controller *)
(* reports Released: no failed preflight, failed rollback, failed release, *)
(* clamp or probe, in any order, loses track of one (start/stop of         *)
(* tick-ownership).                                                        *)
KernelRequestTracked == ctl.held => ctl.own # "Released"

(* Released implies NotCollected, so the early return of start() on        *)
(* Unverified can never block a released controller: once a doubtful       *)
(* ownership has been released, the next start reaches the kernel again.   *)
ReleasedCanStart == ctl.own = "Released" => ctl.ver = "NotCollected"

(* A release window (release_boundary) is open only while nothing is owned *)
(* or selected, which is what lets query() and observe_current() answer    *)
(* from the boundary without resolving a new interval.                     *)
BoundaryWindow ==
    ctl.bnd # NoInterval =>
        ctl.own = "Released" /\ ctl.sel = NoInterval /\ ~ctl.held

(* Once the degraded tier has imposed a floor, no selection below it       *)
(* survives or is ever resolved again, automatic requests included         *)
(* (clamp_requested_interval_floor).                                       *)
FloorHolds == ctl.sel # NoInterval => ctl.sel >= floor

(* The controller implements the lifecycle diagram of ARCHITECTURE.md.     *)
Diagram == INSTANCE OwnershipDiagram WITH own <- ctl.own, held <- ctl.held

(* Every step of the controller, whatever the kernel answers, is an edge   *)
(* of the lifecycle diagram or leaves ownership alone.                     *)
ImplementsDiagram == Diagram!Spec

(* The inductive strengthening of KernelRequestTracked.                    *)
IInv ==
    /\ TypeOK
    /\ KernelRequestTracked
    /\ ReleasedCanStart
    /\ BoundaryWindow
    /\ FloorHolds
    /\ ctl.req # Automatic \/ floor = 0
    /\ ctl.req >= floor
=============================================================================
