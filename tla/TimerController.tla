-------------------------- MODULE TimerController --------------------------
(***************************************************************************)
(* TimerController<P> of tick-ownership as a value and the operations on   *)
(* it.  Each operation is an operator from the controller before the call  *)
(* to the controller after it; the extra arguments are what the platform   *)
(* answered.  TimerOwnership runs these operations in any order,           *)
(* TrayEngine runs them in the order the tray application does.            *)
(*                                                                         *)
(* own, ver, req, sel and bnd are the fields ownership, verification,      *)
(* requested_interval, selected_interval and release_boundary.  held is    *)
(* the kernel's side: whether this process has an NtSetTimerResolution     *)
(* request in force.                                                       *)
(***************************************************************************)
EXTENDS TimerPlatform

OwnershipState == {"Released", "Owned", "Uncertain"}
Verification   == {"NotCollected", "Verified", "FinerThanRequested", "Unverified"}

Controller(S) ==
    [own : OwnershipState, ver : Verification,
     req : S \cup {Automatic}, sel : Option(S), bnd : Option(S), held : BOOLEAN]

NewController(requested) ==
    [own |-> "Released", ver |-> "NotCollected", req |-> requested,
     sel |-> NoInterval, bnd |-> NoInterval, held |-> FALSE]
-----------------------------------------------------------------------------
(* query(): the boundary of a release window, else the selection, else the *)
(* interval resolve() finds now (NoInterval if it fails), kept even when   *)
(* the reading that follows fails.                                         *)
QueryInterval(c, resolved) ==
    IF c.bnd # NoInterval THEN c.bnd
    ELSE IF c.sel # NoInterval THEN c.sel ELSE resolved

Query(c, resolved) ==
    [c EXCEPT !.sel = IF c.bnd = NoInterval THEN QueryInterval(c, resolved) ELSE @]

(* observe_current(boundary) reads nothing unless the window is open.      *)
CanObserve(c, boundary) == c.bnd = boundary
-----------------------------------------------------------------------------
StartOnlyIfNotOwned(c) == c.own = "Owned"   \* faulty: forgets Uncertain

(* start(): its early return, and what each answer of the platform leaves. *)
StartIsNoop(c) == c.own # "Released" \/ c.ver = "Unverified"

StartOutcome ==
    {"ResolveFailed",    \* resolve() failed: query error or InvalidInterval
     "PreflightFailed",  \* a preflight failed before the native call
     "RequestFailed",    \* NtSetTimerResolution(TRUE) refused
     "Unverified",       \* postcondition not met, rolled back
     "RollbackFailed",   \* postcondition not met, NtSetTimerResolution(FALSE) refused
     "FinerThanRequested", "Verified"}

Verified(outcome) == outcome \in {"FinerThanRequested", "Verified"}

StartKeepsBoundary(c, interval, outcome) ==   \* faulty: release_boundary stays
    IF StartIsNoop(c) \/ ~Verified(outcome) THEN c
    ELSE [c EXCEPT !.sel = interval, !.own = "Owned", !.ver = outcome, !.held = TRUE]

Start(c, interval, outcome) ==
    LET asked == [c EXCEPT !.sel = interval, !.bnd = NoInterval]
        unverified == [asked EXCEPT !.own = "Uncertain", !.ver = "Unverified"]
    IN  IF StartIsNoop(c) \/ outcome = "ResolveFailed" THEN c
        ELSE CASE outcome \in {"PreflightFailed", "RequestFailed"} -> asked
               [] outcome = "Unverified" -> unverified
               [] outcome = "RollbackFailed" -> [unverified EXCEPT !.held = TRUE]
               [] Verified(outcome) ->
                    [asked EXCEPT !.own = "Owned", !.ver = outcome, !.held = TRUE]
-----------------------------------------------------------------------------
(* stop(): without a selection no native call is made at all.              *)
StopReachesKernel(c) == c.own # "Released" /\ c.sel # NoInterval

StopSucceeds(c, status) == c.own = "Released" \/ (c.sel # NoInterval /\ status)

(* Faulty: a refused native release is taken for a release.                *)
StopForgetsFailure(c, status) ==
    IF ~StopReachesKernel(c) THEN c
    ELSE [c EXCEPT !.own = "Released", !.ver = "NotCollected",
                   !.bnd = c.sel, !.sel = NoInterval, !.held = @ /\ ~status]

(* Faulty: the verification of the released request is kept.               *)
StopKeepsVerification(c, status) ==
    IF ~StopReachesKernel(c) THEN c
    ELSE IF ~status THEN [c EXCEPT !.ver = "Unverified"]
    ELSE [c EXCEPT !.own = "Released", !.bnd = c.sel, !.sel = NoInterval, !.held = FALSE]

(* Faulty: no release window is opened.                                    *)
StopOpensNoWindow(c, status) ==
    IF ~StopReachesKernel(c) THEN c
    ELSE IF ~status THEN [c EXCEPT !.ver = "Unverified"]
    ELSE [c EXCEPT !.own = "Released", !.ver = "NotCollected",
                   !.sel = NoInterval, !.held = FALSE]

(* Faulty: the selection is taken before the native call can fail.         *)
StopTakesSelection(c, status) ==
    IF ~StopReachesKernel(c) THEN c
    ELSE IF ~status THEN [c EXCEPT !.ver = "Unverified", !.sel = NoInterval]
    ELSE [c EXCEPT !.own = "Released", !.ver = "NotCollected",
                   !.bnd = c.sel, !.sel = NoInterval, !.held = FALSE]

Stop(c, status) ==
    IF ~StopReachesKernel(c) THEN c
    ELSE IF ~status THEN [c EXCEPT !.ver = "Unverified"]
    ELSE [c EXCEPT !.own = "Released", !.ver = "NotCollected",
                   !.bnd = c.sel, !.sel = NoInterval, !.held = FALSE]
-----------------------------------------------------------------------------
NeverClears(c) == c   \* faulty: the window stays open

clear_release_boundary(c) == [c EXCEPT !.bnd = NoInterval]

ClampKeepsSelection(c, floor) ==      \* faulty: the old selection survives
    [c EXCEPT !.req = IF @ < floor THEN floor ELSE @]

clamp_requested_interval_floor(c, floor) ==
    [c EXCEPT !.req = IF @ < floor THEN floor ELSE @,
              !.sel = IF @ # NoInterval /\ @ < floor THEN NoInterval ELSE @]

(* A settle probe whose native release and second reading succeeded.       *)
SettleProbed(c) == [c EXCEPT !.bnd = NoInterval, !.sel = NoInterval, !.held = FALSE]
=============================================================================
