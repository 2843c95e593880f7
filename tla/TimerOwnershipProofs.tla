------------------------ MODULE TimerOwnershipProofs ------------------------
(***************************************************************************)
(* TimerOwnership for every configured interval, every set of kernel       *)
(* bounds, readings and floors: the inductive invariant, and the           *)
(* refinement of the lifecycle diagram.                                    *)
(***************************************************************************)
EXTENDS TimerOwnership, TLAPS

(* What resolve_request() returns is a usable interval, and a fixed        *)
(* request resolves to itself.                                             *)
LEMMA ResolveRequest ==
    ASSUME NEW b \in Bounds(Nat), NEW r \in Nat
    PROVE  /\ resolve_request(b, r) \in Option(Nat)
           /\ resolve_request(b, r) # NoInterval /\ r # Automatic
                => resolve_request(b, r) = r
BY DEF resolve_request, smallest_supported_boundary, numeric_interval,
       validate_interval, Bounds, Option, NoInterval, Automatic

(* Every resolution of the current request respects the imposed floor.     *)
LEMMA ResolutionsFloored ==
    ASSUME IInv, NEW i \in Resolutions
    PROVE  /\ i \in Option(Nat)
           /\ i # NoInterval => i >= floor
<1>1. ctl.req \in Nat /\ floor \in Nat
  BY DEF IInv, TypeOK, Controller, Automatic
<1>2. CASE i = NoInterval
  BY <1>2 DEF Option
<1>3. CASE i # NoInterval
  <2>1. PICK b \in KernelBounds : i = resolve_request(b, ctl.req)
    BY <1>3 DEF Resolutions
  <2>2. b \in Bounds(Nat)
    BY OwnershipAssumption
  <2>3. i \in Option(Nat) /\ (ctl.req # Automatic => i = ctl.req)
    BY <1>1, <1>3, <2>1, <2>2, ResolveRequest
  <2>4. i \in Nat
    BY <1>3, <2>3 DEF Option
  <2> QED
    BY <1>1, <1>3, <2>3, <2>4 DEF IInv, Automatic
<1> QED
  BY <1>2, <1>3

(* The middle of three numbers is one of them.                             *)
LEMMA MedianOfThree ==
    ASSUME NEW a \in Nat, NEW b \in Nat, NEW c \in Nat
    PROVE  median_of_three(a, b, c) \in {a, b, c}
BY DEF median_of_three

(* At most two accepted numbers have a least one.                          *)
LEMMA LeastOfTwo ==
    ASSUME NEW A, A # {}, NEW p \in Nat, NEW q \in Nat, A \subseteq {p, q}
    PROVE  (CHOOSE x \in A : \A y \in A : x <= y) \in Nat
<1>1. \E x \in A : \A y \in A : x <= y
  <2>1. CASE p \in A /\ (q \in A => p <= q)
    BY <2>1
  <2>2. CASE q \in A /\ (p \in A => q <= p)
    BY <2>2
  <2>3. p \in A \/ q \in A
    <3>1. PICK z : z \in A
      OBVIOUS
    <3> QED
      BY <3>1
  <2>4. p <= q \/ q <= p
    OBVIOUS
  <2> QED
    BY <2>1, <2>2, <2>3, <2>4
<1> QED
  BY <1>1

(* The value a request leaves in effect is a reading or none.              *)
LEMMA MedianIsReading ==
    ASSUME NEW n, NEW s \in [1..3 -> Option(Nat)]
    PROVE  sample_interval_median(s, n) \in Option(Nat)
<1> DEFINE failed   == {i \in 1..3 : s[i] = NoReading}
           accepted == {s[i] : i \in {k \in (1..3) \ failed : is_satisfied(s[k], n)}}
<1>0. \A i \in 1..3 : s[i] \in Option(Nat)
  OBVIOUS
<1>1. \A i \in (1..3) \ failed : s[i] \in Nat
  BY <1>0 DEF Option, NoInterval, NoReading
<1>2. CASE failed = {}
  <2>1. s[1] \in Nat /\ s[2] \in Nat /\ s[3] \in Nat
    BY <1>1, <1>2
  <2>2. sample_interval_median(s, n) = median_of_three(s[1], s[2], s[3])
    BY <1>2 DEF sample_interval_median
  <2> QED
    BY <2>1, <2>2, MedianOfThree DEF Option
<1>3. CASE failed # {} /\ (\E i \in 1..3 : failed = {i}) /\ accepted # {}
  <2>1. PICK i \in 1..3 : failed = {i}
    BY <1>3
  <2>2. PICK j, k \in 1..3 : (1..3) \ {i} = {j, k}
    <3>1. (1..3) \ {1} = {2, 3} /\ (1..3) \ {2} = {1, 3} /\ (1..3) \ {3} = {1, 2}
      OBVIOUS
    <3> QED
      BY <3>1
  <2>3. s[j] \in Nat /\ s[k] \in Nat /\ accepted \subseteq {s[j], s[k]}
    BY <1>1, <2>1, <2>2
  <2>4. (CHOOSE x \in accepted : \A y \in accepted : x <= y) \in Nat
    <3> HIDE DEF accepted
    <3> QED
      BY <1>3, <2>3, LeastOfTwo
  <2>5. sample_interval_median(s, n)
          = CHOOSE x \in accepted : \A y \in accepted : x <= y
    BY <1>3 DEF sample_interval_median
  <2> QED
    BY <2>4, <2>5 DEF Option
<1>4. CASE failed # {} /\ ~((\E i \in 1..3 : failed = {i}) /\ accepted # {})
  BY <1>4 DEF sample_interval_median, Option, NoReading, NoInterval
<1> QED
  BY <1>2, <1>3, <1>4
-----------------------------------------------------------------------------
(* start() with any answer of the platform keeps the inductive invariant   *)
(* and takes an Acquire or AcquireUnverified edge of the diagram, or none. *)
LEMMA StartStep ==
    ASSUME IInv, NEW i \in Resolutions \ {NoInterval}, NEW o \in StartOutcome,
           NEW r \in Option(Nat), StartWith(i, o, r)
    PROVE  IInv' /\ [Diagram!Next]_<<ctl.own, ctl.held>>
<1>1. i \in Nat /\ i >= floor
  BY ResolutionsFloored DEF Option
<1>2. CASE ctl' = ctl
  <2>1. effective' \in Option(Nat)
    BY DEF IInv, TypeOK, StartWith
  <2> QED
    BY <1>2, <2>1 DEF IInv, TypeOK, StartWith, KernelRequestTracked,
       ReleasedCanStart, BoundaryWindow, FloorHolds
<1>3. CASE ctl' # ctl
  <2>1. ctl.own = "Released" /\ o # "ResolveFailed" /\ ctl.held = FALSE
        /\ ctl.ver = "NotCollected"
    BY <1>3 DEF StartWith, Start, StartIsNoop, IInv, KernelRequestTracked,
       ReleasedCanStart, TypeOK, Controller
  <2>2. ctl' = Start(ctl, i, o) /\ UNCHANGED <<attempts, floor>>
        /\ effective' \in Option(Nat)
    BY DEF StartWith, IInv, TypeOK
  <2>3. /\ ctl' \in Controller(Nat)
        /\ ctl'.sel = i /\ ctl'.bnd = NoInterval /\ ctl'.req = ctl.req
        /\ \/ ctl'.own = "Released" /\ ctl'.held = FALSE /\ ctl'.ver = "NotCollected"
           \/ ctl'.own = "Owned" /\ ctl'.held = TRUE
           \/ ctl'.own = "Uncertain" /\ ctl'.held \in BOOLEAN
    BY <1>1, <2>1, <2>2 DEF Start, StartIsNoop, StartOutcome, Verified, IInv, TypeOK,
       Controller, OwnershipState, Verification, Option, NoInterval, Automatic
  <2>4. IInv'
    BY <1>1, <2>2, <2>3 DEF IInv, TypeOK, KernelRequestTracked,
       ReleasedCanStart, BoundaryWindow, FloorHolds
  <2>5. [Diagram!Next]_<<ctl.own, ctl.held>>
    BY <2>1, <2>3 DEF Diagram!Next, Diagram!Acquire, Diagram!AcquireUnverified
  <2> QED
    BY <2>4, <2>5
<1> QED
  BY <1>2, <1>3

(* The invariant is inductive and every step is an edge of the diagram:    *)
(* one case per operation of the controller.                               *)
LEMMA Step ==
    ASSUME IInv, [Next]_vars
    PROVE  IInv' /\ [Diagram!Next]_<<ctl.own, ctl.held>>
<1> USE OwnershipAssumption
<1>1. CASE query
  <2>1. PICK r \in Resolutions, x \in Readings \cup {NoReading} :
          /\ ctl' = Query(ctl, r)
          /\ effective' = IF QueryInterval(ctl, r) = NoInterval THEN NoReading ELSE x
          /\ UNCHANGED <<attempts, floor>>
    BY <1>1 DEF query
  <2>2. r \in Option(Nat) /\ (r # NoInterval => r >= floor)
    BY ResolutionsFloored
  <2>3. effective' \in Option(Nat)
    BY <2>1 DEF Option, NoReading, NoInterval
  <2> QED
    BY <2>1, <2>2, <2>3 DEF Query, QueryInterval, IInv, TypeOK, Controller,
       KernelRequestTracked, ReleasedCanStart, BoundaryWindow, FloorHolds
<1>2. CASE observe_current
  BY <1>2 DEF observe_current, IInv, TypeOK, Option, NoReading, NoInterval,
     KernelRequestTracked, ReleasedCanStart, BoundaryWindow, FloorHolds
<1>3. CASE start_fails
  <2>1. CASE StartWith(NoInterval, "ResolveFailed", NoReading)
    BY <2>1 DEF StartWith, Start, IInv, TypeOK, Option, NoReading, NoInterval,
       KernelRequestTracked, ReleasedCanStart, BoundaryWindow, FloorHolds
  <2>2. ASSUME NEW i \in Resolutions \ {NoInterval},
               NEW o \in {"PreflightFailed", "RequestFailed"},
               NEW x \in Readings \cup {NoReading}, StartWith(i, o, x)
        PROVE  IInv' /\ [Diagram!Next]_<<ctl.own, ctl.held>>
    <3>1. x \in Option(Nat) /\ o \in StartOutcome
      BY DEF Option, NoReading, NoInterval, StartOutcome
    <3> QED
      BY <2>2, <3>1, StartStep
  <2> QED
    BY <1>3, <2>1, <2>2 DEF start_fails
<1>4. CASE start_samples
  <2>1. PICK i \in Resolutions \ {NoInterval}, c \in Readings,
             s \in [1..3 -> Readings \cup {NoReading}], rb \in BOOLEAN :
          StartWith(i,
            IF Postcondition(s, i) = "Unverified" /\ ~rb
            THEN "RollbackFailed" ELSE Postcondition(s, i),
            IF sample_interval_median(s, i) = NoReading THEN c
            ELSE sample_interval_median(s, i))
    BY <1>4 DEF start_samples
  <2>2. s \in [1..3 -> Option(Nat)] /\ c \in Option(Nat)
    BY DEF Option, NoReading, NoInterval
  <2>3. sample_interval_median(s, i) \in Option(Nat)
    BY <2>2, MedianIsReading
  <2>4. Postcondition(s, i) \in {"Unverified", "FinerThanRequested", "Verified"}
    BY DEF Postcondition
  <2> QED
    BY <2>1, <2>2, <2>3, <2>4, StartStep DEF StartOutcome
<1>5. CASE stop
  <2>1. PICK st \in BOOLEAN, x \in Readings :
          /\ ctl' = Stop(ctl, st)
          /\ effective' = IF StopReachesKernel(ctl) /\ st THEN x ELSE effective
          /\ UNCHANGED <<attempts, floor>>
    BY <1>5 DEF stop
  <2>2. effective' \in Option(Nat)
    BY <2>1 DEF IInv, TypeOK, Option
  <2> QED
    BY <2>1, <2>2 DEF Stop, StopReachesKernel, IInv, TypeOK, Controller,
       OwnershipState, Verification, Option, NoInterval,
       KernelRequestTracked, ReleasedCanStart, BoundaryWindow, FloorHolds,
       Diagram!Next, Diagram!Release
<1>6. CASE ClearReleaseBoundary
  BY <1>6 DEF ClearReleaseBoundary, clear_release_boundary, IInv, TypeOK,
     Controller, Option, NoInterval,
     KernelRequestTracked, ReleasedCanStart, BoundaryWindow, FloorHolds
<1>7. CASE ClampFloor
  <2>1. PICK f \in Floors :
          /\ ctl' = clamp_requested_interval_floor(ctl, f)
          /\ floor' = IF f > floor THEN f ELSE floor
          /\ UNCHANGED <<effective, attempts>>
    BY <1>7 DEF ClampFloor
  <2>2. f \in Nat /\ f > 0 /\ floor \in Nat /\ ctl.req \in Nat
    BY DEF IInv, TypeOK, Controller, Automatic
  <2>3. /\ ctl'.own = ctl.own /\ ctl'.held = ctl.held
        /\ ctl'.ver = ctl.ver /\ ctl'.bnd = ctl.bnd
        /\ ctl'.req = IF ctl.req < f THEN f ELSE ctl.req
        /\ ctl'.sel = IF ctl.sel # NoInterval /\ ctl.sel < f THEN NoInterval ELSE ctl.sel
        /\ ctl' \in Controller(Nat)
    BY <2>1, <2>2 DEF clamp_requested_interval_floor, IInv, TypeOK, Controller,
       Option, NoInterval
  <2>4. TypeOK' /\ KernelRequestTracked' /\ ReleasedCanStart' /\ BoundaryWindow'
    BY <2>1, <2>2, <2>3 DEF IInv, TypeOK, KernelRequestTracked,
       ReleasedCanStart, BoundaryWindow
  <2>5. FloorHolds' /\ (ctl.req # Automatic \/ floor = 0)' /\ (ctl.req >= floor)'
    <3>1. ctl.sel \in Option(Nat)
      BY DEF IInv, TypeOK, Controller
    <3> QED
      BY <2>1, <2>2, <2>3, <3>1 DEF IInv, FloorHolds, Automatic, Option, NoInterval
  <2> QED
    BY <2>3, <2>4, <2>5 DEF IInv
<1>8. CASE SettleProbe
  <2>1. ctl.own = "Released" /\ ctl.held = FALSE
    BY <1>8 DEF SettleProbe, IInv, KernelRequestTracked, TypeOK, Controller
  <2>2. CASE attempts' = attempts + 1 /\ UNCHANGED <<ctl, effective>>
    BY <1>8, <2>2 DEF SettleProbe, IInv, TypeOK,
       KernelRequestTracked, ReleasedCanStart, BoundaryWindow, FloorHolds
  <2>3. CASE \E x \in Readings :
               ctl' = SettleProbed(ctl) /\ effective' = x /\ attempts' = ProbeAttempts
    <3>1. effective' \in Option(Nat) /\ attempts' \in 0..ProbeAttempts /\ floor' = floor
      BY <1>8, <2>3 DEF Option, SettleProbe
    <3>2. ctl' = [ctl EXCEPT !.bnd = NoInterval, !.sel = NoInterval, !.held = FALSE]
      BY <2>3 DEF SettleProbed
    <3>3. /\ ctl' \in Controller(Nat)
          /\ ctl'.own = ctl.own /\ ctl'.ver = ctl.ver /\ ctl'.req = ctl.req
          /\ ctl'.held = FALSE /\ ctl'.bnd = NoInterval /\ ctl'.sel = NoInterval
      BY <3>2 DEF IInv, TypeOK, Controller, Option
    <3> QED
      BY <2>1, <3>1, <3>3 DEF IInv, TypeOK,
         KernelRequestTracked, ReleasedCanStart, BoundaryWindow, FloorHolds
  <2> QED
    BY <1>8, <2>2, <2>3 DEF SettleProbe
<1>9. CASE UNCHANGED vars
  BY <1>9 DEF vars, IInv, TypeOK, KernelRequestTracked, ReleasedCanStart,
     BoundaryWindow, FloorHolds
<1> QED
  BY <1>1, <1>2, <1>3, <1>4, <1>5, <1>6, <1>7, <1>8, <1>9 DEF Next
-----------------------------------------------------------------------------
(* The invariant holds initially.                                          *)
LEMMA Initially == Init => IInv
BY OwnershipAssumption DEF Init, NewController, IInv, TypeOK, Controller,
   OwnershipState, Verification, Option, NoInterval, NoReading, Automatic,
   KernelRequestTracked, ReleasedCanStart, BoundaryWindow, FloorHolds

(* The inductive invariant of the controller holds in every reachable      *)
(* state, whatever the kernel answers to start, stop, query and probe.     *)
THEOREM Invariance == Spec => []IInv
<1>1. IInv /\ [Next]_vars => IInv'
  BY Step
<1> QED
  BY <1>1, Initially, PTL DEF Spec

(* The fields of the controller keep their types under every operation.    *)
THEOREM TypeCorrect == Spec => []TypeOK
<1>1. IInv => TypeOK
  BY DEF IInv
<1> QED
  BY <1>1, Invariance, PTL

(* No kernel request outlives a controller that reports Released (start,   *)
(* stop, clamp and probe of tick-ownership).                               *)
THEOREM RequestNeverLost == Spec => []KernelRequestTracked
<1>1. IInv => KernelRequestTracked
  BY DEF IInv
<1> QED
  BY <1>1, Invariance, PTL

(* A released controller is never blocked by the early return of start().  *)
THEOREM ReleaseUnblocksStart == Spec => []ReleasedCanStart
<1>1. IInv => ReleasedCanStart
  BY DEF IInv
<1> QED
  BY <1>1, Invariance, PTL

(* A release window is open only while nothing is owned or selected.       *)
THEOREM WindowOnlyWhenReleased == Spec => []BoundaryWindow
<1>1. IInv => BoundaryWindow
  BY DEF IInv
<1> QED
  BY <1>1, Invariance, PTL

(* No selection below an imposed floor survives                            *)
(* (clamp_requested_interval_floor).                                       *)
THEOREM FloorRespected == Spec => []FloorHolds
<1>1. IInv => FloorHolds
  BY DEF IInv
<1> QED
  BY <1>1, Invariance, PTL

(* The controller implements the lifecycle diagram of ARCHITECTURE.md:     *)
(* every operation takes one of its edges or leaves ownership alone.       *)
THEOREM Refinement == Spec => ImplementsDiagram
<1>1. Init => Diagram!Init
  BY DEF Init, NewController, Diagram!Init
<1>2. IInv /\ [Next]_vars => [Diagram!Next]_<<ctl.own, ctl.held>>
  BY Step
<1> QED
  BY <1>1, <1>2, Invariance, PTL DEF Spec, ImplementsDiagram, Diagram!Spec
=============================================================================
