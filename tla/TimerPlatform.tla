--------------------------- MODULE TimerPlatform ---------------------------
(***************************************************************************)
(* The native timer adapter: the arithmetic that decides which interval is *)
(* requested and whether the kernel is believed to have granted it.        *)
(*                                                                         *)
(* Everything here is a pure operator.  A reading of the kernel is a       *)
(* natural number of 100 ns units (HNS), or NoReading when                 *)
(* NtQueryTimerResolution failed.  Which readings come back is up to the   *)
(* kernel, so callers quantify over them.                                  *)
(***************************************************************************)
EXTENDS Integers

CONSTANTS
    Tolerance,  \* HARDWARE_TIMER_TOLERANCE_HNS
    MaxNative   \* u32::MAX, the widest interval the native call can carry

ASSUME PlatformAssumption ==
    /\ Tolerance \in Nat
    /\ MaxNative \in Nat \ {0}

NoReading  == -1   \* a query that failed, an Option that is None
NoInterval == -1
Automatic  == 0    \* requested_interval = Hns::ZERO

Option(S) == S \cup {NoInterval}
-----------------------------------------------------------------------------
(* The kernel reports a minimum and a maximum, and may swap them.          *)
Bounds(S) == [min : S, max : S]

numeric_interval(b) ==
    IF b.min <= b.max THEN [lower |-> b.min, upper |-> b.max]
                      ELSE [lower |-> b.max, upper |-> b.min]

smallest_supported_boundary(b) ==
    LET lower == numeric_interval(b).lower
    IN  IF lower = 0 \/ lower > MaxNative THEN NoInterval ELSE lower

validate_interval(b, interval) ==
    LET n == numeric_interval(b)
    IN  /\ interval # 0
        /\ interval >= n.lower
        /\ interval <= n.upper
        /\ interval <= MaxNative

(* The interval a request resolves to, NoInterval for an InvalidInterval.  *)
resolve_request(b, requested) ==
    LET selected == IF requested = Automatic
                    THEN smallest_supported_boundary(b) ELSE requested
    IN  IF selected # NoInterval /\ validate_interval(b, selected)
        THEN selected ELSE NoInterval
-----------------------------------------------------------------------------
is_satisfied(reported, requested) == reported <= requested + Tolerance

median_of_three(a, b, c) ==
    IF a > b THEN IF b > c THEN b ELSE IF a > c THEN c ELSE a
             ELSE IF a > c THEN a ELSE IF b > c THEN c ELSE b

MedianTrustsOneRead(samples, interval) ==
    LET accepted == {samples[i] : i \in {k \in 1..3 : /\ samples[k] # NoReading
                                                    /\ is_satisfied(samples[k], interval)}}
    IN  IF accepted = {} THEN NoReading
        ELSE CHOOSE x \in accepted : \A y \in accepted : x <= y

(* The value the three postcondition samples stand for, or NoReading: the  *)
(* median of three reads; of two, the smaller one the tolerance accepts;   *)
(* a single read is never trusted.                                         *)
sample_interval_median(samples, interval) ==
    LET failed   == {i \in 1..3 : samples[i] = NoReading}
        accepted == {samples[i] : i \in {k \in (1..3) \ failed :
                                           is_satisfied(samples[k], interval)}}
    IN  IF failed = {} THEN median_of_three(samples[1], samples[2], samples[3])
        ELSE IF (\E i \in 1..3 : failed = {i}) /\ accepted # {}
        THEN CHOOSE x \in accepted : \A y \in accepted : x <= y
        ELSE NoReading

(* What request() concludes once NtSetTimerResolution(TRUE) succeeded.     *)
Postcondition(samples, interval) ==
    LET m == sample_interval_median(samples, interval)
    IN  IF m = NoReading \/ ~is_satisfied(m, interval) THEN "Unverified"
        ELSE IF m < interval THEN "FinerThanRequested" ELSE "Verified"
=============================================================================
