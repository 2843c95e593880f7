--------------------------- MODULE TimerSampling ---------------------------
(***************************************************************************)
(* WindowsTimerPlatform::request() from resolve() to its verdict: the      *)
(* bounds are read, the interval is resolved, the kernel is set, and up to *)
(* three readings are taken one after the other.  Each read may fail, and  *)
(* between two of them another process may change the resolution.          *)
(***************************************************************************)
EXTENDS TimerPlatform, FiniteSets, Sequences

CONSTANTS
    Requests,     \* configured intervals, Automatic among them
    Readings,     \* effective resolutions the kernel may report
    KernelBounds  \* bounds the kernel may report

ASSUME SamplingAssumption ==
    /\ Requests \subseteq Nat
    /\ Readings \subseteq Nat
    /\ KernelBounds \subseteq Bounds(Nat)

SampleCount == 3   \* VERIFICATION_SAMPLE_COUNT

VARIABLES
    requested,  \* the configured interval
    bounds,     \* what the kernel reported to resolve()
    interval,   \* the resolved interval, or NoInterval
    samples,    \* readings so far, NoReading for a failed one
    verdict     \* "Pending" until the last sample is in

samplingVars == <<requested, bounds, interval, samples, verdict>>

SamplingTypeOK ==
    /\ requested \in Nat
    /\ bounds \in Bounds(Nat)
    /\ interval \in Option(Nat)
    /\ samples \in Seq(Option(Nat)) /\ Len(samples) <= SampleCount
    /\ verdict \in {"Pending", "Rejected", "Unverified", "FinerThanRequested", "Verified"}

SamplingInit ==
    /\ requested \in Requests
    /\ bounds \in KernelBounds
    /\ interval = NoInterval
    /\ samples = <<>>
    /\ verdict = "Pending"

resolve ==
    /\ verdict = "Pending" /\ interval = NoInterval
    /\ interval' = resolve_request(bounds, requested)
    /\ verdict' = IF interval' = NoInterval THEN "Rejected" ELSE verdict
    /\ UNCHANGED <<requested, bounds, samples>>

sample ==
    /\ interval # NoInterval /\ Len(samples) < SampleCount
    /\ \E x \in Readings \cup {NoReading} : samples' = Append(samples, x)
    /\ UNCHANGED <<requested, bounds, interval, verdict>>

judge ==
    /\ verdict = "Pending" /\ Len(samples) = SampleCount
    /\ verdict' = Postcondition(samples, interval)
    /\ UNCHANGED <<requested, bounds, interval, samples>>

SamplingNext == resolve \/ sample \/ judge

SamplingSpec == SamplingInit /\ [][SamplingNext]_samplingVars
-----------------------------------------------------------------------------
Reads     == {i \in DOMAIN samples : samples[i] # NoReading}
Satisfied == {i \in Reads : is_satisfied(samples[i], interval)}

(* A request is verified exactly when enough of its readings support it:   *)
(* two of three, so that one outlier decides neither way; one of two when  *)
(* a read failed; never on a single reading (sample_interval_median).      *)
VerdictIsMajority ==
    verdict \notin {"Pending", "Rejected"} =>
        (verdict # "Unverified" <=>
            /\ Cardinality(Reads) >= 2
            /\ Cardinality(Satisfied) + 1 >= Cardinality(Reads))

(* An interval that reaches the native call lies between the two bounds,   *)
(* whichever way round the kernel labelled them, is never zero, fits the   *)
(* 32-bit argument, and is the finest one when the request is automatic    *)
(* (resolve_request, validate_interval).                                   *)
ResolvedIsSupported ==
    interval # NoInterval =>
        LET least == IF bounds.min <= bounds.max THEN bounds.min ELSE bounds.max
        IN  /\ interval \in 1..MaxNative
            /\ \/ interval \in bounds.min..bounds.max
               \/ interval \in bounds.max..bounds.min
            /\ interval = IF requested = Automatic THEN least ELSE requested

(* The request from its resolution to its verdict.                         *)
SamplingInv == SamplingTypeOK /\ ResolvedIsSupported /\ VerdictIsMajority
=============================================================================
