------------------------ MODULE TimerSamplingProofs -------------------------
(***************************************************************************)
(* TimerSampling for every request, every pair of bounds, every sequence   *)
(* of readings and every tolerance.                                        *)
(***************************************************************************)
EXTENDS TimerSampling, FiniteSetTheorems, SequenceTheorems, TLAPS

\* What the sample that is awaited, and the verdict, are taken from.
SamplingIInv ==
    /\ SamplingTypeOK /\ ResolvedIsSupported
    /\ verdict = "Pending" /\ interval = NoInterval => samples = <<>>
    /\ verdict = "Rejected" => interval = NoInterval
    /\ verdict \notin {"Pending", "Rejected"} =>
          /\ interval # NoInterval
          /\ Len(samples) = SampleCount
          /\ verdict = Postcondition(samples, interval)

Count(b) == IF b THEN 1 ELSE 0

(* A set of sample numbers is counted by asking for each of the three.     *)
LEMMA CountOfThree ==
    ASSUME NEW S, S \subseteq 1..3
    PROVE  Cardinality(S) = Count(1 \in S) + Count(2 \in S) + Count(3 \in S)
<1> DEFINE A == S \cap {1}
           B == S \cap {1, 2}
<1>0. IsFiniteSet({}) /\ Cardinality({}) = 0
  BY FS_EmptySet
<1>1. IsFiniteSet(A) /\ Cardinality(A) = Count(1 \in S)
  <2>1. CASE 1 \in S
    <3>1. A = {} \cup {1}
      BY <2>1
    <3> QED
      BY <1>0, <2>1, <3>1, FS_AddElement DEF Count
  <2>2. CASE 1 \notin S
    <3>1. A = {}
      BY <2>2
    <3> QED
      BY <1>0, <2>2, <3>1 DEF Count
  <2> QED
    BY <2>1, <2>2
<1>2. IsFiniteSet(B) /\ Cardinality(B) = Count(1 \in S) + Count(2 \in S)
  <2>1. CASE 2 \in S
    <3>1. B = A \cup {2} /\ 2 \notin A
      BY <2>1
    <3>2. Cardinality(A) \in Nat
      BY <1>1 DEF Count
    <3> HIDE DEF A, B
    <3> QED
      BY <1>1, <2>1, <3>1, <3>2, FS_AddElement DEF Count
  <2>2. CASE 2 \notin S
    <3>1. B = A
      BY <2>2
    <3> QED
      BY <1>1, <2>2, <3>1 DEF Count
  <2> QED
    BY <2>1, <2>2
<1>3. \A x \in S : x = 1 \/ x = 2 \/ x = 3
  OBVIOUS
<1>4. CASE 3 \in S
  <2>1. 3 \notin B
    OBVIOUS
  <2>2. \A x \in S : x \in B \cup {3}
    BY <1>3
  <2>3. S = B \cup {3}
    BY <1>4, <2>2
  <2> HIDE DEF A, B
  <2> QED
    BY <1>2, <1>4, <2>1, <2>3, FS_AddElement DEF Count
<1>5. CASE 3 \notin S
  <2>1. S = B
    BY <1>3, <1>5
  <2> QED
    BY <1>2, <1>5, <2>1 DEF Count
<1> QED
  BY <1>4, <1>5

(* A least element of a set of two or fewer numbers is one of them.        *)
LEMMA LeastIsMember ==
    ASSUME NEW A, A # {}, NEW p \in Nat, NEW q \in Nat, A \subseteq {p, q}
    PROVE  (CHOOSE x \in A : \A y \in A : x <= y) \in A
<1>1. p \in A \/ q \in A
  <2>1. PICK z : z \in A
    OBVIOUS
  <2> QED
    BY <2>1
<1>2. \E x \in A : \A y \in A : x <= y
  <2>1. CASE p \in A /\ (q \in A => p <= q)
    BY <2>1
  <2>2. CASE q \in A /\ (p \in A => q <= p)
    BY <2>2
  <2> QED
    BY <1>1, <2>1, <2>2
<1> QED
  BY <1>2

(* sample_interval_median with is_satisfied decides by majority: the value *)
(* it takes is accepted exactly when enough readings are.                  *)
LEMMA MedianDecides ==
    ASSUME NEW n \in Nat, NEW s \in [1..3 -> Option(Nat)]
    PROVE  LET reads     == {i \in 1..3 : s[i] # NoReading}
               satisfied == {i \in reads : is_satisfied(s[i], n)}
               m         == sample_interval_median(s, n)
           IN  (m # NoReading /\ is_satisfied(m, n)) <=>
                   /\ Cardinality(reads) >= 2
                   /\ Cardinality(satisfied) + 1 >= Cardinality(reads)
<1> DEFINE reads     == {i \in 1..3 : s[i] # NoReading}
           satisfied == {i \in reads : is_satisfied(s[i], n)}
           failed    == {i \in 1..3 : s[i] = NoReading}
           accepted  == {s[i] : i \in {k \in (1..3) \ failed : is_satisfied(s[k], n)}}
           m         == sample_interval_median(s, n)
<1>1. \A i \in 1..3 : s[i] \in Nat \/ s[i] = NoReading
  BY DEF Option, NoInterval, NoReading
<1>2. /\ Cardinality(reads) = Count(s[1] # NoReading) + Count(s[2] # NoReading)
                              + Count(s[3] # NoReading)
      /\ Cardinality(satisfied) = Count(s[1] # NoReading /\ is_satisfied(s[1], n))
                                  + Count(s[2] # NoReading /\ is_satisfied(s[2], n))
                                  + Count(s[3] # NoReading /\ is_satisfied(s[3], n))
  <2>1. reads \subseteq 1..3 /\ satisfied \subseteq 1..3
    OBVIOUS
  <2>2. \A i \in 1..3 : /\ i \in reads <=> s[i] # NoReading
                        /\ i \in satisfied <=> s[i] # NoReading /\ is_satisfied(s[i], n)
    OBVIOUS
  <2>3. 1 \in 1..3 /\ 2 \in 1..3 /\ 3 \in 1..3
    OBVIOUS
  <2>4. /\ Cardinality(reads) = Count(1 \in reads) + Count(2 \in reads) + Count(3 \in reads)
        /\ Cardinality(satisfied)
             = Count(1 \in satisfied) + Count(2 \in satisfied) + Count(3 \in satisfied)
    <3> HIDE DEF reads, satisfied
    <3> QED
      BY <2>1, CountOfThree
  <2> HIDE DEF reads, satisfied
  <2> QED
    BY <2>2, <2>3, <2>4 DEF Count
<1>3. CASE failed = {}
  <2>1. s[1] \in Nat /\ s[2] \in Nat /\ s[3] \in Nat
    BY <1>1, <1>3
  <2>2. m = median_of_three(s[1], s[2], s[3])
    BY <1>3 DEF sample_interval_median
  <2> QED
    BY <1>2, <2>1, <2>2, PlatformAssumption
       DEF median_of_three, is_satisfied, NoReading, Count
<1>4. CASE \E i \in 1..3 : failed = {i}
  <2>1. PICK i \in 1..3 : failed = {i}
    BY <1>4
  <2>2. PICK j \in 1..3, k \in 1..3 : (1..3) \ {i} = {j, k} /\ j # k /\ i # j /\ i # k
    <3>1. (1..3) \ {1} = {2, 3} /\ (1..3) \ {2} = {1, 3} /\ (1..3) \ {3} = {1, 2}
      OBVIOUS
    <3> QED
      BY <3>1
  <2>3. s[i] = NoReading /\ s[j] \in Nat /\ s[k] \in Nat
    BY <1>1, <2>1, <2>2
  <2>4. (accepted # {}) <=> is_satisfied(s[j], n) \/ is_satisfied(s[k], n)
    BY <2>1, <2>2
  <2>5. accepted \subseteq {s[j], s[k]} /\ \A x \in accepted : is_satisfied(x, n)
    BY <2>1, <2>2
  <2>6. (m # NoReading /\ is_satisfied(m, n)) <=> accepted # {}
    <3>1. CASE accepted # {}
      <4>1. m = CHOOSE x \in accepted : \A y \in accepted : x <= y
        <5>1. failed # {}
          BY <2>1
        <5> QED
          BY <1>4, <3>1, <5>1 DEF sample_interval_median
      <4>2. m \in accepted
        <5> HIDE DEF accepted, m
        <5> QED
          BY <2>3, <2>5, <3>1, <4>1, LeastIsMember
      <4>3. m \in Nat
        BY <2>3, <2>5, <4>2
      <4> QED
        BY <2>5, <3>1, <4>2, <4>3 DEF NoReading
    <3>2. CASE accepted = {}
      <4>1. m = NoReading
        BY <2>1, <3>2 DEF sample_interval_median
      <4> QED
        BY <3>2, <4>1
    <3> QED
      BY <3>1, <3>2
  <2>7. s[j] # NoReading /\ s[k] # NoReading
    BY <2>3 DEF NoReading
  <2>8. Cardinality(reads) = 2
    <3> HIDE DEF reads, satisfied
    <3> QED
      BY <1>2, <2>2, <2>3, <2>7 DEF Count
  <2>9. Cardinality(satisfied) >= 1 <=> is_satisfied(s[j], n) \/ is_satisfied(s[k], n)
    <3> HIDE DEF reads, satisfied
    <3> QED
      BY <1>2, <2>2, <2>3, <2>7 DEF Count
  <2>10. Cardinality(satisfied) \in Nat
    BY <1>2 DEF Count
  <2> HIDE DEF reads, satisfied, m, accepted, failed
  <2>11. (m # NoReading /\ is_satisfied(m, n)) <=>
             Cardinality(reads) >= 2 /\ Cardinality(satisfied) + 1 >= Cardinality(reads)
    BY <2>4, <2>6, <2>8, <2>9, <2>10
  <2> QED
    BY <2>11 DEF reads, satisfied, m
<1>5. CASE failed # {} /\ ~(\E i \in 1..3 : failed = {i})
  <2>1. m = NoReading
    BY <1>5 DEF sample_interval_median
  <2>2. PICK i \in 1..3, j \in 1..3 : i # j /\ s[i] = NoReading /\ s[j] = NoReading
    <3>1. PICK i : i \in failed
      BY <1>5
    <3>2. failed # {i}
      BY <1>5, <3>1
    <3>3. PICK j \in failed : j # i
      BY <3>1, <3>2
    <3> QED
      BY <3>1, <3>3
  <2>3. Cardinality(reads) < 2
    <3> HIDE DEF reads, satisfied
    <3> QED
      BY <1>2, <2>2 DEF Count
  <2>4. ~(Cardinality(reads) >= 2)
    <3>1. Cardinality(reads) \in Nat
      BY <1>2 DEF Count
    <3> QED
      BY <2>3, <3>1
  <2> QED
    BY <2>1, <2>4
<1> QED
  BY <1>3, <1>4, <1>5
-----------------------------------------------------------------------------
(* resolve_request with validate_interval returns nothing, or an interval  *)
(* the native call can carry and the hardware supports.                    *)
LEMMA ResolveIsSupported ==
    ASSUME NEW b \in Bounds(Nat), NEW r \in Nat,
           NEW i, i = resolve_request(b, r), i # NoInterval
    PROVE  /\ i \in 1..MaxNative
           /\ i \in b.min..b.max \/ i \in b.max..b.min
           /\ i = IF r = Automatic THEN (IF b.min <= b.max THEN b.min ELSE b.max) ELSE r
<1>1. b.min \in Nat /\ b.max \in Nat
  BY DEF Bounds
<1> QED
  BY <1>1, PlatformAssumption
     DEF resolve_request, smallest_supported_boundary, numeric_interval, validate_interval,
         NoInterval, Automatic

(* The verdict of a request that reached the kernel is the majority of its *)
(* readings.                                                               *)
LEMMA VerdictFromMajority == SamplingIInv => VerdictIsMajority
<1> SUFFICES ASSUME SamplingIInv, verdict \notin {"Pending", "Rejected"}
             PROVE  verdict # "Unverified" <=>
                        /\ Cardinality(Reads) >= 2
                        /\ Cardinality(Satisfied) + 1 >= Cardinality(Reads)
  BY DEF VerdictIsMajority
<1>1. interval \in Nat /\ Len(samples) = 3 /\ verdict = Postcondition(samples, interval)
  BY DEF SamplingIInv, SamplingTypeOK, Option, SampleCount
<1>2. samples \in [1..3 -> Option(Nat)] /\ DOMAIN samples = 1..3
  <2>1. samples \in Seq(Option(Nat))
    BY DEF SamplingIInv, SamplingTypeOK
  <2> QED
    BY <1>1, <2>1, LenProperties
<1>3. verdict # "Unverified" <=>
          LET m == sample_interval_median(samples, interval)
          IN  m # NoReading /\ is_satisfied(m, interval)
  BY <1>1 DEF Postcondition
<1>4. /\ Reads = {i \in 1..3 : samples[i] # NoReading}
      /\ Satisfied = {i \in Reads : is_satisfied(samples[i], interval)}
  BY <1>2 DEF Reads, Satisfied
<1> QED
  BY <1>1, <1>2, <1>3, <1>4, MedianDecides

(* One step per action keeps the inductive invariant.                      *)
LEMMA SamplingStep == SamplingIInv /\ [SamplingNext]_samplingVars => SamplingIInv'
<1> SUFFICES ASSUME SamplingIInv, [SamplingNext]_samplingVars PROVE SamplingIInv'
  OBVIOUS
<1>1. CASE resolve
  <2>1. interval' = resolve_request(bounds, requested) /\ requested \in Nat
        /\ bounds \in Bounds(Nat) /\ UNCHANGED <<requested, bounds, samples>>
    BY <1>1 DEF resolve, SamplingIInv, SamplingTypeOK
  <2>2. interval' # NoInterval => /\ interval' \in 1..MaxNative
                                  /\ ResolvedIsSupported'
    BY <2>1, ResolveIsSupported DEF ResolvedIsSupported
  <2>3. ResolvedIsSupported' /\ interval' \in Option(Nat)
    BY <2>2, PlatformAssumption DEF ResolvedIsSupported, Option
  <2> QED
    BY <1>1, <2>1, <2>3 DEF resolve, SamplingIInv, SamplingTypeOK
<1>2. CASE sample
  <2>1. PICK x \in Readings \cup {NoReading} : samples' = Append(samples, x)
    BY <1>2 DEF sample
  <2>2. x \in Option(Nat)
    BY SamplingAssumption DEF Option, NoReading, NoInterval
  <2>3. samples \in Seq(Option(Nat)) /\ Len(samples) < 3
    BY <1>2 DEF sample, SampleCount, SamplingIInv, SamplingTypeOK
  <2>4. samples' \in Seq(Option(Nat)) /\ Len(samples') = Len(samples) + 1
    BY <2>1, <2>2, <2>3
  <2>5. verdict = "Pending" /\ UNCHANGED <<requested, bounds, interval, verdict>>
        /\ interval # NoInterval
    BY <1>2, <2>3 DEF sample, SamplingIInv, SamplingTypeOK, SampleCount
  <2> QED
    BY <2>3, <2>4, <2>5 DEF SamplingIInv, SamplingTypeOK, ResolvedIsSupported, SampleCount
<1>3. CASE judge
  <2>1. interval # NoInterval
    BY <1>3 DEF judge, SamplingIInv, SampleCount
  <2>2. verdict' \in {"Unverified", "FinerThanRequested", "Verified"}
    BY <1>3 DEF judge, Postcondition
  <2> QED
    BY <1>3, <2>1, <2>2 DEF judge, SamplingIInv, SamplingTypeOK, ResolvedIsSupported
<1>4. CASE UNCHANGED samplingVars
  BY <1>4 DEF samplingVars, SamplingIInv, SamplingTypeOK, ResolvedIsSupported
<1> QED
  BY <1>1, <1>2, <1>3, <1>4 DEF SamplingNext

(* For every tolerance, every bounds the kernel reports and every readings *)
(* around which reads fail, request() asks for a supported interval only   *)
(* and believes the kernel exactly on a majority of its readings.          *)
THEOREM RequestVerdict == SamplingSpec => []SamplingInv
<1>1. SamplingInit => SamplingIInv
  BY SamplingAssumption
     DEF SamplingInit, SamplingIInv, SamplingTypeOK, ResolvedIsSupported, Option, SampleCount
<1>2. SamplingIInv => SamplingInv
  BY VerdictFromMajority DEF SamplingIInv, SamplingInv
<1> QED
  BY <1>1, <1>2, SamplingStep, PTL DEF SamplingSpec
=============================================================================
