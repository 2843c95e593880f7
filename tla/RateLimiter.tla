---------------------------- MODULE RateLimiter -----------------------------
(***************************************************************************)
(* PidRateLimiter of tick-ipc, as the pipe workers of tray/ipc.rs use it:  *)
(* a worker reads the clock, then takes the lock and checks, so a check    *)
(* may come with a time that lies behind the clock.                        *)
(***************************************************************************)
EXTENDS Selection

CONSTANTS Pids,            \* calling processes, numbers
          MaxRequests,     \* MAX_REQUESTS_PER_SECOND
          Window,          \* RATE_LIMIT_WINDOW in clock ticks
          MaxTracked,      \* MAX_TRACKED_PIDS
          Skew,            \* bound: ticks between reading the clock and the check
          MaxClock         \* bound: ticks

ASSUME RateLimiterAssumption ==
    /\ Pids \subseteq Nat
    /\ MaxRequests \in Nat \ {0} /\ MaxTracked \in Nat \ {0} /\ MaxClock \in Nat
    /\ Skew \in Nat /\ Window \in Nat /\ Skew < Window /\ Window + Skew <= MaxClock

VARIABLES clock,     \* ticks since boot; a window has passed by the time the tray serves
          records,   \* the tracked callers with their time stamps and last_seen
          accepted   \* the stamps that were accepted of each caller since it was last evicted

limiterVars == <<clock, records, accepted>>

LimiterInit == clock = Window + Skew /\ records = <<>> /\ accepted = [p \in Pids |-> <<>>]

CutoffIsNow(now) == now                            \* faulty: the window is empty
\* Instant::checked_sub; in the first window after boot everything counts as old.
cutoff(now) == IF now >= Window THEN now - Window ELSE now
Recent(stamps, now) == Retain(stamps, {i \in DOMAIN stamps : stamps[i] > cutoff(now)})

Tracked == DOMAIN records

\* The oldest last_seen, and of those the smallest process identifier.
evict_least_recently_seen(recs) ==
    CHOOSE p \in DOMAIN recs : \A q \in DOMAIN recs :
        \/ recs[p].last_seen < recs[q].last_seen
        \/ recs[p].last_seen = recs[q].last_seen /\ p <= q

\* The table with a record for the caller, after an eviction if it is full.
WithRecord(pid, now) ==
    LET kept == IF pid \notin Tracked /\ Cardinality(Tracked) >= MaxTracked
                THEN Tracked \ {evict_least_recently_seen(records)} ELSE Tracked
    IN [p \in kept \cup {pid} |-> IF p \in kept THEN records[p]
                                  ELSE [stamps |-> <<>>, last_seen |-> now]]

Permits(stamps, now) == Len(stamps) < MaxRequests

check_and_record(pid, now) ==
    LET table  == WithRecord(pid, now)
        recent == Recent(table[pid].stamps, now)
        ok     == Permits(recent, now)
    IN /\ records' = [table EXCEPT ![pid] =
              [stamps |-> IF ok THEN Append(recent, now) ELSE recent, last_seen |-> now]]
       /\ accepted' = [p \in Pids |->
              IF p = pid /\ ok THEN Append(accepted[p], now)
              ELSE IF p \in Tracked \ DOMAIN table THEN <<>> ELSE accepted[p]]
       /\ UNCHANGED clock

\* Between two connections of the server loop.
prune_idle_callers ==
    LET pruned == [p \in Tracked |-> [records[p] EXCEPT !.stamps = Recent(@, clock)]]
    IN /\ records' = [p \in {q \in Tracked : pruned[q].stamps # <<>>} |-> pruned[p]]
       /\ UNCHANGED <<clock, accepted>>

tick == clock < MaxClock /\ clock' = clock + 1 /\ UNCHANGED <<records, accepted>>

LimiterNext ==
    \/ \E pid \in Pids, now \in (clock - Skew)..clock : check_and_record(pid, now)
    \/ prune_idle_callers
    \/ tick

LimiterSpec == LimiterInit /\ [][LimiterNext]_limiterVars

-----------------------------------------------------------------------------
(* The table holds no more callers than it may, each with no more stamps   *)
(* than may be accepted in a window.                                       *)
LimiterTypeOK ==
    /\ clock \in (Window + Skew)..MaxClock
    /\ Tracked \subseteq Pids /\ Cardinality(Tracked) <= MaxTracked
    /\ \A p \in Tracked : /\ records[p].stamps \in Seq(0..MaxClock)
                          /\ Len(records[p].stamps) <= MaxRequests

(* However the checks of the workers are ordered, a caller that is not     *)
(* evicted has no more than MaxRequests requests accepted in any window,   *)
(* shortened by the time a worker may take between clock and check.        *)
RateHolds ==
    \A p \in Pids, t \in 0..MaxClock :
        LET within == {i \in DOMAIN accepted[p] :
                          t - (Window - Skew) < accepted[p][i] /\ accepted[p][i] <= t}
        IN Cardinality(within) <= MaxRequests

(* The table stays within its bound, and the rate holds.                   *)
LimiterInv == LimiterTypeOK /\ RateHolds
=============================================================================
