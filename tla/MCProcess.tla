------------------------------ MODULE MCProcess ------------------------------
(***************************************************************************)
(* A small instance of each part around the engine: the launcher with its  *)
(* package, the process from start to end with its files, and the native   *)
(* request. They share no state; a behaviour runs one of them while the    *)
(* others keep still.                                                      *)
(***************************************************************************)
EXTENDS Launcher, ProcessLife, TimerSampling, TLC

\* Every request 0..6 against ordered, swapped, degenerate and too wide bounds;
\* readings straddle every interval by more than the tolerance.
MCRequests == 0..6
MCReadings == {1, 2, 3, 4, 6}
MCKernelBounds == {[min |-> a, max |-> b] : a, b \in {0, 1, 3, 6}}

\* Processes are alike, and so are launchers.
Alike == Permutations(Processes) \cup Permutations(Launchers)

VARIABLE part   \* the part that runs

\* A part with several initial states keeps to one of them while it is still.
MCProcessInit ==
    /\ part \in {"launcher", "life", "sampling"}
    /\ LauncherInit /\ LifeInit /\ SamplingInit
    /\ part # "life" => marker = "absent" /\ config = Default /\ ~portable
    /\ part # "sampling" => requested = 0 /\ bounds = [min |-> 1, max |-> 6]

MCProcessNext ==
    /\ \/ part = "launcher" /\ LauncherNext /\ UNCHANGED <<lifeVars, samplingVars>>
       \/ part = "life"     /\ LifeNext     /\ UNCHANGED <<launcherVars, samplingVars>>
       \/ part = "sampling" /\ SamplingNext /\ UNCHANGED <<launcherVars, lifeVars>>
    /\ UNCHANGED part

MCProcessSpec ==
    MCProcessInit /\ [][MCProcessNext]_<<part, launcherVars, lifeVars, samplingVars>>
=============================================================================
