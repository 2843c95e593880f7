------------------------------- MODULE MCCore -------------------------------
(* A small instance of TimerOwnership: intervals 1..4, a tolerance of one  *)
(* unit, bounds reported in either order and one pair that is unusable.    *)
(* Beside it an instance of IpcBridge with its fairness, small enough for  *)
(* liveness. The two share no state: one is chosen at the start and runs.  *)
EXTENDS TimerOwnership, IpcBridge

MCKernelBounds == {[min |-> 1, max |-> 4], [min |-> 4, max |-> 2], [min |-> 0, max |-> 3]}
MCReadings == {1, 3, 4}
MCFloors   == {2, 3}

VARIABLE part   \* the part that runs

MCCoreInit ==
    /\ part \in {"ownership", "bridge"}
    /\ Init /\ BridgeInit

MCCoreNext ==
    /\ \/ part = "ownership" /\ Next /\ UNCHANGED bridgeVars
       \/ part = "bridge" /\ BridgeNext /\ UNCHANGED vars
    /\ UNCHANGED part

\* Where the ownership runs no client has connected, so that the fairness of the
\* workers and of the clients asks for nothing there.
MCCoreSpec == MCCoreInit /\ [][MCCoreNext]_<<part, vars, bridgeVars>> /\ BridgeFairness
=============================================================================
