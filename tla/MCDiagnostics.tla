---------------------------- MODULE MCDiagnostics ----------------------------
(***************************************************************************)
(* A small instance of the diagnostic store with its files, and one of the *)
(* diagnostic window. A behaviour runs one of them while the other keeps   *)
(* still.                                                                  *)
(***************************************************************************)
EXTENDS DiagnosticLog, DiagnosticWindow

MCRanges == {<<>>, <<2, 3>>, <<9>>}

VARIABLE part   \* the part that runs

MCDiagnosticsInit == part \in {"log", "window"} /\ LogInit /\ WindowInit

MCDiagnosticsNext ==
    /\ \/ part = "log"    /\ LogNext    /\ UNCHANGED windowVars
       \/ part = "window" /\ WindowNext /\ UNCHANGED logVars
    /\ UNCHANGED part

MCDiagnosticsSpec ==
    MCDiagnosticsInit /\ [][MCDiagnosticsNext]_<<part, logVars, windowVars>>
=============================================================================
