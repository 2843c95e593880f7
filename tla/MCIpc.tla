-------------------------------- MODULE MCIpc --------------------------------
(***************************************************************************)
(* A small instance of each part of the IPC surface. The parts share no    *)
(* state; a behaviour runs one of them while the others keep still.        *)
(***************************************************************************)
EXTENDS IpcBridge, IpcCodec, RateLimiter, OverlappedIo, DaemonStart

MCTokens == {[i \in 1..TOKEN_LEN |-> (200 + i) % 256]}
MCPayloads == {<<>>, <<3, 16, 14, 0, 0>>}
MCTexts == {<<>>, <<111, 107>>, <<195, 164, 104>>}
MCNumbers == {<<0, 0, 0, 0, 0, 0, 0, 0>>, <<136, 19, 0, 0, 0, 0, 0, 0>>,
              <<1, 0, 0, 0, 1, 0, 0, 0>>, <<255, 255, 255, 255, 255, 255, 255, 255>>}

VARIABLE part   \* the part that runs

MCIpcInit ==
    /\ part \in {"bridge", "codec", "limiter", "io", "daemon"}
    /\ BridgeInit /\ CodecInit /\ LimiterInit /\ IoInit /\ DaemonInit

MCIpcNext ==
    /\ \/ part = "bridge"  /\ BridgeNext  /\ UNCHANGED <<case, limiterVars, ioVars, daemonVars>>
       \/ part = "codec"   /\ CodecNext   /\ UNCHANGED <<bridgeVars, limiterVars, ioVars, daemonVars>>
       \/ part = "limiter" /\ LimiterNext /\ UNCHANGED <<bridgeVars, case, ioVars, daemonVars>>
       \/ part = "io"      /\ IoNext      /\ UNCHANGED <<bridgeVars, case, limiterVars, daemonVars>>
       \/ part = "daemon"  /\ DaemonNext  /\ UNCHANGED <<bridgeVars, case, limiterVars, ioVars>>
    /\ UNCHANGED part

MCIpcSpec ==
    /\ MCIpcInit
    /\ [][MCIpcNext]_<<part, bridgeVars, case, limiterVars, ioVars, daemonVars>>
    /\ BridgeFairness
=============================================================================
