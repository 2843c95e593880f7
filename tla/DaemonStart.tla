---------------------------- MODULE DaemonStart -----------------------------
(***************************************************************************)
(* Starting the engine from the command line: run_daemon of true-tick-cli  *)
(* against the engines it spawns, whose IPC server publishes a token and a *)
(* process marker before it serves the pipe and retracts them when it      *)
(* stops. Several calls run at once, engines crash, files cannot be        *)
(* written.                                                                *)
(***************************************************************************)
EXTENDS Integers, FiniteSets

CONSTANTS Calls,          \* invocations of `true-tick-cli daemon`
          Engines,        \* engine processes
          MaxEngineFaults \* bound: crashes, and files not written or not removed

ASSUME DaemonAssumption ==
    MaxEngineFaults \in Nat /\ "nobody" \notin Engines /\ "unidentified" \notin Engines

VARIABLES engine,    \* the phase of each engine process
          instance,  \* the engine that holds the single-instance mutex
          lingering, \* stopped servers with workers that still wait for a client
          token,     \* the engine whose token the token file holds
          marker,    \* the engine whose identifier the marker file holds
          call,      \* the phase of each call, with what it has read
          exitCode,  \* its exit code
          unwritten, \* history: engines that could not write their token
          deleted,   \* history: a call deleted what a live engine had published
          engineFaults

daemonFiles == <<token, marker>>
daemonHistory == <<unwritten, deleted>>
daemonVars ==
    <<engine, instance, lingering, daemonFiles, call, exitCode, daemonHistory, engineFaults>>

Nobody == "nobody"
\* A client can connect while an instance of the pipe exists: while the server loop
\* runs, for a moment when the engine tries whether it can create one, and after the
\* loop has ended for as long as a worker stays in ConnectNamedPipe.
Serving == {e \in Engines : engine[e] \in {"probe", "serving"}} \cup lingering
Live == {e \in Engines : engine[e] \notin {"none", "gone"}}

DaemonInit ==
    /\ engine = [e \in Engines |-> "none"] /\ instance = Nobody /\ lingering = {}
    /\ token = Nobody /\ marker = Nobody
    /\ call = [c \in Calls |-> [at |-> "begin", expected |-> Nobody]]
    /\ exitCode = [c \in Calls |-> "none"]
    /\ unwritten = {} /\ deleted = FALSE /\ engineFaults = 0

-----------------------------------------------------------------------------
(* The engine. *)

Engine(e, phase) == engine' = [engine EXCEPT ![e] = phase]

\* A second engine exits; the first starts its server.
acquire_instance(e) ==
    /\ engine[e] = "spawned"
    /\ IF instance = Nobody THEN instance' = e /\ Engine(e, "new")
       ELSE Engine(e, "gone") /\ UNCHANGED instance
    /\ UNCHANGED <<lingering, daemonFiles, call, exitCode, daemonHistory, engineFaults>>

\* A first instance is created to see whether it can be, and closed again. When it
\* cannot, or the start fails before, the engine runs or ends without a server.
WriteFails == engineFaults < MaxEngineFaults /\ engineFaults' = engineFaults + 1
create_first_pipe(e) ==
    /\ engine[e] = "new"
    /\ \/ Engine(e, "probe") /\ UNCHANGED engineFaults
       \/ Engine(e, "exit") /\ WriteFails
    /\ UNCHANGED <<instance, lingering, daemonFiles, call, exitCode, daemonHistory>>
close_first_pipe(e) ==
    /\ engine[e] = "probe" /\ Engine(e, "token")
    /\ UNCHANGED <<instance, lingering, daemonFiles, call, exitCode, daemonHistory, engineFaults>>

\* A file that cannot be written is reported, and the server goes on.
publish_session_token(e) ==
    /\ engine[e] = "token" /\ Engine(e, "marker")
    /\ \/ token' = e /\ UNCHANGED <<unwritten, engineFaults>>
       \/ WriteFails /\ unwritten' = unwritten \cup {e} /\ UNCHANGED token
    /\ UNCHANGED <<instance, lingering, marker, call, exitCode, deleted>>
publish_server_pid_marker(e) ==
    /\ engine[e] = "marker" /\ Engine(e, "pipe")
    /\ \/ marker' = e /\ UNCHANGED engineFaults
       \/ WriteFails /\ UNCHANGED marker
    /\ UNCHANGED <<instance, lingering, token, call, exitCode, daemonHistory>>
\* No entropy for a token: the accept thread ends, and the engine runs on with a
\* server that only has its files to remove.
token_generation_failed(e) ==
    /\ engine[e] = "token" /\ WriteFails /\ Engine(e, "retract token")
    /\ UNCHANGED <<instance, lingering, daemonFiles, call, exitCode, daemonHistory>>
create_pipe_instance(e) ==
    /\ engine[e] = "pipe" /\ Engine(e, "serving")
    /\ UNCHANGED <<instance, lingering, daemonFiles, call, exitCode, daemonHistory, engineFaults>>

\* cleanup_normal_shutdown ends the accept loop, perhaps before its first round, and
\* joins its thread, not the workers: those that wait for a client go on waiting.
Stop(e) == lingering' = IF engine[e] = "serving" THEN lingering \cup {e} ELSE lingering
ReleaseFirst(e) ==                                  \* faulty: the mutex goes before the files
    /\ engine[e] = "serving" /\ Engine(e, "retract token") /\ instance' = Nobody /\ Stop(e)
    /\ UNCHANGED <<daemonFiles, call, exitCode, daemonHistory, engineFaults>>
stop_serving(e) ==
    /\ engine[e] \in {"pipe", "serving"} /\ Engine(e, "retract token") /\ Stop(e)
    /\ UNCHANGED <<instance, daemonFiles, call, exitCode, daemonHistory, engineFaults>>
\* A file that cannot be removed stays. The drop of the server removes both again, still
\* under the mutex, where there is nothing else to find.
retract_token(e) ==
    /\ engine[e] = "retract token" /\ Engine(e, "retract marker")
    /\ \/ token' = Nobody /\ UNCHANGED engineFaults
       \/ WriteFails /\ UNCHANGED token
    /\ UNCHANGED <<instance, lingering, marker, call, exitCode, daemonHistory>>
remove_server_pid_marker(e) ==
    /\ engine[e] = "retract marker" /\ Engine(e, "exit")
    /\ \/ marker' = Nobody /\ UNCHANGED engineFaults
       \/ WriteFails /\ UNCHANGED marker
    /\ UNCHANGED <<instance, lingering, token, call, exitCode, daemonHistory>>
\* PIPE_CONNECT_DEADLINE_MS after its start a worker without a client gives up.
wait_for_client(e) ==
    /\ e \in lingering /\ lingering' = lingering \ {e}
    /\ UNCHANGED <<engine, instance, daemonFiles, call, exitCode, daemonHistory, engineFaults>>
\* run() returns and closes the mutex, then the process ends and its workers with it.
release_instance(e) ==
    /\ engine[e] = "exit" /\ Engine(e, "leaving") /\ instance' = Nobody
    /\ UNCHANGED <<lingering, daemonFiles, call, exitCode, daemonHistory, engineFaults>>
exit_engine(e) ==
    /\ engine[e] = "leaving" /\ Engine(e, "gone") /\ lingering' = lingering \ {e}
    /\ UNCHANGED <<instance, daemonFiles, call, exitCode, daemonHistory, engineFaults>>
crash(e) ==
    /\ e \in Live /\ engineFaults < MaxEngineFaults
    /\ Engine(e, "gone") /\ lingering' = lingering \ {e} /\ engineFaults' = engineFaults + 1
    /\ instance' = IF instance = e THEN Nobody ELSE instance
    /\ UNCHANGED <<daemonFiles, call, exitCode, daemonHistory>>

-----------------------------------------------------------------------------
(* The command. *)

Call(c, phase) == call' = [call EXCEPT ![c].at = phase]
Exit(c, code) == exitCode' = [exitCode EXCEPT ![c] = code] /\ Call(c, "end")

\* A pipe that connects is checked against the marker. One that does not is taken to
\* mean that there is no engine, also when all its instances are busy.
connect_probe(c) ==
    /\ call[c].at = "begin"
    /\ \/ Serving # {} /\ Call(c, "marker of running")
       \/ Call(c, "resolve")
    /\ UNCHANGED <<engine, instance, lingering, daemonFiles, exitCode, daemonHistory, engineFaults>>

\* No engine beside the command or under the root is a failure.
resolve_daemon_target(c) ==
    /\ call[c].at = "resolve"
    /\ \/ Call(c, "clear token") /\ UNCHANGED exitCode
       \/ Exit(c, "failure")
    /\ UNCHANGED <<engine, instance, lingering, daemonFiles, daemonHistory, engineFaults>>

\* A file that cannot be removed is a warning.
Clear(file) == file' = Nobody /\ deleted' = (deleted \/ file \in Live) /\ UNCHANGED engineFaults
clear_stale_token(c) ==
    /\ call[c].at = "clear token" /\ Call(c, "clear marker")
    /\ Clear(token) \/ (WriteFails /\ UNCHANGED <<token, deleted>>)
    /\ UNCHANGED <<engine, instance, lingering, marker, exitCode, unwritten>>
clear_stale_server_pid(c) ==
    /\ call[c].at = "clear marker" /\ Call(c, "spawn")
    /\ Clear(marker) \/ (WriteFails /\ UNCHANGED <<marker, deleted>>)
    /\ UNCHANGED <<engine, instance, lingering, token, exitCode, unwritten>>

Spawn == \E e \in Engines : engine[e] = "none" /\ Engine(e, "spawned")
spawn(c) ==
    /\ call[c].at = "spawn"
    /\ \/ Spawn /\ Call(c, "poll") /\ UNCHANGED exitCode
       \/ Exit(c, "failure") /\ UNCHANGED engine
    /\ UNCHANGED <<instance, lingering, daemonFiles, daemonHistory, engineFaults>>
\* The user, or the registration at logon, starts an engine as well.
start_by_hand ==
    /\ Spawn
    /\ UNCHANGED <<instance, lingering, daemonFiles, call, exitCode, daemonHistory, engineFaults>>

\* Until the deadline: the token file is there and a pipe connects.
poll_token(c) ==
    /\ call[c].at = "poll" /\ token # Nobody /\ Serving # {}
    /\ Call(c, "marker of spawned")
    /\ UNCHANGED <<engine, instance, lingering, daemonFiles, exitCode, daemonHistory, engineFaults>>
poll_deadline(c) ==
    /\ call[c].at = "poll" /\ Exit(c, "unreachable")
    /\ UNCHANGED <<engine, instance, lingering, daemonFiles, daemonHistory, engineFaults>>

\* The marker is read first, then the pipe is opened once more for the identifier
\* of the process that serves it.
read_marker(c) ==
    /\ call[c].at \in {"marker of running", "marker of spawned"}
    /\ call' = [call EXCEPT ![c] =
                   [at |-> IF @.at = "marker of running" THEN "verify running"
                           ELSE "verify spawned",
                    expected |-> marker]]
    /\ UNCHANGED <<engine, instance, lingering, daemonFiles, exitCode, daemonHistory, engineFaults>>
verify_server_pid(c) ==
    /\ call[c].at \in {"verify running", "verify spawned"}
    /\ \E actual \in Serving \cup {"unidentified"} :
          IF actual = call[c].expected THEN Exit(c, "ok")
          ELSE IF call[c].at = "verify running" THEN Exit(c, "failure")
          ELSE Call(c, "poll") /\ UNCHANGED exitCode
    /\ UNCHANGED <<engine, instance, lingering, daemonFiles, daemonHistory, engineFaults>>

DaemonNext ==
    \/ \E e \in Engines :
          \/ acquire_instance(e) \/ create_first_pipe(e) \/ close_first_pipe(e)
          \/ publish_session_token(e) \/ token_generation_failed(e)
          \/ publish_server_pid_marker(e) \/ create_pipe_instance(e)
          \/ stop_serving(e) \/ retract_token(e) \/ remove_server_pid_marker(e)
          \/ wait_for_client(e) \/ release_instance(e) \/ exit_engine(e) \/ crash(e)
    \/ \E c \in Calls :
          \/ connect_probe(c) \/ resolve_daemon_target(c) \/ clear_stale_token(c)
          \/ clear_stale_server_pid(c) \/ spawn(c) \/ poll_token(c) \/ poll_deadline(c)
          \/ read_marker(c) \/ verify_server_pid(c)
    \/ start_by_hand

DaemonSpec == DaemonInit /\ [][DaemonNext]_daemonVars

-----------------------------------------------------------------------------
(* A call that ends well leaves a client able to talk, or has met an       *)
(* engine on its way out: the engine whose marker it verified has an       *)
(* instance of the pipe open, and unless its server has already stopped,   *)
(* the token file holds that engine's token, or a concurrent call has      *)
(* deleted it, or the engine could not write it. In particular an engine   *)
(* that stops, and whose workers answer for up to half a second more, does *)
(* not retract what the next one has published, which cannot start its     *)
(* server before this one has released the mutex (run_daemon,              *)
(* IpcServer::new, shutdown and drop). That the engine may already be      *)
(* stopping is all that is left to chance: the marker and the process of   *)
(* the pipe are compared after the token is looked for.                    *)
OkMeansReachable ==
    [][\A c \in Calls : exitCode'[c] = "ok" /\ exitCode[c] # "ok" =>
          LET e == call[c].expected
          IN  /\ e \in Serving
              /\ \/ token = e \/ deleted \/ e \in unwritten
                 \/ engine[e] \in {"retract token", "retract marker", "exit", "leaving"}]_daemonVars

(* The cleanup before a spawn deletes stale credentials only, never what a *)
(* running engine has published.                                           *)
CredentialsKept == ~deleted
=============================================================================
