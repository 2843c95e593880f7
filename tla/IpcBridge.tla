----------------------------- MODULE IpcBridge -----------------------------
(***************************************************************************)
(* The named pipe server of the tray process (tray/ipc.rs), its bounded    *)
(* queue (ipc_queue.rs) and the UI thread that drains it (controller.rs).  *)
(* A client is one call of the command line client: connect, one frame,    *)
(* one answer. The worker thread that serves it is part of its phase:      *)
(*   idle       not connected yet                                          *)
(*   connected  a worker has it, nothing read yet                          *)
(*   forward    a valid mutating command, the teardown flag not yet read   *)
(*   push       the flag was clear                                         *)
(*   post       queued, PostMessageW not yet called                        *)
(*   retract    PostMessageW failed, its request is being taken back       *)
(*   wait       blocked on its reply channel                               *)
(*   write      the worker has its result                                  *)
(*   flush      the answer is in the pipe, until the client takes it       *)
(*   done       the worker has ended and returned its permit               *)
(***************************************************************************)
EXTENDS Integers, Sequences, FiniteSets

CONSTANTS Clients,      \* the exchanges of a run
          Readers,      \* those whose client keeps reading, or closes its end
          Commands,     \* mutating commands: a verb with its payload
          MaxWorkers,   \* MAX_CONCURRENT_WORKERS
          MaxPending    \* MAX_PENDING_IPC_COMMANDS

ASSUME BridgeAssumption == /\ Readers \subseteq Clients
                           /\ MaxWorkers \in Nat \ {0}
                           /\ MaxPending \in Nat \ {0}
                           /\ "query" \notin Commands

VARIABLES running,    \* the flag of the accept loop
          permits,    \* free permits of the pool
          listening,  \* workers in ConnectNamedPipe
          phase,      \* client -> phase above
          request,    \* client -> its command, or "query", while its worker needs it
          result,     \* client -> what its worker will write
          answer,     \* client -> what the client was told
          reply,      \* client -> content of its reply channel
          queue,      \* IpcPendingCommand: requests that wait for the UI thread
          posted,     \* WM_APP_IPC messages not yet dispatched
          ui,         \* "idle", "draining" or "gone"
          userdata,   \* GWLP_USERDATA points to the App
          teardown,   \* IPC_TEARDOWN
          executed    \* client -> how often its command was executed

serverVars == <<running, permits, listening>>
clientVars == <<phase, request, result, answer>>
uiVars     == <<posted, ui, userdata, teardown, executed>>
bridgeVars == <<serverVars, clientVars, reply, queue, uiVars>>

Phases  == {"idle", "connected", "forward", "push", "post", "retract", "wait", "write",
            "flush", "done"}
\* "ok" is the success of a mutating command; "failed" stands for every error code
\* and for the status snapshot, none of which claims that a command was carried out;
\* "silent" is a client that saw its deadline or a broken pipe instead of an answer.
Results == {"none", "ok", "failed", "silent"}
Busy    == Phases \ {"idle", "done"}

BridgeInit ==
    /\ running = TRUE
    /\ permits = MaxWorkers
    /\ listening = 0
    /\ phase    = [c \in Clients |-> "idle"]
    /\ request  = [c \in Clients |-> "query"]
    /\ result   = [c \in Clients |-> "none"]
    /\ answer   = [c \in Clients |-> "none"]
    /\ reply    = [c \in Clients |-> "none"]
    /\ queue = <<>>
    /\ posted = 0
    /\ ui = "idle"
    /\ userdata = TRUE
    /\ teardown = FALSE
    /\ executed = [c \in Clients |-> 0]

-----------------------------------------------------------------------------
(* The accept loop and the pool                                            *)

\* A pipe instance is created and a worker takes a permit and listens on it.
dispatch_connection ==
    /\ running
    /\ permits > 0
    /\ permits' = permits - 1
    /\ listening' = listening + 1
    /\ UNCHANGED <<running, clientVars, reply, queue, uiVars>>

\* Nobody connects within the deadline: the worker ends.
connect_deadline ==
    /\ listening > 0
    /\ listening' = listening - 1
    /\ permits' = permits + 1
    /\ UNCHANGED <<running, clientVars, reply, queue, uiVars>>

\* IpcServer::shutdown, called by cleanup: the accept loop ends, workers do not.
shutdown ==
    /\ running
    /\ ui = "idle"
    /\ running' = FALSE
    /\ UNCHANGED <<permits, listening, clientVars, reply, queue, uiVars>>

-----------------------------------------------------------------------------
(* The client                                                              *)

\* CreateFileW finds a listening instance.
connect(c) ==
    /\ phase[c] = "idle"
    /\ listening > 0
    /\ listening' = listening - 1
    /\ \E r \in Commands \cup {"query"} : request' = [request EXCEPT ![c] = r]
    /\ phase' = [phase EXCEPT ![c] = "connected"]
    /\ UNCHANGED <<running, permits, result, answer, reply, queue, uiVars>>

\* No instance within the busy budget, or the instance that the saturated accept
\* loop opens and closes at once: the client is told that nobody is there.
unreachable(c) ==
    /\ phase[c] = "idle"
    /\ listening = 0
    /\ phase' = [phase EXCEPT ![c] = "done"]
    /\ answer' = [answer EXCEPT ![c] = "silent"]
    /\ UNCHANGED <<serverVars, request, result, reply, queue, uiVars>>

-----------------------------------------------------------------------------
(* The worker                                                              *)

Conclude(c, r) ==
    /\ result' = [result EXCEPT ![c] = r]
    /\ phase' = [phase EXCEPT ![c] = "write"]
    /\ request' = [request EXCEPT ![c] = "query"]

\* A whole frame, or an error at the latest after PIPE_READ_DEADLINE_MS.
read_frame == {"frame", "error"}

\* A query is answered from the snapshot. Acquire and schedule are validated early and
\* can fail there; every other command goes to the UI thread.
dispatch_command(c) ==
    \/ Conclude(c, "failed")
    \/ /\ request[c] # "query"
       /\ phase' = [phase EXCEPT ![c] = "forward"]
       /\ UNCHANGED <<result, request>>

\* The client's process, its rate limit and its token are checked around the read.
handle_pipe_connection(c) ==
    /\ phase[c] = "connected"
    /\ \E read \in read_frame, authorized \in BOOLEAN :
          IF read = "frame" /\ authorized THEN dispatch_command(c)
                                          ELSE Conclude(c, "failed")
    /\ UNCHANGED <<serverVars, answer, reply, queue, uiVars>>

\* forward_to_ui_thread reads the teardown flag ...
check_teardown(c) ==
    /\ phase[c] = "forward"
    /\ IF teardown
          THEN Conclude(c, "failed")
          ELSE phase' = [phase EXCEPT ![c] = "push"] /\ UNCHANGED <<result, request>>
    /\ UNCHANGED <<serverVars, answer, reply, queue, uiVars>>

\* ... queues the request unless the queue is full ...
push(c) ==
    /\ phase[c] = "push"
    /\ IF Len(queue) >= MaxPending
          THEN Conclude(c, "failed") /\ UNCHANGED queue
          ELSE /\ queue' = Append(queue, [from |-> c, command |-> request[c]])
               /\ phase' = [phase EXCEPT ![c] = "post"]
               /\ UNCHANGED <<result, request>>
    /\ UNCHANGED <<serverVars, answer, reply, uiVars>>

\* What a reply channel holds matters only while its worker may still read it.
Send(owners, r) ==
    reply' = [c \in Clients |->
                IF c \in owners /\ phase[c] \in {"post", "wait"} THEN r ELSE reply[c]]

\* ... and posts WM_APP_IPC. Posting fails when the window is gone or its message
\* queue is full.
post_succeeds(c) ==
    /\ phase[c] = "post"
    /\ ui # "gone"
    /\ posted' = posted + 1
    /\ phase' = [phase EXCEPT ![c] = "wait"]
    /\ request' = [request EXCEPT ![c] = "query"]
    /\ UNCHANGED <<serverVars, result, answer, reply, queue, ui, userdata,
                   teardown, executed>>

\* The request of a failed post stays in the queue.
FailedPostKeeps(c) ==
    /\ phase[c] = "post"
    /\ Conclude(c, "failed")
    /\ UNCHANGED <<serverVars, answer, reply, queue, uiVars>>

post_fails(c) ==
    /\ phase[c] = "post"
    /\ phase' = [phase EXCEPT ![c] = "retract"]
    /\ UNCHANGED <<serverVars, request, result, answer, reply, queue, uiVars>>

\* One turn of the recovery: the oldest request is popped, whoever it belongs to, until
\* one with the same verb and payload came out or the queue is empty. The queue is locked
\* for each pop only. The owner of a popped request sees its channel closed.
retract(c) ==
    /\ phase[c] = "retract"
    /\ IF queue = <<>>
          THEN Conclude(c, "failed") /\ UNCHANGED <<queue, reply>>
          ELSE /\ queue' = Tail(queue)
               /\ Send({Head(queue).from}, "failed")
               /\ IF Head(queue).command = request[c]
                     THEN Conclude(c, "failed")
                     ELSE UNCHANGED <<phase, result, request>>
    /\ UNCHANGED <<serverVars, answer, uiVars>>

\* The channel delivers, or is closed because the request was dropped unexecuted.
receive(c) ==
    /\ phase[c] = "wait"
    /\ reply[c] # "none"
    /\ Conclude(c, reply[c])
    /\ reply' = [reply EXCEPT ![c] = "none"]
    /\ UNCHANGED <<serverVars, answer, queue, uiVars>>

\* recv() instead of recv_timeout(): the wait has no deadline.
WaitForever(c) ==
    /\ FALSE
    /\ Conclude(c, "failed")
    /\ UNCHANGED <<serverVars, answer, reply, queue, uiVars>>

\* A command that is queued is reported as carried out when the wait ends.
DeadlineSucceeds(c) ==
    /\ phase[c] = "wait"
    /\ reply[c] = "none"
    /\ Conclude(c, "ok")
    /\ UNCHANGED <<serverVars, answer, reply, queue, uiVars>>

\* IPC_COMMAND_WAIT_MS: the worker stops waiting, the request stays where it is.
wait_deadline(c) ==
    /\ phase[c] = "wait"
    /\ reply[c] = "none"
    /\ Conclude(c, "failed")
    /\ UNCHANGED <<serverVars, answer, reply, queue, uiVars>>

\* write_pipe hands the answer to the pipe and calls FlushFileBuffers, which returns
\* when the client has taken it or has closed its end.
write_pipe(c) ==
    /\ phase[c] = "write"
    /\ phase' = [phase EXCEPT ![c] = "flush"]
    /\ UNCHANGED <<serverVars, request, result, answer, reply, queue, uiVars>>

\* The worker ends without returning its permit when the write fails.
KeepPermit(c) ==
    /\ phase[c] = "write"
    /\ phase' = [phase EXCEPT ![c] = "done"]
    /\ answer' = [answer EXCEPT ![c] = "silent"]
    /\ result' = [result EXCEPT ![c] = "none"]
    /\ UNCHANGED <<serverVars, request, reply, queue, uiVars>>

\* No event, a failed write, or PIPE_WRITE_DEADLINE_MS: nothing is flushed, the
\* instance is disconnected and the thread ends, which drops the permit.
write_fails(c) ==
    /\ phase[c] = "write"
    /\ phase' = [phase EXCEPT ![c] = "done"]
    /\ permits' = permits + 1
    /\ answer' = [answer EXCEPT ![c] = "silent"]
    /\ result' = [result EXCEPT ![c] = "none"]
    /\ UNCHANGED <<running, listening, request, reply, queue, uiVars>>

\* The client: it takes the answer, or it closes its end, as it does when it gave up
\* at CLIENT_IO_DEADLINE_MS.
read_answer(c) ==
    /\ phase[c] = "flush"
    /\ answer[c] = "none"
    /\ \E r \in {result[c], "silent"} : answer' = [answer EXCEPT ![c] = r]
    /\ UNCHANGED <<serverVars, phase, request, result, reply, queue, uiVars>>

\* The flush returns; disconnect and the end of the thread, which drops the permit.
finish(c) ==
    /\ phase[c] = "flush"
    /\ answer[c] # "none"
    /\ phase' = [phase EXCEPT ![c] = "done"]
    /\ permits' = permits + 1
    /\ result' = [result EXCEPT ![c] = "none"]
    /\ UNCHANGED <<running, listening, request, answer, reply, queue, uiVars>>

-----------------------------------------------------------------------------
(* The UI thread                                                           *)

wm_app_ipc ==
    /\ ui = "idle"
    /\ posted > 0
    /\ posted' = posted - 1
    /\ ui' = "draining"
    /\ UNCHANGED <<serverVars, clientVars, reply, queue, userdata, teardown, executed>>

\* One turn of drain_ipc_command_queue: execute and answer the oldest request, or
\* leave the loop. Whether the engine answers with success is its own matter.
drain_ipc_command_queue ==
    /\ ui = "draining"
    /\ IF queue = <<>>
          THEN ui' = "idle" /\ UNCHANGED <<queue, reply, executed>>
          ELSE /\ queue' = Tail(queue)
               /\ executed' = [executed EXCEPT ![Head(queue).from] = @ + 1]
               /\ Send({Head(queue).from}, "ok")
               /\ UNCHANGED ui
    /\ UNCHANGED <<serverVars, clientVars, posted, userdata, teardown>>

\* The WM_DESTROY arm of window_proc, which needs the pointer to the App: raise the
\* flag, refuse what is queued.
wm_destroy(data) ==
    /\ teardown' = (teardown \/ data)
    /\ queue' = IF data THEN <<>> ELSE queue
    /\ Send(IF data THEN {queue[i].from : i \in DOMAIN queue} ELSE {}, "failed")

\* The end of run(): the pointer is cleared, then the window is destroyed.
destroy_window ==
    /\ ui = "idle"
    /\ ~running
    /\ userdata' = FALSE
    /\ wm_destroy(userdata')
    /\ ui' = "gone"
    /\ posted' = 0
    /\ UNCHANGED <<serverVars, clientVars, executed>>

\* The process ends: its threads with it, and the clients see a broken pipe.
exit ==
    /\ ui = "gone"
    /\ \E c \in Clients : phase[c] \in Busy
    /\ phase' = [c \in Clients |-> IF phase[c] = "idle" THEN "idle" ELSE "done"]
    /\ answer' = [c \in Clients |-> IF phase[c] \in Busy /\ answer[c] = "none"
                                      THEN "silent" ELSE answer[c]]
    /\ permits' = MaxWorkers
    /\ listening' = 0
    /\ request' = [c \in Clients |-> "query"]
    /\ result' = [c \in Clients |-> "none"]
    /\ reply' = [c \in Clients |-> "none"]
    /\ queue' = <<>>
    /\ UNCHANGED <<running, uiVars>>

-----------------------------------------------------------------------------
Worker(c) ==
    \/ handle_pipe_connection(c) \/ check_teardown(c) \/ push(c)
    \/ post_succeeds(c) \/ post_fails(c) \/ retract(c)
    \/ receive(c) \/ wait_deadline(c)
    \/ write_pipe(c) \/ write_fails(c) \/ finish(c)

UiThread == wm_app_ipc \/ drain_ipc_command_queue \/ shutdown \/ destroy_window \/ exit

BridgeNext ==
    \/ dispatch_connection \/ connect_deadline
    \/ \E c \in Clients : connect(c) \/ unreachable(c) \/ Worker(c) \/ read_answer(c)
    \/ UiThread

\* A worker thread runs; its reads, its wait for the UI thread and its write have
\* deadlines. FlushFileBuffers has none: it returns for the clients that read, as
\* IpcClient::exchange does, and for no other is anything assumed.
BridgeFairness ==
    /\ \A c \in Clients : WF_bridgeVars(Worker(c))
    /\ \A c \in Readers : WF_bridgeVars(read_answer(c))

BridgeSpec == BridgeInit /\ [][BridgeNext]_bridgeVars /\ BridgeFairness

-----------------------------------------------------------------------------
(* Types of the server's, the clients' and the UI thread's state.          *)
BridgeTypeOK ==
    /\ running \in BOOLEAN
    /\ permits \in 0..MaxWorkers
    /\ listening \in 0..MaxWorkers
    /\ phase \in [Clients -> Phases]
    /\ request \in [Clients -> Commands \cup {"query"}]
    /\ result \in [Clients -> Results]
    /\ answer \in [Clients -> Results]
    /\ reply \in [Clients -> Results]
    /\ queue \in Seq([from : Clients, command : Commands])
    /\ posted \in Nat
    /\ ui \in {"idle", "draining", "gone"}
    /\ userdata \in BOOLEAN
    /\ teardown \in BOOLEAN
    /\ executed \in [Clients -> Nat]

\* Every permit is free, with a listening worker or with a worker that serves a
\* client, on every path through the worker, its deadlines and its refusals.
PermitsConserved ==
    permits + listening + Cardinality({c \in Clients : phase[c] \in Busy}) = MaxWorkers

\* A waiting request is never forgotten: while the UI thread is not in its drain loop,
\* a non-empty queue has a WM_APP_IPC on its way, or a worker that is about to post one
\* or to take a request back. This is what lets one message drain many requests and a
\* failed post remove others.
QueueHasWakeup ==
    (ui = "idle" /\ queue # <<>>) =>
        posted > 0 \/ \E c \in Clients : phase[c] \in {"post", "retract"}

\* The backlog never exceeds its limit and holds a request at most once.
QueueWithinLimit ==
    /\ Len(queue) <= MaxPending
    /\ \A i, j \in DOMAIN queue : queue[i].from = queue[j].from => i = j

\* The backlog: its types, its limit, and a wake-up for whatever waits in it.
BridgeInv == BridgeTypeOK /\ QueueWithinLimit /\ QueueHasWakeup

\* A client that is told its command was carried out is right, and no command is
\* carried out twice, whatever was dropped, refused or timed out around it.
SuccessIsExecuted ==
    \A c \in Clients : /\ executed[c] <= 1
                       /\ answer[c] = "ok" => executed[c] = 1

Contract == INSTANCE IpcContract WITH Answers <- Results

\* The bridge keeps its contract with the clients, step by step: an answer is final,
\* a command is executed once at most, and success is told after the execution.
KeepsContract == Contract!Spec

\* Whatever the UI thread does, the worker that took a client gets as far as putting
\* an answer into the pipe or ending the connection, and the worker of a client that
\* reads ends and gives its permit back. The second half is false of a client that
\* neither reads nor closes: its worker stays in FlushFileBuffers.
EveryClientAnswered ==
    /\ \A c \in Clients : phase[c] = "connected" ~> phase[c] \in {"flush", "done"}
    /\ \A c \in Readers : phase[c] = "connected" ~> phase[c] = "done"

\* What controller.md says of WM_DESTROY: it raises the teardown flag and drains the
\* queue, so that no request is left waiting when the window is gone.
DestroyAnswersQueued ==
    [][(ui' = "gone" /\ ui # "gone") => (teardown' /\ queue' = <<>>)]_bridgeVars
=============================================================================
