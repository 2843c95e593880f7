------------------------------ MODULE IpcProofs -----------------------------
(***************************************************************************)
(* The IPC surface: the bridge for any set of clients and commands, any    *)
(* number of workers and any backlog, overlapped operations for any number *)
(* of threads, handles and operations, the rate limiter for any callers    *)
(* and limits, the start of the daemon for any calls and engines, and the  *)
(* wire formats for any frames, responses and token files.                 *)
(***************************************************************************)
EXTENDS IpcBridge, OverlappedIo, RateLimiter, DaemonStart, IpcCodec, SelectionProofs,
        SequenceTheorems, WellFoundedInduction

-----------------------------------------------------------------------------
(* The bridge.                                                             *)

BusyClients == {c \in Clients : phase[c] \in Busy}

\* The permits, with what makes their sum a number.
Pool ==
    /\ permits \in Nat /\ listening \in Nat
    /\ IsFiniteSet(BusyClients)
    /\ permits + listening + Cardinality(BusyClients) = MaxWorkers

Types ==
    /\ running \in BOOLEAN
    /\ phase \in [Clients -> Phases]
    /\ request \in [Clients -> Commands \cup {"query"}]
    /\ result \in [Clients -> Results]
    /\ answer \in [Clients -> Results]
    /\ reply \in [Clients -> Results]
    /\ queue \in Seq([from : Clients, command : Commands])
    /\ posted \in Nat
    /\ ui \in {"idle", "draining", "gone"}
    /\ userdata \in BOOLEAN
    /\ teardown \in BOOLEAN
    /\ executed \in [Clients -> Nat]

Unforwarded == {"idle", "connected", "forward", "push"}

\* What is being forwarded is a command, and nothing is queued before it is pushed.
Forwarding ==
    /\ \A c \in Clients : phase[c] \in {"forward", "push", "post", "retract"} =>
                            request[c] \in Commands
    /\ \A i \in DOMAIN queue : phase[queue[i].from] \notin Unforwarded

\* A command is executed once it has left the queue, and success is said of it then.
Truth ==
    /\ \A c \in Clients : executed[c] <= 1
    /\ \A c \in Clients : phase[c] \in Unforwarded => executed[c] = 0
    /\ \A i \in DOMAIN queue : executed[queue[i].from] = 0
    /\ \A c \in Clients : "ok" \in {reply[c], result[c], answer[c]} => executed[c] = 1

\* There is no answer before the worker has written one.
Unanswered == \A c \in Clients : phase[c] \notin {"flush", "done"} => answer[c] = "none"

\* Every queued request can be given a worker of its own that is about to post, or to
\* take a request back, and has the same command. A failed post removes a request with
\* its command, not its request.
IsMatching(f) ==
    /\ f \in [DOMAIN queue -> Clients]
    /\ \A i \in DOMAIN queue : /\ phase[f[i]] \in {"post", "retract"}
                               /\ request[f[i]] = queue[i].command
    /\ \A i, j \in DOMAIN queue : f[i] = f[j] => i = j

\* Without a message on its way and outside the drain loop those workers suffice for
\* the queue.
Matched == ui = "idle" /\ posted = 0 => \E f : IsMatching(f)

BridgeIInv == Types /\ Pool /\ Forwarding /\ QueueWithinLimit /\ Truth /\ Unanswered /\ Matched

-----------------------------------------------------------------------------
(* Types                                                                   *)

Requests == [from : Clients, command : Commands]

(* How a step changes the queue: not at all, by the request of one worker  *)
(* at its end, or by the removal of a prefix.                              *)
Pushed(c) ==
    /\ push(c) /\ Len(queue) < MaxPending
    /\ queue' = Append(queue, [from |-> c, command |-> request[c]])
    /\ phase' = [phase EXCEPT ![c] = "post"] /\ UNCHANGED request
Dropped(p) ==
    /\ Len(queue') = Len(queue) - p
    /\ \A i \in 1..Len(queue') : queue'[i] = queue[i + p]

(* A step leaves the queue as it is, pushes the request of one worker, or  *)
(* drops some requests at its front.                                       *)
LEMMA QueueStep ==
    ASSUME Types, Forwarding, BridgeNext
    PROVE  /\ queue' \in Seq(Requests)
           /\ \/ queue' = queue
              \/ \E c \in Clients : Pushed(c)
              \/ \E p \in 0..Len(queue) : Dropped(p)
<1> DEFINE Q == /\ queue' \in Seq(Requests)
                /\ \/ queue' = queue
                   \/ \E c \in Clients : Pushed(c)
                   \/ \E p \in 0..Len(queue) : Dropped(p)
<1>0. queue \in Seq(Requests) /\ Len(queue) \in Nat
  BY LenProperties DEF Types, Requests
<1>1. CASE queue' = queue
  BY <1>0, <1>1
<1>2. ASSUME queue' = <<>> PROVE Q
  BY <1>0, <1>2, EmptySeq DEF Dropped
<1>3. ASSUME NEW c \in Clients, push(c), queue' # queue PROVE Q
  <2>1. [from |-> c, command |-> request[c]] \in Requests
    BY <1>3 DEF push, Forwarding, Requests
  <2>2. Pushed(c)
    BY <1>0, <1>3, BridgeAssumption DEF push, Pushed
  <2> QED
    BY <1>0, <2>1, <2>2, AppendProperties DEF Pushed
<1>4. ASSUME NEW c \in Clients, retract(c), queue = <<>> PROVE Q
  BY <1>1, <1>4 DEF retract
<1>5. ASSUME queue # <<>>, drain_ipc_command_queue \/ \E c \in Clients : retract(c) PROVE Q
  <2>1. queue' = Tail(queue)
    BY <1>5 DEF drain_ipc_command_queue, retract
  <2>2. queue' \in Seq(Requests) /\ Len(queue') = Len(queue) - 1
        /\ \A i \in 1..Len(queue') : queue'[i] = queue[i + 1]
    BY <1>0, <1>5, <2>1, HeadTailProperties
  <2>3. 1 \in 0..Len(queue)
    BY <1>0, <1>5, EmptySeq
  <2> QED
    BY <2>2, <2>3 DEF Dropped
<1>6. ASSUME destroy_window PROVE Q
  BY <1>1, <1>2, <1>6 DEF destroy_window, wm_destroy
<1>7. ASSUME exit PROVE Q
  BY <1>2, <1>7 DEF exit
<1>8. ASSUME drain_ipc_command_queue, queue = <<>> PROVE Q
  BY <1>1, <1>8 DEF drain_ipc_command_queue
<1>9. ASSUME dispatch_connection \/ connect_deadline \/ wm_app_ipc \/ shutdown PROVE Q
  BY <1>1, <1>9 DEF dispatch_connection, connect_deadline, wm_app_ipc, shutdown
<1>10. ASSUME NEW c \in Clients,
              \/ connect(c) \/ unreachable(c) \/ handle_pipe_connection(c) \/ check_teardown(c)
              \/ post_succeeds(c) \/ post_fails(c) \/ receive(c) \/ wait_deadline(c)
              \/ write_pipe(c) \/ write_fails(c) \/ read_answer(c) \/ finish(c)
       PROVE  Q
  BY <1>1, <1>10 DEF connect, unreachable, handle_pipe_connection, check_teardown,
     post_succeeds, post_fails, receive, wait_deadline, write_pipe, write_fails, read_answer,
     finish
<1> QED
  BY <1>1, <1>3, <1>4, <1>5, <1>6, <1>7, <1>8, <1>9, <1>10 DEF BridgeNext, Worker, UiThread

(* A step keeps the types.                                                 *)
LEMMA TypesStep ==
    ASSUME Types, Forwarding, BridgeNext
    PROVE  Types'
<1>1. queue' \in Seq([from : Clients, command : Commands])
  BY QueueStep DEF Requests
<1> USE DEF Types, serverVars, clientVars, uiVars, Conclude, Send, Phases, Results
<1>2. ASSUME dispatch_connection \/ connect_deadline \/ wm_app_ipc \/ shutdown PROVE Types'
  <2>1. CASE dispatch_connection \/ connect_deadline
    BY <2>1 DEF dispatch_connection, connect_deadline
  <2>2. CASE wm_app_ipc
    BY <2>2 DEF wm_app_ipc
  <2>3. CASE shutdown
    BY <2>3 DEF shutdown
  <2> QED
    BY <1>2, <2>1, <2>2, <2>3
<1>3. ASSUME NEW c \in Clients, connect(c) \/ unreachable(c) PROVE Types'
  BY <1>1, <1>3 DEF connect, unreachable
<1>4. ASSUME NEW c \in Clients, handle_pipe_connection(c) PROVE Types'
  BY <1>1, <1>4, ZenonT(60) DEF handle_pipe_connection, dispatch_command
<1>5. ASSUME NEW c \in Clients, check_teardown(c) \/ push(c) PROVE Types'
  BY <1>1, <1>5, ZenonT(60) DEF check_teardown, push
<1>6. ASSUME NEW c \in Clients, post_succeeds(c) \/ post_fails(c) \/ retract(c) PROVE Types'
  <2>1. CASE post_succeeds(c)
    BY <2>1 DEF post_succeeds
  <2>2. CASE post_fails(c)
    BY <2>2 DEF post_fails
  <2>3. CASE retract(c)
    <3>1. reply' \in [Clients -> Results]
      BY <2>3 DEF retract
    <3>2. /\ phase' \in [Clients -> Phases] /\ result' \in [Clients -> Results]
          /\ request' \in [Clients -> Commands \cup {"query"}]
      BY <2>3 DEF retract
    <3> QED
      BY <1>1, <2>3, <3>1, <3>2 DEF retract
  <2> QED
    BY <1>6, <2>1, <2>2, <2>3
<1>7. ASSUME NEW c \in Clients, receive(c) \/ wait_deadline(c) PROVE Types'
  BY <1>1, <1>7 DEF receive, wait_deadline
<1>8. ASSUME NEW c \in Clients, write_pipe(c) \/ write_fails(c) \/ read_answer(c) \/ finish(c)
      PROVE  Types'
  <2>1. CASE write_pipe(c)
    BY <2>1 DEF write_pipe
  <2>2. CASE write_fails(c)
    BY <2>2 DEF write_fails
  <2>3. CASE read_answer(c)
    BY <1>1, <2>3, ZenonT(60) DEF read_answer
  <2>4. CASE finish(c)
    BY <2>4 DEF finish
  <2> QED
    BY <1>8, <2>1, <2>2, <2>3, <2>4
<1>9. ASSUME drain_ipc_command_queue PROVE Types'
  <2>1. ASSUME queue # <<>> PROVE Head(queue).from \in Clients
    <3>1. Head(queue) \in [from : Clients, command : Commands]
      BY <2>1, HeadTailProperties
    <3> QED
      BY <3>1
  <2> QED
    BY <1>1, <1>9, <2>1 DEF drain_ipc_command_queue
<1>10. ASSUME destroy_window PROVE Types'
  BY <1>1, <1>10 DEF destroy_window, wm_destroy
<1>11. ASSUME exit PROVE Types'
  BY <1>1, <1>11 DEF exit
<1> QED
  BY <1>2, <1>3, <1>4, <1>5, <1>6, <1>7, <1>8, <1>9, <1>10, <1>11
     DEF BridgeNext, Worker, UiThread
-----------------------------------------------------------------------------
(* The pool                                                                *)

(* A worker that goes on serving keeps its permit.                         *)
LEMMA ServingSame ==
    ASSUME Types, Pool, UNCHANGED <<permits, listening>>,
           \A c \in Clients : phase'[c] \in Busy <=> phase[c] \in Busy
    PROVE  Pool'
<1>1. BusyClients' = BusyClients
  BY DEF BusyClients
<1> QED
  BY <1>1 DEF Pool

(* A step moves permits between the pool, the listeners and the workers    *)
(* that serve, and loses none.                                             *)
LEMMA PoolStep ==
    ASSUME Types, Pool, BridgeNext
    PROVE  Pool'
<1> USE DEF Types, serverVars, clientVars, uiVars, Conclude, Busy, Phases
<1>0. Cardinality(BusyClients) \in Nat
  BY FS_CardinalityType DEF Pool
<1>1. ASSUME dispatch_connection \/ connect_deadline PROVE Pool'
  <2>1. BusyClients' = BusyClients
    BY <1>1 DEF dispatch_connection, connect_deadline, BusyClients
  <2> QED
    BY <1>0, <1>1, <2>1, SMTT(30) DEF dispatch_connection, connect_deadline, Pool
<1>2. ASSUME NEW c \in Clients, connect(c) PROVE Pool'
  <2>1. BusyClients' = BusyClients \cup {c} /\ c \notin BusyClients
    BY <1>2 DEF connect, BusyClients
  <2>2. IsFiniteSet(BusyClients') /\ Cardinality(BusyClients') = Cardinality(BusyClients) + 1
    BY <2>1, FS_AddElement DEF Pool
  <2> QED
    BY <1>0, <1>2, <2>2 DEF connect, Pool
<1>3. ASSUME NEW c \in Clients, write_fails(c) \/ finish(c) PROVE Pool'
  <2>1. BusyClients' = BusyClients \ {c} /\ c \in BusyClients
    BY <1>3 DEF write_fails, finish, BusyClients
  <2>2. IsFiniteSet(BusyClients') /\ Cardinality(BusyClients') = Cardinality(BusyClients) - 1
    BY <2>1, FS_RemoveElement DEF Pool
  <2> QED
    BY <1>0, <1>3, <2>2 DEF write_fails, finish, Pool
<1>4. ASSUME exit PROVE Pool'
  <2>1. BusyClients' = {}
    BY <1>4 DEF exit, BusyClients
  <2> QED
    BY <1>4, <2>1, FS_EmptySet, BridgeAssumption DEF exit, Pool
<1>5. ASSUME NEW c \in Clients,
             \/ unreachable(c) \/ handle_pipe_connection(c) \/ check_teardown(c) \/ push(c)
             \/ post_succeeds(c) \/ receive(c) \/ wait_deadline(c)
      PROVE  Pool'
  BY <1>5, ServingSame DEF unreachable, handle_pipe_connection, dispatch_command, check_teardown,
     push, post_succeeds, receive, wait_deadline
<1>7. ASSUME NEW c \in Clients,
             post_fails(c) \/ retract(c) \/ write_pipe(c) \/ read_answer(c)
      PROVE  Pool'
  BY <1>7, ServingSame DEF post_fails, retract, write_pipe, read_answer
<1>6. ASSUME wm_app_ipc \/ shutdown \/ drain_ipc_command_queue \/ destroy_window PROVE Pool'
  BY <1>6, ServingSame DEF wm_app_ipc, shutdown, drain_ipc_command_queue, destroy_window
<1> QED
  BY <1>1, <1>2, <1>3, <1>4, <1>5, <1>6, <1>7 DEF BridgeNext, Worker, UiThread
-----------------------------------------------------------------------------
(* The backlog                                                             *)

(* A worker that has pushed never goes back, and nobody else's phase moves *)
(* with its own except at the end of the process.                          *)
LEMMA PhaseStep ==
    ASSUME Types, BridgeNext, NEW d \in Clients
    PROVE  /\ phase[d] \notin Unforwarded => phase'[d] \notin Unforwarded
           /\ phase[d] \in Unforwarded \/ phase'[d] = phase[d]
                \/ phase'[d] \in {"retract", "wait", "write", "flush", "done"}
<1> USE DEF Types, serverVars, clientVars, uiVars, Conclude, Unforwarded, Phases
<1>1. ASSUME NEW c \in Clients, connect(c) \/ unreachable(c) \/ write_fails(c) \/ finish(c)
      PROVE  phase[d] \in Unforwarded \/ phase'[d] = phase[d] \/ phase'[d] = "done"
  BY <1>1 DEF connect, unreachable, write_fails, finish
<1>6. ASSUME NEW c \in Clients,
             post_fails(c) \/ retract(c) \/ write_pipe(c) \/ read_answer(c)
      PROVE  phase'[d] = phase[d] \/ phase'[d] \in {"retract", "write", "flush"}
  BY <1>6 DEF post_fails, retract, write_pipe, read_answer
<1>2. ASSUME NEW c \in Clients, handle_pipe_connection(c) \/ check_teardown(c) \/ push(c)
      PROVE  phase[d] \in Unforwarded \/ phase'[d] = phase[d]
  BY <1>2 DEF handle_pipe_connection, dispatch_command, check_teardown, push
<1>3. ASSUME NEW c \in Clients, post_succeeds(c) \/ receive(c) \/ wait_deadline(c)
      PROVE  phase'[d] = phase[d] \/ phase'[d] \in {"wait", "write"}
  BY <1>3 DEF post_succeeds, receive, wait_deadline
<1>4. ASSUME exit PROVE phase[d] = "idle" \/ phase'[d] = "done"
  BY <1>4 DEF exit
<1>5. ASSUME \/ dispatch_connection \/ connect_deadline \/ wm_app_ipc \/ shutdown
             \/ drain_ipc_command_queue \/ destroy_window
      PROVE  phase' = phase
  BY <1>5 DEF dispatch_connection, connect_deadline, wm_app_ipc, shutdown,
     drain_ipc_command_queue, destroy_window
<1> QED
  BY <1>1, <1>2, <1>3, <1>4, <1>5, <1>6 DEF BridgeNext, Worker, UiThread

(* The requests that a step leaves in the queue keep their order, and a    *)
(* new one is that of a worker that had none there.                        *)
LEMMA QueueStays ==
    ASSUME Types, Forwarding, BridgeNext
    PROVE  /\ Len(queue) \in Nat /\ DOMAIN queue = 1..Len(queue)
           /\ Len(queue') \in Nat /\ DOMAIN queue' = 1..Len(queue')
           /\ \/ \E c \in Clients : Pushed(c)
              \/ \E p \in 0..Len(queue) : Dropped(p)
<1>1. queue \in Seq(Requests) /\ queue' \in Seq(Requests)
  BY QueueStep DEF Types, Requests
<1>2. /\ Len(queue) \in Nat /\ DOMAIN queue = 1..Len(queue)
      /\ Len(queue') \in Nat /\ DOMAIN queue' = 1..Len(queue')
  BY <1>1, LenProperties
<1>3. CASE queue' = queue
  <2>1. 0 \in 0..Len(queue) /\ Dropped(0)
    BY <1>2, <1>3 DEF Dropped
  <2> QED
    BY <1>2, <2>1
<1> QED
  BY <1>2, <1>3, QueueStep

(* A step keeps what is forwarded a command and the backlog within its     *)
(* limit.                                                                  *)
LEMMA BacklogStep ==
    ASSUME Types, Forwarding, QueueWithinLimit, BridgeNext
    PROVE  Forwarding' /\ QueueWithinLimit'
<1>1. ASSUME NEW d \in Clients, phase'[d] \in {"forward", "push", "post", "retract"}
      PROVE  request'[d] \in Commands
  <2> USE DEF Types, serverVars, clientVars, uiVars, Conclude, Forwarding
  <2>1. ASSUME NEW c \in Clients,
               \/ connect(c) \/ unreachable(c) \/ write_pipe(c) \/ write_fails(c)
               \/ read_answer(c) \/ finish(c)
        PROVE  request'[d] \in Commands
    BY <1>1, <2>1 DEF connect, unreachable, write_pipe, write_fails, read_answer, finish
  <2>2. ASSUME NEW c \in Clients, handle_pipe_connection(c) \/ check_teardown(c) \/ push(c)
        PROVE  request'[d] \in Commands
    <3>1. CASE handle_pipe_connection(c)
      BY <1>1, <3>1 DEF handle_pipe_connection, dispatch_command
    <3>2. CASE check_teardown(c)
      BY <1>1, <3>2 DEF check_teardown
    <3>3. CASE push(c)
      BY <1>1, <3>3 DEF push
    <3> QED
      BY <2>2, <3>1, <3>2, <3>3
  <2>3. ASSUME NEW c \in Clients,
               \/ post_succeeds(c) \/ post_fails(c) \/ retract(c) \/ receive(c)
               \/ wait_deadline(c)
        PROVE  request'[d] \in Commands
    BY <1>1, <2>3 DEF post_succeeds, post_fails, retract, receive, wait_deadline
  <2>4. ASSUME \/ dispatch_connection \/ connect_deadline \/ wm_app_ipc \/ shutdown
               \/ drain_ipc_command_queue \/ destroy_window \/ exit
        PROVE  request'[d] \in Commands
    BY <1>1, <2>4 DEF dispatch_connection, connect_deadline, wm_app_ipc, shutdown,
       drain_ipc_command_queue, destroy_window, exit
  <2> QED
    BY <2>1, <2>2, <2>3, <2>4 DEF BridgeNext, Worker, UiThread
<1>2. /\ Len(queue) \in Nat /\ DOMAIN queue = 1..Len(queue)
      /\ Len(queue') \in Nat /\ DOMAIN queue' = 1..Len(queue')
  BY QueueStays
<1>3. ASSUME NEW i \in DOMAIN queue PROVE queue[i].from \in Clients
  <2>1. queue[i] \in [from : Clients, command : Commands]
    BY <1>2, ElementOfSeq DEF Types
  <2> QED
    BY <2>1
<1>4. ASSUME NEW c \in Clients, Pushed(c) PROVE Forwarding' /\ QueueWithinLimit'
  <2>1. [from |-> c, command |-> request[c]] \in Requests /\ phase[c] = "push"
        /\ queue \in Seq(Requests)
    BY <1>4 DEF Pushed, push, Forwarding, Requests, Types
  <2>2. /\ Len(queue') = Len(queue) + 1
        /\ \A i \in 1..Len(queue) : queue'[i] = queue[i]
        /\ queue'[Len(queue) + 1].from = c
    BY <1>4, <2>1, AppendProperties DEF Pushed
  <2>3. \A i \in DOMAIN queue : queue[i].from # c
    BY <2>1 DEF Forwarding, Unforwarded
  <2>4. \A i \in DOMAIN queue' : i \in DOMAIN queue \/ i = Len(queue) + 1
    BY <1>2, <2>2
  <2>5. phase'[c] = "post"
    BY <1>4 DEF Pushed, Types
  <2>6. ASSUME NEW i \in DOMAIN queue' PROVE phase'[queue'[i].from] \notin Unforwarded
    BY <1>2, <1>3, <2>2, <2>4, <2>5, PhaseStep DEF Forwarding, Unforwarded
  <2>7. \A i, j \in DOMAIN queue' : queue'[i].from = queue'[j].from => i = j
    BY <1>2, <2>2, <2>3, <2>4 DEF QueueWithinLimit
  <2>8. Len(queue') <= MaxPending
    BY <1>2, <1>4, <2>2, BridgeAssumption DEF Pushed
  <2> QED
    BY <1>1, <2>6, <2>7, <2>8 DEF Forwarding, QueueWithinLimit
<1>5. ASSUME NEW p \in 0..Len(queue), Dropped(p) PROVE Forwarding' /\ QueueWithinLimit'
  <2>1. \A i \in DOMAIN queue' : i + p \in DOMAIN queue /\ queue'[i] = queue[i + p]
    BY <1>2, <1>5 DEF Dropped
  <2>2. ASSUME NEW i \in DOMAIN queue' PROVE phase'[queue'[i].from] \notin Unforwarded
    BY <1>3, <2>1, PhaseStep DEF Forwarding
  <2>3. ASSUME NEW i \in DOMAIN queue', NEW j \in DOMAIN queue',
               queue'[i].from = queue'[j].from
        PROVE  i = j
    <3>1. i + p = j + p
      BY <2>1, <2>3 DEF QueueWithinLimit
    <3> QED
      BY <1>2, <3>1
  <2>4. Len(queue') <= MaxPending
    BY <1>2, <1>5, BridgeAssumption DEF Dropped, QueueWithinLimit
  <2> QED
    BY <1>1, <2>2, <2>3, <2>4 DEF Forwarding, QueueWithinLimit
<1> QED
  BY <1>4, <1>5, QueueStays
-----------------------------------------------------------------------------
(* Answers                                                                 *)

(* The UI thread executes the oldest request, nobody else executes.        *)
LEMMA ExecutedStep ==
    ASSUME Types, Truth, BridgeNext
    PROVE  \/ executed' = executed
           \/ /\ drain_ipc_command_queue /\ queue # <<>> /\ queue' = Tail(queue)
              /\ Head(queue).from \in Clients /\ Head(queue) = queue[1] /\ 1 \in DOMAIN queue
              /\ executed[Head(queue).from] = 0
              /\ executed' = [executed EXCEPT ![Head(queue).from] = 1]
<1>1. CASE drain_ipc_command_queue /\ queue # <<>>
  <2>1. /\ Head(queue) \in [from : Clients, command : Commands]
        /\ Head(queue) = queue[1] /\ 1 \in DOMAIN queue
    <3>1. queue \in Seq([from : Clients, command : Commands])
      BY DEF Types
    <3>2. Head(queue) \in [from : Clients, command : Commands]
      BY <1>1, <3>1, HeadTailProperties
    <3>3. DOMAIN queue = 1..Len(queue) /\ Len(queue) \in Nat \ {0}
      BY <1>1, <3>1, LenProperties, EmptySeq
    <3> QED
      BY <1>1, <3>1, <3>2, <3>3
  <2>2. executed[Head(queue).from] = 0
    BY <2>1 DEF Truth
  <2> QED
    BY <1>1, <2>1, <2>2 DEF drain_ipc_command_queue, Types
<1>2. CASE drain_ipc_command_queue /\ queue = <<>>
  BY <1>2 DEF drain_ipc_command_queue
<1>3. ASSUME NEW c \in Clients, connect(c) \/ unreachable(c) \/ Worker(c) \/ read_answer(c)
      PROVE  executed' = executed
  BY <1>3 DEF connect, unreachable, Worker, handle_pipe_connection, check_teardown, push,
     post_succeeds, post_fails, retract, receive, wait_deadline, write_pipe, write_fails,
     read_answer, finish, uiVars
<1>4. ASSUME \/ dispatch_connection \/ connect_deadline \/ wm_app_ipc \/ shutdown
             \/ destroy_window \/ exit
      PROVE  executed' = executed
  BY <1>4 DEF dispatch_connection, connect_deadline, wm_app_ipc, shutdown, destroy_window, exit,
     uiVars
<1> QED
  BY <1>1, <1>2, <1>3, <1>4 DEF BridgeNext, UiThread

(* Where the words "ok" come from: a reply is sent by the execution, a     *)
(* result is a reply, an answer is a result.                               *)
LEMMA WordsStep ==
    ASSUME Types, BridgeNext, NEW d \in Clients
    PROVE  /\ reply'[d] = "ok" =>
                 reply[d] = "ok" \/ (drain_ipc_command_queue /\ queue # <<>> /\ d = Head(queue).from)
           /\ result'[d] = "ok" => "ok" \in {result[d], reply[d]}
           /\ answer'[d] = "ok" => "ok" \in {answer[d], result[d]}
<1> USE DEF Types, serverVars, clientVars, uiVars, Conclude, Send
<1>1. ASSUME NEW c \in Clients,
             \/ connect(c) \/ unreachable(c) \/ write_pipe(c) \/ write_fails(c)
             \/ read_answer(c) \/ finish(c)
      PROVE  /\ reply' = reply /\ (result'[d] = result[d] \/ result'[d] = "none")
             /\ answer'[d] \in {answer[d], result[d], "silent"}
  BY <1>1 DEF connect, unreachable, write_pipe, write_fails, read_answer, finish
<1>2. ASSUME NEW c \in Clients, handle_pipe_connection(c) \/ check_teardown(c) \/ push(c)
      PROVE  reply' = reply /\ result'[d] \in {result[d], "failed"} /\ answer' = answer
  <2>1. CASE handle_pipe_connection(c)
    BY <2>1 DEF handle_pipe_connection, dispatch_command
  <2>2. CASE check_teardown(c)
    BY <2>2 DEF check_teardown
  <2>3. CASE push(c)
    BY <2>3 DEF push
  <2> QED
    BY <1>2, <2>1, <2>2, <2>3
<1>3. ASSUME NEW c \in Clients, post_succeeds(c) \/ post_fails(c) \/ wait_deadline(c)
      PROVE  reply' = reply /\ result'[d] \in {result[d], "failed"} /\ answer' = answer
  BY <1>3 DEF post_succeeds, post_fails, wait_deadline
<1>4. ASSUME NEW c \in Clients, retract(c)
      PROVE  /\ reply'[d] \in {reply[d], "failed"} /\ result'[d] \in {result[d], "failed"}
             /\ answer' = answer
  BY <1>4 DEF retract
<1>5. ASSUME NEW c \in Clients, receive(c)
      PROVE  /\ reply'[d] \in {reply[d], "none"} /\ result'[d] \in {result[d], reply[d]}
             /\ answer' = answer
  BY <1>5 DEF receive
<1>6. ASSUME drain_ipc_command_queue
      PROVE  /\ reply'[d] # reply[d] => queue # <<>> /\ d = Head(queue).from
             /\ result' = result /\ answer' = answer
  BY <1>6 DEF drain_ipc_command_queue
<1>7. ASSUME exit
      PROVE  reply'[d] = "none" /\ result'[d] = "none" /\ answer'[d] \in {answer[d], "silent"}
  BY <1>7 DEF exit
<1>8. ASSUME destroy_window
      PROVE  reply'[d] \in {reply[d], "failed"} /\ result' = result /\ answer' = answer
  BY <1>8 DEF destroy_window, wm_destroy
<1>9. ASSUME dispatch_connection \/ connect_deadline \/ wm_app_ipc \/ shutdown
      PROVE  reply' = reply /\ result' = result /\ answer' = answer
  BY <1>9 DEF dispatch_connection, connect_deadline, wm_app_ipc, shutdown
<1> QED
  BY <1>1, <1>2, <1>3, <1>4, <1>5, <1>6, <1>7, <1>8, <1>9 DEF BridgeNext, Worker, UiThread

(* A step keeps success the word for what has been executed, once.         *)
LEMMA TruthStep ==
    ASSUME Types, Forwarding, QueueWithinLimit, Truth, BridgeNext
    PROVE  Truth'
<1>1. /\ Len(queue) \in Nat /\ DOMAIN queue = 1..Len(queue)
      /\ Len(queue') \in Nat /\ DOMAIN queue' = 1..Len(queue')
  BY QueueStays
<1>2. ASSUME NEW i \in DOMAIN queue PROVE queue[i].from \in Clients
  <2>1. queue[i] \in [from : Clients, command : Commands]
    BY <1>1, ElementOfSeq DEF Types
  <2> QED
    BY <2>1
<1>3. \A d \in Clients : phase'[d] \in Unforwarded => phase[d] \in Unforwarded
  BY PhaseStep
<1>4. CASE executed' = executed
  <2>1. ASSUME NEW c \in Clients, Pushed(c), NEW i \in DOMAIN queue'
        PROVE  executed'[queue'[i].from] = 0
    <3>1. [from |-> c, command |-> request[c]] \in Requests /\ phase[c] = "push"
          /\ queue \in Seq(Requests)
      BY <2>1 DEF Pushed, push, Forwarding, Requests, Types
    <3>2. /\ Len(queue') = Len(queue) + 1
          /\ \A j \in 1..Len(queue) : queue'[j] = queue[j]
          /\ queue'[Len(queue) + 1].from = c
      BY <2>1, <3>1, AppendProperties DEF Pushed
    <3>3. i \in DOMAIN queue \/ i = Len(queue) + 1
      BY <1>1, <3>2
    <3> QED
      BY <1>1, <1>4, <3>1, <3>2, <3>3 DEF Truth, Unforwarded
  <2>2. ASSUME NEW p \in 0..Len(queue), Dropped(p), NEW i \in DOMAIN queue'
        PROVE  executed'[queue'[i].from] = 0
    <3>1. i + p \in DOMAIN queue /\ queue'[i] = queue[i + p]
      BY <1>1, <2>2 DEF Dropped
    <3> QED
      BY <1>4, <3>1 DEF Truth
  <2>3. \A i \in DOMAIN queue' : executed'[queue'[i].from] = 0
    BY <2>1, <2>2, QueueStays
  <2>4. \A d \in Clients : "ok" \in {reply'[d], result'[d], answer'[d]} => executed'[d] = 1
    <3>1. ~(drain_ipc_command_queue /\ queue # <<>>)
      <4>1. SUFFICES ASSUME drain_ipc_command_queue, queue # <<>> PROVE FALSE
        OBVIOUS
      <4>2. Head(queue) \in [from : Clients, command : Commands]
        BY <4>1, HeadTailProperties DEF Types
      <4>3. executed'[Head(queue).from] = executed[Head(queue).from] + 1
        BY <4>1, <4>2 DEF drain_ipc_command_queue, Types
      <4>4. executed[Head(queue).from] \in Nat
        BY <4>2 DEF Types
      <4> QED
        BY <1>4, <4>3, <4>4
    <3> QED
      BY <1>4, <3>1, WordsStep DEF Truth
  <2> QED
    BY <1>3, <1>4, <2>3, <2>4 DEF Truth
<1>5. CASE /\ drain_ipc_command_queue /\ queue # <<>> /\ queue' = Tail(queue)
           /\ Head(queue).from \in Clients /\ Head(queue) = queue[1] /\ 1 \in DOMAIN queue
           /\ executed[Head(queue).from] = 0
           /\ executed' = [executed EXCEPT ![Head(queue).from] = 1]
  <2> DEFINE h == Head(queue).from
  <2>1. h \in Clients /\ h = queue[1].from /\ executed'[h] = 1
        /\ \A d \in Clients : d # h => executed'[d] = executed[d]
    BY <1>5 DEF Types
  <2>2. phase[h] \notin Unforwarded
    BY <1>5, <2>1 DEF Forwarding
  <2>3. \A i \in DOMAIN queue' : i + 1 \in DOMAIN queue /\ queue'[i] = queue[i + 1]
    <3>1. queue \in Seq([from : Clients, command : Commands])
      BY DEF Types
    <3>2. Len(queue') = Len(queue) - 1 /\ \A i \in 1..Len(queue') : queue'[i] = queue[i + 1]
      BY <1>5, <3>1, HeadTailProperties
    <3> QED
      BY <1>1, <3>2
  <2>4. ASSUME NEW i \in DOMAIN queue' PROVE executed'[queue'[i].from] = 0
    <3>1. i + 1 \in DOMAIN queue /\ queue'[i] = queue[i + 1] /\ i + 1 # 1
      BY <1>1, <2>3
    <3>2. queue'[i].from # h
      BY <1>5, <2>1, <3>1 DEF QueueWithinLimit
    <3> QED
      BY <1>2, <2>1, <3>1, <3>2 DEF Truth
  <2>5. \A d \in Clients : executed'[d] <= 1
    BY <2>1 DEF Truth
  <2>6. \A d \in Clients : phase'[d] \in Unforwarded => executed'[d] = 0
    BY <1>3, <2>1, <2>2 DEF Truth
  <2>7. ASSUME NEW d \in Clients, "ok" \in {reply'[d], result'[d], answer'[d]}
        PROVE  executed'[d] = 1
    <3>1. CASE d = h
      BY <2>1, <3>1
    <3>2. CASE d # h
      BY <2>1, <2>7, <3>2, WordsStep DEF Truth
    <3> QED
      BY <3>1, <3>2
  <2> QED
    BY <2>4, <2>5, <2>6, <2>7 DEF Truth
<1> QED
  BY <1>4, <1>5, ExecutedStep

(* A step keeps unanswered whose answer is not written, and answers for    *)
(* good.                                                                   *)
LEMMA AnswerStep ==
    ASSUME Types, Unanswered, BridgeNext
    PROVE  /\ Unanswered'
           /\ \A d \in Clients : answer'[d] # answer[d] => answer[d] = "none"
<1> USE DEF Types, serverVars, clientVars, uiVars, Conclude, Unanswered, Busy, Phases
<1>1. ASSUME NEW c \in Clients, unreachable(c) \/ write_fails(c) \/ read_answer(c)
      PROVE  /\ \A d \in Clients : d # c => answer'[d] = answer[d] /\ phase'[d] = phase[d]
             /\ phase'[c] \in {"flush", "done"} /\ answer[c] = "none"
  BY <1>1 DEF unreachable, write_fails, read_answer
<1> DEFINE Written(d) == phase[d] \in {"flush", "done"} => phase'[d] \in {"flush", "done"}
<1>2. ASSUME NEW c \in Clients, connect(c) \/ handle_pipe_connection(c) \/ check_teardown(c)
      PROVE  answer' = answer /\ \A d \in Clients : Written(d)
  BY <1>2 DEF connect, handle_pipe_connection, dispatch_command, check_teardown
<1>3. ASSUME NEW c \in Clients,
             \/ push(c) \/ post_succeeds(c) \/ post_fails(c) \/ retract(c) \/ receive(c)
             \/ wait_deadline(c) \/ write_pipe(c) \/ finish(c)
      PROVE  answer' = answer /\ \A d \in Clients : Written(d)
  BY <1>3 DEF push, post_succeeds, post_fails, retract, receive, wait_deadline, write_pipe, finish
<1>4. ASSUME \/ dispatch_connection \/ connect_deadline \/ wm_app_ipc \/ shutdown
             \/ drain_ipc_command_queue \/ destroy_window
      PROVE  answer' = answer /\ phase' = phase
  BY <1>4 DEF dispatch_connection, connect_deadline, wm_app_ipc, shutdown,
     drain_ipc_command_queue, destroy_window
<1>5. ASSUME exit
      PROVE  \A d \in Clients : /\ phase[d] = "idle" => answer'[d] = answer[d]
                                /\ phase[d] # "idle" => phase'[d] = "done"
                                /\ answer'[d] # answer[d] => answer[d] = "none"
  BY <1>5 DEF exit
<1> QED
  BY <1>1, <1>2, <1>3, <1>4, <1>5 DEF BridgeNext, Worker, UiThread
-----------------------------------------------------------------------------
(* The wake-up                                                             *)

(* A matching of the queue with the workers that are about to post, or to *)
(* take a request back, survives each pop of the recovery from a failed    *)
(* post: if the worker that pops, and is thereby done, stood for a request *)
(* that stays, the worker that stood for the popped one takes its place.   *)
LEMMA MatchingAfterRetract ==
    ASSUME Types, Forwarding, BridgeNext, NEW c \in Clients, retract(c), queue # <<>>,
           NEW f, IsMatching(f)
    PROVE  \E g : IsMatching(g)'
<1>1. /\ Len(queue) \in Nat /\ DOMAIN queue = 1..Len(queue)
      /\ Len(queue') \in Nat /\ DOMAIN queue' = 1..Len(queue')
  BY QueueStays
<1>2. queue \in Seq([from : Clients, command : Commands]) /\ queue' = Tail(queue)
  BY DEF Types, retract
<1>3. Len(queue') = Len(queue) - 1 /\ \A i \in 1..Len(queue') : queue'[i] = queue[i + 1]
  BY <1>2, HeadTailProperties
<1>4. 1 \in DOMAIN queue /\ Head(queue) = queue[1]
  <2>1. Len(queue) # 0
    BY <1>2, EmptySeq
  <2> QED
    BY <1>1, <1>2, <2>1
<1>5. \A d \in Clients : d # c => phase'[d] = phase[d] /\ request'[d] = request[d]
  BY DEF retract, Conclude, Types
<1>6. queue[1].command # request[c] => phase' = phase /\ request' = request
  BY <1>4 DEF retract
<1> DEFINE same == queue[1].command = request[c]
           G == [i \in DOMAIN queue' |-> IF same /\ f[i + 1] = c THEN f[1] ELSE f[i + 1]]
<1>7. PICK g : g = G
  OBVIOUS
<1>8. ASSUME NEW i \in DOMAIN queue'
      PROVE  i + 1 \in DOMAIN queue /\ i + 1 # 1 /\ queue'[i] = queue[i + 1]
  BY <1>1, <1>3
<1>9. /\ f[1] \in Clients /\ phase[f[1]] \in {"post", "retract"}
      /\ request[f[1]] = queue[1].command
  BY <1>4 DEF IsMatching
<1>10. ASSUME NEW i \in DOMAIN queue'
       PROVE  /\ f[i + 1] \in Clients /\ phase[f[i + 1]] \in {"post", "retract"}
              /\ request[f[i + 1]] = queue'[i].command /\ f[i + 1] # f[1]
  BY <1>4, <1>8 DEF IsMatching
<1>11. ASSUME NEW i \in DOMAIN queue'
       PROVE  /\ g[i] \in Clients /\ phase'[g[i]] \in {"post", "retract"}
              /\ request'[g[i]] = queue'[i].command
  <2>1. CASE ~same
    BY <1>6, <1>7, <1>10, <2>1
  <2>2. CASE same /\ f[i + 1] = c
    BY <1>5, <1>7, <1>9, <1>10, <2>2
  <2>3. CASE same /\ f[i + 1] # c
    BY <1>5, <1>7, <1>10, <2>3
  <2> QED
    BY <2>1, <2>2, <2>3
<1>12. ASSUME NEW i \in DOMAIN queue', NEW j \in DOMAIN queue', g[i] = g[j] PROVE i = j
  <2>1. f[i + 1] = f[j + 1]
    BY <1>7, <1>10, <1>12
  <2>2. i + 1 = j + 1
    BY <1>8, <2>1 DEF IsMatching
  <2> QED
    BY <1>1, <2>2
<1>13. g \in [DOMAIN queue' -> Clients]
  <2>1. \A i \in DOMAIN queue' : g[i] \in Clients
    BY <1>11
  <2> QED
    BY <1>7, <2>1
<1> HIDE DEF G
<1>14. IsMatching(g)'
  BY <1>11, <1>12, <1>13 DEF IsMatching
<1> QED
  BY <1>14

(* An empty queue is matched.                                              *)
LEMMA EmptyMatched ==
    ASSUME queue' = <<>>
    PROVE  Matched'
<1>1. DOMAIN queue' = {}
  OBVIOUS
<1> DEFINE g == [i \in {} |-> 0]
<1>2. IsMatching(g)'
  BY <1>1 DEF IsMatching
<1> QED
  BY <1>2 DEF Matched

Owing(d) ==
    phase[d] \in {"post", "retract"} =>
        phase'[d] \in {"post", "retract"} /\ request'[d] = request[d]

(* A step that leaves the queue alone, and whoever is about to post or to  *)
(* take a request back, keeps the matching.                                *)
LEMMA MatchingStays ==
    ASSUME Matched, queue' = queue, ui' = ui, posted' = posted,
           \A d \in Clients : Owing(d)
    PROVE  Matched'
<1> SUFFICES ASSUME ui = "idle", posted = 0 PROVE (\E f : IsMatching(f))'
  BY DEF Matched
<1>1. PICK f : IsMatching(f)
  BY DEF Matched
<1>2. IsMatching(f)'
  BY <1>1 DEF IsMatching, Owing
<1> QED
  BY <1>2

(* A step keeps a wake-up for what is queued.                              *)
LEMMA MatchedStep ==
    ASSUME Types, Forwarding, Matched, BridgeNext
    PROVE  Matched'
<1> USE DEF Types, serverVars, clientVars, uiVars, Conclude
<1>1. ASSUME NEW c \in Clients, push(c) PROVE Matched'
  <2>1. CASE queue' = queue
    <3>1. /\ ui' = ui /\ posted' = posted
          /\ \A d \in Clients : Owing(d)
      BY <1>1 DEF push, Owing
    <3> QED
      BY <2>1, <3>1, MatchingStays
  <2>2. CASE queue' # queue
    <3> SUFFICES ASSUME ui = "idle", posted = 0 PROVE (\E f : IsMatching(f))'
      BY <1>1 DEF Matched, push
    <3>1. PICK f : IsMatching(f)
      BY DEF Matched
    <3>2. /\ [from |-> c, command |-> request[c]] \in Requests /\ phase[c] = "push"
          /\ queue \in Seq(Requests) /\ request' = request
          /\ queue' = Append(queue, [from |-> c, command |-> request[c]])
          /\ phase'[c] = "post" /\ \A d \in Clients : d # c => phase'[d] = phase[d]
      BY <1>1, <2>2 DEF push, Forwarding, Requests
    <3>3. /\ Len(queue) \in Nat /\ DOMAIN queue = 1..Len(queue)
          /\ DOMAIN queue' = 1..Len(queue')
      BY QueueStays
    <3>4. /\ Len(queue') = Len(queue) + 1
          /\ \A i \in 1..Len(queue) : queue'[i] = queue[i]
          /\ queue'[Len(queue) + 1].command = request[c]
      BY <3>2, AppendProperties
    <3> DEFINE G == [i \in DOMAIN queue' |-> IF i \in DOMAIN queue THEN f[i] ELSE c]
    <3>11. PICK g : g = G
      OBVIOUS
    <3>5. \A i \in DOMAIN queue : f[i] \in Clients /\ f[i] # c
                                  /\ phase[f[i]] \in {"post", "retract"}
                                  /\ request[f[i]] = queue[i].command
      BY <3>1, <3>2 DEF IsMatching
    <3>6. \A i \in DOMAIN queue' : i \notin DOMAIN queue => i = Len(queue) + 1
      BY <3>3, <3>4
    <3>7. g \in [DOMAIN queue' -> Clients]
      BY <3>5, <3>11
    <3>8. \A i \in DOMAIN queue' : /\ phase'[g[i]] \in {"post", "retract"}
                                   /\ request'[g[i]] = queue'[i].command
      BY <3>2, <3>3, <3>4, <3>5, <3>6, <3>11
    <3>9. ASSUME NEW i \in DOMAIN queue', NEW j \in DOMAIN queue', g[i] = g[j] PROVE i = j
      BY <3>1, <3>5, <3>6, <3>9, <3>11 DEF IsMatching
    <3> HIDE DEF G
    <3>10. IsMatching(g)'
      BY <3>7, <3>8, <3>9 DEF IsMatching
    <3> QED
      BY <3>10
  <2> QED
    BY <2>1, <2>2
<1>2. ASSUME NEW c \in Clients, retract(c) PROVE Matched'
  <2>1. CASE queue = <<>>
    BY <1>2, <2>1, EmptyMatched DEF retract
  <2>2. CASE queue # <<>>
    <3> SUFFICES ASSUME ui = "idle", posted = 0 PROVE (\E f : IsMatching(f))'
      BY <1>2 DEF Matched, retract
    <3>1. PICK f : IsMatching(f)
      BY DEF Matched
    <3>2. \E g : IsMatching(g)'
      BY <1>2, <2>2, <3>1, MatchingAfterRetract
    <3> QED
      BY <3>2
  <2> QED
    BY <2>1, <2>2
<1>3. ASSUME NEW c \in Clients, post_succeeds(c) PROVE Matched'
  BY <1>3 DEF post_succeeds, Matched
<1>4. ASSUME drain_ipc_command_queue PROVE Matched'
  <2>1. CASE queue = <<>>
    BY <1>4, <2>1, EmptyMatched DEF drain_ipc_command_queue
  <2>2. CASE queue # <<>>
    BY <1>4, <2>2 DEF drain_ipc_command_queue, Matched
  <2> QED
    BY <2>1, <2>2
<1>5. ASSUME wm_app_ipc \/ destroy_window \/ exit PROVE Matched'
  BY <1>5 DEF wm_app_ipc, destroy_window, exit, Matched
<1>6. ASSUME dispatch_connection \/ connect_deadline \/ shutdown PROVE Matched'
  BY <1>6, MatchingStays DEF dispatch_connection, connect_deadline, shutdown, Owing
<1>7. ASSUME NEW c \in Clients,
             \/ connect(c) \/ unreachable(c) \/ post_fails(c) \/ write_pipe(c)
             \/ write_fails(c) \/ read_answer(c) \/ finish(c)
      PROVE  Matched'
  <2>1. /\ queue' = queue /\ ui' = ui /\ posted' = posted
        /\ \A d \in Clients : Owing(d)
    BY <1>7 DEF connect, unreachable, post_fails, write_pipe, write_fails, read_answer, finish,
       Owing
  <2> QED
    BY <2>1, MatchingStays
<1>8. ASSUME NEW c \in Clients,
             \/ handle_pipe_connection(c) \/ check_teardown(c) \/ receive(c) \/ wait_deadline(c)
      PROVE  Matched'
  <2>1. /\ queue' = queue /\ ui' = ui /\ posted' = posted
        /\ \A d \in Clients : Owing(d)
    BY <1>8 DEF handle_pipe_connection, dispatch_command, check_teardown, receive, wait_deadline,
       Owing
  <2> QED
    BY <2>1, MatchingStays
<1> QED
  BY <1>1, <1>2, <1>3, <1>4, <1>5, <1>6, <1>7, <1>8 DEF BridgeNext, Worker, UiThread
-----------------------------------------------------------------------------
(* The bridge                                                              *)

(* The inductive invariant holds in every behaviour.                       *)
LEMMA BridgeInduction == BridgeSpec => []BridgeIInv
<1>1. BridgeInit => BridgeIInv
  <2> SUFFICES ASSUME BridgeInit PROVE BridgeIInv
    OBVIOUS
  <2>1. Types
    BY EmptySeq DEF BridgeInit, Types, Phases, Results
  <2>2. BusyClients = {}
    BY DEF BridgeInit, BusyClients, Busy, Phases
  <2>3. Pool
    BY <2>2, FS_EmptySet, BridgeAssumption DEF BridgeInit, Pool
  <2>4. DOMAIN queue = {} /\ Len(queue) = 0
    BY EmptySeq DEF BridgeInit
  <2>5. Forwarding /\ QueueWithinLimit /\ Truth /\ Unanswered
    BY <2>4, BridgeAssumption DEF BridgeInit, Forwarding, QueueWithinLimit, Truth, Unanswered
  <2>6. IsMatching([i \in {} |-> 0])
    BY <2>4 DEF IsMatching
  <2> QED
    BY <2>1, <2>3, <2>5, <2>6 DEF BridgeIInv, Matched
<1>2. BridgeIInv /\ [BridgeNext]_bridgeVars => BridgeIInv'
  <2>1. ASSUME BridgeIInv, BridgeNext PROVE BridgeIInv'
    BY <2>1, TypesStep, PoolStep, BacklogStep, TruthStep, AnswerStep, MatchedStep DEF BridgeIInv
  <2>2. ASSUME BridgeIInv, UNCHANGED bridgeVars PROVE BridgeIInv'
    <3> USE <2>2 DEF bridgeVars, serverVars, clientVars, uiVars, BridgeIInv
    <3>1. Types'
      BY DEF Types
    <3>2. Pool'
      BY DEF Pool, BusyClients
    <3>3. Forwarding' /\ QueueWithinLimit'
      BY DEF Forwarding, QueueWithinLimit
    <3>4. Truth' /\ Unanswered'
      BY DEF Truth, Unanswered
    <3>5. Matched'
      BY MatchingStays DEF Owing
    <3> QED
      BY <3>1, <3>2, <3>3, <3>4, <3>5
  <2> QED
    BY <2>1, <2>2
<1> QED
  BY <1>1, <1>2, PTL DEF BridgeSpec

(* No permit of the worker pool is lost or made up, on every path through  *)
(* a worker, its deadlines and its refusals, and at the end of the process *)
(* (PermitPool of tray/ipc.rs).                                            *)
THEOREM PermitsAreConserved == BridgeSpec => []PermitsConserved
<1>1. BridgeIInv => PermitsConserved
  BY DEF BridgeIInv, Pool, BusyClients, PermitsConserved
<1> QED
  BY <1>1, BridgeInduction, PTL

(* The backlog never exceeds its limit, holds a request at most once, and  *)
(* is never left without a WM_APP_IPC on its way or about to be posted,    *)
(* although a failed post may remove another client's request.             *)
THEOREM BacklogIsSound == BridgeSpec => []BridgeInv
<1>1. BridgeIInv => BridgeTypeOK
  <2> SUFFICES ASSUME BridgeIInv PROVE BridgeTypeOK
    OBVIOUS
  <2>1. Cardinality(BusyClients) \in Nat
    BY FS_CardinalityType DEF BridgeIInv, Pool
  <2>2. permits \in 0..MaxWorkers /\ listening \in 0..MaxWorkers
    BY <2>1, BridgeAssumption DEF BridgeIInv, Pool
  <2> QED
    BY <2>2 DEF BridgeIInv, Types, BridgeTypeOK
<1>2. BridgeIInv => QueueHasWakeup
  <2> SUFFICES ASSUME BridgeIInv, ui = "idle", queue # <<>>, posted = 0
               PROVE  \E c \in Clients : phase[c] \in {"post", "retract"}
    BY DEF QueueHasWakeup, BridgeIInv, Types
  <2>1. PICK f : IsMatching(f)
    BY DEF BridgeIInv, Matched
  <2>2. 1 \in DOMAIN queue
    <3>1. queue \in Seq([from : Clients, command : Commands])
      BY DEF BridgeIInv, Types
    <3>2. DOMAIN queue = 1..Len(queue) /\ Len(queue) \in Nat \ {0}
      BY <3>1, LenProperties, EmptySeq
    <3> QED
      BY <3>2
  <2> QED
    BY <2>1, <2>2 DEF IsMatching
<1>3. BridgeIInv => BridgeInv
  BY <1>1, <1>2 DEF BridgeIInv, BridgeInv
<1> QED
  BY <1>3, BridgeInduction, PTL

(* A client that is told its command was carried out is right, and none is *)
(* carried out twice (forward_to_ui_thread, drain_ipc_command_queue).      *)
THEOREM SuccessIsTrue == BridgeSpec => []SuccessIsExecuted
<1>1. BridgeIInv => SuccessIsExecuted
  BY DEF BridgeIInv, Truth, SuccessIsExecuted
<1> QED
  BY <1>1, BridgeInduction, PTL

(* The workers, the queue and the UI thread together implement what the    *)
(* pipe promises: one final answer, at most one execution, and success     *)
(* only after it.                                                          *)
THEOREM BridgeKeepsContract == BridgeSpec => KeepsContract
<1>1. BridgeInit => Contract!Init
  BY DEF BridgeInit, Contract!Init
<1>2. BridgeIInv /\ [BridgeNext]_bridgeVars => [Contract!Next]_<<executed, answer>>
  <2>1. ASSUME BridgeIInv, BridgeNext PROVE [Contract!Next]_<<executed, answer>>
    <3>1. Types /\ Truth /\ Unanswered /\ Forwarding
      BY <2>1 DEF BridgeIInv
    <3>2. answer' \in [Clients -> Results]
      BY <2>1, <3>1, TypesStep DEF Types
    <3>3. CASE executed' = executed
      <4>1. ASSUME NEW d \in Clients, answer'[d] # answer[d]
            PROVE  answer[d] = "none" /\ (answer'[d] = "ok" => executed[d] = 1)
        BY <2>1, <3>1, <4>1, AnswerStep, WordsStep DEF Truth
      <4>2. Contract!Answer
        BY <3>2, <3>3, <4>1 DEF Contract!Answer
      <4> QED
        BY <4>2 DEF Contract!Next
    <3>4. CASE /\ drain_ipc_command_queue /\ Head(queue).from \in Clients
               /\ executed[Head(queue).from] = 0
               /\ executed' = [executed EXCEPT ![Head(queue).from] = 1]
      <4>1. answer' = answer
        BY <3>4 DEF drain_ipc_command_queue, clientVars
      <4>2. Contract!Execute(Head(queue).from)
        BY <3>4, <4>1 DEF Contract!Execute
      <4> QED
        BY <3>4, <4>2 DEF Contract!Next
    <3> QED
      BY <2>1, <3>1, <3>3, <3>4, ExecutedStep
  <2>2. ASSUME UNCHANGED bridgeVars PROVE [Contract!Next]_<<executed, answer>>
    BY <2>2 DEF bridgeVars, clientVars, uiVars
  <2> QED
    BY <2>1, <2>2
<1> QED
  BY <1>1, <1>2, BridgeInduction, PTL DEF BridgeSpec, KeepsContract, Contract!Spec

-----------------------------------------------------------------------------
(* Overlapped operations.                                                  *)

IoTypeOK ==
    /\ owner \in [Handles -> Threads \cup {None}]
    /\ ioPc \in [Threads -> {"idle", "issue", "wait", "cancel", "drain"}]
    /\ event \in [Threads -> Handles \cup {None}]
    /\ kernel \in [Threads -> {"idle", "pending", "done", "cancelled"}]

\* A thread that is engaged in an operation has its event, and only it has.
EventIsOwned ==
    \A t \in Threads : ioPc[t] # "idle" => event[t] \in Handles /\ owner[event[t]] = t

\* The kernel has the operation exactly while the thread waits for it or cancels it.
OperationIsAwaited ==
    \A t \in Threads : kernel[t] = "idle" <=> ioPc[t] \in {"idle", "issue"}

\* A handle that is free to be handed out is not signalled.
FreeIsUnsignalled == \A h \in Handles : owner[h] = None => h \notin signalled

\* The inductive invariant.
IoIInv ==
    /\ IoTypeOK /\ ~strayed
    /\ EventIsOwned /\ OperationIsAwaited /\ EventsAreClosed
    /\ FreeIsUnsignalled /\ SignalledIsOver

(* Closing the event of an operation that is over, as every path out of    *)
(* drain_overlapped, wait_for_client and read_frame does, keeps the        *)
(* invariant.                                                              *)
LEMMA CloseKeeps ==
    ASSUME IoIInv, NEW t \in Threads, NEW res, ioPc[t] # "idle",
           CloseAndReturn(t, res), kernel' = [kernel EXCEPT ![t] = "idle"],
           UNCHANGED event
    PROVE  IoIInv'
<1>1. event[t] \in Handles /\ owner[event[t]] = t
  BY DEF IoIInv, EventIsOwned
<1>2. \A u \in Threads : u # t /\ ioPc[u] # "idle" => event[u] # event[t]
  BY <1>1 DEF IoIInv, EventIsOwned
<1>3. IoTypeOK' /\ ~strayed'
  BY <1>1 DEF IoIInv, IoTypeOK, CloseAndReturn, Goto
<1>4. EventIsOwned' /\ OperationIsAwaited'
  BY <1>1, <1>2 DEF IoIInv, IoTypeOK, EventIsOwned, OperationIsAwaited, CloseAndReturn, Goto
<1>5. EventsAreClosed'
  BY <1>1, <1>2, OverlappedAssumption
     DEF IoIInv, IoTypeOK, EventIsOwned, EventsAreClosed, CloseAndReturn, Goto, None
<1>6. FreeIsUnsignalled' /\ SignalledIsOver'
  BY <1>1, <1>2 DEF IoIInv, IoTypeOK, FreeIsUnsignalled, SignalledIsOver, CloseAndReturn, Goto
<1> QED
  BY <1>3, <1>4, <1>5, <1>6 DEF IoIInv

(* One step per action keeps the inductive invariant.                      *)
LEMMA IoStep == IoIInv /\ [IoNext]_ioVars => IoIInv'
<1> SUFFICES ASSUME IoIInv, [IoNext]_ioVars PROVE IoIInv'
  OBVIOUS
<1> USE DEF IoIInv, IoTypeOK, EventIsOwned, OperationIsAwaited, EventsAreClosed,
            FreeIsUnsignalled, SignalledIsOver
<1>1. ASSUME NEW t \in Threads, create_overlapped_event(t) PROVE IoIInv'
  BY <1>1, OverlappedAssumption DEF create_overlapped_event, Goto, None
<1>2. ASSUME NEW t \in Threads, issue(t) PROVE IoIInv'
  <2>1. CASE \E res \in {"transferred", "failed"} : CloseAndReturn(t, res) /\ UNCHANGED kernel
    <3>1. PICK res : CloseAndReturn(t, res) /\ UNCHANGED kernel
      BY <2>1
    <3>2. ioPc[t] = "issue" /\ UNCHANGED event
      BY <1>2 DEF issue
    <3>3. kernel' = [kernel EXCEPT ![t] = "idle"]
      BY <3>1, <3>2
    <3> QED
      BY <3>1, <3>2, <3>3, CloseKeeps
  <2>2. CASE /\ kernel' = [kernel EXCEPT ![t] = "pending"]
             /\ Goto(t, "wait") /\ UNCHANGED <<owner, signalled, outcome, strayed>>
    BY <1>2, <2>2 DEF issue, Goto
  <2> QED
    BY <1>2, <2>1, <2>2 DEF issue
<1>3. ASSUME NEW t \in Threads, complete(t) PROVE IoIInv'
  <2>1. event[t] \in Handles /\ owner[event[t]] = t
    BY <1>3 DEF complete
  <2>2. ~strayed'
    BY <1>3, <2>1 DEF complete
  <2>3. \A u \in Threads : u # t /\ ioPc[u] # "idle" => event[u] # event[t]
    BY <2>1
  <2> QED
    BY <1>3, <2>1, <2>2, <2>3, OverlappedAssumption DEF complete, None
<1>4. ASSUME NEW t \in Threads, wait_signalled(t) PROVE IoIInv'
  BY <1>4, CloseKeeps DEF wait_signalled
<1>5. ASSUME NEW t \in Threads, wait_deadline_passed(t) PROVE IoIInv'
  BY <1>5 DEF wait_deadline_passed, Goto
<1>6. ASSUME NEW t \in Threads, CancelIoEx(t) PROVE IoIInv'
  BY <1>6 DEF CancelIoEx, Goto
<1>7. ASSUME NEW t \in Threads, acknowledge(t) PROVE IoIInv'
  <2>1. event[t] \in Handles /\ owner[event[t]] = t
    BY <1>7 DEF acknowledge
  <2>2. ~strayed'
    BY <1>7, <2>1 DEF acknowledge
  <2>3. \A u \in Threads : u # t /\ ioPc[u] # "idle" => event[u] # event[t]
    BY <2>1
  <2> QED
    BY <1>7, <2>1, <2>2, <2>3, OverlappedAssumption DEF acknowledge, None
<1>8. ASSUME NEW t \in Threads, drain_overlapped(t) PROVE IoIInv'
  BY <1>8, CloseKeeps DEF drain_overlapped
<1>9. CASE UNCHANGED ioVars
  BY <1>9 DEF ioVars
<1> QED
  BY <1>1, <1>2, <1>3, <1>4, <1>5, <1>6, <1>7, <1>8, <1>9 DEF IoNext

(* Whatever the kernel does and when, no overlapped operation of the pipe  *)
(* outlives its event, no event is leaked, and a signal is that of the     *)
(* operation (drain_overlapped, wait_for_client, read_frame).              *)
THEOREM EventsAndOperations == IoSpec => []IoInv
<1>1. IoInit => IoIInv
  BY OverlappedAssumption
     DEF IoInit, IoIInv, IoTypeOK, EventIsOwned, OperationIsAwaited, EventsAreClosed,
         FreeIsUnsignalled, SignalledIsOver, None
<1>2. IoIInv => IoInv
  BY DEF IoIInv, IoInv, EventOutlivesOperation, OperationIsAwaited
<1> QED
  BY <1>1, <1>2, IoStep, PTL DEF IoSpec

-----------------------------------------------------------------------------
(* The rate limiter.                                                       *)

\* The positions of the stamps after x.
Later(s, x) == {i \in DOMAIN s : s[i] > x}

(* The stamps after an instant are a number.                               *)
LEMMA LaterFinite ==
    ASSUME NEW s \in Seq(Int), NEW x \in Int
    PROVE  IsFiniteSet(Later(s, x)) /\ Cardinality(Later(s, x)) \in Nat
<1>1. DOMAIN s = 1..Len(s) /\ Len(s) \in Nat
  OBVIOUS
<1>2. IsFiniteSet(DOMAIN s)
  BY <1>1, FS_Interval
<1>3. Later(s, x) \in SUBSET DOMAIN s
  BY DEF Later
<1> QED
  BY <1>2, <1>3, FS_Subset, FS_CardinalityType

(* After a later instant there are fewer of them.                          *)
LEMMA LaterShrinks ==
    ASSUME NEW s \in Seq(Int), NEW x \in Int, NEW y \in Int, y <= x
    PROVE  Cardinality(Later(s, x)) <= Cardinality(Later(s, y))
<1>1. \A i \in DOMAIN s : s[i] \in Int
  OBVIOUS
<1>2. Later(s, x) \in SUBSET Later(s, y)
  BY <1>1 DEF Later
<1> QED
  BY <1>2, LaterFinite, FS_Subset

(* A new stamp counts for the instants before it and for no other.         *)
LEMMA LaterAppend ==
    ASSUME NEW s \in Seq(Int), NEW v \in Int, NEW x \in Int
    PROVE  Cardinality(Later(Append(s, v), x))
             = Cardinality(Later(s, x)) + (IF v > x THEN 1 ELSE 0)
<1> DEFINE n == Len(s) + 1
<1>1. /\ n \notin DOMAIN s /\ DOMAIN Append(s, v) = DOMAIN s \cup {n}
      /\ Append(s, v)[n] = v /\ \A i \in DOMAIN s : Append(s, v)[i] = s[i]
  OBVIOUS
<1>2. n \notin Later(s, x)
  BY <1>1 DEF Later
<1>3. CASE v > x
  <2>1. Later(Append(s, v), x) = Later(s, x) \cup {n}
    BY <1>1, <1>3 DEF Later
  <2>2. Cardinality(Later(s, x) \cup {n}) = Cardinality(Later(s, x)) + 1
    <3> HIDE DEF n
    <3> QED
      BY <1>2, LaterFinite, FS_AddElement
  <2> QED
    BY <1>3, <2>1, <2>2
<1>4. CASE ~(v > x)
  <2>1. Later(Append(s, v), x) = Later(s, x)
    BY <1>1, <1>4 DEF Later
  <2> QED
    BY <1>4, <2>1, LaterFinite
<1> QED
  BY <1>3, <1>4

(* Forgetting the stamps before an instant forgets none of those after it. *)
LEMMA LaterRetain ==
    ASSUME NEW s \in Seq(Int), NEW x \in Int, NEW y \in Int, y <= x,
           NEW r, r = Retain(s, Later(s, y))
    PROVE  /\ r \in Seq(Int) /\ Len(r) = Cardinality(Later(s, y))
           /\ Cardinality(Later(r, x)) = Cardinality(Later(s, x))
<1> DEFINE I == Later(s, y)
           n == Cardinality(I \cap DOMAIN s)
           L == Later(r, x)
           M == Later(s, x)
<1>1. I \cap DOMAIN s = I /\ r = Retain(s, I) /\ \A i \in DOMAIN s : s[i] \in Int
  BY DEF Later
<1>2. \A i \in DOMAIN s : i \in M => i \in I
  BY <1>1 DEF Later
<1> HIDE DEF I
<1>3. r \in Seq(Int) /\ Len(r) = n
  BY <1>1, RetainKeeps
<1>4. PICK p \in Bijection(1..n, I \cap DOMAIN s) : Retain(s, I) = [k \in 1..n |-> s[p[k]]]
  BY RetainEnumerates
<1>5. /\ p \in [1..n -> I] /\ \A k, l \in 1..n : p[k] = p[l] => k = l
      /\ \A i \in I : \E k \in 1..n : p[k] = i
  BY <1>1, <1>4 DEF Bijection, Injection, Surjection, IsInjective
<1>6. DOMAIN r = 1..n /\ \A k \in 1..n : r[k] = s[p[k]]
  BY <1>1, <1>4
<1> DEFINE f == [k \in L |-> p[k]]
<1>7. L \subseteq 1..n /\ \A k \in 1..n : k \in L <=> p[k] \in M
  BY <1>1, <1>5, <1>6 DEF Later
<1>8. M \subseteq I
  BY <1>2 DEF Later
<1> HIDE DEF L, M, n
<1>9. f \in Bijection(L, M)
  BY <1>5, <1>7, <1>8, ZenonT(60) DEF Bijection, Injection, Surjection, IsInjective
<1>10. ExistsBijection(L, M) /\ IsFiniteSet(L)
  BY <1>3, <1>9, LaterFinite DEF ExistsBijection, L
<1>11. Cardinality(L) = Cardinality(M)
  BY <1>10, FS_Bijection
<1> QED
  BY <1>1, <1>3, <1>11 DEF I, L, M, n

Record == [stamps : Seq(0..MaxClock), last_seen : Nat]

\* The stamps of the last window that were accepted of a caller are in its record, and
\* a caller without a record has none.
Covered(p, x) ==
    Cardinality(Later(accepted[p], x))
        <= IF p \in Tracked THEN Cardinality(Later(records[p].stamps, x)) ELSE 0

LimiterIInv ==
    /\ clock \in (Window + Skew)..MaxClock
    /\ IsFiniteSet(Tracked) /\ Tracked \subseteq Pids /\ Cardinality(Tracked) <= MaxTracked
    /\ \A p \in Tracked : records[p] \in Record /\ Len(records[p].stamps) <= MaxRequests
    /\ accepted \in [Pids -> Seq(0..MaxClock)]
    /\ \A p \in Pids, x \in Int : x >= clock - Window => Covered(p, x)
    /\ RateHolds

(* Stamps are integers.                                                    *)
LEMMA StampsAreNumbers == ASSUME NEW s \in Seq(0..MaxClock) PROVE s \in Seq(Int)
<1>1. MaxClock \in Nat
  BY RateLimiterAssumption
<1> QED
  BY <1>1

(* The record that gives way is one of the table.                          *)
LEMMA EvictedIsTracked ==
    ASSUME NEW recs, DOMAIN recs \subseteq Nat, DOMAIN recs # {},
           \A p \in DOMAIN recs : recs[p].last_seen \in Nat
    PROVE  evict_least_recently_seen(recs) \in DOMAIN recs
<1> DEFINE T == {recs[p].last_seen : p \in DOMAIN recs}
<1>1. PICK l \in T : \A k \in T : l <= k
  <2>1. T \in SUBSET Nat /\ T # {}
    OBVIOUS
  <2> HIDE DEF T
  <2> QED
    BY <2>1, LeastNumber
<1> DEFINE P == {p \in DOMAIN recs : recs[p].last_seen = l}
<1>2. PICK p \in P : \A q \in P : p <= q
  <2>1. P \in SUBSET Nat /\ P # {}
    BY <1>1
  <2> HIDE DEF P
  <2> QED
    BY <2>1, LeastNumber
<1>3. ASSUME NEW q \in DOMAIN recs
      PROVE  \/ recs[p].last_seen < recs[q].last_seen
             \/ recs[p].last_seen = recs[q].last_seen /\ p <= q
  BY <1>1, <1>2, <1>3
<1>4. p \in DOMAIN recs
  BY <1>2
<1> QED
  BY <1>3, <1>4 DEF evict_least_recently_seen

(* What is retained of a record is a sequence of stamps with those of the  *)
(* window in it.                                                           *)
LEMMA RecentIs ==
    ASSUME clock \in (Window + Skew)..MaxClock, NEW now \in (clock - Skew)..clock,
           NEW s \in Seq(0..MaxClock)
    PROVE  /\ now - Window \in Int /\ now \in 0..MaxClock /\ now - Window <= clock - Window
           /\ Recent(s, now) \in Seq(0..MaxClock)
           /\ Len(Recent(s, now)) = Cardinality(Later(s, now - Window))
           /\ Len(Recent(s, now)) <= Len(s)
           /\ \A x \in Int : x >= now - Window =>
                 Cardinality(Later(Recent(s, now), x)) = Cardinality(Later(s, x))
<1>1. /\ Window \in Nat /\ Skew \in Nat /\ MaxClock \in Nat /\ clock \in Int /\ now \in Int
      /\ now >= Window /\ now \in 0..MaxClock /\ cutoff(now) = now - Window
  BY RateLimiterAssumption DEF cutoff
<1>2. Recent(s, now) = Retain(s, Later(s, now - Window))
  BY <1>1 DEF Recent, Later
<1>3. s \in Seq(Int)
  BY StampsAreNumbers
<1>4. /\ Retain(s, Later(s, now - Window)) \in Seq(0..MaxClock)
      /\ Len(Retain(s, Later(s, now - Window))) <= Len(s)
  BY RetainKeeps
<1>5. \A x \in Int : x >= now - Window =>
         /\ Len(Recent(s, now)) = Cardinality(Later(s, now - Window))
         /\ Cardinality(Later(Recent(s, now), x)) = Cardinality(Later(s, x))
  BY <1>1, <1>2, <1>3, LaterRetain
<1>6. Len(Recent(s, now)) = Cardinality(Later(s, now - Window))
  BY <1>1, <1>5
<1> QED
  BY <1>1, <1>2, <1>4, <1>5, <1>6

(* The empty table satisfies the invariant.                                *)
LEMMA LimiterStarts == LimiterInit => LimiterIInv
<1> SUFFICES ASSUME LimiterInit PROVE LimiterIInv
  OBVIOUS
<1>1. /\ clock = Window + Skew /\ records = <<>> /\ accepted = [p \in Pids |-> <<>>]
      /\ Window \in Nat /\ Skew \in Nat /\ MaxClock \in Nat /\ Window + Skew <= MaxClock
      /\ MaxTracked \in Nat /\ MaxRequests \in Nat
  BY RateLimiterAssumption DEF LimiterInit
<1>2. Tracked = {} /\ \A p \in Pids : accepted[p] = <<>>
  BY <1>1 DEF Tracked
<1>3. \A x : Later(<<>>, x) = {}
  BY DEF Later
<1>4. \A p \in Pids, x \in Int : Covered(p, x)
  <2>1. ASSUME NEW p \in Pids, NEW x \in Int PROVE Cardinality(Later(accepted[p], x)) = 0
    BY <1>2, <1>3, FS_EmptySet, Zenon
  <2>2. \A p \in Pids : p \notin Tracked
    BY <1>2
  <2> QED
    BY <2>1, <2>2 DEF Covered
<1>5. RateHolds
  <2> SUFFICES ASSUME NEW p \in Pids, NEW t \in 0..MaxClock
               PROVE  Cardinality({i \in DOMAIN accepted[p] :
                         t - (Window - Skew) < accepted[p][i] /\ accepted[p][i] <= t})
                        <= MaxRequests
    BY DEF RateHolds
  <2>1. {i \in DOMAIN accepted[p] :
            t - (Window - Skew) < accepted[p][i] /\ accepted[p][i] <= t} = {}
    BY <1>2
  <2> QED
    BY <1>1, <2>1, FS_EmptySet
<1>6. accepted \in [Pids -> Seq(0..MaxClock)]
  BY <1>1
<1> QED
  BY <1>1, <1>2, <1>4, <1>5, <1>6, FS_EmptySet DEF LimiterIInv

(* Time that passes keeps it: the window of the past moves with it.        *)
LEMMA TickKeeps == LimiterIInv /\ tick => LimiterIInv'
<1> SUFFICES ASSUME LimiterIInv, tick PROVE LimiterIInv'
  OBVIOUS
<1>1. /\ clock < MaxClock /\ clock' = clock + 1 /\ UNCHANGED <<records, accepted>>
      /\ Window \in Nat /\ Skew \in Nat /\ MaxClock \in Nat /\ clock \in (Window + Skew)..MaxClock
  BY RateLimiterAssumption DEF LimiterIInv, tick
<1>2. /\ clock' \in (Window + Skew)..MaxClock
      /\ \A x \in Int : x >= clock' - Window => x >= clock - Window
  BY <1>1
<1>3. Tracked' = Tracked /\ RateHolds' /\ \A p, x : Covered(p, x)' <=> Covered(p, x)
  BY <1>1 DEF Tracked, RateHolds, LimiterIInv, Covered
<1> QED
  BY <1>1, <1>2, <1>3 DEF LimiterIInv

(* Pruning forgets callers that have no stamp in the window                *)
(* (prune_idle_callers).                                                   *)
LEMMA PruneKeeps == LimiterIInv /\ prune_idle_callers => LimiterIInv'
<1> SUFFICES ASSUME LimiterIInv, prune_idle_callers PROVE LimiterIInv'
  OBVIOUS
<1> DEFINE left == {q \in Tracked : Recent(records[q].stamps, clock) # <<>>}
<1>1. /\ clock \in (Window + Skew)..MaxClock /\ clock \in (clock - Skew)..clock
      /\ Window \in Nat /\ MaxClock \in Nat /\ MaxRequests \in Nat /\ MaxTracked \in Nat
  BY RateLimiterAssumption DEF LimiterIInv
<1>2. /\ UNCHANGED <<clock, accepted>> /\ Tracked' = left
      /\ \A p \in left : records'[p] = [records[p] EXCEPT !.stamps = Recent(@, clock)]
  <2> DEFINE pruned == [p \in Tracked |-> [records[p] EXCEPT !.stamps = Recent(@, clock)]]
  <2>1. \A p \in Tracked : pruned[p].stamps = Recent(records[p].stamps, clock)
    BY DEF LimiterIInv, Record
  <2>2. records' = [p \in {q \in Tracked : pruned[q].stamps # <<>>} |-> pruned[p]]
    BY DEF prune_idle_callers
  <2>3. {q \in Tracked : pruned[q].stamps # <<>>} = left
    BY <2>1
  <2>4. records' = [p \in left |-> pruned[p]]
    BY <2>2, <2>3
  <2>5. \A p \in left : pruned[p] = [records[p] EXCEPT !.stamps = Recent(@, clock)]
    OBVIOUS
  <2> HIDE DEF pruned, left
  <2> QED
    BY <2>4, <2>5 DEF prune_idle_callers, Tracked
<1>3. ASSUME NEW p \in Tracked
      PROVE  /\ p \in Pids /\ records[p].stamps \in Seq(0..MaxClock) /\ records[p] \in Record
             /\ Len(records[p].stamps) <= MaxRequests
  BY DEF LimiterIInv, Record
<1>4. ASSUME NEW p \in Tracked
      PROVE  /\ Recent(records[p].stamps, clock) \in Seq(0..MaxClock)
             /\ Len(Recent(records[p].stamps, clock)) <= MaxRequests
             /\ \A x \in Int : x >= clock - Window =>
                   Cardinality(Later(Recent(records[p].stamps, clock), x))
                      = Cardinality(Later(records[p].stamps, x))
  <2>1. /\ Recent(records[p].stamps, clock) \in Seq(0..MaxClock)
        /\ Len(Recent(records[p].stamps, clock)) <= Len(records[p].stamps)
        /\ \A x \in Int : x >= clock - Window =>
              Cardinality(Later(Recent(records[p].stamps, clock), x))
                 = Cardinality(Later(records[p].stamps, x))
    BY <1>1, <1>3, RecentIs
  <2> QED
    BY <1>1, <1>3, <2>1
<1>5. ASSUME NEW p \in left
      PROVE  /\ records'[p] \in Record /\ records'[p].stamps = Recent(records[p].stamps, clock)
  BY <1>2, <1>3, <1>4 DEF Record
<1>6. left \in SUBSET Tracked
  OBVIOUS
<1>7. IsFiniteSet(left) /\ Cardinality(left) <= MaxTracked
  <2>1. IsFiniteSet(Tracked) /\ Cardinality(Tracked) <= MaxTracked
    BY DEF LimiterIInv
  <2>2. Cardinality(Tracked) \in Nat
    BY <2>1, FS_CardinalityType
  <2>3. IsFiniteSet(left) /\ Cardinality(left) <= Cardinality(Tracked)
    <3> HIDE DEF left
    <3> QED
      BY <1>6, <2>1, FS_Subset
  <2>4. Cardinality(left) \in Nat
    BY <2>3, FS_CardinalityType
  <2> QED
    BY <1>1, <2>1, <2>2, <2>3, <2>4
<1>8. ASSUME NEW p \in Pids, NEW x \in Int, x >= clock - Window PROVE Covered(p, x)'
  <2>1. Covered(p, x)
    BY <1>8 DEF LimiterIInv
  <2>2. CASE p \in left
    BY <1>2, <1>4, <1>5, <1>6, <1>8, <2>1, <2>2 DEF Covered
  <2>3. CASE p \in Tracked /\ p \notin left
    <3>1. Recent(records[p].stamps, clock) = <<>>
      BY <2>3
    <3>2. Cardinality(Later(records[p].stamps, x)) = 0
      BY <1>4, <1>8, <2>3, <3>1, FS_EmptySet DEF Later
    <3> HIDE DEF left
    <3> QED
      BY <1>2, <2>1, <2>3, <3>2 DEF Covered
  <2>4. CASE p \notin Tracked
    BY <1>2, <1>6, <2>1, <2>4 DEF Covered
  <2> QED
    BY <2>2, <2>3, <2>4
<1>9. RateHolds'
  BY <1>2 DEF LimiterIInv, RateHolds
<1>10. \A p \in left : Len(records'[p].stamps) <= MaxRequests
  BY <1>4, <1>5, <1>6
<1>11. left \subseteq Pids
  BY <1>3
<1> HIDE DEF left
<1>12. \A p \in Pids, x \in Int : x >= clock' - Window => Covered(p, x)'
  BY <1>2, <1>8
<1>13. /\ clock' \in (Window + Skew)..MaxClock /\ accepted' \in [Pids -> Seq(0..MaxClock)]
  BY <1>1, <1>2 DEF LimiterIInv
<1> QED
  BY <1>2, <1>5, <1>7, <1>9, <1>10, <1>11, <1>12, <1>13 DEF LimiterIInv

(* A request that is let through has its stamp recorded, and a caller that *)
(* gives way to another in a full table starts anew (check_and_record).    *)
LEMMA CheckKeeps ==
    ASSUME LimiterIInv, NEW pid \in Pids, NEW now \in (clock - Skew)..clock,
           check_and_record(pid, now)
    PROVE  LimiterIInv'
<1> DEFINE full == pid \notin Tracked /\ Cardinality(Tracked) >= MaxTracked
           out == evict_least_recently_seen(records)
           kept == IF full THEN Tracked \ {out} ELSE Tracked
           before == IF pid \in kept THEN records[pid].stamps ELSE <<>>
           recent == Recent(before, now)
           ok == Len(recent) < MaxRequests
           stamps == IF ok THEN Append(recent, now) ELSE recent
<1>1. /\ clock \in (Window + Skew)..MaxClock /\ Window \in Nat /\ Skew \in Nat
      /\ MaxClock \in Nat /\ MaxRequests \in Nat \ {0} /\ MaxTracked \in Nat \ {0}
      /\ clock \in Int /\ now \in Int /\ now >= clock - Skew /\ now <= clock /\ now \in Nat
      /\ Pids \subseteq Nat
  BY RateLimiterAssumption DEF LimiterIInv
<1>2. /\ IsFiniteSet(Tracked) /\ Tracked \subseteq Pids /\ Cardinality(Tracked) <= MaxTracked
      /\ Cardinality(Tracked) \in Nat
  BY FS_CardinalityType DEF LimiterIInv
<1>3. full => out \in Tracked
  <2>1. full => Tracked # {}
    BY <1>1, <1>2, FS_EmptySet
  <2>2. \A p \in Tracked : records[p].last_seen \in Nat /\ p \in Nat
    BY <1>1, <1>2 DEF LimiterIInv, Record
  <2> QED
    BY <2>1, <2>2, EvictedIsTracked DEF Tracked
<1>4. /\ kept \in SUBSET Tracked /\ IsFiniteSet(kept)
      /\ IsFiniteSet(kept \cup {pid}) /\ Cardinality(kept \cup {pid}) <= MaxTracked
      /\ (pid \in kept <=> pid \in Tracked)
  <2>0. /\ IsFiniteSet(Tracked \cup {pid})
        /\ Cardinality(Tracked \cup {pid}) =
             IF pid \in Tracked THEN Cardinality(Tracked) ELSE Cardinality(Tracked) + 1
    BY <1>2, FS_AddElement
  <2>1. CASE full
    <3>1. /\ IsFiniteSet(Tracked \ {out}) /\ Cardinality(Tracked \ {out}) = Cardinality(Tracked) - 1
      BY <1>2, <1>3, <2>1, FS_RemoveElement
    <3>2. /\ IsFiniteSet((Tracked \ {out}) \cup {pid})
          /\ Cardinality((Tracked \ {out}) \cup {pid}) = Cardinality(Tracked \ {out}) + 1
      BY <2>1, <3>1, FS_AddElement
    <3> HIDE DEF out
    <3> QED
      BY <1>1, <1>2, <2>1, <3>1, <3>2
  <2>2. CASE ~full
    <3>1. kept = Tracked /\ (pid \notin Tracked => Cardinality(Tracked) < MaxTracked)
      BY <1>1, <1>2, <2>2
    <3> HIDE DEF kept, full
    <3> QED
      BY <1>1, <1>2, <2>0, <3>1
  <2> QED
    BY <2>1, <2>2
<1>5. /\ records' = [p \in kept \cup {pid} |->
                       IF p = pid THEN [stamps |-> stamps, last_seen |-> now] ELSE records[p]]
      /\ accepted' = [p \in Pids |->
             IF p = pid /\ ok THEN Append(accepted[p], now)
             ELSE IF p \in Tracked \ (kept \cup {pid}) THEN <<>> ELSE accepted[p]]
      /\ UNCHANGED clock
  <2> DEFINE table == [p \in kept \cup {pid} |-> IF p \in kept THEN records[p]
                                                 ELSE [stamps |-> <<>>, last_seen |-> now]]
  <2>1. WithRecord(pid, now) = table
    BY DEF WithRecord
  <2>2. table[pid].stamps = before /\ DOMAIN table = kept \cup {pid}
    OBVIOUS
  <2> HIDE DEF kept, before
  <2>3. /\ records' = [table EXCEPT ![pid] = [stamps |-> stamps, last_seen |-> now]]
        /\ accepted' = [p \in Pids |->
             IF p = pid /\ ok THEN Append(accepted[p], now)
             ELSE IF p \in Tracked \ DOMAIN table THEN <<>> ELSE accepted[p]]
        /\ UNCHANGED clock
    <3> HIDE DEF table
    <3> QED
      BY <2>1, <2>2 DEF check_and_record, Permits
  <2> HIDE DEF stamps, ok
  <2> QED
    BY <2>2, <2>3
<1> HIDE DEF kept, full, out
<1>6. before \in Seq(0..MaxClock) /\ Len(before) <= MaxRequests
  <2>1. CASE pid \in kept
    BY <1>4, <2>1 DEF LimiterIInv, Record
  <2>2. CASE pid \notin kept
    <3>1. before = <<>> /\ Len(<<>>) = 0 /\ <<>> \in Seq(0..MaxClock)
      BY <2>2
    <3> HIDE DEF before
    <3> QED
      BY <1>1, <3>1
  <2> QED
    BY <2>1, <2>2
<1>7. ASSUME NEW x \in Int, x >= clock - Window
      PROVE  Cardinality(Later(accepted[pid], x)) <= Cardinality(Later(before, x))
  <2>1. Covered(pid, x)
    BY <1>7 DEF LimiterIInv
  <2>2. CASE pid \in kept
    BY <1>4, <2>1, <2>2 DEF Covered
  <2>3. CASE pid \notin kept
    <3>1. Later(before, x) = {}
      BY <2>3 DEF Later
    <3> QED
      BY <1>4, <2>1, <2>3, <3>1, FS_EmptySet DEF Covered
  <2> QED
    BY <2>2, <2>3
<1> HIDE DEF before
<1>8. /\ now \in 0..MaxClock /\ now - Window \in Int /\ now - Window <= clock - Window
      /\ recent \in Seq(0..MaxClock) /\ Len(recent) <= MaxRequests
      /\ Len(recent) = Cardinality(Later(before, now - Window))
  <2>1. /\ now \in 0..MaxClock /\ now - Window \in Int /\ now - Window <= clock - Window
        /\ recent \in Seq(0..MaxClock) /\ Len(recent) <= Len(before)
        /\ Len(recent) = Cardinality(Later(before, now - Window))
    BY <1>1, <1>6, RecentIs
  <2> HIDE DEF recent
  <2> QED
    BY <1>1, <1>6, <2>1
<1>9. \A x \in Int : x >= now - Window =>
          Cardinality(Later(recent, x)) = Cardinality(Later(before, x))
  BY <1>1, <1>6, RecentIs
<1> HIDE DEF recent
<1>10. /\ accepted \in [Pids -> Seq(0..MaxClock)] /\ accepted[pid] \in Seq(0..MaxClock)
       /\ accepted[pid] \in Seq(Int) /\ recent \in Seq(Int) /\ before \in Seq(Int)
  BY <1>6, <1>8, StampsAreNumbers DEF LimiterIInv
<1>11. stamps \in Seq(0..MaxClock) /\ Len(stamps) <= MaxRequests
  <2>1. ok => /\ Append(recent, now) \in Seq(0..MaxClock)
              /\ Len(Append(recent, now)) = Len(recent) + 1 /\ Len(recent) + 1 <= MaxRequests
    BY <1>1, <1>8
  <2> QED
    BY <1>1, <1>8, <2>1
<1>12. ASSUME NEW x \in Int, x >= clock - Window PROVE Covered(pid, x)'
  <2>0. x >= now - Window
    BY <1>1, <1>12
  <2>1. Cardinality(Later(accepted[pid], x)) <= Cardinality(Later(recent, x))
    BY <1>7, <1>9, <1>12, <2>0
  <2>2. /\ Cardinality(Later(accepted[pid], x)) \in Nat /\ Cardinality(Later(recent, x)) \in Nat
    BY <1>10, LaterFinite
  <2>3. Cardinality(Later(accepted[pid], x))' <= Cardinality(Later(stamps, x))
    <3>1. CASE ok
      <4>1. accepted'[pid] = Append(accepted[pid], now) /\ stamps = Append(recent, now)
        BY <1>5, <3>1
      <4>2. /\ Cardinality(Later(Append(accepted[pid], now), x))
                 = Cardinality(Later(accepted[pid], x)) + (IF now > x THEN 1 ELSE 0)
            /\ Cardinality(Later(Append(recent, now), x))
                 = Cardinality(Later(recent, x)) + (IF now > x THEN 1 ELSE 0)
        BY <1>1, <1>10, LaterAppend
      <4>3. Later(accepted[pid], x)' = Later(Append(accepted[pid], now), x)
        BY <4>1 DEF Later
      <4> QED
        BY <4>1, <4>2, <4>3, <2>1, <2>2
    <3>2. CASE ~ok
      <4>1. accepted'[pid] = accepted[pid] /\ stamps = recent
        BY <1>5, <3>2
      <4>2. Later(accepted[pid], x)' = Later(accepted[pid], x)
        BY <4>1 DEF Later
      <4> QED
        BY <4>1, <4>2, <2>1
    <3> QED
      BY <3>1, <3>2
  <2>4. pid \in Tracked' /\ records'[pid].stamps = stamps
    <3> HIDE DEF stamps
    <3> QED
      BY <1>5 DEF Tracked
  <2> HIDE DEF stamps
  <2> QED
    BY <2>3, <2>4 DEF Covered, Later
<1>13. ASSUME NEW p \in Pids, p # pid, NEW x \in Int, x >= clock - Window PROVE Covered(p, x)'
  <2>1. Covered(p, x)
    BY <1>13 DEF LimiterIInv
  <2>2. /\ (p \in Tracked' <=> p \in kept) /\ (p \in kept => records'[p] = records[p])
        /\ accepted'[p] = IF p \in Tracked \ (kept \cup {pid}) THEN <<>> ELSE accepted[p]
    <3> HIDE DEF stamps, ok
    <3> QED
      BY <1>5, <1>13 DEF Tracked
  <2>3. CASE p \in kept
    BY <1>4, <2>1, <2>2, <2>3 DEF Covered
  <2>4. CASE p \notin Tracked
    BY <1>4, <2>1, <2>2, <2>4 DEF Covered
  <2>5. CASE p \in Tracked /\ p \notin kept
    <3>1. Later(accepted[p], x)' = {}
      BY <1>13, <2>2, <2>5 DEF Later
    <3>2. Cardinality(Later(accepted[p], x)') = 0
      BY <3>1, FS_EmptySet
    <3>3. p \notin Tracked'
      BY <2>2, <2>5
    <3> QED
      BY <3>2, <3>3 DEF Covered, Later
  <2> QED
    BY <2>3, <2>4, <2>5
<1>14. RateHolds'
  <2> DEFINE Within(s, t) == {i \in DOMAIN s : t - (Window - Skew) < s[i] /\ s[i] <= t}
  <2> SUFFICES ASSUME NEW p \in Pids, NEW t \in 0..MaxClock
               PROVE  Cardinality(Within(accepted'[p], t)) <= MaxRequests
    BY DEF RateHolds
  <2>1. Cardinality(Within(accepted[p], t)) <= MaxRequests
    BY DEF LimiterIInv, RateHolds
  <2>2. t \in Int /\ accepted[p] \in Seq(Int) /\ IsFiniteSet(DOMAIN accepted[p])
    <3>1. accepted[p] \in Seq(Int)
      BY <1>10, StampsAreNumbers
    <3>2. DOMAIN accepted[p] = 1..Len(accepted[p]) /\ Len(accepted[p]) \in Nat
      BY <3>1
    <3>3. IsFiniteSet(DOMAIN accepted[p])
      BY <3>2, FS_Interval
    <3>4. t \in Int
      BY <1>1
    <3> QED
      BY <3>1, <3>3, <3>4
  <2>3. IsFiniteSet(Within(accepted[p], t)) /\ Cardinality(Within(accepted[p], t)) \in Nat
    <3>1. Within(accepted[p], t) \in SUBSET DOMAIN accepted[p]
      OBVIOUS
    <3> HIDE DEF Within
    <3> QED
      BY <2>2, <3>1, FS_Subset, FS_CardinalityType
  <2>4. CASE p # pid \/ ~ok
    <3>1. accepted'[p] = accepted[p] \/ accepted'[p] = <<>>
      BY <1>5, <2>4
    <3>2. accepted'[p] = <<>> => Within(accepted'[p], t) = {}
      OBVIOUS
    <3> HIDE DEF Within
    <3>3. Cardinality({}) = 0 /\ 0 <= MaxRequests
      BY <1>1, FS_EmptySet
    <3>4. CASE accepted'[p] = accepted[p]
      BY <2>1, <3>4
    <3>5. CASE accepted'[p] = <<>>
      BY <3>2, <3>3, <3>5
    <3> QED
      BY <3>1, <3>4, <3>5
  <2>5. CASE p = pid /\ ok
    <3> DEFINE n == Len(accepted[p]) + 1
               x == t - (Window - Skew)
    <3>1. accepted'[p] = Append(accepted[p], now)
      BY <1>5, <2>5
    <3>2. /\ n \notin DOMAIN accepted[p] /\ DOMAIN accepted'[p] = DOMAIN accepted[p] \cup {n}
          /\ accepted'[p][n] = now /\ \A i \in DOMAIN accepted[p] : accepted'[p][i] = accepted[p][i]
      BY <2>2, <3>1
    <3>3. CASE ~(t - (Window - Skew) < now /\ now <= t)
      <4>1. Within(accepted'[p], t) = Within(accepted[p], t)
        BY <3>2, <3>3
      <4> QED
        BY <2>1, <4>1
    <3>4. CASE t - (Window - Skew) < now /\ now <= t
      <4>1. Within(accepted'[p], t) = Within(accepted[p], t) \cup {n}
        BY <3>2, <3>4
      <4>2. n \notin Within(accepted[p], t)
        BY <3>2
      <4>3. x \in Int /\ x >= clock - Window /\ x >= now - Window
        BY <1>1, <2>2, <3>4
      <4>4. Within(accepted[p], t) \in SUBSET Later(accepted[p], x)
        BY DEF Later
      <4> HIDE DEF Within, n, x
      <4>5. Cardinality(Within(accepted[p], t)) <= Cardinality(Later(accepted[p], x))
        BY <2>2, <4>3, <4>4, LaterFinite, FS_Subset
      <4>6. Cardinality(Later(accepted[p], x)) <= Cardinality(Later(before, x))
        BY <1>7, <2>5, <4>3
      <4>7. Cardinality(Later(before, x)) <= Len(recent)
        BY <1>8, <1>10, <4>3, LaterShrinks
      <4>8. Len(recent) < MaxRequests /\ Len(recent) \in Nat
        BY <1>8, <2>5
      <4>9. Cardinality(Later(accepted[p], x)) \in Nat /\ Cardinality(Later(before, x)) \in Nat
        BY <1>10, <2>2, <4>3, LaterFinite
      <4>10. Cardinality(Within(accepted[p], t)) < MaxRequests
        BY <1>1, <2>3, <4>5, <4>6, <4>7, <4>8, <4>9
      <4>11. Cardinality(Within(accepted[p], t) \cup {n}) = Cardinality(Within(accepted[p], t)) + 1
        BY <2>3, <4>2, FS_AddElement
      <4> QED
        BY <1>1, <2>3, <4>1, <4>10, <4>11
    <3> QED
      BY <3>3, <3>4
  <2> QED
    BY <2>4, <2>5
<1>15. accepted' \in [Pids -> Seq(0..MaxClock)]
  <2>1. Append(accepted[pid], now) \in Seq(0..MaxClock)
    BY <1>8, <1>10
  <2>2. <<>> \in Seq(0..MaxClock) /\ \A p \in Pids : accepted[p] \in Seq(0..MaxClock)
    BY <1>10
  <2> HIDE DEF ok
  <2>3. \A p \in Pids : accepted'[p] \in Seq(0..MaxClock)
    BY <1>5, <2>1, <2>2
  <2>4. accepted' = [p \in Pids |-> accepted'[p]]
    BY <1>5
  <2> QED
    BY <2>3, <2>4
<1>16. Tracked' = kept \cup {pid}
  BY <1>5 DEF Tracked
<1> HIDE DEF stamps, ok
<1>17. \A p \in Tracked' : records'[p] \in Record /\ Len(records'[p].stamps) <= MaxRequests
  <2>1. records'[pid] = [stamps |-> stamps, last_seen |-> now]
    BY <1>5
  <2>2. records'[pid] \in Record /\ records'[pid].stamps = stamps
    BY <1>1, <1>11, <2>1 DEF Record
  <2>3. \A p \in kept : p = pid \/ records'[p] = records[p]
    BY <1>5
  <2> QED
    BY <1>4, <1>11, <1>16, <2>2, <2>3 DEF LimiterIInv
<1>18. clock' = clock /\ \A p \in Pids, x \in Int : x >= clock - Window => Covered(p, x)'
  BY <1>5, <1>12, <1>13
<1>19. kept \cup {pid} \subseteq Pids
  BY <1>2, <1>4
<1> QED
  BY <1>1, <1>4, <1>14, <1>15, <1>16, <1>17, <1>18, <1>19 DEF LimiterIInv

(* For any callers, limit, window, skew and table size: no caller has more *)
(* than the limit accepted in any window, shortened by the time between a  *)
(* worker's clock and its check, while its record is kept, and the table   *)
(* stays within its bound (check_and_record, evict_least_recently_seen,    *)
(* prune_idle_callers).                                                    *)
THEOREM RateIsLimited == LimiterSpec => []LimiterInv
<1>1. LimiterInit => LimiterIInv
  BY LimiterStarts
<1>2. LimiterIInv /\ [LimiterNext]_limiterVars => LimiterIInv'
  <2> SUFFICES ASSUME LimiterIInv, [LimiterNext]_limiterVars PROVE LimiterIInv'
    OBVIOUS
  <2>1. CASE UNCHANGED limiterVars
    BY <2>1 DEF limiterVars, LimiterIInv, Tracked, Covered, RateHolds
  <2> QED
    BY <2>1, CheckKeeps, PruneKeeps, TickKeeps DEF LimiterNext
<1>3. LimiterIInv => LimiterInv
  BY DEF LimiterIInv, LimiterInv, LimiterTypeOK, Record
<1> QED
  BY <1>1, <1>2, <1>3, PTL DEF LimiterSpec

-----------------------------------------------------------------------------
(* The start of the daemon.                                                *)

Beginning == {"none", "spawned"}
Publishing == {"new", "probe", "token", "marker"}
Stopping == {"retract token", "retract marker", "exit"}
Published == {"pipe", "serving"} \cup Stopping
EnginePhases == Beginning \cup Publishing \cup Published \cup {"leaving", "gone"}

CallPhases == {"begin", "resolve", "clear token", "clear marker", "spawn", "poll",
               "marker of running", "marker of spawned", "verify running",
               "verify spawned", "end"}
ExitCodes == {"none", "ok", "failure", "unreachable"}

DaemonTypeOK ==
    /\ engine \in [Engines -> EnginePhases]
    /\ instance \in Engines \cup {Nobody}
    /\ token \in Engines \cup {Nobody} /\ marker \in Engines \cup {Nobody}
    /\ call \in [Calls -> [at : CallPhases, expected : Engines \cup {Nobody}]]
    /\ exitCode \in [Calls -> ExitCodes]
    /\ deleted \in BOOLEAN

\* An engine past its start holds the mutex, so at most one is.
InstanceIsEngine ==
    \A e \in Engines : engine[e] \in Publishing \cup Published <=> instance = e

\* The file holds the token of the engine that has published one and not retracted it.
TokenIsPublished ==
    \A e \in Engines : engine[e] \in {"marker", "pipe", "serving"} =>
        token = e \/ deleted \/ e \in unwritten

\* Nothing holds the identifier of an engine before it has come to publish it.
MarkerIsPublished ==
    \A e \in Engines : marker = e \/ (\E c \in Calls : call[c].expected = e) =>
        engine[e] \notin Beginning \cup Publishing

\* The workers that outlive their server are those of an engine that stops.
LingeringStops ==
    /\ lingering \subseteq Engines
    /\ \A e \in lingering : engine[e] \in Stopping \cup {"leaving"}

\* The inductive invariant.
DaemonIInv ==
    DaemonTypeOK /\ InstanceIsEngine /\ TokenIsPublished /\ MarkerIsPublished /\ LingeringStops

(* No engine, no token and no marker satisfy the invariant.                *)
LEMMA DaemonStarts == DaemonInit => DaemonIInv
<1> SUFFICES ASSUME DaemonInit PROVE DaemonIInv
  OBVIOUS
<1>1. DaemonTypeOK
  BY DEF DaemonInit, DaemonTypeOK, EnginePhases, Beginning, CallPhases, ExitCodes
<1>2. InstanceIsEngine /\ TokenIsPublished /\ MarkerIsPublished /\ LingeringStops
  BY DaemonAssumption
     DEF DaemonInit, InstanceIsEngine, TokenIsPublished, MarkerIsPublished, LingeringStops,
         Nobody, Publishing, Published, Stopping
<1> QED
  BY <1>1, <1>2 DEF DaemonIInv

\* A call that moves on keeps what it has read, and gets no exit code but at its end.
CallMoved ==
    /\ call' \in [Calls -> [at : CallPhases, expected : Engines \cup {Nobody}]]
    /\ \A d \in Calls : call'[d].expected = call[d].expected

(* A call that moves on keeps what it has read.                            *)
LEMMA CallMoves ==
    ASSUME DaemonTypeOK, NEW c \in Calls, NEW stage \in CallPhases, Call(c, stage)
    PROVE  CallMoved
<1>1. call' = [call EXCEPT ![c] = [call[c] EXCEPT !.at = stage]]
  BY DEF Call, DaemonTypeOK
<1>2. call[c] \in [at : CallPhases, expected : Engines \cup {Nobody}]
  BY DEF DaemonTypeOK
<1>3. /\ [call[c] EXCEPT !.at = stage] \in [at : CallPhases, expected : Engines \cup {Nobody}]
      /\ [call[c] EXCEPT !.at = stage].expected = call[c].expected
  BY <1>2
<1> QED
  BY <1>1, <1>3 DEF DaemonTypeOK, CallMoved

(* A call that ends keeps it too.                                          *)
LEMMA ExitMoves ==
    ASSUME DaemonTypeOK, NEW c \in Calls, NEW x \in ExitCodes, Exit(c, x)
    PROVE  /\ CallMoved /\ exitCode' \in [Calls -> ExitCodes]
           /\ exitCode'[c] = x /\ \A d \in Calls \ {c} : exitCode'[d] = exitCode[d]
<1>1. "end" \in CallPhases
  BY DEF CallPhases
<1> QED
  BY <1>1, CallMoves DEF Exit, DaemonTypeOK

\* What a step of a call leaves of the engines and of what they have published.
CallStep ==
    /\ UNCHANGED <<instance, lingering, unwritten>>
    /\ engine' \in [Engines -> EnginePhases]
    /\ \A e \in Engines : engine'[e] = engine[e] \/ (engine[e] = "none" /\ engine'[e] = "spawned")
    /\ call' \in [Calls -> [at : CallPhases, expected : Engines \cup {Nobody}]]
    /\ \A d \in Calls : call'[d].expected \in {call[d].expected, marker}
    /\ exitCode' \in [Calls -> ExitCodes] /\ deleted' \in BOOLEAN
    /\ marker' \in {marker, Nobody}
    /\ token' \in {token, Nobody} /\ (deleted => deleted')
    /\ token' # token /\ token \in Live => deleted'

(* A step of a call spawns an engine or removes files at most, and a token *)
(* of a live engine that it removes counts as deleted: the invariant       *)
(* stays.                                                                  *)
LEMMA CallKeeps == DaemonIInv /\ CallStep => DaemonIInv'
<1> SUFFICES ASSUME DaemonIInv, CallStep PROVE DaemonIInv'
  OBVIOUS
<1>1. DaemonTypeOK'
  BY DEF DaemonIInv, DaemonTypeOK, CallStep
<1>2. InstanceIsEngine'
  BY DEF DaemonIInv, DaemonTypeOK, InstanceIsEngine, CallStep, Publishing, Published, Stopping
<1>3. TokenIsPublished'
  BY DaemonAssumption
     DEF DaemonIInv, DaemonTypeOK, TokenIsPublished, CallStep, Live, Nobody
<1>4. MarkerIsPublished'
  BY DaemonAssumption
     DEF DaemonIInv, DaemonTypeOK, MarkerIsPublished, CallStep, Nobody, Beginning, Publishing
<1>5. LingeringStops'
  BY DEF DaemonIInv, LingeringStops, CallStep, Stopping
<1> QED
  BY <1>1, <1>2, <1>3, <1>4, <1>5 DEF DaemonIInv

(* Every step of a call is such a step.                                    *)
LEMMA CallSteps ==
    ASSUME DaemonTypeOK, NEW c \in Calls,
          \/ connect_probe(c) \/ resolve_daemon_target(c) \/ clear_stale_token(c)
          \/ clear_stale_server_pid(c) \/ spawn(c) \/ poll_token(c) \/ poll_deadline(c)
          \/ read_marker(c) \/ verify_server_pid(c)
    PROVE  CallStep
<1>a. /\ CallPhases = {"begin", "resolve", "clear token", "clear marker", "spawn", "poll",
                        "marker of running", "marker of spawned", "verify running",
                        "verify spawned", "end"}
      /\ {"ok", "failure", "unreachable"} \subseteq ExitCodes
  BY DEF CallPhases, ExitCodes
<1> USE DEF CallStep, DaemonTypeOK, daemonFiles, daemonHistory
<1>1. CASE connect_probe(c)
  <2>1. CallMoved
    BY <1>1, <1>a, CallMoves DEF connect_probe
  <2> QED
    BY <1>1, <2>1 DEF connect_probe, CallMoved
<1>2. CASE resolve_daemon_target(c)
  <2>1. CallMoved /\ exitCode' \in [Calls -> ExitCodes]
    BY <1>2, <1>a, CallMoves, ExitMoves DEF resolve_daemon_target
  <2> QED
    BY <1>2, <2>1 DEF resolve_daemon_target, CallMoved
<1>3. CASE clear_stale_token(c)
  <2>1. CallMoved
    BY <1>3, <1>a, CallMoves DEF clear_stale_token
  <2>2. /\ \/ token' = Nobody /\ deleted' = (deleted \/ token \in Live)
           \/ UNCHANGED <<token, deleted>>
        /\ UNCHANGED <<engine, instance, lingering, marker, exitCode, unwritten>>
    BY <1>3 DEF clear_stale_token, Clear
  <2>3. /\ deleted' \in BOOLEAN /\ (deleted => deleted') /\ token' \in {token, Nobody}
        /\ token' # token /\ token \in Live => deleted'
    BY <2>2, Zenon
  <2> QED
    BY <2>1, <2>2, <2>3 DEF CallMoved
<1>4. CASE clear_stale_server_pid(c)
  <2>1. CallMoved
    BY <1>4, <1>a, CallMoves DEF clear_stale_server_pid
  <2>2. /\ \/ marker' = Nobody /\ deleted' = (deleted \/ marker \in Live)
           \/ UNCHANGED <<marker, deleted>>
        /\ UNCHANGED <<engine, instance, lingering, token, exitCode, unwritten>>
    BY <1>4 DEF clear_stale_server_pid, Clear
  <2>3. /\ deleted' \in BOOLEAN /\ (deleted => deleted') /\ marker' \in {marker, Nobody}
        /\ marker' # marker /\ marker \in Live => deleted'
    BY <2>2, Zenon
  <2> QED
    BY <2>1, <2>2, <2>3 DEF CallMoved
<1>5. CASE spawn(c)
  <2>1. CallMoved /\ exitCode' \in [Calls -> ExitCodes]
    BY <1>5, <1>a, CallMoves, ExitMoves DEF spawn
  <2>2. /\ engine' \in [Engines -> EnginePhases]
        /\ \A e \in Engines :
              engine'[e] = engine[e] \/ (engine[e] = "none" /\ engine'[e] = "spawned")
    BY <1>5 DEF spawn, Spawn, Engine, EnginePhases, Beginning
  <2> QED
    BY <1>5, <2>1, <2>2 DEF spawn, CallMoved
<1>6. CASE poll_token(c) \/ poll_deadline(c)
  <2>1. CallMoved /\ exitCode' \in [Calls -> ExitCodes]
    BY <1>6, <1>a, CallMoves, ExitMoves DEF poll_token, poll_deadline
  <2> QED
    BY <1>6, <2>1 DEF poll_token, poll_deadline, CallMoved
<1>7. CASE read_marker(c)
  <2> DEFINE stage == IF call[c].at = "marker of running" THEN "verify running"
                      ELSE "verify spawned"
  <2>1. /\ call' = [call EXCEPT ![c] = [at |-> stage, expected |-> marker]]
        /\ stage \in CallPhases
    BY <1>7, <1>a DEF read_marker
  <2>2. [at |-> stage, expected |-> marker] \in [at : CallPhases, expected : Engines \cup {Nobody}]
    BY <2>1
  <2>3. /\ call' \in [Calls -> [at : CallPhases, expected : Engines \cup {Nobody}]]
        /\ \A d \in Calls : call'[d].expected \in {call[d].expected, marker}
    BY <2>1, <2>2
  <2> QED
    BY <1>7, <2>3 DEF read_marker
<1>8. CASE verify_server_pid(c)
  <2>1. CallMoved /\ exitCode' \in [Calls -> ExitCodes]
    BY <1>8, <1>a, CallMoves, ExitMoves DEF verify_server_pid
  <2> QED
    BY <1>8, <2>1 DEF verify_server_pid, CallMoved
<1> QED
  BY <1>1, <1>2, <1>3, <1>4, <1>5, <1>6, <1>7, <1>8

(* One step per action keeps the inductive invariant.                      *)
LEMMA DaemonStep == DaemonIInv /\ [DaemonNext]_daemonVars => DaemonIInv'
<1> SUFFICES ASSUME DaemonIInv, [DaemonNext]_daemonVars PROVE DaemonIInv'
  OBVIOUS
<1> USE DaemonAssumption
    DEF DaemonIInv, DaemonTypeOK, InstanceIsEngine, TokenIsPublished, MarkerIsPublished,
        LingeringStops, Beginning, Publishing, Published, Stopping, EnginePhases, Nobody, Engine,
        daemonFiles, daemonHistory
<1>1. ASSUME NEW e \in Engines, acquire_instance(e) PROVE DaemonIInv'
  BY <1>1, ZenonT(60) DEF acquire_instance
<1>2. ASSUME NEW e \in Engines, close_first_pipe(e) PROVE DaemonIInv'
  BY <1>2 DEF close_first_pipe
<1>3. ASSUME NEW e \in Engines, publish_session_token(e) PROVE DaemonIInv'
  BY <1>3, ZenonT(60) DEF publish_session_token
<1>4. ASSUME NEW e \in Engines, publish_server_pid_marker(e) PROVE DaemonIInv'
  BY <1>4 DEF publish_server_pid_marker
<1>5. ASSUME NEW e \in Engines, create_first_pipe(e) \/ create_pipe_instance(e) PROVE DaemonIInv'
  <2>1. CASE create_first_pipe(e)
    <3>1. /\ engine[e] = "new" /\ (Engine(e, "probe") \/ Engine(e, "exit"))
          /\ UNCHANGED <<instance, lingering, token, marker, call, exitCode, unwritten, deleted>>
      BY <2>1 DEF create_first_pipe
    <3> QED
      BY <3>1
  <2>2. CASE create_pipe_instance(e)
    BY <2>2 DEF create_pipe_instance
  <2> QED
    BY <1>5, <2>1, <2>2
<1>6. ASSUME NEW e \in Engines, stop_serving(e) PROVE DaemonIInv'
  <2>1. /\ engine[e] \in {"pipe", "serving"} /\ engine' = [engine EXCEPT ![e] = "retract token"]
        /\ lingering' \subseteq lingering \cup {e}
        /\ UNCHANGED <<instance, token, marker, call, exitCode, unwritten, deleted>>
    BY <1>6 DEF stop_serving, Stop
  <2>2. DaemonTypeOK' /\ InstanceIsEngine'
    BY <2>1
  <2>3. TokenIsPublished' /\ MarkerIsPublished'
    BY <2>1
  <2>4. LingeringStops'
    <3>1. lingering' \subseteq Engines
      BY <2>1
    <3>2. ASSUME NEW d \in lingering' PROVE engine'[d] \in Stopping \cup {"leaving"}
      <4>1. CASE d = e
        BY <2>1, <4>1
      <4>2. CASE d # e
        <5>1. d \in lingering /\ d \in Engines
          BY <2>1, <4>2
        <5> QED
          BY <2>1, <4>2, <5>1
      <4> QED
        BY <4>1, <4>2
    <3> QED
      BY <3>1, <3>2
  <2> QED
    BY <2>2, <2>3, <2>4
<1>7. ASSUME NEW e \in Engines, retract_token(e) PROVE DaemonIInv'
  <2>1. /\ engine[e] = "retract token" /\ Engine(e, "retract marker") /\ token' \in {token, Nobody}
        /\ UNCHANGED <<instance, lingering, marker, call, exitCode, unwritten, deleted>>
    BY <1>7 DEF retract_token
  <2>2. engine[e] = "retract token" =>
           \A d \in Engines : engine[d] \notin {"marker", "pipe", "serving"}
    OBVIOUS
  <2> QED
    BY <2>1, <2>2
<1>8. ASSUME NEW e \in Engines, remove_server_pid_marker(e) \/ wait_for_client(e)
      PROVE  DaemonIInv'
  <2>1. CASE remove_server_pid_marker(e)
    <3>1. /\ engine[e] = "retract marker" /\ Engine(e, "exit") /\ marker' \in {marker, Nobody}
          /\ UNCHANGED <<instance, lingering, token, call, exitCode, unwritten, deleted>>
      BY <2>1 DEF remove_server_pid_marker
    <3> QED
      BY <3>1
  <2>2. CASE wait_for_client(e)
    BY <2>2 DEF wait_for_client
  <2> QED
    BY <1>8, <2>1, <2>2
<1>9. ASSUME NEW e \in Engines, release_instance(e) \/ exit_engine(e) PROVE DaemonIInv'
  <2>1. CASE release_instance(e)
    BY <2>1 DEF release_instance
  <2>2. CASE exit_engine(e)
    <3>1. /\ engine[e] = "leaving" /\ engine' = [engine EXCEPT ![e] = "gone"]
          /\ lingering' = lingering \ {e}
          /\ UNCHANGED <<instance, token, marker, call, exitCode, unwritten, deleted>>
      BY <2>2 DEF exit_engine
    <3>2. DaemonTypeOK' /\ InstanceIsEngine'
      BY <3>1
    <3>3. TokenIsPublished' /\ MarkerIsPublished' /\ LingeringStops'
      BY <3>1
    <3> QED
      BY <3>2, <3>3
  <2> QED
    BY <1>9, <2>1, <2>2
<1>10. ASSUME NEW e \in Engines, crash(e) PROVE DaemonIInv'
  BY <1>10 DEF crash
<1>11. ASSUME NEW e \in Engines, token_generation_failed(e) PROVE DaemonIInv'
  BY <1>11 DEF token_generation_failed
<1>12. CASE start_by_hand
  BY <1>12, CallKeeps, ZenonT(60) DEF start_by_hand, Spawn, CallStep
<1>13. CASE UNCHANGED daemonVars
  BY <1>13 DEF daemonVars
<1> QED
  BY <1>1, <1>2, <1>3, <1>4, <1>5, <1>6, <1>7, <1>8, <1>9, <1>10, <1>11, <1>12, <1>13,
     CallSteps, CallKeeps DEF DaemonNext

(* A call that ends well has verified an engine with an instance of the    *)
(* pipe whose token is in the file, unless the token was deleted or never  *)
(* written or the engine's server has stopped.                             *)
LEMMA VerifiedIsReachable ==
    ASSUME DaemonIInv, [DaemonNext]_daemonVars, NEW c \in Calls,
           exitCode'[c] = "ok", exitCode[c] # "ok"
    PROVE  LET e == call[c].expected
           IN  /\ e \in Serving
               /\ \/ token = e \/ deleted \/ e \in unwritten
                  \/ engine[e] \in {"retract token", "retract marker", "exit", "leaving"}
<1> USE DEF DaemonIInv
<1>a. {"ok", "failure", "unreachable"} \subseteq ExitCodes
  BY DEF ExitCodes
<1>1. CASE \E e \in Engines :
          \/ acquire_instance(e) \/ create_first_pipe(e) \/ close_first_pipe(e)
          \/ publish_session_token(e) \/ token_generation_failed(e)
          \/ publish_server_pid_marker(e) \/ create_pipe_instance(e)
          \/ stop_serving(e) \/ retract_token(e) \/ remove_server_pid_marker(e)
          \/ wait_for_client(e) \/ release_instance(e) \/ exit_engine(e) \/ crash(e)
  BY <1>1 DEF acquire_instance, create_first_pipe, close_first_pipe, publish_session_token,
        token_generation_failed, publish_server_pid_marker, create_pipe_instance, stop_serving,
        retract_token, remove_server_pid_marker, wait_for_client, release_instance, exit_engine,
        crash
<1>2. ASSUME NEW d \in Calls,
          \/ connect_probe(d) \/ resolve_daemon_target(d) \/ clear_stale_token(d)
          \/ clear_stale_server_pid(d) \/ spawn(d) \/ poll_token(d) \/ poll_deadline(d)
          \/ read_marker(d)
      PROVE FALSE
  BY <1>2, <1>a, ExitMoves DEF connect_probe, resolve_daemon_target, clear_stale_token,
        clear_stale_server_pid, spawn, poll_token, poll_deadline, read_marker
<1>3. ASSUME NEW d \in Calls, verify_server_pid(d)
      PROVE  d = c /\ call[d].expected \in Serving
  <2>1. PICK actual \in Serving \cup {"unidentified"} :
           \/ actual = call[d].expected /\ Exit(d, "ok")
           \/ Exit(d, "failure")
           \/ UNCHANGED exitCode
    BY <1>3 DEF verify_server_pid
  <2>2. d = c /\ actual = call[d].expected
    BY <1>a, <2>1, ExitMoves
  <2>3. call[d].expected \in Engines \cup {Nobody}
    BY DEF DaemonTypeOK
  <2> QED
    BY <2>2, <2>3, DaemonAssumption DEF Nobody
<1>4. ASSUME NEW e \in Serving, \E d \in Calls : call[d].expected = e
      PROVE  e \in Engines /\ (engine[e] = "serving" \/ engine[e] \in Stopping \cup {"leaving"})
  BY <1>4 DEF Serving, MarkerIsPublished, Publishing, LingeringStops
<1>5. CASE \E d \in Calls : verify_server_pid(d)
  BY <1>3, <1>4, <1>5 DEF TokenIsPublished, Stopping
<1>6. CASE start_by_hand \/ UNCHANGED daemonVars
  BY <1>6 DEF start_by_hand, daemonVars
<1> QED
  BY <1>1, <1>2, <1>5, <1>6 DEF DaemonNext

(* For any number of calls, engines and faults of engines: a call that     *)
(* ends well has verified an engine with an instance of the pipe, and that *)
(* engine's token is in the file unless a concurrent call has deleted it,  *)
(* the engine could not write it or its server has already stopped         *)
(* (run_daemon, IpcServer::new, shutdown and drop).                        *)
THEOREM VerifiedEngineIsReachable == DaemonSpec => OkMeansReachable
<1>1. DaemonIInv /\ [DaemonNext]_daemonVars =>
        [\A c \in Calls : exitCode'[c] = "ok" /\ exitCode[c] # "ok" =>
            LET e == call[c].expected
            IN  /\ e \in Serving
                /\ \/ token = e \/ deleted \/ e \in unwritten
                   \/ engine[e] \in {"retract token", "retract marker", "exit",
                                     "leaving"}]_daemonVars
  BY VerifiedIsReachable
<1> QED
  BY <1>1, DaemonStarts, DaemonStep, PTL DEF DaemonSpec, OkMeansReachable

-----------------------------------------------------------------------------
(* The wire formats: CRC-32.                                               *)

\* A byte is its eight bits.
LEMMA BitsInjective ==
    ASSUME NEW a \in Byte, NEW b \in Byte, BitsOf(a) = BitsOf(b)
    PROVE  a = b
<1>1. \A i \in 0..7 : (a \div Weight[i + 1]) % 2 = 1 <=> (b \div Weight[i + 1]) % 2 = 1
  BY DEF BitsOf
<1>2. /\ a % 2 = 1 <=> b % 2 = 1
      /\ (a \div 2) % 2 = 1 <=> (b \div 2) % 2 = 1
      /\ (a \div 4) % 2 = 1 <=> (b \div 4) % 2 = 1
      /\ (a \div 8) % 2 = 1 <=> (b \div 8) % 2 = 1
      /\ (a \div 16) % 2 = 1 <=> (b \div 16) % 2 = 1
      /\ (a \div 32) % 2 = 1 <=> (b \div 32) % 2 = 1
      /\ (a \div 64) % 2 = 1 <=> (b \div 64) % 2 = 1
      /\ (a \div 128) % 2 = 1 <=> (b \div 128) % 2 = 1
  BY <1>1 DEF Weight, Byte
<1>3. a \in Nat /\ b \in Nat /\ a \div 256 = b \div 256
  BY DEF Byte
<1>4. a \div 128 = b \div 128
  BY <1>2, <1>3
<1>5. a \div 64 = b \div 64
  BY <1>2, <1>3, <1>4
<1>6. a \div 32 = b \div 32
  BY <1>2, <1>3, <1>5
<1>7. a \div 16 = b \div 16
  BY <1>2, <1>3, <1>6
<1>8. a \div 8 = b \div 8
  BY <1>2, <1>3, <1>7
<1>9. a \div 4 = b \div 4
  BY <1>2, <1>3, <1>8
<1>10. a \div 2 = b \div 2
  BY <1>2, <1>3, <1>9
<1> QED
  BY <1>2, <1>3, <1>10

\* Eight bits make a byte.
LEMMA ByteOfType ==
    ASSUME NEW A
    PROVE  ByteOf(A) \in Byte
  BY DEF ByteOf, Weight, Byte

\* Equal bytes have the same bits.
LEMMA ByteOfInjective ==
    ASSUME NEW A, NEW B, ByteOf(A) = ByteOf(B)
    PROVE  \A i \in 0..7 : i \in A <=> i \in B
  BY DEF ByteOf, Weight

\* The bits of the register after one shift, each from the bit above it and the polynomial.
LEMMA ShiftBit ==
    ASSUME NEW A \in SUBSET (0..31)
    PROVE  /\ CrcShift(A) \in SUBSET (0..31)
           /\ \A k \in 0..31 : k \in CrcShift(A) <=>
                  ~(k + 1 \in A <=> (0 \in A /\ k \in Polynomial))
<1> DEFINE shifted == {i - 1 : i \in A \ {0}}
<1>1. shifted \in SUBSET (0..31) /\ \A k \in 0..31 : k \in shifted <=> k + 1 \in A
  OBVIOUS
<1>2. Polynomial \in SUBSET (0..31)
  BY DEF Polynomial
<1>3. CrcShift(A) = IF 0 \in A THEN SymDiff(shifted, Polynomial) ELSE shifted
  BY DEF CrcShift
<1> HIDE DEF shifted
<1> QED
  BY <1>1, <1>2, <1>3 DEF SymDiff

\* The register of the checksum, a set of bit positions.
Registers == SUBSET (0..31)

\* A shift loses nothing: the polynomial has the bit that the shift leaves empty.
LEMMA ShiftInjective ==
    ASSUME NEW A \in Registers, NEW B \in Registers, CrcShift(A) = CrcShift(B)
    PROVE  A = B
<1>0. A \in SUBSET (0..31) /\ B \in SUBSET (0..31)
  BY DEF Registers
<1>1. 31 \in Polynomial
  BY DEF Polynomial
<1>2. 0 \in A <=> 0 \in B
  <2>1. 31 \in 0..31 /\ 31 + 1 \notin A /\ 31 + 1 \notin B
    BY <1>0
  <2> QED
    BY <1>0, <1>1, <2>1, ShiftBit
<1>3. \A k \in 0..31 : k + 1 \in A <=> k + 1 \in B
  BY <1>0, <1>2, ShiftBit
<1>4. \A i \in 1..31 : i - 1 \in 0..31 /\ (i - 1) + 1 = i
  OBVIOUS
<1>5. \A i \in 1..31 : i \in A <=> i \in B
  BY <1>3, <1>4
<1>6. \A i \in 0..31 : i = 0 \/ i \in 1..31
  OBVIOUS
<1>7. \A i \in 0..31 : i \in A <=> i \in B
  BY <1>2, <1>5, <1>6
<1> QED
  BY <1>0, <1>7, Zenon

\* A shift of a difference is the difference of the shifts.
LEMMA ShiftLinear ==
    ASSUME NEW A \in Registers, NEW B \in Registers
    PROVE  /\ SymDiff(A, B) \in Registers
           /\ CrcShift(SymDiff(A, B)) = SymDiff(CrcShift(A), CrcShift(B))
<1> DEFINE D == SymDiff(A, B)
<1>1. D \in SUBSET (0..31) /\ A \in SUBSET (0..31) /\ B \in SUBSET (0..31)
  BY DEF Registers, SymDiff
<1>2. \A k : k \in D <=> ~(k \in A <=> k \in B)
  BY DEF SymDiff
<1> HIDE DEF D
<1>3. \A k \in 0..31 : k \in CrcShift(D) <=> ~(k \in CrcShift(A) <=> k \in CrcShift(B))
  BY <1>1, <1>2, ShiftBit
<1>4. CrcShift(D) = SymDiff(CrcShift(A), CrcShift(B))
  BY <1>1, <1>3, ShiftBit DEF SymDiff
<1> QED
  BY <1>1, <1>4 DEF D, Registers

\* Bits from the eighth on only move down in the first eight shifts.
LEMMA ShiftDown ==
    ASSUME NEW n \in 0..7, NEW A \in SUBSET (8..31)
    PROVE  CrcShift({i - n : i \in A}) = {i - (n + 1) : i \in A}
<1> DEFINE D == {i - n : i \in A}
<1>1. D \subseteq Int /\ 0 \notin D
  OBVIOUS
<1>2. CrcShift(D) = {i - 1 : i \in D}
  BY <1>1 DEF CrcShift
<1>3. {i - 1 : i \in D} = {i - (n + 1) : i \in A}
  <2>1. \A i \in A : i \in Int /\ i - n - 1 = i - (n + 1)
    OBVIOUS
  <2> QED
    BY <2>1
<1> QED
  BY <1>2, <1>3

\* Eight shifts lose nothing.
LEMMA EightInjective ==
    ASSUME NEW A \in Registers, NEW B \in Registers, EightShifts(A) = EightShifts(B)
    PROVE  A = B
<1>1. \A C \in Registers : CrcShift(C) \in Registers
  BY ShiftBit DEF Registers
<1>2. \A C, D \in Registers : CrcShift(C) = CrcShift(D) => C = D
  BY ShiftInjective
<1> HIDE DEF CrcShift
<1> QED
  BY <1>1, <1>2 DEF EightShifts

\* Eight shifts of a difference are the difference of the eight shifts.
LEMMA EightLinear ==
    ASSUME NEW A \in Registers, NEW B \in Registers
    PROVE  EightShifts(SymDiff(A, B)) = SymDiff(EightShifts(A), EightShifts(B))
<1>1. \A C \in Registers : CrcShift(C) \in Registers
  BY ShiftBit DEF Registers
<1>2. \A C, D \in Registers : CrcShift(SymDiff(C, D)) = SymDiff(CrcShift(C), CrcShift(D))
  BY ShiftLinear
<1> QED
  BY <1>1, <1>2 DEF EightShifts

\* Eight shifts move the upper bytes down by one.
LEMMA EightDown ==
    ASSUME NEW A \in SUBSET (8..31)
    PROVE  EightShifts(A) = {i - 8 : i \in A}
<1>1. A = {i - 0 : i \in A}
  <2>1. \A i \in A : i - 0 = i
    OBVIOUS
  <2> QED
    BY <2>1, Zenon
<1>2. \A n \in 0..7 : CrcShift({i - n : i \in A}) = {i - (n + 1) : i \in A}
  BY ShiftDown
<1>3. /\ CrcShift(A) = {i - 1 : i \in A}
      /\ CrcShift({i - 1 : i \in A}) = {i - 2 : i \in A}
      /\ CrcShift({i - 2 : i \in A}) = {i - 3 : i \in A}
      /\ CrcShift({i - 3 : i \in A}) = {i - 4 : i \in A}
      /\ CrcShift({i - 4 : i \in A}) = {i - 5 : i \in A}
      /\ CrcShift({i - 5 : i \in A}) = {i - 6 : i \in A}
      /\ CrcShift({i - 6 : i \in A}) = {i - 7 : i \in A}
      /\ CrcShift({i - 7 : i \in A}) = {i - 8 : i \in A}
  BY <1>1, <1>2
<1> QED
  BY <1>3 DEF EightShifts

\* The step by table is the bitwise loop of the code: mix the byte in, shift eight times.
LEMMA ByteIsEight ==
    ASSUME NEW A \in Registers, NEW byte
    PROVE  /\ SymDiff(A, BitsOf(byte)) \in Registers
           /\ CrcByte(A, byte) = EightShifts(SymDiff(A, BitsOf(byte)))
<1> DEFINE bits == BitsOf(byte)
           high == {j \in A : j >= 8}
           low == {j \in A : j < 8}
           mixed == SymDiff(low, bits)
<1>1. bits \in SUBSET (0..7)
  BY DEF BitsOf
<1> HIDE DEF bits
<1>2. high \in SUBSET (8..31) /\ high \in Registers /\ low \in SUBSET (0..7)
  <2>1. \A j \in A : j \in 0..31 /\ (j >= 8 => j \in 8..31) /\ (j < 8 => j \in 0..7)
    BY DEF Registers
  <2> QED
    BY <2>1, Zenon DEF Registers
<1>3. mixed \in SUBSET (0..7) /\ mixed \in Registers
  <2>1. mixed \in SUBSET (0..7)
    BY <1>1, <1>2 DEF SymDiff
  <2> QED
    BY <2>1 DEF Registers
<1>4. SymDiff(A, bits) = SymDiff(high, mixed)
  <2>1. \A j \in A : j \in Int /\ (j >= 8 <=> ~(j < 8))
    BY DEF Registers
  <2>2. \A j \in bits : j \in Int /\ ~(j >= 8)
    BY <1>1
  <2> QED
    BY <2>1, <2>2 DEF SymDiff
<1>5. CrcByte(A, byte) = SymDiff({i - 8 : i \in high}, EightShifts(mixed))
  <2>1. CrcTable[mixed] = EightShifts(mixed)
    BY <1>3 DEF CrcTable
  <2>2. CrcByte(A, byte) = SymDiff({i - 8 : i \in high}, CrcTable[mixed])
    BY DEF CrcByte, bits
  <2> QED
    BY <2>1, <2>2
<1> HIDE DEF high, mixed, low
<1>6. CrcByte(A, byte) = EightShifts(SymDiff(high, mixed))
  BY <1>2, <1>3, <1>5, EightDown, EightLinear
<1> QED
  BY <1>2, <1>3, <1>4, <1>6, ShiftLinear DEF bits

\* A function on 1..n is a sequence of length n.
LEMMA FunctionIsSequence ==
    ASSUME NEW S, NEW n \in Nat, NEW f \in [1..n -> S]
    PROVE  f \in Seq(S) /\ Len(f) = n
  OBVIOUS

\* The four bytes of the register tell the register.
LEMMA RegisterInjective ==
    ASSUME NEW A \in Registers, NEW B \in Registers, Register(A) = Register(B)
    PROVE  A = B
<1> DEFINE Part(C, k) == {i - 8 * (k - 1) : i \in C \cap (8 * k - 8)..(8 * k - 1)}
<1>1. \A k \in 1..4 : ByteOf(Part(A, k)) = ByteOf(Part(B, k))
  <2>1. \A k \in 1..4 : Register(A)[k] = ByteOf(Part(A, k)) /\ Register(B)[k] = ByteOf(Part(B, k))
    BY DEF Register
  <2> QED
    BY <2>1
<1>2. \A k \in 1..4 : \A n \in 0..7 : n \in Part(A, k) <=> n \in Part(B, k)
  <2> HIDE DEF Part
  <2> QED
    BY <1>1, ByteOfInjective
<1>3. ASSUME NEW k \in 1..4, NEW C \in Registers, NEW i \in (8 * k - 8)..(8 * k - 1)
      PROVE  i \in C <=> i - 8 * (k - 1) \in Part(C, k)
  <2>1. i \in Int /\ \A j \in (8 * k - 8)..(8 * k - 1) : j \in Int
    OBVIOUS
  <2>2. \A j \in (8 * k - 8)..(8 * k - 1) : j - 8 * (k - 1) = i - 8 * (k - 1) => j = i
    BY <2>1
  <2> QED
    BY <2>2
<1>4. \A k \in 1..4 : \A i \in (8 * k - 8)..(8 * k - 1) : i - 8 * (k - 1) \in 0..7
  OBVIOUS
<1> HIDE DEF Part
<1>5. \A k \in 1..4 : \A i \in (8 * k - 8)..(8 * k - 1) : i \in A <=> i \in B
  BY <1>2, <1>3, <1>4
<1>6. ASSUME NEW i \in 0..31 PROVE i \in A <=> i \in B
  <2>1. i \in (8 * 1 - 8)..(8 * 1 - 1) \/ i \in (8 * 2 - 8)..(8 * 2 - 1)
        \/ i \in (8 * 3 - 8)..(8 * 3 - 1) \/ i \in (8 * 4 - 8)..(8 * 4 - 1)
    OBVIOUS
  <2>2. 1 \in 1..4 /\ 2 \in 1..4 /\ 3 \in 1..4 /\ 4 \in 1..4
    OBVIOUS
  <2> QED
    BY <1>5, <2>1, <2>2
<1> QED
  BY <1>6 DEF Registers

\* The register is written as four bytes.
LEMMA RegisterType ==
    ASSUME NEW A
    PROVE  Register(A) \in Seq(Byte) /\ Len(Register(A)) = 4
<1>1. Register(A) \in [1..4 -> Byte]
  <2>1. \A B : ByteOf(B) \in Byte
    BY ByteOfType
  <2> HIDE DEF ByteOf, Byte
  <2> QED
    BY <2>1, Zenon DEF Register
<1> HIDE DEF Register
<1> QED
  BY <1>1, FunctionIsSequence

\* r has the register after each of the first n bytes.
IsSteps(r, n, data) ==
    r = [i \in 0..n |-> IF i = 0 THEN 0..31 ELSE CrcByte(r[i - 1], data[i])]

\* There is a register for every prefix of the data: the least prefix without one cannot be.
LEMMA StepsExist ==
    ASSUME NEW data, NEW m \in Nat
    PROVE  \E r : IsSteps(r, m, data)
<1> DEFINE Bad == {n \in Nat : ~\E r : IsSteps(r, n, data)}
<1>1. CASE Bad = {}
  BY <1>1
<1>2. CASE Bad # {}
  <2>1. PICK n \in Bad : \A k \in Bad : n <= k
    BY <1>2, LeastNumber
  <2>2. n # 0
    <3>1. IsSteps([i \in 0..0 |-> 0..31], 0, data)
      BY DEF IsSteps
    <3> QED
      BY <2>1, <3>1
  <2>3. n \in Nat /\ n - 1 \in Nat /\ n - 1 \notin Bad
    BY <2>1, <2>2
  <2>4. PICK r : IsSteps(r, n - 1, data)
    BY <2>3
  <2> DEFINE t == [i \in 0..n |-> IF i = n THEN CrcByte(r[n - 1], data[n]) ELSE r[i]]
  <2>5. r = [i \in 0..(n - 1) |-> IF i = 0 THEN 0..31 ELSE CrcByte(r[i - 1], data[i])]
    BY <2>4 DEF IsSteps
  <2>6. \A i \in 0..(n - 1) : r[i] = IF i = 0 THEN 0..31 ELSE CrcByte(r[i - 1], data[i])
    BY <2>5
  <2>7. \A i \in 0..n : t[i] = IF i = 0 THEN 0..31 ELSE CrcByte(t[i - 1], data[i])
    <3> SUFFICES ASSUME NEW i \in 0..n
                 PROVE  t[i] = IF i = 0 THEN 0..31 ELSE CrcByte(t[i - 1], data[i])
      OBVIOUS
    <3>1. CASE i = 0
      BY <2>2, <2>3, <2>6, <3>1
    <3>2. CASE i # 0
      <4>1. i - 1 \in 0..n /\ i - 1 # n /\ i - 1 \in 0..(n - 1)
        BY <2>3, <3>2
      <4>2. t[i - 1] = r[i - 1]
        BY <4>1
      <4>3. t[i] = CrcByte(r[i - 1], data[i])
        <5>1. i = n \/ i \in 0..(n - 1)
          BY <2>3
        <5> QED
          BY <2>6, <3>2, <5>1
      <4> QED
        BY <3>2, <4>2, <4>3
    <3> QED
      BY <3>1, <3>2
  <2>8. t = [i \in 0..n |-> t[i]]
    OBVIOUS
  <2> HIDE DEF t
  <2>9. IsSteps(t, n, data)
    BY <2>7, <2>8 DEF IsSteps
  <2> QED
    BY <2>1, <2>9
<1> QED
  BY <1>1, <1>2

\* CrcSteps starts with all ones and takes the bytes one after the other.
LEMMA StepsDefined ==
    ASSUME NEW data \in Seq(Byte)
    PROVE  /\ CrcSteps(data)[0] = 0..31
           /\ \A i \in 1..Len(data) :
                 CrcSteps(data)[i] = CrcByte(CrcSteps(data)[i - 1], data[i])
<1> DEFINE r == CrcSteps(data)
<1>1. r = CHOOSE q : IsSteps(q, Len(data), data)
  BY Zenon DEF CrcSteps, IsSteps
<1>2. Len(data) \in Nat
  OBVIOUS
<1>3. IsSteps(r, Len(data), data)
  BY <1>1, <1>2, StepsExist
<1> HIDE DEF r
<1>4. \A i \in 0..Len(data) : r[i] = IF i = 0 THEN 0..31 ELSE CrcByte(r[i - 1], data[i])
  BY <1>3 DEF IsSteps
<1>5. r[0] = 0..31 /\ \A i \in 1..Len(data) : r[i] = CrcByte(r[i - 1], data[i])
  <2>1. 0 \in 0..Len(data) /\ \A i \in 1..Len(data) : i \in 0..Len(data) /\ i # 0
    BY <1>2
  <2> QED
    BY <1>4, <2>1
<1> QED
  BY <1>5 DEF r

\* Eight shifts stay within 32 bits.
LEMMA EightType == ASSUME NEW A \in Registers PROVE EightShifts(A) \in Registers
<1>1. \A C \in Registers : CrcShift(C) \in Registers
  BY ShiftBit DEF Registers
<1> QED
  BY <1>1 DEF EightShifts

\* A step stays within 32 bits.
LEMMA ByteIsRegister ==
    ASSUME NEW A \in Registers, NEW byte
    PROVE  CrcByte(A, byte) \in Registers
  BY ByteIsEight, EightType

\* Mixing the same bits in loses nothing.
LEMMA Mixed ==
    ASSUME NEW A, NEW B, NEW C
    PROVE  /\ SymDiff(A, C) = SymDiff(B, C) => A = B
           /\ SymDiff(C, A) = SymDiff(C, B) => A = B
  BY DEF SymDiff

\* Different registers stay different when they take the same byte.
LEMMA RegisterChanges ==
    ASSUME NEW A \in Registers, NEW B \in Registers, A # B, NEW byte
    PROVE  CrcByte(A, byte) # CrcByte(B, byte)
<1> DEFINE bits == BitsOf(byte)
<1>1. SymDiff(A, bits) # SymDiff(B, bits)
  BY Mixed
<1>2. /\ SymDiff(A, bits) \in Registers /\ SymDiff(B, bits) \in Registers
      /\ CrcByte(A, byte) = EightShifts(SymDiff(A, bits))
      /\ CrcByte(B, byte) = EightShifts(SymDiff(B, bits))
  BY ByteIsEight
<1> HIDE DEF bits
<1> QED
  BY <1>1, <1>2, EightInjective

\* Different bytes make different registers.
LEMMA ByteChanges ==
    ASSUME NEW A \in Registers, NEW a \in Byte, NEW b \in Byte, a # b
    PROVE  CrcByte(A, a) # CrcByte(A, b)
<1>1. BitsOf(a) # BitsOf(b)
  BY BitsInjective
<1> QED
  BY <1>1, ByteIsEight, EightInjective, Mixed

\* Every register of the run has 32 bits.
LEMMA StepsAreRegisters ==
    ASSUME NEW data \in Seq(Byte), NEW m \in 0..Len(data)
    PROVE  CrcSteps(data)[m] \in Registers
<1> DEFINE r == CrcSteps(data)
           Bad == {n \in 0..Len(data) : r[n] \notin Registers}
<1>1. Len(data) \in Nat /\ r[0] = 0..31
      /\ \A i \in 1..Len(data) : r[i] = CrcByte(r[i - 1], data[i])
  <2>1. Len(data) \in Nat
    OBVIOUS
  <2> QED
    BY <2>1, StepsDefined, Zenon
<1> HIDE DEF r
<1>2. CASE Bad = {}
  BY <1>2 DEF r
<1>3. CASE Bad # {}
  <2>0. Bad \in SUBSET Nat
    BY <1>1
  <2>1. PICK n \in Bad : \A k \in Bad : n <= k
    BY <1>3, <2>0, LeastNumber
  <2>2. n # 0
    BY <1>1, <2>1 DEF Registers
  <2>3. n \in 1..Len(data) /\ n - 1 \in 0..Len(data) /\ n - 1 \notin Bad
    BY <1>1, <2>1, <2>2
  <2>4. r[n - 1] \in Registers /\ r[n] = CrcByte(r[n - 1], data[n])
    BY <1>1, <2>3
  <2>5. r[n] \in Registers
    BY <2>4, ByteIsRegister
  <2> QED
    BY <2>1, <2>5
<1> QED
  BY <1>2, <1>3

(* A byte that differs changes the checksum, whatever surrounds it.        *)
\* Data of any length that differ in one byte have different checksums: the registers
\* agree up to the byte, differ at it, and differ from then on.
LEMMA CrcDetects ==
    ASSUME NEW s \in Seq(Byte), NEW t \in Seq(Byte), Len(s) = Len(t),
           NEW p \in 1..Len(s), s[p] # t[p], \A i \in 1..Len(s) : i # p => s[i] = t[i]
    PROVE  crc32(s) # crc32(t)
<1> DEFINE q == CrcSteps(s)
           r == CrcSteps(t)
           n == Len(s)
<1>1. /\ n \in Nat /\ p \in Nat /\ q[0] = r[0]
      /\ \A i \in 1..n : q[i] = CrcByte(q[i - 1], s[i]) /\ r[i] = CrcByte(r[i - 1], t[i])
      /\ \A i \in 0..n : q[i] \in Registers /\ r[i] \in Registers
      /\ \A i \in 1..n : s[i] \in Byte /\ t[i] \in Byte
  <2>1. n \in Nat /\ p \in Nat /\ \A i \in 1..n : s[i] \in Byte /\ t[i] \in Byte
    OBVIOUS
  <2>2. q[0] = 0..31 /\ \A i \in 1..n : q[i] = CrcByte(q[i - 1], s[i])
    BY StepsDefined, Zenon
  <2>3. r[0] = 0..31 /\ \A i \in 1..n : r[i] = CrcByte(r[i - 1], t[i])
    BY StepsDefined, Zenon
  <2>4. \A i \in 0..n : q[i] \in Registers /\ r[i] \in Registers
    BY StepsAreRegisters, Zenon
  <2> QED
    BY <2>1, <2>2, <2>3, <2>4, Zenon
<1> HIDE DEF q, r
<1>2. \A i \in 0..(p - 1) : q[i] = r[i]
  <2> DEFINE Bad == {i \in 0..(p - 1) : q[i] # r[i]}
  <2>1. CASE Bad = {}
    BY <2>1
  <2>2. CASE Bad # {}
    <3>0. Bad \in SUBSET Nat
      BY <1>1
    <3>1. PICK i \in Bad : \A k \in Bad : i <= k
      BY <2>2, <3>0, LeastNumber
    <3>2. i # 0
      BY <1>1, <3>1
    <3>3. i \in 1..n /\ i # p /\ i - 1 \in 0..(p - 1) /\ i - 1 \notin Bad
      BY <1>1, <3>1, <3>2
    <3>4. q[i - 1] = r[i - 1] /\ s[i] = t[i]
      BY <3>3
    <3> QED
      BY <1>1, <3>1, <3>3, <3>4
  <2> QED
    BY <2>1, <2>2
<1>3. q[p] # r[p]
  <2>1. q[p - 1] = r[p - 1] /\ q[p - 1] \in Registers
    BY <1>1, <1>2
  <2> QED
    BY <1>1, <2>1, ByteChanges
<1>4. \A i \in p..n : q[i] # r[i]
  <2> DEFINE Bad == {i \in p..n : q[i] = r[i]}
  <2>1. CASE Bad = {}
    BY <2>1
  <2>2. CASE Bad # {}
    <3>0. Bad \in SUBSET Nat
      BY <1>1
    <3>1. PICK i \in Bad : \A k \in Bad : i <= k
      BY <2>2, <3>0, LeastNumber
    <3>2. i # p
      BY <1>3, <3>1
    <3>3. i \in 1..n /\ i - 1 \in p..n /\ i - 1 \in 0..n /\ i - 1 \notin Bad
      BY <1>1, <3>1, <3>2
    <3>4. q[i - 1] # r[i - 1] /\ s[i] = t[i]
      BY <3>2, <3>3
    <3>5. /\ q[i] = CrcByte(q[i - 1], s[i]) /\ r[i] = CrcByte(r[i - 1], s[i])
          /\ q[i - 1] \in Registers /\ r[i - 1] \in Registers /\ s[i] \in Byte
      BY <1>1, <3>3, <3>4
    <3>6. q[i] # r[i]
      BY <3>4, <3>5, RegisterChanges
    <3> QED
      BY <3>1, <3>6
  <2> QED
    BY <2>1, <2>2
<1>5. q[n] # r[n] /\ q[n] \in Registers /\ r[n] \in Registers
  BY <1>1, <1>4
<1>6. (0..31) \ q[n] # (0..31) \ r[n]
  BY <1>5 DEF Registers
<1>7. (0..31) \ q[n] \in Registers /\ (0..31) \ r[n] \in Registers
  BY DEF Registers
<1>8. Register((0..31) \ q[n]) # Register((0..31) \ r[n])
  BY <1>6, <1>7, RegisterInjective
<1> QED
  BY <1>8 DEF crc32, CrcOf, q, r

-----------------------------------------------------------------------------
(* The wire formats: request frames.                                       *)

\* Where the bytes of a concatenation come from.
LEMMA Joined ==
    ASSUME NEW a \in Seq(Byte), NEW b \in Seq(Byte)
    PROVE  /\ a \o b \in Seq(Byte) /\ Len(a \o b) = Len(a) + Len(b)
           /\ \A i \in 1..Len(a) : (a \o b)[i] = a[i]
           /\ \A i \in 1..Len(b) : (a \o b)[Len(a) + i] = b[i]
  OBVIOUS

\* A cast gives as many bytes as its width.
LEMMA CastType ==
    ASSUME NEW s \in Seq(Byte), NEW width \in Nat
    PROVE  Cast(s, width) \in Seq(Byte) /\ Len(Cast(s, width)) = width
<1>1. Cast(s, width) \in [1..width -> Byte]
  <2>0. 0 \in Byte
    BY DEF Byte
  <2>1. \A i \in 1..width : i <= Len(s) => s[i] \in Byte
    OBVIOUS
  <2>2. Cast(s, width) = [i \in 1..width |-> IF i <= Len(s) THEN s[i] ELSE 0]
    BY DEF Cast
  <2> HIDE DEF Byte
  <2> QED
    BY <2>0, <2>1, <2>2
<1> HIDE DEF Cast
<1> QED
  BY <1>1, FunctionIsSequence

\* The lengths, verbs and codes that are written.
Short == 0..511

\* A number is written in as many bytes as its width.
LEMMA LittleEndianType ==
    ASSUME NEW n \in Short, NEW width \in Nat
    PROVE  LittleEndian(n, width) \in Seq(Byte) /\ Len(LittleEndian(n, width)) = width
<1> DEFINE low == n % 256
           high == n \div 256
<1>1. low \in Byte /\ high \in Byte
  BY DEF Byte, Short
<1>2. LittleEndian(n, width) = Cast(<<low, high>>, width)
  BY DEF LittleEndian
<1> HIDE DEF low, high
<1>3. <<low, high>> \in Seq(Byte)
  BY <1>1
<1> QED
  BY <1>2, <1>3, CastType

\* A number below 512 can be read from its bytes.
LEMMA LittleEndianValue ==
    ASSUME NEW n \in Short
    PROVE  /\ LittleEndian(n, 2)[1] + 256 * LittleEndian(n, 2)[2] = n
           /\ LittleEndian(n, 4)[1] = n % 256
<1>1. /\ LittleEndian(n, 2)[1] = n % 256 /\ LittleEndian(n, 2)[2] = n \div 256
      /\ LittleEndian(n, 4)[1] = n % 256
  BY DEF LittleEndian, Cast
<1>2. n \in Nat /\ n % 256 = n - 256 * (n \div 256) /\ n \div 256 \in Nat
  BY DEF Short
<1>3. (n % 256) + 256 * (n \div 256) = n
  BY <1>2
<1> QED
  BY <1>1, <1>3

\* What a client may send.
Sendable == {f \in [token : Seq(Byte), verb : 1..5, payload : Seq(Byte)] :
                Len(f.token) = 32 /\ Len(f.payload) <= 256}

\* The fields of a frame to send.
LEMMA SendableFields ==
    ASSUME NEW f \in Sendable
    PROVE  /\ f.token \in Seq(Byte) /\ f.payload \in Seq(Byte) /\ f.verb \in 1..5
           /\ Len(f.token) = 32 /\ Len(f.payload) \in 0..256
           /\ Len(f.payload) \in Short /\ f.verb \in Short
<1> DEFINE n == Len(f.payload)
<1>1. /\ f.token \in Seq(Byte) /\ f.payload \in Seq(Byte) /\ f.verb \in 1..5
      /\ Len(f.token) = 32 /\ n <= 256
  BY DEF Sendable
<1>2. n \in Nat
  BY <1>1
<1> HIDE DEF n
<1>3. n \in 0..256 /\ n \in Short
  BY <1>1, <1>2 DEF Short
<1>4. f.verb \in Short
  BY <1>1 DEF Short
<1> QED
  BY <1>1, <1>3, <1>4 DEF n

\* A frame up to its payload, and up to its checksum.
Header(f) == MAGIC_BYTES \o PROTOCOL_VERSION \o LittleEndian(Len(f.payload), 2)
             \o f.token \o LittleEndian(f.verb, 4)

\* Where the fields of the header are.
LEMMA HeaderLayout ==
    ASSUME NEW f \in Sendable
    PROVE  /\ Header(f) \in Seq(Byte) /\ Len(Header(f)) = 44
           /\ \A i \in 1..4 : Header(f)[i] = MAGIC_BYTES[i]
           /\ \A i \in 1..2 : Header(f)[4 + i] = PROTOCOL_VERSION[i]
           /\ \A i \in 1..2 : Header(f)[6 + i] = LittleEndian(Len(f.payload), 2)[i]
           /\ \A i \in 1..32 : Header(f)[8 + i] = f.token[i]
           /\ \A i \in 1..4 : Header(f)[40 + i] = LittleEndian(f.verb, 4)[i]
<1> DEFINE len == LittleEndian(Len(f.payload), 2)
           verb == LittleEndian(f.verb, 4)
           a == MAGIC_BYTES \o PROTOCOL_VERSION
           b == a \o len
           c == b \o f.token
           d == c \o verb
<1>1. /\ len \in Seq(Byte) /\ Len(len) = 2 /\ verb \in Seq(Byte) /\ Len(verb) = 4
  <2>1. Len(f.payload) \in Short /\ f.verb \in Short
    BY SendableFields
  <2>2. 2 \in Nat /\ 4 \in Nat
    OBVIOUS
  <2> QED
    BY <2>1, <2>2, LittleEndianType
<1>2. f.token \in Seq(Byte) /\ Len(f.token) = 32
  BY SendableFields
<1>3. /\ MAGIC_BYTES \in Seq(Byte) /\ Len(MAGIC_BYTES) = 4
      /\ PROTOCOL_VERSION \in Seq(Byte) /\ Len(PROTOCOL_VERSION) = 2
  BY DEF MAGIC_BYTES, PROTOCOL_VERSION, Byte
<1> HIDE DEF len, verb
<1>4. /\ a \in Seq(Byte) /\ Len(a) = 4 + 2 /\ \A i \in 1..4 : a[i] = MAGIC_BYTES[i]
      /\ \A i \in 1..2 : a[4 + i] = PROTOCOL_VERSION[i]
  <2>1. /\ a \in Seq(Byte) /\ Len(a) = Len(MAGIC_BYTES) + Len(PROTOCOL_VERSION)
        /\ \A i \in 1..Len(MAGIC_BYTES) : a[i] = MAGIC_BYTES[i]
        /\ \A i \in 1..Len(PROTOCOL_VERSION) : a[Len(MAGIC_BYTES) + i] = PROTOCOL_VERSION[i]
    BY <1>3, Joined, Zenon
  <2> HIDE DEF a
  <2> QED
    BY <1>3, <2>1
<1> HIDE DEF a
<1>5. /\ b \in Seq(Byte) /\ Len(b) = 6 + 2 /\ \A i \in 1..6 : b[i] = a[i]
      /\ \A i \in 1..2 : b[6 + i] = len[i]
  <2>1. /\ b \in Seq(Byte) /\ Len(b) = Len(a) + Len(len)
        /\ \A i \in 1..Len(a) : b[i] = a[i]
        /\ \A i \in 1..Len(len) : b[Len(a) + i] = len[i]
    BY <1>1, <1>4, Joined, Zenon
  <2> HIDE DEF b
  <2> QED
    BY <1>1, <1>4, <2>1
<1> HIDE DEF b
<1>6. /\ c \in Seq(Byte) /\ Len(c) = 8 + 32 /\ \A i \in 1..8 : c[i] = b[i]
      /\ \A i \in 1..32 : c[8 + i] = f.token[i]
  <2>1. /\ c \in Seq(Byte) /\ Len(c) = Len(b) + Len(f.token)
        /\ \A i \in 1..Len(b) : c[i] = b[i]
        /\ \A i \in 1..Len(f.token) : c[Len(b) + i] = f.token[i]
    BY <1>2, <1>5, Joined, ZenonT(60)
  <2> HIDE DEF c
  <2> QED
    BY <1>2, <1>5, <2>1
<1> HIDE DEF c
<1>7. /\ d \in Seq(Byte) /\ Len(d) = 40 + 4 /\ \A i \in 1..40 : d[i] = c[i]
      /\ \A i \in 1..4 : d[40 + i] = verb[i]
  <2>1. /\ d \in Seq(Byte) /\ Len(d) = Len(c) + Len(verb)
        /\ \A i \in 1..Len(c) : d[i] = c[i]
        /\ \A i \in 1..Len(verb) : d[Len(c) + i] = verb[i]
    BY <1>1, <1>6, Joined, Zenon
  <2> HIDE DEF d
  <2> QED
    BY <1>1, <1>6, <2>1
<1>8. Header(f) = d
  BY DEF Header, a, b, c, len, verb
<1> HIDE DEF d
<1>0. /\ \A i \in 1..4 : i \in 1..6 /\ i \in 1..8 /\ i \in 1..40
      /\ \A i \in 1..2 : 4 + i \in 1..6 /\ 4 + i \in 1..8 /\ 4 + i \in 1..40
      /\ \A i \in 1..2 : 6 + i \in 1..8 /\ 6 + i \in 1..40
      /\ \A i \in 1..32 : 8 + i \in 1..40
  OBVIOUS
<1>9. \A i \in 1..4 : d[i] = MAGIC_BYTES[i]
  BY <1>0, <1>4, <1>5, <1>6, <1>7, ZenonT(60)
<1>10. \A i \in 1..2 : d[4 + i] = PROTOCOL_VERSION[i]
  <2> SUFFICES ASSUME NEW i \in 1..2 PROVE d[4 + i] = PROTOCOL_VERSION[i]
    OBVIOUS
  <2>1. b[4 + i] = PROTOCOL_VERSION[i]
    BY <1>0, <1>4, <1>5, Zenon
  <2> QED
    BY <1>0, <1>6, <1>7, <2>1, Zenon
<1>11. \A i \in 1..2 : d[6 + i] = len[i]
  BY <1>0, <1>5, <1>6, <1>7, ZenonT(60)
<1>12. \A i \in 1..32 : d[8 + i] = f.token[i]
  BY <1>0, <1>6, <1>7, Zenon
<1> QED
  BY <1>7, <1>8, <1>9, <1>10, <1>11, <1>12 DEF len, verb

Body(f) == Header(f) \o f.payload

\* Positions in a frame with n bytes of payload.
LEMMA Offsets ==
    ASSUME NEW n \in 0..256
    PROVE  /\ \A i \in 1..44 : i \in 1..(44 + n)
           /\ \A i \in 1..n : 44 + i \in 1..(44 + n)
           /\ (44 + n) + 4 = 48 + n /\ 44 + n \in Nat /\ 4 \in Nat
  OBVIOUS

\* Where a frame's parts are in it.
Layout(f, n, w) ==
    /\ n \in 0..256 /\ w \in Seq(Byte) /\ Len(w) = 48 + n
    /\ Body(f) \in Seq(Byte) /\ Len(Body(f)) = 44 + n
    /\ crc32(Body(f)) \in Seq(Byte) /\ Len(crc32(Body(f))) = 4
    /\ \A i \in 1..(44 + n) : w[i] = Body(f)[i]
    /\ \A i \in 1..44 : w[i] = Header(f)[i]
    /\ \A i \in 1..n : w[44 + i] = f.payload[i]
    /\ \A i \in 1..4 : w[44 + n + i] = crc32(Body(f))[i]

\* Where the parts of a frame are, for any token, verb and payload.
LEMMA FrameLayout ==
    ASSUME NEW f \in Sendable
    PROVE  Layout(f, Len(f.payload), serialize(f))
<1> SUFFICES ASSUME NEW n, n = Len(f.payload), NEW w, w = serialize(f) PROVE Layout(f, n, w)
  OBVIOUS
<1> DEFINE h == Header(f)
           body == h \o f.payload
           crc == crc32(body)
           z == body \o crc
<1>1. f.payload \in Seq(Byte) /\ n \in 0..256
  BY SendableFields
<1>2. h \in Seq(Byte) /\ Len(h) = 44
  BY HeaderLayout
<1>3. Body(f) = body /\ w = z
  BY DEF Body, serialize, Header
<1> HIDE DEF h
<1>4. /\ body \in Seq(Byte) /\ Len(body) = 44 + n /\ \A i \in 1..44 : body[i] = h[i]
      /\ \A i \in 1..n : body[44 + i] = f.payload[i]
  <2>1. /\ body \in Seq(Byte) /\ Len(body) = Len(h) + Len(f.payload)
        /\ \A i \in 1..Len(h) : body[i] = h[i]
        /\ \A i \in 1..Len(f.payload) : body[Len(h) + i] = f.payload[i]
    BY <1>1, <1>2, Joined, ZenonT(60)
  <2> HIDE DEF body
  <2> QED
    BY <1>1, <1>2, <2>1
<1>5. crc \in Seq(Byte) /\ Len(crc) = 4
  BY RegisterType DEF crc32, CrcOf
<1> HIDE DEF body, crc
<1>7. 44 + n \in Nat /\ 4 \in Nat
  BY <1>1, Offsets, ZenonT(60)
<1>8. /\ z \in Seq(Byte) /\ Len(z) = (44 + n) + 4 /\ \A i \in 1..(44 + n) : z[i] = body[i]
      /\ \A i \in 1..4 : z[(44 + n) + i] = crc[i]
  <2>1. /\ z \in Seq(Byte) /\ Len(z) = Len(body) + Len(crc)
        /\ \A i \in 1..Len(body) : z[i] = body[i]
        /\ \A i \in 1..Len(crc) : z[Len(body) + i] = crc[i]
    BY <1>4, <1>5, Joined, Zenon
  <2> HIDE DEF z
  <2> QED
    BY <1>4, <1>5, <1>7, <2>1
<1>9. /\ \A i \in 1..44 : i \in 1..(44 + n)
      /\ \A i \in 1..n : 44 + i \in 1..(44 + n)
      /\ (44 + n) + 4 = 48 + n
  BY <1>1, Offsets
<1> HIDE DEF z
<1>10. /\ n \in 0..256 /\ z \in Seq(Byte) /\ Len(z) = 48 + n
       /\ body \in Seq(Byte) /\ Len(body) = 44 + n
       /\ crc \in Seq(Byte) /\ Len(crc) = 4
  BY <1>1, <1>4, <1>5, <1>8, <1>9
<1>11. \A i \in 1..44 : z[i] = h[i]
  BY <1>4, <1>8, <1>9, Zenon
<1>12. \A i \in 1..n : z[44 + i] = f.payload[i]
  BY <1>4, <1>8, <1>9, Zenon
<1> QED
  <2>1. Body(f) = body /\ w = z /\ Header(f) = h /\ crc32(Body(f)) = crc
    BY <1>3 DEF h, crc
  <2> QED
    BY <1>8, <1>10, <1>11, <1>12, <2>1, ZenonT(60) DEF Layout

\* An error is no frame and no response.
LEMMA ErrorRejected ==
    ASSUME NEW name, NEW primary, NEW second
    PROVE  Rejected(IpcError(name, primary, second)) /\ Rejected(PlainError(name))
<1>1. \A p, s : Rejected(IpcError(name, p, s))
  BY DEF IpcError, Rejected
<1> QED
  BY <1>1 DEF PlainError

\* The bytes of a slice.
LEMMA Slice ==
    ASSUME NEW d \in Seq(Byte), NEW m \in Nat, NEW k \in Nat, m + k <= Len(d)
    PROVE  /\ SubSeq(d, m + 1, m + k) \in Seq(Byte) /\ Len(SubSeq(d, m + 1, m + k)) = k
           /\ \A i \in 1..k : SubSeq(d, m + 1, m + k)[i] = d[m + i]
<1>0. Len(d) \in Nat
  OBVIOUS
<1>1. \A i \in (m + 1)..(m + k) : d[i] \in Byte
  BY <1>0
<1>2. /\ SubSeq(d, m + 1, m + k) = [i \in 1..(1 + (m + k) - (m + 1)) |-> d[i + (m + 1) - 1]]
  BY DEF SubSeq
<1>3. 1 + (m + k) - (m + 1) = k /\ \A i \in 1..k : i + (m + 1) - 1 = m + i
  OBVIOUS
<1>4. SubSeq(d, m + 1, m + k) = [i \in 1..k |-> d[m + i]]
  BY <1>2, <1>3
<1>5. \A i \in 1..k : m + i \in (m + 1)..(m + k)
  OBVIOUS
<1>6. [i \in 1..k |-> d[m + i]] \in [1..k -> Byte]
  BY <1>1, <1>5
<1> QED
  BY <1>4, <1>6, FunctionIsSequence

\* A slice is known by its bytes.
LEMMA SliceIs ==
    ASSUME NEW d \in Seq(Byte), NEW m \in Nat, NEW k \in Nat, m + k <= Len(d),
           NEW s \in Seq(Byte), Len(s) = k, \A i \in 1..k : d[m + i] = s[i]
    PROVE  SubSeq(d, m + 1, m + k) = s
<1> DEFINE q == SubSeq(d, m + 1, m + k)
<1>1. q \in Seq(Byte) /\ Len(q) = k /\ \A i \in 1..k : q[i] = d[m + i]
  BY Slice
<1> HIDE DEF q
<1>2. Len(q) = Len(s) /\ \A i \in 1..Len(q) : q[i] = s[i]
  BY <1>1, Zenon
<1>3. q = s
  BY <1>1, <1>2, SeqEqual
<1> QED
  BY <1>3 DEF q

\* What the reader of a frame has seen when it takes one.
Announced(d) == Value16(SubSeq(d, 7, 8))
Total(d) == MIN_FRAME_SIZE + Announced(d)
Sound(d) ==
    /\ ~(Len(d) < MIN_FRAME_SIZE)
    /\ SubSeq(d, 1, 4) = MAGIC_BYTES /\ SubSeq(d, 5, 6) = PROTOCOL_VERSION
    /\ ~(Announced(d) > MAX_PAYLOAD_LEN) /\ ~(Len(d) < Total(d)) /\ ~(Len(d) > Total(d))
    /\ SubSeq(d, Total(d) - 3, Total(d)) = crc32(SubSeq(d, 1, Total(d) - 4))
    /\ ~(\A v \in Verbs : SubSeq(d, 41, 44) # LittleEndian(v, 4))

\* deserialize takes what passes every check, and only that.
LEMMA Verdict ==
    ASSUME NEW d
    PROVE  /\ ~Sound(d) => Rejected(deserialize(d))
           /\ Sound(d) => deserialize(d) =
                  [token |-> SubSeq(d, 9, 40), verb |-> SubSeq(d, 41, 44)[1],
                   payload |-> SubSeq(d, 45, 44 + Announced(d))]
<1> DEFINE short == Len(d) < MIN_FRAME_SIZE
           magic == SubSeq(d, 1, 4) = MAGIC_BYTES
           version == SubSeq(d, 5, 6) = PROTOCOL_VERSION
           large == Announced(d) > MAX_PAYLOAD_LEN
           less == Len(d) < Total(d)
           more == Len(d) > Total(d)
           trailer == SubSeq(d, Total(d) - 3, Total(d))
           crc == crc32(SubSeq(d, 1, Total(d) - 4))
           verb == SubSeq(d, 41, 44)
           unknown == \A v \in Verbs : verb # LittleEndian(v, 4)
           e1 == PlainError("PayloadTruncated")
           e2 == PlainError("InvalidMagic")
           e3 == IpcError("UnsupportedVersion", SubSeq(d, 5, 6), <<>>)
           e4 == IpcError("PayloadTooLarge", LittleEndian(Announced(d), 8), <<>>)
           e5 == IpcError("TrailingBytes", LittleEndian(Total(d), 8), LittleEndian(Len(d), 8))
           e6 == IpcError("CrcMismatch", trailer, crc)
           e7 == IpcError("InvalidCommandVerb", verb, <<>>)
           frame == [token |-> SubSeq(d, 9, 40), verb |-> verb[1],
                     payload |-> SubSeq(d, 45, 44 + Announced(d))]
<1>2. deserialize(d) = IF short THEN e1 ELSE IF ~magic THEN e2 ELSE IF ~version THEN e3
                       ELSE IF large THEN e4 ELSE IF less THEN e1 ELSE IF more THEN e5
                       ELSE IF trailer # crc THEN e6 ELSE IF unknown THEN e7 ELSE frame
  BY Zenon DEF deserialize, Announced, Total
<1>3. /\ Rejected(e1) /\ Rejected(e2) /\ Rejected(e3) /\ Rejected(e4) /\ Rejected(e5)
      /\ Rejected(e6) /\ Rejected(e7)
  BY ErrorRejected
<1>4. Sound(d) <=> /\ ~short /\ magic /\ version /\ ~large /\ ~less /\ ~more
                   /\ trailer = crc /\ ~unknown
  BY Zenon DEF Sound
<1> HIDE DEF short, magic, version, large, less, more, trailer, crc, unknown, e1, e2, e3, e4,
             e5, e6, e7, frame
<1>5. ~Sound(d) => Rejected(deserialize(d))
  BY <1>2, <1>3, <1>4
<1>6. Sound(d) => deserialize(d) = frame
  BY <1>2, <1>4
<1> QED
  BY <1>5, <1>6 DEF frame

\* The sizes in a frame.
LEMMA Sizes == MIN_FRAME_SIZE = 48 /\ MAX_PAYLOAD_LEN = 256 /\ TOKEN_LEN = 32
  BY DEF MIN_FRAME_SIZE, MAX_PAYLOAD_LEN, TOKEN_LEN

\* The number of two bytes.
Pair(x, y) == x + 256 * y

\* Two bytes are told by their number.
LEMMA Pairs ==
    ASSUME NEW x \in Byte, NEW y \in Byte
    PROVE  /\ Pair(x, y) \in Nat
           /\ \A a, b \in Byte : Pair(x, y) = Pair(a, b) => x = a /\ y = b
<1>1. x + 256 * y \in Nat
  BY DEF Byte
<1>2. ASSUME NEW a \in Byte, NEW b \in Byte, x + 256 * y = a + 256 * b
      PROVE  x = a /\ y = b
  <2>1. CASE y < b
    BY <1>2, <2>1 DEF Byte
  <2>2. CASE b < y
    BY <1>2, <2>2 DEF Byte
  <2>3. CASE y = b
    BY <1>2, <2>3 DEF Byte
  <2> QED
    BY <2>1, <2>2, <2>3 DEF Byte
<1> QED
  BY <1>1, <1>2 DEF Pair

\* Magic, version and length are the first eight bytes.
LEMMA FirstBytes ==
    ASSUME NEW d \in Seq(Byte), NEW n \in Nat, Len(d) = 48 + n
    PROVE  /\ Announced(d) = Pair(d[7], d[8])
           /\ Len(SubSeq(d, 1, 4)) = 4 /\ \A i \in 1..4 : SubSeq(d, 1, 4)[i] = d[i]
           /\ Len(SubSeq(d, 5, 6)) = 2 /\ \A i \in 1..2 : SubSeq(d, 5, 6)[i] = d[4 + i]
           /\ SubSeq(d, 1, 4) \in Seq(Byte) /\ SubSeq(d, 5, 6) \in Seq(Byte)
<1>1. 0 + 4 <= 48 + n /\ 4 + 2 <= 48 + n /\ 6 + 2 <= 48 + n
  OBVIOUS
<1>2. /\ SubSeq(d, 0 + 1, 0 + 4) \in Seq(Byte) /\ Len(SubSeq(d, 0 + 1, 0 + 4)) = 4
      /\ \A i \in 1..4 : SubSeq(d, 0 + 1, 0 + 4)[i] = d[0 + i]
  BY <1>1, Slice
<1>3. /\ SubSeq(d, 4 + 1, 4 + 2) \in Seq(Byte) /\ Len(SubSeq(d, 4 + 1, 4 + 2)) = 2
      /\ \A i \in 1..2 : SubSeq(d, 4 + 1, 4 + 2)[i] = d[4 + i]
  BY <1>1, Slice
<1>4. \A i \in 1..2 : SubSeq(d, 6 + 1, 6 + 2)[i] = d[6 + i]
  BY <1>1, Slice
<1>5. /\ 0 + 1 = 1 /\ 0 + 4 = 4 /\ \A i \in 1..4 : 0 + i = i
      /\ 4 + 1 = 5 /\ 4 + 2 = 6 /\ 6 + 1 = 7 /\ 6 + 2 = 8 /\ 1 \in 1..2 /\ 2 \in 1..2
  OBVIOUS
<1>6. SubSeq(d, 7, 8)[1] = d[7] /\ SubSeq(d, 7, 8)[2] = d[8]
  BY <1>4, <1>5
<1>7. Announced(d) = Pair(d[7], d[8])
  BY <1>6 DEF Announced, Value16, Pair
<1> QED
  BY <1>2, <1>3, <1>5, <1>7

\* What a frame that is taken has in its bytes.
LEMMA SoundBytes ==
    ASSUME NEW d \in Seq(Byte), Sound(d)
    PROVE  \E n \in 0..256 :
              /\ Len(d) = 48 + n /\ Pair(d[7], d[8]) = n
              /\ \A i \in 1..4 : d[i] = MAGIC_BYTES[i]
              /\ \A i \in 1..2 : d[4 + i] = PROTOCOL_VERSION[i]
              /\ SubSeq(d, (44 + n) + 1, (44 + n) + 4) = crc32(SubSeq(d, 0 + 1, 0 + (44 + n)))
<1> DEFINE len == Len(d)
           k == len - 48
           n == Pair(d[7], d[8])
<1>1. len \in Nat
  OBVIOUS
<1>2. ~(len < 48)
  BY Sizes DEF Sound
<1> HIDE DEF len
<1>3. k \in Nat /\ len = 48 + k
  BY <1>1, <1>2
<1> HIDE DEF k
<1>4. Len(d) = 48 + k
  BY <1>3 DEF len
<1>5. Announced(d) = n
  BY <1>3, <1>4, FirstBytes
<1>6. d[7] \in Byte /\ d[8] \in Byte
  <2>1. 7 \in 1..len /\ 8 \in 1..len
    BY <1>3
  <2> QED
    BY <2>1 DEF len
<1>7. n \in Nat
  BY <1>6, Pairs
<1>8. /\ \A i \in 1..4 : d[i] = MAGIC_BYTES[i]
      /\ \A i \in 1..2 : d[4 + i] = PROTOCOL_VERSION[i]
  <2>1. SubSeq(d, 1, 4) = MAGIC_BYTES /\ SubSeq(d, 5, 6) = PROTOCOL_VERSION
    BY DEF Sound
  <2>2. /\ \A i \in 1..4 : SubSeq(d, 1, 4)[i] = d[i]
        /\ \A i \in 1..2 : SubSeq(d, 5, 6)[i] = d[4 + i]
    BY <1>3, <1>4, FirstBytes
  <2> QED
    BY <2>1, <2>2
<1> HIDE DEF n
<1>9. Total(d) = 48 + n
  BY <1>5, Sizes DEF Total
<1>10. ~(n > 256) /\ ~(len < 48 + n) /\ ~(len > 48 + n)
  BY <1>5, <1>9, Sizes DEF Sound, len
<1>11. n \in 0..256 /\ len = 48 + n
  BY <1>1, <1>7, <1>10
<1>12. /\ 48 + n - 3 = (44 + n) + 1 /\ 48 + n = (44 + n) + 4
       /\ 48 + n - 4 = 0 + (44 + n) /\ 0 + 1 = 1
  BY <1>7
<1>13. SubSeq(d, 48 + n - 3, 48 + n) = crc32(SubSeq(d, 1, 48 + n - 4))
  <2>1. SubSeq(d, Total(d) - 3, Total(d)) = crc32(SubSeq(d, 1, Total(d) - 4))
    BY Zenon DEF Sound
  <2> QED
    BY <1>7, <1>9, <2>1
<1>14. SubSeq(d, (44 + n) + 1, (44 + n) + 4) = crc32(SubSeq(d, 0 + 1, 0 + (44 + n)))
  BY <1>12, <1>13
<1> QED
  BY <1>8, <1>11, <1>14 DEF n, len

\* The sizes in a frame with n bytes of payload are within the bounds.
LEMMA SizeBounds ==
    ASSUME NEW n \in 0..256
    PROVE  /\ ~(48 + n < 48) /\ ~(n > 256) /\ ~(48 + n < 48 + n) /\ ~(48 + n > 48 + n)
           /\ 48 + n - 3 = (44 + n) + 1 /\ 48 + n = (44 + n) + 4
           /\ 48 + n - 4 = 0 + (44 + n) /\ 0 + 1 = 1
  OBVIOUS

\* Bytes that make a frame that is taken.
LEMMA BytesSound ==
    ASSUME NEW d \in Seq(Byte), NEW n \in 0..256, Len(d) = 48 + n, Pair(d[7], d[8]) = n,
           \A i \in 1..4 : d[i] = MAGIC_BYTES[i],
           \A i \in 1..2 : d[4 + i] = PROTOCOL_VERSION[i],
           SubSeq(d, (44 + n) + 1, (44 + n) + 4) = crc32(SubSeq(d, 0 + 1, 0 + (44 + n))),
           NEW v \in Verbs, SubSeq(d, 41, 44) = LittleEndian(v, 4)
    PROVE  Sound(d) /\ Announced(d) = n
<1>1. n \in Nat
  OBVIOUS
<1>2. /\ Announced(d) = Pair(d[7], d[8])
      /\ Len(SubSeq(d, 1, 4)) = 4 /\ \A i \in 1..4 : SubSeq(d, 1, 4)[i] = d[i]
      /\ Len(SubSeq(d, 5, 6)) = 2 /\ \A i \in 1..2 : SubSeq(d, 5, 6)[i] = d[4 + i]
      /\ SubSeq(d, 1, 4) \in Seq(Byte) /\ SubSeq(d, 5, 6) \in Seq(Byte)
  BY <1>1, FirstBytes
<1>3. /\ MAGIC_BYTES \in Seq(Byte) /\ Len(MAGIC_BYTES) = 4
      /\ PROTOCOL_VERSION \in Seq(Byte) /\ Len(PROTOCOL_VERSION) = 2
  BY DEF MAGIC_BYTES, PROTOCOL_VERSION, Byte
<1>4. SubSeq(d, 1, 4) = MAGIC_BYTES
  <2> DEFINE q == SubSeq(d, 1, 4)
  <2> HIDE DEF q
  <2>1. q \in Seq(Byte) /\ Len(q) = Len(MAGIC_BYTES) /\ \A i \in 1..Len(q) : q[i] = MAGIC_BYTES[i]
    BY <1>2, <1>3 DEF q
  <2>2. q = MAGIC_BYTES
    BY <1>3, <2>1, SeqEqual
  <2> QED
    BY <2>2 DEF q
<1>5. SubSeq(d, 5, 6) = PROTOCOL_VERSION
  <2> DEFINE q == SubSeq(d, 5, 6)
  <2> HIDE DEF q
  <2>1. /\ q \in Seq(Byte) /\ Len(q) = Len(PROTOCOL_VERSION)
        /\ \A i \in 1..Len(q) : q[i] = PROTOCOL_VERSION[i]
    BY <1>2, <1>3 DEF q
  <2>2. q = PROTOCOL_VERSION
    BY <1>3, <2>1, SeqEqual
  <2> QED
    BY <2>2 DEF q
<1>6. Announced(d) = n /\ Total(d) = 48 + n
  <2>1. Announced(d) = n
    BY <1>2, Zenon
  <2>2. Total(d) = 48 + Announced(d)
    BY Sizes, Zenon DEF Total
  <2> QED
    BY <2>1, <2>2, Zenon
<1>7. ~(48 + n < 48) /\ ~(n > 256) /\ ~(48 + n < 48 + n) /\ ~(48 + n > 48 + n)
  BY SizeBounds, ZenonT(60)
<1>8. /\ 48 + n - 3 = (44 + n) + 1 /\ 48 + n = (44 + n) + 4
      /\ 48 + n - 4 = 0 + (44 + n) /\ 0 + 1 = 1
  BY SizeBounds, ZenonT(60)
<1>9. SubSeq(d, 48 + n - 3, 48 + n) = crc32(SubSeq(d, 1, 48 + n - 4))
  BY <1>8
<1>10. Sound(d)
  <2>1. SubSeq(d, Total(d) - 3, Total(d)) = crc32(SubSeq(d, 1, Total(d) - 4))
    BY <1>1, <1>6, <1>9
  <2>2. ~(Len(d) < MIN_FRAME_SIZE)
    BY <1>7, Sizes
  <2>3. ~(Announced(d) > MAX_PAYLOAD_LEN)
    BY <1>6, <1>7, Sizes
  <2>4. ~(Len(d) < Total(d)) /\ ~(Len(d) > Total(d))
    <3>1. Len(d) = Total(d)
      BY <1>6
    <3>2. Total(d) \in Int
      BY <1>1, <1>6
    <3> QED
      BY <3>1, <3>2
  <2> QED
    BY <1>4, <1>5, <2>1, <2>2, <2>3, <2>4, Zenon DEF Sound
<1> QED
  BY <1>6, <1>10

\* Sums of sizes in a frame with n bytes of payload.
LEMMA FrameSizes ==
    ASSUME NEW n \in 0..256
    PROVE  /\ n \in Nat /\ 44 + n \in Nat
           /\ 0 + (44 + n) <= 48 + n /\ (44 + n) + 4 <= 48 + n
           /\ 8 + 32 <= 48 + n /\ 40 + 4 <= 48 + n /\ 44 + n <= 48 + n
  OBVIOUS

\* What the slices of a frame are.
Parts(f, n, w) ==
    /\ n \in 0..256 /\ w \in Seq(Byte) /\ Len(w) = 48 + n /\ Pair(w[7], w[8]) = n
    /\ \A i \in 1..4 : w[i] = MAGIC_BYTES[i]
    /\ \A i \in 1..2 : w[4 + i] = PROTOCOL_VERSION[i]
    /\ SubSeq(w, 0 + 1, 0 + (44 + n)) = Body(f) /\ Body(f) \in Seq(Byte)
    /\ SubSeq(w, (44 + n) + 1, (44 + n) + 4) = crc32(Body(f))
    /\ SubSeq(w, 8 + 1, 8 + 32) = f.token
    /\ SubSeq(w, 40 + 1, 40 + 4) = LittleEndian(f.verb, 4)
    /\ SubSeq(w, 44 + 1, 44 + n) = f.payload

\* The slices of a frame that was written are its fields.
LEMMA FrameBytes ==
    ASSUME NEW f \in Sendable
    PROVE  Parts(f, Len(f.payload), serialize(f))
<1> SUFFICES ASSUME NEW n, n = Len(f.payload), NEW w, w = serialize(f) PROVE Parts(f, n, w)
  OBVIOUS
<1> DEFINE h == Header(f)
           body == Body(f)
           crc == crc32(body)
<1>1. /\ n \in 0..256 /\ w \in Seq(Byte) /\ Len(w) = 48 + n
      /\ body \in Seq(Byte) /\ Len(body) = 44 + n
      /\ crc \in Seq(Byte) /\ Len(crc) = 4
      /\ \A i \in 1..(44 + n) : w[i] = body[i]
      /\ \A i \in 1..44 : w[i] = h[i]
      /\ \A i \in 1..n : w[44 + i] = f.payload[i]
      /\ \A i \in 1..4 : w[44 + n + i] = crc[i]
  <2>1. Layout(f, n, w)
    BY FrameLayout, Zenon
  <2> QED
    BY <2>1, Zenon DEF Layout
<1>2. /\ h \in Seq(Byte) /\ Len(h) = 44
      /\ \A i \in 1..4 : h[i] = MAGIC_BYTES[i]
      /\ \A i \in 1..2 : h[4 + i] = PROTOCOL_VERSION[i]
      /\ \A i \in 1..2 : h[6 + i] = LittleEndian(Len(f.payload), 2)[i]
      /\ \A i \in 1..32 : h[8 + i] = f.token[i]
      /\ \A i \in 1..4 : h[40 + i] = LittleEndian(f.verb, 4)[i]
  BY HeaderLayout
<1>3. /\ f.token \in Seq(Byte) /\ f.payload \in Seq(Byte) /\ Len(f.token) = 32
      /\ Len(f.payload) \in Short /\ f.verb \in Short
  BY SendableFields
<1> HIDE DEF h, body, crc
<1>4. /\ \A i \in 1..4 : i \in 1..44
      /\ \A i \in 1..2 : 4 + i \in 1..44 /\ 6 + i \in 1..44
      /\ \A i \in 1..32 : 8 + i \in 1..44
      /\ \A i \in 1..4 : 40 + i \in 1..44
  OBVIOUS
<1>5. /\ \A i \in 1..4 : w[i] = MAGIC_BYTES[i]
      /\ \A i \in 1..2 : w[4 + i] = PROTOCOL_VERSION[i]
  BY <1>1, <1>2, <1>4, ZenonT(60)
<1>6. /\ \A i \in 1..2 : w[6 + i] = LittleEndian(n, 2)[i]
  BY <1>1, <1>2, <1>4
<1>7. Pair(w[7], w[8]) = n
  <2>1. w[6 + 1] = LittleEndian(n, 2)[1] /\ w[6 + 2] = LittleEndian(n, 2)[2]
    BY <1>6
  <2>2. 6 + 1 = 7 /\ 6 + 2 = 8
    OBVIOUS
  <2>3. LittleEndian(n, 2)[1] + 256 * LittleEndian(n, 2)[2] = n
    BY <1>3, LittleEndianValue
  <2>4. Pair(LittleEndian(n, 2)[1], LittleEndian(n, 2)[2]) = n
    BY <2>3 DEF Pair
  <2> QED
    BY <2>1, <2>2, <2>4
<1>8. \A i \in 1..32 : w[8 + i] = f.token[i]
  BY <1>1, <1>2, <1>4, Zenon
<1>9. \A i \in 1..4 : w[40 + i] = LittleEndian(f.verb, 4)[i]
  BY <1>1, <1>2, <1>4, Zenon
<1>10. n \in Nat /\ 44 + n \in Nat
  BY <1>1, FrameSizes
<1>11. /\ 0 + (44 + n) <= 48 + n /\ (44 + n) + 4 <= 48 + n
       /\ 8 + 32 <= 48 + n /\ 40 + 4 <= 48 + n /\ 44 + n <= 48 + n
  <2>1. n \in 0..256
    BY <1>1
  <2> QED
    BY <2>1, FrameSizes, ZenonT(60)
<1>12. SubSeq(w, 0 + 1, 0 + (44 + n)) = body
  <2>1. \A i \in 1..(44 + n) : w[0 + i] = body[i]
    <3>1. \A i \in 1..(44 + n) : 0 + i = i
      BY <1>10
    <3>2. \A i \in 1..(44 + n) : w[i] = body[i]
      BY <1>1, Zenon
    <3> QED
      BY <3>1, <3>2
  <2>2. 0 \in Nat /\ 0 + (44 + n) <= Len(w)
    BY <1>1, <1>11
  <2> QED
    BY <1>1, <1>10, <2>1, <2>2, SliceIs, ZenonT(60)
<1>13. SubSeq(w, (44 + n) + 1, (44 + n) + 4) = crc
  <2>1. 4 \in Nat /\ (44 + n) + 4 <= Len(w)
    BY <1>1, <1>11
  <2> QED
    BY <1>1, <1>10, <2>1, SliceIs, ZenonT(60)
<1>14. SubSeq(w, 8 + 1, 8 + 32) = f.token
  <2>1. 8 \in Nat /\ 32 \in Nat /\ 8 + 32 <= Len(w)
    BY <1>1, <1>11
  <2> QED
    BY <1>1, <1>3, <1>8, <2>1, SliceIs, ZenonT(60)
<1>15. SubSeq(w, 40 + 1, 40 + 4) = LittleEndian(f.verb, 4)
  <2>1. 40 \in Nat /\ 4 \in Nat /\ 40 + 4 <= Len(w)
    BY <1>1, <1>11
  <2>2. LittleEndian(f.verb, 4) \in Seq(Byte) /\ Len(LittleEndian(f.verb, 4)) = 4
    BY <1>3, <2>1, LittleEndianType
  <2> QED
    BY <1>1, <1>9, <2>1, <2>2, SliceIs, ZenonT(60)
<1>16. SubSeq(w, 44 + 1, 44 + n) = f.payload
  <2>1. 44 \in Nat /\ 44 + n <= Len(w) /\ n \in Nat
    BY <1>1, <1>10, <1>11
  <2>2. f.payload \in Seq(Byte) /\ Len(f.payload) = n /\ \A i \in 1..n : w[44 + i] = f.payload[i]
    BY <1>1, <1>3
  <2>3. w \in Seq(Byte)
    BY <1>1
  <2> QED
    BY <2>1, <2>2, <2>3, SliceIs
<1> QED
  BY <1>1, <1>5, <1>7, <1>12, <1>13, <1>14, <1>15, <1>16 DEF Parts, body, crc

\* A frame is read back as it was sent.
LEMMA FrameIntact ==
    ASSUME NEW f \in Sendable
    PROVE  deserialize(serialize(f)) = f
<1> DEFINE n == Len(f.payload)
           w == serialize(f)
           body == Body(f)
           verb == LittleEndian(f.verb, 4)
<1>1. /\ n \in 0..256 /\ w \in Seq(Byte) /\ Len(w) = 48 + n /\ Pair(w[7], w[8]) = n
      /\ \A i \in 1..4 : w[i] = MAGIC_BYTES[i]
      /\ \A i \in 1..2 : w[4 + i] = PROTOCOL_VERSION[i]
      /\ SubSeq(w, 0 + 1, 0 + (44 + n)) = body
      /\ SubSeq(w, (44 + n) + 1, (44 + n) + 4) = crc32(body)
      /\ SubSeq(w, 8 + 1, 8 + 32) = f.token
      /\ SubSeq(w, 40 + 1, 40 + 4) = verb
      /\ SubSeq(w, 44 + 1, 44 + n) = f.payload
  <2>1. Parts(f, n, w)
    BY FrameBytes, Zenon
  <2> QED
    BY <2>1, Zenon DEF Parts
<1>2. f.verb \in 1..5 /\ f.verb \in Verbs /\ f.verb \in Short
  BY SendableFields DEF Verbs
<1> HIDE DEF n, w, body
<1>3. 8 + 1 = 9 /\ 8 + 32 = 40 /\ 40 + 1 = 41 /\ 40 + 4 = 44 /\ 44 + 1 = 45
  OBVIOUS
<1>4. SubSeq(w, 41, 44) = verb /\ SubSeq(w, 9, 40) = f.token /\ SubSeq(w, 45, 44 + n) = f.payload
  BY <1>1, <1>3, Zenon
<1>5. Sound(w) /\ Announced(w) = n
  BY <1>1, <1>2, <1>4, BytesSound, Zenon
<1>6. verb[1] = f.verb
  <2>1. verb[1] = f.verb % 256
    BY <1>2, LittleEndianValue
  <2>2. f.verb % 256 = f.verb
    BY <1>2
  <2> QED
    BY <2>1, <2>2
<1>7. deserialize(w) = [token |-> SubSeq(w, 9, 40), verb |-> SubSeq(w, 41, 44)[1],
                        payload |-> SubSeq(w, 45, 44 + Announced(w))]
  BY <1>5, Verdict, Zenon
<1> HIDE DEF verb
<1>8. deserialize(w) = [token |-> f.token, verb |-> f.verb, payload |-> f.payload]
  BY <1>4, <1>5, <1>6, <1>7, Zenon
<1>9. f = [token |-> f.token, verb |-> f.verb, payload |-> f.payload]
  BY DEF Sendable
<1> QED
  BY <1>8, <1>9 DEF w

\* d is w cut or lengthened, or w with one byte changed.
Resized(w, d) == Len(d) # Len(w) /\ \A i \in 1..Len(w) : i <= Len(d) => d[i] = w[i]
OneChanged(w, d) ==
    /\ Len(d) = Len(w)
    /\ \E p \in 1..Len(w) : d[p] # w[p] /\ \A i \in 1..Len(w) : i # p => d[i] = w[i]

\* What transmission does to bytes: another length with the same beginning, or one byte
\* changed.
LEMMA AlteredBytes ==
    ASSUME NEW w \in Seq(Byte), w # <<>>, NEW d \in Altered(w)
    PROVE  d \in Seq(Byte) /\ (Resized(w, d) \/ OneChanged(w, d))
<1>0. Len(w) \in Nat /\ Len(w) > 0
  OBVIOUS
<1>1. CASE d \in {SubSeq(w, 1, n) : n \in 0..(Len(w) - 1)}
  <2>1. PICK n \in 0..(Len(w) - 1) : d = SubSeq(w, 1, n)
    BY <1>1
  <2>2. 0 \in Nat /\ n \in Nat /\ 0 + n <= Len(w) /\ 0 + 1 = 1 /\ 0 + n = n /\ n # Len(w)
    BY <1>0
  <2>3. /\ SubSeq(w, 0 + 1, 0 + n) \in Seq(Byte) /\ Len(SubSeq(w, 0 + 1, 0 + n)) = n
        /\ \A i \in 1..n : SubSeq(w, 0 + 1, 0 + n)[i] = w[0 + i]
    BY <2>2, Slice, Zenon
  <2>4. d \in Seq(Byte) /\ Len(d) = n /\ \A i \in 1..n : d[i] = w[0 + i]
    BY <2>1, <2>2, <2>3
  <2>5. \A i \in 1..Len(w) : i <= n => i \in 1..n /\ 0 + i = i
    BY <1>0, <2>2
  <2> QED
    BY <2>2, <2>4, <2>5 DEF Resized
<1>2. CASE d \in {Append(w, b) : b \in {0, 10, 49}}
  <2>1. PICK b \in {0, 10, 49} : d = Append(w, b)
    BY <1>2
  <2>2. b \in Byte
    BY DEF Byte
  <2>3. d \in Seq(Byte) /\ Len(d) = Len(w) + 1 /\ \A i \in 1..Len(w) : d[i] = w[i]
    BY <2>1, <2>2
  <2>4. Len(w) + 1 # Len(w)
    BY <1>0
  <2> QED
    BY <2>3, <2>4 DEF Resized
<1>3. CASE d = w \o w
  <2>1. d \in Seq(Byte) /\ Len(d) = Len(w) + Len(w) /\ \A i \in 1..Len(w) : d[i] = w[i]
    BY <1>3, Joined
  <2>2. Len(w) + Len(w) # Len(w)
    BY <1>0
  <2> QED
    BY <2>1, <2>2 DEF Resized
<1>4. CASE d \in {[w EXCEPT ![i] = (@ + s) % 256] : i \in DOMAIN w, s \in Flips}
  <2>1. PICK p \in DOMAIN w, s \in Flips : d = [w EXCEPT ![p] = (w[p] + s) % 256]
    BY <1>4
  <2> DEFINE b == (w[p] + s) % 256
  <2>2. p \in 1..Len(w) /\ w[p] \in Byte
    OBVIOUS
  <2>3. b \in Byte /\ b # w[p]
    <3>1. s \in 1..255
      BY IpcCodecAssumption
    <3>2. ASSUME NEW x \in 0..255, NEW y \in 1..255
          PROVE  (x + y) % 256 \in 0..255 /\ (x + y) % 256 # x
      <4>1. CASE x + y < 256
        <5>1. (x + y) % 256 = x + y
          BY <4>1
        <5> QED
          BY <4>1, <5>1
      <4>2. CASE ~(x + y < 256)
        <5>1. (x + y) % 256 = x + y - 256
          BY <4>2
        <5> QED
          BY <4>2, <5>1
      <4> QED
        BY <4>1, <4>2
    <3> QED
      BY <2>2, <3>1, <3>2 DEF Byte
  <2> HIDE DEF b
  <2>4. d = [w EXCEPT ![p] = b]
    BY <2>1 DEF b
  <2>5. d \in Seq(Byte) /\ Len(d) = Len(w) /\ d[p] = b /\ \A i \in 1..Len(w) : i # p => d[i] = w[i]
    BY <2>2, <2>3, <2>4
  <2> QED
    BY <2>2, <2>3, <2>5, Zenon DEF OneChanged
<1> QED
  <2> DEFINE cut == {SubSeq(w, 1, n) : n \in 0..(Len(w) - 1)}
             longer == {Append(w, b) : b \in {0, 10, 49}}
             changed == {[w EXCEPT ![i] = (@ + s) % 256] : i \in DOMAIN w, s \in Flips}
  <2>1. Altered(w) = cut \cup longer \cup {w \o w} \cup changed
    BY DEF Altered
  <2> HIDE DEF cut, longer, changed
  <2>2. d \in cut \/ d \in longer \/ d = w \o w \/ d \in changed
    BY <2>1
  <2> QED
    BY <1>1, <1>2, <1>3, <1>4, <2>2 DEF cut, longer, changed

\* An altered frame is rejected: another length than the one its header announces, or a
\* checksum that is not that of the body, whichever side the changed byte is on.
LEMMA FrameAltered ==
    ASSUME NEW f \in Sendable, NEW d \in Altered(serialize(f))
    PROVE  Rejected(deserialize(d))
<1> DEFINE n == Len(f.payload)
           w == serialize(f)
           body == Body(f)
<1>1. /\ n \in 0..256 /\ w \in Seq(Byte) /\ Len(w) = 48 + n /\ Pair(w[7], w[8]) = n
      /\ SubSeq(w, 0 + 1, 0 + (44 + n)) = body
      /\ SubSeq(w, (44 + n) + 1, (44 + n) + 4) = crc32(body)
  <2>1. Parts(f, n, w)
    BY FrameBytes, Zenon
  <2> QED
    BY <2>1, Zenon DEF Parts
<1>2. d \in Altered(w)
  OBVIOUS
<1> HIDE DEF n, w, body
<1>3. /\ n \in Nat /\ 44 + n \in Nat
      /\ 0 + (44 + n) <= 48 + n /\ (44 + n) + 4 <= 48 + n
  BY <1>1, FrameSizes
<1>4. d \in Seq(Byte) /\ (Resized(w, d) \/ OneChanged(w, d))
  <2>1. Len(<<>>) = 0 /\ 48 + n # 0
    BY <1>3
  <2>2. w # <<>>
    BY <1>1, <2>1
  <2> QED
    BY <1>1, <1>2, <2>2, AlteredBytes, Zenon
<1> SUFFICES ASSUME Sound(d) PROVE FALSE
  BY Verdict, Zenon DEF w
<1>5. PICK m \in 0..256 :
          /\ Len(d) = 48 + m /\ Pair(d[7], d[8]) = m
          /\ \A i \in 1..4 : d[i] = MAGIC_BYTES[i]
          /\ \A i \in 1..2 : d[4 + i] = PROTOCOL_VERSION[i]
          /\ SubSeq(d, (44 + m) + 1, (44 + m) + 4) = crc32(SubSeq(d, 0 + 1, 0 + (44 + m)))
  BY <1>4, SoundBytes, ZenonT(60)
<1>6. CASE Resized(w, d)
  <2>1. 7 \in 1..(48 + n) /\ 8 \in 1..(48 + n) /\ 7 <= 48 + m /\ 8 <= 48 + m
    BY <1>3
  <2>2. d[7] = w[7] /\ d[8] = w[8]
    BY <1>1, <1>5, <1>6, <2>1 DEF Resized
  <2> QED
    BY <1>1, <1>5, <1>6, <2>2 DEF Resized
<1>7. CASE OneChanged(w, d)
  <2>1. Len(d) = 48 + n /\ m = n
    <3>1. 48 + m = 48 + n
      BY <1>1, <1>5, <1>7 DEF OneChanged
    <3>2. m \in Nat
      OBVIOUS
    <3>3. m = n
      BY <1>3, <3>1, <3>2
    <3> QED
      BY <1>5, <3>1, <3>3
  <2> DEFINE part == SubSeq(d, 0 + 1, 0 + (44 + n))
             trailer == SubSeq(d, (44 + n) + 1, (44 + n) + 4)
             sent == SubSeq(w, (44 + n) + 1, (44 + n) + 4)
  <2>2. trailer = crc32(part) /\ sent = crc32(body)
    BY <1>1, <1>5, <2>1
  <2>3. 0 \in Nat /\ 4 \in Nat
    OBVIOUS
  <2>4. /\ part \in Seq(Byte) /\ Len(part) = 44 + n
        /\ \A i \in 1..(44 + n) : part[i] = d[0 + i]
    BY <1>3, <1>4, <2>1, <2>3, Slice
  <2>5. \A i \in 1..4 : trailer[i] = d[(44 + n) + i]
    BY <1>3, <1>4, <2>1, <2>3, Slice
  <2>6. /\ body \in Seq(Byte) /\ Len(body) = 44 + n
        /\ \A i \in 1..(44 + n) : body[i] = w[0 + i]
    <3>1. /\ SubSeq(w, 0 + 1, 0 + (44 + n)) \in Seq(Byte)
          /\ Len(SubSeq(w, 0 + 1, 0 + (44 + n))) = 44 + n
          /\ \A i \in 1..(44 + n) : SubSeq(w, 0 + 1, 0 + (44 + n))[i] = w[0 + i]
      BY <1>1, <1>3, <2>3, Slice
    <3> QED
      BY <1>1, <3>1
  <2>7. sent \in Seq(Byte) /\ Len(sent) = 4 /\ \A i \in 1..4 : sent[i] = w[(44 + n) + i]
    BY <1>1, <1>3, <2>3, Slice
  <2>8. PICK p \in 1..(48 + n) : d[p] # w[p] /\ \A i \in 1..(48 + n) : i # p => d[i] = w[i]
    BY <1>1, <1>7 DEF OneChanged
  <2> HIDE DEF part, trailer, sent
  <2>9. \A i \in 1..(44 + n) : 0 + i = i /\ i \in 1..(48 + n)
    BY <1>3
  <2>10. \A i \in 1..4 : (44 + n) + i \in 1..(48 + n)
    BY <1>3
  <2>11. CASE p \in 1..(44 + n)
    <3>1. part[p] # body[p] /\ \A i \in 1..(44 + n) : i # p => part[i] = body[i]
      BY <2>4, <2>6, <2>8, <2>9, <2>11
    <3>2. crc32(part) # crc32(body)
      BY <2>4, <2>6, <2>11, <3>1, CrcDetects
    <3>3. \A i \in 1..4 : (44 + n) + i # p
      BY <1>3, <2>11
    <3>4. \A i \in 1..4 : d[(44 + n) + i] = sent[i]
      BY <2>7, <2>8, <2>10, <3>3
    <3>5. trailer = sent
      <4>1. (44 + n) + 4 <= Len(d)
        BY <1>3, <2>1
      <4> QED
        BY <1>3, <1>4, <2>3, <2>7, <3>4, <4>1, SliceIs, ZenonT(60) DEF trailer
    <3> QED
      BY <2>2, <3>2, <3>5
  <2>12. CASE p \notin 1..(44 + n)
    <3>1. \A i \in 1..(44 + n) : part[i] = body[i]
      BY <2>4, <2>6, <2>8, <2>9, <2>12
    <3>2. part = body
      BY <2>4, <2>6, <3>1, SeqEqual
    <3>3. \A i \in 1..4 : d[(44 + n) + i] = w[(44 + n) + i]
      BY <2>2, <2>5, <2>7, <3>2
    <3>4. \E i \in 1..4 : p = (44 + n) + i
      <4>1. p - (44 + n) \in 1..4 /\ p = (44 + n) + (p - (44 + n))
        BY <1>3, <2>12
      <4> QED
        BY <4>1
    <3> QED
      BY <2>8, <3>3, <3>4
  <2> QED
    BY <2>11, <2>12
<1> QED
  BY <1>4, <1>6, <1>7

-----------------------------------------------------------------------------
(* The wire formats: token files.                                          *)

\* A token has 32 bytes.
LEMMA TokenBytes ==
    ASSUME NEW t \in Tokens
    PROVE  t \in Seq(Byte) /\ Len(t) = 32
<1>1. t \in [1..32 -> Byte]
  BY IpcCodecAssumption DEF TOKEN_LEN
<1>2. 32 \in Nat
  OBVIOUS
<1> QED
  BY <1>1, <1>2, FunctionIsSequence, ZenonT(60)

\* What new gives out is a frame to send, unless it is an error.
LEMMA SentFrames ==
    ASSUME NEW g \in Frames, "payload" \in DOMAIN g
    PROVE  g \in Sendable
<1>1. PICK t \in Tokens, v \in Verbs, p \in Payloads : g = new(t, v, p)
  BY DEF Frames
<1>2. p \in Seq(Byte)
  BY IpcCodecAssumption
<1>3. Len(p) \in Nat
  BY <1>2
<1>4. CASE Len(p) > MAX_PAYLOAD_LEN
  <2>1. g = IpcError("PayloadTooLarge", LittleEndian(Len(p), 8), <<>>)
    BY <1>1, <1>4, Zenon DEF new
  <2>2. \A name, primary, second : "payload" \notin DOMAIN IpcError(name, primary, second)
    BY DEF IpcError
  <2> QED
    BY <2>1, <2>2, Zenon
<1>5. CASE ~(Len(p) > MAX_PAYLOAD_LEN)
  <2>1. g = [token |-> t, verb |-> v, payload |-> p]
    BY <1>1, <1>5, Zenon DEF new
  <2>2. t \in Seq(Byte) /\ Len(t) = 32
    BY TokenBytes, Zenon
  <2>3. Len(p) <= 256
    BY <1>3, <1>5 DEF MAX_PAYLOAD_LEN
  <2> QED
    BY <1>2, <2>1, <2>2, <2>3 DEF Sendable, Verbs
<1> QED
  BY <1>4, <1>5

\* A digit tells its number, and is no line end.
LEMMA Nibble ==
    /\ \A n \in 0..15 : hex_nibble(Digits[n]) = n
    /\ \A c \in Nibbles : hex_nibble(c) \in 0..15 /\ Digits[hex_nibble(c)] = c
    /\ \A n \in 0..15 : Digits[n] \in Nibbles
    /\ Nibbles \subseteq Byte /\ Nibbles \cap LineEnds = {}
<1>1. \A n \in 0..15 : Digits[n] = IF n < 10 THEN 48 + n ELSE 87 + n
  BY DEF Digits
<1>2. \A m, n \in 0..15 : Digits[m] = Digits[n] => m = n
  BY <1>1
<1>3. \A n \in 0..15 : hex_nibble(Digits[n]) = n
  <2> TAKE n \in 0..15
  <2>1. \E k \in 0..15 : Digits[k] = Digits[n]
    OBVIOUS
  <2>2. hex_nibble(Digits[n]) \in 0..15 /\ Digits[hex_nibble(Digits[n])] = Digits[n]
    BY <2>1 DEF hex_nibble
  <2> QED
    BY <1>2, <2>2
<1>4. \A n \in 0..15 : Digits[n] \in Nibbles
  BY DEF Nibbles
<1>5. \A c \in Nibbles : \E n \in 0..15 : c = Digits[n]
  BY DEF Nibbles
<1>6. \A c \in Nibbles : hex_nibble(c) \in 0..15 /\ Digits[hex_nibble(c)] = c
  BY <1>3, <1>5
<1>7. \A n \in 0..15 : Digits[n] \in Byte /\ Digits[n] \notin LineEnds
  BY <1>1 DEF Byte, LineEnds
<1> QED
  BY <1>3, <1>4, <1>5, <1>6, <1>7

\* A byte is its two halves.
LEMMA Halves ==
    /\ \A x \in Byte : x \div 16 \in 0..15 /\ x % 16 \in 0..15 /\ 16 * (x \div 16) + (x % 16) = x
    /\ \A a, b \in 0..15 : /\ 16 * a + b \in Byte
                           /\ (16 * a + b) \div 16 = a /\ (16 * a + b) % 16 = b
<1>1. ASSUME NEW x \in 0..255
      PROVE  x \div 16 \in 0..15 /\ x % 16 \in 0..15 /\ 16 * (x \div 16) + (x % 16) = x
  OBVIOUS
<1>2. ASSUME NEW a \in 0..15, NEW b \in 0..15
      PROVE  /\ 16 * a + b \in 0..255
             /\ (16 * a + b) \div 16 = a /\ (16 * a + b) % 16 = b
  OBVIOUS
<1> QED
  BY <1>1, <1>2 DEF Byte

\* Each byte is written as two digits.
LEMMA HexDigits ==
    ASSUME NEW t \in Seq(Byte), Len(t) = 32
    PROVE  /\ to_hex(t) \in [1..64 -> Nibbles]
           /\ \A i \in 1..32 : /\ to_hex(t)[2 * i - 1] = Digits[t[i] \div 16]
                               /\ to_hex(t)[2 * i] = Digits[t[i] % 16]
<1> DEFINE digit(i) == LET byte == t[(i + 1) \div 2]
                       IN Digits[IF i % 2 = 1 THEN byte \div 16 ELSE byte % 16]
<1>1. to_hex(t) = [i \in 1..64 |-> digit(i)]
  <2>1. 2 * 32 = 64
    OBVIOUS
  <2> QED
    BY <2>1 DEF to_hex
<1>2. \A i \in 1..64 : (i + 1) \div 2 \in 1..32
  <2> TAKE i \in 1..64
  <2>1. i + 1 \in Nat /\ 2 <= i + 1 /\ i + 1 <= 65
    OBVIOUS
  <2> QED
    BY <2>1
<1>3. \A i \in 1..32 : t[i] \in Byte
  BY ElementOfSeq, Zenon
<1>4. \A i \in 1..64 : digit(i) \in Nibbles
  BY <1>2, <1>3, Halves, Nibble
<1>5. \A i \in 1..32 : /\ 2 * i - 1 \in 1..64 /\ 2 * i \in 1..64
                       /\ ((2 * i - 1) + 1) \div 2 = i /\ (2 * i - 1) % 2 = 1
                       /\ (2 * i + 1) \div 2 = i /\ (2 * i) % 2 = 0
  OBVIOUS
<1>6. \A i \in 1..32 : digit(2 * i - 1) = Digits[t[i] \div 16] /\ digit(2 * i) = Digits[t[i] % 16]
  BY <1>5
<1> HIDE DEF digit
<1> QED
  BY <1>1, <1>4, <1>5, <1>6

\* A set of positions has a greatest.
LEMMA GreatestIndex ==
    ASSUME NEW n \in Nat, NEW K \in SUBSET (1..n), K # {}
    PROVE  Max(K) \in K /\ \A k \in K : k <= Max(K)
<1> DEFINE T == {n - k : k \in K}
<1>1. T \subseteq Nat /\ T # {}
  <2>1. \A k \in K : n - k \in Nat
    OBVIOUS
  <2> QED
    BY <2>1
<1>2. PICK m \in T : \A j \in T : m <= j
  BY <1>1, LeastNumber
<1>3. PICK k \in K : m = n - k
  OBVIOUS
<1>4. \A j \in K : j <= k
  <2> TAKE j \in K
  <2>1. n - k <= n - j
    BY <1>2, <1>3
  <2> QED
    BY <2>1
<1>5. \E x \in K : \A y \in K : x >= y
  BY <1>4
<1>6. Max(K) \in K /\ \A y \in K : Max(K) >= y
  BY <1>5 DEF Max
<1> QED
  BY <1>6

\* The text without its line ends.
Trimmed(text) ==
    LET kept == {i \in DOMAIN text : text[i] \notin LineEnds}
    IN IF kept = {} THEN <<>> ELSE SubSeq(text, 1, Max(kept))

\* Trimming leaves a prefix, and all of a text without line ends.
LEMMA TrimmedIsPrefix ==
    ASSUME NEW text \in Seq(Byte)
    PROVE  /\ \E m \in 0..Len(text) : Trimmed(text) = SubSeq(text, 1, m)
           /\ Len(text) > 0 /\ (\A i \in DOMAIN text : text[i] \notin LineEnds)
                 => Trimmed(text) = SubSeq(text, 1, Len(text))
<1> DEFINE kept == {i \in DOMAIN text : text[i] \notin LineEnds}
           n == Len(text)
<1>0. n \in Nat /\ kept \in SUBSET (1..n)
  OBVIOUS
<1>1. Trimmed(text) = IF kept = {} THEN <<>> ELSE SubSeq(text, 1, Max(kept))
  BY DEF Trimmed
<1>2. CASE kept = {}
  <2>1. SubSeq(text, 1, 0) = <<>>
    OBVIOUS
  <2>2. 0 \in 0..n
    BY <1>0
  <2>3. n > 0 => \E i \in DOMAIN text : text[i] \in LineEnds
    BY <1>0, <1>2
  <2> QED
    BY <1>1, <1>2, <2>1, <2>2, <2>3
<1>3. CASE kept # {}
  <2>1. Max(kept) \in kept /\ \A k \in kept : k <= Max(kept)
    BY <1>0, <1>3, GreatestIndex
  <2>2. Max(kept) \in 0..n
    BY <1>0, <2>1
  <2>3. n > 0 /\ (\A i \in DOMAIN text : text[i] \notin LineEnds) => Max(kept) = n
    <3> SUFFICES ASSUME n > 0, \A i \in DOMAIN text : text[i] \notin LineEnds PROVE Max(kept) = n
      OBVIOUS
    <3>1. n \in kept
      BY <1>0
    <3> HIDE DEF kept
    <3> QED
      BY <1>0, <2>1, <2>2, <3>1
  <2> QED
    BY <1>1, <1>3, <2>2, <2>3
<1> QED
  BY <1>2, <1>3

\* Only 64 digits are taken for a token.
LEMMA HexAccepted ==
    ASSUME NEW s \in Seq(Byte), ~Rejected(from_hex(s))
    PROVE  s \in [1..64 -> Nibbles] /\ Len(s) = 64
<1>1. ~(Len(s) # 2 * TOKEN_LEN \/ \E i \in DOMAIN s : s[i] \notin Nibbles)
  BY ErrorRejected, Zenon DEF from_hex
<1>2. 2 * TOKEN_LEN = 64
  BY DEF TOKEN_LEN
<1>3. Len(s) = 64 /\ \A i \in DOMAIN s : s[i] \in Nibbles
  BY <1>1, <1>2
<1>4. DOMAIN s = 1..64 /\ s = [i \in DOMAIN s |-> s[i]]
  BY <1>3
<1> QED
  BY <1>3, <1>4

\* The bytes that the digits say, and their digits again.
LEMMA HexRead ==
    ASSUME NEW s \in [1..64 -> Nibbles]
    PROVE  /\ \A i \in 1..32 :
                 from_hex(s).token[i] = 16 * hex_nibble(s[2 * i - 1]) + hex_nibble(s[2 * i])
           /\ from_hex(s).token \in Seq(Byte) /\ Len(from_hex(s).token) = 32
           /\ to_hex(from_hex(s).token) = s
<1> DEFINE u == [i \in 1..32 |-> 16 * hex_nibble(s[2 * i - 1]) + hex_nibble(s[2 * i])]
<1>1. 64 \in Nat /\ 2 * 32 = 64
  OBVIOUS
<1>2. Len(s) = 64 /\ DOMAIN s = 1..64
  BY <1>1, FunctionIsSequence
<1>3. ~(Len(s) # 2 * 32 \/ \E i \in DOMAIN s : s[i] \notin Nibbles)
  BY <1>1, <1>2
<1>4. from_hex(s) = [token |-> u]
  BY <1>3 DEF from_hex, TOKEN_LEN
<1>5. from_hex(s).token = u
  <2> HIDE DEF u
  <2> QED
    BY <1>4
<1>6. \A i \in 1..32 : 2 * i - 1 \in 1..64 /\ 2 * i \in 1..64
  OBVIOUS
<1>7. \A i \in 1..64 : hex_nibble(s[i]) \in 0..15 /\ Digits[hex_nibble(s[i])] = s[i]
  <2>1. \A i \in 1..64 : s[i] \in Nibbles
    OBVIOUS
  <2> QED
    BY <2>1, Nibble, Zenon
<1> HIDE DEF u
<1>8. \A i \in 1..32 : /\ u[i] \in Byte
                       /\ u[i] \div 16 = hex_nibble(s[2 * i - 1])
                       /\ u[i] % 16 = hex_nibble(s[2 * i])
  <2> TAKE i \in 1..32
  <2>1. u[i] = 16 * hex_nibble(s[2 * i - 1]) + hex_nibble(s[2 * i])
    BY DEF u
  <2>2. hex_nibble(s[2 * i - 1]) \in 0..15 /\ hex_nibble(s[2 * i]) \in 0..15
    BY <1>6, <1>7, Zenon
  <2> DEFINE a == hex_nibble(s[2 * i - 1])
             b == hex_nibble(s[2 * i])
  <2>3. a \in 0..15 /\ b \in 0..15 /\ u[i] = 16 * a + b
    BY <2>1, <2>2
  <2> HIDE DEF a, b
  <2>4. 16 * a + b \in Byte /\ (16 * a + b) \div 16 = a /\ (16 * a + b) % 16 = b
    BY <2>3, Halves, Zenon
  <2>5. u[i] \in Byte /\ u[i] \div 16 = a /\ u[i] % 16 = b
    BY <2>3, <2>4
  <2> QED
    BY <2>5 DEF a, b
<1>9. u \in [1..32 -> Byte]
  <2>1. u = [i \in 1..32 |-> u[i]]
    BY DEF u
  <2> QED
    BY <1>8, <2>1
<1>10. u \in Seq(Byte) /\ Len(u) = 32
  <2>1. 32 \in Nat
    OBVIOUS
  <2> QED
    BY <1>9, <2>1, FunctionIsSequence, ZenonT(60)
<1>11. /\ to_hex(u) \in [1..64 -> Nibbles]
       /\ \A i \in 1..32 : /\ to_hex(u)[2 * i - 1] = Digits[u[i] \div 16]
                           /\ to_hex(u)[2 * i] = Digits[u[i] % 16]
  BY <1>10, HexDigits
<1>12. \A i \in 1..32 : to_hex(u)[2 * i - 1] = s[2 * i - 1] /\ to_hex(u)[2 * i] = s[2 * i]
  BY <1>6, <1>7, <1>8, <1>11, Zenon
<1>13. \A j \in 1..64 : \E i \in 1..32 : j = 2 * i - 1 \/ j = 2 * i
  <2> TAKE j \in 1..64
  <2> DEFINE i == (j + 1) \div 2
  <2>1. j + 1 \in Nat /\ 2 <= j + 1 /\ j + 1 <= 65
    OBVIOUS
  <2>2. i \in 1..32 /\ (j = 2 * i - 1 \/ j = 2 * i)
    BY <2>1
  <2> HIDE DEF i
  <2> QED
    BY <2>2
<1>14. \A j \in 1..64 : to_hex(u)[j] = s[j]
  BY <1>12, <1>13
<1>15. to_hex(u) = s
  BY <1>11, <1>14
<1> QED
  BY <1>5, <1>10, <1>15 DEF u

\* The file is trimmed and then read.
LEMMA FileRead == ASSUME NEW text PROVE read_token_file(text) = from_hex(Trimmed(text))
  BY Zenon DEF read_token_file, Trimmed

\* A token that was written is read back.
LEMMA TokenKept ==
    ASSUME NEW t \in Seq(Byte), Len(t) = 32
    PROVE  to_hex(t) \in Seq(Byte) /\ Len(to_hex(t)) = 64 /\ read_token_file(to_hex(t)).token = t
<1> DEFINE s == to_hex(t)
<1>1. /\ s \in [1..64 -> Nibbles]
      /\ \A i \in 1..32 : s[2 * i - 1] = Digits[t[i] \div 16] /\ s[2 * i] = Digits[t[i] % 16]
  BY HexDigits
<1> HIDE DEF s
<1>2. 64 \in Nat /\ 64 > 0
  OBVIOUS
<1>3. s \in [1..64 -> Byte] /\ \A i \in DOMAIN s : s[i] \notin LineEnds
  BY <1>1, Nibble
<1>4. s \in Seq(Byte) /\ Len(s) = 64
  <2> DEFINE n == 64
  <2>1. n \in Nat /\ s \in [1..n -> Byte]
    BY <1>2, <1>3
  <2> HIDE DEF n
  <2>2. s \in Seq(Byte) /\ Len(s) = n
    BY <2>1, FunctionIsSequence, Zenon
  <2> QED
    BY <2>2 DEF n
<1>5. Trimmed(s) = SubSeq(s, 1, Len(s))
  <2>1. Len(s) > 0
    BY <1>2, <1>4
  <2> QED
    BY <1>3, <1>4, <2>1, TrimmedIsPrefix, Zenon
<1>6. SubSeq(s, 1, Len(s)) = s
  <2>1. 0 + 1 = 1 /\ 0 + 64 = 64 /\ 0 \in Nat /\ 0 + 64 <= 64 /\ \A i \in 1..64 : 0 + i = i
    OBVIOUS
  <2>2. SubSeq(s, 0 + 1, 0 + 64) = s
    BY <1>2, <1>4, <2>1, SliceIs
  <2> QED
    BY <1>4, <2>1, <2>2
<1>7. read_token_file(s) = from_hex(s)
  BY <1>5, <1>6, FileRead
<1> DEFINE u == from_hex(s).token
<1>8. /\ u \in Seq(Byte) /\ Len(u) = 32
      /\ \A i \in 1..32 : u[i] = 16 * hex_nibble(s[2 * i - 1]) + hex_nibble(s[2 * i])
  BY <1>1, HexRead
<1> HIDE DEF u
<1>9. \A i \in 1..32 : u[i] = t[i]
  <2> TAKE i \in 1..32
  <2>1. t[i] \in Byte
    BY ElementOfSeq, Zenon
  <2>2. t[i] \div 16 \in 0..15 /\ t[i] % 16 \in 0..15 /\ 16 * (t[i] \div 16) + (t[i] % 16) = t[i]
    BY <2>1, Halves, Zenon
  <2> DEFINE a == hex_nibble(s[2 * i - 1])
             b == hex_nibble(s[2 * i])
             high == t[i] \div 16
             low == t[i] % 16
  <2>3. a = high /\ b = low
    <3>1. s[2 * i - 1] = Digits[high] /\ s[2 * i] = Digits[low]
      BY <1>1, Zenon
    <3>2. high \in 0..15 /\ low \in 0..15
      BY <2>2, Zenon
    <3> HIDE DEF high, low
    <3>3. hex_nibble(Digits[high]) = high /\ hex_nibble(Digits[low]) = low
      BY <3>2, Nibble, Zenon
    <3> QED
      BY <3>1, <3>3
  <2>4. u[i] = 16 * a + b /\ 16 * high + low = t[i]
    BY <1>8, <2>2, Zenon
  <2> HIDE DEF a, b, high, low
  <2> QED
    BY <2>3, <2>4
<1>10. u = t
  <2>1. Len(u) = Len(t) /\ \A i \in 1..Len(u) : u[i] = t[i]
    BY <1>8, <1>9, Zenon
  <2> QED
    BY <1>8, <2>1, SeqEqual, Zenon
<1> QED
  BY <1>4, <1>7, <1>10 DEF s, u

\* What is read from a file, whatever is in it, is what its first 64 digits say.
LEMMA TokenSays ==
    ASSUME NEW text \in Seq(Byte), ~Rejected(read_token_file(text))
    PROVE  /\ Len(read_token_file(text).token) = 32
           /\ SubSeq(text, 1, 64) = to_hex(read_token_file(text).token)
<1>1. PICK m \in 0..Len(text) : Trimmed(text) = SubSeq(text, 1, m)
  BY TrimmedIsPrefix
<1>2. read_token_file(text) = from_hex(SubSeq(text, 1, m))
  BY <1>1, FileRead
<1>3. m \in Nat /\ 0 \in Nat /\ 0 + m <= Len(text) /\ 0 + 1 = 1 /\ 0 + m = m
  OBVIOUS
<1>4. SubSeq(text, 0 + 1, 0 + m) \in Seq(Byte) /\ Len(SubSeq(text, 0 + 1, 0 + m)) = m
  BY <1>3, Slice, Zenon
<1> DEFINE s == SubSeq(text, 1, m)
<1>5. s \in Seq(Byte) /\ Len(s) = m
  BY <1>3, <1>4
<1>6. ~Rejected(from_hex(s))
  BY <1>2
<1>7. s \in [1..64 -> Nibbles] /\ m = 64
  <2> HIDE DEF s
  <2> QED
    BY <1>5, <1>6, HexAccepted
<1>8. Len(from_hex(s).token) = 32 /\ to_hex(from_hex(s).token) = s
  <2> HIDE DEF s
  <2> QED
    BY <1>7, HexRead
<1> QED
  BY <1>2, <1>7, <1>8

-----------------------------------------------------------------------------
(* The wire formats: responses.                                            *)

\* A response is its tag and its payload.
LEMMA Tagged ==
    ASSUME NEW tag \in 1..6, NEW p \in Seq(Byte)
    PROVE  /\ <<tag>> \o p \in Seq(Byte) /\ <<tag>> \o p # <<>>
           /\ Head(<<tag>> \o p) = tag /\ Tail(<<tag>> \o p) = p
<1>1. tag \in Byte
  BY DEF Byte
<1>2. <<tag>> \in Seq(Byte) /\ Len(<<tag>>) = 1 /\ <<tag>>[1] = tag
  BY <1>1
<1> DEFINE q == <<tag>> \o p
<1>3. /\ q \in Seq(Byte) /\ Len(q) = 1 + Len(p) /\ q[1] = tag
      /\ \A i \in 1..Len(p) : q[1 + i] = p[i]
  BY <1>2, Joined
<1>4. Len(p) \in Nat
  OBVIOUS
<1> HIDE DEF q
<1>5. q # <<>> /\ Head(q) = tag
  BY <1>3, <1>4
<1>6. Tail(q) \in Seq(Byte) /\ Len(Tail(q)) = Len(p) /\ \A i \in 1..Len(p) : Tail(q)[i] = q[i + 1]
  BY <1>3, <1>4, <1>5, HeadTailProperties
<1>7. \A i \in 1..Len(p) : i + 1 = 1 + i
  BY <1>4
<1>8. Tail(q) = p
  BY <1>3, <1>6, <1>7, SeqEqual
<1> QED
  BY <1>3, <1>5, <1>8 DEF q

\* Bytes are their first byte and the others.
LEMMA TaggedAgain ==
    ASSUME NEW d \in Seq(Byte), d # <<>>
    PROVE  d = <<Head(d)>> \o Tail(d)
<1> DEFINE h == Head(d)
           t == Tail(d)
           n == Len(t)
<1>1. /\ h \in Byte /\ h = d[1] /\ t \in Seq(Byte) /\ Len(d) = 1 + n
      /\ \A i \in 1..n : t[i] = d[i + 1]
  BY HeadTailProperties
<1>2. <<h>> \in Seq(Byte) /\ Len(<<h>>) = 1 /\ <<h>>[1] = h
  BY <1>1
<1>3. n \in Nat
  BY <1>1
<1> DEFINE q == <<h>> \o t
<1> HIDE DEF h, t
<1>4. q \in Seq(Byte) /\ Len(q) = 1 + n /\ q[1] = h /\ \A i \in 1..n : q[1 + i] = t[i]
  BY <1>1, <1>2, Joined
<1> HIDE DEF q, n
<1>5. \A i \in 1..(1 + n) : q[i] = d[i]
  <2> TAKE i \in 1..(1 + n)
  <2>1. CASE i = 1
    BY <1>1, <1>4, <2>1
  <2>2. CASE i # 1
    <3>1. i - 1 \in 1..n /\ 1 + (i - 1) = i /\ (i - 1) + 1 = i
      BY <1>3, <2>2
    <3> QED
      BY <1>1, <1>4, <3>1
  <2> QED
    BY <2>1, <2>2
<1>6. q = d
  BY <1>1, <1>4, <1>5, SeqEqual
<1> QED
  BY <1>6 DEF q, h, t

\* Bytes of any kind that are taken for a response, not an error, are its encoding.
LEMMA ResponseSays ==
    ASSUME NEW d \in Seq(Byte), ~Rejected(decode_response(d)), decode_response(d).response # "Error"
    PROVE  encode_response(decode_response(d)) = d
<1> DEFINE h == Head(d)
           t == Tail(d)
<1>1. /\ d # <<>> /\ PayloadFits(h, t)
      /\ decode_response(d) = IF h = 6 THEN from_code_param(SubSeq(d, 2, 5), SubSeq(d, 6, 9))
                              ELSE [response |-> Tags[h], of |-> t]
  BY ErrorRejected, Zenon DEF decode_response
<1>2. ASSUME NEW c, NEW param
      PROVE  \/ Rejected(from_code_param(c, param))
             \/ from_code_param(c, param).response = "Error"
  <2> DEFINE vs == {v \in IpcErrors : LittleEndian(v.code, 4) = c}
             e == IpcError((CHOOSE v \in vs : TRUE).name, param, <<>>)
  <2>1. from_code_param(c, param) = IF vs = {} THEN PlainError("MalformedResponse")
                                    ELSE [response |-> "Error", of |-> e]
    BY Zenon DEF from_code_param
  <2>2. Rejected(PlainError("MalformedResponse"))
    BY ErrorRejected
  <2> HIDE DEF vs, e
  <2> QED
    BY <2>1, <2>2
<1>3. h # 6 /\ decode_response(d) = [response |-> Tags[h], of |-> t]
  BY <1>1, <1>2, Zenon
<1>4. d = <<h>> \o t
  BY <1>1, TaggedAgain
<1>5. t \in Seq(Byte)
  BY <1>1, HeadTailProperties
<1> HIDE DEF h, t
<1>6. h \in {1, 2, 4} \/ (h \in {3, 5} /\ t = <<>>)
  BY <1>1, <1>3 DEF PayloadFits
<1>7. <<h>> \o <<>> = <<h>>
  <2>1. <<h>> \in Seq({h})
    OBVIOUS
  <2> QED
    BY <2>1, ConcatEmptySeq
<1>8. CASE h \in {1, 2, 4}
  <2>1. encode_response([response |-> Tags[h], of |-> t]) = <<h>> \o t
    BY <1>8 DEF encode_response, Tags
  <2> QED
    BY <1>3, <1>4, <2>1
<1>9. CASE h \in {3, 5} /\ t = <<>>
  <2>1. encode_response([response |-> Tags[h], of |-> t]) = <<h>>
    BY <1>9 DEF encode_response, Tags
  <2> QED
    BY <1>3, <1>4, <1>7, <1>9, <2>1
<1> QED
  BY <1>6, <1>8, <1>9

\* The names of the variants, by their codes.
Names == <<"InvalidMagic", "UnsupportedVersion", "PayloadTooLarge", "PayloadTruncated",
           "InvalidCommandVerb", "IntervalOutOfBounds", "CrcMismatch", "UnauthorizedToken",
           "RateLimitExceeded", "MalformedToken", "MalformedResponse", "TransportIo",
           "Unsupported", "ScheduleOutOfBounds", "TrailingBytes", "ScheduleIdMismatch">>

\* The variants are numbered from 1 to 16, each number with one name.
LEMMA Codes ==
    ASSUME NEW v \in IpcErrors
    PROVE  v.code \in 1..16 /\ v.name = Names[v.code] /\ v.width \in {0, 2, 4, 8}
  BY DEF IpcErrors, Variant, Names

\* Equal codes on the wire are equal codes.
LEMMA SameCode ==
    ASSUME NEW m \in 1..16, NEW n \in 1..16, LittleEndian(m, 4) = LittleEndian(n, 4)
    PROVE  m = n
<1>1. m \in Short /\ n \in Short /\ m % 256 = m /\ n % 256 = n
  BY DEF Short
<1> QED
  BY <1>1, LittleEndianValue

\* The bytes of a response and what they are read as.
ReadAs(r, q) ==
    /\ encode_response(r) \in Seq(Byte) /\ encode_response(r) # <<>>
    /\ decode_response(encode_response(r)) = q

\* A response that is no error is read back as it was sent.
LEMMA PlainReadBack ==
    ASSUME NEW tag \in 1..5, NEW p \in Seq(Byte), PayloadFits(tag, p)
    PROVE  ReadAs([response |-> Tags[tag], of |-> p], [response |-> Tags[tag], of |-> p])
<1> DEFINE r == [response |-> Tags[tag], of |-> p]
           w == <<tag>> \o p
<1>1. w \in Seq(Byte) /\ w # <<>> /\ Head(w) = tag /\ Tail(w) = p /\ tag # 6
  BY Tagged
<1>2. encode_response(r) = w
  <2>1. CASE tag \in {1, 2, 4}
    BY <2>1 DEF encode_response, Tags
  <2>2. CASE tag \in {3, 5}
    <3>1. p = <<>>
      BY <2>2 DEF PayloadFits
    <3>2. <<tag>> \o <<>> = <<tag>>
      <4>1. <<tag>> \in Seq({tag})
        OBVIOUS
      <4> QED
        BY <4>1, ConcatEmptySeq
    <3>3. encode_response(r) = <<tag>>
      BY <2>2 DEF encode_response, Tags
    <3> QED
      BY <3>1, <3>2, <3>3
  <2>3. tag \in {1, 2, 4} \/ tag \in {3, 5}
    OBVIOUS
  <2> QED
    BY <2>1, <2>2, <2>3
<1> HIDE DEF w
<1>3. decode_response(w) = r
  BY <1>1 DEF decode_response
<1> HIDE DEF r
<1>4. ReadAs(r, r)
  BY <1>1, <1>2, <1>3, Zenon DEF ReadAs
<1> QED
  BY <1>4 DEF r

\* A number is eight bytes.
LEMMA NumberBytes ==
    ASSUME NEW n \in Numbers
    PROVE  n \in Seq(Byte) /\ Len(n) = 8
<1>1. n \in [1..8 -> Byte]
  BY IpcCodecAssumption
<1>2. 8 \in Nat
  OBVIOUS
<1> QED
  BY <1>1, <1>2, FunctionIsSequence, ZenonT(60)

\* A code is read as the variant that has it.
LEMMA CodeRead ==
    ASSUME NEW x \in IpcErrors, NEW param
    PROVE  from_code_param(LittleEndian(x.code, 4), param)
              = [response |-> "Error", of |-> IpcError(x.name, param, <<>>)]
<1> DEFINE c == LittleEndian(x.code, 4)
           vs == {v \in IpcErrors : LittleEndian(v.code, 4) = c}
           y == CHOOSE v \in vs : TRUE
<1>1. x \in vs
  OBVIOUS
<1>2. y \in vs
  BY <1>1
<1>3. y \in IpcErrors /\ LittleEndian(y.code, 4) = LittleEndian(x.code, 4)
  BY <1>2
<1>4. from_code_param(c, param) = IF vs = {} THEN PlainError("MalformedResponse")
                                  ELSE [response |-> "Error", of |-> IpcError(y.name, param, <<>>)]
  BY Zenon DEF from_code_param
<1> HIDE DEF c, vs, y
<1>5. y.code = x.code
  BY <1>3, Codes, SameCode
<1>6. y.name = x.name
  BY <1>3, <1>5, Codes, Zenon
<1>7. from_code_param(c, param) = [response |-> "Error", of |-> IpcError(y.name, param, <<>>)]
  BY <1>1, <1>4
<1> QED
  BY <1>6, <1>7 DEF c

\* An error is read back as its variant, with the low four bytes of its first number.
LEMMA ErrorReadBack ==
    ASSUME NEW e \in Errors
    PROVE  ReadAs([response |-> "Error", of |-> e],
                  [response |-> "Error", of |-> IpcError(e.error, Cast(e.primary, 4), <<>>)])
<1>1. PICK v \in IpcErrors, m \in Numbers, n \in Numbers : e = IpcError(v.name, m, n)
  BY DEF Errors
<1> DEFINE x == VariantOf(v.name)
<1>2. x \in IpcErrors /\ x.name = v.name
  BY DEF VariantOf
<1>3. e.error = v.name /\ e.primary = Cast(m, x.width)
  BY <1>1 DEF IpcError
<1> HIDE DEF x
<1>4. x.code \in 1..16 /\ x.width \in {0, 2, 4, 8}
  BY <1>2, Codes, Zenon
<1>5. e.primary \in Seq(Byte)
  <2>1. x.width \in Nat
    BY <1>4
  <2>2. m \in Seq(Byte)
    BY NumberBytes, Zenon
  <2>3. Cast(m, x.width) \in Seq(Byte)
    BY <2>1, <2>2, CastType, Zenon
  <2> QED
    BY <1>3, <2>3
<1> DEFINE c == LittleEndian(x.code, 4)
           p == Cast(e.primary, 4)
           w == <<6>> \o c \o p
           q == [response |-> "Error", of |-> IpcError(e.error, p, <<>>)]
           r == [response |-> "Error", of |-> e]
<1>6. c \in Seq(Byte) /\ Len(c) = 4
  <2>1. x.code \in Short /\ 4 \in Nat
    BY <1>4 DEF Short
  <2> QED
    BY <2>1, LittleEndianType
<1>7. p \in Seq(Byte) /\ Len(p) = 4
  <2>1. 4 \in Nat
    OBVIOUS
  <2> QED
    BY <1>5, <2>1, CastType
<1>8. encode_response(r) = w
  <2>1. VariantOf(e.error) = x
    BY <1>3 DEF x
  <2>2. code(e) = c /\ wire_param(e) = p
    BY <2>1 DEF code, wire_param
  <2>3. encode_response(r) = <<6>> \o code(e) \o wire_param(e)
    BY DEF encode_response
  <2> QED
    BY <2>2, <2>3
<1>9. from_code_param(c, p) = q
  BY <1>2, <1>3, CodeRead
<1> HIDE DEF c, p
<1>10. <<6>> \in Seq(Byte) /\ Len(<<6>>) = 1 /\ <<6>>[1] = 6
  BY DEF Byte
<1> DEFINE a == <<6>> \o c
<1>11. a \in Seq(Byte) /\ Len(a) = 1 + 4 /\ a[1] = 6 /\ \A i \in 1..4 : a[1 + i] = c[i]
  <2>1. /\ a \in Seq(Byte) /\ Len(a) = Len(<<6>>) + Len(c)
        /\ \A i \in 1..Len(<<6>>) : a[i] = <<6>>[i]
        /\ \A i \in 1..Len(c) : a[Len(<<6>>) + i] = c[i]
    BY <1>6, <1>10, Joined, Zenon
  <2> HIDE DEF a
  <2> QED
    BY <1>6, <1>10, <2>1
<1> HIDE DEF a
<1>12. w = a \o p
  BY DEF a
<1> HIDE DEF w
<1>13. /\ w \in Seq(Byte) /\ Len(w) = 5 + 4 /\ w[1] = 6
       /\ \A i \in 1..4 : w[1 + i] = c[i] /\ w[5 + i] = p[i]
  <2>1. /\ w \in Seq(Byte) /\ Len(w) = Len(a) + Len(p)
        /\ \A i \in 1..Len(a) : w[i] = a[i]
        /\ \A i \in 1..Len(p) : w[Len(a) + i] = p[i]
    BY <1>7, <1>11, <1>12, Joined, ZenonT(60)
  <2> QED
    BY <1>7, <1>11, <2>1
<1>14. Len(w) = 9
  <2>1. 5 + 4 = 9
    OBVIOUS
  <2> QED
    BY <1>13, <2>1
<1>15. SubSeq(w, 2, 5) = c /\ SubSeq(w, 6, 9) = p
  <2>1. SubSeq(w, 1 + 1, 1 + 4) = c
    BY <1>6, <1>13, <1>14, SliceIs
  <2>2. SubSeq(w, 5 + 1, 5 + 4) = p
    BY <1>7, <1>13, <1>14, SliceIs
  <2> QED
    BY <2>1, <2>2
<1>16. w # <<>> /\ Head(w) = 6 /\ Len(Tail(w)) = 8
  <2>0. w \in Seq(Byte) /\ w[1] = 6
    BY <1>13
  <2>1. w # <<>>
    BY <1>14
  <2>2. Len(Tail(w)) = Len(w) - 1
    BY <2>0, <2>1, HeadTailProperties
  <2>3. Head(w) = w[1]
    BY <2>0, <2>1
  <2> QED
    BY <1>14, <2>0, <2>1, <2>2, <2>3
<1>17. decode_response(w) = from_code_param(SubSeq(w, 2, 5), SubSeq(w, 6, 9))
  BY <1>16 DEF decode_response, PayloadFits
<1> HIDE DEF q, r
<1>18. ReadAs(r, q)
  BY <1>8, <1>9, <1>13, <1>15, <1>16, <1>17, Zenon DEF ReadAs
<1> QED
  BY <1>18 DEF r, q, p

\* Every response is read back as far as the wire carries it.
LEMMA ResponseIntact ==
    ASSUME NEW r \in Responses
    PROVE  IF r.response # "Error" THEN ReadAs(r, r)
           ELSE ReadAs(r, [response |-> "Error",
                           of |-> IpcError(r.of.error, Cast(r.of.primary, 4), <<>>)])
<1>0. /\ Tags[1] = "Status" /\ Tags[2] = "Acquired" /\ Tags[3] = "Released"
      /\ Tags[4] = "Scheduled" /\ Tags[5] = "Cancelled"
  BY DEF Tags
<1>1. ASSUME NEW t \in Texts, r = [response |-> "Status", of |-> t]
      PROVE  ReadAs(r, r)
  <2>1. t \in Seq(Byte) /\ Utf8(t)
    BY TextAssumption
  <2>2. 1 \in 1..5 /\ PayloadFits(1, t)
    BY <2>1 DEF PayloadFits
  <2> QED
    BY <1>0, <1>1, <2>1, <2>2, PlainReadBack
<1>2. ASSUME NEW n \in Numbers, r = [response |-> "Acquired", of |-> n]
      PROVE  ReadAs(r, r)
  <2>1. n \in Seq(Byte) /\ Len(n) = 8
    BY NumberBytes
  <2>2. 2 \in 1..5 /\ PayloadFits(2, n)
    BY <2>1 DEF PayloadFits
  <2> QED
    BY <1>0, <1>2, <2>1, <2>2, PlainReadBack
<1>3. ASSUME NEW n \in Numbers, r = [response |-> "Scheduled", of |-> Cast(n, 4)]
      PROVE  ReadAs(r, r)
  <2>1. n \in Seq(Byte) /\ 4 \in Nat
    BY NumberBytes
  <2>2. Cast(n, 4) \in Seq(Byte) /\ Len(Cast(n, 4)) = 4
    BY <2>1, CastType
  <2>3. 4 \in 1..5 /\ PayloadFits(4, Cast(n, 4))
    BY <2>2 DEF PayloadFits
  <2> QED
    BY <1>0, <1>3, <2>2, <2>3, PlainReadBack
<1>4. ASSUME NEW name \in {"Released", "Cancelled"}, r = [response |-> name, of |-> <<>>]
      PROVE  ReadAs(r, r)
  <2>1. <<>> \in Seq(Byte)
    OBVIOUS
  <2>2. 3 \in 1..5 /\ 5 \in 1..5 /\ PayloadFits(3, <<>>) /\ PayloadFits(5, <<>>)
    BY DEF PayloadFits
  <2>3. \A tag \in {3, 5} : ReadAs([response |-> Tags[tag], of |-> <<>>],
                                   [response |-> Tags[tag], of |-> <<>>])
    BY <2>1, <2>2, PlainReadBack
  <2> QED
    BY <1>0, <1>4, <2>3
<1>5. ASSUME NEW e \in Errors, r = [response |-> "Error", of |-> e]
      PROVE  /\ r.response = "Error"
             /\ ReadAs(r, [response |-> "Error",
                           of |-> IpcError(r.of.error, Cast(r.of.primary, 4), <<>>)])
  BY <1>5, ErrorReadBack
<1>6. \/ \E t \in Texts : r = [response |-> "Status", of |-> t]
      \/ \E n \in Numbers : r = [response |-> "Acquired", of |-> n]
      \/ \E n \in Numbers : r = [response |-> "Scheduled", of |-> Cast(n, 4)]
      \/ \E name \in {"Released", "Cancelled"} : r = [response |-> name, of |-> <<>>]
      \/ \E e \in Errors : r = [response |-> "Error", of |-> e]
  BY Zenon DEF Responses
<1>7. \/ r.response # "Error" /\ ReadAs(r, r)
      \/ /\ r.response = "Error"
         /\ ReadAs(r, [response |-> "Error",
                       of |-> IpcError(r.of.error, Cast(r.of.primary, 4), <<>>)])
  BY <1>1, <1>2, <1>3, <1>4, <1>5, <1>6
<1> QED
  BY <1>7

-----------------------------------------------------------------------------
(* The wire formats: what arrives.                                         *)

\* A frame arrives, intact or altered.
LEMMA FrameCase == ASSUME send_frame PROVE CodecInv'
<1>0. PICK f \in {g \in Frames : "payload" \in DOMAIN g} :
          \E wire \in {serialize(f)} \cup Altered(serialize(f)) :
             case' = [kind |-> "frame", sent |-> f, intact |-> wire = serialize(f),
                      got |-> deserialize(wire)]
  BY Zenon DEF send_frame
<1>1. PICK wire \in {serialize(f)} \cup Altered(serialize(f)) :
          case' = [kind |-> "frame", sent |-> f, intact |-> wire = serialize(f),
                   got |-> deserialize(wire)]
  BY <1>0, Zenon
<1>2. f \in Sendable
  BY SentFrames
<1>3. wire = serialize(f) => deserialize(wire) = f
  BY <1>2, FrameIntact
<1>4. wire # serialize(f) => Rejected(deserialize(wire))
  BY <1>2, FrameAltered
<1> DEFINE intact == wire = serialize(f)
           got == deserialize(wire)
<1>5. /\ case'.kind = "frame" /\ case'.sent = f /\ case'.intact = intact /\ case'.got = got
  BY <1>1
<1>6. FrameIntegrity'
  BY <1>3, <1>4, <1>5 DEF FrameIntegrity
<1> QED
  BY <1>5, <1>6 DEF CodecInv, ResponseRoundTrip, TokenRoundTrip

\* A response arrives, intact or altered.
LEMMA ResponseCase == ASSUME send_response PROVE CodecInv'
<1>0. PICK r \in Responses : \E wire \in {encode_response(r)} \cup Altered(encode_response(r)) :
          case' = [kind |-> "response", sent |-> r, wire |-> wire,
                   intact |-> wire = encode_response(r), got |-> decode_response(wire)]
  BY Zenon DEF send_response
<1>1. PICK wire \in {encode_response(r)} \cup Altered(encode_response(r)) :
          case' = [kind |-> "response", sent |-> r, wire |-> wire,
                   intact |-> wire = encode_response(r), got |-> decode_response(wire)]
  BY <1>0, Zenon
<1> DEFINE w == encode_response(r)
           got == decode_response(wire)
           read == [response |-> "Error",
                    of |-> IpcError(r.of.error, Cast(r.of.primary, 4), <<>>)]
<1>2. /\ w \in Seq(Byte) /\ w # <<>>
      /\ IF r.response # "Error" THEN decode_response(w) = r ELSE decode_response(w) = read
  <2>1. IF r.response # "Error" THEN ReadAs(r, r) ELSE ReadAs(r, read)
    BY ResponseIntact, Zenon
  <2> QED
    BY <2>1, Zenon DEF ReadAs
<1>3. wire \in Seq(Byte)
  <2>1. \A d \in Altered(w) : d \in Seq(Byte)
    BY <1>2, AlteredBytes
  <2> QED
    BY <1>2, <2>1, Zenon
<1>4. ~Rejected(got) /\ got.response # "Error" => encode_response(got) = wire
  BY <1>3, ResponseSays, Zenon
<1>5. wire = w => IF r.response # "Error" THEN got = r ELSE got = read
  BY <1>2, Zenon
<1>6. /\ case'.kind = "response" /\ case'.sent = r /\ case'.wire = wire
      /\ case'.intact = (wire = w) /\ case'.got = got
  BY <1>1
<1> HIDE DEF w, got
<1>7. ResponseRoundTrip'
  BY <1>4, <1>5, <1>6 DEF ResponseRoundTrip
<1> QED
  BY <1>6, <1>7 DEF CodecInv, FrameIntegrity, TokenRoundTrip

\* A token file is read, intact or altered.
LEMMA TokenCase == ASSUME publish_token PROVE CodecInv'
<1>0. PICK t \in Tokens : \E text \in {to_hex(t)} \cup Altered(to_hex(t)) :
          case' = [kind |-> "token", sent |-> t, text |-> text, got |-> read_token_file(text)]
  BY Zenon DEF publish_token
<1>1. PICK text \in {to_hex(t)} \cup Altered(to_hex(t)) :
          case' = [kind |-> "token", sent |-> t, text |-> text, got |-> read_token_file(text)]
  BY <1>0, Zenon
<1> DEFINE w == to_hex(t)
           got == read_token_file(text)
<1>2. w \in Seq(Byte) /\ Len(w) = 64 /\ read_token_file(w).token = t
  BY TokenBytes, TokenKept
<1>3. text \in Seq(Byte)
  <2>1. w # <<>>
    <3>1. Len(w) = 64
      BY <1>2
    <3>2. Len(<<>>) = 0 /\ 64 # 0
      OBVIOUS
    <3> HIDE DEF w
    <3> QED
      BY <3>1, <3>2
  <2>2. \A d \in Altered(w) : d \in Seq(Byte)
    BY <1>2, <2>1, AlteredBytes
  <2> QED
    BY <1>2, <2>2, Zenon
<1>4. text = w => got.token = t
  BY <1>2, Zenon
<1>5. ~Rejected(got) => Len(got.token) = 32 /\ SubSeq(text, 1, 64) = to_hex(got.token)
  BY <1>3, TokenSays
<1>6. case'.kind = "token" /\ case'.sent = t /\ case'.text = text /\ case'.got = got
  BY <1>1
<1>7. TOKEN_LEN = 32 /\ 2 * TOKEN_LEN = 64
  BY DEF TOKEN_LEN
<1> HIDE DEF got
<1>8. TokenRoundTrip'
  BY <1>4, <1>5, <1>6, <1>7 DEF TokenRoundTrip, w
<1> QED
  BY <1>6, <1>8 DEF CodecInv, FrameIntegrity, ResponseRoundTrip

(* Frames, responses and token files of any content (serialize,            *)
(* deserialize, encode_response, decode_response, to_hex,                  *)
(* read_token_file): what was sent is read back as far as the wire carries *)
(* it; a frame with a payload of up to 256 bytes that was cut, lengthened, *)
(* doubled or changed in any one byte is rejected, by its length or by its *)
(* CRC-32; and what is taken for a response or a token says what its bytes *)
(* say.                                                                    *)
THEOREM WireFormatsAreFaithful == CodecSpec => []CodecInv
<1>1. CodecInit => CodecInv
  BY DEF CodecInit, NoCase, CodecInv, FrameIntegrity, ResponseRoundTrip, TokenRoundTrip
<1>2. CodecInv /\ [CodecNext]_case => CodecInv'
  <2>1. CASE CodecNext
    BY <2>1, FrameCase, ResponseCase, TokenCase DEF CodecNext
  <2>2. CodecInv /\ UNCHANGED case => CodecInv'
    BY DEF CodecInv, FrameIntegrity, ResponseRoundTrip, TokenRoundTrip
  <2> QED
    BY <2>1, <2>2
<1> QED
  BY <1>1, <1>2, PTL DEF CodecSpec
=============================================================================
