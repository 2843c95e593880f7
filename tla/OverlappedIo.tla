---------------------------- MODULE OverlappedIo ----------------------------
(***************************************************************************)
(* The overlapped operations on the command pipe: the client's write and   *)
(* read (drain_overlapped of tick-ipc) and the server's connect and read   *)
(* (wait_for_client, read_frame of tray/ipc.rs). Each waits on an event of *)
(* its own, with a deadline, while the kernel completes the operation and  *)
(* signals the event. A handle that is closed may be given to another      *)
(* thread of the process at once.                                          *)
(***************************************************************************)
EXTENDS Integers, FiniteSets

CONSTANTS Threads,     \* threads of one process
          Handles,     \* values that handles take
          MaxOps       \* bound: operations of each thread

ASSUME OverlappedAssumption == MaxOps \in Nat /\ "none" \notin Threads

VARIABLES owner,       \* the thread that opened the handle, while it is open
          signalled,   \* handles of events that are signalled
          ioPc,        \* where each thread stands
          event,       \* the event of its operation
          kernel,      \* the kernel's side of the operation: idle, pending, done or cancelled
          outcome,     \* what the last operation gave
          strayed,     \* history: a signal or a close that hit a handle of another thread
          ops

ioVars == <<owner, signalled, ioPc, event, kernel, outcome, strayed, ops>>

None == "none"

IoInit ==
    /\ owner = [h \in Handles |-> None] /\ signalled = {}
    /\ ioPc = [t \in Threads |-> "idle"] /\ event = [t \in Threads |-> None]
    /\ kernel = [t \in Threads |-> "idle"] /\ outcome = [t \in Threads |-> "none"]
    /\ strayed = FALSE /\ ops = [t \in Threads |-> 0]

Goto(t, pc) == ioPc' = [ioPc EXCEPT ![t] = pc]

\* The operation is over for the thread: its event is closed, it has a result.
CloseAndReturn(t, result) ==
    /\ owner' = [owner EXCEPT ![event[t]] = None]
    /\ strayed' = (strayed \/ owner[event[t]] # t)
    /\ signalled' = signalled \ {event[t]}
    /\ outcome' = [outcome EXCEPT ![t] = result]
    /\ Goto(t, "idle")

create_overlapped_event(t) ==
    /\ ioPc[t] = "idle" /\ ops[t] < MaxOps
    /\ ops' = [ops EXCEPT ![t] = @ + 1]
    /\ \/ \E h \in {g \in Handles : owner[g] = None} :
             /\ owner' = [owner EXCEPT ![h] = t]
             /\ event' = [event EXCEPT ![t] = h]
             /\ Goto(t, "issue") /\ UNCHANGED outcome
       \/ /\ outcome' = [outcome EXCEPT ![t] = "failed"]      \* no event, no operation
          /\ UNCHANGED <<owner, event, ioPc>>
    /\ UNCHANGED <<signalled, kernel, strayed>>

\* ReadFile, WriteFile or ConnectNamedPipe: done at once, refused, or pending.
issue(t) ==
    /\ ioPc[t] = "issue"
    /\ \/ \E result \in {"transferred", "failed"} : CloseAndReturn(t, result)
          /\ UNCHANGED kernel
       \/ /\ kernel' = [kernel EXCEPT ![t] = "pending"]
          /\ Goto(t, "wait") /\ UNCHANGED <<owner, signalled, outcome, strayed>>
    /\ UNCHANGED <<event, ops>>

\* The kernel's completion signals the event, whoever has the handle by then.
complete(t) ==
    /\ kernel[t] = "pending"
    /\ kernel' = [kernel EXCEPT ![t] = "done"]
    /\ signalled' = signalled \cup {event[t]}
    /\ strayed' = (strayed \/ owner[event[t]] # t)
    /\ UNCHANGED <<owner, ioPc, event, outcome, ops>>

\* WaitForSingleObject returns because the event is signalled; GetOverlappedResult
\* does not wait and gives the result or an error.
wait_signalled(t) ==
    /\ ioPc[t] = "wait" /\ event[t] \in signalled
    /\ \E result \in {"transferred", "failed"} : CloseAndReturn(t, result)
    /\ kernel' = [kernel EXCEPT ![t] = "idle"]
    /\ UNCHANGED <<event, ops>>

\* The deadline passes, or the wait fails; the operation may complete meanwhile.
wait_deadline_passed(t) ==
    /\ ioPc[t] = "wait" /\ Goto(t, "cancel")
    /\ UNCHANGED <<owner, signalled, event, kernel, outcome, strayed, ops>>

CloseWhilePending(t) ==                \* faulty: nobody waits for the cancellation
    /\ ioPc[t] = "cancel" /\ CloseAndReturn(t, "timed out")
    /\ UNCHANGED <<event, kernel, ops>>
\* CancelIoEx only asks for the cancellation: the thread goes on to wait for it.
CancelIoEx(t) ==
    /\ ioPc[t] = "cancel" /\ Goto(t, "drain")
    /\ UNCHANGED <<owner, signalled, event, kernel, outcome, strayed, ops>>

\* The kernel acknowledges, which signals the event as any other completion does.
acknowledge(t) ==
    /\ kernel[t] = "pending" /\ ioPc[t] = "drain"
    /\ kernel' = [kernel EXCEPT ![t] = "cancelled"]
    /\ signalled' = signalled \cup {event[t]}
    /\ strayed' = (strayed \/ owner[event[t]] # t)
    /\ UNCHANGED <<owner, ioPc, event, outcome, ops>>

\* GetOverlappedResult waits until the operation is over, completed or cancelled.
drain_overlapped(t) ==
    /\ ioPc[t] = "drain" /\ kernel[t] \in {"done", "cancelled"}
    /\ CloseAndReturn(t, "timed out")
    /\ kernel' = [kernel EXCEPT ![t] = "idle"]
    /\ UNCHANGED <<event, ops>>

IoNext ==
    \E t \in Threads :
        \/ create_overlapped_event(t) \/ issue(t) \/ complete(t) \/ wait_signalled(t)
        \/ wait_deadline_passed(t) \/ CancelIoEx(t) \/ acknowledge(t) \/ drain_overlapped(t)

IoSpec == IoInit /\ [][IoNext]_ioVars

-----------------------------------------------------------------------------
(* Whatever the kernel does and when, no operation outlives its event: a   *)
(* thread that starts anew has nothing pending, and neither a completion   *)
(* nor a close ever hits a handle that another thread has by then.         *)
EventOutlivesOperation ==
    /\ ~strayed
    /\ \A t \in Threads : ioPc[t] \in {"idle", "issue"} => kernel[t] = "idle"

(* No event is leaked: every open handle is that of the operation its      *)
(* thread is engaged in.                                                   *)
EventsAreClosed ==
    \A h \in Handles : owner[h] # None =>
        ioPc[owner[h]] # "idle" /\ event[owner[h]] = h

(* A signalled event says that the operation of its thread is over, never  *)
(* that an earlier one on the same handle was, so a result that is fetched *)
(* without waiting is there to be fetched.                                 *)
SignalledIsOver ==
    \A t \in Threads : ioPc[t] # "idle" /\ event[t] \in signalled =>
        kernel[t] \in {"done", "cancelled"}

(* Events and operations belong together: none outlives the other, and the *)
(* signal is that of the operation.                                        *)
IoInv == EventOutlivesOperation /\ EventsAreClosed /\ SignalledIsOver
=============================================================================
