---------------------------- MODULE IpcContract -----------------------------
(***************************************************************************)
(* What the command pipe promises its clients, without threads, queue or   *)
(* deadlines: a command is carried out at most once, a client is told one  *)
(* thing and that is final, and success is told of a command that has been *)
(* carried out. A client that was told of a failure may still see its      *)
(* command carried out, since the request stays queued when its wait ends. *)
(***************************************************************************)
CONSTANTS Clients, Answers     \* "none" is no answer yet, "ok" is success
VARIABLES executed, answer

Init == /\ executed = [c \in Clients |-> 0]
        /\ answer = [c \in Clients |-> "none"]

Execute(c) == /\ executed[c] = 0
              /\ executed' = [executed EXCEPT ![c] = 1]
              /\ UNCHANGED answer

\* The end of the process answers several clients at once.
Answer == /\ answer' \in [Clients -> Answers]
          /\ \A c \in Clients : answer'[c] # answer[c] =>
                 answer[c] = "none" /\ (answer'[c] = "ok" => executed[c] = 1)
          /\ UNCHANGED executed

Next == (\E c \in Clients : Execute(c)) \/ Answer

Spec == Init /\ [][Next]_<<executed, answer>>
=============================================================================
