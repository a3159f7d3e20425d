---------------------------- MODULE BusService ----------------------------
(***************************************************************************)
(* What infinity/bus.go promises to the goroutines that call ReadTable,    *)
(* WriteTable and Read: calls are served one at a time, in the order in    *)
(* which they were made, and each is answered exactly once, with success   *)
(* or with failure.  Nothing is said of which answer is given.             *)
(***************************************************************************)
EXTENDS Sequences, SequencesExt

CONSTANT Callers        \* the goroutines that use the bus

VARIABLES queue,        \* callers waiting for an answer, oldest first
          status        \* the answer to each caller's latest call

vars == <<queue, status>>

Statuses == {"none", "ok", "failed"}

Init == /\ queue = <<>>
        /\ status = [c \in Callers |-> "none"]

\* A goroutine with no call outstanding makes one.
Request(c) == /\ ~Contains(queue, c)
              /\ queue' = Append(queue, c)
              /\ status' = [status EXCEPT ![c] = "none"]

\* The oldest call, and no other, is answered.
Answer == /\ queue # <<>>
          /\ queue' = Tail(queue)
          /\ \E s \in Statuses \ {"none"} :
                status' = [status EXCEPT ![Head(queue)] = s]

Next == (\E c \in Callers : Request(c)) \/ Answer

Spec == Init /\ [][Next]_vars /\ WF_vars(Answer)
=============================================================================
