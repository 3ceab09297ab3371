--------------------------- MODULE SerialExecutor ---------------------------
(***************************************************************************)
(* What pkg/utils/opsqueue.go promises to the components that own a queue: *)
(* accepted operations run one by one in the order of their acceptance,    *)
(* nothing is accepted after Stop, and an accepted operation does run,     *)
(* unless the queue was stopped without FlushOnStop.  No deque, no wake    *)
(* channel and no worker: module OpsQueue is shown to implement this.      *)
(***************************************************************************)
EXTENDS Naturals, Sequences

CONSTANTS
  Op,          (* The operations callers may enqueue.                      *)
  MaxAccepted  (* Bound: number of operations accepted in a behaviour.     *)

VARIABLES flushOnStop, isStarted, isStopped, accepted, executed

vars == <<flushOnStop, isStarted, isStopped, accepted, executed>>

Init ==
  /\ flushOnStop \in BOOLEAN
  /\ isStarted = FALSE /\ isStopped = FALSE
  /\ accepted = <<>> /\ executed = <<>>

Start ==
  /\ ~isStarted
  /\ isStarted' = TRUE
  /\ UNCHANGED <<flushOnStop, isStopped, accepted, executed>>

Stop ==
  /\ ~isStopped
  /\ isStopped' = TRUE
  /\ UNCHANGED <<flushOnStop, isStarted, accepted, executed>>

Accept(op) ==
  /\ ~isStopped
  /\ Len(accepted) < MaxAccepted
  /\ accepted' = Append(accepted, op)
  /\ UNCHANGED <<flushOnStop, isStarted, isStopped, executed>>

(* The operation that was accepted first among those that have not run.    *)
Run ==
  /\ isStarted
  /\ Len(executed) < Len(accepted)
  /\ executed' = Append(executed, accepted[Len(executed) + 1])
  /\ UNCHANGED <<flushOnStop, isStarted, isStopped, accepted>>

(* Running is due as long as the queue does not drop what it holds.        *)
RunIsDue == Run /\ (flushOnStop \/ ~isStopped)

Next ==
  \/ Start \/ Stop
  \/ \E op \in Op : Accept(op)
  \/ Run

SafeSpec == Init /\ [][Next]_vars

Spec == SafeSpec /\ WF_vars(RunIsDue)
=============================================================================
