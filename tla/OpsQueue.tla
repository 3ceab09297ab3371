------------------------------ MODULE OpsQueue ------------------------------
(***************************************************************************)
(* The operations queue of pkg/utils/opsqueue.go: any number of goroutines *)
(* enqueue operations, one worker goroutine runs them.  PCTransport,       *)
(* ParticipantImpl and Room hand their callbacks to such a queue, so what  *)
(* the queue promises is what those components may assume.                 *)
(*                                                                         *)
(* The mutex makes Enqueue, Stop and each inspection of the queue by the   *)
(* worker one atomic step; receiving from the wake channel and running an  *)
(* operation happen outside the mutex and are steps of their own.          *)
(***************************************************************************)
EXTENDS Naturals, Sequences

CONSTANTS
  Op,          (* The operations callers may enqueue.                      *)
  MaxAccepted  (* Bound: number of operations accepted in a behaviour.     *)

ASSUME MaxAcceptedAssumption == MaxAccepted \in Nat

VARIABLES
  flushOnStop, (* OpsQueueParams.FlushOnStop, given when it is created     *)
  ops,       (* the deque                                                  *)
  wake,      (* number of tokens in the wake channel, which has one slot   *)
  isStarted,
  isStopped, (* Stop also closes wake, under the same lock                 *)
  pc,        (* where process() is: see Pc                                 *)
  accepted,  (* history: operations Enqueue pushed, in order               *)
  executed   (* history: operations the worker popped and ran, in order    *)

vars == <<flushOnStop, ops, wake, isStarted, isStopped, pc, accepted, executed>>

(* "none": process() not started; "waiting": blocked in <-wake; "checking":*)
(* about to take the lock in the inner loop; "running": inside op.run();   *)
(* "done": doneChan is closed.                                             *)
Pc == {"none", "waiting", "checking", "running", "done"}

TypeOK ==
  /\ flushOnStop \in BOOLEAN
  /\ ops \in Seq(Op)
  /\ wake \in 0..1
  /\ isStarted \in BOOLEAN
  /\ isStopped \in BOOLEAN
  /\ pc \in Pc
  /\ accepted \in Seq(Op)
  /\ executed \in Seq(Op)

Init ==
  /\ flushOnStop \in BOOLEAN
  /\ ops = <<>>
  /\ wake = 0
  /\ isStarted = FALSE
  /\ isStopped = FALSE
  /\ pc = "none"
  /\ accepted = <<>>
  /\ executed = <<>>

Start ==
  /\ ~isStarted
  /\ isStarted' = TRUE
  /\ pc' = "waiting"
  /\ UNCHANGED <<flushOnStop, ops, wake, isStopped, accepted, executed>>

Stop ==
  /\ ~isStopped
  /\ isStopped' = TRUE
  /\ UNCHANGED <<flushOnStop, ops, wake, isStarted, pc, accepted, executed>>

(* Mutant: the token is offered only when an operation is already queued.  *)
EnqueueWakesLate(op) ==
  /\ ~isStopped
  /\ Len(accepted) < MaxAccepted
  /\ ops' = Append(ops, op)
  /\ wake' = IF Len(ops) = 1 THEN 1 ELSE wake
  /\ accepted' = Append(accepted, op)
  /\ UNCHANGED <<flushOnStop, isStarted, isStopped, pc, executed>>

(* The token is offered only when the queue was empty, and dropped when    *)
(* the slot is taken.                                                      *)
Enqueue(op) ==
  /\ ~isStopped
  /\ Len(accepted) < MaxAccepted
  /\ ops' = Append(ops, op)
  /\ wake' = IF Len(ops') = 1 THEN 1 ELSE wake
  /\ accepted' = Append(accepted, op)
  /\ UNCHANGED <<flushOnStop, isStarted, isStopped, pc, executed>>

(* Mutant: the worker wakes only for a token, not for the closed channel.  *)
WakeOnTokenOnly ==
  /\ pc = "waiting"
  /\ wake = 1
  /\ wake' = 0
  /\ pc' = "checking"
  /\ UNCHANGED <<flushOnStop, ops, isStarted, isStopped, accepted, executed>>

(* <-wake: takes the token, or returns at once from the closed channel.    *)
Wake ==
  /\ pc = "waiting"
  /\ wake = 1 \/ isStopped
  /\ wake' = 0
  /\ pc' = "checking"
  /\ UNCHANGED <<flushOnStop, ops, isStarted, isStopped, accepted, executed>>

(* Mutant: a stopped worker returns without looking at FlushOnStop.        *)
MustReturnIgnoringFlush == isStopped

MustReturn == isStopped /\ (~flushOnStop \/ ops = <<>>)

Return ==
  /\ pc = "checking"
  /\ MustReturn
  /\ pc' = "done"
  /\ UNCHANGED <<flushOnStop, ops, wake, isStarted, isStopped, accepted, executed>>

GoBackToSleep ==
  /\ pc = "checking"
  /\ ~MustReturn
  /\ ops = <<>>
  /\ pc' = "waiting"
  /\ UNCHANGED <<flushOnStop, ops, wake, isStarted, isStopped, accepted, executed>>

PopFront ==
  /\ pc = "checking"
  /\ ~MustReturn
  /\ ops # <<>>
  /\ ops' = Tail(ops)
  /\ executed' = Append(executed, Head(ops))
  /\ pc' = "running"
  /\ UNCHANGED <<flushOnStop, wake, isStarted, isStopped, accepted>>

RunCompletes ==
  /\ pc = "running"
  /\ pc' = "checking"
  /\ UNCHANGED <<flushOnStop, ops, wake, isStarted, isStopped, accepted, executed>>

Process == Wake \/ Return \/ GoBackToSleep \/ PopFront \/ RunCompletes

Next ==
  \/ Start
  \/ Stop
  \/ \E op \in Op : Enqueue(op)
  \/ Process

Spec == Init /\ [][Next]_vars

(* The worker goroutine is scheduled, and every operation returns.         *)
FairSpec == Spec /\ WF_vars(Process)

-----------------------------------------------------------------------------

(* The worker never sleeps on a non-empty queue without a token that will  *)
(* wake it: the length test in Enqueue (line 127) loses no wakeup although *)
(* the worker drains the queue without consuming the token.                *)
NoLostWakeup ==
  pc \in {"none", "waiting"} /\ ops # <<>> => wake = 1 \/ isStopped

(* Operations run in the order in which they were accepted, none twice and *)
(* none skipped, whatever callers and the worker interleave.               *)
Fifo == executed \o ops = accepted

(* A queue created with FlushOnStop never closes doneChan (line 136) while *)
(* an operation it accepted has not run: whoever waits for <-Stop() knows  *)
(* that every accepted operation has happened.                             *)
FlushedWhenDone == flushOnStop /\ pc = "done" => executed = accepted

(* The executor is started when the worker exists, and what it has         *)
(* accepted is what ran and what the deque still holds.                    *)
Executor == INSTANCE SerialExecutor
              WITH isStarted <- (pc # "none"), accepted <- (executed \o ops)

(* The deque, the wake channel and the worker together are a serial        *)
(* executor: every step is a step of it or none, and an accepted operation *)
(* of a started queue does run, unless the queue was stopped without       *)
(* FlushOnStop.  This is what the transport, the participant and the room  *)
(* assume of their queues.                                                 *)
ImplementsSerialExecutor == Executor!Spec

(* Stop of a started queue lets its worker return, so the caller waiting   *)
(* for doneChan (PCTransport.Close) is released.                           *)
StopReturns == isStarted /\ isStopped ~> pc = "done"
=============================================================================
