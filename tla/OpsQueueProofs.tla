--------------------------- MODULE OpsQueueProofs ---------------------------
(***************************************************************************)
(* Proofs that the operations queue keeps its order, loses no wakeup and,  *)
(* with FlushOnStop, drops nothing, and that it implements a serial        *)
(* executor, for every set of operations and every number of them.         *)
(***************************************************************************)
EXTENDS OpsQueue, SequenceTheorems, TLAPS

(* The inductive invariant: the safety properties, and what the worker's   *)
(* position says about the start and stop flags.                           *)
IInv ==
  /\ TypeOK
  /\ Fifo
  /\ NoLostWakeup
  /\ pc = "none" <=> ~isStarted
  /\ pc = "done" => MustReturn

(* Pushing at the back of the queue extends the accepted history.          *)
LEMMA ConcatAppend ==
  ASSUME NEW S, NEW s \in Seq(S), NEW t \in Seq(S), NEW e \in S
  PROVE  s \o Append(t, e) = Append(s \o t, e)
  OBVIOUS

(* Moving the head of the queue to the end of the executed history leaves  *)
(* their concatenation unchanged.                                          *)
LEMMA ConcatMoveHead ==
  ASSUME NEW S, NEW s \in Seq(S), NEW t \in Seq(S), t # <<>>
  PROVE  Append(s, Head(t)) \o Tail(t) = s \o t
  OBVIOUS

(* A new queue satisfies the invariant.                                    *)
LEMMA InitIInv == Init => IInv
<1> SUFFICES ASSUME Init PROVE IInv
  OBVIOUS
<1>1. TypeOK
  <2>1. <<>> \in Seq(Op)
    BY EmptySeq
  <2>2. wake \in 0..1
    BY DEF Init
  <2> QED
    BY <2>1, <2>2, Zenon DEF Init, TypeOK, Pc
<1>2. Fifo
  BY DEF Init, Fifo
<1> QED
  BY <1>1, <1>2 DEF Init, IInv, NoLostWakeup

(* Every step of a caller or of the worker keeps the invariant.            *)
LEMMA NextIInv == IInv /\ [Next]_vars => IInv'
<1> SUFFICES ASSUME IInv, [Next]_vars PROVE IInv'
  OBVIOUS
<1> USE DEF IInv, TypeOK, Pc
<1>1. CASE Start
  BY <1>1 DEF Start, Fifo, NoLostWakeup, MustReturn
<1>2. CASE Stop
  BY <1>2 DEF Stop, Fifo, NoLostWakeup, MustReturn
<1>3. ASSUME NEW op \in Op, Enqueue(op) PROVE IInv'
  <2>1. TypeOK'
    BY <1>3 DEF Enqueue
  <2>2. Fifo'
    BY <1>3, ConcatAppend DEF Enqueue, Fifo
  <2>3. NoLostWakeup'
    <3>1. CASE ops = <<>>
      <4>1. Len(ops') = 1
        BY <1>3, <3>1 DEF Enqueue
      <4> QED
        BY <1>3, <4>1 DEF Enqueue, NoLostWakeup
    <3>2. CASE ops # <<>>
      BY <1>3, <3>2 DEF Enqueue, NoLostWakeup
    <3> QED
      BY <3>1, <3>2
  <2>4. (pc = "none" <=> ~isStarted)' /\ (pc = "done" => MustReturn)'
    BY <1>3 DEF Enqueue, MustReturn
  <2> QED
    BY <2>1, <2>2, <2>3, <2>4
<1>4. CASE Wake
  BY <1>4 DEF Wake, Fifo, NoLostWakeup
<1>5. CASE Return
  BY <1>5 DEF Return, Fifo, NoLostWakeup, MustReturn
<1>6. CASE GoBackToSleep
  BY <1>6 DEF GoBackToSleep, Fifo, NoLostWakeup
<1>7. CASE PopFront
  <2>1. Tail(ops) \in Seq(Op) /\ Head(ops) \in Op
    BY <1>7 DEF PopFront
  <2>2. TypeOK'
    BY <1>7, <2>1 DEF PopFront
  <2>3. Fifo'
    BY <1>7, ConcatMoveHead DEF PopFront, Fifo
  <2> QED
    BY <1>7, <2>2, <2>3 DEF PopFront, NoLostWakeup
<1>8. CASE RunCompletes
  BY <1>8 DEF RunCompletes, Fifo, NoLostWakeup
<1>9. CASE UNCHANGED vars
  BY <1>9 DEF vars, Fifo, NoLostWakeup, MustReturn
<1> QED
  BY <1>1, <1>2, <1>3, <1>4, <1>5, <1>6, <1>7, <1>8, <1>9 DEF Next, Process

(* The invariant holds in every reachable state.                           *)
THEOREM AlwaysIInv == Spec => []IInv
  BY InitIInv, NextIInv, PTL DEF Spec

(* The deque, the channels and the flags keep their types (struct          *)
(* opsQueueBase, line 71).                                                 *)
THEOREM TypeCorrect == Spec => []TypeOK
<1>1. IInv => TypeOK
  BY DEF IInv
<1> QED
  BY <1>1, AlwaysIInv, PTL

(* Enqueue and process keep the order of acceptance, for every number of   *)
(* callers and operations.                                                 *)
THEOREM QueueIsFifo == Spec => []Fifo
<1>1. IInv => Fifo
  BY DEF IInv
<1> QED
  BY <1>1, AlwaysIInv, PTL

(* The one-slot wake channel written only on the empty-to-one transition   *)
(* (line 127) suffices: the worker never sleeps on queued work.            *)
THEOREM NoWakeupIsLost == Spec => []NoLostWakeup
<1>1. IInv => NoLostWakeup
  BY DEF IInv
<1> QED
  BY <1>1, AlwaysIInv, PTL

(* With FlushOnStop the worker returns only when every accepted operation  *)
(* has run (the test at line 142).                                         *)
THEOREM StopFlushes == Spec => []FlushedWhenDone
<1>1. IInv => FlushedWhenDone
  BY ConcatEmptySeq
     DEF IInv, TypeOK, Fifo, FlushedWhenDone, MustReturn
<1> QED
  BY <1>1, AlwaysIInv, PTL


(* The head of the queue is the operation accepted first among those that  *)
(* have not run.                                                           *)
LEMMA HeadIsNext ==
  ASSUME NEW S, NEW s \in Seq(S), NEW t \in Seq(S), t # <<>>
  PROVE  /\ Len(s) < Len(s \o t)
         /\ Head(t) = (s \o t)[Len(s) + 1]
  OBVIOUS

(* Every step of the queue is a step of the serial executor or leaves its  *)
(* variables alone: popping (line 151) runs the next accepted operation,   *)
(* and waking, sleeping and returning are invisible.                       *)
LEMMA NextImplements == IInv /\ [Next]_vars => [Executor!Next]_(Executor!vars)
<1> SUFFICES ASSUME IInv, [Next]_vars PROVE [Executor!Next]_(Executor!vars)
  OBVIOUS
<1> USE DEF Executor!vars, Executor!Next
<1>a. executed \o ops = accepted
  BY DEF IInv, Fifo
<1>b. (executed \o ops)' = accepted'
  BY NextIInv DEF IInv, Fifo
<1>c. /\ (pc # "none") = isStarted
      /\ (pc # "none")' = isStarted'
  <2>1. IInv'
    BY NextIInv
  <2> QED BY <2>1 DEF IInv, TypeOK
<1>1. CASE Start
  BY <1>a, <1>b, <1>c, <1>1 DEF Start, Executor!Start
<1>2. CASE Stop
  BY <1>a, <1>b, <1>c, <1>2 DEF Stop, Executor!Stop
<1>3. ASSUME NEW op \in Op, Enqueue(op) PROVE Executor!Accept(op)
  BY <1>a, <1>b, <1>c, <1>3 DEF Enqueue, Executor!Accept
<1>4. CASE Wake \/ Return \/ GoBackToSleep \/ RunCompletes
  BY <1>a, <1>b, <1>c, <1>4 DEF Wake, Return, GoBackToSleep, RunCompletes
<1>5. CASE PopFront
  <2>1. ops # <<>> /\ isStarted
    BY <1>5 DEF PopFront, IInv
  <2>2. Len(executed) < Len(accepted) /\ Head(ops) = accepted[Len(executed) + 1]
    BY <2>1, HeadIsNext DEF IInv, TypeOK, Fifo
  <2> QED BY <1>a, <1>b, <1>c, <1>5, <2>1, <2>2 DEF PopFront, Executor!Run
<1>6. CASE UNCHANGED vars
  BY <1>a, <1>b, <1>c, <1>6 DEF vars
<1> QED BY <1>1, <1>2, <1>3, <1>4, <1>5, <1>6 DEF Next, Process

(* The operations queue implements the serial executor that its owners     *)
(* assume, for every set of operations (its liveness is model-checked).    *)
THEOREM QueueIsSerial == Spec => Executor!SafeSpec
<1>1. Init => Executor!Init
  BY DEF Init, Executor!Init
<1> QED
  BY <1>1, NextImplements, AlwaysIInv, PTL DEF Spec, Executor!SafeSpec
=============================================================================
