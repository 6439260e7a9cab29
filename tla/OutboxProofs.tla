---------------------------- MODULE OutboxProofs ----------------------------
(***************************************************************************)
(* Theorems about Outbox, for any number of events, workers, consumers and *)
(* any kind and number of faults: effects happen once; the attempts of an  *)
(* event only grow, a settled row stays as it is, it is published only when*)
(* its subscribers have answered and is reported at most once, and two     *)
(* workers own it only where a lease lapsed or an orphan worked; together, *)
(* that the outbox implements EventDelivery. Attempts past the ceiling are *)
(* counted against the faults, by Paid.                                    *)
(***************************************************************************)
EXTENDS Outbox, FiniteSetTheorems, TLAPS

-----------------------------------------------------------------------------
(* Types.                                                                  *)

\* The tasks a claim opens are task identifiers.
LEMMA ClaimOfType ==
  ASSUME TypeOK, NEW S \in SUBSET Claimable,
         \A e \in S : outbox[e].attempt_count < MaxClaims
  PROVE  ClaimOf(S) \in SUBSET TaskIds
  BY BoundAssumption DEF TypeOK, Row, ClaimOf, TaskIds, Claimable

\* A fault and its absence keep the fault counter within its bound.
LEMMA FaultType ==
  ASSUME TypeOK, NEW kind, Fault(kind) \/ NoFault
  PROVE  faults' \in 0..MaxFaults
  BY BoundAssumption DEF TypeOK, Fault, NoFault

\* Changing one field of a task, or settling it, leaves a task.
LEMMA TaskFields ==
  ASSUME NEW r \in Task
  PROVE  /\ \A pc \in Pcs : [r EXCEPT !.pc = pc] \in Task
         /\ [r EXCEPT !.lapsed = TRUE] \in Task
         /\ \A o \in Outcomes : [r EXCEPT !.pc = "mark", !.outcome = o] \in Task
         /\ [r EXCEPT !.pc = "run", !.k = @ + 1] \in Task
         /\ \A pc \in Pcs : [r EXCEPT !.pc = pc, !.k = 1, !.outcome = "skipped"] \in Task
<1>1. r \in [pc : Pcs, worker : Workers \cup {Nobody}, k : Nat \ {0}, outcome : Outcomes,
            batch : SUBSET TaskIds, lapsed : BOOLEAN]
  BY DEF Task
<1>2. "mark" \in Pcs /\ "run" \in Pcs BY DEF Pcs, Working
<1>3. r.k + 1 \in Nat \ {0} BY <1>1
<1>4. "skipped" \in Outcomes /\ 1 \in Nat \ {0} BY DEF Outcomes
<1>5. ASSUME NEW pc \in Pcs
      PROVE  /\ [r EXCEPT !.pc = pc] \in Task
             /\ [r EXCEPT !.pc = pc, !.k = 1, !.outcome = "skipped"] \in Task
  <2>1. [r EXCEPT !.pc = pc] \in Task BY <1>1, <1>5 DEF Task
  <2>2. [r EXCEPT !.pc = pc, !.k = 1, !.outcome = "skipped"] \in Task
    BY <1>1, <1>4, <1>5 DEF Task
  <2> QED BY <2>1, <2>2
<1>6. [r EXCEPT !.lapsed = TRUE] \in Task BY <1>1 DEF Task
<1>7. ASSUME NEW o \in Outcomes
      PROVE  [r EXCEPT !.pc = "mark", !.outcome = o] \in Task
  BY <1>1, <1>2, <1>7 DEF Task
<1>8. [r EXCEPT !.pc = "run", !.k = @ + 1] \in Task BY <1>1, <1>2, <1>3 DEF Task
<1> QED BY <1>5, <1>6, <1>7, <1>8

\* So do the updates the actions make of one task.
LEMMA TaskUpdates ==
  ASSUME TypeOK, NEW t \in TaskIds,
         \/ \E pc \in Pcs : Step(t, pc) \/ Finish(t, pc)
         \/ NextConsumer(t)
         \/ \E o \in Outcomes :
              task' = [task EXCEPT ![t].pc = "mark", ![t].outcome = o]
         \/ UNCHANGED task
  PROVE  task' \in [TaskIds -> Task]
<1>1. task \in [TaskIds -> Task] /\ task[t] \in Task BY DEF TypeOK
<1>2. ASSUME NEW pc \in Pcs, Step(t, pc) PROVE task' \in [TaskIds -> Task]
  <2>1. task' = [task EXCEPT ![t] = [task[t] EXCEPT !.pc = pc]] BY <1>2 DEF Step
  <2>2. [task[t] EXCEPT !.pc = pc] \in Task BY <1>1, TaskFields
  <2> QED BY <1>1, <2>1, <2>2
<1>3. ASSUME NEW pc \in Pcs, Finish(t, pc) PROVE task' \in [TaskIds -> Task]
  <2>1. task' = [task EXCEPT ![t] = [task[t] EXCEPT !.pc = pc, !.k = 1,
                                                   !.outcome = "skipped"]]
    BY <1>1, <1>3 DEF Finish
  <2>2. [task[t] EXCEPT !.pc = pc, !.k = 1, !.outcome = "skipped"] \in Task
    BY <1>1, TaskFields
  <2> QED BY <1>1, <2>1, <2>2
<1>4. CASE NextConsumer(t)
  <2>1. task' = [task EXCEPT ![t] = [task[t] EXCEPT !.pc = "run", !.k = @ + 1]]
    BY <1>1, <1>4 DEF NextConsumer
  <2>2. [task[t] EXCEPT !.pc = "run", !.k = @ + 1] \in Task BY <1>1, TaskFields
  <2> QED BY <1>1, <2>1, <2>2
<1>5. ASSUME NEW o \in Outcomes, task' = [task EXCEPT ![t].pc = "mark", ![t].outcome = o]
      PROVE  task' \in [TaskIds -> Task]
  <2>1. task' = [task EXCEPT ![t] = [task[t] EXCEPT !.pc = "mark", !.outcome = o]]
    BY <1>1, <1>5
  <2>2. [task[t] EXCEPT !.pc = "mark", !.outcome = o] \in Task BY <1>1, TaskFields
  <2> QED BY <1>1, <2>1, <2>2
<1> QED BY <1>1, <1>2, <1>3, <1>4, <1>5

\* Giving up the claim of a row, to any status that is not claimed, leaves rows
\* that satisfy the CHECKs.
RowBecomes(e, status) ==
  outbox' = [outbox EXCEPT ![e].status = status, ![e].claimed_by = Nobody]

\* A step that moves one row to a new status keeps the table well typed.
LEMMA RowUpdate ==
  ASSUME TypeOK, NEW e \in Events,
         NEW status \in {"pending", "published", "dead_letter"},
         RowBecomes(e, status)
  PROVE  /\ outbox' \in [Events -> Row]
         /\ \A f \in Events :
              (outbox'[f].status = "claimed") <=> (outbox'[f].claimed_by # Nobody)
<1>1. outbox \in [Events -> Row] BY DEF TypeOK
<1>2. outbox' = [outbox EXCEPT ![e] = [outbox[e] EXCEPT !.status = status,
                                                        !.claimed_by = Nobody]]
  BY <1>1 DEF RowBecomes
<1>3. [outbox[e] EXCEPT !.status = status, !.claimed_by = Nobody] \in Row
  BY <1>1 DEF Row
<1> QED BY <1>1, <1>2, <1>3 DEF TypeOK, Row

\* The initial state is well typed.
LEMMA InitTypeOK == Init => TypeOK
  BY BoundAssumption, ClaimantAssumption
  DEF Init, TypeOK, Row, Task, Pcs, NoTask, NewTask, Outcomes, Working, Settled

\* Every step keeps the types.
LEMMA StepTypeOK == TypeOK /\ [Next]_vars => TypeOK'
<1> SUFFICES ASSUME TypeOK, [Next]_vars PROVE TypeOK' OBVIOUS
<1> USE ClaimantAssumption, BoundAssumption
<1>1. CASE UNCHANGED vars
  BY <1>1 DEF TypeOK, vars
<1>2. CASE Producer
  <2>1. PICK e \in Events : PublishEvent(e) BY <1>2 DEF Producer
  <2> QED BY <2>1 DEF PublishEvent, NoFault, consumed, TypeOK, Row
<1>3. CASE Clock
  <2>1. PICK e \in Events : BecomeDue(e) \/ LeaseLapses(e) BY <1>3 DEF Clock
  <2>2. CASE BecomeDue(e)
    BY <2>2 DEF BecomeDue, NoFault, consumed, TypeOK, Row
  <2>3. CASE LeaseLapses(e)
    <3>1. faults' \in 0..MaxFaults BY <2>3, FaultType DEF LeaseLapses
    <3>2. task' \in [TaskIds -> Task]
      <4> DEFINE u == <<e, outbox[e].attempt_count>>
      <4>1. task' = [task EXCEPT ![u] = [task[u] EXCEPT !.lapsed = TRUE]]
        BY <2>3 DEF LeaseLapses
      <4>2. u \in TaskIds => [task[u] EXCEPT !.lapsed = TRUE] \in Task
        BY TaskFields DEF TypeOK
      <4> HIDE DEF u
      <4> QED BY <4>1, <4>2 DEF TypeOK
    <3> QED BY <2>3, <3>1, <3>2 DEF LeaseLapses, consumed, TypeOK
  <2> QED BY <2>1, <2>2, <2>3
<1>4. ASSUME NEW w \in Workers, Claims(w) PROVE TypeOK'
  <2>1. PICK S \in SUBSET Claimable :
          ProcessOutboxBatch(w, S) \/ ClaimAnswerLost(w, S) BY <1>4 DEF Claims
  <2>2. ClaimRows(w, S) BY <2>1 DEF ProcessOutboxBatch, ClaimAnswerLost
  <2>3. ClaimOf(S) \in SUBSET TaskIds BY <2>2, ClaimOfType DEF ClaimRows
  <2>4. faults' \in 0..MaxFaults
    BY <2>1, FaultType DEF ProcessOutboxBatch, ClaimAnswerLost
  <2>5. task' \in [TaskIds -> Task]
    <3>1. PICK pc \in Pcs : OpenTasks(w, S, pc)
      BY <2>1 DEF ProcessOutboxBatch, ClaimAnswerLost, Pcs, Settled
    <3>2. NewTask(pc, w, ClaimOf(S)) \in Task
      BY <2>3 DEF NewTask, Task, Outcomes
    <3> QED BY <3>1, <3>2 DEF OpenTasks, TypeOK
  <2>6. current' \in [Workers -> SUBSET TaskIds]
    BY <2>1, <2>3 DEF ProcessOutboxBatch, ClaimAnswerLost, TypeOK
  <2>7. /\ outbox' \in [Events -> Row]
        /\ \A e \in Events :
             (outbox'[e].status = "claimed") <=> (outbox'[e].claimed_by # Nobody)
    BY <2>2 DEF ClaimRows, TypeOK, Row
  <2>8. /\ due' \subseteq {e \in Events : outbox'[e].status = "pending"}
        /\ stale' \subseteq {e \in Events : outbox'[e].status = "claimed"}
    BY <2>2 DEF ClaimRows, TypeOK
  <2> QED BY <2>1, <2>4, <2>5, <2>6, <2>7, <2>8
          DEF ProcessOutboxBatch, ClaimAnswerLost, consumed, TypeOK
<1>5. ASSUME NEW w \in Workers, Process(w) PROVE TypeOK'
  <2>1. faults' \in 0..MaxFaults
    BY <1>5, FaultType DEF Process, Crash, Stop, Exit, Restart
  <2>2. task' \in [TaskIds -> Task]
    <3>1. CASE Halt(w)
      <4>1. \A t \in TaskIds :
              [task[t] EXCEPT !.pc = "gone", !.k = 1, !.outcome = "skipped"] \in Task
        BY TaskFields DEF TypeOK, Pcs, Settled
      <4> QED BY <3>1, <4>1 DEF Halt, TypeOK
    <3> QED BY <1>5, <3>1 DEF Process, Crash, Stop, Exit, Restart, TypeOK
  <2> QED BY <1>5, <2>1, <2>2
          DEF Process, Crash, Stop, Exit, Restart, Halt, TypeOK, rows, consumed
<1>6. ASSUME NEW t \in TaskIds, TaskStep(t) PROVE TypeOK'
  <2>0. EventOf(t) \in Events BY DEF TaskIds, EventOf
  <2>1. CASE TakeItem(t)
    <3>1. task' \in [TaskIds -> Task] BY <2>1, TaskUpdates DEF TakeItem, Pcs, Working
    <3> QED BY <2>1, <3>1 DEF TakeItem, NoFault, TypeOK, rows, consumed
  <2>2. CASE RunConsumer(t)
    <3>1. faults' \in 0..MaxFaults
      BY <2>2, FaultType DEF RunConsumer, RefuseVersion, Handle, HandlerUniqueViolation,
         InsertMarker, AlreadyProcessed, ConsumerCommits, CommitAnswerLost, ConsumerThrows
    <3>2. task' \in [TaskIds -> Task]
      BY <2>2, TaskUpdates
         DEF RunConsumer, RefuseVersion, Handle, HandlerUniqueViolation, InsertMarker,
             AlreadyProcessed, ConsumerCommits, CommitAnswerLost, ConsumerThrows, Pcs, Working
    <3>3. /\ processed' \in [Keys -> Outcomes \cup {"none"}]
          /\ effects' \in [Keys -> Nat]
      <4>1. task[t].outcome \in Outcomes BY DEF TypeOK, Task
      <4> QED BY <2>2, <4>1
              DEF RunConsumer, RefuseVersion, Handle, HandlerUniqueViolation, InsertMarker,
                  AlreadyProcessed, ConsumerCommits, CommitAnswerLost, ConsumerThrows,
                  CommitConsumer, TypeOK, consumed
    <3> QED BY <2>2, <3>1, <3>2, <3>3
            DEF RunConsumer, RefuseVersion, Handle, HandlerUniqueViolation, InsertMarker,
                AlreadyProcessed, ConsumerCommits, CommitAnswerLost, ConsumerThrows,
                TypeOK, rows
  <2>3. CASE CompleteStep(t)
    <3>1. faults' \in 0..MaxFaults
      BY <2>3, FaultType DEF CompleteStep, CompleteOutboxEvent, CompleteRefused,
         CompleteDatabaseError, CompleteAnswerLost
    <3>2. task' \in [TaskIds -> Task]
      BY <2>3, TaskUpdates
         DEF CompleteStep, CompleteOutboxEvent, CompleteRefused, CompleteDatabaseError,
             CompleteAnswerLost, Pcs, Working, Settled
    <3>3. CASE PublishRow(t) /\ UNCHANGED <<consumed, error_records, proc, current>>
      <4>1. /\ outbox' \in [Events -> Row]
            /\ \A e \in Events :
                 (outbox'[e].status = "claimed") <=> (outbox'[e].claimed_by # Nobody)
        <5>1. RowBecomes(EventOf(t), "published") BY <3>3 DEF PublishRow, RowBecomes
        <5> QED BY <2>0, <5>1, RowUpdate
      <4>2. /\ due' \subseteq {e \in Events : outbox'[e].status = "pending"}
            /\ stale' \subseteq {e \in Events : outbox'[e].status = "claimed"}
        BY <2>0, <3>3 DEF PublishRow, OwnsClaim, TypeOK
      <4> QED BY <3>1, <3>2, <3>3, <4>1, <4>2 DEF PublishRow, TypeOK, consumed
    <3>4. CASE UNCHANGED <<rows, consumed, error_records, proc, current>>
      BY <3>1, <3>2, <3>4 DEF TypeOK, rows, consumed
    <3> QED BY <2>3, <3>3, <3>4 DEF CompleteStep, CompleteOutboxEvent, CompleteRefused,
            CompleteDatabaseError, CompleteAnswerLost
  <2>4. CASE FailStep(t)
    <3>1. faults' \in 0..MaxFaults
      BY <2>4, FaultType DEF FailStep, FailOutboxEvent, FailRefused, FailDatabaseError,
         FailAnswerLost
    <3>2. task' \in [TaskIds -> Task]
      BY <2>4, TaskUpdates
         DEF FailStep, FailOutboxEvent, FailRefused, FailDatabaseError, FailAnswerLost,
             Pcs, Working, Settled
    <3>3. CASE FailRow(t) /\ UNCHANGED <<consumed, error_records, proc, current>>
      <4>1. /\ outbox' \in [Events -> Row]
            /\ \A e \in Events :
                 (outbox'[e].status = "claimed") <=> (outbox'[e].claimed_by # Nobody)
        <5>1. \/ RowBecomes(EventOf(t), "dead_letter")
              \/ RowBecomes(EventOf(t), "pending")
          BY <3>3 DEF FailRow, RowBecomes
        <5> QED BY <2>0, <5>1, RowUpdate
      <4>2. /\ due' \subseteq {e \in Events : outbox'[e].status = "pending"}
            /\ stale' \subseteq {e \in Events : outbox'[e].status = "claimed"}
        BY <2>0, <3>3 DEF FailRow, OwnsClaim, TypeOK
      <4> QED BY <3>1, <3>2, <3>3, <4>1, <4>2 DEF FailRow, TypeOK, consumed
    <3>4. CASE UNCHANGED <<rows, consumed, error_records, proc, current>>
      BY <3>1, <3>2, <3>4 DEF TypeOK, rows, consumed
    <3> QED BY <2>4, <3>3, <3>4 DEF FailStep, FailOutboxEvent, FailRefused,
            FailDatabaseError, FailAnswerLost
  <2>5. CASE RecordStep(t)
    <3>1. faults' \in 0..MaxFaults
      BY <2>5, FaultType DEF RecordStep, RecordDeadLetter, RecordDeadLetterThrows,
         RecordAnswerLost
    <3>2. task' \in [TaskIds -> Task]
      BY <2>5, TaskUpdates
         DEF RecordStep, RecordDeadLetter, RecordDeadLetterThrows, RecordAnswerLost,
             Pcs, Settled
    <3> QED BY <2>5, <3>1, <3>2 DEF RecordStep, RecordDeadLetter, RecordDeadLetterThrows,
            RecordAnswerLost, TypeOK, rows, consumed
  <2> QED BY <1>6, <2>1, <2>2, <2>3, <2>4, <2>5 DEF TaskStep
<1> QED BY <1>1, <1>2, <1>3, <1>4, <1>5, <1>6 DEF Next

\* Every reachable state is well typed and satisfies the CHECKs of the table.
THEOREM TypeCorrect == Spec => []TypeOK
<1>1. Init => TypeOK BY InitTypeOK
<1>2. TypeOK /\ [Next]_vars => TypeOK' BY StepTypeOK
<1> QED BY <1>1, <1>2, PTL DEF Spec

-----------------------------------------------------------------------------
(* Effects take place once.                                                *)

\* A step that commits nothing and brings no task into a transaction.
Quiet ==
  /\ UNCHANGED consumed
  /\ \A u \in TaskIds :
       \/ task'[u].pc = task[u].pc /\ task'[u].k = task[u].k
       \/ task'[u].pc \notin {"mark", "commit"}

\* Settling a task sets its pc.
LEMMA FinishedTask ==
  ASSUME NEW r \in Task, NEW pc
  PROVE  [r EXCEPT !.pc = pc, !.k = 1, !.outcome = "skipped"].pc = pc
  BY DEF Task

\* What the updates of one task do to it, and that they leave the others alone.
LEMMA OneTask ==
  ASSUME TypeOK, NEW t \in TaskIds
  PROVE  /\ \A pc : Step(t, pc) =>
              /\ task'[t].pc = pc /\ task'[t].k = task[t].k
              /\ \A u \in TaskIds \ {t} : task'[u] = task[u]
         /\ \A pc : Finish(t, pc) =>
              /\ task'[t].pc = pc
              /\ \A u \in TaskIds \ {t} : task'[u] = task[u]
         /\ NextConsumer(t) =>
              /\ task'[t].pc = "run" /\ task'[t].k = task[t].k + 1
              /\ \A u \in TaskIds \ {t} : task'[u] = task[u]
<1>1. task \in [TaskIds -> Task] /\ task[t] \in Task BY DEF TypeOK
<1>2. ASSUME NEW pc, Step(t, pc)
      PROVE  /\ task'[t].pc = pc /\ task'[t].k = task[t].k
             /\ \A u \in TaskIds \ {t} : task'[u] = task[u]
  BY <1>1, <1>2 DEF Step, Task
<1>3. ASSUME NEW pc, Finish(t, pc)
      PROVE  /\ task'[t].pc = pc
             /\ \A u \in TaskIds \ {t} : task'[u] = task[u]
  <2>1. task' = [task EXCEPT ![t] = [task[t] EXCEPT !.pc = pc, !.k = 1,
                                                   !.outcome = "skipped"]]
    BY <1>1, <1>3 DEF Finish
  <2>2. [task[t] EXCEPT !.pc = pc, !.k = 1, !.outcome = "skipped"].pc = pc
    BY <1>1, FinishedTask
  <2> QED BY <1>1, <2>1, <2>2
<1>4. ASSUME NextConsumer(t)
      PROVE  /\ task'[t].pc = "run" /\ task'[t].k = task[t].k + 1
             /\ \A u \in TaskIds \ {t} : task'[u] = task[u]
  BY <1>1, <1>4 DEF NextConsumer, Task
<1> QED BY <1>2, <1>3, <1>4

\* Only a handler's transaction is not quiet: it begins, writes its marker or
\* commits.
LEMMA QuietSteps ==
  ASSUME TypeOK, [Next]_vars
  PROVE  \/ Quiet
         \/ \E t \in TaskIds : \/ Handle(t) \/ InsertMarker(t)
                               \/ ConsumerCommits(t) \/ CommitAnswerLost(t)
<1>1. CASE UNCHANGED vars BY <1>1 DEF vars, Quiet, consumed
<1>2. CASE Producer BY <1>2 DEF Producer, PublishEvent, Quiet
<1>3. CASE Clock
  <2>1. PICK e \in Events : BecomeDue(e) \/ LeaseLapses(e) BY <1>3 DEF Clock
  <2>2. CASE BecomeDue(e) BY <2>2 DEF BecomeDue, Quiet
  <2>3. CASE LeaseLapses(e)
    <3> DEFINE t == <<e, outbox[e].attempt_count>>
    <3>1. task' = [task EXCEPT ![t].lapsed = TRUE] BY <2>3 DEF LeaseLapses
    <3>2. \A u \in TaskIds : task'[u].pc = task[u].pc /\ task'[u].k = task[u].k
      <4> HIDE DEF t
      <4> QED BY <3>1 DEF TypeOK, Task
    <3> QED BY <2>3, <3>2 DEF LeaseLapses, Quiet
  <2> QED BY <2>1, <2>2, <2>3
<1>4. ASSUME NEW w \in Workers, Claims(w) PROVE Quiet
  <2>1. PICK S \in SUBSET Claimable :
          ProcessOutboxBatch(w, S) \/ ClaimAnswerLost(w, S) BY <1>4 DEF Claims
  <2>2. UNCHANGED consumed BY <2>1 DEF ProcessOutboxBatch, ClaimAnswerLost
  <2>3. PICK pc \in {"queued", "gone"} : OpenTasks(w, S, pc)
    BY <2>1 DEF ProcessOutboxBatch, ClaimAnswerLost
  <2>4. \A u \in TaskIds : task'[u] = task[u] \/ task'[u].pc = pc
    BY <2>3 DEF OpenTasks, NewTask
  <2> QED BY <2>2, <2>3, <2>4 DEF Quiet
<1>5. ASSUME NEW w \in Workers, Process(w) PROVE Quiet
  <2>1. UNCHANGED consumed
    BY <1>5 DEF Process, Crash, Stop, Exit, Restart, Halt
  <2>2. CASE UNCHANGED task BY <2>1, <2>2 DEF Quiet
  <2>3. CASE Halt(w)
    <3>1. \A u \in TaskIds : task'[u] = task[u] \/ task'[u].pc = "gone"
      BY <2>3, FinishedTask DEF Halt, TypeOK
    <3> QED BY <2>1, <3>1 DEF Quiet
  <2> QED BY <1>5, <2>2, <2>3 DEF Process, Crash, Stop, Exit, Restart
<1>6. ASSUME NEW t \in TaskIds, TaskStep(t), ~Handle(t), ~InsertMarker(t),
             ~ConsumerCommits(t), ~CommitAnswerLost(t)
      PROVE  Quiet
  <2>1. UNCHANGED consumed
    BY <1>6 DEF TaskStep, TakeItem, RunConsumer, RefuseVersion, HandlerUniqueViolation,
       AlreadyProcessed, ConsumerThrows, CompleteStep, CompleteOutboxEvent, CompleteRefused,
       CompleteDatabaseError, CompleteAnswerLost, FailStep, FailOutboxEvent, FailRefused,
       FailDatabaseError, FailAnswerLost, RecordStep, RecordDeadLetter, RecordDeadLetterThrows,
       RecordAnswerLost
  <2>2. \/ \E pc \in {"run", "fail"} : Step(t, pc)
        \/ \E pc \in {"done", "record", "rejected"} : Finish(t, pc)
        \/ NextConsumer(t)
    BY <1>6 DEF TaskStep, TakeItem, RunConsumer, RefuseVersion, HandlerUniqueViolation,
       AlreadyProcessed, ConsumerThrows, CompleteStep, CompleteOutboxEvent, CompleteRefused,
       CompleteDatabaseError, CompleteAnswerLost, FailStep, FailOutboxEvent, FailRefused,
       FailDatabaseError, FailAnswerLost, RecordStep, RecordDeadLetter, RecordDeadLetterThrows,
       RecordAnswerLost
  <2>3. /\ task'[t].pc \notin {"mark", "commit"}
        /\ \A u \in TaskIds \ {t} : task'[u] = task[u]
    BY <2>2, OneTask
  <2> QED BY <2>1, <2>3 DEF Quiet
<1> QED BY <1>1, <1>2, <1>3, <1>4, <1>5, <1>6 DEF Next

\* A quiet step keeps the markers as they are.
LEMMA QuietKeeps ==
  ASSUME OneOpenMarker, EffectOnce, Quiet
  PROVE  OneOpenMarker' /\ EffectOnce'
<1>1. EffectOnce' BY DEF Quiet, EffectOnce, consumed
<1>2. \A u \in TaskIds : task'[u].pc \in {"mark", "commit"} =>
        /\ task[u].pc = task'[u].pc
        /\ HasConsumer(u)' = HasConsumer(u) /\ KeyOf(u)' = KeyOf(u)
        /\ MarkerCommitted(KeyOf(u))' = MarkerCommitted(KeyOf(u))
  BY DEF Quiet, HasConsumer, KeyOf, ConsumerOf, MarkerCommitted, consumed
<1> QED BY <1>1, <1>2 DEF OneOpenMarker

\* The key of a task that is at a consumer is one of the primary key.
LEMMA KeyType ==
  ASSUME TypeOK, NEW t \in TaskIds, HasConsumer(t)
  PROVE  KeyOf(t) \in Keys
<1>1. EventOf(t) \in Events BY DEF EventOf, TaskIds
<1>2. task[t].k \in Nat \ {0} BY DEF TypeOK, Task
<1>3. ConsumersFor[EventOf(t)] \in Seq(Consumers) BY <1>1, SubscriptionAssumption
<1>4. task[t].k \in 1..Len(ConsumersFor[EventOf(t)]) BY <1>2, <1>3 DEF HasConsumer
<1> QED BY <1>1, <1>3, <1>4 DEF KeyOf, ConsumerOf, Keys

\* Every step keeps the open markers apart and the effects beside them.
LEMMA StepEffectOnce ==
  TypeOK /\ OneOpenMarker /\ EffectOnce /\ [Next]_vars => OneOpenMarker' /\ EffectOnce'
<1> SUFFICES ASSUME TypeOK, OneOpenMarker, EffectOnce, [Next]_vars
             PROVE  OneOpenMarker' /\ EffectOnce' OBVIOUS
<1>1. CASE Quiet BY <1>1, QuietKeeps
<1>2. ASSUME NEW t \in TaskIds, Handle(t) PROVE OneOpenMarker' /\ EffectOnce'
  <2>1. EffectOnce' BY <1>2 DEF Handle, EffectOnce, consumed
  <2>2. /\ task'[t].pc = "mark" /\ task'[t].k = task[t].k /\ HasConsumer(t)
        /\ \A u \in TaskIds \ {t} : task'[u] = task[u]
    BY <1>2 DEF Handle, TypeOK, Task
  <2>3. UNCHANGED processed BY <1>2 DEF Handle, consumed
  <2> QED BY <2>1, <2>2, <2>3
          DEF OneOpenMarker, HasConsumer, KeyOf, ConsumerOf, MarkerCommitted
<1>3. ASSUME NEW t \in TaskIds, InsertMarker(t) PROVE OneOpenMarker' /\ EffectOnce'
  <2>1. EffectOnce' BY <1>3 DEF InsertMarker, EffectOnce, consumed
  <2>2. /\ task'[t].pc = "commit" /\ task'[t].k = task[t].k
        /\ \A u \in TaskIds \ {t} : task'[u] = task[u]
    BY <1>3, OneTask DEF InsertMarker
  <2>3. HasConsumer(t) /\ ~MarkerCommitted(KeyOf(t))
    BY <1>3 DEF InsertMarker, OneOpenMarker
  <2>4. \A u \in TaskIds : task[u].pc = "commit" => KeyOf(u) # KeyOf(t)
    BY <1>3 DEF InsertMarker, MarkerPending, OneOpenMarker
  <2>5. UNCHANGED processed BY <1>3 DEF InsertMarker, consumed
  <2>6. \A u \in TaskIds : /\ HasConsumer(u)' = HasConsumer(u) /\ KeyOf(u)' = KeyOf(u)
                           /\ u # t => task'[u].pc = task[u].pc
    BY <2>2 DEF HasConsumer, KeyOf, ConsumerOf
  <2>7. \A u \in TaskIds : task'[u].pc \in {"mark", "commit"} => HasConsumer(u)'
    BY <2>3, <2>6 DEF OneOpenMarker
  <2>8. \A u \in TaskIds : task'[u].pc = "commit" => ~MarkerCommitted(KeyOf(u))'
    BY <2>3, <2>5, <2>6 DEF OneOpenMarker, MarkerCommitted
  <2>9. \A u, v \in TaskIds : (/\ task'[u].pc = "commit" /\ task'[v].pc = "commit"
                                /\ KeyOf(u)' = KeyOf(v)') => u = v
    BY <2>4, <2>6 DEF OneOpenMarker
  <2> QED BY <2>1, <2>7, <2>8, <2>9 DEF OneOpenMarker
<1>4. ASSUME NEW t \in TaskIds, ConsumerCommits(t) \/ CommitAnswerLost(t)
      PROVE  OneOpenMarker' /\ EffectOnce'
  <2>1. /\ task[t].pc = "commit" /\ CommitConsumer(t)
        /\ NextConsumer(t) \/ Step(t, "fail")
    BY <1>4 DEF ConsumerCommits, CommitAnswerLost
  <2>2. /\ task'[t].pc \notin {"mark", "commit"}
        /\ \A u \in TaskIds \ {t} : task'[u] = task[u]
    BY <2>1, OneTask
  <2>3. HasConsumer(t) /\ ~MarkerCommitted(KeyOf(t)) BY <2>1 DEF OneOpenMarker
  <2>4. KeyOf(t) \in Keys BY <2>3, KeyType
  <2>5. task[t].outcome \in Outcomes BY DEF TypeOK, Task
  <2>6. EffectOnce'
    <3>1. effects[KeyOf(t)] = 0 BY <2>3, <2>4 DEF EffectOnce, MarkerCommitted
    <3> QED BY <2>1, <2>4, <2>5, <3>1 DEF CommitConsumer, EffectOnce, TypeOK, Outcomes
  <2>7. \A u \in TaskIds : task'[u].pc \in {"mark", "commit"} =>
          /\ u # t /\ task'[u] = task[u]
          /\ HasConsumer(u)' = HasConsumer(u) /\ KeyOf(u)' = KeyOf(u)
    BY <2>2 DEF HasConsumer, KeyOf, ConsumerOf
  <2>8. \A u \in TaskIds : task'[u].pc = "commit" =>
          ~MarkerCommitted(KeyOf(u))'
    <3> SUFFICES ASSUME NEW u \in TaskIds, task'[u].pc = "commit"
                 PROVE  processed'[KeyOf(u)'] = "none"
      BY DEF MarkerCommitted
    <3>1. task[u].pc = "commit" /\ KeyOf(u) # KeyOf(t) /\ HasConsumer(u)
      BY <2>1, <2>7 DEF OneOpenMarker
    <3>2. KeyOf(u) \in Keys BY <3>1, KeyType
    <3>3. processed[KeyOf(u)] = "none" BY <3>1 DEF OneOpenMarker, MarkerCommitted
    <3> QED BY <2>1, <2>7, <3>1, <3>2, <3>3 DEF CommitConsumer, TypeOK
  <2> QED BY <2>6, <2>7, <2>8 DEF OneOpenMarker
<1> QED BY <1>1, <1>2, <1>3, <1>4, QuietSteps

\* However many workers deliver an event and whatever faults they meet, each
\* consumer's effects on it take place at most once: the two open transactions
\* of a redelivery cannot both commit a marker of the same key.
THEOREM EffectsHappenOnce == Spec => []EffectOnce
<1> DEFINE IInv == TypeOK /\ OneOpenMarker /\ EffectOnce
<1>1. Init => IInv
  <2>1. Init => OneOpenMarker /\ EffectOnce
    BY DEF Init, OneOpenMarker, EffectOnce, NoTask, NewTask
  <2> QED BY <2>1, InitTypeOK
<1>2. IInv /\ [Next]_vars => IInv' BY StepTypeOK, StepEffectOnce
<1>3. IInv => EffectOnce OBVIOUS
<1> QED BY <1>1, <1>2, <1>3, PTL DEF Spec

-----------------------------------------------------------------------------
(* Which steps write rows.                                                 *)

\* A row is written by its producer, a claim, a completion or a failure.
LEMMA RowSteps ==
  ASSUME [Next]_vars
  PROVE  \/ UNCHANGED outbox
         \/ \E e \in Events : PublishEvent(e)
         \/ \E w \in Workers, S \in SUBSET Claimable : ClaimRows(w, S)
         \/ \E t \in TaskIds : /\ Completes(t) /\ PublishRow(t)
                               /\ CompleteOutboxEvent(t) \/ CompleteAnswerLost(t)
         \/ \E t \in TaskIds : /\ FailRow(t)
                               /\ FailOutboxEvent(t) \/ FailAnswerLost(t)
<1>1. CASE UNCHANGED vars BY <1>1 DEF vars
<1>2. CASE Producer BY <1>2 DEF Producer
<1>3. CASE Clock BY <1>3 DEF Clock, BecomeDue, LeaseLapses
<1>4. ASSUME NEW w \in Workers, Claims(w)
      PROVE  \E S \in SUBSET Claimable : ClaimRows(w, S)
  BY <1>4 DEF Claims, ProcessOutboxBatch, ClaimAnswerLost
<1>5. ASSUME NEW w \in Workers, Process(w) PROVE UNCHANGED outbox
  BY <1>5 DEF Process, Crash, Stop, Exit, Restart, Halt, rows
<1>6. ASSUME NEW t \in TaskIds, TaskStep(t)
      PROVE  \/ UNCHANGED outbox
             \/ /\ Completes(t) /\ PublishRow(t)
                /\ CompleteOutboxEvent(t) \/ CompleteAnswerLost(t)
             \/ /\ FailRow(t)
                /\ FailOutboxEvent(t) \/ FailAnswerLost(t)
  <2>1. CASE TakeItem(t) BY <2>1 DEF TakeItem, rows
  <2>2. CASE RunConsumer(t)
    BY <2>2 DEF RunConsumer, RefuseVersion, Handle, HandlerUniqueViolation, InsertMarker,
       AlreadyProcessed, ConsumerCommits, CommitAnswerLost, ConsumerThrows, rows
  <2>3. CASE CompleteStep(t)
    BY <2>3 DEF CompleteStep, CompleteOutboxEvent, CompleteRefused, CompleteDatabaseError,
       CompleteAnswerLost, rows
  <2>4. CASE FailStep(t)
    BY <2>4 DEF FailStep, FailOutboxEvent, FailRefused, FailDatabaseError, FailAnswerLost,
       rows
  <2>5. CASE RecordStep(t)
    BY <2>5 DEF RecordStep, RecordDeadLetter, RecordDeadLetterThrows, RecordAnswerLost, rows
  <2> QED BY <1>6, <2>1, <2>2, <2>3, <2>4, <2>5 DEF TaskStep
<1> QED BY <1>1, <1>2, <1>3, <1>4, <1>5, <1>6 DEF Next

\* The event of a task is an event.
LEMMA EventType == ASSUME NEW t \in TaskIds PROVE EventOf(t) \in Events
  BY DEF TaskIds, EventOf

\* What a step may do to one row.
LEMMA RowChange ==
  ASSUME TypeOK, [Next]_vars, NEW e \in Events, outbox'[e] # outbox[e]
  PROVE  \/ /\ outbox[e].status = "absent" /\ outbox'[e].status = "pending"
            /\ outbox'[e].attempt_count = outbox[e].attempt_count
         \/ /\ outbox[e].status \in {"pending", "claimed"}
            /\ outbox'[e].status = "claimed"
            /\ outbox'[e].attempt_count = outbox[e].attempt_count + 1
         \/ /\ outbox[e].status = "claimed"
            /\ outbox'[e].status \in {"published", "pending", "dead_letter"}
            /\ outbox'[e].attempt_count = outbox[e].attempt_count
<1> USE DEF TypeOK
<1>1. CASE \E f \in Events : PublishEvent(f)
  BY <1>1 DEF PublishEvent, Row
<1>2. CASE \E w \in Workers, S \in SUBSET Claimable : ClaimRows(w, S)
  BY <1>2 DEF ClaimRows, Claimable, Row
<1>3. CASE \E t \in TaskIds : PublishRow(t)
  BY <1>3, EventType DEF PublishRow, OwnsClaim, Row
<1>4. CASE \E t \in TaskIds : FailRow(t)
  BY <1>4, EventType DEF FailRow, OwnsClaim, Row
<1> QED BY <1>1, <1>2, <1>3, <1>4, RowSteps

\* An event never gets an attempt back: each claim counts one and nothing else
\* touches the counter.
THEOREM AttemptsCounted == Spec => AttemptsOnlyGrow
<1>1. TypeOK /\ [Next]_vars =>
        [\A e \in Events :
           \/ outbox'[e].attempt_count = outbox[e].attempt_count
           \/ /\ outbox'[e].attempt_count = outbox[e].attempt_count + 1
              /\ outbox'[e].status = "claimed"]_vars
  BY RowChange
<1> QED BY <1>1, TypeCorrect, PTL DEF Spec, AttemptsOnlyGrow

\* A published or dead-lettered row is never written again, however late the
\* worker of an older claim comes.
THEOREM SettledForGood == Spec => TerminalForever
<1>1. TypeOK /\ [Next]_vars =>
        [\A e \in Events : outbox[e].status \in {"published", "dead_letter"} =>
                             outbox'[e] = outbox[e]]_vars
  BY RowChange
<1> QED BY <1>1, TypeCorrect, PTL DEF Spec, TerminalForever

-----------------------------------------------------------------------------
(* Publication waits for every subscriber.                                 *)

\* A committed marker stays.
LEMMA MarkersStay ==
  ASSUME TypeOK, [Next]_vars, NEW key \in Keys, MarkerCommitted(key)
  PROVE  MarkerCommitted(key)'
<1>1. CASE Quiet BY <1>1 DEF Quiet, consumed, MarkerCommitted
<1>2. ASSUME NEW t \in TaskIds, Handle(t) \/ InsertMarker(t) PROVE MarkerCommitted(key)'
  BY <1>2 DEF Handle, InsertMarker, consumed, MarkerCommitted
<1>3. ASSUME NEW t \in TaskIds, ConsumerCommits(t) \/ CommitAnswerLost(t)
      PROVE  MarkerCommitted(key)'
  <2>1. CommitConsumer(t) BY <1>3 DEF ConsumerCommits, CommitAnswerLost
  <2>2. task[t].outcome \in Outcomes BY DEF TypeOK, Task
  <2> QED BY <2>1, <2>2 DEF CommitConsumer, MarkerCommitted, TypeOK, Outcomes
<1> QED BY <1>1, <1>2, <1>3, QuietSteps

\* Where a step takes a task: nowhere, out of its handlers, to the start of its
\* claim, one pc further, or past a consumer whose marker is committed.
Advances(u) ==
  \/ task'[u].pc = task[u].pc /\ task'[u].k = task[u].k
  \/ task'[u].pc \notin {"queued", "run", "mark", "commit"}
  \/ task'[u].pc = "queued" /\ task'[u].k = 1
  \/ /\ task[u].pc \in {"queued", "run", "mark"}
     /\ task'[u].pc \in {"run", "mark", "commit"}
     /\ task'[u].k = task[u].k
  \/ /\ task[u].pc \in {"run", "mark", "commit"} /\ HasConsumer(u)
     /\ task'[u].pc = "run" /\ task'[u].k = task[u].k + 1
     /\ processed'[KeyOf(u)] # "none"

\* Every step moves a task only along the transitions Advances allows.
LEMMA TasksAdvance ==
  ASSUME TypeOK, OneOpenMarker, "unique" \notin FaultKinds, [Next]_vars
  PROVE  \A u \in TaskIds : Advances(u)
<1>1. CASE UNCHANGED task BY <1>1 DEF Advances
<1>2. CASE Producer BY <1>1, <1>2 DEF Producer, PublishEvent
<1>3. CASE Clock
  <2>1. PICK e \in Events : BecomeDue(e) \/ LeaseLapses(e) BY <1>3 DEF Clock
  <2>2. CASE BecomeDue(e) BY <1>1, <2>2 DEF BecomeDue
  <2>3. CASE LeaseLapses(e)
    <3> DEFINE t == <<e, outbox[e].attempt_count>>
    <3>1. task' = [task EXCEPT ![t].lapsed = TRUE] BY <2>3 DEF LeaseLapses
    <3> HIDE DEF t
    <3> QED BY <3>1 DEF TypeOK, Task, Advances
  <2> QED BY <2>1, <2>2, <2>3
<1>4. ASSUME NEW w \in Workers, Claims(w) PROVE \A u \in TaskIds : Advances(u)
  <2>1. PICK S \in SUBSET Claimable :
          ProcessOutboxBatch(w, S) \/ ClaimAnswerLost(w, S) BY <1>4 DEF Claims
  <2>2. PICK pc \in {"queued", "gone"} : OpenTasks(w, S, pc)
    BY <2>1 DEF ProcessOutboxBatch, ClaimAnswerLost
  <2>3. \A u \in TaskIds : \/ task'[u] = task[u]
                           \/ task'[u].pc = pc /\ task'[u].k = 1
    BY <2>2 DEF OpenTasks, NewTask
  <2> QED BY <2>3 DEF Advances
<1>5. ASSUME NEW w \in Workers, Process(w) PROVE \A u \in TaskIds : Advances(u)
  <2>1. CASE Halt(w)
    <3>1. \A u \in TaskIds : task'[u] = task[u] \/ task'[u].pc = "gone"
      BY <2>1, FinishedTask DEF Halt, TypeOK
    <3> QED BY <3>1 DEF Advances
  <2> QED BY <1>1, <1>5, <2>1 DEF Process, Crash, Stop, Exit, Restart
<1>6. ASSUME NEW t \in TaskIds, TaskStep(t) PROVE \A u \in TaskIds : Advances(u)
  <2> SUFFICES Advances(t) /\ \A u \in TaskIds \ {t} : task'[u] = task[u]
    BY DEF Advances
  <2>1. CASE Handle(t)
    BY <2>1 DEF Handle, TypeOK, Task, Advances
  <2>2. CASE TakeItem(t) \/ InsertMarker(t)
    BY <2>2, OneTask DEF TakeItem, InsertMarker, Advances
  <2>3. CASE AlreadyProcessed(t)
    <3>1. /\ task[t].pc = "mark" /\ HasConsumer(t) /\ NextConsumer(t)
          /\ processed'[KeyOf(t)] # "none"
      BY <2>3 DEF AlreadyProcessed, OneOpenMarker, MarkerCommitted, consumed
    <3> QED BY <3>1, OneTask DEF Advances
  <2>4. CASE ConsumerCommits(t)
    <3>1. task[t].pc = "commit" /\ HasConsumer(t) /\ NextConsumer(t) /\ CommitConsumer(t)
      BY <2>4 DEF ConsumerCommits, OneOpenMarker
    <3>2. KeyOf(t) \in Keys BY <3>1, KeyType
    <3>3. task[t].outcome \in Outcomes BY DEF TypeOK, Task
    <3>4. processed'[KeyOf(t)] # "none"
      BY <3>1, <3>2, <3>3 DEF CommitConsumer, TypeOK, Outcomes
    <3> QED BY <3>1, <3>4, OneTask DEF Advances
  <2>5. ASSUME NEW pc \in {"fail", "done", "record", "rejected"},
               Step(t, pc) \/ Finish(t, pc)
        PROVE  Advances(t) /\ \A u \in TaskIds \ {t} : task'[u] = task[u]
    BY <2>5, OneTask DEF Advances
  <2> QED BY <1>6, <2>1, <2>2, <2>3, <2>4, <2>5
          DEF TaskStep, RunConsumer, RefuseVersion, HandlerUniqueViolation,
              CommitAnswerLost, ConsumerThrows, CompleteStep, CompleteOutboxEvent,
              CompleteRefused, CompleteDatabaseError, CompleteAnswerLost, FailStep,
              FailOutboxEvent, FailRefused, FailDatabaseError, FailAnswerLost, RecordStep,
              RecordDeadLetter, RecordDeadLetterThrows, RecordAnswerLost
<1> QED BY <1>1, <1>2, <1>3, <1>4, <1>5, <1>6 DEF Next, vars

\* The i-th subscriber of an event is a consumer.
LEMMA SubscriberKey ==
  ASSUME NEW e \in Events, NEW i \in 1..Len(ConsumersFor[e])
  PROVE  <<ConsumersFor[e][i], e>> \in Keys
<1>1. ConsumersFor[e] \in Seq(Consumers) BY SubscriptionAssumption
<1> QED BY <1>1 DEF Keys

\* Every step leaves the markers of all subscribers a task has passed.
LEMMA StepMarkersSoFar ==
  ASSUME TypeOK, OneOpenMarker, MarkersSoFar, "unique" \notin FaultKinds, [Next]_vars
  PROVE  MarkersSoFar'
<1>1. ASSUME NEW u \in TaskIds
      PROVE  /\ task[u].k \in Nat \ {0} /\ Len(ConsumersFor[EventOf(u)]) \in Nat
             /\ task[u].pc = "queued" => task[u].k = 1
             /\ Advances(u)
  <2>1. task[u].k \in Nat \ {0} BY DEF TypeOK, Task
  <2>2. ConsumersFor[EventOf(u)] \in Seq(Consumers) BY EventType, SubscriptionAssumption
  <2> QED BY <2>1, <2>2, TasksAdvance DEF MarkersSoFar
<1>2. ASSUME NEW u \in TaskIds PROVE task'[u].pc = "queued" => task'[u].k = 1
  BY <1>1 DEF Advances
<1>3. ASSUME NEW u \in TaskIds, task'[u].pc \in {"run", "mark", "commit"}
      PROVE  /\ task[u].pc \in {"queued", "run", "mark", "commit"}
             /\ task[u].k <= Len(ConsumersFor[EventOf(u)]) + 1
             /\ \/ task'[u].k = task[u].k
                \/ /\ task'[u].k = task[u].k + 1 /\ HasConsumer(u)
                   /\ processed'[KeyOf(u)] # "none"
  BY <1>1, <1>3 DEF Advances, MarkersSoFar
<1>4. ASSUME NEW u \in TaskIds, task'[u].pc \in {"run", "mark", "commit"}
      PROVE  task'[u].k <= Len(ConsumersFor[EventOf(u)]) + 1
  BY <1>1, <1>3, <1>4 DEF HasConsumer
<1>5. ASSUME NEW u \in TaskIds, task'[u].pc \in {"run", "mark", "commit"},
             NEW i \in 1..(task'[u].k - 1)
      PROVE  processed'[<<ConsumersFor[EventOf(u)][i], EventOf(u)>>] # "none"
  <2>1. CASE i \in 1..(task[u].k - 1)
    <3>1. i \in 1..Len(ConsumersFor[EventOf(u)]) BY <1>1, <1>3, <1>5, <2>1
    <3>2. <<ConsumersFor[EventOf(u)][i], EventOf(u)>> \in Keys
      BY <3>1, EventType, SubscriberKey
    <3>3. task[u].pc \in {"run", "mark", "commit"} BY <1>1, <1>3, <1>5, <2>1
    <3>4. MarkerCommitted(<<ConsumersFor[EventOf(u)][i], EventOf(u)>>)
      BY <2>1, <3>3 DEF MarkersSoFar
    <3> QED BY <3>2, <3>4, MarkersStay DEF MarkerCommitted
  <2>2. CASE i \notin 1..(task[u].k - 1)
    <3>1. i = task[u].k /\ processed'[KeyOf(u)] # "none" BY <1>1, <1>3, <1>5, <2>2
    <3> QED BY <3>1 DEF KeyOf, ConsumerOf
  <2> QED BY <2>1, <2>2
<1> QED BY <1>2, <1>4, <1>5 DEF MarkersSoFar, MarkerCommitted

\* Only a completion publishes, and it comes after the last subscriber.
LEMMA StepPublished ==
  ASSUME TypeOK, MarkersSoFar, PublishedProcessed, [Next]_vars
  PROVE  PublishedProcessed'
<1> SUFFICES ASSUME NEW e \in Events, outbox'[e].status = "published",
                    NEW i \in 1..Len(ConsumersFor[e])
             PROVE  processed'[<<ConsumersFor[e][i], e>>] # "none"
  BY DEF PublishedProcessed
<1>1. <<ConsumersFor[e][i], e>> \in Keys BY SubscriberKey
<1>2. processed[<<ConsumersFor[e][i], e>>] # "none"
  <2>1. CASE outbox[e].status = "published" BY <2>1 DEF PublishedProcessed
  <2>2. CASE outbox[e].status # "published"
    <3>1. PICK t \in TaskIds : Completes(t) /\ PublishRow(t)
      <4>1. ASSUME NEW f \in Events, PublishEvent(f) PROVE FALSE
        BY <2>2, <4>1 DEF PublishEvent, TypeOK, Row
      <4>2. ASSUME NEW w \in Workers, NEW S \in SUBSET Claimable, ClaimRows(w, S)
            PROVE  FALSE
        BY <2>2, <4>2 DEF ClaimRows
      <4>3. ASSUME NEW t \in TaskIds, FailRow(t) PROVE FALSE
        BY <2>2, <4>3, EventType DEF FailRow, TypeOK, Row
      <4> QED BY <2>2, <4>1, <4>2, <4>3, RowSteps
    <3>2. EventOf(t) = e BY <2>2, <3>1, EventType DEF PublishRow, TypeOK
    <3>3. task[t].k \in Nat \ {0} /\ Len(ConsumersFor[e]) \in Nat
      BY SubscriptionAssumption DEF TypeOK, Task
    <3>4. task[t].pc = "run" /\ i \in 1..(task[t].k - 1)
      BY <3>1, <3>2, <3>3 DEF Completes, HasConsumer
    <3> QED BY <3>2, <3>4 DEF MarkersSoFar, MarkerCommitted
  <2> QED BY <2>1, <2>2
<1> QED BY <1>1, <1>2, MarkersStay DEF MarkerCommitted

\* The invariant of the theorem: what is open, what has been passed, what is
\* published.
DeliveredInv == /\ TypeOK /\ OneOpenMarker /\ EffectOnce
                /\ MarkersSoFar /\ PublishedProcessed

\* The strengthening of what is proved about deliveries holds in every reachable state.
LEMMA DeliveredInductive ==
  "unique" \notin FaultKinds => (Spec => []DeliveredInv)
<1> SUFFICES ASSUME "unique" \notin FaultKinds PROVE Spec => []DeliveredInv
  OBVIOUS
<1>1. Init => DeliveredInv
  <2>1. Init => OneOpenMarker /\ EffectOnce /\ MarkersSoFar /\ PublishedProcessed
    BY DEF Init, OneOpenMarker, EffectOnce, MarkersSoFar, PublishedProcessed, NoTask, NewTask
  <2> QED BY <2>1, InitTypeOK DEF DeliveredInv
<1>2. DeliveredInv /\ [Next]_vars => DeliveredInv'
  BY StepTypeOK, StepEffectOnce, StepMarkersSoFar, StepPublished DEF DeliveredInv
<1> QED BY <1>1, <1>2, PTL DEF Spec

\* As long as no handler runs into a unique constraint of its own, an event is
\* published only after every subscriber has committed its marker: no crash, lost
\* answer, lapsed lease or second worker lets one be skipped.
THEOREM PublishedMeansProcessed ==
  "unique" \notin FaultKinds => (Spec => []PublishedProcessed)
<1>1. DeliveredInv => PublishedProcessed BY DEF DeliveredInv
<1> QED BY <1>1, DeliveredInductive, PTL

-----------------------------------------------------------------------------
(* A dead letter is reported once.                                         *)

\* A worker has a task only by a claim that opened it.
LEMMA LiveTasks ==
  ASSUME TypeOK, [Next]_vars, NEW u \in TaskIds, Live(u)'
  PROVE  Live(u) \/ \E w \in Workers, S \in SUBSET Claimable :
                      ClaimRows(w, S) /\ u \in ClaimOf(S)
<1>1. CASE UNCHANGED task BY <1>1 DEF Live
<1>2. CASE Producer BY <1>1, <1>2 DEF Producer, PublishEvent
<1>3. CASE Clock
  <2>1. PICK e \in Events : BecomeDue(e) \/ LeaseLapses(e) BY <1>3 DEF Clock
  <2>2. CASE BecomeDue(e) BY <1>1, <2>2 DEF BecomeDue
  <2>3. CASE LeaseLapses(e)
    <3> DEFINE t == <<e, outbox[e].attempt_count>>
    <3>1. task' = [task EXCEPT ![t].lapsed = TRUE] BY <2>3 DEF LeaseLapses
    <3> HIDE DEF t
    <3> QED BY <3>1 DEF TypeOK, Task, Live
  <2> QED BY <2>1, <2>2, <2>3
<1>4. ASSUME NEW w \in Workers, Claims(w)
      PROVE  Live(u) \/ \E S \in SUBSET Claimable : ClaimRows(w, S) /\ u \in ClaimOf(S)
  BY <1>4 DEF Claims, ProcessOutboxBatch, ClaimAnswerLost, OpenTasks, Live
<1>5. ASSUME NEW w \in Workers, Process(w) PROVE Live(u)
  <2>1. CASE Halt(w)
    <3>1. task'[u] = task[u] \/ task'[u].pc = "gone"
      BY <2>1, FinishedTask DEF Halt, TypeOK
    <3> QED BY <3>1 DEF Live, Working
  <2>2. CASE UNCHANGED task BY <2>2 DEF Live
  <2> QED BY <1>5, <2>1, <2>2 DEF Process, Crash, Stop, Exit, Restart
<1>6. ASSUME NEW t \in TaskIds, TaskStep(t) PROVE Live(u)
  <2>1. task[t].pc \in Working \cup {"queued"}
    BY <1>6 DEF TaskStep, TakeItem, RunConsumer, RefuseVersion, Handle,
       HandlerUniqueViolation, InsertMarker, AlreadyProcessed, ConsumerCommits,
       CommitAnswerLost, ConsumerThrows, CompleteStep, CompleteOutboxEvent, CompleteRefused,
       CompleteDatabaseError, CompleteAnswerLost, Completes, FailStep, FailOutboxEvent,
       FailRefused, FailDatabaseError, FailAnswerLost, RecordStep, RecordDeadLetter,
       RecordDeadLetterThrows, RecordAnswerLost, Working
  <2>2. \A v \in TaskIds \ {t} : task'[v] = task[v]
    <3>1. CASE Handle(t) BY <3>1 DEF Handle, TypeOK
    <3> QED BY <1>6, <3>1, OneTask
            DEF TaskStep, TakeItem, RunConsumer, RefuseVersion, HandlerUniqueViolation,
                InsertMarker, AlreadyProcessed, ConsumerCommits, CommitAnswerLost,
                ConsumerThrows, CompleteStep, CompleteOutboxEvent, CompleteRefused,
                CompleteDatabaseError, CompleteAnswerLost, FailStep, FailOutboxEvent,
                FailRefused, FailDatabaseError, FailAnswerLost, RecordStep,
                RecordDeadLetter, RecordDeadLetterThrows, RecordAnswerLost
  <2> QED BY <2>1, <2>2 DEF Live
<1> QED BY <1>1, <1>2, <1>3, <1>4, <1>5, <1>6 DEF Next, vars

\* A task is to report by the failure it has just booked, or was to already.
LEMMA Reporters ==
  ASSUME TypeOK, [Next]_vars, NEW u \in TaskIds, task'[u].pc = "record"
  PROVE  task[u].pc = "record" \/ FailOutboxEvent(u)
<1>1. CASE UNCHANGED task BY <1>1
<1>2. CASE Producer BY <1>1, <1>2 DEF Producer, PublishEvent
<1>3. CASE Clock
  <2>1. PICK e \in Events : BecomeDue(e) \/ LeaseLapses(e) BY <1>3 DEF Clock
  <2>2. CASE BecomeDue(e) BY <1>1, <2>2 DEF BecomeDue
  <2>3. CASE LeaseLapses(e)
    <3> DEFINE t == <<e, outbox[e].attempt_count>>
    <3>1. task' = [task EXCEPT ![t].lapsed = TRUE] BY <2>3 DEF LeaseLapses
    <3> HIDE DEF t
    <3> QED BY <3>1 DEF TypeOK, Task
  <2> QED BY <2>1, <2>2, <2>3
<1>4. ASSUME NEW w \in Workers, Claims(w) PROVE task[u].pc = "record"
  BY <1>4 DEF Claims, ProcessOutboxBatch, ClaimAnswerLost, OpenTasks, NewTask
<1>5. ASSUME NEW w \in Workers, Process(w) PROVE task[u].pc = "record"
  <2>1. CASE Halt(w)
    <3>1. task'[u] = task[u] \/ task'[u].pc = "gone"
      BY <2>1, FinishedTask DEF Halt, TypeOK
    <3> QED BY <3>1
  <2> QED BY <1>1, <1>5, <2>1 DEF Process, Crash, Stop, Exit, Restart
<1>6. ASSUME NEW t \in TaskIds, TaskStep(t), ~FailOutboxEvent(t)
      PROVE  task[u].pc = "record"
  <2>1. CASE Handle(t) BY <2>1 DEF Handle, TypeOK, Task
  <2>2. CASE \/ \E pc \in {"run", "commit", "fail"} : Step(t, pc)
             \/ \E pc \in {"done", "rejected"} : Finish(t, pc)
             \/ NextConsumer(t)
    BY <2>2, OneTask
  <2> QED BY <1>6, <2>1, <2>2
          DEF TaskStep, TakeItem, RunConsumer, RefuseVersion, HandlerUniqueViolation,
              InsertMarker, AlreadyProcessed, ConsumerCommits, CommitAnswerLost,
              ConsumerThrows, CompleteStep, CompleteOutboxEvent, CompleteRefused,
              CompleteDatabaseError, CompleteAnswerLost, FailStep, FailRefused,
              FailDatabaseError, FailAnswerLost, RecordStep, RecordDeadLetter,
              RecordDeadLetterThrows, RecordAnswerLost
<1>7. ASSUME NEW t \in TaskIds, FailOutboxEvent(t)
      PROVE  task[u].pc = "record" \/ FailOutboxEvent(u)
  <2>1. CASE t # u BY <1>7, <2>1, OneTask DEF FailOutboxEvent
  <2> QED BY <1>7, <2>1
<1> QED BY <1>1, <1>2, <1>3, <1>4, <1>5, <1>6, <1>7 DEF Next, vars

\* The steps that write an error record.
Reports(t) == RecordDeadLetter(t) \/ RecordAnswerLost(t)

\* Error records are written by recordDeadLetter only.
LEMMA ErrorRecordSteps ==
  ASSUME [Next]_vars
  PROVE  UNCHANGED error_records \/ \E t \in TaskIds : Reports(t)
  BY DEF Next, vars, Producer, PublishEvent, Clock, BecomeDue, LeaseLapses, Claims,
     ProcessOutboxBatch, ClaimAnswerLost, Process, Crash, Stop, Exit, Restart, Halt,
     TaskStep, TakeItem, RunConsumer, RefuseVersion, Handle, HandlerUniqueViolation,
     InsertMarker, AlreadyProcessed, ConsumerCommits, CommitAnswerLost, ConsumerThrows,
     CompleteStep, CompleteOutboxEvent, CompleteRefused, CompleteDatabaseError,
     CompleteAnswerLost, FailStep, FailOutboxEvent, FailRefused, FailDatabaseError,
     FailAnswerLost, RecordStep, RecordDeadLetterThrows, Reports

\* Every step keeps the reporters apart and their reports true.
LEMMA StepReports ==
  TypeOK /\ OneReporter /\ ErrorRecordTruthful /\ [Next]_vars
    => OneReporter' /\ ErrorRecordTruthful'
<1> SUFFICES ASSUME TypeOK, OneReporter, ErrorRecordTruthful, [Next]_vars
             PROVE  OneReporter' /\ ErrorRecordTruthful' OBVIOUS
<1>1. \A e \in Events : /\ outbox[e].attempt_count \in Nat
                         /\ outbox'[e].attempt_count \in Nat
                         /\ outbox[e].attempt_count <= outbox'[e].attempt_count
  <2>1. \A e \in Events : outbox[e].attempt_count \in Nat
    BY BoundAssumption DEF TypeOK, Row
  <2> QED BY <2>1, RowChange
<1>2. \A e \in Events : outbox[e].status = "dead_letter" => outbox'[e] = outbox[e]
  BY RowChange
<1>3. \A u \in TaskIds : AttemptOf(u) \in Nat BY DEF AttemptOf, TaskIds
<1>4. ASSUME NEW u \in TaskIds, Live(u)'
      PROVE  AttemptOf(u) <= outbox'[EventOf(u)].attempt_count
  <2>1. CASE Live(u)
    <3>1. AttemptOf(u) <= outbox[EventOf(u)].attempt_count BY <2>1 DEF OneReporter
    <3> QED BY <1>1, <1>3, <3>1, EventType
  <2>2. ASSUME NEW w \in Workers, NEW S \in SUBSET Claimable, ClaimRows(w, S),
               u \in ClaimOf(S)
        PROVE  AttemptOf(u) <= outbox'[EventOf(u)].attempt_count
    <3>1. PICK e \in S : u = <<e, outbox[e].attempt_count + 1>> BY <2>2 DEF ClaimOf
    <3>2. e \in Events BY <3>1 DEF Claimable
    <3>3. outbox'[e].attempt_count = outbox[e].attempt_count + 1
      BY <2>2, <3>1, <3>2 DEF ClaimRows
    <3> QED BY <1>1, <3>1, <3>2, <3>3 DEF AttemptOf, EventOf
  <2> QED BY <1>4, <2>1, <2>2, LiveTasks
<1>5. ASSUME NEW u \in TaskIds, FailOutboxEvent(u), task'[u].pc = "record"
      PROVE  /\ outbox[EventOf(u)].status = "claimed"
             /\ outbox'[EventOf(u)].status = "dead_letter"
             /\ error_records[EventOf(u)] = 0 /\ UNCHANGED error_records
             /\ \A v \in TaskIds \ {u} : task'[v] = task[v]
  <2>1. task[u].pc = "fail" /\ FailRow(u) /\ UNCHANGED error_records
    BY <1>5 DEF FailOutboxEvent
  <2>2. WillDeadLetter(u) /\ \A v \in TaskIds \ {u} : task'[v] = task[v]
    BY <1>5, OneTask DEF FailOutboxEvent
  <2>3. AttemptOf(u) <= outbox[EventOf(u)].attempt_count
    BY <2>1 DEF OneReporter, Live, Working
  <2>4. outbox[EventOf(u)].attempt_count >= MaxAttempts
    BY <1>1, <1>3, <2>2, <2>3, EventType, BoundAssumption DEF WillDeadLetter
  <2>5. outbox'[EventOf(u)].status = "dead_letter"
    BY <2>1, <2>4, EventType DEF FailRow, TypeOK, Row
  <2>6. outbox[EventOf(u)].status = "claimed" BY <2>1 DEF FailRow, OwnsClaim
  <2>7. error_records[EventOf(u)] = 0
    <3>1. error_records[EventOf(u)] \in Nat BY EventType DEF TypeOK
    <3>2. /\ error_records[EventOf(u)] <= 1
          /\ error_records[EventOf(u)] = 1 => outbox[EventOf(u)].status = "dead_letter"
      BY EventType DEF ErrorRecordTruthful
    <3> QED BY <2>6, <3>1, <3>2
  <2> QED BY <2>1, <2>2, <2>5, <2>6, <2>7
<1>6. ASSUME NEW t \in TaskIds, Reports(t)
      PROVE  /\ task[t].pc = "record" /\ task'[t].pc # "record"
             /\ error_records' = [error_records EXCEPT ![EventOf(t)] = 1]
  <2>1. task[t].pc = "record" /\ (Finish(t, "done") \/ Finish(t, "rejected"))
    BY <1>6 DEF Reports, RecordDeadLetter, RecordAnswerLost
  <2>2. error_records[EventOf(t)] = 0 BY <2>1 DEF OneReporter
  <2>3. task'[t].pc # "record" BY <2>1, OneTask
  <2>4. error_records' = [error_records EXCEPT ![EventOf(t)] = error_records[EventOf(t)] + 1]
    BY <1>6 DEF Reports, RecordDeadLetter, RecordAnswerLost
  <2> QED BY <2>1, <2>2, <2>3, <2>4
<1>7. ASSUME NEW u \in TaskIds, task'[u].pc = "record"
      PROVE  /\ outbox'[EventOf(u)].status = "dead_letter"
             /\ error_records'[EventOf(u)] = 0
  <2>1. CASE FailOutboxEvent(u) BY <1>5, <1>7, <2>1
  <2>2. CASE task[u].pc = "record"
    <3>1. outbox[EventOf(u)].status = "dead_letter" /\ error_records[EventOf(u)] = 0
      BY <2>2 DEF OneReporter
    <3>2. ASSUME NEW t \in TaskIds, Reports(t) PROVE EventOf(t) # EventOf(u)
      <4>1. t # u BY <1>6, <1>7, <3>2
      <4> QED BY <1>6, <2>2, <3>2, <4>1 DEF OneReporter
    <3> QED BY <1>2, <1>6, <3>1, <3>2, EventType, ErrorRecordSteps DEF TypeOK
  <2> QED BY <1>7, <2>1, <2>2, Reporters
<1>8. ASSUME NEW u \in TaskIds, NEW v \in TaskIds, EventOf(u) = EventOf(v),
             task'[u].pc = "record", task'[v].pc = "record"
      PROVE  u = v
  <2>1. CASE FailOutboxEvent(u)
    <3>1. task'[v].pc = "record" => v = u \/ task[v].pc = "record" BY <1>5, <1>8, <2>1
    <3>2. task[v].pc = "record" => outbox[EventOf(v)].status = "dead_letter"
      BY DEF OneReporter
    <3> QED BY <1>5, <1>8, <2>1, <3>1, <3>2
  <2>2. CASE FailOutboxEvent(v)
    <3>1. task'[u].pc = "record" => v = u \/ task[u].pc = "record" BY <1>5, <1>8, <2>2
    <3>2. task[u].pc = "record" => outbox[EventOf(u)].status = "dead_letter"
      BY DEF OneReporter
    <3> QED BY <1>5, <1>8, <2>2, <3>1, <3>2
  <2>3. CASE task[u].pc = "record" /\ task[v].pc = "record"
    BY <1>8, <2>3 DEF OneReporter
  <2> QED BY <1>8, <2>1, <2>2, <2>3, Reporters
<1>9. ErrorRecordTruthful'
  <2>1. CASE UNCHANGED error_records BY <1>2, <2>1 DEF ErrorRecordTruthful
  <2>2. ASSUME NEW t \in TaskIds, Reports(t) PROVE ErrorRecordTruthful'
    <3>1. outbox[EventOf(t)].status = "dead_letter" BY <1>6, <2>2 DEF OneReporter
    <3> QED BY <1>2, <1>6, <2>2, <3>1 DEF ErrorRecordTruthful, TypeOK
  <2> QED BY <2>1, <2>2, ErrorRecordSteps
<1> QED BY <1>4, <1>7, <1>8, <1>9 DEF OneReporter

\* A dead-lettered event is reported at most once and no other event ever is,
\* although the worker decides by the attempt number it was handed and the
\* database by the one it counts.
THEOREM ReportsAreTrue == Spec => []ErrorRecordTruthful
<1> DEFINE IInv == TypeOK /\ OneReporter /\ ErrorRecordTruthful
<1>1. Init => IInv
  <2>1. Init => OneReporter /\ ErrorRecordTruthful
    BY DEF Init, OneReporter, ErrorRecordTruthful, NoTask, NewTask, Live, Working
  <2> QED BY <2>1, InitTypeOK
<1>2. IInv /\ [Next]_vars => IInv' BY StepTypeOK, StepReports
<1>3. IInv => ErrorRecordTruthful OBVIOUS
<1> QED BY <1>1, <1>2, <1>3, PTL DEF Spec

-----------------------------------------------------------------------------
(* Two workers never own one row.                                          *)

\* A step that opens no task moves the live ones on and changes neither their
\* worker nor their batch; a worker stops awaiting a batch only when it is gone.
Evolves ==
  /\ \A u \in TaskIds :
       /\ task'[u].worker = task[u].worker /\ task'[u].batch = task[u].batch
       /\ task[u].lapsed => task'[u].lapsed
       /\ task'[u].pc = task[u].pc \/ (Live(u) /\ task'[u].pc # "none")
       /\ Holding(u)' => Holding(u)
  /\ \A w \in Workers : \/ current'[w] = current[w]
                        \/ \A u \in TaskIds : Live(u)' => task[u].worker # w

\* A step that opens the tasks of a claim of worker w.
Opens(w, S) ==
  /\ Polls(w) /\ ClaimRows(w, S)
  /\ \/ /\ OpenTasks(w, S, "queued")
        /\ current' = [current EXCEPT ![w] = ClaimOf(S)]
     \/ /\ OpenTasks(w, S, "gone")
        /\ UNCHANGED current

\* Settling a task leaves its worker, its batch and its lease.
LEMMA SettledFields ==
  ASSUME NEW r \in Task, NEW pc
  PROVE  LET s == [r EXCEPT !.pc = pc, !.k = 1, !.outcome = "skipped"] IN
         s.worker = r.worker /\ s.batch = r.batch /\ s.lapsed = r.lapsed /\ s.pc = pc
  BY DEF Task

\* So do all updates of one task.
LEMMA OneTaskKeeps ==
  ASSUME TypeOK, NEW t \in TaskIds,
         \/ \E pc : Step(t, pc) \/ Finish(t, pc)
         \/ NextConsumer(t)
         \/ Handle(t)
  PROVE  \A u \in TaskIds : /\ task'[u].worker = task[u].worker
                            /\ task'[u].batch = task[u].batch
                            /\ task'[u].lapsed = task[u].lapsed
<1>1. task \in [TaskIds -> Task] /\ task[t] \in Task BY DEF TypeOK
<1>2. ASSUME NEW pc, Step(t, pc)
      PROVE  \A u \in TaskIds : /\ task'[u].worker = task[u].worker
                                /\ task'[u].batch = task[u].batch
                                /\ task'[u].lapsed = task[u].lapsed
  BY <1>1, <1>2 DEF Step, Task
<1>3. ASSUME NEW pc, Finish(t, pc)
      PROVE  \A u \in TaskIds : /\ task'[u].worker = task[u].worker
                                /\ task'[u].batch = task[u].batch
                                /\ task'[u].lapsed = task[u].lapsed
  <2>1. task' = [task EXCEPT ![t] = [task[t] EXCEPT !.pc = pc, !.k = 1,
                                                   !.outcome = "skipped"]]
    BY <1>1, <1>3 DEF Finish
  <2> QED BY <1>1, <2>1, SettledFields
<1>4. CASE NextConsumer(t) BY <1>1, <1>4 DEF NextConsumer, Task
<1>5. ASSUME Handle(t)
      PROVE  \A u \in TaskIds : /\ task'[u].worker = task[u].worker
                                /\ task'[u].batch = task[u].batch
                                /\ task'[u].lapsed = task[u].lapsed
  <2>1. PICK o \in Outcomes : task' = [task EXCEPT ![t].pc = "mark", ![t].outcome = o]
    BY <1>5 DEF Handle
  <2>2. task' = [task EXCEPT ![t] = [task[t] EXCEPT !.pc = "mark", !.outcome = o]]
    BY <1>1, <2>1
  <2>3. LET s == [task[t] EXCEPT !.pc = "mark", !.outcome = o] IN
        /\ s.worker = task[t].worker /\ s.batch = task[t].batch
        /\ s.lapsed = task[t].lapsed
    BY <1>1 DEF Task
  <2> QED BY <1>1, <2>2, <2>3
<1> QED BY <1>2, <1>3, <1>4, <1>5

\* Every step evolves the tasks or opens those of a claim.
LEMMA TaskMoves ==
  ASSUME TypeOK, [Next]_vars
  PROVE  \/ Evolves
         \/ \E w \in Workers, S \in SUBSET Claimable : Opens(w, S)
<1>1. ASSUME UNCHANGED <<task, current>> PROVE Evolves BY <1>1 DEF Evolves, Holding
<1>2. CASE Producer BY <1>1, <1>2 DEF Producer, PublishEvent
<1>3. CASE Clock
  <2>1. PICK e \in Events : BecomeDue(e) \/ LeaseLapses(e) BY <1>3 DEF Clock
  <2>2. CASE BecomeDue(e) BY <1>1, <2>2 DEF BecomeDue
  <2>3. CASE LeaseLapses(e)
    <3> DEFINE t == <<e, outbox[e].attempt_count>>
    <3>1. task' = [task EXCEPT ![t].lapsed = TRUE] /\ UNCHANGED current
      BY <2>3 DEF LeaseLapses
    <3> HIDE DEF t
    <3>2. \A u \in TaskIds :
            /\ task'[u].worker = task[u].worker /\ task'[u].batch = task[u].batch
            /\ task[u].lapsed => task'[u].lapsed
            /\ task'[u].pc = task[u].pc
      BY <3>1 DEF TypeOK, Task
    <3> QED BY <3>1, <3>2 DEF Evolves, Holding
  <2> QED BY <2>1, <2>2, <2>3
<1>4. ASSUME NEW w \in Workers, Claims(w)
      PROVE  \E S \in SUBSET Claimable : Opens(w, S)
  BY <1>4 DEF Claims, ProcessOutboxBatch, ClaimAnswerLost, Opens
<1>5. ASSUME NEW w \in Workers, Process(w) PROVE Evolves
  <2>1. CASE Halt(w)
    <3>1. \A u \in TaskIds :
            \/ task'[u] = task[u] /\ ~(task[u].worker = w /\ Live(u))
            \/ /\ task'[u].worker = task[u].worker /\ task'[u].batch = task[u].batch
               /\ task'[u].lapsed = task[u].lapsed /\ task'[u].pc = "gone" /\ Live(u)
      <4> SUFFICES ASSUME NEW u \in TaskIds
                   PROVE  \/ task'[u] = task[u] /\ ~(task[u].worker = w /\ Live(u))
                          \/ /\ task'[u].worker = task[u].worker
                             /\ task'[u].batch = task[u].batch
                             /\ task'[u].lapsed = task[u].lapsed
                             /\ task'[u].pc = "gone" /\ Live(u)
        OBVIOUS
      <4>1. CASE task[u].worker = w /\ Live(u)
        <5>1. task'[u] = [task[u] EXCEPT !.pc = "gone", !.k = 1, !.outcome = "skipped"]
          BY <2>1, <4>1 DEF Halt
        <5>2. task[u] \in Task BY DEF TypeOK
        <5> QED BY <4>1, <5>1, <5>2, SettledFields
      <4>2. CASE ~(task[u].worker = w /\ Live(u)) BY <2>1, <4>2 DEF Halt
      <4> QED BY <4>1, <4>2
    <3>2. \A u \in TaskIds : Live(u)' => task[u].worker # w
      BY <3>1 DEF Live, Working
    <3>3. \A x \in Workers : x # w => current'[x] = current[x]
      BY <2>1 DEF Halt, TypeOK
    <3>4. \A u \in TaskIds : Holding(u)' => Holding(u)
      BY <3>1 DEF Holding, Working
    <3> QED BY <3>1, <3>2, <3>3, <3>4 DEF Evolves
  <2>2. CASE Stop(w) \/ Restart(w) BY <1>1, <2>2 DEF Stop, Restart
  <2> QED BY <1>5, <2>1, <2>2 DEF Process, Crash, Exit
<1>6. ASSUME NEW t \in TaskIds, TaskStep(t) PROVE Evolves
  <2>1. UNCHANGED current
    BY <1>6 DEF TaskStep, TakeItem, RunConsumer, RefuseVersion, Handle,
       HandlerUniqueViolation, InsertMarker, AlreadyProcessed, ConsumerCommits,
       CommitAnswerLost, ConsumerThrows, CompleteStep, CompleteOutboxEvent, CompleteRefused,
       CompleteDatabaseError, CompleteAnswerLost, FailStep, FailOutboxEvent,
       FailRefused, FailDatabaseError, FailAnswerLost, RecordStep, RecordDeadLetter,
       RecordDeadLetterThrows, RecordAnswerLost
  <2>2. \/ /\ Holding(t)
           /\ \/ \E pc \in {"run", "commit", "fail"} : Step(t, pc)
              \/ \E pc \in {"done", "record"} : Finish(t, pc)
              \/ NextConsumer(t)
              \/ Handle(t)
        \/ /\ task[t].pc = "record"
           /\ \E pc \in {"done", "rejected"} : Finish(t, pc)
    BY <1>6 DEF TaskStep, TakeItem, RunConsumer, RefuseVersion,
       HandlerUniqueViolation, InsertMarker, AlreadyProcessed, ConsumerCommits,
       CommitAnswerLost, ConsumerThrows, CompleteStep, CompleteOutboxEvent, CompleteRefused,
       CompleteDatabaseError, CompleteAnswerLost, Completes, FailStep, FailOutboxEvent,
       FailRefused, FailDatabaseError, FailAnswerLost, RecordStep, RecordDeadLetter,
       RecordDeadLetterThrows, RecordAnswerLost, Handle, Holding, Working
  <2>3. \A u \in TaskIds : /\ task'[u].worker = task[u].worker
                           /\ task'[u].batch = task[u].batch
                           /\ task'[u].lapsed = task[u].lapsed
    BY <2>2, OneTaskKeeps
  <2>4. \A u \in TaskIds \ {t} : task'[u] = task[u]
    <3>1. CASE Handle(t) BY <3>1 DEF Handle, TypeOK
    <3> QED BY <2>2, <3>1, OneTask
  <2>5. \/ Holding(t) /\ task'[t].pc # "none"
        \/ task[t].pc = "record" /\ task'[t].pc \in {"done", "rejected"}
    <3>1. CASE Handle(t) BY <2>2, <3>1 DEF Handle, TypeOK, Task
    <3> QED BY <2>2, <3>1, OneTask
  <2> QED BY <2>1, <2>3, <2>4, <2>5 DEF Evolves, Holding, Live, Working
<1> QED BY <1>1, <1>2, <1>3, <1>4, <1>5, <1>6 DEF Next, vars

\* What a claim opens: new tasks of attempts not counted before.
LEMMA Opened ==
  ASSUME TypeOK, Handed, NEW w \in Workers, NEW S \in SUBSET Claimable, Opens(w, S)
  PROVE  /\ ClaimOf(S) \subseteq TaskIds
         /\ \A u \in TaskIds \ ClaimOf(S) : task'[u] = task[u]
         /\ \A u \in ClaimOf(S) :
              /\ task[u].pc = "none" /\ EventOf(u) \in S
              /\ AttemptOf(u) = outbox[EventOf(u)].attempt_count + 1
              /\ outbox'[EventOf(u)].attempt_count = AttemptOf(u)
              /\ OwnsClaim(u)' /\ task'[u].worker = w
              /\ task'[u].batch = ClaimOf(S)
              /\ task'[u].pc \in {"queued", "gone"}
         /\ \A v \in TaskIds, u \in ClaimOf(S) :
              task[v].pc # "none" => v # u /\ u \notin task[v].batch
<1>1. ClaimOf(S) \subseteq TaskIds BY ClaimOfType DEF Opens, ClaimRows
<1>2. \A u \in TaskIds \ ClaimOf(S) : task'[u] = task[u] BY DEF Opens, OpenTasks
<1>3. ASSUME NEW u \in ClaimOf(S)
      PROVE  /\ EventOf(u) \in S /\ EventOf(u) \in Events
             /\ outbox[EventOf(u)].attempt_count \in Nat
             /\ AttemptOf(u) = outbox[EventOf(u)].attempt_count + 1
  <2>1. PICK e \in S : u = <<e, outbox[e].attempt_count + 1>> BY <1>3 DEF ClaimOf
  <2>2. e \in Events BY <2>1 DEF Claimable
  <2> QED BY <2>1, <2>2, BoundAssumption DEF EventOf, AttemptOf, TypeOK, Row
<1>4. ASSUME NEW u \in ClaimOf(S)
      PROVE  /\ task'[u].worker = w /\ task'[u].batch = ClaimOf(S)
             /\ task'[u].pc \in {"queued", "gone"}
  BY <1>1, <1>4 DEF Opens, OpenTasks, NewTask
<1>5. ASSUME NEW u \in ClaimOf(S)
      PROVE  /\ outbox'[EventOf(u)].attempt_count = AttemptOf(u)
             /\ OwnsClaim(u)'
  BY <1>3, <1>4, <1>5 DEF Opens, ClaimRows, OwnsClaim, ClaimantOf
<1>6. ASSUME NEW v \in TaskIds, NEW u \in ClaimOf(S), task[v].pc # "none"
      PROVE  v # u /\ u \notin task[v].batch
  <2>1. ~(AttemptOf(u) <= outbox[EventOf(u)].attempt_count) BY <1>3
  <2> QED BY <1>6, <2>1 DEF Handed
<1>7. ASSUME NEW u \in ClaimOf(S) PROVE task[u].pc = "none"
  BY <1>1, <1>6
<1> QED BY <1>1, <1>2, <1>3, <1>4, <1>5, <1>6, <1>7

\* Attempts of rows and of tasks are numbers, and rows never lose any.
LEMMA AttemptNumbers ==
  ASSUME TypeOK, [Next]_vars
  PROVE  /\ \A t \in TaskIds : AttemptOf(t) \in Nat /\ EventOf(t) \in Events
         /\ \A e \in Events : /\ outbox[e].attempt_count \in Nat
                              /\ outbox'[e].attempt_count \in Nat
                              /\ outbox[e].attempt_count <= outbox'[e].attempt_count
<1>1. \A t \in TaskIds : AttemptOf(t) \in Nat /\ EventOf(t) \in Events
  BY EventType DEF AttemptOf, TaskIds
<1>2. \A e \in Events : outbox[e].attempt_count \in Nat
  BY BoundAssumption DEF TypeOK, Row
<1> QED BY <1>1, <1>2, RowChange

\* A task that exists goes on existing, with its worker and its batch, and an orphan
\* stays one.
LEMMA OrphansStay ==
  ASSUME TypeOK, Handed, [Next]_vars
  PROVE  /\ \A t \in TaskIds : task[t].pc # "none" =>
              /\ task'[t].pc # "none"
              /\ task'[t].worker = task[t].worker /\ task'[t].batch = task[t].batch
              /\ Live(t)' => Live(t)
              /\ task[t].lapsed => task'[t].lapsed
         /\ \A t \in TaskIds : Orphaned(t) => Orphaned(t)'
         /\ \A t \in TaskIds : OlderOrphan(t) /\ task[t].pc # "none" => OlderOrphan(t)'
<1>1. ASSUME NEW t \in TaskIds, task[t].pc # "none"
      PROVE  /\ task'[t].pc # "none"
             /\ task'[t].worker = task[t].worker /\ task'[t].batch = task[t].batch
             /\ Live(t)' => Live(t)
             /\ task[t].lapsed => task'[t].lapsed
             /\ task[t].pc = "rejected" => task'[t].pc = "rejected"
  <2>1. CASE Evolves BY <1>1, <2>1 DEF Evolves, Live, Working
  <2>2. ASSUME NEW w \in Workers, NEW S \in SUBSET Claimable, Opens(w, S)
        PROVE  task'[t] = task[t]
    BY <1>1, <2>2, Opened
  <2> QED BY <1>1, <2>1, <2>2, TaskMoves DEF Live
<1>2. ASSUME NEW t \in TaskIds, Orphaned(t) PROVE Orphaned(t)'
  <2>1. PICK u \in task[t].batch : task[u].pc = "rejected" BY <1>2 DEF Orphaned
  <2>2. u \in TaskIds BY <2>1 DEF TypeOK, Task
  <2>3. task'[u].pc = "rejected" BY <1>1, <2>1, <2>2
  <2>4. task'[t].pc # "none" /\ task'[t].batch = task[t].batch BY <1>1, <1>2 DEF Orphaned
  <2> QED BY <2>1, <2>3, <2>4 DEF Orphaned
<1>3. ASSUME NEW t \in TaskIds, OlderOrphan(t), task[t].pc # "none"
      PROVE  OlderOrphan(t)'
  <2>1. PICK u \in TaskIds : /\ EventOf(u) = EventOf(t) /\ AttemptOf(u) < AttemptOf(t)
                             /\ task[u].worker = task[t].worker /\ Orphaned(u)
    BY <1>3 DEF OlderOrphan
  <2>2. task'[u].worker = task'[t].worker BY <1>1, <1>3, <2>1 DEF Orphaned
  <2>3. Orphaned(u)' BY <1>2, <2>1
  <2> QED BY <2>1, <2>2, <2>3 DEF OlderOrphan
<1> QED BY <1>1, <1>2, <1>3

\* Every step hands out counted attempts only.
LEMMA StepHanded ==
  ASSUME TypeOK, Handed, [Next]_vars
  PROVE  Handed'
<1> SUFFICES ASSUME NEW t \in TaskIds, task'[t].pc # "none"
             PROVE  /\ task'[t].worker \in Workers
                    /\ AttemptOf(t) <= outbox'[EventOf(t)].attempt_count
                    /\ \A u \in task'[t].batch :
                         AttemptOf(u) <= outbox'[EventOf(u)].attempt_count
  BY DEF Handed
<1>1. CASE task[t].pc # "none"
  <2>1. /\ task'[t].worker = task[t].worker /\ task'[t].batch = task[t].batch
        /\ task[t].batch \subseteq TaskIds
    BY <1>1, OrphansStay DEF TypeOK, Task
  <2>2. \A u \in TaskIds : AttemptOf(u) <= outbox[EventOf(u)].attempt_count
          => AttemptOf(u) <= outbox'[EventOf(u)].attempt_count
    BY AttemptNumbers
  <2> QED BY <1>1, <2>1, <2>2 DEF Handed
<1>2. ASSUME NEW w \in Workers, NEW S \in SUBSET Claimable, Opens(w, S), t \in ClaimOf(S)
      PROVE  /\ task'[t].worker \in Workers
             /\ AttemptOf(t) <= outbox'[EventOf(t)].attempt_count
             /\ \A u \in task'[t].batch :
                  AttemptOf(u) <= outbox'[EventOf(u)].attempt_count
  BY <1>2, Opened, AttemptNumbers
<1>3. CASE Evolves /\ task[t].pc = "none"
  BY <1>3 DEF Evolves, Live, Working
<1>4. ASSUME NEW w \in Workers, NEW S \in SUBSET Claimable, Opens(w, S), t \notin ClaimOf(S)
      PROVE  task'[t] = task[t]
  BY <1>4, Opened
<1> QED BY <1>1, <1>2, <1>3, <1>4, TaskMoves

\* Every step keeps a worker awaiting its tasks.
LEMMA StepAwaited ==
  ASSUME TypeOK, Handed, Awaited, [Next]_vars
  PROVE  Awaited'
<1>1. CASE Evolves
  <2>1. \A t \in TaskIds : /\ task'[t].pc # "none" => task[t].pc # "none"
                           /\ Live(t)' => Live(t)
                           /\ task'[t].worker = task[t].worker
                           /\ task'[t].batch = task[t].batch
    BY <1>1 DEF Evolves, Live, Working
  <2>2. ASSUME NEW t \in TaskIds, Live(t)'
        PROVE  \/ Orphaned(t)'
               \/ /\ t \in current'[task'[t].worker]
                  /\ task'[t].batch = current'[task'[t].worker]
    <3>1. Live(t) /\ task[t].worker \in Workers
      BY <2>1, <2>2 DEF Handed, Live, Working
    <3>2. current'[task[t].worker] = current[task[t].worker]
      BY <1>1, <2>2, <3>1 DEF Evolves
    <3>3. CASE Orphaned(t) BY <3>3, OrphansStay
    <3>4. CASE ~Orphaned(t) BY <2>1, <3>1, <3>2, <3>4 DEF Awaited
    <3> QED BY <3>3, <3>4
  <2>3. ASSUME NEW t \in TaskIds, NEW u \in TaskIds, Live(u)', task'[t].pc # "none",
               task'[t].worker = task'[u].worker,
               EventOf(t) = EventOf(u), AttemptOf(u) < AttemptOf(t)
        PROVE  Orphaned(u)'
    <3>1. Orphaned(u) BY <2>1, <2>3 DEF Awaited
    <3> QED BY <3>1, OrphansStay
  <2> QED BY <2>2, <2>3 DEF Awaited
<1>2. ASSUME NEW w \in Workers, NEW S \in SUBSET Claimable, Opens(w, S)
      PROVE  Awaited'
  <2>1. \A t \in TaskIds : Live(t) => task[t].pc # "none" BY DEF Live, Working
  <2>2. ASSUME NEW u \in TaskIds, Live(u), task[u].worker = w
        PROVE  Orphaned(u)
    <3>1. BatchSettled(current[w]) BY <1>2 DEF Opens, Polls
    <3>2. task[u].pc \notin Settled BY <2>2 DEF Live, Working, Settled
    <3> QED BY <2>1, <2>2, <3>1, <3>2 DEF Awaited, BatchSettled, Orphaned
  <2>3. ASSUME NEW t \in TaskIds, Live(t)'
        PROVE  \/ Orphaned(t)'
               \/ /\ t \in current'[task'[t].worker]
                  /\ task'[t].batch = current'[task'[t].worker]
    <3>1. CASE t \in ClaimOf(S)
      <4>1. task'[t].pc # "gone" /\ task'[t].worker = w /\ task'[t].batch = ClaimOf(S)
        BY <1>2, <2>3, <3>1, Opened DEF Live, Working
      <4>2. current' = [current EXCEPT ![w] = ClaimOf(S)]
        BY <1>2, <3>1, <4>1 DEF Opens, OpenTasks, NewTask
      <4> QED BY <3>1, <4>1, <4>2 DEF TypeOK
    <3>2. CASE t \notin ClaimOf(S)
      <4>1. task'[t] = task[t] /\ Live(t) BY <1>2, <2>3, <3>2, Opened DEF Live
      <4>2. CASE task[t].worker = w BY <2>2, <4>1, <4>2, OrphansStay
      <4>3. CASE task[t].worker # w
        <5>1. current'[task[t].worker] = current[task[t].worker]
          BY <1>2, <2>1, <4>1, <4>3 DEF Opens, TypeOK, Handed
        <5>2. CASE Orphaned(t) BY <5>2, OrphansStay
        <5>3. CASE ~Orphaned(t) BY <4>1, <5>1, <5>3 DEF Awaited
        <5> QED BY <5>2, <5>3
      <4> QED BY <4>2, <4>3
    <3> QED BY <3>1, <3>2
  <2>4. ASSUME NEW t \in TaskIds, NEW u \in TaskIds, Live(u)', task'[t].pc # "none",
               task'[t].worker = task'[u].worker,
               EventOf(t) = EventOf(u), AttemptOf(u) < AttemptOf(t)
        PROVE  Orphaned(u)'
    <3>1. u \notin ClaimOf(S)
      <4> SUFFICES ASSUME u \in ClaimOf(S) PROVE FALSE OBVIOUS
      <4>1. outbox'[EventOf(u)].attempt_count = AttemptOf(u) BY <1>2, Opened
      <4>2. AttemptOf(t) <= outbox'[EventOf(t)].attempt_count
        BY <2>4, StepHanded DEF Handed
      <4> QED BY <2>4, <4>1, <4>2, AttemptNumbers
    <3>2. task'[u] = task[u] /\ Live(u) BY <1>2, <2>4, <3>1, Opened DEF Live
    <3>3. CASE t \in ClaimOf(S)
      <4>1. task[u].worker = w BY <1>2, <2>4, <3>2, <3>3, Opened
      <4> QED BY <2>2, <3>2, <4>1, OrphansStay
    <3>4. CASE t \notin ClaimOf(S)
      <4>1. task'[t] = task[t] BY <1>2, <3>4, Opened
      <4>2. Orphaned(u) BY <2>4, <3>2, <4>1 DEF Awaited
      <4> QED BY <4>2, OrphansStay
    <3> QED BY <3>3, <3>4
  <2> QED BY <2>3, <2>4 DEF Awaited
<1> QED BY <1>1, <1>2, TaskMoves

\* Which steps make a claim stale, and that a claim of the row ends that.
LEMMA StaleSteps ==
  ASSUME TypeOK, [Next]_vars, NEW e \in Events, e \in stale'
  PROVE  \/ e \in stale /\ outbox'[e].attempt_count = outbox[e].attempt_count
         \/ LeaseLapses(e)
<1> USE DEF TypeOK
<1>1. e \in stale \/ LeaseLapses(e)
  <2>1. CASE UNCHANGED vars BY <2>1 DEF vars
  <2>2. CASE Producer BY <2>2 DEF Producer, PublishEvent
  <2>3. CASE Clock BY <2>3 DEF Clock, BecomeDue, LeaseLapses
  <2>4. ASSUME NEW w \in Workers, Claims(w) PROVE e \in stale
    BY <2>4 DEF Claims, ProcessOutboxBatch, ClaimAnswerLost, ClaimRows
  <2>5. ASSUME NEW w \in Workers, Process(w) PROVE e \in stale
    BY <2>5 DEF Process, Crash, Stop, Exit, Restart, Halt, rows
  <2>6. ASSUME NEW t \in TaskIds, TaskStep(t) PROVE e \in stale
    <3>1. CASE TakeItem(t) BY <3>1 DEF TakeItem, rows
    <3>2. CASE RunConsumer(t)
      BY <3>2 DEF RunConsumer, RefuseVersion, Handle, HandlerUniqueViolation,
         InsertMarker, AlreadyProcessed, ConsumerCommits, CommitAnswerLost,
         ConsumerThrows, rows
    <3>3. CASE CompleteStep(t)
      BY <3>3 DEF CompleteStep, CompleteOutboxEvent, CompleteRefused,
         CompleteDatabaseError, CompleteAnswerLost, PublishRow, rows
    <3>4. CASE FailStep(t)
      BY <3>4 DEF FailStep, FailOutboxEvent, FailRefused, FailDatabaseError,
         FailAnswerLost, FailRow, rows
    <3>5. CASE RecordStep(t)
      BY <3>5 DEF RecordStep, RecordDeadLetter, RecordDeadLetterThrows,
         RecordAnswerLost, rows
    <3> QED BY <2>6, <3>1, <3>2, <3>3, <3>4, <3>5 DEF TaskStep
  <2> QED BY <2>1, <2>2, <2>3, <2>4, <2>5, <2>6 DEF Next
<1>2. CASE \E f \in Events : PublishEvent(f)
  BY <1>1, <1>2 DEF PublishEvent, Row
<1>3. ASSUME NEW w \in Workers, NEW S \in SUBSET Claimable, ClaimRows(w, S)
      PROVE  e \notin S /\ outbox'[e] = outbox[e]
  BY <1>3 DEF ClaimRows
<1>4. ASSUME NEW t \in TaskIds, PublishRow(t)
      PROVE  outbox'[e].attempt_count = outbox[e].attempt_count
  BY <1>4 DEF PublishRow, Row
<1>5. ASSUME NEW t \in TaskIds, FailRow(t)
      PROVE  outbox'[e].attempt_count = outbox[e].attempt_count
  BY <1>5 DEF FailRow, Row
<1> QED BY <1>1, <1>2, <1>3, <1>4, <1>5, RowSteps

\* Every worker has a WORKER_ID of its own.
OwnClaimants == \A w, x \in Workers : Claimant[w] = Claimant[x] => w = x

\* Every step leaves a task the row it was handed, or its lease has lapsed, or an
\* orphan of its worker interfered.
LEMMA StepHeld ==
  ASSUME OwnClaimants, TypeOK, Handed, Awaited, Held, [Next]_vars
  PROVE  Held'
<1>1. ASSUME NEW t \in TaskIds, EventOf(t) \in stale',
             AttemptOf(t) = outbox'[EventOf(t)].attempt_count
      PROVE  task'[t].lapsed
  <2>1. EventOf(t) \in Events BY EventType
  <2>2. CASE LeaseLapses(EventOf(t))
    <3>1. outbox' = outbox BY <2>2 DEF LeaseLapses
    <3>2. t = <<EventOf(t), outbox[EventOf(t)].attempt_count>>
      BY <1>1, <3>1 DEF TaskIds, EventOf, AttemptOf
    <3>3. task' = [task EXCEPT ![t].lapsed = TRUE] BY <2>2, <3>2 DEF LeaseLapses
    <3> QED BY <3>3 DEF TypeOK, Task
  <2>3. CASE /\ EventOf(t) \in stale
             /\ outbox'[EventOf(t)].attempt_count = outbox[EventOf(t)].attempt_count
    <3>1. task[t].lapsed BY <1>1, <2>3 DEF Held
    <3>2. CASE Evolves BY <3>1, <3>2 DEF Evolves
    <3>3. ASSUME NEW w \in Workers, NEW S \in SUBSET Claimable, Opens(w, S)
          PROVE  t \notin ClaimOf(S)
      <4> SUFFICES ASSUME t \in ClaimOf(S) PROVE FALSE OBVIOUS
      <4>1. AttemptOf(t) = outbox[EventOf(t)].attempt_count + 1 BY <3>3, Opened
      <4> QED BY <1>1, <2>1, <2>3, <4>1, AttemptNumbers
    <3> QED BY <3>1, <3>2, <3>3, TaskMoves, Opened
  <2> QED BY <1>1, <2>1, <2>2, <2>3, StaleSteps
<1>2. ASSUME NEW t \in TaskIds, Holding(t)', ~task'[t].lapsed, ~OlderOrphan(t)'
      PROVE  /\ AttemptOf(t) = outbox'[EventOf(t)].attempt_count
             /\ OwnsClaim(t)' \/ outbox'[EventOf(t)].status = "published"
  <2> DEFINE e == EventOf(t)
  <2>0. e \in Events BY EventType
  <2>1. ASSUME NEW w \in Workers, NEW S \in SUBSET Claimable, Opens(w, S), t \in ClaimOf(S)
        PROVE  AttemptOf(t) = outbox'[e].attempt_count /\ OwnsClaim(t)'
    BY <2>1, Opened
  <2>2. CASE Holding(t)
    <3>1. task[t].pc # "none" /\ Live(t) BY <2>2 DEF Holding, Live, Working
    <3>2. ~task[t].lapsed /\ ~OlderOrphan(t) /\ task'[t].worker = task[t].worker
      BY <1>2, <3>1, OrphansStay
    <3>3. /\ AttemptOf(t) = outbox[e].attempt_count
          /\ OwnsClaim(t) \/ outbox[e].status = "published"
      BY <2>2, <3>2 DEF Held
    <3>4. e \notin stale BY <3>2, <3>3 DEF Held
    <3>5. CASE outbox'[e] = outbox[e]
      BY <3>2, <3>3, <3>5 DEF OwnsClaim, ClaimantOf
    <3>6. ASSUME NEW f \in Events, PublishEvent(f) PROVE outbox'[e] = outbox[e]
      BY <2>0, <3>3, <3>6 DEF PublishEvent, OwnsClaim, TypeOK
    <3>7. ASSUME NEW w \in Workers, NEW S \in SUBSET Claimable, ClaimRows(w, S)
          PROVE  outbox'[e] = outbox[e]
      <4>1. e \notin Claimable BY <3>3, <3>4 DEF Claimable, OwnsClaim
      <4> QED BY <2>0, <3>7, <4>1 DEF ClaimRows
    <3>8. ASSUME NEW u \in TaskIds, EventOf(u) = e, OwnsClaim(u), Holding(u)
          PROVE  u = t
      <4>1. Live(u) /\ task[u].pc # "none" BY <3>8 DEF Holding, Live, Working
      <4>2. task[u].worker \in Workers /\ task[t].worker \in Workers
        BY <3>1, <4>1 DEF Handed
      <4>3. Claimant[task[u].worker] = Claimant[task[t].worker]
        BY <3>3, <3>8 DEF OwnsClaim, ClaimantOf
      <4>4. task[u].worker = task[t].worker BY <4>2, <4>3 DEF OwnClaimants
      <4>5. AttemptOf(u) <= AttemptOf(t) BY <3>3, <3>8, <4>1 DEF Handed
      <4>6. CASE AttemptOf(u) = AttemptOf(t)
        BY <3>8, <4>6 DEF TaskIds, EventOf, AttemptOf
      <4>7. CASE AttemptOf(u) < AttemptOf(t)
        <5>1. Orphaned(u) BY <3>1, <3>8, <4>1, <4>4, <4>7 DEF Awaited
        <5>2. OlderOrphan(t) BY <3>8, <4>4, <4>7, <5>1 DEF OlderOrphan
        <5> QED BY <3>2, <5>2
      <4> QED BY <4>5, <4>6, <4>7, AttemptNumbers
    <3>9. ASSUME NEW u \in TaskIds, PublishRow(u), Completes(u)
          PROVE  \/ outbox'[e] = outbox[e]
                 \/ outbox'[e].status = "published"
                    /\ outbox'[e].attempt_count = outbox[e].attempt_count
      BY <2>0, <3>9, EventType DEF PublishRow, TypeOK, Row
    <3>10. ASSUME NEW u \in TaskIds, FailRow(u), FailOutboxEvent(u) \/ FailAnswerLost(u)
           PROVE  outbox'[e] = outbox[e]
      <4>1. OwnsClaim(u) /\ Holding(u)
        BY <3>10 DEF FailRow, FailOutboxEvent, FailAnswerLost, Holding, Working
      <4>2. ~Holding(u)'
        BY <3>10, OneTask DEF FailOutboxEvent, FailAnswerLost, Holding, Working
      <4>3. EventOf(u) # e BY <1>2, <3>8, <4>1, <4>2
      <4> QED BY <2>0, <3>10, <4>3 DEF FailRow, TypeOK
    <3> QED BY <3>3, <3>5, <3>6, <3>7, <3>9, <3>10, RowSteps
  <2>3. CASE ~Holding(t) /\ Evolves BY <1>2, <2>3 DEF Evolves
  <2>4. ASSUME NEW w \in Workers, NEW S \in SUBSET Claimable, Opens(w, S),
               t \notin ClaimOf(S)
        PROVE  Holding(t)
    BY <1>2, <2>4, Opened DEF Holding
  <2> QED BY <2>1, <2>2, <2>3, <2>4, TaskMoves
<1> QED BY <1>1, <1>2 DEF Held

\* With a WORKER_ID of its own for every worker, a task works on a row that was
\* claimed again only after its lease has lapsed, or beside an orphaned task of its
\* own worker.
THEOREM OneOwner == OwnClaimants => (Spec => []NoDoubleOwnership)
<1> SUFFICES ASSUME OwnClaimants PROVE Spec => []NoDoubleOwnership OBVIOUS
<1> DEFINE IInv == TypeOK /\ Handed /\ Awaited /\ Held
<1>1. Init => IInv
  <2>1. Init => Handed /\ Awaited /\ Held
    BY DEF Init, Handed, Awaited, Held, NoTask, NewTask, Live, Holding, Working
  <2> QED BY <2>1, InitTypeOK
<1>2. IInv /\ [Next]_vars => IInv'
  BY StepTypeOK, StepHanded, StepAwaited, StepHeld
<1>3. IInv => NoDoubleOwnership
  <2> SUFFICES ASSUME IInv, NEW t \in TaskIds, Holding(t),
                      AttemptOf(t) < outbox[EventOf(t)].attempt_count
               PROVE  task[t].lapsed \/ OlderOrphan(t)
    BY DEF NoDoubleOwnership
  <2>1. AttemptOf(t) # outbox[EventOf(t)].attempt_count
    BY EventType, BoundAssumption DEF TypeOK, Row, TaskIds, AttemptOf
  <2> QED BY <2>1 DEF Held
<1> QED BY <1>1, <1>2, <1>3, PTL DEF Spec

-----------------------------------------------------------------------------
(* Attempts past the ceiling are paid by faults.                           *)

\* A task that is attended to stays so as long as it and the rejections of its batch do.
LEMMA AttendedStays ==
  ASSUME NEW t \in TaskIds, Attended(t),
         task'[t].pc \in Working \/ task'[t].pc = task[t].pc,
         task'[t].batch = task[t].batch,
         \A u \in task[t].batch : task'[u].pc = "rejected" <=> task[u].pc = "rejected"
  PROVE  Attended(t)'
<1>1. {u \in task'[t].batch : task'[u].pc = "rejected"}
        = {u \in task[t].batch : task[u].pc = "rejected"}
  OBVIOUS
<1> QED BY <1>1 DEF Attended

\* A worker at a task of its own that meets no fault goes on with it, or lets go of its row.
LEMMA OwnStep ==
  ASSUME TypeOK, OneReporter, NEW t \in TaskIds, TaskStep(t), OwnsClaim(t),
         faults' = faults, outbox'[EventOf(t)] = outbox[EventOf(t)]
  PROVE  task'[t].pc \in Working
<1>0. EventOf(t) \in Events /\ faults \in Nat BY EventType, BoundAssumption DEF TypeOK
<1>1. ~Fault("db") /\ ~Fault("ack") /\ ~Fault("record") BY <1>0 DEF Fault
<1>2. CASE TakeItem(t) BY <1>2, OneTask DEF TakeItem, Working
<1>3. CASE RunConsumer(t)
  <2>1. CASE Handle(t) BY <2>1 DEF Handle, TypeOK, Task, Working
  <2> QED BY <1>3, <2>1, OneTask
          DEF RunConsumer, RefuseVersion, HandlerUniqueViolation, InsertMarker,
              AlreadyProcessed, ConsumerCommits, CommitAnswerLost, ConsumerThrows, Working
<1>4. CASE CompleteStep(t)
  <2>1. ~PublishRow(t)
    BY <1>0 DEF PublishRow, OwnsClaim, TypeOK, Row
  <2> QED BY <1>4, <2>1, OneTask
          DEF CompleteStep, CompleteOutboxEvent, CompleteRefused, CompleteDatabaseError,
              CompleteAnswerLost, Working
<1>5. CASE FailStep(t)
  <2>1. ~FailRow(t)
    BY <1>0 DEF FailRow, OwnsClaim, TypeOK, Row
  <2> QED BY <1>1, <1>5, <2>1
          DEF FailStep, FailOutboxEvent, FailRefused, FailDatabaseError, FailAnswerLost
<1>6. CASE RecordStep(t)
  <2>1. task[t].pc = "record"
    BY <1>6 DEF RecordStep, RecordDeadLetter, RecordDeadLetterThrows, RecordAnswerLost
  <2> QED BY <2>1 DEF OneReporter, OwnsClaim
<1> QED BY <1>2, <1>3, <1>4, <1>5, <1>6 DEF TaskStep

\* A claim that is in good hands stays there unless a fault strikes or the row is let go.
LEMMA GoodHandsStay ==
  ASSUME TypeOK, Handed, OneReporter, [Next]_vars, NEW e \in Events, Claim(e) \in TaskIds,
         OwnsClaim(Claim(e)), task[Claim(e)].worker \in Workers,
         InGoodHands(e), outbox'[e] = outbox[e], faults' = faults
  PROVE  InGoodHands(e)'
<1> DEFINE t == Claim(e)
<1>0. /\ t' = t /\ EventOf(t) = e /\ t \in TaskIds /\ faults \in Nat
      /\ t = <<e, outbox[e].attempt_count>>
      /\ AttemptOf(t) = outbox[e].attempt_count
  BY BoundAssumption DEF Claim, EventOf, AttemptOf, TypeOK
<1>1. /\ e \notin stale /\ Attended(t) /\ proc[task[t].worker] = "up"
      /\ task[t].worker \in Workers /\ OwnsClaim(t)
  BY DEF InGoodHands
<1>2. \A kind : ~Fault(kind) BY <1>0 DEF Fault
<1>3. SUFFICES /\ e \notin stale' /\ proc'[task'[t].worker] = "up"
               /\ task'[t].batch = task[t].batch
               /\ task'[t].pc \in Working \/ task'[t].pc = task[t].pc
               /\ \A u \in task[t].batch : task'[u].pc = "rejected" <=> task[u].pc = "rejected"
  BY <1>0, <1>1, AttendedStays DEF InGoodHands, Claim
<1>4. task[t].batch \subseteq TaskIds BY <1>0 DEF TypeOK, Task
<1> HIDE DEF t
<1>5. CASE UNCHANGED <<task, stale, proc>> BY <1>1, <1>5
<1>6. CASE Producer BY <1>1, <1>6 DEF Producer, PublishEvent
<1>7. CASE Clock
  <2>1. PICK f \in Events : BecomeDue(f) \/ LeaseLapses(f) BY <1>7 DEF Clock
  <2>2. CASE BecomeDue(f) BY <1>5, <2>2 DEF BecomeDue
  <2>3. CASE LeaseLapses(f)
    <3> DEFINE v == <<f, outbox[f].attempt_count>>
    <3>1. /\ task' = [task EXCEPT ![v].lapsed = TRUE] /\ UNCHANGED proc
          /\ stale' = stale \cup {f} /\ ~Attended(v)
      BY <1>2, <2>3 DEF LeaseLapses
    <3>2. f # e BY <1>0, <1>1, <3>1
    <3> HIDE DEF v
    <3>3. \A u \in TaskIds : /\ task'[u].pc = task[u].pc /\ task'[u].batch = task[u].batch
                             /\ task'[u].worker = task[u].worker
      BY <3>1 DEF TypeOK, Task
    <3> QED BY <1>0, <1>1, <1>4, <3>1, <3>2, <3>3
  <2> QED BY <2>1, <2>2, <2>3
<1>8. ASSUME NEW w \in Workers, Claims(w)
      PROVE  /\ e \notin stale' /\ proc'[task'[t].worker] = "up"
             /\ task'[t].batch = task[t].batch /\ task'[t].pc = task[t].pc
             /\ \A u \in task[t].batch : task'[u].pc = "rejected" <=> task[u].pc = "rejected"
  <2>1. PICK S \in SUBSET Claimable : ProcessOutboxBatch(w, S) \/ ClaimAnswerLost(w, S)
    BY <1>8 DEF Claims
  <2>2. Opens(w, S) /\ stale' = stale \ S /\ UNCHANGED proc
    BY <2>1 DEF ProcessOutboxBatch, ClaimAnswerLost, ClaimRows, Opens
  <2>3. task[t].pc # "none" BY <1>1 DEF Attended, Working
  <2>4. \A u \in ClaimOf(S) : t # u /\ u \notin task[t].batch BY <1>0, <2>2, <2>3, Opened
  <2>5. task'[t] = task[t] /\ \A u \in task[t].batch : task'[u] = task[u]
    BY <1>0, <1>4, <2>2, <2>4, Opened
  <2> QED BY <1>1, <2>2, <2>5
<1>9. ASSUME NEW w \in Workers, Process(w)
      PROVE  /\ e \notin stale' /\ proc'[task'[t].worker] = "up"
             /\ task'[t].batch = task[t].batch /\ task'[t].pc = task[t].pc
             /\ \A u \in task[t].batch : task'[u].pc = "rejected" <=> task[u].pc = "rejected"
  <2>1. Exit(w) \/ Restart(w) BY <1>2, <1>9 DEF Process, Crash, Stop
  <2>2. w # task[t].worker /\ UNCHANGED stale
    BY <1>1, <2>1 DEF Exit, Restart, Halt, rows
  <2>3. proc'[task[t].worker] = "up" BY <1>1, <2>1, <2>2 DEF Exit, Restart, Halt, TypeOK
  <2>4. CASE Restart(w) BY <1>1, <2>2, <2>3, <2>4 DEF Restart
  <2>5. CASE Exit(w)
    <3>1. task'[t] = task[t] BY <1>0, <2>2, <2>5 DEF Exit, Halt
    <3>2. \A u \in TaskIds : task'[u] = task[u] \/ (Live(u) /\ task'[u].pc = "gone")
      <4>1. \A u \in TaskIds :
              \/ task'[u] = task[u]
              \/ /\ Live(u)
                 /\ task'[u] = [task[u] EXCEPT !.pc = "gone", !.k = 1, !.outcome = "skipped"]
        BY <2>5 DEF Exit, Halt
      <4>2. \A u \in TaskIds : task[u] \in Task BY DEF TypeOK
      <4>3. \A u \in TaskIds :
              [task[u] EXCEPT !.pc = "gone", !.k = 1, !.outcome = "skipped"].pc = "gone"
        BY <4>2, FinishedTask
      <4> QED
        <5> TAKE u \in TaskIds
        <5>1. CASE task'[u] = task[u] BY <5>1
        <5>2. CASE task'[u] # task[u]
          <6>1. task'[u].pc = [task[u] EXCEPT !.pc = "gone", !.k = 1,
                                              !.outcome = "skipped"].pc
            BY <4>1, <5>2
          <6> QED BY <4>1, <4>3, <5>2, <6>1
        <5> QED BY <5>1, <5>2
    <3> QED BY <1>1, <1>4, <2>2, <2>3, <3>1, <3>2 DEF Live, Working
  <2> QED BY <2>1, <2>4, <2>5
<1>10. ASSUME NEW v \in TaskIds, TaskStep(v)
       PROVE  /\ e \notin stale' /\ proc'[task'[t].worker] = "up"
              /\ task'[t].batch = task[t].batch
              /\ task'[t].pc \in Working \/ task'[t].pc = task[t].pc
              /\ \A u \in task[t].batch : task'[u].pc = "rejected" <=> task[u].pc = "rejected"
  <2>1. stale' \subseteq stale /\ UNCHANGED proc
    BY <1>10 DEF TaskStep, TakeItem, RunConsumer, RefuseVersion, Handle,
       HandlerUniqueViolation, InsertMarker, AlreadyProcessed, ConsumerCommits,
       CommitAnswerLost, ConsumerThrows, CompleteStep, CompleteOutboxEvent, CompleteRefused,
       CompleteDatabaseError, CompleteAnswerLost, PublishRow, FailStep, FailOutboxEvent,
       FailRefused, FailDatabaseError, FailAnswerLost, FailRow, RecordStep,
       RecordDeadLetter, RecordDeadLetterThrows, RecordAnswerLost, rows
  <2>2. /\ Live(v)
        /\ \/ \E pc \in {"run", "commit", "fail"} : Step(v, pc)
           \/ \E pc \in {"done", "record"} : Finish(v, pc)
           \/ NextConsumer(v)
           \/ Handle(v)
    BY <1>2, <1>10 DEF TaskStep, TakeItem, RunConsumer, RefuseVersion,
       HandlerUniqueViolation, InsertMarker, AlreadyProcessed, ConsumerCommits,
       CommitAnswerLost, ConsumerThrows, CompleteStep, CompleteOutboxEvent, CompleteRefused,
       CompleteDatabaseError, CompleteAnswerLost, Completes, FailStep, FailOutboxEvent,
       FailRefused, FailDatabaseError, FailAnswerLost, RecordStep, RecordDeadLetter,
       RecordDeadLetterThrows, RecordAnswerLost, Handle, Live, Working
  <2>3. \A u \in TaskIds : task'[u].worker = task[u].worker /\ task'[u].batch = task[u].batch
    BY <2>2, OneTaskKeeps
  <2>4. \A u \in TaskIds \ {v} : task'[u] = task[u]
    <3>1. CASE Handle(v) BY <3>1 DEF Handle, TypeOK
    <3> QED BY <2>2, <3>1, OneTask
  <2>5. task'[v].pc # "rejected" /\ task[v].pc # "rejected"
    <3>1. CASE Handle(v) BY <2>2, <3>1 DEF Handle, TypeOK, Task, Live, Working
    <3> QED BY <2>2, <3>1, OneTask DEF Live, Working
  <2>6. task'[t].pc \in Working \/ task'[t].pc = task[t].pc
    <3>1. CASE v = t BY <1>0, <1>1, <1>10, <3>1, OwnStep
    <3>2. CASE v # t BY <1>0, <2>4, <3>2
    <3> QED BY <3>1, <3>2
  <2> QED BY <1>0, <1>1, <1>4, <2>1, <2>3, <2>4, <2>5, <2>6
<1> QED BY <1>5, <1>6, <1>7, <1>8, <1>9, <1>10 DEF Next, vars

\* Faults are only ever added, one at a time.
LEMMA FaultSteps ==
  ASSUME TypeOK, [Next]_vars
  PROVE  faults \in Nat /\ faults' \in Nat /\ (faults' = faults \/ faults' = faults + 1)
<1>1. faults \in Nat BY BoundAssumption DEF TypeOK
<1>2. faults' = faults \/ faults' = faults + 1
  BY DEF Next, vars, Producer, PublishEvent, Clock, BecomeDue, LeaseLapses, Claims,
     ProcessOutboxBatch, ClaimAnswerLost, Process, Crash, Stop, Exit, Restart,
     TaskStep, TakeItem, RunConsumer, RefuseVersion, Handle, HandlerUniqueViolation,
     InsertMarker, AlreadyProcessed, ConsumerCommits, CommitAnswerLost, ConsumerThrows,
     CompleteStep, CompleteOutboxEvent, CompleteRefused, CompleteDatabaseError,
     CompleteAnswerLost, FailStep, FailOutboxEvent, FailRefused, FailDatabaseError,
     FailAnswerLost, RecordStep, RecordDeadLetter, RecordDeadLetterThrows,
     RecordAnswerLost, Fault, NoFault
<1> QED BY <1>1, <1>2

\* Only a claim counts an attempt.
LEMMA ClaimSteps ==
  ASSUME TypeOK, [Next]_vars, NEW e \in Events,
         outbox'[e].attempt_count # outbox[e].attempt_count
  PROVE  \E w \in Workers, S \in SUBSET Claimable :
           e \in S /\ (ProcessOutboxBatch(w, S) \/ ClaimAnswerLost(w, S))
<1>1. ~UNCHANGED outbox OBVIOUS
<1>2. ~(\E f \in Events : PublishEvent(f)) BY DEF PublishEvent, TypeOK, Row
<1>3. ASSUME NEW t \in TaskIds PROVE ~PublishRow(t) /\ ~FailRow(t)
  BY <1>3, EventType DEF PublishRow, FailRow, TypeOK, Row
<1>4. ASSUME NEW w \in Workers, Claims(w)
      PROVE  \E S \in SUBSET Claimable :
               e \in S /\ (ProcessOutboxBatch(w, S) \/ ClaimAnswerLost(w, S))
  <2>1. PICK S \in SUBSET Claimable : ProcessOutboxBatch(w, S) \/ ClaimAnswerLost(w, S)
    BY <1>4 DEF Claims
  <2>2. ClaimRows(w, S) BY <2>1 DEF ProcessOutboxBatch, ClaimAnswerLost
  <2>3. e \in S BY <2>2 DEF ClaimRows
  <2> QED BY <2>1, <2>3
<1>5. ~Producer /\ ~Clock
  BY <1>1, <1>2 DEF Producer, Clock, BecomeDue, LeaseLapses
<1>6. ASSUME NEW w \in Workers PROVE ~Process(w)
  BY <1>1, <1>6 DEF Process, Crash, Stop, Exit, Restart, Halt, rows
<1>7. ASSUME NEW t \in TaskIds PROVE ~TaskStep(t)
  BY <1>1, <1>3, <1>7 DEF TaskStep, TakeItem, RunConsumer, RefuseVersion, Handle,
     HandlerUniqueViolation, InsertMarker, AlreadyProcessed, ConsumerCommits,
     CommitAnswerLost, ConsumerThrows, CompleteStep, CompleteOutboxEvent, CompleteRefused,
     CompleteDatabaseError, CompleteAnswerLost, FailStep, FailOutboxEvent, FailRefused,
     FailDatabaseError, FailAnswerLost, RecordStep, RecordDeadLetter,
     RecordDeadLetterThrows, RecordAnswerLost, rows
<1> QED BY <1>1, <1>4, <1>5, <1>6, <1>7 DEF Next, vars

\* A fresh claim is in good hands, unless its answer was lost.
LEMMA FreshClaim ==
  ASSUME TypeOK, Handed, NEW e \in Events, NEW w \in Workers, NEW S \in SUBSET Claimable,
         e \in S, ProcessOutboxBatch(w, S) \/ ClaimAnswerLost(w, S)
  PROVE  /\ outbox'[e].status = "claimed"
         /\ outbox'[e].attempt_count = outbox[e].attempt_count + 1
         /\ Claim(e)' \in TaskIds /\ task'[Claim(e)'].worker = w
         /\ outbox'[e].claimed_by = Claimant[w]
         /\ InGoodHands(e)' \/ faults' = faults + 1
<1>0. PICK u : u = <<e, outbox[e].attempt_count + 1>> OBVIOUS
<1>1. ClaimRows(w, S) /\ Opens(w, S)
  BY DEF ProcessOutboxBatch, ClaimAnswerLost, Opens
<1>2. /\ outbox'[e] = [status |-> "claimed", attempt_count |-> outbox[e].attempt_count + 1,
                       claimed_by |-> Claimant[w]]
      /\ stale' = stale \ S
  BY <1>1 DEF ClaimRows
<1>3. Claim(e)' = u /\ u \in ClaimOf(S) BY <1>0, <1>2 DEF Claim, ClaimOf
<1>4. u \in TaskIds /\ task'[u].worker = w /\ task'[u].batch = ClaimOf(S) BY <1>1, <1>3, Opened
<1>5. CASE ClaimAnswerLost(w, S)
  <2>1. faults' = faults + 1 BY <1>5 DEF ClaimAnswerLost, Fault
  <2> QED BY <1>2, <1>3, <1>4, <2>1
<1>6. CASE ProcessOutboxBatch(w, S)
  <2>1. ClaimOf(S) \subseteq TaskIds BY <1>1, Opened
  <2>2. \A v \in ClaimOf(S) : task'[v].pc = "queued"
    BY <1>6, <2>1 DEF ProcessOutboxBatch, OpenTasks, NewTask
  <2>3. {v \in task'[u].batch : task'[v].pc = "rejected"} = {} BY <1>4, <2>2
  <2>4. Cardinality({v \in task'[u].batch : task'[v].pc = "rejected"}) < Concurrency
    <3>1. Cardinality({}) = 0 BY FS_EmptySet
    <3>2. 0 < Concurrency BY BoundAssumption
    <3> QED BY <2>3, <3>1, <3>2
  <2>5. Attended(u)' BY <1>3, <2>2, <2>4 DEF Attended
  <2>6. proc'[w] = "up" BY <1>6 DEF ProcessOutboxBatch, Polls
  <2>7. InGoodHands(e)' BY <1>2, <1>3, <1>4, <2>5, <2>6 DEF InGoodHands
  <2> QED BY <1>2, <1>3, <1>4, <2>7
<1> QED BY <1>5, <1>6

\* Every step keeps the accounts of attempts and faults.
LEMMA StepPaid ==
  ASSUME TypeOK, Handed, OneReporter, Paid, PaidByFaults, [Next]_vars
  PROVE  Paid' /\ PaidByFaults'
<1> SUFFICES ASSUME NEW e \in Events
             PROVE  /\ outbox'[e].attempt_count <= MaxAttempts + faults'
                    /\ outbox'[e].status \in {"absent", "pending"} =>
                         outbox'[e].attempt_count < MaxAttempts
                    /\ outbox'[e].status = "claimed" =>
                         /\ Claim(e)' \in TaskIds /\ task'[Claim(e)'].worker \in Workers
                         /\ outbox'[e].claimed_by = Claimant[task'[Claim(e)'].worker]
                         /\ outbox'[e].attempt_count < MaxAttempts \/ InGoodHands(e)'
                              \/ outbox'[e].attempt_count + 1 <= MaxAttempts + faults'
  BY DEF Paid, PaidByFaults, ClaimantOf
<1>0. /\ outbox[e].attempt_count \in Nat /\ outbox'[e].attempt_count \in Nat
      /\ MaxAttempts \in Nat /\ MaxAttempts >= 1
      /\ faults \in Nat /\ faults' \in Nat /\ (faults' = faults \/ faults' = faults + 1)
  BY AttemptNumbers, FaultSteps, BoundAssumption
<1>1. outbox[e].attempt_count <= MaxAttempts + faults BY DEF PaidByFaults
<1>2. CASE outbox'[e].attempt_count # outbox[e].attempt_count
  <2>1. PICK w \in Workers, S \in SUBSET Claimable :
          e \in S /\ (ProcessOutboxBatch(w, S) \/ ClaimAnswerLost(w, S))
    BY <1>2, ClaimSteps
  <2>2. /\ outbox'[e].status = "claimed"
        /\ outbox'[e].attempt_count = outbox[e].attempt_count + 1
        /\ Claim(e)' \in TaskIds /\ task'[Claim(e)'].worker = w
        /\ outbox'[e].claimed_by = Claimant[w]
        /\ InGoodHands(e)' \/ faults' = faults + 1
    BY <2>1, FreshClaim
  <2>3. outbox[e].attempt_count + 1 <= MaxAttempts + faults
    <3>1. \/ outbox[e].status = "pending"
          \/ outbox[e].status = "claimed" /\ ~InGoodHands(e)
      BY <2>1 DEF Claimable, InGoodHands
    <3>2. \/ outbox[e].attempt_count < MaxAttempts
          \/ outbox[e].attempt_count + 1 <= MaxAttempts + faults
      BY <3>1 DEF Paid
    <3> QED BY <1>0, <3>2
  <2> QED BY <1>0, <2>2, <2>3
<1>3. CASE outbox'[e] = outbox[e]
  <2>1. outbox'[e].attempt_count <= MaxAttempts + faults' BY <1>0, <1>1, <1>3
  <2>2. ASSUME outbox[e].status = "claimed"
        PROVE  /\ Claim(e)' \in TaskIds /\ task'[Claim(e)'].worker \in Workers
               /\ outbox'[e].claimed_by = Claimant[task'[Claim(e)'].worker]
               /\ outbox'[e].attempt_count < MaxAttempts \/ InGoodHands(e)'
                    \/ outbox'[e].attempt_count + 1 <= MaxAttempts + faults'
    <3>1. /\ Claim(e) \in TaskIds /\ task[Claim(e)].worker \in Workers
          /\ outbox[e].claimed_by = ClaimantOf(Claim(e))
          /\ \/ outbox[e].attempt_count < MaxAttempts
             \/ InGoodHands(e)
             \/ outbox[e].attempt_count + 1 <= MaxAttempts + faults
      BY <2>2 DEF Paid
    <3>2. Claim(e)' = Claim(e) /\ EventOf(Claim(e)) = e BY <1>3 DEF Claim, EventOf
    <3>3. task'[Claim(e)].worker = task[Claim(e)].worker
      <4>1. CASE Evolves BY <3>1, <4>1 DEF Evolves
      <4>2. ASSUME NEW w \in Workers, NEW S \in SUBSET Claimable, Opens(w, S)
            PROVE  Claim(e) \notin ClaimOf(S)
        <5>1. Claim(e) \in ClaimOf(S) =>
                AttemptOf(Claim(e)) = outbox[e].attempt_count + 1
          BY <3>2, <4>2, Opened
        <5> QED BY <1>0, <5>1 DEF Claim, AttemptOf
      <4> QED BY <3>1, <4>1, <4>2, TaskMoves, Opened
    <3>4. OwnsClaim(Claim(e)) BY <2>2, <3>1, <3>2 DEF OwnsClaim
    <3>5. InGoodHands(e) /\ faults' = faults => InGoodHands(e)'
      BY <1>3, <3>1, <3>4, GoodHandsStay
    <3> QED BY <1>0, <1>1, <1>3, <3>1, <3>2, <3>3, <3>5 DEF ClaimantOf
  <2> QED BY <1>3, <2>1, <2>2 DEF Paid
<1>4. CASE /\ outbox'[e].attempt_count = outbox[e].attempt_count
           /\ outbox'[e] # outbox[e]
  <2>1. \/ outbox[e].status = "absent" /\ outbox'[e].status = "pending"
        \/ /\ outbox[e].status = "claimed"
           /\ outbox'[e].status \in {"published", "pending", "dead_letter"}
    BY <1>0, <1>4, RowChange
  <2>2. outbox[e].status = "absent" => outbox[e].attempt_count < MaxAttempts BY DEF Paid
  <2>3. ASSUME outbox[e].status = "claimed", outbox'[e].status = "pending"
        PROVE  outbox[e].attempt_count < MaxAttempts
    <3>1. CASE \E f \in Events : PublishEvent(f)
      BY <1>4, <2>3, <3>1 DEF PublishEvent, TypeOK
    <3>2. CASE \E w \in Workers, S \in SUBSET Claimable : ClaimRows(w, S)
      BY <1>4, <2>3, <3>2 DEF ClaimRows
    <3>3. CASE \E t \in TaskIds : PublishRow(t)
      BY <1>4, <2>3, <3>3 DEF PublishRow, TypeOK, Row
    <3>4. ASSUME NEW t \in TaskIds, FailRow(t) PROVE outbox[e].attempt_count < MaxAttempts
      BY <1>0, <1>4, <2>3, <3>4 DEF FailRow, TypeOK, Row
    <3> QED BY <1>4, <3>1, <3>2, <3>3, <3>4, RowSteps
  <2> QED BY <1>0, <1>1, <1>4, <2>1, <2>2, <2>3
<1> QED BY <1>2, <1>3, <1>4

\* All that is needed to account for the attempts.
PaidInv == /\ TypeOK /\ Handed /\ OneReporter /\ ErrorRecordTruthful
           /\ Paid /\ PaidByFaults

\* It holds in every reachable state.
LEMMA PaidInductive == Spec => []PaidInv
<1>1. Init => PaidInv
  <2> SUFFICES ASSUME Init PROVE PaidInv OBVIOUS
  <2>1. Handed /\ OneReporter /\ ErrorRecordTruthful
    BY DEF Init, Handed, OneReporter, ErrorRecordTruthful, NoTask, NewTask, Live, Working
  <2>2. Paid /\ PaidByFaults BY BoundAssumption DEF Init, Paid, PaidByFaults
  <2> QED BY <2>1, <2>2, InitTypeOK DEF PaidInv
<1>2. PaidInv /\ [Next]_vars => PaidInv'
  BY StepTypeOK, StepHanded, StepReports, StepPaid DEF PaidInv
<1> QED BY <1>1, <1>2, PTL DEF Spec

\* An event is attempted past the ceiling only as often as faults have struck: every one of
\* these attempts follows a lapse, a loss or a crash that no other one follows
\* (claim_outbox_events, which takes a stale row back whatever its attempt_count is).
THEOREM OverrunsArePaid == Spec => []PaidByFaults
<1>1. PaidInv => PaidByFaults BY DEF PaidInv
<1> QED BY <1>1, PaidInductive, PTL

\* A bound of one claim per attempt and fault never keeps a row from being claimed: the
\* instances that TLC checks lose no behaviour to MaxClaims.
THEOREM ClaimsNotCut ==
  MaxClaims >= MaxAttempts + MaxFaults =>
    (Spec => [](\A e \in Claimable : outbox[e].attempt_count < MaxClaims))
<1> SUFFICES ASSUME MaxClaims >= MaxAttempts + MaxFaults
             PROVE  Spec => [](\A e \in Claimable : outbox[e].attempt_count < MaxClaims)
  OBVIOUS
<1>1. PaidInv => \A e \in Claimable : outbox[e].attempt_count < MaxClaims
  <2> SUFFICES ASSUME PaidInv, NEW e \in Claimable
               PROVE  outbox[e].attempt_count < MaxClaims
    OBVIOUS
  <2>1. /\ e \in Events /\ outbox[e].attempt_count \in Nat
        /\ faults \in Nat /\ faults <= MaxFaults /\ MaxFaults \in Nat
        /\ MaxAttempts \in Nat \ {0} /\ MaxClaims \in Nat
    BY BoundAssumption DEF PaidInv, TypeOK, Row, Claimable
  <2>2. \/ outbox[e].attempt_count < MaxAttempts
        \/ outbox[e].attempt_count + 1 <= MaxAttempts + faults
    BY <2>1 DEF PaidInv, Paid, Claimable, InGoodHands
  <2> QED BY <2>1, <2>2
<1> QED BY <1>1, PaidInductive, PTL

-----------------------------------------------------------------------------
(* The outbox implements EventDelivery.                                    *)

\* An event that was not committed yet has not been claimed.
AbsentUnclaimed ==
  \A e \in Events : outbox[e].status = "absent" => outbox[e].attempt_count = 0

\* An event that was not published is claimed by nobody: a row appears unclaimed.
LEMMA StepAbsentUnclaimed ==
  ASSUME TypeOK, AbsentUnclaimed, [Next]_vars PROVE AbsentUnclaimed'
  BY RowChange DEF AbsentUnclaimed

\* All that the refinement needs to know of a state.
RefinementInv == DeliveredInv /\ OneReporter /\ ErrorRecordTruthful /\ AbsentUnclaimed

\* What the refinement needs holds in every reachable state.
LEMMA RefinementInductive ==
  "unique" \notin FaultKinds => (Spec => []RefinementInv)
<1> SUFFICES ASSUME "unique" \notin FaultKinds PROVE Spec => []RefinementInv
  OBVIOUS
<1> DEFINE R == TypeOK /\ OneReporter /\ ErrorRecordTruthful /\ AbsentUnclaimed
<1>1. Init => R
  <2>1. Init => OneReporter /\ ErrorRecordTruthful /\ AbsentUnclaimed
    BY DEF Init, OneReporter, ErrorRecordTruthful, AbsentUnclaimed, NoTask, NewTask, Live,
           Working
  <2> QED BY <2>1, InitTypeOK
<1>2. R /\ [Next]_vars => R' BY StepTypeOK, StepReports, StepAbsentUnclaimed
<1>3. DeliveredInv /\ R => RefinementInv BY DEF RefinementInv
<1> QED BY <1>1, <1>2, <1>3, DeliveredInductive, PTL DEF Spec

\* What the refinement sees of the state.
State   == [e \in Events |-> IF outbox[e].status \in {"pending", "claimed"}
                             THEN "open" ELSE outbox[e].status]
Handled == {key \in Keys : processed[key] # "none"}
Subscribed == [e \in Events |-> {ConsumersFor[e][i] : i \in 1..Len(ConsumersFor[e])}]

\* A row that changes is a commit, a publication, a giving up or nothing.
LEMMA RowStepRefines ==
  ASSUME RefinementInv, PublishedProcessed', [Next]_vars, UNCHANGED consumed
  PROVE  [Delivery!DNext]_(Delivery!dvars)
<1>0. TypeOK BY DEF RefinementInv, DeliveredInv
<1>1. UNCHANGED Handled /\ UNCHANGED effects BY DEF Handled, consumed
<1>2. CASE UNCHANGED State
  BY <1>1, <1>2 DEF Delivery!dvars, State, Handled
<1>3. ASSUME NEW e \in Events, PublishEvent(e) PROVE Delivery!DNext
  <2>1. State[e] = "absent" /\ State' = [State EXCEPT ![e] = "open"]
    BY <1>0, <1>3 DEF PublishEvent, State, TypeOK, Row
  <2>2. Delivery!Commit(e) BY <1>1, <2>1 DEF Delivery!Commit, State, Handled
  <2> QED BY <2>2 DEF Delivery!DNext
<1>4. ASSUME NEW w \in Workers, NEW S \in SUBSET Claimable, ClaimRows(w, S)
      PROVE  UNCHANGED State
  BY <1>0, <1>4 DEF ClaimRows, Claimable, State, TypeOK
<1>5. ASSUME NEW t \in TaskIds, PublishRow(t) PROVE Delivery!DNext
  <2> DEFINE e == EventOf(t)
  <2>1. e \in Events BY EventType
  <2>2. outbox'[e].status = "published" BY <1>0, <1>5, <2>1 DEF PublishRow, TypeOK, Row
  <2>3. State[e] = "open" /\ State' = [State EXCEPT ![e] = "published"]
    <3>1. State[e] = "open" BY <1>5, <2>1 DEF PublishRow, OwnsClaim, State
    <3>2. \A f \in Events : State'[f] = IF f = e THEN "published" ELSE State[f]
      BY <1>0, <1>5, <2>1, <2>2 DEF PublishRow, TypeOK, State
    <3> QED BY <2>1, <3>1, <3>2 DEF State
  <2>4. \A c \in Subscribed[e] : <<c, e>> \in Handled
    <3> SUFFICES ASSUME NEW i \in 1..Len(ConsumersFor[e])
                 PROVE  <<ConsumersFor[e][i], e>> \in Handled
      BY <2>1 DEF Subscribed
    <3>1. processed'[<<ConsumersFor[e][i], e>>] # "none"
      BY <2>1, <2>2 DEF PublishedProcessed
    <3>2. <<ConsumersFor[e][i], e>> \in Keys BY <2>1, SubscriberKey
    <3> QED BY <3>1, <3>2 DEF Handled, consumed
  <2>5. Delivery!Publish(e)
    BY <1>1, <2>3, <2>4 DEF Delivery!Publish, State, Handled, Subscribed
  <2> QED BY <2>1, <2>5 DEF Delivery!DNext
<1>6. ASSUME NEW t \in TaskIds, FailRow(t) PROVE Delivery!DNext \/ UNCHANGED State
  <2> DEFINE e == EventOf(t)
  <2>1. e \in Events BY EventType
  <2>2. State[e] = "open" BY <1>6, <2>1 DEF FailRow, OwnsClaim, State
  <2>3. \A f \in Events \ {e} : outbox'[f] = outbox[f]
    BY <1>0, <1>6 DEF FailRow, TypeOK
  <2>4. CASE outbox'[e].status = "pending"
    BY <2>1, <2>2, <2>3, <2>4 DEF State
  <2>5. CASE outbox'[e].status = "dead_letter"
    <3>1. State' = [State EXCEPT ![e] = "dead_letter"] BY <2>1, <2>3, <2>5 DEF State
    <3>2. Delivery!GiveUp(e) BY <1>1, <2>2, <3>1 DEF Delivery!GiveUp, State, Handled
    <3> QED BY <2>1, <3>2 DEF Delivery!DNext
  <2> QED BY <1>0, <1>6, <2>1, <2>4, <2>5 DEF FailRow, TypeOK, Row
<1>7. CASE UNCHANGED outbox BY <1>2, <1>7 DEF State
<1> QED BY <1>2, <1>3, <1>4, <1>5, <1>6, <1>7, RowSteps

\* A commit of a handler is the answer of its consumer.
LEMMA CommitRefines ==
  ASSUME RefinementInv, NEW t \in TaskIds, ConsumerCommits(t) \/ CommitAnswerLost(t)
  PROVE  Delivery!DNext
<1> USE DEF RefinementInv, DeliveredInv
<1> DEFINE e == EventOf(t)
           c == ConsumerOf(t)
<1>1. /\ task[t].pc = "commit" /\ CommitConsumer(t) /\ UNCHANGED outbox
      /\ HasConsumer(t) /\ processed[KeyOf(t)] = "none"
  BY DEF ConsumerCommits, CommitAnswerLost, rows, OneOpenMarker, MarkerCommitted
<1>2. e \in Events /\ KeyOf(t) \in Keys /\ KeyOf(t) = <<c, e>>
  BY <1>1, EventType, KeyType DEF KeyOf
<1>3. c \in Consumers /\ c \in Subscribed[e]
  <2>1. task[t].k \in Nat \ {0} /\ ConsumersFor[e] \in Seq(Consumers)
    BY <1>2, SubscriptionAssumption DEF TypeOK, Task
  <2>2. task[t].k \in 1..Len(ConsumersFor[e]) BY <1>1, <2>1 DEF HasConsumer
  <2> QED BY <1>2, <2>1, <2>2 DEF Subscribed, ConsumerOf
<1>4. State[e] \in {"open", "dead_letter"}
  <2>1. outbox[e].status # "absent"
    <3>1. AttemptOf(t) <= outbox[e].attempt_count
      BY <1>1 DEF OneReporter, Live, Working
    <3>2. AttemptOf(t) >= 1 /\ AttemptOf(t) \in Nat BY DEF AttemptOf, TaskIds
    <3> QED BY <1>2, <3>1, <3>2 DEF AbsentUnclaimed
  <2>2. outbox[e].status # "published"
    <3>1. task[t].k \in 1..Len(ConsumersFor[e])
      BY <1>1, <1>2, SubscriptionAssumption DEF HasConsumer, TypeOK, Task
    <3> QED BY <1>1, <1>2, <3>1 DEF PublishedProcessed, KeyOf, ConsumerOf
  <2> QED BY <1>2, <2>1, <2>2 DEF State, TypeOK, Row
<1>5. <<c, e>> \notin Handled /\ Handled' = Handled \cup {<<c, e>>}
  <2>1. task[t].outcome \in Outcomes BY DEF TypeOK, Task
  <2>2. \A key \in Keys : processed'[key] = IF key = <<c, e>> THEN task[t].outcome
                                            ELSE processed[key]
    BY <1>1, <1>2 DEF CommitConsumer, TypeOK
  <2> QED BY <1>1, <1>2, <2>1, <2>2 DEF Handled, Outcomes
<1>6. UNCHANGED State BY <1>1 DEF State
<1>7. \/ effects' = [effects EXCEPT ![<<c, e>>] = @ + 1]
      \/ UNCHANGED effects
  BY <1>1, <1>2 DEF CommitConsumer
<1>8. Delivery!Answer(c, e)
  BY <1>3, <1>4, <1>5, <1>6, <1>7 DEF Delivery!Answer, State, Handled, Subscribed
<1> QED BY <1>2, <1>3, <1>8 DEF Delivery!DNext

\* As long as no handler runs into a unique constraint of its own, every behaviour
\* of the outbox, with its leases, retries, crashes and lost answers, is one of the
\* abstract delivery: handled at most once per subscriber, published after all.
THEOREM OutboxImplementsDelivery ==
  "unique" \notin FaultKinds => (Spec => ImplementsDelivery)
<1> SUFFICES ASSUME "unique" \notin FaultKinds PROVE Spec => ImplementsDelivery
  OBVIOUS
<1>1. Init => Delivery!DInit
  BY DEF Init, Delivery!DInit, Keys
<1>2. RefinementInv /\ RefinementInv' /\ [Next]_vars => [Delivery!DNext]_(Delivery!dvars)
  <2> SUFFICES ASSUME RefinementInv, RefinementInv', [Next]_vars
               PROVE  [Delivery!DNext]_(Delivery!dvars)
    OBVIOUS
  <2>0. TypeOK /\ PublishedProcessed' BY DEF RefinementInv, DeliveredInv
  <2>1. CASE UNCHANGED consumed BY <2>0, <2>1, RowStepRefines
  <2>2. ASSUME NEW t \in TaskIds, ConsumerCommits(t) \/ CommitAnswerLost(t)
        PROVE  Delivery!DNext
    BY <2>2, CommitRefines
  <2>3. ASSUME NEW t \in TaskIds, Handle(t) \/ InsertMarker(t) PROVE UNCHANGED consumed
    BY <2>3 DEF Handle, InsertMarker
  <2> QED BY <2>0, <2>1, <2>2, <2>3, QuietSteps DEF Quiet
<1> QED BY <1>1, <1>2, RefinementInductive, PTL DEF Spec, ImplementsDelivery, Delivery!DSpec
=============================================================================
