------------------------------- MODULE Outbox -------------------------------
(***************************************************************************)
(* The transactional outbox: the table shared.event_outbox with its claim, *)
(* complete and fail functions, the worker processes that poll it, and the *)
(* consumers they run, each in one transaction with its marker in          *)
(* shared.processed_events.                                                *)
(*                                                                         *)
(* Every database call of a worker is a transaction of its own, so it is an*)
(* action of its own; a worker runs several tasks at once (one per claimed *)
(* row) and may die, lose the answer of a call or be slower than its lease *)
(* between any two of them.                                                *)
(*                                                                         *)
(* Time is two sets: due holds the pending rows whose available_at has     *)
(* passed, stale the claimed rows whose claimed_at is older than the lease.*)
(* A claim of row e that raised attempt_count to n is the task <<e, n>>.   *)
(***************************************************************************)
EXTENDS Integers, Sequences, FiniteSets

CONSTANTS
  Events,         \* rows of shared.event_outbox, named by id
  Workers,        \* worker processes
  Consumers,      \* registered consumers, named by code
  Claimants,      \* WORKER_ID values
  Claimant,       \* the WORKER_ID each process is configured with
  ConsumersFor,   \* consumersFor(eventType): the subscribers, in code order
  Unsupported,    \* <<consumer, event>>: schema version the consumer does not know
  MaxAttempts,    \* OUTBOX_MAX_ATTEMPTS
  BatchSize,      \* OUTBOX_BATCH_SIZE
  Concurrency,    \* OUTBOX_MAX_CONCURRENCY
  FaultKinds,     \* the faults this instance may meet
  MaxFaults,      \* bound: how many faults happen in a behaviour
  MaxClaims,      \* bound: how often one row is claimed
  Nobody          \* SQL NULL of claimed_by

ASSUME ClaimantAssumption ==
  /\ Claimant \in [Workers -> Claimants]
  /\ Nobody \notin Claimants

ASSUME SubscriptionAssumption ==
  /\ ConsumersFor \in [Events -> Seq(Consumers)]
  /\ Unsupported \subseteq Consumers \X Events

ASSUME BoundAssumption ==
  /\ MaxAttempts \in Nat \ {0}
  /\ BatchSize \in Nat \ {0}
  /\ Concurrency \in Nat \ {0}
  /\ MaxFaults \in Nat
  /\ MaxClaims \in Nat

VARIABLES
  outbox,         \* the rows: status, attempt_count, claimed_by
  due,            \* pending rows with available_at <= now()
  stale,          \* claimed rows with claimed_at < now() - lease
  processed,      \* shared.processed_events: the committed outcome per key
  effects,        \* committed side effects per consumer and event
  error_records,  \* shared.error_records rows written per event
  task,           \* the claims and where their worker is with each
  proc,           \* life of each worker process
  current,        \* the batch each worker's loop is awaiting
  faults          \* faults so far

vars == <<outbox, due, stale, processed, effects, error_records, task, proc,
          current, faults>>
rows == <<outbox, due, stale>>
consumed == <<processed, effects>>

TaskIds == Events \X (1..MaxClaims)
Keys    == Consumers \X Events

Outcomes == {"applied", "skipped", "failed"}

\* A task that waits for a runner, the pcs of one a runner works on, and the
\* pcs of one nobody works on any more.
Working  == {"run", "mark", "commit", "fail", "record"}
Settled  == {"done", "rejected", "gone"}

Live(t) == task[t].pc \in Working \cup {"queued"}

NewTask(pc, w, b) == [pc |-> pc, worker |-> w, k |-> 1, outcome |-> "skipped",
                      batch |-> b, lapsed |-> FALSE]
NoTask == NewTask("none", Nobody, {})

Row == [status : {"absent", "pending", "claimed", "published", "dead_letter"},
        attempt_count : 0..MaxClaims,
        claimed_by : Claimants \cup {Nobody}]

Pcs == Working \cup Settled \cup {"none", "queued"}

Task == [pc : Pcs,
         worker : Workers \cup {Nobody},
         k : Nat \ {0},
         outcome : Outcomes,
         batch : SUBSET TaskIds,
         lapsed : BOOLEAN]

-----------------------------------------------------------------------------
(* Reading a task.                                                         *)

EventOf(t)   == t[1]
AttemptOf(t) == t[2]
ClaimantOf(t) == Claimant[task[t].worker]


\* The consumer the task is at, and whether it has run them all.
HasConsumer(t) == task[t].k <= Len(ConsumersFor[EventOf(t)])
ConsumerOf(t)  == ConsumersFor[EventOf(t)][task[t].k]
KeyOf(t)       == <<ConsumerOf(t), EventOf(t)>>

\* One promise of withConcurrency per slot: a slot is busy while its task is
\* worked on, and lost when its task rejected.
BusyOrLost(b) == {u \in b : task[u].pc \in Working \cup {"rejected"}}

FreeRunner(b) == Cardinality(BusyOrLost(b)) < Concurrency

\* A runner works on the task or will come to it.
Attended(t) == \/ task[t].pc \in Working
               \/ /\ task[t].pc = "queued"
                  /\ Cardinality({u \in task[t].batch : task[u].pc = "rejected"})
                       < Concurrency

\* Promise.all of the batch: rejected with the first, or resolved with the last.
BatchSettled(b) == \/ \E t \in b : task[t].pc = "rejected"
                   \/ \A t \in b : task[t].pc \in Settled

-----------------------------------------------------------------------------
(* Faults, each counted against MaxFaults.                                 *)

Fault(kind) == /\ kind \in FaultKinds
               /\ faults < MaxFaults
               /\ faults' = faults + 1

NoFault == UNCHANGED faults

Step(t, pc) == task' = [task EXCEPT ![t].pc = pc]

\* The for loop of processOutboxBatch goes on with the next consumer.
NextConsumer(t) == task' = [task EXCEPT ![t].pc = "run", ![t].k = @ + 1]

\* The task is over; k and outcome no longer matter.
Finish(t, pc) ==
  task' = [task EXCEPT ![t].pc = pc, ![t].k = 1, ![t].outcome = "skipped"]

-----------------------------------------------------------------------------
Init ==
  /\ outbox = [e \in Events |->
                 [status |-> "absent", attempt_count |-> 0, claimed_by |-> Nobody]]
  /\ due = {} /\ stale = {}
  /\ processed = [key \in Keys |-> "none"]
  /\ effects = [key \in Keys |-> 0]
  /\ error_records = [e \in Events |-> 0]
  /\ task = [t \in TaskIds |-> NoTask]
  /\ proc = [w \in Workers |-> "up"]
  /\ current = [w \in Workers |-> {}]
  /\ faults = 0

-----------------------------------------------------------------------------
(* The producer and the clock.                                             *)

\* publishEvent in a transaction that commits: the row becomes visible as the
\* insert guard demands it, pending with no attempt, and due at once.
PublishEvent(e) ==
  /\ outbox[e].status = "absent"
  /\ outbox' = [outbox EXCEPT ![e].status = "pending"]
  /\ due' = due \cup {e}
  /\ NoFault
  /\ UNCHANGED <<stale, consumed, error_records, task, proc, current>>

\* now() passes the available_at of a row waiting for its retry.
BecomeDue(e) ==
  /\ outbox[e].status = "pending" /\ e \notin due
  /\ due' = due \cup {e}
  /\ NoFault
  /\ UNCHANGED <<outbox, stale, consumed, error_records, task, proc, current>>

\* now() passes the lease of a claim: time alone when its worker has dropped
\* the claim, a fault (a worker slower than its lease) when it is still at it.
LeaseLapses(e) ==
  LET t == <<e, outbox[e].attempt_count>> IN
  /\ outbox[e].status = "claimed" /\ e \notin stale
  /\ stale' = stale \cup {e}
  /\ task' = [task EXCEPT ![t].lapsed = TRUE]
  /\ IF Attended(t) THEN Fault("slow") ELSE NoFault
  /\ UNCHANGED <<outbox, due, consumed, error_records, proc, current>>

-----------------------------------------------------------------------------
(* The claim.                                                              *)

\* Mutants of Claimable: the lease is not looked at; claims are never taken back.
ClaimedOrPending == {e \in Events : \/ outbox[e].status = "pending" /\ e \in due
                                    \/ outbox[e].status = "claimed"}
PendingOnly == {e \in Events : outbox[e].status = "pending" /\ e \in due}

\* The rows the candidate query of claim_outbox_events selects.
Claimable == {e \in Events : \/ outbox[e].status = "pending" /\ e \in due
                             \/ outbox[e].status = "claimed" /\ e \in stale}

ClaimOf(S) == {<<e, outbox[e].attempt_count + 1>> : e \in S}

\* The one UPDATE of claim_outbox_events. SKIP LOCKED may leave out rows another
\* call has locked, so the rows are any claimable ones up to the limit.
ClaimRows(w, S) ==
  /\ S # {} /\ S \subseteq Claimable /\ Cardinality(S) <= BatchSize
  /\ \A e \in S : outbox[e].attempt_count < MaxClaims
  /\ outbox' = [e \in Events |->
                  IF e \in S
                  THEN [status |-> "claimed",
                        attempt_count |-> outbox[e].attempt_count + 1,
                        claimed_by |-> Claimant[w]]
                  ELSE outbox[e]]
  /\ due' = due \ S
  /\ stale' = stale \ S

OpenTasks(w, S, pc) ==
  task' = [t \in TaskIds |->
             IF t \in ClaimOf(S)
             THEN NewTask(pc, w, ClaimOf(S))
             ELSE task[t]]

\* The loop of OutboxWorker.start claims only when it does not await a batch
\* and has not been told to stop.
Polls(w) == proc[w] = "up" /\ BatchSettled(current[w])

ProcessOutboxBatch(w, S) ==
  /\ Polls(w)
  /\ ClaimRows(w, S)
  /\ OpenTasks(w, S, "queued")
  /\ current' = [current EXCEPT ![w] = ClaimOf(S)]
  /\ NoFault
  /\ UNCHANGED <<consumed, error_records, proc>>

\* The claim committed but its answer was lost: nobody works on the rows.
ClaimAnswerLost(w, S) ==
  /\ Polls(w)
  /\ ClaimRows(w, S)
  /\ OpenTasks(w, S, "gone")
  /\ Fault("ack")
  /\ UNCHANGED <<consumed, error_records, proc, current>>

\* A free runner of withConcurrency takes the next row of its batch.
TakeItem(t) ==
  /\ task[t].pc = "queued"
  /\ FreeRunner(task[t].batch)
  /\ Step(t, "run")
  /\ NoFault
  /\ UNCHANGED <<rows, consumed, error_records, proc, current>>

-----------------------------------------------------------------------------
(* runConsumer.                                                            *)

\* A schema version the consumer does not support is thrown as an error.
RefuseVersion(t) ==
  /\ task[t].pc = "run" /\ HasConsumer(t) /\ KeyOf(t) \in Unsupported
  /\ Step(t, "fail")
  /\ NoFault
  /\ UNCHANGED <<rows, consumed, error_records, proc, current>>

\* The transaction begins and consumer.handle returns an outcome; its side
\* effects are not visible yet.
Handle(t) ==
  /\ task[t].pc = "run" /\ HasConsumer(t) /\ KeyOf(t) \notin Unsupported
  /\ \E o \in Outcomes :
       task' = [task EXCEPT ![t].pc = "mark", ![t].outcome = o]
  /\ NoFault
  /\ UNCHANGED <<rows, consumed, error_records, proc, current>>

\* The handler runs into a unique constraint of its own: runConsumer takes any
\* unique violation for a marker that exists already.
HandlerUniqueViolation(t) ==
  /\ "unique" \in FaultKinds
  /\ task[t].pc = "run" /\ HasConsumer(t) /\ KeyOf(t) \notin Unsupported
  /\ NextConsumer(t)
  /\ NoFault
  /\ UNCHANGED <<rows, consumed, error_records, proc, current>>

\* Mutant of MarkerCommitted: processed_events has no primary key.
NoPrimaryKey(key) == FALSE

\* The primary key of processed_events: a committed marker refuses the insert,
\* an uncommitted one makes it wait.
MarkerCommitted(key) == processed[key] # "none"
MarkerPending(key) ==
  \E u \in TaskIds : /\ task[u].pc = "commit"
                     /\ HasConsumer(u) /\ KeyOf(u) = key

\* The marker is inserted in the handler's transaction ...
InsertMarker(t) ==
  /\ task[t].pc = "mark"
  /\ ~MarkerCommitted(KeyOf(t)) /\ ~MarkerPending(KeyOf(t))
  /\ Step(t, "commit")
  /\ NoFault
  /\ UNCHANGED <<rows, consumed, error_records, proc, current>>

\* ... or violates the key: this is a redelivery, the transaction rolls back.
AlreadyProcessed(t) ==
  /\ task[t].pc = "mark"
  /\ MarkerCommitted(KeyOf(t))
  /\ NextConsumer(t)
  /\ NoFault
  /\ UNCHANGED <<rows, consumed, error_records, proc, current>>

\* Mutant of CommitConsumer: only an applied event leaves its marker.
MarksAppliedOnly(t) ==
  IF task[t].outcome = "applied"
  THEN /\ processed' = [processed EXCEPT ![KeyOf(t)] = "applied"]
       /\ effects' = [effects EXCEPT ![KeyOf(t)] = @ + 1]
  ELSE UNCHANGED consumed

\* What COMMIT makes durable: the marker and the handler's effects together.
CommitConsumer(t) ==
  /\ processed' = [processed EXCEPT ![KeyOf(t)] = task[t].outcome]
  /\ effects' = IF task[t].outcome = "applied"
                THEN [effects EXCEPT ![KeyOf(t)] = @ + 1]
                ELSE effects

ConsumerCommits(t) ==
  /\ task[t].pc = "commit"
  /\ CommitConsumer(t)
  /\ NextConsumer(t)
  /\ NoFault
  /\ UNCHANGED <<rows, error_records, proc, current>>

\* COMMIT took effect but its answer was lost: runConsumer throws all the same.
CommitAnswerLost(t) ==
  /\ task[t].pc = "commit"
  /\ CommitConsumer(t)
  /\ Step(t, "fail")
  /\ Fault("ack")
  /\ UNCHANGED <<rows, error_records, proc, current>>

\* Any other error of the handler or of the database rolls back and throws.
ConsumerThrows(t) ==
  /\ \/ task[t].pc = "run" /\ HasConsumer(t) /\ KeyOf(t) \notin Unsupported
     \/ task[t].pc \in {"mark", "commit"}
  /\ Step(t, "fail")
  /\ NoFault
  /\ UNCHANGED <<rows, consumed, error_records, proc, current>>

-----------------------------------------------------------------------------
(* complete_outbox_event, fail_outbox_event and the dead-letter record.    *)

\* Mutant of OwnsClaim: complete and fail find the row by its id alone.
FoundById(t) == outbox[EventOf(t)].status # "absent"

\* The WHERE of both functions. Nothing in it tells one claim of the row from
\* another by the same claimant.
OwnsClaim(t) == /\ outbox[EventOf(t)].status = "claimed"
                /\ outbox[EventOf(t)].claimed_by = ClaimantOf(t)

Completes(t) == task[t].pc = "run" /\ ~HasConsumer(t)

PublishRow(t) ==
  /\ OwnsClaim(t)
  /\ outbox' = [outbox EXCEPT ![EventOf(t)].status = "published",
                              ![EventOf(t)].claimed_by = Nobody]
  /\ stale' = stale \ {EventOf(t)}
  /\ UNCHANGED due

CompleteOutboxEvent(t) ==
  /\ Completes(t)
  /\ PublishRow(t)
  /\ Finish(t, "done")
  /\ NoFault
  /\ UNCHANGED <<consumed, error_records, proc, current>>

\* complete_outbox_event raised: the row is no longer this claimant's.
CompleteRefused(t) ==
  /\ Completes(t)
  /\ ~OwnsClaim(t)
  /\ Step(t, "fail")
  /\ NoFault
  /\ UNCHANGED <<rows, consumed, error_records, proc, current>>

CompleteDatabaseError(t) ==
  /\ Completes(t)
  /\ Step(t, "fail")
  /\ Fault("db")
  /\ UNCHANGED <<rows, consumed, error_records, proc, current>>

CompleteAnswerLost(t) ==
  /\ Completes(t)
  /\ PublishRow(t)
  /\ Step(t, "fail")
  /\ Fault("ack")
  /\ UNCHANGED <<consumed, error_records, proc, current>>

\* Mutant of FailRow: the claimant is not cleared.
KeepsClaimant(t) ==
  LET e == EventOf(t)
      dead == outbox[e].attempt_count >= MaxAttempts IN
  /\ OwnsClaim(t)
  /\ outbox' = [outbox EXCEPT ![e].status = IF dead THEN "dead_letter" ELSE "pending"]
  /\ stale' = stale \ {e}
  /\ UNCHANGED due

\* fail_outbox_event decides by the attempt_count of the row: dead letter at the
\* ceiling, else pending again and due after the backoff.
FailRow(t) ==
  LET e == EventOf(t)
      dead == outbox[e].attempt_count >= MaxAttempts IN
  /\ OwnsClaim(t)
  /\ outbox' = [outbox EXCEPT ![e].status = IF dead THEN "dead_letter" ELSE "pending",
                              ![e].claimed_by = Nobody]
  /\ stale' = stale \ {e}
  /\ UNCHANGED due

\* Mutant of WillDeadLetter: the report comes one attempt early.
OneAttemptEarly(t) == AttemptOf(t) + 1 >= MaxAttempts

\* The worker decides by the attempt_count it was given with the claim.
WillDeadLetter(t) == AttemptOf(t) >= MaxAttempts

FailOutboxEvent(t) ==
  /\ task[t].pc = "fail"
  /\ FailRow(t)
  /\ IF WillDeadLetter(t) THEN Finish(t, "record") ELSE Finish(t, "done")
  /\ NoFault
  /\ UNCHANGED <<consumed, error_records, proc, current>>

\* An error of fail_outbox_event is captured and the task returns.
FailRefused(t) ==
  /\ task[t].pc = "fail"
  /\ ~OwnsClaim(t)
  /\ Finish(t, "done")
  /\ NoFault
  /\ UNCHANGED <<rows, consumed, error_records, proc, current>>

FailDatabaseError(t) ==
  /\ task[t].pc = "fail"
  /\ Finish(t, "done")
  /\ Fault("db")
  /\ UNCHANGED <<rows, consumed, error_records, proc, current>>

FailAnswerLost(t) ==
  /\ task[t].pc = "fail"
  /\ FailRow(t)
  /\ Finish(t, "done")
  /\ Fault("ack")
  /\ UNCHANGED <<consumed, error_records, proc, current>>

\* recordDeadLetter, in a transaction of its own.
RecordDeadLetter(t) ==
  /\ task[t].pc = "record"
  /\ error_records' = [error_records EXCEPT ![EventOf(t)] = @ + 1]
  /\ Finish(t, "done")
  /\ NoFault
  /\ UNCHANGED <<rows, consumed, proc, current>>

\* It throws: Promise.all rejects while the other runners of the batch go on.
RecordDeadLetterThrows(t) ==
  /\ task[t].pc = "record"
  /\ Finish(t, "rejected")
  /\ Fault("record")
  /\ UNCHANGED <<rows, consumed, error_records, proc, current>>

\* It throws although its transaction committed: the record is there.
RecordAnswerLost(t) ==
  /\ task[t].pc = "record"
  /\ error_records' = [error_records EXCEPT ![EventOf(t)] = @ + 1]
  /\ Finish(t, "rejected")
  /\ Fault("ack")
  /\ UNCHANGED <<rows, consumed, proc, current>>

-----------------------------------------------------------------------------
(* The life of a worker process.                                           *)

\* The process is gone: its open transactions roll back, its claims stay.
Halt(w) ==
  /\ proc' = [proc EXCEPT ![w] = "down"]
  /\ current' = [current EXCEPT ![w] = {}]
  /\ task' = [t \in TaskIds |->
                IF task[t].worker = w /\ Live(t)
                THEN [task[t] EXCEPT !.pc = "gone", !.k = 1, !.outcome = "skipped"]
                ELSE task[t]]
  /\ UNCHANGED <<rows, consumed, error_records>>

Crash(w) == proc[w] # "down" /\ Halt(w) /\ Fault("crash")

\* SIGTERM: stop() ends the polling first.
Stop(w) ==
  /\ proc[w] = "up"
  /\ proc' = [proc EXCEPT ![w] = "stopping"]
  /\ Fault("stop")
  /\ UNCHANGED <<rows, consumed, error_records, task, current>>

\* The process exits when the batch has settled or the grace period is over,
\* whichever comes first: nothing makes it wait for the last task.
Exit(w) == proc[w] = "stopping" /\ Halt(w) /\ NoFault

Restart(w) ==
  /\ proc[w] = "down"
  /\ proc' = [proc EXCEPT ![w] = "up"]
  /\ NoFault
  /\ UNCHANGED <<rows, consumed, error_records, task, current>>

-----------------------------------------------------------------------------
Producer == \E e \in Events : PublishEvent(e)
Clock    == \E e \in Events : BecomeDue(e) \/ LeaseLapses(e)

Claims(w) == \E S \in SUBSET Claimable :
               ProcessOutboxBatch(w, S) \/ ClaimAnswerLost(w, S)

RunConsumer(t) == \/ RefuseVersion(t) \/ Handle(t) \/ HandlerUniqueViolation(t)
                  \/ InsertMarker(t) \/ AlreadyProcessed(t) \/ ConsumerCommits(t)
                  \/ CommitAnswerLost(t) \/ ConsumerThrows(t)

CompleteStep(t) == \/ CompleteOutboxEvent(t) \/ CompleteRefused(t)
                   \/ CompleteDatabaseError(t) \/ CompleteAnswerLost(t)

FailStep(t) == \/ FailOutboxEvent(t) \/ FailRefused(t) \/ FailDatabaseError(t)
               \/ FailAnswerLost(t)

RecordStep(t) == \/ RecordDeadLetter(t) \/ RecordDeadLetterThrows(t)
                 \/ RecordAnswerLost(t)

TaskStep(t) == \/ TakeItem(t) \/ RunConsumer(t) \/ CompleteStep(t)
               \/ FailStep(t) \/ RecordStep(t)

Process(w) == Crash(w) \/ Stop(w) \/ Exit(w) \/ Restart(w)

Next == \/ Producer \/ Clock
        \/ \E w \in Workers : Claims(w) \/ Process(w)
        \/ \E t \in TaskIds : TaskStep(t)

Spec == Init /\ [][Next]_vars

\* Time passes; an idle worker polls, and the ORDER BY of the claim takes the
\* row that is due longest; a process that runs gets the answer of every call
\* it makes (each has a timeout); a supervisor restarts what exited.
Fairness ==
  /\ \A e \in Events :
       /\ WF_vars(BecomeDue(e))
       /\ WF_vars(LeaseLapses(e))
       /\ WF_vars(\E w \in Workers, S \in SUBSET Claimable :
                    e \in S /\ ProcessOutboxBatch(w, S))
  /\ \A t \in TaskIds : WF_vars(TaskStep(t))
  /\ \A w \in Workers : WF_vars(Exit(w)) /\ WF_vars(Restart(w))

FairSpec == Spec /\ Fairness

-----------------------------------------------------------------------------
(* Properties.                                                             *)

\* Types, with the CHECKs of the table: a row carries a claimant exactly while
\* it is claimed (ck_event_outbox_claim_pair), and a row is due only while it
\* waits and stale only while it is claimed.
TypeOK ==
  /\ outbox \in [Events -> Row]
  /\ \A e \in Events : (outbox[e].status = "claimed") <=> (outbox[e].claimed_by # Nobody)
  /\ due \subseteq {e \in Events : outbox[e].status = "pending"}
  /\ stale \subseteq {e \in Events : outbox[e].status = "claimed"}
  /\ processed \in [Keys -> Outcomes \cup {"none"}]
  /\ effects \in [Keys -> Nat]
  /\ error_records \in [Events -> Nat]
  /\ task \in [TaskIds -> Task]
  /\ proc \in [Workers -> {"up", "stopping", "down"}]
  /\ current \in [Workers -> SUBSET TaskIds]
  /\ faults \in 0..MaxFaults

\* The effects of a consumer on an event take place at most once, and then with
\* the marker 'applied' beside them, however often the event is delivered and
\* whatever tasks race on it (outbox-worker.ts: "effect exactly once").
EffectOnce ==
  \A key \in Keys : effects[key] = IF processed[key] = "applied" THEN 1 ELSE 0

\* An event is published only when every subscriber has its committed marker:
\* no crash, lost answer or second worker lets one be skipped ("at-least-once:
\* complete only after consumers ran").
PublishedProcessed ==
  \A e \in Events : outbox[e].status = "published" =>
    \A i \in 1..Len(ConsumersFor[e]) : processed[<<ConsumersFor[e][i], e>>] # "none"

\* At most one error record is written for an event, and only for one that is
\* dead-lettered: the worker, which decides by the attempt number it was handed
\* with the claim, never reports a row the database put back to pending.
ErrorRecordTruthful ==
  \A e \in Events : /\ error_records[e] <= 1
                    /\ error_records[e] = 1 => outbox[e].status = "dead_letter"

\* The task may still complete or fail the row it was handed.
Holding(t) == task[t].pc \in (Working \ {"record"}) \cup {"queued"}

\* A failed dead-letter report rejected the batch of the task: its worker polls
\* again while the task goes on.
Orphaned(t) == /\ task[t].pc # "none"
               /\ \E u \in task[t].batch : task[u].pc = "rejected"

\* An orphaned task of the same worker holds an older claim of the row, and
\* OwnsClaim cannot tell the two apart.
OlderOrphan(t) == \E u \in TaskIds : /\ EventOf(u) = EventOf(t)
                                     /\ AttemptOf(u) < AttemptOf(t)
                                     /\ task[u].worker = task[t].worker
                                     /\ Orphaned(u)

\* Two workers never own the same row ("FOR UPDATE SKIP LOCKED", outbox-worker.ts):
\* while a task works on an older claim of a row that was claimed again, that
\* older claim had outlived its lease. The one exception is a worker that meets
\* its own orphan: the orphan gives the row away under the task's feet.
NoDoubleOwnership ==
  \A t \in TaskIds :
    Holding(t) /\ AttemptOf(t) < outbox[EventOf(t)].attempt_count
      => task[t].lapsed \/ OlderOrphan(t)

\* A published or dead-lettered row never changes again, whatever tasks of
\* earlier claims still try to do with it.
TerminalForever ==
  [][\A e \in Events : outbox[e].status \in {"published", "dead_letter"} =>
                         outbox'[e] = outbox[e]]_vars

\* Attempts are counted by claims alone, one each: no completion, failure or
\* retry gives an event its attempts back.
AttemptsOnlyGrow ==
  [][\A e \in Events :
       \/ outbox'[e].attempt_count = outbox[e].attempt_count
       \/ /\ outbox'[e].attempt_count = outbox[e].attempt_count + 1
          /\ outbox'[e].status = "claimed"]_vars

\* A row that was dead-lettered has its error record, or a task that is about
\* to write it.
DeadLetterAccountedFor ==
  \A e \in Events : outbox[e].status = "dead_letter" =>
    \/ error_records[e] = 1
    \/ \E n \in 1..MaxClaims : task[<<e, n>>].pc = "record"

\* Poison messages stop: no event is attempted more often than the ceiling.
AttemptCeiling == \A e \in Events : outbox[e].attempt_count <= MaxAttempts

\* What goes past the ceiling is paid for, attempt by attempt: each one has a fault of its
\* own behind it, a claim that outlived its lease, was lost or whose worker went away.
PaidByFaults == \A e \in Events : outbox[e].attempt_count <= MaxAttempts + faults

\* Every event a producer committed is published or dead-lettered in the end:
\* crashes, lost answers and stuck batches may delay it, never strand it.
EventuallySettled ==
  \A e \in Events : outbox[e].status = "pending" ~>
                      outbox[e].status \in {"published", "dead_letter"}

-----------------------------------------------------------------------------
(* The inductive invariants behind the properties.                         *)

\* A transaction that holds an uncommitted marker is the only one of its key,
\* and no marker of that key is committed.
OneOpenMarker ==
  /\ \A t \in TaskIds : task[t].pc \in {"mark", "commit"} => HasConsumer(t)
  /\ \A t \in TaskIds : task[t].pc = "commit" => ~MarkerCommitted(KeyOf(t))
  /\ \A t, u \in TaskIds :
       (task[t].pc = "commit" /\ task[u].pc = "commit" /\ KeyOf(t) = KeyOf(u)) => t = u

\* A task that has come to its k-th subscriber leaves markers of all before.
MarkersSoFar ==
  \A t \in TaskIds :
    /\ task[t].pc = "queued" => task[t].k = 1
    /\ task[t].pc \in {"run", "mark", "commit"} =>
         /\ task[t].k <= Len(ConsumersFor[EventOf(t)]) + 1
         /\ \A i \in 1..(task[t].k - 1) :
              MarkerCommitted(<<ConsumersFor[EventOf(t)][i], EventOf(t)>>)

\* The one task that is to report a dead letter has not done it yet, and no task
\* was handed a later attempt than its row counts.
OneReporter ==
  /\ \A t \in TaskIds : Live(t) => AttemptOf(t) <= outbox[EventOf(t)].attempt_count
  /\ \A t \in TaskIds : task[t].pc = "record" =>
       /\ outbox[EventOf(t)].status = "dead_letter"
       /\ error_records[EventOf(t)] = 0
  /\ \A t, u \in TaskIds :
       (task[t].pc = "record" /\ task[u].pc = "record" /\ EventOf(t) = EventOf(u)) => t = u

\* The tasks of a claim, and those of its batch, are of attempts that were counted.
Handed ==
  \A t \in TaskIds : task[t].pc # "none" =>
    /\ task[t].worker \in Workers
    /\ AttemptOf(t) <= outbox[EventOf(t)].attempt_count
    /\ \A u \in task[t].batch : AttemptOf(u) <= outbox[EventOf(u)].attempt_count

\* A worker awaits the batch of each of its tasks, unless that batch rejected; so
\* every task older than another claim of the same worker is an orphan.
Awaited ==
  /\ \A t \in TaskIds : Live(t) =>
       \/ Orphaned(t)
       \/ /\ t \in current[task[t].worker]
          /\ task[t].batch = current[task[t].worker]
  /\ \A t, u \in TaskIds :
       (/\ Live(u) /\ task[t].pc # "none" /\ task[t].worker = task[u].worker
        /\ EventOf(t) = EventOf(u) /\ AttemptOf(u) < AttemptOf(t)) => Orphaned(u)

\* Unless the lease has lapsed or an orphan interferes, the row is where the task
\* expects it: claimed by its worker, or published by its own lost completion.
Held ==
  /\ \A t \in TaskIds :
       (EventOf(t) \in stale /\ AttemptOf(t) = outbox[EventOf(t)].attempt_count)
         => task[t].lapsed
  /\ \A t \in TaskIds : Holding(t) =>
       \/ task[t].lapsed
       \/ OlderOrphan(t)
       \/ /\ AttemptOf(t) = outbox[EventOf(t)].attempt_count
          /\ \/ OwnsClaim(t)
             \/ outbox[EventOf(t)].status = "published"

\* A claimed row is in good hands while its lease runs and somebody attends to it in a
\* process that is not stopping.
Claim(e) == <<e, outbox[e].attempt_count>>
InGoodHands(e) == e \notin stale /\ Attended(Claim(e)) /\ proc[task[Claim(e)].worker] = "up"

\* The claim of a row at the ceiling ends it, unless a fault that nothing else has used
\* takes the claim out of good hands; a row that waits is below the ceiling.
Paid ==
  /\ \A e \in Events : outbox[e].status \in {"absent", "pending"} =>
       outbox[e].attempt_count < MaxAttempts
  /\ \A e \in Events : outbox[e].status = "claimed" =>
       /\ Claim(e) \in TaskIds /\ task[Claim(e)].worker \in Workers
       /\ outbox[e].claimed_by = ClaimantOf(Claim(e))
       /\ outbox[e].attempt_count < MaxAttempts \/ InGoodHands(e)
            \/ outbox[e].attempt_count + 1 <= MaxAttempts + faults

-----------------------------------------------------------------------------
(* The outbox implements EventDelivery: claims and retries are invisible.  *)

Delivery == INSTANCE EventDelivery WITH
  Subscribers <- [e \in Events |->
                    {ConsumersFor[e][i] : i \in 1..Len(ConsumersFor[e])}],
  state <- [e \in Events |-> IF outbox[e].status \in {"pending", "claimed"}
                             THEN "open" ELSE outbox[e].status],
  handled <- {key \in Keys : processed[key] # "none"},
  effects <- effects

\* Every behaviour of the outbox is one of the abstract delivery.
ImplementsDelivery == Delivery!DSpec

=============================================================================
