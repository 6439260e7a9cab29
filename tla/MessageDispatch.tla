-------------------------- MODULE MessageDispatch --------------------------
(***************************************************************************)
(* Outbound messages: how one is enqueued, promoted, given to a provider,  *)
(* retried and buried, by any number of workers.                           *)
(*                                                                         *)
(* Each call of the dispatcher runs in a transaction of the worker role    *)
(* (withWorkerTransaction), which stays open while the provider is called. *)
(* The row lock of the first transition is held to the commit, so the      *)
(* states sending and sent are never visible to others, and whatever goes  *)
(* wrong (an error of a statement, a crash) rolls the whole call back. The *)
(* provider is not rolled back: it may have taken the message, or take it  *)
(* after the dispatcher's timer has given the call up.                     *)
(***************************************************************************)
EXTENDS Naturals, Sequences, FiniteSets

CONSTANTS
  Messages,      \* named by their dedupe key
  Workers,
  MaxAttempts,   \* OUTBOX_MAX_ATTEMPTS
  MaxTries,      \* bound: attempts and calls a message may have had to be looked up
  None

ASSUME DispatchAssumption == /\ MaxAttempts \in Nat \ {0} /\ MaxTries \in Nat
                             /\ None \notin Messages /\ IsFiniteSet(Workers)

VARIABLES
  status,      \* outbound_messages.status, as committed
  retries,     \* outbound_messages.retry_count
  attempts,    \* delivery_attempts of the message, by attempt_number
  call,        \* the open call of each worker
  taken,       \* how often the provider took the message
  unrecorded,  \* how often it did so and no attempt says so
  late         \* calls given up that the provider may still serve

vars == <<status, retries, attempts, call, taken, unrecorded, late>>
provider == <<taken, unrecorded, late>>

Ended == {"delivered", "cancelled"}

\* What a call knows: its message, the retry_count it read before it had the row, the
\* attempt number it chose, what the provider answered.
NoCall == [pc |-> "idle", msg |-> None, seen |-> 0, number |-> 0, outcome |-> "none"]

-----------------------------------------------------------------------------
(* The row lock and the attempt number.                                    *)

\* The call has moved the message to sending.
Sending(w, m) == call[w].msg = m /\ call[w].pc \in {"calling", "answered", "refused"}

RowFree(w, m) == \A u \in Workers \ {w} : ~Sending(u, m)

Number(m) == Len(attempts[m]) + 1

\* uq_delivery_attempts_message_number.
NumberFree(w) == call[w].number = Number(call[w].msg)

Goto(w, pc) == call' = [call EXCEPT ![w].pc = pc]
Done(w) == call' = [call EXCEPT ![w] = NoCall]

\* Bound of the model.
Tries(m) == Len(attempts[m]) + taken[m] + late[m]

-----------------------------------------------------------------------------
(* Enqueueing.                                                             *)

\* ON CONFLICT (tenant_id, dedupe_key) DO NOTHING: a key is a message once.
Enqueue(m) ==
  /\ status[m] = "none"
  /\ status' = [status EXCEPT ![m] = "pending"]
  /\ UNCHANGED <<retries, attempts, call, provider>>

\* promotePending on a claimed message: no other call has a pending message locked.
Promote(m) ==
  /\ status[m] = "pending"
  /\ status' = [status EXCEPT ![m] = "queued"]
  /\ UNCHANGED <<retries, attempts, call, provider>>

-----------------------------------------------------------------------------
(* dispatchOne.                                                            *)

\* The message is read without a lock, and the content the caller brings is compared
\* with its digest.
Find(w, m, intact) ==
  /\ call[w].pc = "idle" /\ status[m] = "queued" /\ Tries(m) < MaxTries
  /\ call' = [call EXCEPT ![w] = [NoCall EXCEPT !.pc = IF intact THEN "start" ELSE "count",
                                                !.msg = m, !.seen = retries[m]]]
  /\ UNCHANGED <<status, retries, attempts, provider>>

\* Mutant of Wins: the row count of the transition is not looked at.
WinsAlways(m) == TRUE

\* UPDATE ... WHERE status = 'queued', evaluated on the row as it is once it is free.
Wins(m) == status[m] = "queued"

Start(w) ==
  LET m == call[w].msg IN
  /\ call[w].pc = "start" /\ RowFree(w, m)
  /\ IF Wins(m)
     THEN call' = [call EXCEPT ![w].pc = "calling", ![w].number = Number(m)]
     ELSE Done(w)
  /\ UNCHANGED <<status, retries, attempts, provider>>

\* The provider takes the message, or its adapter throws or refuses.
Answer(w, outcome) ==
  LET m == call[w].msg IN
  /\ call[w].pc = "calling"
  /\ call' = [call EXCEPT ![w].pc = "answered", ![w].outcome = outcome]
  /\ taken' = [taken EXCEPT ![m] = @ + IF outcome = "delivered" THEN 1 ELSE 0]
  /\ UNCHANGED <<status, retries, attempts, unrecorded, late>>

\* NOTIFICATION_PROVIDER_TIMEOUT_MS is over; the promise of the provider lives on.
TimeOut(w) ==
  /\ call[w].pc = "calling"
  /\ call' = [call EXCEPT ![w].pc = "answered", ![w].outcome = "timeout"]
  /\ late' = [late EXCEPT ![call[w].msg] = @ + 1]
  /\ UNCHANGED <<status, retries, attempts, taken, unrecorded>>

\* A call that was given up comes to its end.
LateAnswer(m, takes) ==
  /\ late[m] > 0
  /\ late' = [late EXCEPT ![m] = @ - 1]
  /\ taken' = [taken EXCEPT ![m] = @ + IF takes THEN 1 ELSE 0]
  /\ unrecorded' = [unrecorded EXCEPT ![m] = @ + IF takes THEN 1 ELSE 0]
  /\ UNCHANGED <<status, retries, attempts, call>>

\* Mutant of Retryable: a refusal is a fault like the others.
RetryableAlways(outcome) == TRUE

Retryable(outcome) == outcome \in {"timeout", "outage"}

\* Mutant of Exhausted: the last attempt is not counted.
OneMore(seen) == seen + 1 > MaxAttempts

\* The budget, by the retry_count that was read.
Exhausted(seen) == seen + 1 >= MaxAttempts

\* Mutant of After: a provider that answers accepted: false has been answered.
AfterAnyAnswer(outcome, seen) ==
  IF outcome \in {"delivered", "rejected"} THEN "delivered"
  ELSE IF Exhausted(seen) THEN "cancelled" ELSE "failed"

\* Mutant of After: the transition from sent to delivered is missing.
AfterStopsAtSent(outcome, seen) ==
  CASE outcome = "delivered" -> "sent"
    [] outcome # "delivered" /\ Retryable(outcome) /\ ~Exhausted(seen) -> "failed"
    [] OTHER -> "cancelled"

\* Where the transitions of a call that has its answer end: sent and delivered, or
\* failed, which is buried at once when no retry may follow.
After(outcome, seen) ==
  CASE outcome = "delivered" -> "delivered"
    [] outcome # "delivered" /\ Retryable(outcome) /\ ~Exhausted(seen) -> "failed"
    [] OTHER -> "cancelled"

Record(w) ==
  LET c == call[w] IN
  /\ c.pc = "answered" /\ NumberFree(w)
  /\ attempts' = [attempts EXCEPT ![c.msg] = Append(@, c.outcome)]
  /\ status' = [status EXCEPT ![c.msg] = After(c.outcome, c.seen)]
  /\ Done(w)
  /\ UNCHANGED <<retries, provider>>

\* failWith, for content that is not what was enqueued: the attempt number is chosen
\* before the row is locked.
CountAttempts(w) ==
  /\ call[w].pc = "count"
  /\ call' = [call EXCEPT ![w].pc = "refuse", ![w].number = Number(call[w].msg)]
  /\ UNCHANGED <<status, retries, attempts, provider>>

\* The row count of this transition is not looked at: a call that did not win goes on.
Refuse(w) ==
  /\ call[w].pc = "refuse" /\ RowFree(w, call[w].msg)
  /\ Goto(w, IF status[call[w].msg] = "queued" THEN "refused" ELSE "bystander")
  /\ UNCHANGED <<status, retries, attempts, provider>>

\* deadLetter: UPDATE ... WHERE status = 'failed'.
Bury(s) == IF s = "failed" THEN "cancelled" ELSE s

\* The attempt, and the transitions to failed and cancelled where they find their row:
\* from sending for the call that won, from what another call left for a bystander.
RecordRefusal(w) ==
  LET c == call[w] IN
  /\ c.pc \in {"refused", "bystander"} /\ NumberFree(w)
  /\ status[c.msg] = "failed" => RowFree(w, c.msg)
  /\ attempts' = [attempts EXCEPT ![c.msg] = Append(@, "integrity")]
  /\ status' = [status EXCEPT ![c.msg] = IF c.pc = "refused" THEN "cancelled" ELSE Bury(@)]
  /\ Done(w)
  /\ UNCHANGED <<retries, provider>>

-----------------------------------------------------------------------------
(* retry.                                                                  *)

FindFailed(w, m) ==
  /\ call[w].pc = "idle" /\ status[m] = "failed"
  /\ call' = [call EXCEPT ![w] = [NoCall EXCEPT !.msg = m,
                !.pc = IF Exhausted(retries[m]) THEN "bury" ELSE "requeue"]]
  /\ UNCHANGED <<status, retries, attempts, provider>>

\* The guard of the table counts the retry.
Requeue(w) ==
  LET m == call[w].msg IN
  /\ call[w].pc = "requeue" /\ RowFree(w, m)
  /\ IF status[m] = "failed"
     THEN /\ status' = [status EXCEPT ![m] = "queued"]
          /\ retries' = [retries EXCEPT ![m] = @ + 1]
     ELSE UNCHANGED <<status, retries>>
  /\ Done(w)
  /\ UNCHANGED <<attempts, provider>>

DeadLetter(w) ==
  LET m == call[w].msg IN
  /\ call[w].pc = "bury" /\ RowFree(w, m)
  /\ status' = [status EXCEPT ![m] = Bury(@)]
  /\ Done(w)
  /\ UNCHANGED <<retries, attempts, provider>>

-----------------------------------------------------------------------------
\* A statement fails (a taken attempt number among them), the connection is lost or
\* the process dies: the call leaves no trace but with the provider.
Rollback(w) ==
  LET c == call[w] IN
  /\ c.pc # "idle"
  /\ Done(w)
  /\ late' = IF c.pc = "calling" THEN [late EXCEPT ![c.msg] = @ + 1] ELSE late
  /\ unrecorded' = IF c.outcome = "delivered" THEN [unrecorded EXCEPT ![c.msg] = @ + 1]
                   ELSE unrecorded
  /\ UNCHANGED <<status, retries, attempts, taken>>

Init ==
  /\ status = [m \in Messages |-> "none"]
  /\ retries = [m \in Messages |-> 0]
  /\ attempts = [m \in Messages |-> <<>>]
  /\ call = [w \in Workers |-> NoCall]
  /\ taken = [m \in Messages |-> 0]
  /\ unrecorded = [m \in Messages |-> 0]
  /\ late = [m \in Messages |-> 0]

Dispatch(w) ==
  \/ \E m \in Messages, intact \in BOOLEAN : Find(w, m, intact)
  \/ Start(w)
  \/ \E outcome \in {"delivered", "rejected", "outage"} : Answer(w, outcome)
  \/ TimeOut(w)
  \/ Record(w)

RefuseContent(w) == CountAttempts(w) \/ Refuse(w) \/ RecordRefusal(w)

Retry(w) == (\E m \in Messages : FindFailed(w, m)) \/ Requeue(w) \/ DeadLetter(w)

Next ==
  \/ \E m \in Messages : Enqueue(m) \/ Promote(m)
  \/ \E m \in Messages, takes \in BOOLEAN : LateAnswer(m, takes)
  \/ \E w \in Workers : Dispatch(w) \/ RefuseContent(w) \/ Retry(w) \/ Rollback(w)

Spec == Init /\ [][Next]_vars

-----------------------------------------------------------------------------
(* Properties.                                                             *)

Outcomes == {"delivered", "rejected", "outage", "timeout", "integrity"}

Call == [pc : {"idle", "start", "calling", "answered", "count", "refuse", "refused",
               "bystander", "bury", "requeue"},
         msg : Messages \cup {None}, seen : Nat, number : Nat,
         outcome : {"none"} \cup (Outcomes \ {"integrity"})]

TypeOK ==
  /\ status \in [Messages -> {"none", "pending", "queued", "failed"} \cup Ended]
  /\ retries \in [Messages -> Nat]
  /\ attempts \in [Messages -> Seq(Outcomes)]
  /\ call \in [Workers -> Call]
  /\ \A w \in Workers : call[w].pc # "idle" => call[w].msg \in Messages
  /\ taken \in [Messages -> Nat] /\ unrecorded \in [Messages -> Nat]
  /\ late \in [Messages -> Nat]

Has(m, outcome) == \E i \in DOMAIN attempts[m] : attempts[m][i] = outcome

\* The attempts say what the status says: a message is delivered when one of its
\* attempts is, and only one ever is, whichever workers raced for it.
LedgerAgrees ==
  \A m \in Messages :
    /\ status[m] = "delivered" <=> Has(m, "delivered")
    /\ \A i, j \in DOMAIN attempts[m] :
         (attempts[m][i] = "delivered" /\ attempts[m][j] = "delivered") => i = j

\* A call knows that the message was taken, and has still to record it.
Unfinished(m) == \E w \in Workers : call[w].msg = m /\ call[w].outcome = "delivered"

\* Every time the provider took a message is the one recorded delivery, or the one a
\* call is about to record, or one whose answer was lost: unless an answer is lost
\* nobody gets a message twice.
DuplicatesExplained ==
  \A m \in Messages :
    taken[m] = unrecorded[m] + IF status[m] = "delivered" \/ Unfinished(m) THEN 1 ELSE 0

\* What the provider refused is never offered to it again.
RefusedForGood == \A m \in Messages : Has(m, "rejected") => status[m] = "cancelled"

\* A message is retried within the budget of attempts.
RetriesWithinBudget == \A m \in Messages : retries[m] < MaxAttempts

\* The workers there are besides one.
Others == IF Workers = {} THEN 0 ELSE Cardinality(Workers) - 1

\* The budget is overrun by no more than the workers allow: one retry more takes one
\* call that found the message failed and one that found it queued, both before the
\* last retry of the budget, and neither is the call that counted that retry.
OverrunByWorkers ==
  \A m \in Messages : 2 * retries[m] <= 2 * (MaxAttempts - 1) + Others

-----------------------------------------------------------------------------
(* The inductive invariant behind the properties.                          *)

\* One call at a time has a message in sending, and to all others it is queued; a
\* call has an outcome when the provider, and not the digest, has decided.
RowLock ==
  /\ \A m \in Messages, w, u \in Workers : Sending(w, m) /\ Sending(u, m) => w = u
  /\ \A m \in Messages, w \in Workers : Sending(w, m) => status[m] = "queued"
  /\ \A w \in Workers : call[w].outcome # "none" <=> call[w].pc = "answered"

Inv == TypeOK /\ RowLock /\ LedgerAgrees /\ RefusedForGood /\ DuplicatesExplained

\* The calls that may still requeue the message, or leave it failed, going by a
\* retry_count within the budget.
Stale(m) ==
  {w \in Workers : /\ call[w].msg = m
                   /\ \/ call[w].pc = "requeue"
                      \/ /\ call[w].pc \in {"start", "calling", "answered"}
                         /\ ~Exhausted(call[w].seen)}

\* Once the last retry of the budget is counted there are no new ones of these calls,
\* and every retry uses up two: the one that fails, and the one that requeues.
Spent ==
  \A m \in Messages :
    retries[m] >= MaxAttempts - 1 =>
      2 * retries[m] + Cardinality(Stale(m)) + (IF status[m] = "failed" THEN 1 ELSE 0)
        <= 2 * (MaxAttempts - 1) + Others

=============================================================================
