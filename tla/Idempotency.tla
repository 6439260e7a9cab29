---------------------------- MODULE Idempotency ----------------------------
(***************************************************************************)
(* The Idempotency-Key of a command and the record version it expects: the *)
(* pipeline of handleOperation around a handler's writes. A request looks  *)
(* its key up, executes its command and stores the key in one transaction  *)
(* (READ COMMITTED, so it sees what is committed when it looks). The       *)
(* insert of the key waits for another transaction's insert of the same    *)
(* key, the version-guarded UPDATE for the row lock of the record.         *)
(***************************************************************************)
EXTENDS Naturals

CONSTANTS
  Requests,  \* every arrival of a request, the resends of a client among them
  Keys,      \* (tenant, operation, Idempotency-Key)
  Records,   \* rows with a record_version
  Asks,      \* of a request: its key, fingerprint, record and the If-Match version
  None

ASSUME IdempotencyAssumption ==
  /\ None \notin Requests \cup Records
  /\ \A r \in Requests : /\ Asks[r].key \in Keys /\ Asks[r].record \in Records \cup {None}
                         /\ Asks[r].expects \in Nat

VARIABLES
  pc,       \* where a request is in the pipeline
  answer,   \* what its caller was told
  stored,   \* idempotency_keys, by key: the request whose row is committed
  version,  \* record_version, as committed
  runs      \* how many executions committed under a key

vars == <<pc, answer, stored, version, runs>>

-----------------------------------------------------------------------------
\* An answer names the request whose command it is the response of.
NoAnswer == [kind |-> "none", by |-> None]
Failure(kind) == [kind |-> kind, by |-> None]
ResponseOf(s) == [kind |-> "ok", by |-> s]

Tell(r, a) == /\ pc' = [pc EXCEPT ![r] = "done"]
              /\ answer' = [answer EXCEPT ![r] = a]

\* The transaction of r has inserted its key and is not committed.
KeyHeld(r, k) == pc[r] = "commit" /\ Asks[r].key = k

\* The transaction of r has updated the record.
RecordHeld(r, x) == pc[r] \in {"store", "commit"} /\ Asks[r].record = x

KeyFree(r) == \A s \in Requests \ {r} : ~KeyHeld(s, Asks[r].key)
RecordFree(r) == Asks[r].record # None =>
                   \A s \in Requests \ {r} : ~RecordHeld(s, Asks[r].record)

\* Mutant of SameRequest: the fingerprint is not compared.
AnyRequest(r, s) == TRUE

\* request_fingerprint: tenant, principal, method, route, parameters and body.
SameRequest(r, s) == Asks[r].print = Asks[s].print

\* What a request is told about the row that another one left under its key.
Replay(r, s) == IF SameRequest(r, s) THEN ResponseOf(s) ELSE Failure("conflict")

-----------------------------------------------------------------------------
(* withIdempotency.                                                        *)

Look(r) ==
  LET s == stored[Asks[r].key] IN
  /\ pc[r] = "new"
  /\ IF s # None THEN Tell(r, Replay(r, s))
     ELSE pc' = [pc EXCEPT ![r] = "execute"] /\ UNCHANGED answer
  /\ UNCHANGED <<stored, version, runs>>

\* Mutant of Matches: the predicate on record_version is missing.
MatchesAlways(r) == TRUE

\* UPDATE ... WHERE record_version = $expected, evaluated once the row is free.
Matches(r) == Asks[r].record # None => version[Asks[r].record] = Asks[r].expects

\* The handler. Without a record it only inserts; with one it is refused when the
\* version is not the expected one (assertVersionMatched).
Execute(r) ==
  /\ pc[r] = "execute" /\ RecordFree(r)
  /\ IF Matches(r) THEN pc' = [pc EXCEPT ![r] = "store"] /\ UNCHANGED answer
     ELSE Tell(r, Failure("stale"))
  /\ UNCHANGED <<stored, version, runs>>

\* Mutant of Taken: the table has no unique index.
TakenNever(k) == FALSE

\* uq_idempotency_keys_scope.
Taken(k) == stored[k] # None

\* A duplicate key aborts the transaction: what the handler wrote is gone.
Store(r) ==
  /\ pc[r] = "store" /\ KeyFree(r)
  /\ pc' = [pc EXCEPT ![r] = IF Taken(Asks[r].key) THEN "raced" ELSE "commit"]
  /\ UNCHANGED <<answer, stored, version, runs>>

\* The command and its key become visible together. The answer may be lost with the
\* connection.
Commit(r, heard) ==
  LET q == Asks[r] IN
  /\ pc[r] = "commit"
  /\ stored' = [stored EXCEPT ![q.key] = r]
  /\ runs' = [runs EXCEPT ![q.key] = @ + 1]
  /\ version' = [x \in Records |-> version[x] + IF x = q.record THEN 1 ELSE 0]
  /\ Tell(r, IF heard THEN ResponseOf(r) ELSE Failure("error"))

\* Mutant of Resolve: the race is handed to a retry of the request that nobody makes.
ResolveByRetry(r) ==
  /\ pc[r] = "raced" /\ pc' = [pc EXCEPT ![r] = "retry"]
  /\ UNCHANGED <<answer, stored, version, runs>>

\* resolveRace, in a transaction of its own.
Resolve(r) ==
  LET s == stored[Asks[r].key] IN
  /\ pc[r] = "raced"
  /\ Tell(r, IF s = None THEN Failure("no response") ELSE Replay(r, s))
  /\ UNCHANGED <<stored, version, runs>>

\* Permissions, a rule of the handler, a failing statement, a timeout or a crash: the
\* transaction is rolled back.
Abort(r) ==
  /\ pc[r] # "done" /\ Tell(r, Failure("error"))
  /\ UNCHANGED <<stored, version, runs>>

Init ==
  /\ pc = [r \in Requests |-> "new"]
  /\ answer = [r \in Requests |-> NoAnswer]
  /\ stored = [k \in Keys |-> None]
  /\ version = [x \in Records |-> 1]
  /\ runs = [k \in Keys |-> 0]

Step(r) == \/ Look(r) \/ Execute(r) \/ Store(r) \/ Resolve(r) \/ Abort(r)
           \/ \E heard \in BOOLEAN : Commit(r, heard)

Next == \E r \in Requests : Step(r)

Spec == Init /\ [][Next]_vars

-----------------------------------------------------------------------------
(* Properties.                                                             *)

Kinds == {"none", "ok", "conflict", "stale", "no response", "error"}

TypeOK ==
  /\ pc \in [Requests -> {"new", "execute", "store", "commit", "raced", "done"}]
  /\ answer \in [Requests -> [kind : Kinds, by : Requests \cup {None}]]
  /\ stored \in [Keys -> Requests \cup {None}]
  /\ version \in [Records -> Nat] /\ runs \in [Keys -> Nat]

Committed(r) == stored[Asks[r].key] = r

\* A key is a licence for one execution: its row is there exactly when a command under
\* it committed, no second one ever does, and the row is that of a request with the key.
AtMostOnce ==
  \A k \in Keys :
    /\ runs[k] = IF stored[k] = None THEN 0 ELSE 1
    /\ stored[k] # None => Asks[stored[k]].key = k

\* Who is told of a success is told of a committed execution of the very same request
\* under the same key; and no loser of a race finds that nobody has won it.
AnswersTrue ==
  \A r \in Requests :
    /\ answer[r].kind = "ok" => /\ answer[r].by \in Requests /\ Committed(answer[r].by)
                                /\ Asks[answer[r].by].key = Asks[r].key
                                /\ Asks[answer[r].by].print = Asks[r].print
    /\ answer[r].kind # "no response"

\* Of the requests that expect one version of a record at most one is committed, also
\* when they wait for each other with different keys.
NoLostUpdate ==
  \A r, s \in Requests :
    (Committed(r) /\ Committed(s) /\ Asks[r].record # None
       /\ Asks[r].record = Asks[s].record /\ Asks[r].expects = Asks[s].expects) => r = s

\* Whoever sends a request that has been executed is never told that the record has
\* moved under it: the loser of a race reads the winner's row.
TwinsReplayed ==
  \A r, s \in Requests :
    (Committed(s) /\ Asks[r] = Asks[s]) => answer[r].kind # "stale"

-----------------------------------------------------------------------------
(* The pipeline implements CommandStore: whatever transactions are open and wait for   *)
(* each other, every request takes effect at one moment, with its answer.              *)

Atomic == INSTANCE CommandStore WITH executed <- stored, told <- answer

\* No caller can tell handleOperation from a store that executes one request at a time:
\* the only steps that are seen are a commit, a replay, a refusal and a failure, and each
\* is right about the tables it is taken in.
AtomicCommands == Atomic!CSpec

-----------------------------------------------------------------------------
(* The inductive invariant behind the properties.                          *)

\* The unique index and the row lock let one transaction at a time go on, the key is
\* free and the version the expected one until it ends; a race has a winner.
Locked ==
  /\ \A r, s \in Requests, k \in Keys : KeyHeld(r, k) /\ KeyHeld(s, k) => r = s
  /\ \A r, s \in Requests, x \in Records : RecordHeld(r, x) /\ RecordHeld(s, x) => r = s
  /\ \A r \in Requests :
       /\ pc[r] = "commit" => stored[Asks[r].key] = None
       /\ pc[r] = "raced" => stored[Asks[r].key] # None
       /\ pc[r] \in {"store", "commit"} => Matches(r)

\* Versions only grow past the ones that were used.
Used == \A r \in Requests : Committed(r) /\ Asks[r].record # None =>
                              Asks[r].expects < version[Asks[r].record]

Inv == TypeOK /\ Locked /\ AtMostOnce /\ AnswersTrue /\ NoLostUpdate /\ Used

=============================================================================
