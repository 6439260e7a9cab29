------------------------- MODULE IdempotencyProofs -------------------------
(***************************************************************************)
(* Theorems about Idempotency for every set of requests, keys and records  *)
(* and whatever the requests ask. The invariant says what the unique index *)
(* and the row lock give: one transaction at a time goes on with a key or  *)
(* a record, and what it has seen of them is still so when it commits.     *)
(***************************************************************************)
EXTENDS Idempotency, TLAPS

\* Inv holds initially ...
LEMMA InitInv == Init => Inv
<1> SUFFICES ASSUME Init PROVE Inv OBVIOUS
<1> USE IdempotencyAssumption DEF Init
<1>1. TypeOK BY DEF TypeOK, NoAnswer, Kinds
<1>2. Locked BY DEF Locked, KeyHeld, RecordHeld
<1>3. AtMostOnce BY DEF AtMostOnce
<1>4. AnswersTrue BY DEF AnswersTrue, NoAnswer
<1>5. \A r \in Requests : ~Committed(r) BY DEF Committed
<1>6. NoLostUpdate /\ Used BY <1>5 DEF NoLostUpdate, Used
<1> QED BY <1>1, <1>2, <1>3, <1>4, <1>6 DEF Inv

\* What a request is told about a committed row is true.
LEMMA ReplayTrue ==
  ASSUME Inv, NEW r \in Requests, stored[Asks[r].key] # None
  PROVE  LET a == Replay(r, stored[Asks[r].key])
         IN  /\ a \in [kind : Kinds, by : Requests \cup {None}]
             /\ a.kind # "no response"
             /\ a.kind = "ok" => /\ a.by \in Requests /\ Committed(a.by)
                                 /\ Asks[a.by].key = Asks[r].key /\ SameRequest(r, a.by)
<1> DEFINE s == stored[Asks[r].key]
<1>1. Asks[r].key \in Keys BY IdempotencyAssumption
<1>2. s \in Requests /\ Asks[s].key = Asks[r].key
  BY <1>1 DEF Inv, TypeOK, AtMostOnce
<1>3. Committed(s) BY <1>2 DEF Committed
<1> HIDE DEF s
<1>4. CASE SameRequest(r, s)
  <2>1. Replay(r, s) = [kind |-> "ok", by |-> s] BY <1>4 DEF Replay, ResponseOf
  <2> QED BY <1>2, <1>3, <1>4, <2>1 DEF Kinds, s
<1>5. CASE ~SameRequest(r, s)
  <2>1. Replay(r, s) = [kind |-> "conflict", by |-> None] BY <1>5 DEF Replay, Failure
  <2> QED BY <2>1 DEF Kinds, s
<1> QED BY <1>4, <1>5

\* A request that goes on or ends without a commit.
LEMMA RequestMoves ==
  ASSUME Inv, NEW r \in Requests,
         NEW p \in {"execute", "store", "commit", "raced", "done"}, pc' = [pc EXCEPT ![r] = p],
         NEW a \in [kind : Kinds, by : Requests \cup {None}],
         answer' = [answer EXCEPT ![r] = a] \/ answer' = answer,
         a.kind # "no response",
         a.kind = "ok" => /\ a.by \in Requests /\ Committed(a.by)
                          /\ Asks[a.by].key = Asks[r].key /\ SameRequest(r, a.by),
         UNCHANGED <<stored, version, runs>>,
         p = "commit" => pc[r] = "store" /\ KeyFree(r) /\ stored[Asks[r].key] = None,
         p = "raced" => stored[Asks[r].key] # None,
         p = "store" => RecordFree(r) /\ Matches(r)
  PROVE  Inv'
<1>0. TypeOK /\ Locked /\ AtMostOnce /\ AnswersTrue /\ NoLostUpdate /\ Used BY DEF Inv
<1>1. \A q \in Requests : pc'[q] = IF q = r THEN p ELSE pc[q] BY <1>0 DEF TypeOK
<1>2. \A q \in Requests : answer'[q] = answer[q] \/ (q = r /\ answer'[q] = a)
  BY <1>0 DEF TypeOK
<1>3. TypeOK' BY <1>0 DEF TypeOK
<1>4. \A q \in Requests : Committed(q)' = Committed(q) /\ Matches(q)' = Matches(q)
  BY DEF Committed, Matches
<1>5. Locked'
  <2>1. ASSUME NEW q \in Requests, NEW s \in Requests, NEW k \in Keys,
               KeyHeld(q, k)', KeyHeld(s, k)'
        PROVE  q = s
    <3>1. \A u \in Requests \ {r} : KeyHeld(u, k)' = KeyHeld(u, k) BY <1>1 DEF KeyHeld
    <3>2. KeyHeld(r, k)' => \A u \in Requests \ {r} : ~KeyHeld(u, k)
      BY <1>1 DEF KeyHeld, KeyFree
    <3>3. KeyHeld(q, k) /\ KeyHeld(s, k) => q = s BY <1>0 DEF Locked
    <3>4. CASE q = r /\ s # r BY <2>1, <3>1, <3>2, <3>4
    <3>5. CASE q # r /\ s = r BY <2>1, <3>1, <3>2, <3>5
    <3>6. CASE q # r /\ s # r BY <2>1, <3>1, <3>3, <3>6
    <3> QED BY <3>4, <3>5, <3>6
  <2>2. ASSUME NEW q \in Requests, NEW s \in Requests, NEW x \in Records,
               RecordHeld(q, x)', RecordHeld(s, x)'
        PROVE  q = s
    <3>1. \A u \in Requests \ {r} : RecordHeld(u, x)' = RecordHeld(u, x)
      BY <1>1 DEF RecordHeld
    <3>2. RecordHeld(r, x)' => \A u \in Requests \ {r} : ~RecordHeld(u, x)
      <4>1. CASE p = "store"
        <5>1. Asks[r].record = x => Asks[r].record # None BY IdempotencyAssumption
        <5> QED BY <1>1, <4>1, <5>1 DEF RecordHeld, RecordFree
      <4>2. CASE p = "commit"
        <5>1. RecordHeld(r, x)' => RecordHeld(r, x) BY <1>1, <4>2 DEF RecordHeld
        <5> QED BY <1>0, <5>1 DEF Locked
      <4>3. CASE p \notin {"store", "commit"} BY <1>1, <4>3 DEF RecordHeld
      <4> QED BY <4>1, <4>2, <4>3
    <3>3. RecordHeld(q, x) /\ RecordHeld(s, x) => q = s BY <1>0 DEF Locked
    <3>4. CASE q = r /\ s # r BY <2>2, <3>1, <3>2, <3>4
    <3>5. CASE q # r /\ s = r BY <2>2, <3>1, <3>2, <3>5
    <3>6. CASE q # r /\ s # r BY <2>2, <3>1, <3>3, <3>6
    <3> QED BY <3>4, <3>5, <3>6
  <2>3. ASSUME NEW q \in Requests
        PROVE  /\ pc'[q] = "commit" => stored'[Asks[q].key] = None
               /\ pc'[q] = "raced" => stored'[Asks[q].key] # None
               /\ pc'[q] \in {"store", "commit"} => Matches(q)'
    BY <1>0, <1>1, <1>4 DEF Locked
  <2> QED BY <2>1, <2>2, <2>3 DEF Locked
<1>6. AtMostOnce' /\ NoLostUpdate' /\ Used'
  BY <1>0, <1>4 DEF AtMostOnce, NoLostUpdate, Used
<1>7. AnswersTrue'
  <2> SUFFICES ASSUME NEW q \in Requests
               PROVE  /\ answer'[q].kind = "ok" =>
                           /\ answer'[q].by \in Requests
                           /\ stored'[Asks[answer'[q].by].key] = answer'[q].by
                           /\ Asks[answer'[q].by].key = Asks[q].key
                           /\ SameRequest(q, answer'[q].by)
                      /\ answer'[q].kind # "no response"
    BY DEF AnswersTrue, SameRequest, Committed
  <2>1. CASE answer'[q] = answer[q] BY <1>0, <2>1 DEF AnswersTrue, Committed, SameRequest
  <2>2. CASE q = r /\ answer'[q] = a BY <2>2 DEF Committed
  <2> QED BY <1>2, <2>1, <2>2
<1> QED BY <1>3, <1>5, <1>6, <1>7 DEF Inv

\* A failure answers with a kind and with no execution of its own.
LEMMA FailureType ==
  \A kind \in Kinds : /\ Failure(kind) \in [kind : Kinds, by : Requests \cup {None}]
                      /\ Failure(kind).kind = kind
  BY DEF Failure

\* A commit makes the command of one request and its key visible.
LEMMA CommitKeeps ==
  ASSUME Inv, NEW r \in Requests, NEW heard \in BOOLEAN, Commit(r, heard)
  PROVE  Inv'
<1> DEFINE k == Asks[r].key
           a == IF heard THEN ResponseOf(r) ELSE Failure("error")
<1>0. TypeOK /\ Locked /\ AtMostOnce /\ AnswersTrue /\ NoLostUpdate /\ Used BY DEF Inv
<1>1. /\ k \in Keys /\ r # None /\ pc[r] = "commit" /\ stored[k] = None /\ Matches(r)
  BY <1>0, IdempotencyAssumption DEF Commit, Locked
<1>2. /\ stored' = [stored EXCEPT ![k] = r] /\ runs' = [runs EXCEPT ![k] = @ + 1]
      /\ version' = [x \in Records |-> version[x] + IF x = Asks[r].record THEN 1 ELSE 0]
      /\ pc' = [pc EXCEPT ![r] = "done"] /\ answer' = [answer EXCEPT ![r] = a]
  BY DEF Commit, Tell
<1>3. /\ a \in [kind : Kinds, by : Requests \cup {None}]
      /\ a.kind = "ok" => a.by = r
      /\ a.kind # "no response"
  BY DEF ResponseOf, Failure, Kinds
<1> HIDE DEF a
<1>4. /\ \A q \in Requests : pc'[q] = IF q = r THEN "done" ELSE pc[q]
      /\ \A q \in Requests : answer'[q] = IF q = r THEN a ELSE answer[q]
      /\ \A l \in Keys : stored'[l] = IF l = k THEN r ELSE stored[l]
      /\ \A l \in Keys : runs'[l] = IF l = k THEN runs[l] + 1 ELSE runs[l]
      /\ \A x \in Records : version'[x] = IF x = Asks[r].record THEN version[x] + 1
                                         ELSE version[x]
  BY <1>0, <1>1, <1>2 DEF TypeOK
<1>5. TypeOK'
  <2>1. runs[k] + 1 \in Nat BY <1>0, <1>1 DEF TypeOK
  <2>2. version' \in [Records -> Nat]
    <3>1. \A x \in Records : version'[x] \in Nat BY <1>0, <1>4 DEF TypeOK
    <3> QED BY <1>2, <3>1
  <2>3. pc' \in [Requests -> {"new", "execute", "store", "commit", "raced", "done"}]
    BY <1>0, <1>2 DEF TypeOK
  <2>4. answer' \in [Requests -> [kind : Kinds, by : Requests \cup {None}]]
    BY <1>0, <1>2, <1>3 DEF TypeOK
  <2>5. stored' \in [Keys -> Requests \cup {None}] /\ runs' \in [Keys -> Nat]
    BY <1>0, <1>1, <1>2, <2>1 DEF TypeOK
  <2> QED BY <2>2, <2>3, <2>4, <2>5 DEF TypeOK
<1>6. \A q \in Requests : Asks[q].key \in Keys BY IdempotencyAssumption
<1>7. \A q \in Requests : Committed(q)' <=> (Committed(q) \/ q = r)
  <2> SUFFICES ASSUME NEW q \in Requests PROVE Committed(q)' <=> (Committed(q) \/ q = r)
    OBVIOUS
  <2>1. CASE Asks[q].key = k
    <3>1. ~Committed(q) BY <1>1, <2>1, IdempotencyAssumption DEF Committed
    <3>2. Committed(q)' <=> r = q BY <1>4, <1>6, <2>1 DEF Committed
    <3> QED BY <3>1, <3>2
  <2>2. CASE Asks[q].key # k
    BY <1>4, <1>6, <2>2 DEF Committed
  <2> QED BY <2>1, <2>2
<1>8. Locked'
  <2>1. \A q \in Requests : ~(q = r) => q # r /\ pc'[q] = pc[q] BY <1>4
  <2>2. \A q \in Requests, l \in Keys : KeyHeld(q, l)' => KeyHeld(q, l) /\ q # r
    BY <1>4 DEF KeyHeld
  <2>3. \A q \in Requests, x \in Records : RecordHeld(q, x)' => RecordHeld(q, x) /\ q # r
    BY <1>4 DEF RecordHeld
  <2>4. ASSUME NEW q \in Requests
        PROVE  /\ pc'[q] = "commit" => stored'[Asks[q].key] = None
               /\ pc'[q] = "raced" => stored'[Asks[q].key] # None
               /\ pc'[q] \in {"store", "commit"} => Matches(q)'
    <3>1. pc'[q] = "commit" => stored'[Asks[q].key] = None
      <4>1. pc'[q] = "commit" => Asks[q].key # k
        BY <1>0, <1>1, <1>4 DEF Locked, KeyHeld
      <4> QED BY <1>0, <1>4, <1>6, <4>1 DEF Locked
    <3>2. pc'[q] = "raced" => stored'[Asks[q].key] # None
      BY <1>0, <1>1, <1>4, <1>6 DEF Locked
    <3>3. ASSUME pc'[q] \in {"store", "commit"} PROVE Matches(q)'
      <4>1. q # r /\ pc[q] \in {"store", "commit"} /\ Matches(q) BY <1>0, <1>4, <3>3 DEF Locked
      <4>2. Asks[q].record # None => Asks[q].record \in Records BY IdempotencyAssumption
      <4>3. Asks[q].record # None => Asks[q].record # Asks[r].record
        BY <1>0, <1>1, <4>1, <4>2 DEF Locked, RecordHeld
      <4> QED BY <1>4, <4>1, <4>2, <4>3 DEF Matches
    <3> QED BY <3>1, <3>2, <3>3
  <2> QED BY <1>0, <2>2, <2>3, <2>4 DEF Locked
<1>9. AtMostOnce'
  <2> SUFFICES ASSUME NEW l \in Keys
               PROVE  /\ runs'[l] = IF stored'[l] = None THEN 0 ELSE 1
                      /\ stored'[l] # None => Asks[stored'[l]].key = l
    BY DEF AtMostOnce
  <2>1. CASE l = k
    <3>1. runs[k] = 0 BY <1>0, <1>1 DEF AtMostOnce
    <3> QED BY <1>1, <1>4, <2>1, <3>1
  <2>2. CASE l # k BY <1>0, <1>4, <2>2 DEF AtMostOnce
  <2> QED BY <2>1, <2>2
<1>10. AnswersTrue'
  <2> SUFFICES ASSUME NEW q \in Requests
               PROVE  /\ answer'[q].kind = "ok" =>
                           /\ answer'[q].by \in Requests
                           /\ stored'[Asks[answer'[q].by].key] = answer'[q].by
                           /\ Asks[answer'[q].by].key = Asks[q].key
                           /\ SameRequest(q, answer'[q].by)
                      /\ answer'[q].kind # "no response"
    BY DEF AnswersTrue, SameRequest, Committed
  <2>1. CASE q = r BY <1>1, <1>3, <1>4, <2>1 DEF SameRequest
  <2>2. CASE q # r
    <3>1. answer'[q] = answer[q] BY <1>4, <2>2
    <3>2. \A b \in Requests : stored[Asks[b].key] = b => stored'[Asks[b].key] = b
      BY <1>7 DEF Committed
    <3> QED BY <1>0, <3>1, <3>2 DEF AnswersTrue, Committed, SameRequest
  <2> QED BY <2>1, <2>2
<1>11. \A x \in Records : version[x] \in Nat /\ version'[x] \in Nat BY <1>0, <1>5 DEF TypeOK
<1>12. Used'
  <2> SUFFICES ASSUME NEW q \in Requests, Committed(q)', Asks[q].record # None
               PROVE  Asks[q].expects < version'[Asks[q].record]
    BY DEF Used
  <2>1. Asks[q].record \in Records /\ Asks[q].expects \in Nat BY IdempotencyAssumption
  <2>2. CASE q = r
    <3>1. version[Asks[r].record] = Asks[r].expects BY <1>1, <2>2 DEF Matches
    <3> QED BY <1>4, <1>11, <2>1, <2>2, <3>1
  <2>3. CASE q # r
    <3>1. Asks[q].expects < version[Asks[q].record] BY <1>0, <1>7, <2>3 DEF Used
    <3> QED BY <1>4, <1>11, <2>1, <3>1
  <2> QED BY <2>2, <2>3
<1>13. NoLostUpdate'
  <2>1. ASSUME NEW q \in Requests, Committed(q), Asks[r].record # None,
               Asks[q].record = Asks[r].record
        PROVE  Asks[q].expects # Asks[r].expects
    <3>1. Asks[r].record \in Records /\ Asks[q].expects \in Nat BY <2>1, IdempotencyAssumption
    <3>2. Asks[q].expects < version[Asks[r].record] BY <1>0, <2>1 DEF Used
    <3>3. version[Asks[r].record] = Asks[r].expects BY <1>1, <2>1 DEF Matches
    <3> QED BY <1>11, <3>1, <3>2, <3>3
  <2> QED BY <1>0, <1>7, <2>1 DEF NoLostUpdate
<1> QED BY <1>5, <1>8, <1>9, <1>10, <1>12, <1>13 DEF Inv

\* Every step keeps Inv ...
LEMMA StepInv == Inv /\ [Next]_vars => Inv'
<1> SUFFICES ASSUME Inv, [Next]_vars PROVE Inv' OBVIOUS
<1>0. TypeOK BY DEF Inv
<1>1. CASE UNCHANGED vars
  BY <1>1 DEF vars, Inv, TypeOK, Locked, KeyHeld, RecordHeld, Matches, AtMostOnce,
              AnswersTrue, Committed, SameRequest, NoLostUpdate, Used
<1>2. ASSUME NEW r \in Requests, Step(r) PROVE Inv'
  <2> DEFINE n == NoAnswer
  <2>0. n \in [kind : Kinds, by : Requests \cup {None}] /\ n.kind = "none"
    BY DEF NoAnswer, Kinds
  <2>1. CASE Look(r)
    <3>1. CASE stored[Asks[r].key] # None
      BY <2>1, <3>1, ReplayTrue, RequestMoves DEF Look, Tell
    <3>2. CASE stored[Asks[r].key] = None
      <4>1. pc' = [pc EXCEPT ![r] = "execute"] /\ UNCHANGED <<answer, stored, version, runs>>
        BY <2>1, <3>2 DEF Look
      <4> HIDE DEF n
      <4> QED BY <2>0, <4>1, RequestMoves
    <3> QED BY <3>1, <3>2
  <2>2. CASE Execute(r)
    <3>1. CASE Matches(r)
      <4>1. /\ pc' = [pc EXCEPT ![r] = "store"] /\ UNCHANGED <<answer, stored, version, runs>>
            /\ RecordFree(r)
        BY <2>2, <3>1 DEF Execute
      <4> HIDE DEF n
      <4> QED BY <2>0, <3>1, <4>1, RequestMoves
    <3>2. CASE ~Matches(r)
      <4>1. "stale" \in Kinds BY DEF Kinds
      <4> QED BY <2>2, <3>2, <4>1, FailureType, RequestMoves DEF Execute, Tell
    <3> QED BY <3>1, <3>2
  <2>3. CASE Store(r)
    <3>1. CASE stored[Asks[r].key] # None
      <4>1. pc' = [pc EXCEPT ![r] = "raced"] /\ UNCHANGED <<answer, stored, version, runs>>
        BY <2>3, <3>1 DEF Store, Taken
      <4> HIDE DEF n
      <4> QED BY <2>0, <3>1, <4>1, RequestMoves
    <3>2. CASE stored[Asks[r].key] = None
      <4>1. /\ pc' = [pc EXCEPT ![r] = "commit"] /\ UNCHANGED <<answer, stored, version, runs>>
            /\ pc[r] = "store" /\ KeyFree(r)
        BY <2>3, <3>2 DEF Store, Taken
      <4> HIDE DEF n
      <4> QED BY <2>0, <3>2, <4>1, RequestMoves
    <3> QED BY <3>1, <3>2
  <2>4. CASE Resolve(r)
    <3>1. stored[Asks[r].key] # None BY <2>4 DEF Resolve, Inv, Locked
    <3> QED BY <2>4, <3>1, ReplayTrue, RequestMoves DEF Resolve, Tell
  <2>5. CASE Abort(r)
    <3>1. "error" \in Kinds BY DEF Kinds
    <3> QED BY <2>5, <3>1, FailureType, RequestMoves DEF Abort, Tell
  <2>6. ASSUME NEW heard \in BOOLEAN, Commit(r, heard) PROVE Inv' BY <2>6, CommitKeeps
  <2> QED BY <1>2, <2>1, <2>2, <2>3, <2>4, <2>5, <2>6 DEF Step
<1> QED BY <1>1, <1>2 DEF Next

-----------------------------------------------------------------------------
(* The theorems.                                                           *)

\* ... so it always holds.
LEMMA Inductive == Spec => []Inv
  BY InitInv, StepInv, PTL DEF Spec

\* Every reachable state of the pipeline and of its tables is well typed.
THEOREM IdempotencyTypeCorrect == Spec => []TypeOK
<1>1. Inv => TypeOK BY DEF Inv
<1> QED BY <1>1, Inductive, PTL

\* Under one key one execution commits, however many requests looked the key up before
\* (withIdempotency).
THEOREM OneExecutionPerKey == Spec => []AtMostOnce
<1>1. Inv => AtMostOnce BY DEF Inv
<1> QED BY <1>1, Inductive, PTL

\* A success that is answered, replayed or read after a race is that of the same request,
\* and a race always has a winner to be read (resolveRace).
THEOREM AnswersAreTrue == Spec => []AnswersTrue
<1>1. Inv => AnswersTrue BY DEF Inv
<1> QED BY <1>1, Inductive, PTL

\* No two committed commands expected the same version of a record
\* (assertVersionMatched).
THEOREM UpdatesAreSerial == Spec => []NoLostUpdate
<1>1. Inv => NoLostUpdate BY DEF Inv
<1> QED BY <1>1, Inductive, PTL

-----------------------------------------------------------------------------
(* The pipeline implements CommandStore.                                   *)

\* Nobody has heard anything of a request that is not done.
Unanswered == \A r \in Requests : pc[r] # "done" => answer[r] = NoAnswer

\* It holds throughout: answer is written with "done" only (Tell).
LEMMA UnansweredInv == Spec => []Unanswered
<1>1. Init => Unanswered BY DEF Init, Unanswered
<1>2. Inv /\ Unanswered /\ [Next]_vars => Unanswered'
  <2> SUFFICES ASSUME Inv, Unanswered, [Next]_vars, NEW q \in Requests, pc'[q] # "done"
               PROVE  answer'[q] = NoAnswer
    BY DEF Unanswered
  <2>0. TypeOK BY DEF Inv
  <2>1. CASE UNCHANGED vars BY <2>1 DEF vars, Unanswered
  <2>2. ASSUME NEW r \in Requests, Step(r) PROVE answer'[q] = NoAnswer
    <3>1. \/ answer' = answer /\ pc[r] # "done" /\ \E p : pc' = [pc EXCEPT ![r] = p]
          \/ \E a : Tell(r, a)
      BY <2>2 DEF Step, Look, Execute, Store, Commit, Resolve, Abort
    <3>2. CASE answer' = answer /\ pc[r] # "done" /\ \E p : pc' = [pc EXCEPT ![r] = p]
      BY <2>0, <3>2 DEF Unanswered, TypeOK
    <3>3. ASSUME NEW a, Tell(r, a) PROVE answer'[q] = NoAnswer
      <4>1. q # r /\ pc'[q] = pc[q] /\ answer'[q] = answer[q]
        BY <2>0, <3>3 DEF Tell, TypeOK
      <4> QED BY <4>1 DEF Unanswered
    <3> QED BY <3>1, <3>2, <3>3
  <2> QED BY <2>1, <2>2 DEF Next
<1> QED BY <1>1, <1>2, Inductive, PTL DEF Spec

\* Who tells an answer tells it for the first time.
LEMMA TellHears ==
  ASSUME Unanswered, NEW r \in Requests, pc[r] # "done", NEW a, Tell(r, a)
  PROVE  Atomic!Hears(r, a)
  BY DEF Unanswered, Tell, NoAnswer, Atomic!Hears

\* A replay is one of the store.
LEMMA ReplayRepeats ==
  ASSUME Unanswered, NEW r \in Requests, pc[r] # "done", stored[Asks[r].key] # None,
         Tell(r, Replay(r, stored[Asks[r].key])), UNCHANGED <<stored, version>>
  PROVE  Atomic!Repeat(r)
<1>1. Atomic!Hears(r, Replay(r, stored[Asks[r].key])) BY TellHears
<1> QED BY <1>1 DEF Atomic!Repeat, Replay, SameRequest, ResponseOf, Failure, Atomic!Says

\* Every step of the pipeline is one of the store or unseen by it.
LEMMA StepImplements ==
  ASSUME Inv, Unanswered, [Next]_vars
  PROVE  [Atomic!CNext]_(Atomic!cvars)
<1> USE DEF Atomic!cvars
<1>0. TypeOK /\ Locked BY DEF Inv
<1>1. CASE UNCHANGED vars BY <1>1 DEF vars
<1>2. ASSUME NEW r \in Requests, Step(r) PROVE [Atomic!CNext]_(Atomic!cvars)
  <2>1. CASE Look(r)
    <3>1. CASE stored[Asks[r].key] # None
      BY <2>1, <3>1, ReplayRepeats DEF Look, Atomic!CNext
    <3>2. CASE stored[Asks[r].key] = None BY <2>1, <3>2 DEF Look
    <3> QED BY <3>1, <3>2
  <2>2. CASE Execute(r)
    <3>1. CASE Matches(r) BY <2>2, <3>1 DEF Execute
    <3>2. CASE ~Matches(r)
      <4>1. Atomic!Hears(r, Failure("stale")) BY <2>2, <3>2, TellHears DEF Execute
      <4>2. Atomic!Refuse(r)
        BY <2>2, <3>2, <4>1 DEF Execute, Matches, Failure, Atomic!Refuse, Atomic!Says
      <4> QED BY <4>2 DEF Atomic!CNext
    <3> QED BY <3>1, <3>2
  <2>3. CASE Store(r) BY <2>3 DEF Store
  <2>4. CASE Resolve(r)
    <3>1. stored[Asks[r].key] # None BY <1>0, <2>4 DEF Resolve, Locked
    <3> QED BY <2>4, <3>1, ReplayRepeats DEF Resolve, Atomic!CNext
  <2>5. CASE Abort(r)
    <3>1. Atomic!Hears(r, Failure("error")) BY <2>5, TellHears DEF Abort
    <3>2. Atomic!Fail(r) BY <2>5, <3>1 DEF Abort, Failure, Atomic!Fail, Atomic!Says
    <3> QED BY <3>2 DEF Atomic!CNext
  <2>6. ASSUME NEW heard \in BOOLEAN, Commit(r, heard) PROVE [Atomic!CNext]_(Atomic!cvars)
    <3>1. stored[Asks[r].key] = None /\ Matches(r) BY <1>0, <2>6 DEF Commit, Locked
    <3>2. Atomic!Hears(r, IF heard THEN ResponseOf(r) ELSE Failure("error"))
      BY <2>6, TellHears DEF Commit
    <3>3. Atomic!Hears(r, Atomic!Says("ok", r)) \/ Atomic!Hears(r, Atomic!Says("error", None))
      BY <3>2 DEF ResponseOf, Failure, Atomic!Says
    <3>4. version' = [x \in Records |-> IF x = Asks[r].record THEN version[x] + 1
                                        ELSE version[x]]
      <4>1. \A x \in Records : version[x] \in Nat BY <1>0 DEF TypeOK
      <4>2. version' = [x \in Records |-> version[x] + IF x = Asks[r].record THEN 1 ELSE 0]
        BY <2>6 DEF Commit
      <4>3. \A x \in Records : version[x] + (IF x = Asks[r].record THEN 1 ELSE 0)
                              = IF x = Asks[r].record THEN version[x] + 1 ELSE version[x]
        BY <4>1
      <4> QED BY <4>2, <4>3
    <3>5. Atomic!ExecuteOnce(r)
      BY <2>6, <3>1, <3>3, <3>4 DEF Commit, Matches, Atomic!ExecuteOnce
    <3> QED BY <3>5 DEF Atomic!CNext
  <2> QED BY <1>2, <2>1, <2>2, <2>3, <2>4, <2>5, <2>6 DEF Step
<1> QED BY <1>1, <1>2 DEF Next

\* Whatever races its transactions run, the pipeline is a store that takes one request at
\* a time (handleOperation): none executes under a used key or on another version than it
\* expects, and every answer is right in the state it is given in.
THEOREM CommandsAreAtomic == Spec => AtomicCommands
<1>1. Init => Atomic!CInit
  BY DEF Init, NoAnswer, Atomic!CInit, Atomic!Says
<1>2. Inv /\ Unanswered /\ [Next]_vars => [Atomic!CNext]_(Atomic!cvars) BY StepImplements
<1> QED BY <1>1, <1>2, Inductive, UnansweredInv, PTL DEF Spec, AtomicCommands, Atomic!CSpec
=============================================================================
