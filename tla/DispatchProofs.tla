--------------------------- MODULE DispatchProofs ---------------------------
(***************************************************************************)
(* Theorems about MessageDispatch for every set of messages and workers,   *)
(* every budget and any number of attempts. Most of them follow from one   *)
(* inductive invariant: the row lock makes the call that has a message in  *)
(* sending the only one, so what it records is what happened. How far the  *)
(* budget can be overrun is an argument of its own, by Spent: a retry past *)
(* it uses up two workers that still act on a retry_count from before it.  *)
(***************************************************************************)
EXTENDS MessageDispatch, FiniteSetTheorems, TLAPS

\* What is appended to the attempts of a message is said by them from then on.
LEMMA Appended ==
  ASSUME NEW S, NEW s \in Seq(S), NEW e \in S
  PROVE  /\ Append(s, e) \in Seq(S) /\ DOMAIN Append(s, e) = DOMAIN s \cup {Len(s) + 1}
         /\ \A i \in DOMAIN s : Append(s, e)[i] = s[i] /\ i # Len(s) + 1
         /\ Append(s, e)[Len(s) + 1] = e
  OBVIOUS

\* The attempts of the other messages stay as they are.
LEMMA Recorded ==
  ASSUME TypeOK, NEW m \in Messages, NEW e \in Outcomes,
         attempts' = [attempts EXCEPT ![m] = Append(@, e)]
  PROVE  /\ attempts' \in [Messages -> Seq(Outcomes)]
         /\ Has(m, e)' /\ \A o : Has(m, o)' <=> (Has(m, o) \/ o = e)
         /\ \A i \in DOMAIN attempts[m] : attempts'[m][i] = attempts[m][i]
         /\ \A i \in DOMAIN attempts'[m] : i \in DOMAIN attempts[m] \/ attempts'[m][i] = e
         /\ \A i, j \in DOMAIN attempts'[m] :
              i \notin DOMAIN attempts[m] /\ j \notin DOMAIN attempts[m] => i = j
         /\ \A n \in Messages \ {m} : attempts'[n] = attempts[n]
         /\ \A n \in Messages \ {m} : \A o : Has(n, o)' <=> Has(n, o)
<1>1. attempts[m] \in Seq(Outcomes) /\ attempts'[m] = Append(attempts[m], e)
  BY DEF TypeOK
<1>2. attempts' \in [Messages -> Seq(Outcomes)] BY <1>1, Appended DEF TypeOK
<1>3. \A n \in Messages \ {m} : attempts'[n] = attempts[n] BY DEF TypeOK
<1> QED BY <1>1, <1>2, <1>3, Appended DEF Has

\* The calls, when one of them moves.
LEMMA Moved ==
  ASSUME TypeOK, NEW w \in Workers, NEW c \in Call, c.pc # "idle" => c.msg \in Messages,
         call' = [call EXCEPT ![w] = c]
  PROVE  /\ call' \in [Workers -> Call] /\ call'[w] = c
         /\ \A u \in Workers \ {w} : call'[u] = call[u]
         /\ \A u \in Workers : call'[u].pc # "idle" => call'[u].msg \in Messages
  BY DEF TypeOK

\* The call of an idle worker is well typed.
LEMMA NoCallType == NoCall \in Call /\ NoCall.pc = "idle" /\ NoCall.msg = None
                    /\ NoCall.outcome = "none"
  BY DEF NoCall, Call

\* Inv holds initially ...
LEMMA InitInv == Init => Inv
<1> SUFFICES ASSUME Init PROVE Inv OBVIOUS
<1>1. \A m \in Messages : attempts[m] = <<>> /\ \A o : ~Has(m, o)
  <2>1. \A m \in Messages : attempts[m] = <<>> BY DEF Init
  <2>2. DOMAIN <<>> = {} OBVIOUS
  <2> QED BY <2>1, <2>2 DEF Has
<1>2. \A w \in Workers : call[w] = NoCall BY DEF Init
<1>3. TypeOK BY <1>1, <1>2, NoCallType DEF Init, TypeOK, Ended
<1>4. RowLock BY <1>2, NoCallType DEF RowLock, Sending
<1>5. LedgerAgrees /\ RefusedForGood BY <1>1 DEF Init, LedgerAgrees, RefusedForGood
<1>6. DuplicatesExplained
  <2>1. \A m \in Messages : ~Unfinished(m) BY <1>2, NoCallType DEF Unfinished
  <2>2. \A m \in Messages : taken[m] = 0 /\ unrecorded[m] = 0 /\ status[m] = "none"
    BY DEF Init
  <2>3. 0 = 0 + 0 OBVIOUS
  <2> QED BY <2>1, <2>2, <2>3 DEF DuplicatesExplained
<1> QED BY <1>3, <1>4, <1>5, <1>6 DEF Inv

-----------------------------------------------------------------------------
(* Steps.                                                                  *)

\* A message that is not queued, and is not a delivered or buried one, changes its
\* status: nobody has it in sending, and the attempts do not speak of a delivery.
LEMMA StatusMoves ==
  ASSUME Inv, NEW m \in Messages, NEW s \in {"pending", "queued", "cancelled"},
         status[m] \in {"none", "pending", "failed"},
         status' = [status EXCEPT ![m] = s],
         UNCHANGED <<attempts, provider>>,
         retries' \in [Messages -> Nat],
         call' \in [Workers -> Call],
         \A u \in Workers : call'[u].pc # "idle" => call'[u].msg \in Messages,
         \A u \in Workers : call'[u] = call[u]
                            \/ (call'[u] = NoCall /\ call[u].pc \in {"bury", "requeue"})
  PROVE  Inv'
<1> USE DEF Inv
<1>1. \A u \in Workers, n \in Messages : Sending(u, n)' = Sending(u, n)
  BY NoCallType DEF Sending
<1>2. \A u \in Workers : ~Sending(u, m) BY DEF RowLock
<1>3. TypeOK' BY DEF TypeOK, provider, Ended
<1>4. RowLock' BY <1>1, <1>2, NoCallType DEF RowLock, TypeOK
<1>5. \A n \in Messages : \A o : Has(n, o)' <=> Has(n, o) BY DEF Has
<1>6. LedgerAgrees' /\ RefusedForGood'
  BY <1>5 DEF LedgerAgrees, RefusedForGood, TypeOK
<1>7. \A n \in Messages : Unfinished(n)' <=> Unfinished(n)
  BY NoCallType DEF Unfinished, RowLock
<1>8. DuplicatesExplained' BY <1>7 DEF DuplicatesExplained, TypeOK, provider
<1> QED BY <1>3, <1>4, <1>6, <1>8

\* A call goes on, or ends, without a trace in the tables or at the provider.
LEMMA CallMoves ==
  ASSUME Inv, NEW w \in Workers, NEW c \in Call, c.pc # "idle" => c.msg \in Messages,
         call' = [call EXCEPT ![w] = c],
         UNCHANGED <<status, retries, attempts, provider>>,
         c.outcome = "none", c.pc # "answered", call[w].outcome = "none",
         c.pc \in {"calling", "refused"} =>
           /\ RowFree(w, c.msg) /\ status[c.msg] = "queued"
  PROVE  Inv'
<1> USE DEF Inv
<1>1. /\ call' \in [Workers -> Call] /\ call'[w] = c
      /\ \A u \in Workers \ {w} : call'[u] = call[u]
      /\ \A u \in Workers : call'[u].pc # "idle" => call'[u].msg \in Messages
  BY Moved
<1>2. TypeOK' BY <1>1 DEF TypeOK, provider
<1>3. RowLock'
  <2>1. \A n \in Messages, u \in Workers \ {w} : Sending(u, n)' = Sending(u, n)
    BY <1>1 DEF Sending
  <2>2. \A n \in Messages : Sending(w, n)' =>
          status'[n] = "queued" /\ \A u \in Workers \ {w} : ~Sending(u, n)
    BY <1>1 DEF Sending, RowFree
  <2>3. \A n \in Messages, u \in Workers : Sending(u, n)' => status'[n] = "queued"
    BY <2>1, <2>2 DEF RowLock
  <2>4. \A n \in Messages, u, v \in Workers : Sending(u, n)' /\ Sending(v, n)' => u = v
    BY <2>1, <2>2 DEF RowLock
  <2>5. \A u \in Workers : call'[u].outcome # "none" <=> call'[u].pc = "answered"
    BY <1>1 DEF RowLock
  <2> QED BY <2>3, <2>4, <2>5 DEF RowLock
<1>4. \A n \in Messages : \A o : Has(n, o)' <=> Has(n, o) BY DEF Has
<1>5. LedgerAgrees' /\ RefusedForGood' BY <1>4 DEF LedgerAgrees, RefusedForGood
<1>6. \A n \in Messages : Unfinished(n)' <=> Unfinished(n)
  BY <1>1 DEF Unfinished
<1>7. DuplicatesExplained' BY <1>6 DEF DuplicatesExplained, provider
<1> QED BY <1>2, <1>3, <1>5, <1>7

\* A call that has its answer records it, or one that refuses the content does: the
\* message was its own, or is not a delivered one afterwards either.
LEMMA Records ==
  ASSUME Inv, NEW w \in Workers, NEW m \in Messages, call[w].msg = m,
         NEW e \in Outcomes, NEW s,
         attempts' = [attempts EXCEPT ![m] = Append(@, e)],
         status' = [status EXCEPT ![m] = s],
         call' = [call EXCEPT ![w] = NoCall], call[w].pc # "idle",
         UNCHANGED <<retries, provider>>,
         \/ /\ call[w].pc = "answered" /\ e = call[w].outcome
            /\ s = After(call[w].outcome, call[w].seen)
         \/ /\ call[w].pc = "refused" /\ e = "integrity" /\ s = "cancelled"
         \/ /\ call[w].pc = "bystander" /\ e = "integrity" /\ s = Bury(status[m])
            /\ status[m] = "failed" => RowFree(w, m)
  PROVE  Inv'
<1> USE DEF Inv
<1>1. /\ call' \in [Workers -> Call] /\ call'[w] = NoCall
      /\ \A u \in Workers \ {w} : call'[u] = call[u]
      /\ \A u \in Workers : call'[u].pc # "idle" => call'[u].msg \in Messages
  BY Moved, NoCallType
<1>2. /\ attempts' \in [Messages -> Seq(Outcomes)]
      /\ \A o : Has(m, o)' <=> (Has(m, o) \/ o = e)
      /\ \A n \in Messages \ {m} : \A o : Has(n, o)' <=> Has(n, o)
  <2>1. TypeOK OBVIOUS
  <2> HIDE DEF Inv
  <2>2. attempts' \in [Messages -> Seq(Outcomes)] BY <2>1, Recorded
  <2>3. ASSUME NEW o PROVE Has(m, o)' <=> (Has(m, o) \/ o = e)
    <3>1. Has(m, o)' => (Has(m, o) \/ o = e) BY <2>1, Recorded DEF Has
    <3>2. Has(m, o) => Has(m, o)' BY <2>1, Recorded
    <3>3. Has(m, e)' BY <2>1, Recorded
    <3> QED BY <3>1, <3>2, <3>3
  <2>4. \A n \in Messages \ {m} : \A o : Has(n, o)' <=> Has(n, o) BY <2>1, Recorded
  <2> QED BY <2>2, <2>3, <2>4
<1>3. /\ call[w].pc # "bystander" => Sending(w, m) /\ status[m] = "queued"
      /\ call[w].outcome # "none" <=> call[w].pc = "answered"
  BY DEF Sending, RowLock
<1>4. /\ s \in {"none", "pending", "queued", "failed"} \cup Ended
      /\ s = "delivered" <=> \/ e = "delivered"
                             \/ call[w].pc = "bystander" /\ status[m] = "delivered"
      /\ e = "rejected" => s = "cancelled"
      /\ call[w].pc = "bystander" /\ status[m] = "cancelled" => s = "cancelled"
      /\ call[w].pc = "bystander" /\ status[m] = "queued" => s = "queued"
  BY <1>3 DEF After, Bury, Retryable, Ended, TypeOK
<1>5. \A n \in Messages : status'[n] = IF n = m THEN s ELSE status[n]
  BY DEF TypeOK
<1>6. TypeOK' BY <1>1, <1>2, <1>4, <1>5 DEF TypeOK, provider
<1>7. RowLock'
  <2>1. \A n \in Messages, u \in Workers \ {w} : Sending(u, n)' = Sending(u, n)
    BY <1>1 DEF Sending
  <2>2. \A n \in Messages : ~Sending(w, n)' BY <1>1, NoCallType DEF Sending
  <2>3. ASSUME NEW u \in Workers, Sending(u, m)' PROVE s = "queued"
    <3>1. u # w /\ Sending(u, m) BY <2>1, <2>2, <2>3
    <3>2. call[w].pc = "bystander" BY <1>3, <3>1 DEF RowLock
    <3> QED BY <1>4, <3>1, <3>2 DEF RowLock
  <2>4. \A n \in Messages, u \in Workers : Sending(u, n)' => status'[n] = "queued"
    BY <1>5, <2>1, <2>2, <2>3 DEF RowLock
  <2>5. \A u \in Workers : call'[u].outcome # "none" <=> call'[u].pc = "answered"
    BY <1>1, NoCallType DEF RowLock
  <2> QED BY <2>1, <2>2, <2>4, <2>5 DEF RowLock
<1>8. LedgerAgrees'
  <2>1. \A n \in Messages : status'[n] = "delivered" <=> Has(n, "delivered")'
    <3>1. Has(m, "delivered") <=> status[m] = "delivered" BY DEF LedgerAgrees
    <3>2. s = "delivered" <=> Has(m, "delivered") \/ e = "delivered"
      BY <1>3, <1>4, <3>1
    <3> QED BY <1>2, <1>5, <3>2 DEF LedgerAgrees
  <2>2. ASSUME NEW n \in Messages, NEW i \in DOMAIN attempts'[n], NEW j \in DOMAIN attempts'[n],
               attempts'[n][i] = "delivered", attempts'[n][j] = "delivered"
        PROVE  i = j
    <3>1. CASE n # m BY <2>2, <3>1, Recorded DEF LedgerAgrees
    <3>2. CASE n = m /\ e # "delivered"
      <4>1. /\ i \in DOMAIN attempts[m] /\ j \in DOMAIN attempts[m]
            /\ attempts[m][i] = "delivered" /\ attempts[m][j] = "delivered"
        BY <2>2, <3>2, Recorded
      <4> QED BY <4>1 DEF LedgerAgrees
    <3>3. CASE n = m /\ e = "delivered"
      <4>1. ~Has(m, "delivered") BY <1>3, <3>3 DEF LedgerAgrees
      <4>2. i \notin DOMAIN attempts[m] /\ j \notin DOMAIN attempts[m]
        BY <2>2, <3>3, <4>1, Recorded DEF Has
      <4> QED BY <2>2, <3>3, <4>2, Recorded
    <3> QED BY <3>1, <3>2, <3>3
  <2> QED BY <2>1, <2>2 DEF LedgerAgrees
<1>9. RefusedForGood'
  <2>1. Has(m, "rejected")' => s = "cancelled"
    BY <1>2, <1>3, <1>4 DEF RefusedForGood
  <2> QED BY <1>2, <1>5, <2>1 DEF RefusedForGood
<1>10. DuplicatesExplained'
  <2>1. \A n \in Messages \ {m} : Unfinished(n)' <=> Unfinished(n)
    BY <1>1, NoCallType DEF Unfinished
  <2>2. ASSUME NEW u \in Workers, u # w, call[u].msg = m, call[u].outcome = "delivered"
        PROVE  Sending(u, m) /\ call[w].pc = "bystander"
    <3>1. Sending(u, m) BY <2>2 DEF Sending, RowLock
    <3> QED BY <1>3, <2>2, <3>1 DEF RowLock
  <2>3. status[m] = "delivered" \/ Unfinished(m) <=> s = "delivered" \/ Unfinished(m)'
    <3>1. CASE call[w].pc = "bystander"
      <4>1. Unfinished(m)' <=> Unfinished(m)
        BY <1>1, <1>3, <3>1, NoCallType DEF Unfinished
      <4>2. s = "delivered" <=> status[m] = "delivered" BY <1>4, <3>1
      <4> QED BY <4>1, <4>2
    <3>2. CASE call[w].pc # "bystander"
      <4>1. ~Unfinished(m)' BY <1>1, <2>2, <3>2, NoCallType DEF Unfinished
      <4>2. Unfinished(m) <=> e = "delivered"
        BY <1>3, <2>2, <3>2 DEF Unfinished
      <4> QED BY <1>3, <1>4, <3>2, <4>1, <4>2
    <3> QED BY <3>1, <3>2
  <2> QED BY <1>5, <2>1, <2>3 DEF DuplicatesExplained, provider
<1> QED BY <1>6, <1>7, <1>8, <1>9, <1>10

\* What only the provider and the calls with it are concerned in.
LEMMA ProviderMoves ==
  ASSUME Inv, UNCHANGED <<status, retries, attempts>>,
         call' \in [Workers -> Call],
         \A u \in Workers : call'[u].pc # "idle" => call'[u].msg \in Messages,
         \A u \in Workers, n \in Messages : Sending(u, n)' => Sending(u, n),
         \A u \in Workers : call'[u].outcome # "none" <=> call'[u].pc = "answered",
         taken' \in [Messages -> Nat], unrecorded' \in [Messages -> Nat],
         late' \in [Messages -> Nat], DuplicatesExplained'
  PROVE  Inv'
<1>1. TypeOK' BY DEF Inv, TypeOK
<1>2. RowLock' BY DEF Inv, RowLock
<1>3. \A n \in Messages : \A o : Has(n, o)' <=> Has(n, o) BY DEF Has
<1>4. LedgerAgrees' /\ RefusedForGood' BY <1>3 DEF Inv, LedgerAgrees, RefusedForGood
<1> QED BY <1>1, <1>2, <1>4 DEF Inv

\* A call gets its answer, or gives it up.
LEMMA AnswerKeeps ==
  ASSUME Inv, NEW w \in Workers, NEW m \in Messages, NEW c \in Call,
         call[w].pc = "calling", call[w].msg = m,
         c.pc = "answered", c.msg = m, call' = [call EXCEPT ![w] = c],
         UNCHANGED <<status, retries, attempts, unrecorded>>,
         \/ /\ c.outcome # "none" /\ late' = late
            /\ taken' = [taken EXCEPT ![m] = @ + IF c.outcome = "delivered" THEN 1 ELSE 0]
         \/ c.outcome = "timeout" /\ taken' = taken /\ late' = [late EXCEPT ![m] = @ + 1]
  PROVE  Inv'
<1>0. TypeOK /\ RowLock /\ DuplicatesExplained BY DEF Inv
<1>1. /\ call' \in [Workers -> Call] /\ call'[w] = c
      /\ \A u \in Workers \ {w} : call'[u] = call[u]
      /\ \A u \in Workers : call'[u].pc # "idle" => call'[u].msg \in Messages
  BY <1>0, Moved
<1>2. Sending(w, m) BY DEF Sending
<1>3. \A u \in Workers, n \in Messages : Sending(u, n)' => Sending(u, n)
  BY <1>1, <1>2 DEF Sending
<1>4. \A u \in Workers : call'[u].outcome # "none" <=> call'[u].pc = "answered"
  BY <1>0, <1>1 DEF RowLock
<1>5. taken' \in [Messages -> Nat] /\ late' \in [Messages -> Nat] /\ unrecorded' \in [Messages -> Nat]
  <2>1. /\ taken \in [Messages -> Nat] /\ late \in [Messages -> Nat]
        /\ unrecorded \in [Messages -> Nat]
    BY <1>0 DEF TypeOK
  <2>2. taken[m] \in Nat /\ late[m] \in Nat BY <2>1
  <2>3. PICK k \in {0, 1}, l \in {0, 1} :
          taken' = [taken EXCEPT ![m] = taken[m] + k] /\ late' = [late EXCEPT ![m] = late[m] + l]
    <3>1. CASE late' = late
      <4>1. late' = [late EXCEPT ![m] = late[m] + 0] BY <2>1, <2>2, <3>1
      <4>2. taken' = taken \/ \E k \in {0, 1} : taken' = [taken EXCEPT ![m] = taken[m] + k]
        OBVIOUS
      <4>3. taken = [taken EXCEPT ![m] = taken[m] + 0] BY <2>1, <2>2
      <4> QED BY <4>1, <4>2, <4>3
    <3>2. CASE taken' = taken /\ late' = [late EXCEPT ![m] = @ + 1]
      <4>1. taken = [taken EXCEPT ![m] = taken[m] + 0] BY <2>1, <2>2
      <4> QED BY <3>2, <4>1
    <3> QED BY <3>1, <3>2
  <2>4. taken[m] + k \in Nat /\ late[m] + l \in Nat BY <2>2
  <2> QED BY <2>1, <2>3, <2>4
<1>6. DuplicatesExplained'
  <2>1. \A n \in Messages \ {m} : Unfinished(n)' <=> Unfinished(n)
    BY <1>1 DEF Unfinished
  <2>2. status[m] = "queued" BY <1>0, <1>2 DEF RowLock
  <2>3. ~Unfinished(m)
    <3>1. ASSUME NEW u \in Workers, call[u].msg = m, call[u].outcome = "delivered" PROVE FALSE
      <4>1. call[u].pc = "answered" BY <1>0, <3>1 DEF RowLock
      <4>2. u = w BY <1>0, <1>2, <3>1, <4>1 DEF Sending, RowLock
      <4> QED BY <4>1, <4>2
    <3> QED BY <3>1 DEF Unfinished
  <2>4. Unfinished(m)' <=> c.outcome = "delivered" BY <1>1, <2>3 DEF Unfinished
  <2>5. \A n \in Messages : taken[n] \in Nat /\ unrecorded[n] \in Nat BY <1>0 DEF TypeOK
  <2>6. /\ taken'[m] = taken[m] + IF c.outcome = "delivered" THEN 1 ELSE 0
        /\ \A n \in Messages \ {m} : taken'[n] = taken[n]
    BY <1>0, <2>5 DEF TypeOK
  <2>7. taken[m] = unrecorded[m] BY <1>0, <2>2, <2>3, <2>5 DEF DuplicatesExplained
  <2>8. taken'[m] = unrecorded'[m]
                    + IF status'[m] = "delivered" \/ Unfinished(m)' THEN 1 ELSE 0
    BY <2>2, <2>4, <2>5, <2>6, <2>7
  <2>9. ASSUME NEW n \in Messages \ {m}
        PROVE  taken'[n] = unrecorded'[n]
                           + IF status'[n] = "delivered" \/ Unfinished(n)' THEN 1 ELSE 0
    BY <1>0, <2>1, <2>6 DEF DuplicatesExplained
  <2> QED BY <2>8, <2>9 DEF DuplicatesExplained
<1> QED BY <1>1, <1>3, <1>4, <1>5, <1>6, ProviderMoves

\* A call ends without a record of what the provider did.
LEMMA RollbackKeeps ==
  ASSUME Inv, NEW w \in Workers, NEW m \in Messages, call[w].msg = m, call[w].pc # "idle",
         call' = [call EXCEPT ![w] = NoCall],
         UNCHANGED <<status, retries, attempts, taken>>,
         late' = [late EXCEPT ![m] = @ + 1] \/ late' = late,
         IF call[w].outcome = "delivered"
         THEN unrecorded' = [unrecorded EXCEPT ![m] = @ + 1] ELSE unrecorded' = unrecorded
  PROVE  Inv'
<1>0. TypeOK /\ RowLock /\ DuplicatesExplained BY DEF Inv
<1>1. /\ call' \in [Workers -> Call] /\ call'[w] = NoCall
      /\ \A u \in Workers \ {w} : call'[u] = call[u]
      /\ \A u \in Workers : call'[u].pc # "idle" => call'[u].msg \in Messages
  BY <1>0, Moved, NoCallType
<1>2. \A u \in Workers, n \in Messages : Sending(u, n)' => Sending(u, n)
  BY <1>1, NoCallType DEF Sending
<1>3. \A u \in Workers : call'[u].outcome # "none" <=> call'[u].pc = "answered"
  BY <1>0, <1>1, NoCallType DEF RowLock
<1>4. \A n \in Messages : taken[n] \in Nat /\ unrecorded[n] \in Nat /\ late[n] \in Nat
  BY <1>0 DEF TypeOK
<1>5. late' \in [Messages -> Nat] /\ unrecorded' \in [Messages -> Nat]
  <2>1. late[m] + 1 \in Nat /\ unrecorded[m] + 1 \in Nat BY <1>4
  <2>2. late' \in [Messages -> Nat] BY <1>0, <2>1 DEF TypeOK
  <2>3. CASE call[w].outcome = "delivered" BY <1>0, <2>1, <2>3 DEF TypeOK
  <2>4. CASE call[w].outcome # "delivered"
    <3>1. unrecorded' = unrecorded BY <2>4
    <3> QED BY <1>0, <3>1 DEF TypeOK
  <2> QED BY <2>2, <2>3, <2>4
<1>6. \A n \in Messages \ {m} : Unfinished(n)' <=> Unfinished(n)
  BY <1>1, NoCallType DEF Unfinished
<1>7. CASE call[w].outcome = "delivered"
  <2>1. Sending(w, m) BY <1>0, <1>7 DEF Sending, RowLock
  <2>2. Unfinished(m) /\ status[m] # "delivered" BY <1>0, <1>7, <2>1 DEF Unfinished, RowLock
  <2>3. ~Unfinished(m)'
    <3>1. ASSUME NEW u \in Workers \ {w}, call[u].msg = m, call[u].outcome = "delivered"
          PROVE  FALSE
      <4>1. Sending(u, m) BY <1>0, <3>1 DEF Sending, RowLock
      <4> QED BY <1>0, <2>1, <4>1 DEF RowLock
    <3> QED BY <1>1, <3>1, NoCallType DEF Unfinished
  <2>4. /\ unrecorded'[m] = unrecorded[m] + 1
        /\ \A n \in Messages \ {m} : unrecorded'[n] = unrecorded[n]
    BY <1>0, <1>7 DEF TypeOK
  <2>5. taken[m] = unrecorded[m] + 1 BY <1>0, <2>2 DEF DuplicatesExplained
  <2>6. taken'[m] = unrecorded'[m]
                    + IF status'[m] = "delivered" \/ Unfinished(m)' THEN 1 ELSE 0
    BY <1>4, <2>2, <2>3, <2>4, <2>5
  <2>7. ASSUME NEW n \in Messages \ {m}
        PROVE  taken'[n] = unrecorded'[n]
                           + IF status'[n] = "delivered" \/ Unfinished(n)' THEN 1 ELSE 0
    BY <1>0, <1>6, <2>4 DEF DuplicatesExplained
  <2>8. DuplicatesExplained' BY <2>6, <2>7 DEF DuplicatesExplained
  <2> QED BY <1>0, <1>1, <1>2, <1>3, <1>5, <2>8, ProviderMoves DEF TypeOK
<1>8. CASE call[w].outcome # "delivered"
  <2>1. \A n \in Messages : Unfinished(n)' <=> Unfinished(n)
    BY <1>1, <1>8, NoCallType DEF Unfinished
  <2>2. unrecorded' = unrecorded BY <1>8
  <2>3. DuplicatesExplained' BY <1>0, <2>1, <2>2 DEF DuplicatesExplained
  <2> QED BY <1>0, <1>1, <1>2, <1>3, <1>5, <2>3, ProviderMoves DEF TypeOK
<1> QED BY <1>7, <1>8

\* ... and is kept by every step ...
LEMMA StepInv == Inv /\ [Next]_vars => Inv'
<1> SUFFICES ASSUME Inv, [Next]_vars PROVE Inv' OBVIOUS
<1> USE DispatchAssumption
<1>0. TypeOK /\ RowLock /\ DuplicatesExplained BY DEF Inv
<1>1. CASE UNCHANGED vars
  BY <1>1 DEF vars, Inv, TypeOK, RowLock, Sending, LedgerAgrees, RefusedForGood, Has,
              DuplicatesExplained, Unfinished
<1>2. ASSUME NEW m \in Messages, Enqueue(m) \/ Promote(m) PROVE Inv'
  <2>1. /\ UNCHANGED <<retries, attempts, call, provider>>
        /\ status[m] \in {"none", "pending"}
    BY <1>2 DEF Enqueue, Promote
  <2>2. /\ retries' \in [Messages -> Nat] /\ call' \in [Workers -> Call]
        /\ \A u \in Workers : call'[u].pc # "idle" => call'[u].msg \in Messages
    BY <1>0, <2>1 DEF TypeOK
  <2>3. \A u \in Workers : call'[u] = call[u] BY <2>1
  <2>4. CASE status' = [status EXCEPT ![m] = "pending"] 
    <3> DEFINE s == "pending"
    <3>1. s \in {"pending", "queued", "cancelled"} /\ status' = [status EXCEPT ![m] = s]
      BY <2>4
    <3> HIDE DEF s
    <3>2. UNCHANGED <<attempts, provider>> BY <2>1
    <3> QED BY <2>1, <2>2, <2>3, <3>1, <3>2, StatusMoves
  <2>5. CASE status' = [status EXCEPT ![m] = "queued"] 
    <3> DEFINE s == "queued"
    <3>1. s \in {"pending", "queued", "cancelled"} /\ status' = [status EXCEPT ![m] = s]
      BY <2>5
    <3> HIDE DEF s
    <3>2. UNCHANGED <<attempts, provider>> BY <2>1
    <3> QED BY <2>1, <2>2, <2>3, <3>1, <3>2, StatusMoves
  <2> QED BY <1>2, <2>4, <2>5 DEF Enqueue, Promote
<1>3. ASSUME NEW m \in Messages, NEW takes \in BOOLEAN, LateAnswer(m, takes) PROVE Inv'
  <2> DEFINE k == IF takes THEN 1 ELSE 0
  <2>1. /\ k \in Nat /\ late[m] \in Nat /\ late[m] > 0
        /\ late' = [late EXCEPT ![m] = @ - 1] /\ taken' = [taken EXCEPT ![m] = @ + k]
        /\ unrecorded' = [unrecorded EXCEPT ![m] = @ + k]
        /\ UNCHANGED <<status, retries, attempts, call>>
    BY <1>0, <1>3 DEF LateAnswer, TypeOK
  <2> HIDE DEF k
  <2>2. \A n \in Messages : Unfinished(n)' <=> Unfinished(n) BY <2>1 DEF Unfinished
  <2>3. /\ taken' \in [Messages -> Nat] /\ unrecorded' \in [Messages -> Nat]
        /\ late' \in [Messages -> Nat]
    BY <1>0, <2>1 DEF TypeOK
  <2>4. DuplicatesExplained'
    <3>1. \A n \in Messages : \/ taken'[n] = taken[n] /\ unrecorded'[n] = unrecorded[n]
                              \/ taken'[n] = taken[n] + k /\ unrecorded'[n] = unrecorded[n] + k
      BY <1>0, <2>1 DEF TypeOK
    <3>2. \A n \in Messages : taken[n] \in Nat /\ unrecorded[n] \in Nat BY <1>0 DEF TypeOK
    <3> QED BY <1>0, <2>1, <2>2, <3>1, <3>2 DEF DuplicatesExplained
  <2>5. \A u \in Workers, n \in Messages : Sending(u, n)' = Sending(u, n)
    BY <2>1 DEF Sending
  <2> QED BY <1>0, <2>1, <2>3, <2>4, <2>5, ProviderMoves DEF TypeOK, RowLock
<1>4. ASSUME NEW w \in Workers, Dispatch(w) PROVE Inv'
  <2>0. call[w] \in Call /\ (call[w].pc # "idle" => call[w].msg \in Messages)
    BY <1>0 DEF TypeOK
  <2>1. ASSUME NEW m \in Messages, NEW intact \in BOOLEAN, Find(w, m, intact) PROVE Inv'
    <3> DEFINE c == [NoCall EXCEPT !.pc = IF intact THEN "start" ELSE "count",
                                   !.msg = m, !.seen = retries[m]]
    <3>1. /\ c \in Call /\ c.msg = m /\ c.outcome = "none" /\ c.pc \in {"start", "count"}
      BY <1>0 DEF TypeOK, Call, NoCall
    <3>2. /\ call' = [call EXCEPT ![w] = c] /\ call[w].pc = "idle"
          /\ UNCHANGED <<status, retries, attempts, provider>>
      BY <2>1 DEF Find
    <3> HIDE DEF c
    <3> QED BY <1>0, <3>1, <3>2, CallMoves DEF RowLock
  <2>2. CASE Start(w)
    <3> DEFINE m == call[w].msg
               c == [call[w] EXCEPT !.pc = "calling", !.number = Number(m)]
    <3>1. /\ call[w].pc = "start" /\ RowFree(w, m)
          /\ UNCHANGED <<status, retries, attempts, provider>>
      BY <2>2 DEF Start
    <3>2. m \in Messages /\ Number(m) \in Nat /\ call[w].outcome = "none"
      BY <1>0, <2>0, <3>1 DEF Number, TypeOK, RowLock
    <3>3. CASE Wins(m)
      <4>1. c \in Call /\ c.msg = m /\ c.outcome = "none" /\ c.pc = "calling"
        BY <2>0, <3>2 DEF Call
      <4>2. call' = [call EXCEPT ![w] = c] /\ status[m] = "queued"
        BY <2>2, <3>3, <1>0 DEF Start, Wins, TypeOK
      <4> HIDE DEF c
      <4> QED BY <3>1, <3>2, <4>1, <4>2, CallMoves
    <3>4. CASE ~Wins(m)
      <4>1. call' = [call EXCEPT ![w] = NoCall] BY <2>2, <3>4 DEF Start, Done
      <4> QED BY <3>1, <3>2, <4>1, NoCallType, CallMoves
    <3> QED BY <3>3, <3>4
  <2>3. ASSUME NEW outcome \in {"delivered", "rejected", "outage"}, Answer(w, outcome)
        PROVE  Inv'
    <3> DEFINE m == call[w].msg
               k == IF outcome = "delivered" THEN 1 ELSE 0
               c == [call[w] EXCEPT !.pc = "answered", !.outcome = outcome]
    <3>1. /\ call[w].pc = "calling" /\ call' = [call EXCEPT ![w] = c]
          /\ taken' = [taken EXCEPT ![m] = @ + k]
          /\ UNCHANGED <<status, retries, attempts, unrecorded, late>>
      BY <1>0, <2>3 DEF Answer, TypeOK
    <3>2. c \in Call /\ c.msg = m /\ c.outcome = outcome /\ c.pc = "answered"
      BY <2>0 DEF Call, Outcomes
    <3>3. m \in Messages BY <2>0, <3>1
    <3> HIDE DEF c, m, k
    <3> QED BY <1>0, <3>1, <3>2, <3>3, AnswerKeeps DEF k, m
  <2>4. CASE TimeOut(w)
    <3> DEFINE m == call[w].msg
               c == [call[w] EXCEPT !.pc = "answered", !.outcome = "timeout"]
    <3>1. /\ call[w].pc = "calling" /\ call' = [call EXCEPT ![w] = c]
          /\ late' = [late EXCEPT ![m] = @ + 1]
          /\ UNCHANGED <<status, retries, attempts, taken, unrecorded>>
      BY <1>0, <2>4 DEF TimeOut, TypeOK
    <3>2. c \in Call /\ c.msg = m /\ c.outcome = "timeout" /\ c.pc = "answered"
      BY <2>0 DEF Call, Outcomes
    <3>3. m \in Messages BY <2>0, <3>1
    <3> HIDE DEF c, m
    <3> QED BY <1>0, <3>1, <3>2, <3>3, AnswerKeeps DEF m
  <2>5. CASE Record(w)
    <3>1. call[w].outcome \in Outcomes /\ call[w].msg \in Messages /\ call[w].pc = "answered"
      BY <1>0, <2>0, <2>5 DEF Record, RowLock, Call
    <3> QED BY <2>5, <3>1, Records DEF Record, Done
  <2> QED BY <1>4, <2>1, <2>2, <2>3, <2>4, <2>5 DEF Dispatch
<1>5. ASSUME NEW w \in Workers, RefuseContent(w) PROVE Inv'
  <2>0. call[w] \in Call /\ (call[w].pc # "idle" => call[w].msg \in Messages)
    BY <1>0 DEF TypeOK
  <2>1. CASE CountAttempts(w)
    <3> DEFINE c == [call[w] EXCEPT !.pc = "refuse", !.number = Number(call[w].msg)]
    <3>1. call[w].pc = "count" /\ UNCHANGED <<status, retries, attempts, provider>>
          /\ call' = [call EXCEPT ![w] = c]
      BY <1>0, <2>1 DEF CountAttempts, TypeOK
    <3>2. Number(call[w].msg) \in Nat /\ call[w].outcome = "none"
      BY <1>0, <2>0, <3>1 DEF Number, TypeOK, RowLock
    <3>3. c \in Call /\ c.msg = call[w].msg /\ c.outcome = "none" /\ c.pc = "refuse"
      BY <2>0, <3>2 DEF Call
    <3> HIDE DEF c
    <3> QED BY <2>0, <3>1, <3>2, <3>3, CallMoves
  <2>2. CASE Refuse(w)
    <3> DEFINE pc == IF status[call[w].msg] = "queued" THEN "refused" ELSE "bystander"
               c == [call[w] EXCEPT !.pc = pc]
    <3>1. /\ call[w].pc = "refuse" /\ UNCHANGED <<status, retries, attempts, provider>>
          /\ call' = [call EXCEPT ![w] = c] /\ RowFree(w, call[w].msg)
      BY <1>0, <2>2 DEF Refuse, Goto, TypeOK
    <3>2. call[w].outcome = "none" BY <1>0, <3>1 DEF RowLock
    <3>3. (pc = "refused" /\ status[call[w].msg] = "queued") \/ pc = "bystander" OBVIOUS
    <3> HIDE DEF pc
    <3>4. c \in Call /\ c.msg = call[w].msg /\ c.outcome = "none" /\ c.pc = pc
      BY <2>0, <3>2, <3>3 DEF Call
    <3> HIDE DEF c
    <3> QED BY <2>0, <3>1, <3>2, <3>3, <3>4, CallMoves
  <2>3. CASE RecordRefusal(w)
    <3>1. call[w].msg \in Messages BY <2>0, <2>3 DEF RecordRefusal
    <3>2. "integrity" \in Outcomes BY DEF Outcomes
    <3>3. CASE call[w].pc = "refused"
      BY <2>3, <3>1, <3>2, <3>3, Records DEF RecordRefusal, Done
    <3>4. CASE call[w].pc = "bystander"
      <4>1. status' = [status EXCEPT ![call[w].msg] = Bury(status[call[w].msg])]
        BY <2>3, <3>4 DEF RecordRefusal
      <4> QED BY <2>3, <3>1, <3>2, <3>4, <4>1, Records DEF RecordRefusal, Done
    <3> QED BY <2>3, <3>3, <3>4 DEF RecordRefusal
  <2> QED BY <1>5, <2>1, <2>2, <2>3 DEF RefuseContent
<1>6. ASSUME NEW w \in Workers, Retry(w) PROVE Inv'
  <2>0. call[w] \in Call /\ (call[w].pc # "idle" => call[w].msg \in Messages)
    BY <1>0 DEF TypeOK
  <2>1. ASSUME NEW m \in Messages, FindFailed(w, m) PROVE Inv'
    <3> DEFINE c == [NoCall EXCEPT !.msg = m,
                       !.pc = IF Exhausted(retries[m]) THEN "bury" ELSE "requeue"]
    <3>1. /\ c \in Call /\ c.msg = m /\ c.outcome = "none" /\ c.pc \in {"bury", "requeue"}
      BY <1>0 DEF TypeOK, Call, NoCall
    <3>2. /\ call' = [call EXCEPT ![w] = c] /\ call[w].pc = "idle"
          /\ UNCHANGED <<status, retries, attempts, provider>>
      BY <2>1 DEF FindFailed
    <3> HIDE DEF c
    <3> QED BY <1>0, <3>1, <3>2, CallMoves DEF RowLock
  <2>2. ASSUME Requeue(w) \/ DeadLetter(w) PROVE Inv'
    <3>1. /\ call[w].pc \in {"requeue", "bury"} /\ call' = [call EXCEPT ![w] = NoCall]
          /\ UNCHANGED <<attempts, provider>>
      BY <2>2 DEF Requeue, DeadLetter, Done
    <3>2. call[w].msg \in Messages /\ call[w].outcome = "none"
      BY <1>0, <2>0, <3>1 DEF RowLock
    <3>3. /\ call' \in [Workers -> Call] /\ call'[w] = NoCall
          /\ \A u \in Workers \ {w} : call'[u] = call[u]
          /\ \A u \in Workers : call'[u].pc # "idle" => call'[u].msg \in Messages
      BY <1>0, <3>1, Moved, NoCallType
    <3>4. CASE status[call[w].msg] = "failed"
      <4> DEFINE m == call[w].msg
      <4>1. m \in Messages /\ status[m] = "failed" BY <3>2, <3>4
      <4>2. CASE Requeue(w)
        <5>1. /\ status' = [status EXCEPT ![m] = "queued"]
              /\ retries' = [retries EXCEPT ![m] = @ + 1]
          BY <4>1, <4>2 DEF Requeue
        <5>2. retries' \in [Messages -> Nat] BY <1>0, <4>1, <5>1 DEF TypeOK
        <5>3. \A u \in Workers : call'[u] = call[u]
                                 \/ (call'[u] = NoCall /\ call[u].pc \in {"bury", "requeue"})
          <6>1. call[w].pc \in {"bury", "requeue"} /\ call'[w] = NoCall BY <3>1, <3>3
          <6>2. \A u \in Workers : u = w \/ call'[u] = call[u] BY <3>3
          <6> HIDE DEF m
          <6> QED BY <6>1, <6>2
        <5> DEFINE s == "queued"
        <5>4. s \in {"pending", "queued", "cancelled"} /\ status' = [status EXCEPT ![m] = s]
          BY <5>1
        <5> HIDE DEF m, s
        <5> QED BY <3>1, <3>3, <4>1, <5>2, <5>3, <5>4, StatusMoves
      <4>3. CASE DeadLetter(w)
        <5>1. status' = [status EXCEPT ![m] = "cancelled"] /\ UNCHANGED retries
          BY <4>1, <4>3 DEF DeadLetter, Bury
        <5>2. retries' \in [Messages -> Nat] BY <1>0, <5>1 DEF TypeOK
        <5>3. \A u \in Workers : call'[u] = call[u]
                                 \/ (call'[u] = NoCall /\ call[u].pc \in {"bury", "requeue"})
          <6>1. call[w].pc \in {"bury", "requeue"} /\ call'[w] = NoCall BY <3>1, <3>3
          <6>2. \A u \in Workers : u = w \/ call'[u] = call[u] BY <3>3
          <6> HIDE DEF m
          <6> QED BY <6>1, <6>2
        <5> DEFINE s == "cancelled"
        <5>4. s \in {"pending", "queued", "cancelled"} /\ status' = [status EXCEPT ![m] = s]
          BY <5>1
        <5> HIDE DEF m, s
        <5> QED BY <3>1, <3>3, <4>1, <5>2, <5>3, <5>4, StatusMoves
      <4> QED BY <2>2, <4>2, <4>3
    <3>5. CASE status[call[w].msg] # "failed"
      <4>1. UNCHANGED <<status, retries>>
        BY <1>0, <2>2, <3>2, <3>5 DEF Requeue, DeadLetter, Bury, TypeOK
      <4> QED BY <3>1, <3>2, <4>1, NoCallType, CallMoves
    <3> QED BY <3>4, <3>5
  <2> QED BY <1>6, <2>1, <2>2 DEF Retry
<1>7. ASSUME NEW w \in Workers, Rollback(w) PROVE Inv'
  <2>1. /\ call[w].pc # "idle" /\ call' = [call EXCEPT ![w] = NoCall]
        /\ UNCHANGED <<status, retries, attempts, taken>>
    BY <1>7 DEF Rollback, Done
  <2>2. call[w].msg \in Messages BY <1>0, <2>1 DEF TypeOK
  <2>3. late' = [late EXCEPT ![call[w].msg] = @ + 1] \/ late' = late BY <1>7 DEF Rollback
  <2>4. IF call[w].outcome = "delivered"
        THEN unrecorded' = [unrecorded EXCEPT ![call[w].msg] = @ + 1]
        ELSE unrecorded' = unrecorded
    BY <1>7 DEF Rollback
  <2> QED BY <2>1, <2>2, <2>3, <2>4, RollbackKeeps
<1> QED BY <1>1, <1>2, <1>3, <1>4, <1>5, <1>6, <1>7 DEF Next

-----------------------------------------------------------------------------
(* The budget of retries.                                                  *)

\* One worker joins the stale calls of a message, or leaves them.
LEMMA StaleCounts ==
  ASSUME NEW w \in Workers, NEW m \in Messages,
         \A u \in Workers \ {w} : call'[u] = call[u]
  PROVE  /\ Cardinality(Stale(m)) \in Nat /\ Cardinality(Stale(m)') \in Nat
         /\ (w \in Stale(m)' => w \in Stale(m)) =>
              Cardinality(Stale(m)') <= Cardinality(Stale(m))
         /\ w \in Stale(m) /\ w \notin Stale(m)' =>
              Cardinality(Stale(m)') + 1 = Cardinality(Stale(m))
         /\ w \notin Stale(m)' => Cardinality(Stale(m)') <= Others
<1>1. IsFiniteSet(Workers) BY DispatchAssumption
<1>2. PICK S : S = Stale(m) OBVIOUS
<1>3. PICK T : T = Stale(m)' OBVIOUS
<1>4. S \subseteq Workers /\ T \subseteq Workers BY <1>2, <1>3 DEF Stale
<1>5. \A u \in Workers \ {w} : u \in T <=> u \in S BY <1>2, <1>3 DEF Stale
<1>6. IsFiniteSet(S) /\ IsFiniteSet(T) BY <1>1, <1>4, FS_Subset
<1>7. Cardinality(S) \in Nat /\ Cardinality(T) \in Nat BY <1>6, FS_CardinalityType
<1>8. (w \in T => w \in S) => Cardinality(T) <= Cardinality(S)
  <2>1. (w \in T => w \in S) => T \subseteq S BY <1>4, <1>5
  <2> QED BY <1>6, <2>1, FS_Subset
<1>9. w \in S /\ w \notin T => Cardinality(T) + 1 = Cardinality(S)
  <2>1. w \in S /\ w \notin T => T = S \ {w} BY <1>4, <1>5
  <2>2. w \in S => Cardinality(S \ {w}) = Cardinality(S) - 1
    BY <1>6, FS_RemoveElement
  <2> QED BY <1>7, <2>1, <2>2
<1>10. w \notin T => Cardinality(T) <= Others
  <2>1. w \notin T => T \subseteq Workers \ {w} BY <1>4
  <2>2. /\ IsFiniteSet(Workers \ {w})
        /\ Cardinality(Workers \ {w}) = Cardinality(Workers) - 1
    BY <1>1, FS_RemoveElement
  <2>3. w \notin T => Cardinality(T) <= Cardinality(Workers \ {w})
    BY <2>1, <2>2, FS_Subset
  <2> QED BY <2>2, <2>3 DEF Others
<1> QED BY <1>2, <1>3, <1>7, <1>8, <1>9, <1>10

\* What a worker may do to the account of a message: nothing that adds to it once the
\* budget is used up, a stale call that ends with a failure, or one that requeues.
LEMMA WorkerSpends ==
  ASSUME TypeOK, Spent, NEW w \in Workers,
         \A u \in Workers \ {w} : call'[u] = call[u],
         \A n \in Messages :
           \/ /\ retries'[n] = retries[n]
              /\ retries[n] >= MaxAttempts - 1 =>
                   \/ /\ status'[n] = "failed" => status[n] = "failed"
                      /\ w \in Stale(n)' => w \in Stale(n)
                   \/ w \in Stale(n) /\ w \notin Stale(n)' /\ status[n] # "failed"
           \/ /\ retries'[n] = retries[n] + 1
              /\ w \in Stale(n) /\ w \notin Stale(n)'
              /\ status[n] = "failed" /\ status'[n] # "failed"
  PROVE  Spent'
<1> SUFFICES ASSUME NEW n \in Messages, retries'[n] >= MaxAttempts - 1
             PROVE  2 * retries'[n] + Cardinality(Stale(n)')
                    + (IF status'[n] = "failed" THEN 1 ELSE 0)
                      <= 2 * (MaxAttempts - 1) + Others
  BY DEF Spent
<1>1. MaxAttempts \in Nat /\ retries[n] \in Nat /\ retries'[n] \in Nat
  BY DispatchAssumption DEF TypeOK
<1>2. PICK s, t : s = Cardinality(Stale(n)) /\ t = Cardinality(Stale(n)') OBVIOUS
<1>3. Others \in Nat
  BY DispatchAssumption, FS_CardinalityType, FS_EmptySet DEF Others
<1>4. retries[n] >= MaxAttempts - 1 =>
        2 * retries[n] + s + (IF status[n] = "failed" THEN 1 ELSE 0)
          <= 2 * (MaxAttempts - 1) + Others
  BY <1>2 DEF Spent
<1>5. /\ s \in Nat /\ t \in Nat
      /\ (w \in Stale(n)' => w \in Stale(n)) => t <= s
      /\ w \in Stale(n) /\ w \notin Stale(n)' => t + 1 = s
      /\ w \notin Stale(n)' => t <= Others
  BY <1>2, StaleCounts
<1>6. CASE retries'[n] = retries[n] + 1 /\ retries[n] >= MaxAttempts - 1
  <2>1. t + 1 = s /\ status[n] = "failed" /\ status'[n] # "failed" BY <1>1, <1>5, <1>6
  <2>2. 2 * retries'[n] = 2 * retries[n] + 2 BY <1>1, <1>6
  <2> QED BY <1>1, <1>2, <1>3, <1>4, <1>5, <1>6, <2>1, <2>2
<1>7. CASE retries'[n] = retries[n] + 1 /\ ~(retries[n] >= MaxAttempts - 1)
  <2>1. t <= Others /\ status'[n] # "failed" BY <1>1, <1>5, <1>7
  <2>2. retries'[n] = MaxAttempts - 1 BY <1>1, <1>7
  <2>3. 2 * retries'[n] = 2 * (MaxAttempts - 1) BY <2>2
  <2>4. 2 * (MaxAttempts - 1) \in Int BY <1>1
  <2> QED BY <1>2, <1>3, <1>5, <2>1, <2>3, <2>4
<1>8. CASE retries'[n] = retries[n]
  <2>1. t + (IF status'[n] = "failed" THEN 1 ELSE 0)
          <= s + (IF status[n] = "failed" THEN 1 ELSE 0)
    BY <1>1, <1>5, <1>8
  <2> QED BY <1>1, <1>2, <1>3, <1>4, <1>5, <1>8, <2>1
<1> QED BY <1>1, <1>6, <1>7, <1>8

\* Initially nothing is spent ...
LEMMA InitSpent == Init => Spent
<1> SUFFICES ASSUME Init, NEW m \in Messages
             PROVE  2 * retries[m] + Cardinality(Stale(m))
                    + (IF status[m] = "failed" THEN 1 ELSE 0)
                      <= 2 * (MaxAttempts - 1) + Others
  BY DEF Spent
<1>1. Stale(m) = {} BY DEF Init, Stale, NoCall
<1>2. Cardinality({}) = 0 BY FS_EmptySet
<1>3. retries[m] = 0 /\ status[m] = "none" BY DEF Init
<1>4. Others \in Nat
  BY DispatchAssumption, FS_CardinalityType, FS_EmptySet DEF Others
<1>5. MaxAttempts \in Nat /\ MaxAttempts >= 1 BY DispatchAssumption
<1>6. Cardinality(Stale(m)) = 0 BY <1>1, <1>2
<1> QED BY <1>3, <1>4, <1>5, <1>6

\* ... and no step spends more than there is.
LEMMA StepSpent == Inv /\ Spent /\ [Next]_vars => Spent'
<1> SUFFICES ASSUME Inv, Spent, [Next]_vars PROVE Spent' OBVIOUS
<1>0. TypeOK /\ RowLock BY DEF Inv
<1>1. CASE UNCHANGED <<status, retries, call>>
  BY <1>1 DEF Spent, Stale
<1>2. ASSUME NEW m \in Messages, Enqueue(m) \/ Promote(m) PROVE Spent'
  <2>1. /\ retries' = retries /\ call' = call
        /\ \A n \in Messages : status'[n] = "failed" => status[n] = "failed"
    BY <1>0, <1>2 DEF Enqueue, Promote, TypeOK
  <2>2. \A n \in Messages : Stale(n)' = Stale(n) BY <2>1 DEF Stale
  <2>3. \A n \in Messages : Cardinality(Stale(n)) \in Nat
    <3> SUFFICES ASSUME NEW n \in Messages PROVE Cardinality(Stale(n)) \in Nat OBVIOUS
    <3>1. Stale(n) \subseteq Workers BY DEF Stale
    <3> QED BY <3>1, DispatchAssumption, FS_Subset, FS_CardinalityType
  <2>4. Others \in Nat /\ MaxAttempts \in Nat
    BY DispatchAssumption, FS_CardinalityType, FS_EmptySet DEF Others
  <2>5. \A n \in Messages : retries[n] \in Nat BY <1>0 DEF TypeOK
  <2> SUFFICES ASSUME NEW n \in Messages, retries[n] >= MaxAttempts - 1
               PROVE  2 * retries[n] + Cardinality(Stale(n))
                      + (IF status'[n] = "failed" THEN 1 ELSE 0)
                        <= 2 * (MaxAttempts - 1) + Others
    BY <2>1, <2>2 DEF Spent
  <2>6. 2 * retries[n] + Cardinality(Stale(n)) + (IF status[n] = "failed" THEN 1 ELSE 0)
          <= 2 * (MaxAttempts - 1) + Others
    BY DEF Spent
  <2>7. (IF status'[n] = "failed" THEN 1 ELSE 0) <= (IF status[n] = "failed" THEN 1 ELSE 0)
    BY <2>1
  <2>8. Cardinality(Stale(n)) \in Nat /\ retries[n] \in Nat BY <2>3, <2>5
  <2> QED BY <2>4, <2>6, <2>7, <2>8
<1>3. ASSUME NEW w \in Workers, Dispatch(w) \/ RefuseContent(w) \/ Retry(w) \/ Rollback(w)
      PROVE  Spent'
  <2>0. MaxAttempts \in Nat /\ call[w] \in Call
        /\ \A n \in Messages : retries[n] \in Nat
    BY <1>0, DispatchAssumption DEF TypeOK
  <2>1. \A u \in Workers \ {w} : call'[u] = call[u]
    <3>1. CASE Dispatch(w)
      <4>1. CASE Start(w) BY <1>0, <4>1 DEF Start, Done, TypeOK
      <4>2. CASE Record(w) BY <1>0, <4>2 DEF Record, Done, TypeOK
      <4>3. CASE TimeOut(w) BY <1>0, <4>3 DEF TimeOut, TypeOK
      <4>4. CASE \E o \in {"delivered", "rejected", "outage"} : Answer(w, o)
        BY <1>0, <4>4 DEF Answer, TypeOK
      <4>5. CASE \E m \in Messages, intact \in BOOLEAN : Find(w, m, intact)
        BY <1>0, <4>5 DEF Find, TypeOK
      <4> QED BY <3>1, <4>1, <4>2, <4>3, <4>4, <4>5 DEF Dispatch
    <3>2. CASE RefuseContent(w)
      BY <1>0, <3>2 DEF RefuseContent, CountAttempts, Refuse, RecordRefusal, Goto, Done, TypeOK
    <3>3. CASE Retry(w) BY <1>0, <3>3 DEF Retry, FindFailed, Requeue, DeadLetter, Done, TypeOK
    <3>4. CASE Rollback(w) BY <1>0, <3>4 DEF Rollback, Done, TypeOK
    <3> QED BY <1>3, <3>1, <3>2, <3>3, <3>4
  <2>2. ASSUME NEW m \in Messages, NEW intact \in BOOLEAN, Find(w, m, intact) PROVE Spent'
    <3>1. /\ retries' = retries /\ status' = status /\ call'[w].msg = m
          /\ call'[w].pc \in {"start", "count"} /\ call'[w].seen = retries[m]
      BY <1>0, <2>2 DEF Find, TypeOK, NoCall
    <3>2. \A n \in Messages : retries[n] >= MaxAttempts - 1 => w \notin Stale(n)'
      BY <2>0, <3>1 DEF Stale, Exhausted
    <3> QED BY <1>0, <2>1, <3>1, <3>2, WorkerSpends
  <2>3. ASSUME Start(w) \/ TimeOut(w)
               \/ \E o \in {"delivered", "rejected", "outage"} : Answer(w, o)
        PROVE  Spent'
    <3>1. retries' = retries /\ status' = status BY <2>3 DEF Start, TimeOut, Answer
    <3>2. \/ call'[w].pc = "idle"
          \/ /\ call'[w].msg = call[w].msg /\ call'[w].seen = call[w].seen
             /\ call[w].pc \in {"start", "calling", "answered"}
             /\ call'[w].pc \in {"start", "calling", "answered"}
      BY <1>0, <2>3 DEF Start, TimeOut, Answer, Done, NoCall, TypeOK, Call
    <3>3. \A n \in Messages : w \in Stale(n)' => w \in Stale(n) BY <3>2 DEF Stale
    <3> QED BY <1>0, <2>1, <3>1, <3>3, WorkerSpends
  <2>4. CASE Record(w)
    <3>1. /\ retries' = retries /\ call[w].pc = "answered" /\ call[w].msg \in Messages
          /\ call'[w].pc = "idle"
          /\ \A n \in Messages : status'[n] = IF n = call[w].msg
                                   THEN After(call[w].outcome, call[w].seen) ELSE status[n]
      BY <1>0, <2>4 DEF Record, Done, NoCall, TypeOK
    <3>2. \A n \in Messages : w \notin Stale(n)' BY <3>1 DEF Stale
    <3>3. status[call[w].msg] = "queued" BY <1>0, <3>1 DEF RowLock, Sending
    <3>4. After(call[w].outcome, call[w].seen) = "failed" => ~Exhausted(call[w].seen)
      BY DEF After
    <3>5. ~Exhausted(call[w].seen) => w \in Stale(call[w].msg) BY <3>1 DEF Stale
    <3>6. \A n \in Messages :
            \/ status'[n] = "failed" => status[n] = "failed"
            \/ w \in Stale(n) /\ status[n] # "failed"
      BY <3>1, <3>3, <3>4, <3>5
    <3> QED BY <1>0, <2>1, <3>1, <3>2, <3>6, WorkerSpends
  <2>5. CASE RefuseContent(w)
    <3>1. /\ retries' = retries
          /\ call'[w].pc \in {"idle", "refuse", "refused", "bystander"}
      <4>1. CASE CountAttempts(w) BY <1>0, <2>0, <4>1 DEF CountAttempts, TypeOK, Call
      <4>2. CASE Refuse(w) BY <1>0, <2>0, <4>2 DEF Refuse, Goto, TypeOK, Call
      <4>3. CASE RecordRefusal(w) BY <1>0, <4>3 DEF RecordRefusal, Done, NoCall, TypeOK
      <4> QED BY <2>5, <4>1, <4>2, <4>3 DEF RefuseContent
    <3>2. \A n \in Messages : status'[n] = "failed" => status[n] = "failed"
      BY <1>0, <2>5 DEF RefuseContent, CountAttempts, Refuse, RecordRefusal, Bury, TypeOK
    <3>3. \A n \in Messages : w \notin Stale(n)' BY <3>1 DEF Stale
    <3> QED BY <1>0, <2>1, <3>1, <3>2, <3>3, WorkerSpends
  <2>6. ASSUME NEW m \in Messages, FindFailed(w, m) PROVE Spent'
    <3>1. /\ retries' = retries /\ status' = status /\ call'[w].msg = m
          /\ call'[w].pc = IF Exhausted(retries[m]) THEN "bury" ELSE "requeue"
      BY <1>0, <2>6 DEF FindFailed, TypeOK, NoCall
    <3>2. \A n \in Messages : retries[n] >= MaxAttempts - 1 => w \notin Stale(n)'
      BY <2>0, <3>1 DEF Stale, Exhausted
    <3> QED BY <1>0, <2>1, <3>1, <3>2, WorkerSpends
  <2>7. CASE Requeue(w)
    <3>1. /\ call[w].pc = "requeue" /\ call[w].msg \in Messages /\ call'[w].pc = "idle"
      BY <1>0, <2>7 DEF Requeue, Done, NoCall, TypeOK
    <3>2. w \in Stale(call[w].msg) /\ \A n \in Messages : w \notin Stale(n)'
      BY <3>1 DEF Stale
    <3>3. CASE status[call[w].msg] = "failed"
      <4>1. \A n \in Messages :
              IF n = call[w].msg
              THEN /\ status[n] = "failed" /\ status'[n] = "queued"
                   /\ retries'[n] = retries[n] + 1
              ELSE status'[n] = status[n] /\ retries'[n] = retries[n]
        BY <1>0, <2>7, <3>3 DEF Requeue, TypeOK
      <4> QED BY <1>0, <2>1, <3>2, <4>1, WorkerSpends
    <3>4. CASE status[call[w].msg] # "failed"
      <4>1. retries' = retries /\ status' = status BY <2>7, <3>4 DEF Requeue
      <4> QED BY <1>0, <2>1, <3>2, <4>1, WorkerSpends
    <3> QED BY <3>3, <3>4
  <2>8. CASE DeadLetter(w) \/ Rollback(w)
    <3>1. retries' = retries /\ call'[w].pc = "idle"
      BY <1>0, <2>8 DEF DeadLetter, Rollback, Done, NoCall, TypeOK
    <3>2. \A n \in Messages : status'[n] = "failed" => status[n] = "failed"
      BY <1>0, <2>8 DEF DeadLetter, Rollback, Bury, TypeOK
    <3>3. \A n \in Messages : w \notin Stale(n)' BY <3>1 DEF Stale
    <3> QED BY <1>0, <2>1, <3>1, <3>2, <3>3, WorkerSpends
  <2> QED BY <1>3, <2>2, <2>3, <2>4, <2>5, <2>6, <2>7, <2>8 DEF Dispatch, Retry
<1>4. CASE \E m \in Messages, takes \in BOOLEAN : LateAnswer(m, takes)
  BY <1>1, <1>4 DEF LateAnswer
<1> QED BY <1>1, <1>2, <1>3, <1>4 DEF Next, vars

-----------------------------------------------------------------------------
(* The theorems.                                                           *)

\* ... so it always holds.
LEMMA Inductive == Spec => []Inv
  BY InitInv, StepInv, PTL DEF Spec

\* Every reachable state is well typed: no message is committed in sending or sent,
\* because the call that put it there ends the walk or is rolled back.
THEOREM DispatchTypeCorrect == Spec => []TypeOK
<1>1. Inv => TypeOK BY DEF Inv
<1> QED BY <1>1, Inductive, PTL

\* The attempts record at most one delivery of a message, and record one exactly when
\* its status is delivered, however many workers read it as queued (transition).
THEOREM OneDeliveryRecorded == Spec => []LedgerAgrees
<1>1. Inv => LedgerAgrees BY DEF Inv
<1> QED BY <1>1, Inductive, PTL

\* Nobody gets a message twice unless an answer of the provider was lost: to the timer
\* of withTimeout or to a rollback.
THEOREM NoUnexplainedDuplicate == Spec => []DuplicatesExplained
<1>1. Inv => DuplicatesExplained BY DEF Inv
<1> QED BY <1>1, Inductive, PTL

\* A message the provider refused is buried and stays so (deadLetter).
THEOREM RefusalsAreFinal == Spec => []RefusedForGood
<1>1. Inv => RefusedForGood BY DEF Inv
<1> QED BY <1>1, Inductive, PTL
\* The budget of notificationMaxAttempts is overrun, by callers that go by a retry_count
\* read before they had the row, by at most one retry for every two other workers.
THEOREM OverrunBounded == Spec => []OverrunByWorkers
<1>1. Inv /\ Spent => OverrunByWorkers
  <2> SUFFICES ASSUME TypeOK, Spent, NEW m \in Messages
               PROVE  2 * retries[m] <= 2 * (MaxAttempts - 1) + Others
    BY DEF Inv, OverrunByWorkers
  <2>1. retries[m] \in Nat /\ MaxAttempts \in Nat BY DispatchAssumption DEF TypeOK
  <2>2. Others \in Nat
    BY DispatchAssumption, FS_CardinalityType, FS_EmptySet DEF Others
  <2>3. Cardinality(Stale(m)) \in Nat
    <3>1. Stale(m) \subseteq Workers BY DEF Stale
    <3> QED BY <3>1, DispatchAssumption, FS_Subset, FS_CardinalityType
  <2>4. CASE retries[m] >= MaxAttempts - 1
    <3>1. 2 * retries[m] + Cardinality(Stale(m)) + (IF status[m] = "failed" THEN 1 ELSE 0)
            <= 2 * (MaxAttempts - 1) + Others
      BY <2>4 DEF Spent
    <3> QED BY <2>1, <2>2, <2>3, <3>1
  <2>5. CASE ~(retries[m] >= MaxAttempts - 1) BY <2>1, <2>2, <2>5
  <2> QED BY <2>4, <2>5
<1> QED BY <1>1, Inductive, InitSpent, StepSpent, PTL DEF Spec

\* So two workers are not enough to overrun it: what the dispatch_budget run shows takes
\* three of them.
THEOREM TwoWorkersKeepBudget ==
  ASSUME Cardinality(Workers) <= 2
  PROVE  Spec => []RetriesWithinBudget
<1>1. Inv /\ OverrunByWorkers => RetriesWithinBudget
  <2> SUFFICES ASSUME TypeOK, OverrunByWorkers, NEW m \in Messages
               PROVE  retries[m] < MaxAttempts
    BY DEF Inv, RetriesWithinBudget
  <2>1. retries[m] \in Nat /\ MaxAttempts \in Nat BY DispatchAssumption DEF TypeOK
  <2>2. Others \in Nat /\ Others <= 1
    BY DispatchAssumption, FS_CardinalityType, FS_EmptySet DEF Others
  <2>3. 2 * retries[m] <= 2 * (MaxAttempts - 1) + Others BY DEF OverrunByWorkers
  <2> QED BY <2>1, <2>2, <2>3
<1> QED BY <1>1, Inductive, OverrunBounded, PTL
=============================================================================
