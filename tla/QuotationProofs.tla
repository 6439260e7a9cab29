-------------------------- MODULE QuotationProofs --------------------------
(***************************************************************************)
(* Theorems about Quotation for every set of work orders, quotations,      *)
(* revisions, items and connections. The argument: a revision is decided   *)
(* only while it is the current, issued one of an active quotation, and    *)
(* everything that could end that needs the quotation's lock, which a      *)
(* sweep keeps until its commit.                                           *)
(***************************************************************************)
EXTENDS Quotation, TLAPS

data == <<quotation, revision, decision>>

\* Inv holds initially.
LEMMA InitInv == Init => Inv
<1> SUFFICES ASSUME Init PROVE Inv OBVIOUS
<1> USE NoneAssumption DEF Init, Idle, NoQuotation, NoRevision
<1>1. TypeOK BY DEF TypeOK, Kinds
<1>2. Shaped BY DEF Shaped
<1>3. Carried BY DEF Carried
<1>4. Locked BY DEF Locked
<1>5. StandingAgrees BY DEF StandingAgrees, Standing
<1>6. ReliedOnAccepted BY DEF ReliedOnAccepted
<1> QED BY <1>1, <1>2, <1>3, <1>4, <1>5, <1>6 DEF Inv

-----------------------------------------------------------------------------
(* What the steps do, one kind at a time.                                  *)

\* Five actions write the tables of the quotation; the others leave them alone.
LEMMA Writers ==
  ASSUME Next
  PROVE  \/ UNCHANGED data
         \/ \E s \in Sessions, q \in Quotations, r \in Revisions, l \in SUBSET Items :
              FinishCreate(s, q, r, l)
         \/ \E q \in Quotations, r \in Revisions, l \in SUBSET Items : Revise(q, r, l)
         \/ \E r \in Revisions : Issue(r)
         \/ \E s \in Sessions : FinishDecide(s)
         \/ \E s \in Sessions : CommitSweep(s)
<1> USE DEF data
<1>1. CASE Command
  BY <1>1 DEF Command, Lapse, VoidInvoice, CloseWorkOrder
<1>2. ASSUME NEW s \in Sessions, BeginStep(s) PROVE UNCHANGED data
  BY <1>2 DEF BeginStep, BeginCreate, BeginDecide, BeginSweep, BeginCite, BeginBill, Begin
<1>3. ASSUME NEW s \in Sessions, EndStep(s)
      PROVE  \/ UNCHANGED data
             \/ \E q \in Quotations, r \in Revisions, l \in SUBSET Items : FinishCreate(s, q, r, l)
             \/ FinishDecide(s) \/ CommitSweep(s)
  BY <1>3 DEF EndStep, SweepOne, FinishCite, FinishBill, Rollback
<1> QED BY <1>1, <1>2, <1>3 DEF Next

\* The tables of those who rely on a quotation are written by three.
LEMMA Relying ==
  ASSUME Next
  PROVE  \/ UNCHANGED agreed
         \/ \E s \in Sessions : FinishCite(s) \/ FinishBill(s)
         \/ \E w \in WorkOrders : VoidInvoice(w)
<1> USE DEF agreed
<1>1. CASE Command
  BY <1>1 DEF Command, Revise, Issue, Lapse, CloseWorkOrder
<1>2. ASSUME NEW s \in Sessions, BeginStep(s) PROVE UNCHANGED agreed
  BY <1>2 DEF BeginStep, BeginCreate, BeginDecide, BeginSweep, BeginCite, BeginBill, Begin
<1>3. ASSUME NEW s \in Sessions, EndStep(s)
      PROVE  UNCHANGED agreed \/ FinishCite(s) \/ FinishBill(s)
  BY <1>3 DEF EndStep, FinishCreate, FinishDecide, SweepOne, CommitSweep, Rollback
<1> QED BY <1>1, <1>2, <1>3 DEF Next

\* A transaction begins, takes a revision of its sweep, or ends; the others stay.
LEMMA Moves ==
  ASSUME Inv, Next
  PROVE  \/ UNCHANGED tx
         \/ /\ UNCHANGED data
            /\ \E s \in Sessions : \/ BeginStep(s)
                                   \/ \E r \in Revisions : SweepOne(s, r)
         \/ \E s \in Sessions : tx' = [tx EXCEPT ![s] = Idle]
<1> USE DEF data
<1>1. CASE Command
  BY <1>1 DEF Command, Revise, Issue, Lapse, VoidInvoice, CloseWorkOrder
<1>2. ASSUME NEW s \in Sessions, BeginStep(s) PROVE UNCHANGED data
  BY <1>2 DEF BeginStep, BeginCreate, BeginDecide, BeginSweep, BeginCite, BeginBill, Begin
<1>3. ASSUME NEW s \in Sessions, EndStep(s)
      PROVE  \/ UNCHANGED data /\ \E r \in Revisions : SweepOne(s, r)
             \/ tx' = [tx EXCEPT ![s] = Idle]
  BY <1>3 DEF EndStep, FinishCreate, FinishDecide, SweepOne, CommitSweep, FinishCite,
              FinishBill, Rollback, End
<1> QED BY <1>1, <1>2, <1>3 DEF Next

-----------------------------------------------------------------------------
(* What lasts.                                                             *)

\* Only an active quotation's revision can be decided any more: one of an accepted
\* quotation has all its answers.
LEMMA DecidedWhileActive ==
  ASSUME Inv, NEW s \in Sessions, FinishDecide(s)
  PROVE  LET r == tx[s].rev
             q == revision[r].quo
         IN  /\ r \in Revisions /\ q \in Quotations
             /\ revision[r].status = "issued" /\ quotation[q].current = r
             /\ quotation[q].status = "active"
             /\ Unlocked(q)
<1> DEFINE r == tx[s].rev
           q == revision[r].quo
<1>1. r \in Revisions /\ tx[s].items \subseteq revision[r].lines
  BY DEF Inv, Carried, FinishDecide
<1>2. /\ revision[r].status = "issued" /\ quotation[q].current = r /\ Unlocked(q)
      /\ Undecided(tx[s]) # {}
  BY DEF FinishDecide, Decidable, Current
<1>3. q \in Quotations BY <1>1, <1>2 DEF Inv, Shaped
<1>4. quotation[q].status \in {"active", "accepted"}
  BY <1>1, <1>2, <1>3, NoneAssumption DEF Inv, TypeOK, StandingAgrees, Standing
<1>5. ASSUME quotation[q].status = "accepted" PROVE FALSE
  <2>1. Outcome(r) = "accepted" BY <1>2, <1>3, <1>5 DEF Inv, StandingAgrees, Standing
  <2>2. Answers(r) = {"approved"} BY <2>1 DEF Outcome, RollUp
  <2>3. \A i \in tx[s].items : decision[r][i] = "approved" BY <1>1, <2>2 DEF Answers
  <2> QED BY <1>2, <2>3 DEF Undecided
<1> QED BY <1>1, <1>2, <1>3, <1>4, <1>5

\* What a sweep commits is the issued revision of a quotation that is active and
\* that nobody else holds.
LEMMA SweptWhileActive ==
  ASSUME Inv, NEW s \in Sessions, NEW r \in tx[s].done
  PROVE  /\ r \in Revisions /\ revision[r].quo \in Quotations
         /\ revision[r].status = "issued" /\ quotation[revision[r].quo].current = r
         /\ quotation[revision[r].quo].status = "active"
         /\ revision[r].quo \in tx[s].locked
<1>1. r \in Revisions BY DEF Inv, TypeOK
<1>2. Expirable(r) /\ revision[r].quo \in tx[s].locked BY DEF Inv, Locked
<1>3. revision[r].quo \in Quotations BY <1>1, <1>2 DEF Inv, Shaped, Expirable
<1>4. quotation[revision[r].quo].current = r
  BY <1>1, <1>2, <1>3 DEF Inv, StandingAgrees, Expirable
<1> QED BY <1>1, <1>2, <1>3, <1>4 DEF Expirable

\* The current, issued revision has been accepted as soon as its lines say so.
LEMMA OutcomeStands ==
  ASSUME Inv, NEW r \in Revisions, revision[r].quo \in Quotations,
         revision[r].status = "issued", quotation[revision[r].quo].current = r,
         Outcome(r) = "accepted"
  PROVE  quotation[revision[r].quo].status = "accepted"
BY NoneAssumption DEF Inv, TypeOK, StandingAgrees, Standing

\* A row that exists keeps what it is of: a revision its quotation and its lines, a
\* quotation its work order.
LEMMA RowsLast ==
  ASSUME Inv, Next
  PROVE  /\ \A r \in Revisions : revision[r].status # "none" =>
              /\ revision'[r].status # "none"
              /\ revision'[r].quo = revision[r].quo /\ revision'[r].lines = revision[r].lines
         /\ \A q \in Quotations : quotation[q].status # "none" =>
              quotation'[q].status # "none" /\ quotation'[q].wo = quotation[q].wo
<1> DEFINE Last == /\ \A r \in Revisions : revision[r].status # "none" =>
                        /\ revision'[r].status # "none"
                        /\ revision'[r].quo = revision[r].quo
                        /\ revision'[r].lines = revision[r].lines
                   /\ \A q \in Quotations : quotation[q].status # "none" =>
                        quotation'[q].status # "none" /\ quotation'[q].wo = quotation[q].wo
<1> SUFFICES Last OBVIOUS
<1> USE DEF Inv, TypeOK
<1>1. CASE UNCHANGED data BY <1>1 DEF data
<1>2. ASSUME NEW s \in Sessions, NEW q \in Quotations, NEW r \in Revisions,
             NEW l \in SUBSET Items, FinishCreate(s, q, r, l)
      PROVE  Last
  BY <1>2 DEF FinishCreate, Draft
<1>3. ASSUME NEW q \in Quotations, NEW r \in Revisions, NEW l \in SUBSET Items,
             Revise(q, r, l)
      PROVE  Last
  BY <1>3 DEF Revise, Draft
<1>4. ASSUME NEW r \in Revisions, Issue(r) PROVE Last
  BY <1>4 DEF Issue, Supersede
<1>5. ASSUME NEW s \in Sessions, FinishDecide(s) PROVE Last
  <2> DEFINE d == tx[s].rev
             q == revision[d].quo
  <2>1. d \in Revisions /\ q \in Quotations BY <1>5, DecidedWhileActive
  <2>2. revision' = revision \/ revision' = [revision EXCEPT ![d].status = "rejected"]
    BY <1>5 DEF FinishDecide
  <2>3. \/ quotation' = quotation
        \/ quotation' = [quotation EXCEPT ![q].status = "rejected"]
        \/ quotation' = [quotation EXCEPT ![q].status = "accepted"]
    BY <1>5 DEF FinishDecide, RollUp
  <2> HIDE DEF q, d
  <2>4. \A x \in Revisions : revision[x].status # "none" =>
          /\ revision'[x].status # "none"
          /\ revision'[x].quo = revision[x].quo /\ revision'[x].lines = revision[x].lines
    <3>1. CASE revision' = revision BY <3>1
    <3>2. CASE revision' = [revision EXCEPT ![d].status = "rejected"] BY <2>1, <3>2
    <3> QED BY <2>2, <3>1, <3>2
  <2>5. \A x \in Quotations : quotation[x].status # "none" =>
          quotation'[x].status # "none" /\ quotation'[x].wo = quotation[x].wo
    <3>1. CASE quotation' = quotation BY <3>1
    <3>2. CASE quotation' = [quotation EXCEPT ![q].status = "rejected"] BY <2>1, <3>2
    <3>3. CASE quotation' = [quotation EXCEPT ![q].status = "accepted"] BY <2>1, <3>3
    <3> QED BY <2>3, <3>1, <3>2, <3>3
  <2> QED BY <2>4, <2>5
<1>6. ASSUME NEW s \in Sessions, CommitSweep(s) PROVE Last
  BY <1>6 DEF CommitSweep
<1> HIDE DEF Inv, TypeOK, Last
<1> QED BY <1>1, <1>2, <1>3, <1>4, <1>5, <1>6, Writers

\* An accepted quotation and its revision are not written again.
LEMMA AcceptedLasts ==
  ASSUME Inv, Next, NEW q \in Quotations, quotation[q].status = "accepted"
  PROVE  /\ quotation'[q] = quotation[q]
         /\ quotation[q].current \in Revisions
         /\ revision[quotation[q].current].quo = q
         /\ revision[quotation[q].current].status = "issued"
         /\ revision'[quotation[q].current] = revision[quotation[q].current]
<1> DEFINE c == quotation[q].current
<1>1. c \in Revisions /\ revision[c].quo = q /\ revision[c].status = "issued"
  BY DEF Inv, StandingAgrees, Standing
<1> HIDE DEF c
<1> DEFINE Same == quotation'[q] = quotation[q] /\ revision'[c] = revision[c]
<1> SUFFICES Same BY <1>1 DEF c
<1> USE <1>1 DEF Inv, TypeOK
<1>2. CASE UNCHANGED data BY <1>2 DEF data
<1>3. ASSUME NEW s \in Sessions, NEW x \in Quotations, NEW r \in Revisions,
             NEW l \in SUBSET Items, FinishCreate(s, x, r, l)
      PROVE  Same
  BY <1>3 DEF FinishCreate, Draft
<1>4. ASSUME NEW x \in Quotations, NEW r \in Revisions, NEW l \in SUBSET Items,
             Revise(x, r, l)
      PROVE  Same
  BY <1>4 DEF Revise, Draft
<1>5. ASSUME NEW r \in Revisions, Issue(r) PROVE Same
  <2>1. revision[r].quo # q /\ r # c BY <1>5 DEF Issue, Open
  <2> QED BY <1>5, <2>1 DEF Issue, Supersede
<1>6. ASSUME NEW s \in Sessions, FinishDecide(s) PROVE Same
  <2>1. revision[tx[s].rev].quo # q /\ tx[s].rev # c BY <1>6, DecidedWhileActive
  <2> QED BY <1>6, <2>1 DEF FinishDecide
<1>7. ASSUME NEW s \in Sessions, CommitSweep(s) PROVE Same
  <2>1. \A r \in tx[s].done : revision[r].quo # q /\ r # c BY SweptWhileActive
  <2> QED BY <1>7, <2>1 DEF CommitSweep
<1> HIDE DEF Inv, TypeOK, Same
<1> QED BY <1>2, <1>3, <1>4, <1>5, <1>6, <1>7, Writers

\* So what is relied on remains reliable.
LEMMA ReliableLasts ==
  ASSUME Inv, Next, NEW r \in Revisions, Accepted(r)
  PROVE  Accepted(r)' /\ quotation'[revision'[r].quo].wo = quotation[revision[r].quo].wo
<1>1. revision[r].quo \in Quotations BY DEF Inv, Shaped, Accepted
<1> QED BY <1>1, AcceptedLasts DEF Accepted

-----------------------------------------------------------------------------
(* Types.                                                                  *)

Transaction == [kind : Kinds, wo : WorkOrders \cup {None},
  rev : Revisions \cup {None}, items : SUBSET Items,
  answer : {"none", "approved", "rejected"}, past : SUBSET Revisions,
  todo : SUBSET Revisions, done : SUBSET Revisions, locked : SUBSET Quotations]

\* A transaction that begins knows what it is about, holds nothing and has done nothing.
LEMMA Beginning ==
  ASSUME Inv, NEW s \in Sessions, BeginStep(s)
  PROVE  \E t \in Transaction :
           /\ tx' = [tx EXCEPT ![s] = t]
           /\ t.kind \in {"create", "cite", "bill"} => t.wo \in WorkOrders
           /\ t.kind \in {"decide", "cite", "bill"} => t.rev \in Revisions
           /\ t.kind = "decide" => /\ revision[t.rev].status # "none"
                                   /\ t.items \subseteq revision[t.rev].lines
           /\ t.kind = "bill" => Sources(t.wo) = {t.rev}
           /\ \A r \in t.todo : revision[r].status # "none"
           /\ t.done = {} /\ t.locked = {}
<1> DEFINE Right(t) ==
           /\ t \in Transaction
           /\ tx' = [tx EXCEPT ![s] = t]
           /\ t.kind \in {"create", "cite", "bill"} => t.wo \in WorkOrders
           /\ t.kind \in {"decide", "cite", "bill"} => t.rev \in Revisions
           /\ t.kind = "decide" => /\ revision[t.rev].status # "none"
                                   /\ t.items \subseteq revision[t.rev].lines
           /\ t.kind = "bill" => Sources(t.wo) = {t.rev}
           /\ \A r \in t.todo : revision[r].status # "none"
           /\ t.done = {} /\ t.locked = {}
<1> SUFFICES \E t : Right(t) OBVIOUS
<1>0. TypeOK BY DEF Inv
<1> USE DEF Idle, Transaction, Kinds, Begin
<1>1. ASSUME NEW w \in WorkOrders, BeginCreate(s, w)
      PROVE  Right([Idle EXCEPT !.kind = "create", !.wo = w])
  BY <1>1 DEF BeginCreate
<1>2. ASSUME NEW r \in Revisions, NEW l \in SUBSET Items, NEW a \in {"approved", "rejected"},
             BeginDecide(s, r, l, a)
      PROVE  Right([Idle EXCEPT !.kind = "decide", !.rev = r, !.items = l, !.answer = a,
                                !.past = lapsed])
  <2>1. revision[r].status # "none" /\ l \subseteq revision[r].lines BY <1>2 DEF BeginDecide
  <2>2. lapsed \in SUBSET Revisions BY <1>0 DEF TypeOK
  <2> QED BY <1>2, <2>1, <2>2 DEF BeginDecide
<1>3. CASE BeginSweep(s)
  <2> DEFINE c == {r \in lapsed : Expirable(r)}
  <2>1. c \in SUBSET Revisions /\ \A r \in c : revision[r].status # "none"
    BY <1>0 DEF TypeOK, Expirable
  <2>2. tx' = [tx EXCEPT ![s] = [Idle EXCEPT !.kind = "sweep", !.todo = c]]
    BY <1>3 DEF BeginSweep
  <2> HIDE DEF c
  <2>3. Right([Idle EXCEPT !.kind = "sweep", !.todo = c]) BY <2>1, <2>2
  <2> QED BY <2>3
<1>4. ASSUME NEW w \in WorkOrders, NEW r \in Revisions, BeginCite(s, w, r)
      PROVE  Right([Idle EXCEPT !.kind = "cite", !.wo = w, !.rev = r, !.past = lapsed])
  <2>1. lapsed \in SUBSET Revisions BY <1>0 DEF TypeOK
  <2> QED BY <1>4, <2>1 DEF BeginCite
<1>5. ASSUME NEW w \in WorkOrders, NEW r \in Revisions, BeginBill(s, w, r)
      PROVE  Right([Idle EXCEPT !.kind = "bill", !.wo = w, !.rev = r])
  BY <1>5 DEF BeginBill
<1> HIDE DEF Right
<1> QED BY <1>1, <1>2, <1>3, <1>4, <1>5 DEF BeginStep

\* Every step keeps the types ...
LEMMA TypeStep == ASSUME Inv, Next PROVE TypeOK'
<1>0. TypeOK BY DEF Inv
<1>1. live' \subseteq WorkOrders /\ lapsed' \subseteq Revisions
  <2> USE <1>0 DEF TypeOK
  <2>1. CASE Command
    BY <2>1 DEF Command, Revise, Issue, Lapse, VoidInvoice, CloseWorkOrder
  <2>2. ASSUME NEW s \in Sessions, BeginStep(s) PROVE UNCHANGED <<live, lapsed>>
    BY <2>2 DEF BeginStep, BeginCreate, BeginDecide, BeginSweep, BeginCite, BeginBill, Begin
  <2>3. ASSUME NEW s \in Sessions, EndStep(s) PROVE UNCHANGED <<live, lapsed>>
    BY <2>3 DEF EndStep, FinishCreate, FinishDecide, SweepOne, CommitSweep, FinishCite,
                FinishBill, Rollback
  <2> QED BY <2>1, <2>2, <2>3 DEF Next
<1>2. cited' \subseteq Revisions /\ billed' \in [WorkOrders -> Revisions \cup {None}]
  <2> USE <1>0 DEF TypeOK
  <2>1. CASE UNCHANGED agreed BY <2>1 DEF agreed
  <2>2. ASSUME NEW s \in Sessions, FinishCite(s) \/ FinishBill(s)
        PROVE  cited' \subseteq Revisions /\ billed' \in [WorkOrders -> Revisions \cup {None}]
    <3>1. tx[s].rev \in Revisions BY <2>2 DEF Inv, Carried, FinishCite, FinishBill
    <3> QED BY <2>2, <3>1 DEF FinishCite, FinishBill
  <2>3. ASSUME NEW w \in WorkOrders, VoidInvoice(w)
        PROVE  cited' \subseteq Revisions /\ billed' \in [WorkOrders -> Revisions \cup {None}]
    BY <2>3 DEF VoidInvoice
  <2> QED BY <2>1, <2>2, <2>3, Relying
<1>3. tx' \in [Sessions -> Transaction]
  <2>1. tx \in [Sessions -> Transaction] BY <1>0 DEF TypeOK, Transaction
  <2>2. Idle \in Transaction BY DEF Idle, Transaction, Kinds
  <2>3. ASSUME NEW s \in Sessions, BeginStep(s) PROVE tx' \in [Sessions -> Transaction]
    BY <2>1, <2>3, Beginning
  <2>4. ASSUME NEW s \in Sessions, NEW r \in Revisions, SweepOne(s, r)
        PROVE  tx' \in [Sessions -> Transaction]
    <3>1. revision[r].status # "none"
      BY <2>4 DEF Inv, Carried, SweepOne
    <3>2. revision[r].quo \in Quotations BY <3>1 DEF Inv, Shaped
    <3> DEFINE done == IF Expirable(r) THEN tx[s].done \cup {r} ELSE tx[s].done
               t == [tx[s] EXCEPT !.todo = @ \ {r}, !.done = done,
                                  !.locked = @ \cup {revision[r].quo}]
    <3>3. tx' = [tx EXCEPT ![s] = t] BY <2>1, <2>4 DEF SweepOne
    <3>4. done \in SUBSET Revisions BY <2>1 DEF Transaction
    <3> HIDE DEF done
    <3>5. t \in Transaction BY <2>1, <3>2, <3>4 DEF Transaction
    <3> HIDE DEF t
    <3> QED BY <2>1, <3>3, <3>5
  <2> QED BY <2>1, <2>2, <2>3, <2>4, Moves
<1> DEFINE
  Quo == [wo : WorkOrders \cup {None},
          status : {"none", "draft", "active", "accepted", "rejected", "expired"},
          current : Revisions \cup {None}]
  Rev == [quo : Quotations \cup {None},
          status : {"none", "draft", "issued", "superseded", "rejected", "expired"},
          lines : SUBSET Items]
  Typed == /\ quotation' \in [Quotations -> Quo]
           /\ revision' \in [Revisions -> Rev]
           /\ decision' \in [Revisions -> [Items -> {"none", "approved", "rejected"}]]
<1>4. Typed
  <2>0. /\ quotation \in [Quotations -> Quo] /\ revision \in [Revisions -> Rev]
        /\ decision \in [Revisions -> [Items -> {"none", "approved", "rejected"}]]
    BY <1>0 DEF TypeOK
  <2>1. CASE UNCHANGED data BY <2>0, <2>1 DEF data
  <2>2. ASSUME NEW s \in Sessions, NEW q \in Quotations, NEW r \in Revisions,
               NEW l \in SUBSET Items, FinishCreate(s, q, r, l)
        PROVE  Typed
    <3>1. tx[s].wo \in WorkOrders BY <2>2 DEF Inv, Carried, FinishCreate
    <3> QED BY <2>0, <2>2, <3>1 DEF FinishCreate, Draft
  <2>3. ASSUME NEW q \in Quotations, NEW r \in Revisions, NEW l \in SUBSET Items,
               Revise(q, r, l)
        PROVE  Typed
    BY <2>0, <2>3 DEF Revise, Draft
  <2>4. ASSUME NEW r \in Revisions, Issue(r) PROVE Typed
    <3>1. revision[r].quo \in Quotations BY <2>4 DEF Inv, Shaped, Issue
    <3> DEFINE q == revision[r].quo
               issued == [quotation[q] EXCEPT !.status = "active", !.current = r]
    <3>2. quotation' \in [Quotations -> Quo]
      <4>1. quotation' = [quotation EXCEPT ![q] = issued] BY <2>0, <2>4, <3>1 DEF Issue
      <4>2. quotation[q] \in Quo BY <2>0, <3>1
      <4>3. issued \in Quo BY <4>2
      <4> HIDE DEF issued, Quo, q
      <4> QED BY <2>0, <3>1, <4>1, <4>3
    <3>3. revision' \in [Revisions -> Rev]
      <4>1. revision' = Supersede(q, r) BY <2>4 DEF Issue
      <4>2. \A x \in Revisions : /\ [revision[x] EXCEPT !.status = "issued"] \in Rev
                                 /\ [revision[x] EXCEPT !.status = "superseded"] \in Rev
                                 /\ revision[x] \in Rev
        BY <2>0
      <4> HIDE DEF Rev
      <4> QED BY <4>1, <4>2 DEF Supersede
    <3> QED BY <2>0, <2>4, <3>2, <3>3 DEF Issue
  <2>5. ASSUME NEW s \in Sessions, FinishDecide(s) PROVE Typed
    <3> DEFINE d == tx[s].rev
               q == revision[d].quo
    <3>1. d \in Revisions /\ q \in Quotations BY <2>5, DecidedWhileActive
    <3>2. \/ quotation' = quotation
          \/ quotation' = [quotation EXCEPT ![q].status = "rejected"]
          \/ quotation' = [quotation EXCEPT ![q].status = "accepted"]
      BY <2>5 DEF FinishDecide, RollUp
    <3>3. revision' = revision \/ revision' = [revision EXCEPT ![d].status = "rejected"]
      BY <2>5 DEF FinishDecide
    <3>4. tx[s].answer \in {"none", "approved", "rejected"} BY <1>0 DEF TypeOK
    <3>5. decision' \in [Revisions -> [Items -> {"none", "approved", "rejected"}]]
      BY <2>0, <2>5, <3>1, <3>4 DEF FinishDecide, Decided
    <3> HIDE DEF d, q
    <3>6. quotation' \in [Quotations -> Quo]
      <4>1. CASE quotation' = quotation BY <2>0, <4>1
      <4>2. CASE quotation' = [quotation EXCEPT ![q].status = "rejected"]
        BY <2>0, <3>1, <4>2
      <4>3. CASE quotation' = [quotation EXCEPT ![q].status = "accepted"]
        BY <2>0, <3>1, <4>3
      <4> QED BY <3>2, <4>1, <4>2, <4>3
    <3>7. revision' \in [Revisions -> Rev]
      <4>1. CASE revision' = revision BY <2>0, <4>1
      <4>2. CASE revision' = [revision EXCEPT ![d].status = "rejected"]
        BY <2>0, <3>1, <4>2
      <4> QED BY <3>3, <4>1, <4>2
    <3> QED BY <3>5, <3>6, <3>7
  <2>6. ASSUME NEW s \in Sessions, CommitSweep(s) PROVE Typed
    <3>1. quotation' \in [Quotations -> Quo]
      <4>1. \A x \in Quo : [x EXCEPT !.status = "expired"] \in Quo OBVIOUS
      <4> HIDE DEF Quo
      <4> QED BY <2>0, <2>6, <4>1 DEF CommitSweep
    <3>2. revision' \in [Revisions -> Rev] BY <2>0, <2>6 DEF CommitSweep
    <3> QED BY <2>0, <2>6, <3>1, <3>2 DEF CommitSweep
  <2> HIDE DEF Typed
  <2> QED BY <2>1, <2>2, <2>3, <2>4, <2>5, <2>6, Writers
<1> QED BY <1>1, <1>2, <1>3, <1>4 DEF TypeOK, Transaction

-----------------------------------------------------------------------------
(* The parts of the invariant.                                             *)

\* A decision is added only where there was none, to the revision being decided.
LEMMA DecisionsAdded ==
  ASSUME Inv, Next
  PROVE  \A r \in Revisions :
           \/ decision'[r] = decision[r]
           \/ /\ revision[r].status = "issued"
              /\ \A i \in Items : decision[r][i] # "none" => decision'[r][i] = decision[r][i]
<1> DEFINE Added == \A r \in Revisions :
           \/ decision'[r] = decision[r]
           \/ /\ revision[r].status = "issued"
              /\ \A i \in Items : decision[r][i] # "none" => decision'[r][i] = decision[r][i]
<1> SUFFICES Added OBVIOUS
<1>1. CASE UNCHANGED decision BY <1>1
<1>2. ASSUME NEW s \in Sessions, FinishDecide(s) PROVE Added
  <2>1. tx[s].rev \in Revisions /\ revision[tx[s].rev].status = "issued"
    BY <1>2, DecidedWhileActive
  <2>2. decision' = Decided(tx[s]) BY <1>2 DEF FinishDecide
  <2> QED BY <2>1, <2>2 DEF Inv, TypeOK, Decided, Undecided
<1> HIDE DEF Added
<1>3. UNCHANGED decision \/ \E s \in Sessions : FinishDecide(s)
  BY Writers DEF data, FinishCreate, Revise, Issue, CommitSweep
<1> QED BY <1>1, <1>2, <1>3

\* The status of a revision is written by one step at a time: a draft is inserted, a
\* draft is issued, an issued one ends.
LEMMA StatusSteps ==
  ASSUME Inv, Next, NEW r \in Revisions
  PROVE  \/ revision'[r].status = revision[r].status
         \/ /\ revision[r].status = "none" /\ revision'[r].status = "draft"
            /\ revision'[r].quo \in Quotations
            /\ quotation'[revision'[r].quo].status # "none"
         \/ revision[r].status = "draft" /\ revision'[r].status = "issued"
         \/ /\ revision[r].status = "issued"
            /\ revision'[r].status \in {"superseded", "rejected", "expired"}
<1> DEFINE Steps ==
         \/ revision'[r].status = revision[r].status
         \/ /\ revision[r].status = "none" /\ revision'[r].status = "draft"
            /\ revision'[r].quo \in Quotations
            /\ quotation'[revision'[r].quo].status # "none"
         \/ revision[r].status = "draft" /\ revision'[r].status = "issued"
         \/ /\ revision[r].status = "issued"
            /\ revision'[r].status \in {"superseded", "rejected", "expired"}
<1> SUFFICES Steps OBVIOUS
<1>0. revision \in [Revisions -> [quo : Quotations \cup {None},
        status : {"none", "draft", "issued", "superseded", "rejected", "expired"},
        lines : SUBSET Items]]
  BY DEF Inv, TypeOK
<1>1. CASE UNCHANGED data BY <1>1 DEF data
<1>2. ASSUME NEW s \in Sessions, NEW q \in Quotations, NEW x \in Revisions,
             NEW l \in SUBSET Items, FinishCreate(s, q, x, l)
      PROVE  Steps
  <2>1. quotation'[q].status = "draft" BY <1>2 DEF FinishCreate, Inv, TypeOK
  <2>2. revision' = [revision EXCEPT ![x] = [quo |-> q, status |-> "draft", lines |-> l]]
        /\ revision[x].status = "none"
    BY <1>2 DEF FinishCreate, Draft
  <2> QED BY <1>0, <2>1, <2>2
<1>3. ASSUME NEW q \in Quotations, NEW x \in Revisions, NEW l \in SUBSET Items,
             Revise(q, x, l)
      PROVE  Steps
  <2>1. quotation'[q].status # "none" BY <1>3 DEF Revise, Open
  <2>2. revision' = [revision EXCEPT ![x] = [quo |-> q, status |-> "draft", lines |-> l]]
        /\ revision[x].status = "none"
    BY <1>3 DEF Revise, Draft
  <2> QED BY <1>0, <2>1, <2>2
<1>4. ASSUME NEW x \in Revisions, Issue(x) PROVE Steps
  BY <1>0, <1>4 DEF Issue, Supersede
<1>5. ASSUME NEW s \in Sessions, FinishDecide(s) PROVE Steps
  <2> DEFINE d == tx[s].rev
  <2>1. d \in Revisions /\ revision[d].status = "issued" BY <1>5, DecidedWhileActive
  <2>2. revision' = revision \/ revision' = [revision EXCEPT ![d].status = "rejected"]
    BY <1>5 DEF FinishDecide
  <2> HIDE DEF d
  <2> QED BY <1>0, <2>1, <2>2
<1>6. ASSUME NEW s \in Sessions, CommitSweep(s) PROVE Steps
  <2>1. \A x \in tx[s].done : revision[x].status = "issued" BY SweptWhileActive
  <2> QED BY <1>0, <1>6, <2>1 DEF CommitSweep
<1> HIDE DEF Steps
<1> QED BY <1>1, <1>2, <1>3, <1>4, <1>5, <1>6, Writers

\* ... the references between quotations, revisions and lines ...
LEMMA ShapedStep == ASSUME Inv, Next PROVE Shaped'
<1> SUFFICES ASSUME NEW r \in Revisions
             PROVE  /\ revision'[r].status # "none" =>
                         /\ revision'[r].quo \in Quotations
                         /\ quotation'[revision'[r].quo].status # "none"
                    /\ revision'[r].status \in {"none", "draft"} =>
                         \A i \in Items : decision'[r][i] = "none"
  BY DEF Shaped
<1>1. /\ revision[r].status # "none" =>
           revision[r].quo \in Quotations /\ quotation[revision[r].quo].status # "none"
      /\ revision[r].status \in {"none", "draft"} => \A i \in Items : decision[r][i] = "none"
  BY DEF Inv, Shaped
<1>2. decision'[r] = decision[r] \/ revision[r].status = "issued" BY DecisionsAdded
<1> QED BY <1>1, <1>2, RowsLast, StatusSteps

\* ... what open transactions rely on ...
LEMMA CarriedStep == ASSUME Inv, Next PROVE Carried'
<1> DEFINE
    Reliable(r) == /\ revision'[r].status = "issued"
                   /\ quotation'[revision'[r].quo].status = "accepted"
                   /\ quotation'[revision'[r].quo].current = r
    Knows(t) ==
      /\ t.kind \in {"create", "cite", "bill"} => t.wo \in WorkOrders
      /\ t.kind \in {"decide", "cite", "bill"} => t.rev \in Revisions
      /\ t.kind = "decide" => /\ revision'[t.rev].status # "none"
                              /\ t.items \subseteq revision'[t.rev].lines
      /\ t.kind = "bill" => /\ Reliable(t.rev)
                            /\ quotation'[revision'[t.rev].quo].wo = t.wo
      /\ \A r \in t.todo : revision'[r].status # "none"
<1>0. tx \in [Sessions -> Transaction] BY DEF Inv, TypeOK, Transaction
<1>1. ASSUME NEW s \in Sessions PROVE Knows(tx[s])
  <2>1. tx[s].todo \subseteq Revisions BY <1>0 DEF Transaction
  <2>2. ASSUME tx[s].kind = "bill"
        PROVE  Reliable(tx[s].rev) /\ quotation'[revision'[tx[s].rev].quo].wo = tx[s].wo
    <3>1. /\ tx[s].rev \in Revisions /\ Accepted(tx[s].rev)
          /\ quotation[revision[tx[s].rev].quo].wo = tx[s].wo
      BY <2>2 DEF Inv, Carried
    <3>2. \A r \in Revisions : Accepted(r) =>
            Reliable(r) /\ quotation'[revision'[r].quo].wo = quotation[revision[r].quo].wo
      BY ReliableLasts DEF Accepted
    <3> QED BY <3>1, <3>2
  <2> QED BY <2>1, <2>2, RowsLast DEF Inv, Carried
<1>2. Knows(Idle) BY DEF Idle
<1>3. ASSUME NEW s \in Sessions, BeginStep(s), UNCHANGED data
      PROVE  \A u \in Sessions : Knows(tx'[u])
  <2>1. PICK t \in Transaction :
           /\ tx' = [tx EXCEPT ![s] = t]
           /\ t.kind \in {"create", "cite", "bill"} => t.wo \in WorkOrders
           /\ t.kind \in {"decide", "cite", "bill"} => t.rev \in Revisions
           /\ t.kind = "decide" => /\ revision[t.rev].status # "none"
                                   /\ t.items \subseteq revision[t.rev].lines
           /\ t.kind = "bill" => Sources(t.wo) = {t.rev}
           /\ \A r \in t.todo : revision[r].status # "none"
    BY <1>3, Beginning
  <2>2. ASSUME t.kind = "bill"
        PROVE  Accepted(t.rev) /\ quotation[revision[t.rev].quo].wo = t.wo
    <3>1. t.rev \in Sources(t.wo) BY <2>1, <2>2
    <3>2. /\ t.rev \in Revisions /\ revision[t.rev].status = "issued"
          /\ quotation[revision[t.rev].quo].current = t.rev
          /\ quotation[revision[t.rev].quo].wo = t.wo /\ Outcome(t.rev) = "accepted"
      BY <3>1 DEF Sources, Current
    <3>3. revision[t.rev].quo \in Quotations BY <3>2 DEF Inv, Shaped
    <3> QED BY <3>2, <3>3, OutcomeStands DEF Accepted
  <2>3. Knows(t) BY <1>3, <2>1, <2>2 DEF data, Accepted
  <2> HIDE DEF Knows
  <2> QED BY <1>0, <1>1, <2>1, <2>3
<1>4. ASSUME NEW s \in Sessions, NEW r \in Revisions, SweepOne(s, r)
      PROVE  \A u \in Sessions : Knows(tx'[u])
  <2>1. \A u \in Sessions : /\ u # s => tx'[u] = tx[u]
                            /\ tx'[u].kind = tx[u].kind /\ tx'[u].wo = tx[u].wo
                            /\ tx'[u].rev = tx[u].rev /\ tx'[u].items = tx[u].items
                            /\ \A x \in tx'[u].todo : x \in tx[u].todo
    BY <1>0, <1>4 DEF SweepOne, Transaction
  <2> QED BY <1>1, <2>1
<1>5. ASSUME NEW s \in Sessions, tx' = [tx EXCEPT ![s] = Idle]
      PROVE  \A u \in Sessions : Knows(tx'[u])
  <2> HIDE DEF Knows
  <2> QED BY <1>0, <1>1, <1>2, <1>5
<1>6. \A u \in Sessions : Knows(tx'[u])
  <2> HIDE DEF Knows
  <2> QED BY <1>1, <1>3, <1>4, <1>5, Moves
<1> QED BY <1>6 DEF Carried, Accepted

\* What a sweep has behind it, nobody else can write.
LEMMA HeldLasts ==
  ASSUME Inv, Next, NEW u \in Sessions, NEW r \in tx[u].done, r \in tx'[u].done
  PROVE  revision'[r] = revision[r] /\ quotation'[revision[r].quo] = quotation[revision[r].quo]
<1> DEFINE q == revision[r].quo
           Same == revision'[r] = revision[r] /\ quotation'[q] = quotation[q]
<1>1. /\ r \in Revisions /\ q \in Quotations /\ q \in tx[u].locked
      /\ revision[r].status = "issued" /\ quotation[q].status = "active"
  BY SweptWhileActive
<1> HIDE DEF q
<1> SUFFICES Same BY DEF q
<1>0. /\ \A x \in Quotations : Unlocked(x) => x # q
      /\ revision[r].quo = q
  BY <1>1 DEF Unlocked, q
<1> USE DEF Inv, TypeOK
<1>2. CASE UNCHANGED data BY <1>2 DEF data
<1>3. ASSUME NEW s \in Sessions, NEW x \in Quotations, NEW y \in Revisions,
             NEW l \in SUBSET Items, FinishCreate(s, x, y, l)
      PROVE  Same
  BY <1>1, <1>3 DEF FinishCreate, Draft
<1>4. ASSUME NEW x \in Quotations, NEW y \in Revisions, NEW l \in SUBSET Items,
             Revise(x, y, l)
      PROVE  Same
  BY <1>1, <1>4 DEF Revise, Draft
<1>5. ASSUME NEW y \in Revisions, Issue(y) PROVE Same
  <2>1. revision[y].quo \in Quotations BY <1>5 DEF Shaped, Issue
  <2>2. revision[y].quo # q /\ y # r BY <1>0, <1>5, <2>1 DEF Issue
  <2> QED BY <1>0, <1>1, <1>5, <2>2 DEF Issue, Supersede
<1>6. ASSUME NEW s \in Sessions, FinishDecide(s) PROVE Same
  <2>1. revision[tx[s].rev].quo # q /\ tx[s].rev # r BY <1>0, <1>6, DecidedWhileActive
  <2> QED BY <1>1, <1>6, <2>1 DEF FinishDecide
<1>7. ASSUME NEW s \in Sessions, CommitSweep(s) PROVE Same
  <2>1. s # u BY <1>7 DEF CommitSweep, End, Idle
  <2>2. \A x \in tx[s].done : revision[x].quo \in tx[s].locked BY DEF Locked
  <2>3. \A x \in tx[s].done : revision[x].quo # q /\ x # r
    BY <1>0, <1>1, <2>1, <2>2 DEF Locked
  <2> QED BY <1>1, <1>7, <2>3 DEF CommitSweep
<1> HIDE DEF Inv, TypeOK, Same
<1> QED BY <1>2, <1>3, <1>4, <1>5, <1>6, <1>7, Writers

\* ... the locks they hold ...
LEMMA LockedStep == ASSUME Inv, Next PROVE Locked'
<1>0. tx \in [Sessions -> Transaction] BY DEF Inv, TypeOK, Transaction
<1>1. /\ \A s, u \in Sessions : s # u => tx[s].locked \cap tx[u].locked = {}
      /\ \A s \in Sessions : \A r \in tx[s].done : revision[r].quo \in tx[s].locked
  BY DEF Inv, Locked
<1>2. ASSUME NEW s \in Sessions, BeginStep(s) \/ tx' = [tx EXCEPT ![s] = Idle]
      PROVE  \A u \in Sessions : \/ tx'[u].done = {} /\ tx'[u].locked = {}
                                 \/ /\ tx'[u].done = tx[u].done
                                    /\ tx'[u].locked = tx[u].locked
  <2>1. PICK t : tx' = [tx EXCEPT ![s] = t] /\ t.done = {} /\ t.locked = {}
    <3>1. CASE BeginStep(s) BY <3>1, Beginning
    <3>2. CASE tx' = [tx EXCEPT ![s] = Idle]
      <4>1. Idle.done = {} /\ Idle.locked = {} BY DEF Idle
      <4> QED BY <3>2, <4>1
    <3> QED BY <1>2, <3>1, <3>2
  <2> QED BY <1>0, <2>1
<1>3. ASSUME \A u \in Sessions : \/ tx'[u].done = {} /\ tx'[u].locked = {}
                                 \/ /\ tx'[u].done = tx[u].done
                                    /\ tx'[u].locked = tx[u].locked
      PROVE  Locked'
  <2>1. \A s, u \in Sessions : s # u => tx'[s].locked \cap tx'[u].locked = {}
    BY <1>1, <1>3
  <2>2. ASSUME NEW u \in Sessions, NEW r \in tx'[u].done
        PROVE  Expirable(r)' /\ revision'[r].quo \in tx'[u].locked
    <3>1. r \in tx[u].done /\ tx'[u].locked = tx[u].locked BY <1>3, <2>2
    <3>2. revision'[r] = revision[r] /\ quotation'[revision[r].quo] = quotation[revision[r].quo]
      BY <2>2, <3>1, HeldLasts
    <3> QED BY <1>1, <3>1, <3>2 DEF Inv, Locked, Expirable
  <2> QED BY <2>1, <2>2 DEF Locked
<1>4. ASSUME NEW s \in Sessions, NEW r \in Revisions, SweepOne(s, r), UNCHANGED data
      PROVE  Locked'
  <2> DEFINE q == revision[r].quo
  <2>1. /\ tx'[s].locked = tx[s].locked \cup {q}
        /\ \A x \in tx'[s].done : x \in tx[s].done \/ (x = r /\ Expirable(r))
        /\ \A u \in Sessions \ {s} : tx'[u] = tx[u]
    BY <1>0, <1>4 DEF SweepOne, Transaction
  <2>2. \A u \in Sessions \ {s} : q \notin tx[u].locked BY <1>4 DEF SweepOne, Free
  <2>3. \A v, u \in Sessions : v # u => tx'[v].locked \cap tx'[u].locked = {}
    BY <1>1, <2>1, <2>2
  <2>4. ASSUME NEW u \in Sessions, NEW x \in tx'[u].done
        PROVE  Expirable(x)' /\ revision'[x].quo \in tx'[u].locked
    <3>1. x \in tx[u].done \/ (u = s /\ x = r /\ Expirable(r)) BY <2>1, <2>4
    <3>2. Expirable(x) /\ revision[x].quo \in tx'[u].locked
      BY <1>1, <2>1, <3>1 DEF Inv, Locked
    <3> QED BY <1>4, <3>2 DEF Expirable, data
  <2> QED BY <2>3, <2>4 DEF Locked
<1>5. CASE UNCHANGED tx BY <1>3, <1>5
<1> QED BY <1>2, <1>3, <1>4, <1>5, Moves

\* Outcomes change with decisions or when a row is inserted.
LEMMA SameOutcome ==
  ASSUME NEW r \in Revisions, revision'[r].lines = revision[r].lines,
         decision'[r] = decision[r]
  PROVE  Outcome(r)' = Outcome(r)
BY DEF Outcome, Answers

\* A step that writes none of a quotation's rows leaves its standing.
LEMMA StandingLasts ==
  ASSUME Inv, NEW q \in Quotations, quotation'[q] = quotation[q],
         \A r \in Revisions : revision[r].quo = q /\ revision[r].status # "none" =>
           revision'[r] = revision[r] /\ decision'[r] = decision[r]
  PROVE  Standing(q)'
<1> DEFINE c == quotation[q].current
<1>1. Standing(q) BY DEF Inv, StandingAgrees
<1>2. ASSUME c \in Revisions, revision[c].quo = q, revision[c].status # "none"
      PROVE  revision'[c] = revision[c] /\ Outcome(c)' = Outcome(c)
  BY <1>2, SameOutcome
<1> QED BY <1>1, <1>2 DEF Standing

\* What is not current is a draft, or was superseded before it was settled.
Past(r) == \/ revision[r].status = "draft"
           \/ revision[r].status = "superseded" /\ Outcome(r) = "undecided"

\* A superseded revision whose rows stay is still one.
LEMMA PastLasts ==
  ASSUME NEW r \in Revisions, Past(r), revision'[r] = revision[r],
         revision[r].status = "superseded" => decision'[r] = decision[r]
  PROVE  Past(r)'
BY SameOutcome DEF Past

\* While no table is written, every status still follows from the decisions ...
LEMMA StandingSame == ASSUME Inv, UNCHANGED data PROVE StandingAgrees'
<1>1. \A q \in Quotations : Standing(q)' BY StandingLasts DEF data, Inv, StandingAgrees
<1>2. \A r \in Revisions : Past(r) => Past(r)' BY PastLasts DEF data
<1> QED BY <1>1, <1>2 DEF Inv, StandingAgrees, Past, data

\* ... and so it does after every step.
LEMMA StandingStep == ASSUME Inv, Next PROVE StandingAgrees'
<1>0. /\ \A q \in Quotations : Standing(q)
      /\ \A r \in Revisions : revision[r].status # "none"
            /\ quotation[revision[r].quo].current # r => Past(r)
      /\ \A r \in Revisions : revision[r].status # "none" => revision[r].quo \in Quotations
  BY DEF Inv, StandingAgrees, Past, Shaped
<1>t. /\ quotation \in [Quotations -> [wo : WorkOrders \cup {None},
            status : {"none", "draft", "active", "accepted", "rejected", "expired"},
            current : Revisions \cup {None}]]
      /\ revision \in [Revisions -> [quo : Quotations \cup {None},
            status : {"none", "draft", "issued", "superseded", "rejected", "expired"},
            lines : SUBSET Items]]
      /\ decision \in [Revisions -> [Items -> {"none", "approved", "rejected"}]]
  BY DEF Inv, TypeOK
<1>1. CASE UNCHANGED data BY <1>1, StandingSame
<1>2. ASSUME NEW s \in Sessions, NEW q \in Quotations, NEW x \in Revisions,
             NEW l \in SUBSET Items, FinishCreate(s, q, x, l)
      PROVE  StandingAgrees'
  <2>1. /\ quotation[q].status = "none" /\ decision' = decision
        /\ quotation' = [quotation EXCEPT ![q] = [wo |-> tx[s].wo, status |-> "draft",
                                                  current |-> None]]
        /\ revision[x].status = "none"
        /\ revision' = [revision EXCEPT ![x] = [quo |-> q, status |-> "draft", lines |-> l]]
    BY <1>2 DEF FinishCreate, Draft
  <2>2. \A p \in Quotations \ {q} : Standing(p)' BY <1>t, <2>1, StandingLasts
  <2>3. Standing(q)' BY <1>t, <2>1 DEF Standing
  <2>4. \A r \in Revisions : revision[r].status # "none" => revision[r].quo # q
    BY <2>1 DEF Inv, Shaped
  <2>5. ASSUME NEW r \in Revisions, revision'[r].status # "none",
               quotation'[revision'[r].quo].current # r
        PROVE  Past(r)'
    <3>1. CASE r = x BY <1>t, <2>1, <3>1 DEF Past
    <3>2. CASE r # x BY <1>0, <1>t, <2>1, <2>4, <2>5, <3>2, PastLasts
    <3> QED BY <3>1, <3>2
  <2> QED BY <2>2, <2>3, <2>5 DEF StandingAgrees, Past
<1>3. ASSUME NEW q \in Quotations, NEW x \in Revisions, NEW l \in SUBSET Items,
             Revise(q, x, l)
      PROVE  StandingAgrees'
  <2>1. /\ quotation' = quotation /\ decision' = decision
        /\ revision[x].status = "none"
        /\ revision' = [revision EXCEPT ![x] = [quo |-> q, status |-> "draft", lines |-> l]]
    BY <1>3 DEF Revise, Draft
  <2>2. \A p \in Quotations : Standing(p)' BY <1>t, <2>1, StandingLasts
  <2>5. ASSUME NEW r \in Revisions, revision'[r].status # "none",
               quotation'[revision'[r].quo].current # r
        PROVE  Past(r)'
    <3>1. CASE r = x BY <1>t, <2>1, <3>1 DEF Past
    <3>2. CASE r # x BY <1>0, <1>t, <2>1, <2>5, <3>2, PastLasts
    <3> QED BY <3>1, <3>2
  <2> QED BY <2>2, <2>5 DEF StandingAgrees, Past
<1>4. ASSUME NEW x \in Revisions, Issue(x) PROVE StandingAgrees'
  <2>c. PICK q \in Quotations : revision[x].quo = q BY <1>4 DEF Issue, Inv, Shaped
  <2>0. revision[x].status = "draft" BY <1>4 DEF Issue
  <2>a. quotation[q].status \in {"draft", "active"} BY <1>4, <2>c DEF Issue, Open
  <2>1. /\ decision' = decision
        /\ quotation' = [quotation EXCEPT ![q].status = "active", ![q].current = x]
        /\ \A r \in Revisions : revision'[r] =
             IF r = x THEN [revision[x] EXCEPT !.status = "issued"]
             ELSE IF revision[r].quo = q /\ revision[r].status = "issued"
                  THEN [revision[r] EXCEPT !.status = "superseded"] ELSE revision[r]
    BY <1>4, <2>c DEF Issue, Supersede
  <2>b. /\ quotation'[q].status = "active" /\ quotation'[q].current = x
        /\ \A p \in Quotations \ {q} : quotation'[p] = quotation[p]
    BY <1>t, <2>0, <2>1
  <2>d. revision'[x].quo = q /\ revision'[x].status = "issued" BY <1>t, <2>1, <2>c
  <2>2. \A p \in Quotations \ {q} : Standing(p)' BY <1>t, <2>1, <2>b, <2>c, StandingLasts
  <2>3. Standing(q)'
    <3>1. \A i \in Items : decision[x][i] = "none" BY <2>0 DEF Inv, Shaped
    <3>2. Outcome(x)' = "undecided"
      <4>1. Answers(x)' \subseteq {"none"}
        BY <1>t, <2>1, <3>1 DEF Answers
      <4> QED BY <4>1 DEF Outcome, RollUp
    <3> QED BY <2>b, <2>d, <3>2 DEF Standing, Outcome, Answers
  <2>5. ASSUME NEW r \in Revisions, revision'[r].status # "none",
               quotation'[revision'[r].quo].current # r
        PROVE  Past(r)'
    <3>0. r # x BY <2>b, <2>d, <2>5
    <3>1. CASE revision[r].quo = q /\ revision[r].status = "issued"
      <4>1. Outcome(r) = "undecided"
        <5>1. quotation[q].current = r BY <1>0, <3>1 DEF Past
        <5> QED BY <1>0, <2>0, <2>a, <3>1, <5>1, NoneAssumption DEF Standing
      <4>2. revision'[r].status = "superseded" /\ revision'[r].lines = revision[r].lines
        BY <1>t, <2>1, <3>0, <3>1
      <4> QED BY <2>1, <4>1, <4>2, SameOutcome DEF Past
    <3>2. CASE ~(revision[r].quo = q /\ revision[r].status = "issued")
      <4>1. revision'[r] = revision[r] BY <2>1, <3>0, <3>2
      <4>2. Past(r)
        <5>1. CASE revision[r].quo # q BY <1>0, <2>5, <2>b, <4>1, <5>1
        <5>2. CASE revision[r].quo = q
          <6>1. CASE quotation[q].current # r BY <1>0, <2>5, <4>1, <5>2, <6>1
          <6>2. CASE quotation[q].current = r
            BY <1>0, <2>0, <2>a, <3>2, <5>2, <6>2, NoneAssumption DEF Standing
          <6> QED BY <6>1, <6>2
        <5> QED BY <5>1, <5>2
      <4> QED BY <2>1, <4>1, <4>2, PastLasts
    <3> QED BY <3>1, <3>2
  <2>6. \A p \in Quotations : Standing(p)' BY <2>2, <2>3
  <2> QED BY <2>5, <2>6 DEF StandingAgrees, Past
<1>5. ASSUME NEW s \in Sessions, FinishDecide(s) PROVE StandingAgrees'
  <2>a. PICK d \in Revisions, q \in Quotations : tx[s].rev = d /\ revision[d].quo = q
    BY <1>5, DecidedWhileActive
  <2>b. /\ revision[d].status = "issued" /\ quotation[q].current = d
        /\ quotation[q].status = "active"
    BY <1>5, <2>a, DecidedWhileActive
  <2> DEFINE outcome == RollUp({decision'[d][i] : i \in revision[d].lines})
  <2>1. /\ \A r \in Revisions \ {d} : decision'[r] = decision[r]
        /\ quotation' = IF outcome = "undecided" THEN quotation
                        ELSE [quotation EXCEPT ![q].status = outcome]
        /\ revision' = IF outcome # "rejected" THEN revision
                       ELSE [revision EXCEPT ![d].status = "rejected"]
    BY <1>5, <2>a, <1>t DEF FinishDecide, Decided
  <2>2. /\ revision'[d].lines = revision[d].lines /\ revision'[d].quo = q
        /\ revision'[d].status = IF outcome = "rejected" THEN "rejected" ELSE "issued"
        /\ \A r \in Revisions \ {d} : revision'[r] = revision[r]
    <3> HIDE DEF outcome
    <3> QED BY <1>t, <2>a, <2>b, <2>1
  <2>3. /\ quotation'[q].current = d
        /\ quotation'[q].status = IF outcome = "undecided" THEN "active" ELSE outcome
        /\ \A p \in Quotations \ {q} : quotation'[p] = quotation[p]
    <3> HIDE DEF outcome
    <3> QED BY <1>t, <2>b, <2>1
  <2>4. Outcome(d)' = outcome BY <2>2 DEF Outcome, Answers
  <2>5. outcome \in {"undecided", "accepted", "rejected"} BY DEF RollUp
  <2>6. Standing(q)'
    <3> HIDE DEF outcome
    <3>1. /\ revision'[quotation'[q].current].status = revision'[d].status
          /\ Outcome(quotation[q].current)' = outcome
      BY <2>3, <2>4, <2>b DEF Outcome, Answers
    <3> QED BY <2>2, <2>3, <2>4, <2>5, <3>1 DEF Standing, Outcome, Answers
  <2>7. \A p \in Quotations \ {q} : Standing(p)' BY <2>a, <2>1, <2>2, <2>3, StandingLasts
  <2>8. \A p \in Quotations : Standing(p)' BY <2>6, <2>7
  <2>9. ASSUME NEW r \in Revisions, revision'[r].status # "none",
               quotation'[revision'[r].quo].current # r
        PROVE  Past(r)'
    <3>1. r # d BY <2>2, <2>3, <2>9
    <3>2. revision'[r] = revision[r] /\ decision'[r] = decision[r] BY <2>1, <2>2, <3>1
    <3>3. revision[r].quo \in Quotations BY <1>0, <2>9, <3>2
    <3>4. quotation[revision[r].quo].current # r BY <2>b, <2>3, <2>9, <3>2, <3>3
    <3> QED BY <1>0, <2>9, <3>2, <3>4, PastLasts
  <2> QED BY <2>8, <2>9 DEF StandingAgrees, Past
<1>6. ASSUME NEW s \in Sessions, CommitSweep(s) PROVE StandingAgrees'
  <2> DEFINE done == tx[s].done
  <2>1. /\ decision' = decision
        /\ \A r \in Revisions : revision'[r] =
             IF r \in done THEN [revision[r] EXCEPT !.status = "expired"] ELSE revision[r]
        /\ \A q \in Quotations : quotation'[q] =
             IF \E r \in done : revision[r].quo = q THEN [quotation[q] EXCEPT !.status = "expired"]
             ELSE quotation[q]
    BY <1>6 DEF CommitSweep
  <2>2. \A r \in done :
          /\ r \in Revisions /\ revision[r].quo \in Quotations
          /\ revision[r].status = "issued" /\ quotation[revision[r].quo].current = r
          /\ quotation[revision[r].quo].status = "active"
    BY SweptWhileActive
  <2> HIDE DEF done
  <2>3. ASSUME NEW r \in Revisions
        PROVE  /\ revision'[r].quo = revision[r].quo /\ revision'[r].lines = revision[r].lines
               /\ r \in done => revision'[r].status = "expired"
    <3>1. revision[r] \in [quo : Quotations \cup {None},
            status : {"none", "draft", "issued", "superseded", "rejected", "expired"},
            lines : SUBSET Items]
      BY <1>t
    <3>2. CASE r \in done
      <4>1. revision'[r] = [revision[r] EXCEPT !.status = "expired"] BY <2>1, <3>2
      <4> QED BY <3>1, <4>1
    <3>3. CASE r \notin done
      <4>1. revision'[r] = revision[r] BY <2>1, <3>3
      <4> QED BY <3>3, <4>1
    <3> QED BY <3>2, <3>3
  <2>4. ASSUME NEW q \in Quotations
        PROVE  /\ quotation'[q].current = quotation[q].current
               /\ (\E r \in done : revision[r].quo = q) => quotation'[q].status = "expired"
    <3>1. quotation[q] \in [wo : WorkOrders \cup {None},
            status : {"none", "draft", "active", "accepted", "rejected", "expired"},
            current : Revisions \cup {None}]
      BY <1>t
    <3>2. CASE \E r \in done : revision[r].quo = q
      <4>1. quotation'[q] = [quotation[q] EXCEPT !.status = "expired"] BY <2>1, <3>2
      <4> QED BY <3>1, <4>1
    <3>3. CASE ~ \E r \in done : revision[r].quo = q
      <4>1. quotation'[q] = quotation[q] BY <2>1, <3>3
      <4> QED BY <3>3, <4>1
    <3> QED BY <3>2, <3>3
  <2>5. ASSUME NEW q \in Quotations PROVE Standing(q)'
    <3>1. CASE \E r \in done : revision[r].quo = q
      <4>1. PICK r \in done : revision[r].quo = q BY <3>1
      <4>2. /\ r \in Revisions /\ quotation[q].current = r /\ quotation[q].status = "active"
        BY <2>2, <4>1
      <4>3. Outcome(r) = "undecided" BY <1>0, <4>2 DEF Standing
      <4>4. quotation'[q].status = "expired" /\ quotation'[q].current = r
        BY <2>4, <3>1, <4>2
      <4>5. revision'[r].status = "expired" /\ revision'[r].quo = q BY <2>3, <4>1, <4>2
      <4>6. Outcome(r)' = "undecided" BY <2>1, <2>3, <4>2, <4>3, SameOutcome
      <4> QED BY <4>2, <4>4, <4>5, <4>6 DEF Standing, Outcome, Answers
    <3>2. CASE ~ \E r \in done : revision[r].quo = q
      BY <2>1, <3>2, StandingLasts
    <3> QED BY <3>1, <3>2
  <2>6. ASSUME NEW r \in Revisions, revision'[r].status # "none",
               quotation'[revision'[r].quo].current # r
        PROVE  Past(r)'
    <3>1. revision[r].status # "none"
      BY <2>1, <2>2, <2>6
    <3>2. quotation[revision[r].quo].current # r BY <1>0, <2>3, <2>4, <2>6, <3>1
    <3>3. r \notin done BY <2>2, <3>2
    <3> QED BY <1>0, <2>1, <3>1, <3>2, <3>3, PastLasts
  <2> QED BY <2>5, <2>6 DEF StandingAgrees, Past
<1> QED BY <1>1, <1>2, <1>3, <1>4, <1>5, <1>6, Writers

\* What a work order or a bill relies on stays accepted.
LEMMA ReliedStep == ASSUME Inv, Next PROVE ReliedOnAccepted'
<1> DEFINE Good(r) == /\ r \in Revisions
                      /\ revision'[r].status = "issued"
                      /\ quotation'[revision'[r].quo].status = "accepted"
                      /\ quotation'[revision'[r].quo].current = r
           Relied == /\ \A r \in cited' : Good(r)
                     /\ \A w \in WorkOrders : billed'[w] # None =>
                          Good(billed'[w]) /\ quotation'[revision'[billed'[w]].quo].wo = w
<1>0. /\ cited \subseteq Revisions /\ billed \in [WorkOrders -> Revisions \cup {None}]
      /\ \A r \in cited : Accepted(r)
      /\ \A w \in WorkOrders : billed[w] # None =>
           Accepted(billed[w]) /\ quotation[revision[billed[w]].quo].wo = w
  BY DEF Inv, TypeOK, ReliedOnAccepted
<1>1. \A r \in Revisions : Accepted(r) =>
        Good(r) /\ quotation'[revision'[r].quo].wo = quotation[revision[r].quo].wo
  BY ReliableLasts DEF Accepted
<1> HIDE DEF Good
<1>2. ASSUME UNCHANGED agreed PROVE Relied
  <2>1. cited' = cited /\ billed' = billed BY <1>2 DEF agreed
  <2> QED BY <1>0, <1>1, <2>1
<1>3. ASSUME NEW s \in Sessions, FinishCite(s) PROVE Relied
  <2>1. PICK r : r = tx[s].rev OBVIOUS
  <2>2. r \in Revisions BY <1>3, <2>1 DEF FinishCite, Inv, Carried
  <2>3. /\ revision[r].status = "issued" /\ quotation[revision[r].quo].current = r
        /\ Outcome(r) = "accepted"
    BY <1>3, <2>1 DEF FinishCite, Decidable, Current
  <2>4. revision[r].quo \in Quotations BY <2>2, <2>3 DEF Inv, Shaped
  <2>5. Accepted(r) BY <2>2, <2>3, <2>4, OutcomeStands DEF Accepted
  <2>6. cited' = cited \cup {r} /\ billed' = billed BY <1>3, <2>1 DEF FinishCite
  <2> QED BY <1>0, <1>1, <2>2, <2>5, <2>6
<1>4. ASSUME NEW s \in Sessions, FinishBill(s) PROVE Relied
  <2>1. PICK r, w : r = tx[s].rev /\ w = tx[s].wo OBVIOUS
  <2>2. /\ r \in Revisions /\ w \in WorkOrders /\ Accepted(r)
        /\ quotation[revision[r].quo].wo = w
    BY <1>4, <2>1 DEF FinishBill, Inv, Carried
  <2>3. billed' = [billed EXCEPT ![w] = r] /\ cited' = cited BY <1>4, <2>1 DEF FinishBill
  <2> QED BY <1>0, <1>1, <2>2, <2>3
<1>5. ASSUME NEW w \in WorkOrders, VoidInvoice(w) PROVE Relied
  <2>1. billed' = [billed EXCEPT ![w] = None] /\ cited' = cited BY <1>5 DEF VoidInvoice
  <2> QED BY <1>0, <1>1, <2>1
<1> HIDE DEF Relied
<1>6. Relied BY <1>2, <1>3, <1>4, <1>5, Relying
<1> QED BY <1>6 DEF ReliedOnAccepted, Accepted, Good, Relied

-----------------------------------------------------------------------------
(* The theorems.                                                           *)

\* Every step keeps Inv ...
LEMMA StepInv == Inv /\ [Next]_vars => Inv'
<1> SUFFICES ASSUME Inv, [Next]_vars PROVE Inv' OBVIOUS
<1>1. CASE Next
  BY <1>1, TypeStep, ShapedStep, CarriedStep, LockedStep, StandingStep, ReliedStep DEF Inv
<1>2. CASE UNCHANGED vars
  <2>1. TypeOK' BY <1>2 DEF vars, Inv, TypeOK
  <2>2. Shaped' BY <1>2 DEF vars, Inv, Shaped
  <2>3. Carried' BY <1>2 DEF vars, Inv, Carried, Accepted
  <2>4. Locked' BY <1>2 DEF vars, Inv, Locked, Expirable
  <2>5. StandingAgrees' BY <1>2, StandingSame DEF vars, data
  <2>6. ReliedOnAccepted' BY <1>2 DEF vars, agreed, Inv, ReliedOnAccepted, Accepted
  <2> QED BY <2>1, <2>2, <2>3, <2>4, <2>5, <2>6 DEF Inv
<1> QED BY <1>1, <1>2

\* ... so it always holds.
LEMMA Invariant == Spec => []Inv
BY InitInv, StepInv, PTL DEF Spec

\* Every reachable state of the quotation's tables and transactions is well typed.
THEOREM QuotationTypeCorrect == Spec => []TypeOK
<1>1. Inv => TypeOK BY DEF Inv
<1> QED BY <1>1, Invariant, PTL

\* The status of a quotation is what the decisions on its current revision roll up to
\* (rollUp), whatever decisions, revisions and sweeps race for it.
THEOREM StatusFollowsDecisions == Spec => []StandingAgrees
<1>1. Inv => StandingAgrees BY DEF Inv
<1> QED BY <1>1, Invariant, PTL

\* What was released (assertLinkableQuotationRevision) or billed (createInvoice) is
\* accepted, although the bill is drawn up without any lock.
THEOREM ReliedRemainsAccepted == Spec => []ReliedOnAccepted
<1>1. Inv => ReliedOnAccepted BY DEF Inv
<1> QED BY <1>1, Invariant, PTL

\* A customer's answer is never changed, added to a revision that ended, or taken back
\* (assertDecidable, expireLapsed).
THEOREM AnswersStand == Spec => AnswerStands
<1> DEFINE Kept ==
      /\ \A r \in Revisions :
           /\ \A i \in Items : decision[r][i] # "none" => decision'[r][i] = decision[r][i]
           /\ revision[r].status \in {"superseded", "rejected", "expired"}
                => decision'[r] = decision[r]
      /\ \A q \in Quotations : quotation[q].status = "accepted" =>
           /\ quotation'[q] = quotation[q]
           /\ revision'[quotation[q].current] = revision[quotation[q].current]
<1>1. Inv /\ Next => Kept
  <2> SUFFICES ASSUME Inv, Next PROVE Kept OBVIOUS
  <2>1. \A r \in Revisions :
           /\ \A i \in Items : decision[r][i] # "none" => decision'[r][i] = decision[r][i]
           /\ revision[r].status \in {"superseded", "rejected", "expired"}
                => decision'[r] = decision[r]
    BY DecisionsAdded
  <2>2. \A q \in Quotations : quotation[q].status = "accepted" =>
           /\ quotation'[q] = quotation[q]
           /\ revision'[quotation[q].current] = revision[quotation[q].current]
    BY AcceptedLasts
  <2> QED BY <2>1, <2>2
<1>2. Inv /\ [Next]_vars => [Kept]_vars BY <1>1
<1> HIDE DEF Kept
<1>3. Spec => [][Kept]_vars BY <1>2, Invariant, PTL DEF Spec
<1> QED BY <1>3 DEF AnswerStands, Kept
=============================================================================
