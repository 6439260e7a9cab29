----------------------------- MODULE Quotation -----------------------------
(***************************************************************************)
(* What a customer is asked to agree to: quotations of a work order, their *)
(* numbered revisions, the decision on each line, the expiry sweep, and    *)
(* the two services that rely on an agreement: the approval of additional  *)
(* work, which may cite a revision, and the invoice, which bills one.      *)
(*                                                                         *)
(* Every command locks the quotation before it reads what it decides on,   *)
(* so one that needs no other lock and no clock is one action. A           *)
(* transaction that asks whether a revision has expired compares with its  *)
(* own start, and one that reads before it has a lock acts on what it read:*)
(* those take several steps and are kept in tx.                            *)
(*                                                                         *)
(* Lines are sets of items; amounts, prices, currencies, the recorded      *)
(* channel and evidence can only refuse and are left out. A command that   *)
(* names an old record_version is refused, so each names the current one.  *)
(***************************************************************************)
EXTENDS Naturals

CONSTANTS
  WorkOrders, Quotations, Revisions,
  Items,        \* the lines a revision may have
  Sessions,     \* database connections that serve requests
  None          \* SQL NULL

ASSUME NoneAssumption == None \notin WorkOrders \cup Quotations \cup Revisions

VARIABLES
  live,         \* work orders in a state that is not terminal
  quotation,    \* quotations: work order, status, current_revision_id
  revision,     \* quotation_revisions: quotation, status, lines
  decision,     \* approval_decisions per revision and item
  lapsed,       \* revisions whose expires_at has passed
  cited,        \* revisions that a customer approval names
  billed,       \* the revision each work order's live invoice bills
  tx            \* the open transaction of each session

vars == <<live, quotation, revision, decision, lapsed, cited, billed, tx>>
agreed == <<cited, billed>>

NoQuotation == [wo |-> None, status |-> "none", current |-> None]
NoRevision  == [quo |-> None, status |-> "none", lines |-> {}]

\* A transaction: what it is about, the revisions that had expired when it began
\* (past), those a sweep has before it (todo) and behind it (done), and the
\* quotations it has locked.
Idle == [kind |-> "idle", wo |-> None, rev |-> None, items |-> {}, answer |-> "none",
         past |-> {}, todo |-> {}, done |-> {}, locked |-> {}]

Kinds == {"idle", "create", "decide", "cite", "sweep", "bill"}

-----------------------------------------------------------------------------
(* Reading the tables.                                                     *)

Answers(r) == {decision[r][i] : i \in revision[r].lines}

\* Mutant of RollUp: the answer itself becomes the status.
RollUpAsAnswer(answers) ==
  IF "rejected" \in answers THEN "rejected"
  ELSE IF answers = {"approved"} THEN "approved" ELSE "undecided"

\* rollUpDecisions: one refused line refuses all, and all must be approved.
RollUp(answers) ==
  IF "rejected" \in answers THEN "rejected"
  ELSE IF answers = {"approved"} THEN "accepted" ELSE "undecided"

Outcome(r) == RollUp(Answers(r))

\* assertQuotationOpen.
Open(q) == quotation[q].status \in {"draft", "active"}

\* The revision the quotation points at, while it is issued.
Current(r) == /\ revision[r].status = "issued"
              /\ quotation[revision[r].quo].current = r

-----------------------------------------------------------------------------
(* Transactions.                                                           *)

\* Nobody else holds the quotation FOR UPDATE.
Free(s, q) == \A u \in Sessions \ {s} : q \notin tx[u].locked

Unlocked(q) == \A u \in Sessions : q \notin tx[u].locked

Begin(s, t) == /\ tx[s].kind = "idle"
               /\ tx' = [tx EXCEPT ![s] = t]
               /\ UNCHANGED <<live, quotation, revision, decision, lapsed, agreed>>

End(s) == tx' = [tx EXCEPT ![s] = Idle]

\* A refusal on the way, a timeout, a lost connection.
Rollback(s) == /\ tx[s].kind # "idle" /\ End(s)
               /\ UNCHANGED <<live, quotation, revision, decision, lapsed, agreed>>

-----------------------------------------------------------------------------
(* Quotations and revisions.                                               *)

\* create reads the work order without a lock, prices the lines, takes a number ...
BeginCreate(s, w) == w \in live /\ Begin(s, [Idle EXCEPT !.kind = "create", !.wo = w])

Draft(r, q, lines) ==
  /\ revision[r].status = "none" /\ lines # {}
  /\ revision' = [revision EXCEPT ![r] = [quo |-> q, status |-> "draft", lines |-> lines]]

\* ... and inserts the quotation with its first revision.
FinishCreate(s, q, r, lines) ==
  /\ tx[s].kind = "create" /\ quotation[q].status = "none"
  /\ quotation' = [quotation EXCEPT ![q] = [wo |-> tx[s].wo, status |-> "draft",
                                            current |-> None]]
  /\ Draft(r, q, lines)
  /\ End(s)
  /\ UNCHANGED <<live, decision, lapsed, agreed>>

Revise(q, r, lines) ==
  /\ Unlocked(q) /\ Open(q)
  /\ Draft(r, q, lines)
  /\ UNCHANGED <<live, quotation, decision, lapsed, agreed, tx>>

\* Mutant of Supersede: the earlier issued revision is forgotten.
IssueBeside(q, r) == [revision EXCEPT ![r].status = "issued"]

\* The issued revision of the quotation gives way to r.
Supersede(q, r) ==
  [x \in Revisions |->
     IF x = r THEN [revision[x] EXCEPT !.status = "issued"]
     ELSE IF revision[x].quo = q /\ revision[x].status = "issued"
          THEN [revision[x] EXCEPT !.status = "superseded"] ELSE revision[x]]

\* issue and quo.issue_revision.
Issue(r) ==
  LET q == revision[r].quo IN
  /\ revision[r].status = "draft"
  /\ Unlocked(q) /\ Open(q)
  /\ revision' = Supersede(q, r)
  /\ quotation' = [quotation EXCEPT ![q].status = "active", ![q].current = r]
  /\ UNCHANGED <<live, decision, lapsed, agreed, tx>>

\* Time passes the expires_at of a revision that has one.
Lapse(r) == /\ revision[r].status = "issued" /\ r \notin lapsed
            /\ lapsed' = lapsed \cup {r}
            /\ UNCHANGED <<live, quotation, revision, decision, agreed, tx>>

-----------------------------------------------------------------------------
(* Decisions of the customer.                                              *)

\* The clock of decideItem (one line) and decideRevision (all its lines).
BeginDecide(s, r, items, answer) ==
  /\ revision[r].status # "none"
  /\ items = revision[r].lines \/ \E i \in revision[r].lines : items = {i}
  /\ Begin(s, [Idle EXCEPT !.kind = "decide", !.rev = r, !.items = items,
                           !.answer = answer, !.past = lapsed])

\* assertDecidable, under the quotation's lock.
Decidable(t) == Current(t.rev) /\ t.rev \notin t.past

\* Lines that already have this answer keep it; one with the other answer refuses.
\* A command that finds nothing left to decide changes nothing and is no step.
Undecided(t) == {i \in t.items : decision[t.rev][i] = "none"}

Decided(t) == [decision EXCEPT ![t.rev] =
                 [i \in Items |-> IF i \in Undecided(t) THEN t.answer ELSE @[i]]]

\* The status is rolled up from the lines; a refusal is the end of the revision.
FinishDecide(s) ==
  LET t == tx[s]
      q == revision[t.rev].quo
      outcome == RollUp({Decided(t)[t.rev][i] : i \in revision[t.rev].lines}) IN
  /\ t.kind = "decide"
  /\ Unlocked(q) /\ Decidable(t)
  /\ Undecided(t) # {}
  /\ \A i \in t.items : decision[t.rev][i] \in {"none", t.answer}
  /\ decision' = Decided(t)
  /\ quotation' = IF outcome = "undecided" THEN quotation
                  ELSE [quotation EXCEPT ![q].status = outcome]
  /\ revision' = IF outcome # "rejected" THEN revision
                 ELSE [revision EXCEPT ![t.rev].status = "rejected"]
  /\ End(s)
  /\ UNCHANGED <<live, lapsed, agreed>>

-----------------------------------------------------------------------------
(* The expiry sweep.                                                       *)

\* Mutant of Expirable: an accepted quotation's revision is issued, too.
ExpirableIssued(r) == revision[r].status = "issued"

Expirable(r) == /\ quotation[revision[r].quo].status = "active"
                /\ revision[r].status = "issued"

\* listLapsedRevisions, without locks; its limit is never reached.
BeginSweep(s) ==
  LET candidates == {r \in lapsed : Expirable(r)} IN
  /\ candidates # {}
  /\ Begin(s, [Idle EXCEPT !.kind = "sweep", !.todo = candidates])

\* The quotation is locked and both are read again; a candidate that was decided or
\* superseded meanwhile is passed over, and its lock kept.
SweepOne(s, r) ==
  LET q == revision[r].quo IN
  /\ tx[s].kind = "sweep" /\ r \in tx[s].todo
  /\ Free(s, q)
  /\ tx' = [tx EXCEPT ![s].todo = @ \ {r},
                      ![s].done = IF Expirable(r) THEN @ \cup {r} ELSE @,
                      ![s].locked = @ \cup {q}]
  /\ UNCHANGED <<live, quotation, revision, decision, lapsed, agreed>>

\* The changes become visible.
CommitSweep(s) ==
  LET done == tx[s].done IN
  /\ tx[s].kind = "sweep" /\ tx[s].todo = {}
  /\ revision' = [r \in Revisions |->
       IF r \in done THEN [revision[r] EXCEPT !.status = "expired"] ELSE revision[r]]
  /\ quotation' = [q \in Quotations |->
       IF \E r \in done : revision[r].quo = q THEN [quotation[q] EXCEPT !.status = "expired"]
       ELSE quotation[q]]
  /\ End(s)
  /\ UNCHANGED <<live, decision, lapsed, agreed>>

-----------------------------------------------------------------------------
(* Who relies on an agreement.                                             *)

\* The decision on additional work of a work order names a revision ...
BeginCite(s, w, r) ==
  /\ w \in live
  /\ Begin(s, [Idle EXCEPT !.kind = "cite", !.wo = w, !.rev = r, !.past = lapsed])

\* ... and assertLinkableQuotationRevision asks for its standing under its locks.
FinishCite(s) ==
  LET t == tx[s] IN
  /\ t.kind = "cite" /\ t.wo \in live
  /\ revision[t.rev].status # "none"
  /\ Unlocked(revision[t.rev].quo)
  /\ quotation[revision[t.rev].quo].wo = t.wo
  /\ Decidable(t) /\ Outcome(t.rev) = "accepted"
  /\ cited' = cited \cup {t.rev}
  /\ End(s)
  /\ UNCHANGED <<live, quotation, revision, decision, lapsed, billed>>

\* Mutant of Sources: what the customer was shown, whatever the answer.
SourcesShown(w) == {r \in Revisions : revision[r].status # "none" /\ Current(r)
                                      /\ quotation[revision[r].quo].wo = w}

\* findCommercialSources and resolveCommercialSource: acceptance is derived from the
\* lines, not read from the quotation's status.
Sources(w) == {r \in Revisions : /\ revision[r].status # "none" /\ Current(r)
                                 /\ quotation[revision[r].quo].wo = w
                                 /\ Outcome(r) = "accepted"}

\* createInvoice: no live invoice, exactly one source, no locks ...
BeginBill(s, w, r) ==
  /\ billed[w] = None
  /\ Sources(w) = {r}
  /\ Begin(s, [Idle EXCEPT !.kind = "bill", !.wo = w, !.rev = r])

\* ... and the insert, which a second live invoice makes fail.
FinishBill(s) ==
  LET t == tx[s] IN
  /\ t.kind = "bill" /\ billed[t.wo] = None
  /\ billed' = [billed EXCEPT ![t.wo] = t.rev]
  /\ End(s)
  /\ UNCHANGED <<live, quotation, revision, decision, lapsed, cited>>

\* cancelInvoice: the draft is void and no longer bills anything.
VoidInvoice(w) ==
  /\ billed[w] # None
  /\ billed' = [billed EXCEPT ![w] = None]
  /\ UNCHANGED <<live, quotation, revision, decision, lapsed, cited, tx>>

\* The work order reaches a terminal state. Nothing here holds it locked.
CloseWorkOrder(w) ==
  /\ w \in live
  /\ live' = live \ {w}
  /\ UNCHANGED <<quotation, revision, decision, lapsed, agreed, tx>>

-----------------------------------------------------------------------------
Init ==
  /\ live = WorkOrders
  /\ quotation = [q \in Quotations |-> NoQuotation]
  /\ revision = [r \in Revisions |-> NoRevision]
  /\ decision = [r \in Revisions |-> [i \in Items |-> "none"]]
  /\ lapsed = {}
  /\ cited = {}
  /\ billed = [w \in WorkOrders |-> None]
  /\ tx = [s \in Sessions |-> Idle]

Command ==
  \/ \E q \in Quotations, r \in Revisions, l \in SUBSET Items : Revise(q, r, l)
  \/ \E r \in Revisions : Issue(r) \/ Lapse(r)
  \/ \E w \in WorkOrders : VoidInvoice(w) \/ CloseWorkOrder(w)

BeginStep(s) ==
  \/ \E w \in WorkOrders : BeginCreate(s, w)
  \/ \E r \in Revisions, l \in SUBSET Items, a \in {"approved", "rejected"} :
       BeginDecide(s, r, l, a)
  \/ BeginSweep(s)
  \/ \E w \in WorkOrders, r \in Revisions : BeginCite(s, w, r) \/ BeginBill(s, w, r)

EndStep(s) ==
  \/ \E q \in Quotations, r \in Revisions, l \in SUBSET Items : FinishCreate(s, q, r, l)
  \/ FinishDecide(s)
  \/ \E r \in Revisions : SweepOne(s, r)
  \/ CommitSweep(s) \/ FinishCite(s) \/ FinishBill(s)
  \/ Rollback(s)

Next == Command \/ \E s \in Sessions : BeginStep(s) \/ EndStep(s)

Spec == Init /\ [][Next]_vars

-----------------------------------------------------------------------------
(* Properties.                                                             *)

TypeOK ==
  /\ live \subseteq WorkOrders
  /\ quotation \in [Quotations -> [wo : WorkOrders \cup {None},
       status : {"none", "draft", "active", "accepted", "rejected", "expired"},
       current : Revisions \cup {None}]]
  /\ revision \in [Revisions -> [quo : Quotations \cup {None},
       status : {"none", "draft", "issued", "superseded", "rejected", "expired"},
       lines : SUBSET Items]]
  /\ decision \in [Revisions -> [Items -> {"none", "approved", "rejected"}]]
  /\ lapsed \subseteq Revisions
  /\ cited \subseteq Revisions
  /\ billed \in [WorkOrders -> Revisions \cup {None}]
  /\ tx \in [Sessions -> [kind : Kinds, wo : WorkOrders \cup {None},
       rev : Revisions \cup {None}, items : SUBSET Items,
       answer : {"none", "approved", "rejected"}, past : SUBSET Revisions,
       todo : SUBSET Revisions, done : SUBSET Revisions, locked : SUBSET Quotations]]

\* Where the revision a quotation points at has come to, for each of its statuses.
Standing(q) ==
  LET c == quotation[q].current
      At(status, outcome) == /\ c \in Revisions /\ revision[c].quo = q
                             /\ revision[c].status = status /\ Outcome(c) = outcome IN
  /\ quotation[q].status \in {"none", "draft"} => c = None
  /\ quotation[q].status = "active"   => At("issued", "undecided")
  /\ quotation[q].status = "accepted" => At("issued", "accepted")
  /\ quotation[q].status = "rejected" => At("rejected", "rejected")
  /\ quotation[q].status = "expired"  => At("expired", "undecided")

\* The status of a quotation, which no constraint ties to the decisions, is what they
\* roll up to, whatever raced: decisions on different lines, a new revision, the
\* sweep. Every other revision is a draft or was superseded before it was settled.
StandingAgrees ==
  /\ \A q \in Quotations : Standing(q)
  /\ \A r \in Revisions :
       revision[r].status # "none" /\ quotation[revision[r].quo].current # r
         => \/ revision[r].status = "draft"
            \/ revision[r].status = "superseded" /\ Outcome(r) = "undecided"

\* What the customer answered stands. A decision is final; none is added to a revision
\* that was superseded, refused or swept, so approval of one revision never reaches
\* another; and nothing takes an acceptance back: no sweep, no later revision.
AnswerStands ==
  [][/\ \A r \in Revisions :
          /\ \A i \in Items : decision[r][i] # "none" => decision'[r][i] = decision[r][i]
          /\ revision[r].status \in {"superseded", "rejected", "expired"}
               => decision'[r] = decision[r]
     /\ \A q \in Quotations : quotation[q].status = "accepted" =>
          /\ quotation'[q] = quotation[q]
          /\ revision'[quotation[q].current] = revision[quotation[q].current]]_vars

\* What additional work was released on, and what is billed, is a revision the
\* customer accepted, and remains so; the bill is of that work order.
Accepted(r) == /\ revision[r].status = "issued"
               /\ quotation[revision[r].quo].status = "accepted"
               /\ quotation[revision[r].quo].current = r

ReliedOnAccepted ==
  /\ \A r \in cited : Accepted(r)
  /\ \A w \in WorkOrders : billed[w] # None =>
       Accepted(billed[w]) /\ quotation[revision[billed[w]].quo].wo = w

\* A quotation is created for a work order that is not terminal. (It is not: the
\* state is read before the insert, and without a lock.)
QuotedWhileLive ==
  [][\A q \in Quotations : quotation[q].status = "none" /\ quotation'[q].status # "none"
       => quotation'[q].wo \in live]_vars

\* A work order has at most one accepted revision, so that it can be billed. (It may
\* have several, and nothing withdraws one.)
OneSource == \A w \in WorkOrders : \A r, x \in Sources(w) : r = x

-----------------------------------------------------------------------------
(* The invariant behind the properties.                                    *)

\* A revision is of a quotation that exists, and a draft has no answers.
Shaped ==
  \A r \in Revisions :
    /\ revision[r].status # "none" =>
         revision[r].quo \in Quotations /\ quotation[revision[r].quo].status # "none"
    /\ revision[r].status \in {"none", "draft"} => \A i \in Items : decision[r][i] = "none"

\* What a transaction has read and may still rely on.
Carried ==
  \A s \in Sessions :
    /\ tx[s].kind \in {"create", "cite", "bill"} => tx[s].wo \in WorkOrders
    /\ tx[s].kind \in {"decide", "cite", "bill"} => tx[s].rev \in Revisions
    /\ tx[s].kind = "decide" => /\ revision[tx[s].rev].status # "none"
                                /\ tx[s].items \subseteq revision[tx[s].rev].lines
    /\ tx[s].kind = "bill" => /\ Accepted(tx[s].rev)
                              /\ quotation[revision[tx[s].rev].quo].wo = tx[s].wo
    /\ \A r \in tx[s].todo : revision[r].status # "none"

\* No two sweeps hold one quotation, and what a sweep has checked cannot change.
Locked ==
  /\ \A s, u \in Sessions : s # u => tx[s].locked \cap tx[u].locked = {}
  /\ \A s \in Sessions : \A r \in tx[s].done : Expirable(r) /\ revision[r].quo \in tx[s].locked

Inv == TypeOK /\ Shaped /\ Carried /\ Locked /\ StandingAgrees /\ ReliedOnAccepted

=============================================================================
