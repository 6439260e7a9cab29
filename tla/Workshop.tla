------------------------------ MODULE Workshop ------------------------------
(***************************************************************************)
(* Work orders and what hangs on them: jobs, assignments, labour sessions, *)
(* additional work, required diagnoses, quality control and rework, up to  *)
(* the gate a work order passes when it is closed.                         *)
(*                                                                         *)
(* A request is one transaction at READ COMMITTED. One that decides on what*)
(* it read under the locks it needs is a single action: it waits until they*)
(* are free and commits. One that reads rows before it has their locks, or *)
(* that reads several tables one after the other, takes several steps and  *)
(* is kept in tx. The row locks are those tx implies: a closure holds the  *)
(* work order, a transition and an assignment the job, a correction the    *)
(* labour session. A caller that names an old record_version is refused    *)
(* and changes nothing, so every request here names the current one.       *)
(***************************************************************************)
EXTENDS Naturals

CONSTANTS
  WorkOrders, Jobs, Technicians, Assignments, Labours, Requests, Inspections,
  Sessions,        \* database connections that serve requests
  WoStates, WoStart, WoGraph, WoTerminal, WoCancelled,   \* wo.work_order_states
  TakesJobs, TakesRequests,                              \* and their transitions
  JobStates, JobGraph, JobTerminal, NeedsAssignment, LabourAllowed,   \* wo.job_states
  MandatoryQc,     \* an active mandatory check is configured
  None             \* SQL NULL; the state of a row that does not exist

Closing == WoTerminal \ WoCancelled

ASSUME CatalogAssumption ==
  /\ WoStart \in WoStates \ WoTerminal
  /\ WoGraph \subseteq WoStates \X WoStates
  /\ WoCancelled \subseteq WoTerminal /\ WoTerminal \subseteq WoStates
  /\ JobGraph \subseteq JobStates \X JobStates
  /\ JobTerminal \cup LabourAllowed \subseteq JobStates
  /\ MandatoryQc \in BOOLEAN

ASSUME NoneAssumption ==
  None \notin WoStates \cup JobStates \cup WorkOrders \cup Jobs \cup Technicians \cup Labours

VARIABLES
  state,        \* work_orders.state
  job,          \* jobs: the work order, the state, requires_diagnostic
  assignment,   \* job_assignments without valid_to
  labour,       \* labor_sessions without ended_at
  request,      \* additional_work_requests
  diagnosed,    \* jobs with a completed diagnostic report
  inspection,   \* quality_control_records
  rework,       \* rework_links, by the rework work order
  tx            \* the open transaction of each session

vars == <<state, job, assignment, labour, request, diagnosed, inspection, rework, tx>>

NoJob == [wo |-> None, state |-> None, diagnostic |-> FALSE]
NoAssignment == [job |-> None, tech |-> None, role |-> "assist"]
NoLabour == [job |-> None, tech |-> None]
NoRequest == [job |-> None, required |-> FALSE, state |-> "none",
              fulfilment |-> "unfulfilled"]
NoInspection == [wo |-> None, result |-> "none"]
NoRework == [critical |-> FALSE, lead |-> None, signed |-> None]

\* What a transaction is about; passed is how many blockers a closure has behind it.
Idle == [kind |-> "idle", wo |-> None, job |-> None, tech |-> None, row |-> None,
         to |-> None, passed |-> 0]

Tx == [kind : {"idle", "close", "transition", "assign", "reassign", "labour", "correct",
               "diagnose", "inspect"},
       wo : WorkOrders \cup {None}, job : Jobs \cup {None}, tech : Technicians \cup {None},
       row : Labours \cup {None}, passed : 0..6,
       to : WoStates \cup JobStates \cup {"primary", "assist", None}]

-----------------------------------------------------------------------------
(* Locks.                                                                  *)

\* Nobody holds the work order FOR UPDATE.
FreeWo(w) == \A s \in Sessions : ~(tx[s].kind = "close" /\ tx[s].wo = w)

\* Nobody holds the job FOR UPDATE.
FreeJob(j) ==
  \A s \in Sessions : ~(tx[s].kind \in {"transition", "assign", "reassign"} /\ tx[s].job = j)

\* Mutant of ReferencesJob: the foreign key is dropped.
NoForeignKey(j) == TRUE

\* A row that names the job by a foreign key takes a key-share lock on it.
ReferencesJob(j) == FreeJob(j)

FreeLabour(l) == \A s \in Sessions : ~(tx[s].kind = "correct" /\ tx[s].row = l)

Begin(s, t) == /\ tx[s].kind = "idle"
               /\ tx' = [tx EXCEPT ![s] = t]

End(s) == tx' = [tx EXCEPT ![s] = Idle]

-----------------------------------------------------------------------------
(* Reading the tables.                                                     *)

Live(w) == state[w] \in WoStates \ WoTerminal

JobsOf(w) == {j \in Jobs : job[j].wo = w}

\* Required requests that keep a job out of labour, and a work order from closing.
Pending(r) == request[r].required /\ request[r].state = "pending"
Unresolved(r) ==
  /\ request[r].required
  /\ \/ request[r].state = "pending"
     \/ request[r].state = "approved" /\ request[r].fulfilment = "unfulfilled"

Results(w) == {inspection[q].result : q \in {p \in Inspections : inspection[p].wo = w}}

ActivePrimaries(j) ==
  {a \in Assignments : assignment[a].job = j /\ assignment[a].role = "primary"}

Blockers == 1..6

\* The closure blockers B1 to B6.
Blocked(b, w) ==
  CASE b = 1 -> \E j \in JobsOf(w) : job[j].state \notin JobTerminal
    [] b = 2 -> \E l \in Labours : labour[l].job \in JobsOf(w)
    [] b = 3 -> \E r \in Requests : request[r].job \in JobsOf(w) /\ Unresolved(r)
    [] b = 4 -> \E j \in JobsOf(w) : job[j].diagnostic /\ j \notin diagnosed
    [] b = 5 -> \/ "failed" \in Results(w) /\ "passed" \notin Results(w)
                \/ MandatoryQc /\ "passed" \notin Results(w)
    [] b = 6 -> rework[w].critical /\ rework[w].signed = None

-----------------------------------------------------------------------------
(* Work orders.                                                            *)

\* Reception converts an authorized visit.
OpenWorkOrder(w) ==
  /\ state[w] = None
  /\ state' = [state EXCEPT ![w] = WoStart]
  /\ UNCHANGED <<job, assignment, labour, request, diagnosed, inspection, rework, tx>>

\* createRework: a rework order for a closed original, and its link, together. A
\* link without a lead technician is never safety critical and is left out.
CreateRework(w, original, critical, lead) ==
  /\ state[w] = None /\ state[original] \in Closing
  /\ state' = [state EXCEPT ![w] = WoStart]
  /\ rework' = [rework EXCEPT ![w] = [critical |-> critical, lead |-> lead, signed |-> None]]
  /\ UNCHANGED <<job, assignment, labour, request, diagnosed, inspection, tx>>

\* signOff: once, and by somebody other than the lead technician.
SignOff(w, t) ==
  /\ rework[w].lead # None /\ rework[w].signed = None /\ t # rework[w].lead
  /\ rework' = [rework EXCEPT ![w].signed = t]
  /\ UNCHANGED <<state, job, assignment, labour, request, diagnosed, inspection, tx>>

\* transition: an edge of the graph that does not close.
Transition(w, to) ==
  /\ FreeWo(w) /\ Live(w)
  /\ <<state[w], to>> \in WoGraph /\ to \notin Closing
  /\ state' = [state EXCEPT ![w] = to]
  /\ UNCHANGED <<job, assignment, labour, request, diagnosed, inspection, rework, tx>>

\* close locks the work order for the whole transaction.
BeginClose(s, w, to) ==
  /\ FreeWo(w) /\ Live(w)
  /\ <<state[w], to>> \in WoGraph /\ to \in Closing
  /\ Begin(s, [Idle EXCEPT !.kind = "close", !.wo = w, !.to = to])
  /\ UNCHANGED <<state, job, assignment, labour, request, diagnosed, inspection, rework>>

\* The service asks for the blockers and the trigger asks again, one statement
\* after the other; what counts is the last answer to each.
CheckBlocker(s) ==
  /\ tx[s].kind = "close" /\ tx[s].passed + 1 \in Blockers
  /\ ~Blocked(tx[s].passed + 1, tx[s].wo)
  /\ tx' = [tx EXCEPT ![s].passed = @ + 1]
  /\ UNCHANGED <<state, job, assignment, labour, request, diagnosed, inspection, rework>>

FinishClose(s) ==
  /\ tx[s].kind = "close" /\ tx[s].passed = 6
  /\ state' = [state EXCEPT ![tx[s].wo] = tx[s].to]
  /\ End(s)
  /\ UNCHANGED <<job, assignment, labour, request, diagnosed, inspection, rework>>

-----------------------------------------------------------------------------
(* Jobs.                                                                   *)

\* The trigger locks the work order and reads its state again.
CreateJob(j, w, initial, diagnostic) ==
  /\ job[j].state = None
  /\ FreeWo(w) /\ Live(w) /\ state[w] \in TakesJobs
  /\ job' = [job EXCEPT ![j] = [wo |-> w, state |-> initial, diagnostic |-> diagnostic]]
  /\ UNCHANGED <<state, assignment, labour, request, diagnosed, inspection, rework, tx>>

\* Mutant of UpdateJob: the work order's state is not looked at.
UpdateJobOfAny(j, diagnostic) ==
  /\ job[j].state # None
  /\ FreeJob(j)
  /\ job' = [job EXCEPT ![j].diagnostic = diagnostic]
  /\ UNCHANGED <<state, assignment, labour, request, diagnosed, inspection, rework, tx>>

\* updateJob locks the work order and then the job.
UpdateJob(j, diagnostic) ==
  /\ job[j].state # None
  /\ FreeWo(job[j].wo) /\ Live(job[j].wo) /\ FreeJob(j)
  /\ job' = [job EXCEPT ![j].diagnostic = diagnostic]
  /\ UNCHANGED <<state, assignment, labour, request, diagnosed, inspection, rework, tx>>

\* assertAdditionalWorkSettled reads the requests of the job without a lock.
Settled(j) == \A r \in Requests : request[r].job = j => ~Pending(r)

\* transitionJob locks the job only. The trigger reads the assignments.
BeginJobTransition(s, j, to) ==
  /\ job[j].state # None /\ job[j].state \notin JobTerminal
  /\ FreeJob(j)
  /\ <<job[j].state, to>> \in JobGraph
  /\ to \in LabourAllowed => Settled(j)
  /\ to \in NeedsAssignment => \E a \in Assignments : assignment[a].job = j
  /\ Begin(s, [Idle EXCEPT !.kind = "transition", !.job = j, !.to = to])
  /\ UNCHANGED <<state, job, assignment, labour, request, diagnosed, inspection, rework>>

FinishJobTransition(s) ==
  /\ tx[s].kind = "transition"
  /\ job' = [job EXCEPT ![tx[s].job].state = tx[s].to]
  /\ End(s)
  /\ UNCHANGED <<state, assignment, labour, request, diagnosed, inspection, rework>>

\* lockAssignableJob locks the job and reads the work order without a lock.
LockAssignable(j) == /\ job[j].state \in JobStates \ JobTerminal
                     /\ FreeJob(j) /\ Live(job[j].wo)

\* assign looks for an active primary assignment, reassign for the one it ends.
BeginAssign(s, j, t, kind, role) ==
  /\ LockAssignable(j)
  /\ kind = "reassign" => role = "primary"
  /\ kind = "assign" /\ role = "primary" => ActivePrimaries(j) = {}
  /\ kind = "reassign" => \A a \in ActivePrimaries(j) : assignment[a].tech # t
  /\ Begin(s, [Idle EXCEPT !.kind = kind, !.job = j, !.tech = t, !.to = role])
  /\ UNCHANGED <<state, job, assignment, labour, request, diagnosed, inspection, rework>>

\* The active primary, if any, ends with a reassignment; the new one begins.
FinishAssign(s, a) ==
  LET t == tx[s]
      ended == IF t.kind = "reassign" THEN ActivePrimaries(t.job) ELSE {} IN
  /\ t.kind \in {"assign", "reassign"}
  /\ assignment[a].job = None
  /\ assignment' = [b \in Assignments |->
       IF b = a THEN [job |-> t.job, tech |-> t.tech, role |-> t.to]
       ELSE IF b \in ended THEN NoAssignment ELSE assignment[b]]
  /\ End(s)
  /\ UNCHANGED <<state, job, labour, request, diagnosed, inspection, rework>>

\* end locks the assignment and looks at nothing else.
EndAssignment(a) ==
  /\ assignment[a].job # None
  /\ assignment' = [assignment EXCEPT ![a] = NoAssignment]
  /\ UNCHANGED <<state, job, labour, request, diagnosed, inspection, rework, tx>>

-----------------------------------------------------------------------------
(* Labour sessions.                                                        *)

\* guard_labor_session reads the job's state before it locks the work order.
BeginLabour(s, t, j) ==
  /\ job[j].state \in LabourAllowed
  /\ Begin(s, [Idle EXCEPT !.kind = "labour", !.job = j, !.tech = t])
  /\ UNCHANGED <<state, job, assignment, labour, request, diagnosed, inspection, rework>>

\* Under the lock only the work order's state is read; ex_labor_sessions_overlap
\* admits one running session of a technician.
StartLabour(s, l) ==
  LET t == tx[s] IN
  /\ t.kind = "labour" /\ labour[l].job = None
  /\ FreeWo(job[t.job].wo) /\ Live(job[t.job].wo) /\ ReferencesJob(t.job)
  /\ \A m \in Labours : labour[m].tech # t.tech
  /\ labour' = [labour EXCEPT ![l] = [job |-> t.job, tech |-> t.tech]]
  /\ End(s)
  /\ UNCHANGED <<state, job, assignment, request, diagnosed, inspection, rework>>

StopLabour(l) ==
  /\ labour[l].job # None /\ FreeLabour(l)
  /\ labour' = [labour EXCEPT ![l] = NoLabour]
  /\ UNCHANGED <<state, job, assignment, request, diagnosed, inspection, rework, tx>>

\* correct_labor_session: the insert of the correction passes the same trigger. The
\* correction of a session that has ended ends too, and is not seen here.
BeginCorrection(s, l) ==
  /\ labour[l].job # None /\ FreeLabour(l)
  /\ job[labour[l].job].state \in LabourAllowed
  /\ Begin(s, [Idle EXCEPT !.kind = "correct", !.job = labour[l].job, !.row = l])
  /\ UNCHANGED <<state, job, assignment, labour, request, diagnosed, inspection, rework>>

\* The original is deleted and the correction has an end.
FinishCorrection(s) ==
  LET t == tx[s] IN
  /\ t.kind = "correct"
  /\ FreeWo(job[t.job].wo) /\ Live(job[t.job].wo) /\ ReferencesJob(t.job)
  /\ labour' = [labour EXCEPT ![t.row] = NoLabour]
  /\ End(s)
  /\ UNCHANGED <<state, job, assignment, request, diagnosed, inspection, rework>>

-----------------------------------------------------------------------------
(* Additional work.                                                        *)

\* lockOpenWorkOrder and lockDecidableRequest: the work order first.
Raise(r, j, required) ==
  LET w == job[j].wo IN
  /\ request[r].state = "none" /\ job[j].state # None
  /\ FreeWo(w) /\ Live(w) /\ state[w] \in TakesRequests /\ ReferencesJob(j)
  /\ request' = [request EXCEPT ![r] = [job |-> j, required |-> required,
                                        state |-> "pending", fulfilment |-> "unfulfilled"]]
  /\ UNCHANGED <<state, job, assignment, labour, diagnosed, inspection, rework, tx>>

\* Mutant of Decidable: the work order is not looked at.
DecidableOfAny(r) == request[r].job \in Jobs

Decidable(r) == /\ request[r].job \in Jobs
                /\ FreeWo(job[request[r].job].wo) /\ Live(job[request[r].job].wo)

\* decide and withdraw leave pending for good.
Decide(r, to) ==
  /\ Decidable(r) /\ request[r].state = "pending"
  /\ request' = [request EXCEPT ![r].state = to]
  /\ UNCHANGED <<state, job, assignment, labour, diagnosed, inspection, rework, tx>>

\* Mutant of SetFulfilment: the wrong column is written.
SetFulfilmentAsState(r, to) ==
  /\ Decidable(r) /\ request[r].state = "approved"
  /\ request' = [request EXCEPT ![r].state = to]
  /\ UNCHANGED <<state, job, assignment, labour, diagnosed, inspection, rework, tx>>

SetFulfilment(r, to) ==
  /\ Decidable(r) /\ request[r].state = "approved" /\ request[r].fulfilment # to
  /\ request' = [request EXCEPT ![r].fulfilment = to]
  /\ UNCHANGED <<state, job, assignment, labour, diagnosed, inspection, rework, tx>>

-----------------------------------------------------------------------------
(* Diagnoses and quality control read the work order without a lock.       *)

BeginDiagnosis(s, j) ==
  /\ job[j].state # None /\ Live(job[j].wo)
  /\ Begin(s, [Idle EXCEPT !.kind = "diagnose", !.job = j])
  /\ UNCHANGED <<state, job, assignment, labour, request, diagnosed, inspection, rework>>

\* complete: a completed report stays completed.
FinishDiagnosis(s) ==
  /\ tx[s].kind = "diagnose"
  /\ diagnosed' = diagnosed \cup {tx[s].job}
  /\ End(s)
  /\ UNCHANGED <<state, job, assignment, labour, request, inspection, rework>>

BeginInspection(s, w) ==
  /\ Live(w)
  /\ Begin(s, [Idle EXCEPT !.kind = "inspect", !.wo = w])
  /\ UNCHANGED <<state, job, assignment, labour, request, diagnosed, inspection, rework>>

\* The insert waits for a closure that holds the work order, and then goes ahead.
FinishInspection(s, q) ==
  /\ tx[s].kind = "inspect" /\ inspection[q].wo = None
  /\ FreeWo(tx[s].wo)
  /\ inspection' = [inspection EXCEPT ![q] = [wo |-> tx[s].wo, result |-> "pending"]]
  /\ End(s)
  /\ UNCHANGED <<state, job, assignment, labour, request, diagnosed, rework>>

\* Mutant of Finalize: a finalized record may be changed.
FinalizeAgain(q, result) ==
  /\ inspection[q].result # "none"
  /\ inspection' = [inspection EXCEPT ![q].result = result]
  /\ UNCHANGED <<state, job, assignment, labour, request, diagnosed, rework, tx>>

\* finalize locks the record; the result is final.
Finalize(q, result) ==
  /\ inspection[q].result = "pending"
  /\ inspection' = [inspection EXCEPT ![q].result = result]
  /\ UNCHANGED <<state, job, assignment, labour, request, diagnosed, rework, tx>>

-----------------------------------------------------------------------------
\* A refusal on the way, a timeout, a lost connection.
Rollback(s) ==
  /\ tx[s].kind # "idle"
  /\ End(s)
  /\ UNCHANGED <<state, job, assignment, labour, request, diagnosed, inspection, rework>>

Init ==
  /\ state = [w \in WorkOrders |-> None]
  /\ job = [j \in Jobs |-> NoJob]
  /\ assignment = [a \in Assignments |-> NoAssignment]
  /\ labour = [l \in Labours |-> NoLabour]
  /\ request = [r \in Requests |-> NoRequest]
  /\ diagnosed = {}
  /\ inspection = [q \in Inspections |-> NoInspection]
  /\ rework = [w \in WorkOrders |-> NoRework]
  /\ tx = [s \in Sessions |-> Idle]

WorkOrderStep ==
  \/ \E w \in WorkOrders : OpenWorkOrder(w)
  \/ \E w, v \in WorkOrders, c \in BOOLEAN, t \in Technicians : CreateRework(w, v, c, t)
  \/ \E w \in WorkOrders, t \in Technicians : SignOff(w, t)
  \/ \E w \in WorkOrders, to \in WoStates : Transition(w, to)

JobStep ==
  \/ \E j \in Jobs, w \in WorkOrders, i \in JobStates \ JobTerminal, d \in BOOLEAN :
       CreateJob(j, w, i, d)
  \/ \E j \in Jobs, d \in BOOLEAN : UpdateJob(j, d)
  \/ \E a \in Assignments : EndAssignment(a)
  \/ \E l \in Labours : StopLabour(l)

RequestStep ==
  \/ \E r \in Requests, j \in Jobs, required \in BOOLEAN : Raise(r, j, required)
  \/ \E r \in Requests, to \in {"approved", "rejected", "withdrawn"} : Decide(r, to)
  \/ \E r \in Requests, to \in {"fulfilled", "waived"} : SetFulfilment(r, to)
  \/ \E q \in Inspections, result \in {"passed", "failed"} : Finalize(q, result)

BeginStep(s) ==
  \/ \E w \in WorkOrders, to \in WoStates : BeginClose(s, w, to)
  \/ \E w \in WorkOrders : BeginInspection(s, w)
  \/ \E j \in Jobs, to \in JobStates : BeginJobTransition(s, j, to)
  \/ \E j \in Jobs, t \in Technicians, kind \in {"assign", "reassign"},
        role \in {"primary", "assist"} : BeginAssign(s, j, t, kind, role)
  \/ \E j \in Jobs, t \in Technicians : BeginLabour(s, t, j)
  \/ \E l \in Labours : BeginCorrection(s, l)
  \/ \E j \in Jobs : BeginDiagnosis(s, j)

EndStep(s) ==
  \/ CheckBlocker(s) \/ FinishClose(s)
  \/ FinishJobTransition(s)
  \/ \E a \in Assignments : FinishAssign(s, a)
  \/ \E l \in Labours : StartLabour(s, l)
  \/ FinishCorrection(s) \/ FinishDiagnosis(s)
  \/ \E q \in Inspections : FinishInspection(s, q)
  \/ Rollback(s)

Next == \/ WorkOrderStep \/ JobStep \/ RequestStep
        \/ \E s \in Sessions : BeginStep(s) \/ EndStep(s)

Spec == Init /\ [][Next]_vars

-----------------------------------------------------------------------------
(* Properties.                                                             *)

TypeOK ==
  /\ state \in [WorkOrders -> WoStates \cup {None}]
  /\ job \in [Jobs -> [wo : WorkOrders \cup {None}, state : JobStates \cup {None},
                       diagnostic : BOOLEAN]]
  /\ assignment \in [Assignments -> [job : Jobs \cup {None}, tech : Technicians \cup {None},
                                     role : {"primary", "assist"}]]
  /\ labour \in [Labours -> [job : Jobs \cup {None}, tech : Technicians \cup {None}]]
  /\ request \in [Requests -> [job : Jobs \cup {None}, required : BOOLEAN,
       state : {"none", "pending", "approved", "rejected", "withdrawn"},
       fulfilment : {"unfulfilled", "fulfilled", "waived"}]]
  /\ diagnosed \subseteq Jobs
  /\ inspection \in [Inspections -> [wo : WorkOrders \cup {None},
                                     result : {"none", "pending", "passed", "failed"}]]
  /\ rework \in [WorkOrders -> [critical : BOOLEAN, lead : Technicians \cup {None},
                                signed : Technicians \cup {None}]]
  /\ tx \in [Sessions -> Tx]

\* What a closure may rely on for good. Without a mandatory check a failed
\* inspection may still come after the closure.
Lasting == Blockers \ (IF MandatoryQc THEN {} ELSE {5})

\* A closed work order is complete and stays so: no job open, nobody at work on it,
\* no additional work undecided or undone, every required diagnosis made, quality
\* control passed, rework signed off; whatever raced the closure.
ClosedComplete ==
  \A w \in WorkOrders : state[w] \in Closing => \A b \in Lasting : ~Blocked(b, w)

\* Nothing reaches a closed or cancelled work order: no job, no labour, no
\* additional work and no decision about it, and no transition.
TerminalFrozen ==
  [][\A w \in WorkOrders : state[w] \in WoTerminal =>
       /\ state'[w] = state[w]
       /\ JobsOf(w)' = JobsOf(w)
       /\ \A l \in Labours : labour'[l].job \in JobsOf(w) => labour[l] = labour'[l]
       /\ \A r \in Requests : request'[r].job \in JobsOf(w) => request[r] = request'[r]]_vars

\* No job enters a state of labour while additional work it discovered awaits the
\* customer, although the requests are read without a lock: the foreign key of a
\* new request waits for the job.
SettledBeforeLabour ==
  [][\A j \in Jobs : job'[j].state # job[j].state /\ job[j].state # None
                     /\ job'[j].state \in LabourAllowed => Settled(j)]_vars

\* A job never has two active primary assignments: the lock on the job orders
\* assign and reassign, before the unique index would refuse one of them.
OnePrimary ==
  \A j \in Jobs : \A a, b \in ActivePrimaries(j) : a = b

\* Labour runs only while the job is in a state that allows it.
LabourWhereAllowed ==
  \A l \in Labours : labour[l].job # None => job[labour[l].job].state \in LabourAllowed

\* No quality control is opened on a terminal work order.
InspectedBeforeRelease ==
  [][\A q \in Inspections : inspection[q].wo = None /\ inspection'[q].wo # None
       => state[inspection'[q].wo] \notin WoTerminal]_vars

-----------------------------------------------------------------------------
(* The abstract specification: every request is one entry in the files.    *)

Files == INSTANCE WorkOrderFile

\* Locks and queries apart, every request is decided on the tables as they are when it
\* commits: also the closure, which asks for its blockers one after the other, and the
\* job transition and the assignment, which have the job but not the work order.
RequestsAreAtomic == Files!FSpec

-----------------------------------------------------------------------------
(* What an open transaction has read and still holds, besides.             *)

\* An edge once looked up is still one to take; a job that is held goes on; the
\* technician a reassignment replaces is somebody else; a session under correction runs.
EdgesHold ==
  \A s \in Sessions :
    /\ tx[s].kind = "close" => <<state[tx[s].wo], tx[s].to>> \in WoGraph
    /\ tx[s].kind = "inspect" => state[tx[s].wo] # None
    /\ tx[s].kind = "transition" => <<job[tx[s].job].state, tx[s].to>> \in JobGraph
    /\ tx[s].kind \in {"assign", "reassign"} => job[tx[s].job].state \notin JobTerminal
    /\ tx[s].kind = "reassign" =>
         /\ tx[s].to = "primary"
         /\ \A a \in ActivePrimaries(tx[s].job) : assignment[a].tech # tx[s].tech
    /\ tx[s].kind = "correct" =>
         /\ labour[tx[s].row].job \in Jobs
         /\ \A u \in Sessions \ {s} : tx[u].kind = "correct" => tx[u].row # tx[s].row

=============================================================================
