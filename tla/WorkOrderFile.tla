--------------------------- MODULE WorkOrderFile ---------------------------
(***************************************************************************)
(* What the workshop promises, as if each work order had one file that one *)
(* clerk writes: every request that succeeds is one entry, decided on the  *)
(* files as they are at that moment. One that fails leaves no entry.       *)
(***************************************************************************)
CONSTANTS
  WorkOrders, Jobs, Technicians, Assignments, Labours, Requests, Inspections,
  WoStates, WoStart, WoGraph, WoTerminal, WoCancelled, TakesJobs, TakesRequests,
  JobStates, JobGraph, JobTerminal, LabourAllowed, MandatoryQc, None

VARIABLES
  state,        \* of each work order
  rework,       \* whose rework it is, and who signed it off
  job,          \* of a work order
  assignment,   \* of a technician to a job
  labour,       \* that runs
  request,      \* for additional work
  diagnosed,    \* jobs
  inspection    \* of a work order

orders == <<state, rework>>
work == <<job, assignment, labour>>
findings == <<request, diagnosed, inspection>>
fvars == <<orders, work, findings>>

Closing == WoTerminal \ WoCancelled
Live(w) == state[w] \in WoStates \ WoTerminal

Of(w) == {j \in Jobs : job[j].wo = w}
Undecided(r) == request[r].required /\ request[r].state = "pending"
Undone(r) == /\ request[r].required /\ request[r].state = "approved"
             /\ request[r].fulfilment = "unfulfilled"

Complete(w) ==
  /\ \A j \in Of(w) : /\ job[j].state \in JobTerminal
                      /\ job[j].diagnostic => j \in diagnosed
  /\ \A l \in Labours : labour[l].job \notin Of(w)
  /\ \A r \in Requests : request[r].job \in Of(w) => ~Undecided(r) /\ ~Undone(r)
  /\ MandatoryQc => \E q \in Inspections : inspection[q] = [wo |-> w, result |-> "passed"]
  /\ rework[w].critical => rework[w].signed # None

\* A work order is opened, for rework of a closed one too.
Open(w) ==
  /\ state[w] = None
  /\ state' = [state EXCEPT ![w] = WoStart]
  /\ \/ rework' = rework
     \/ \E v \in WorkOrders, critical \in BOOLEAN, lead \in Technicians :
          /\ state[v] \in Closing
          /\ rework' = [rework EXCEPT ![w] =
                          [critical |-> critical, lead |-> lead, signed |-> None]]
  /\ UNCHANGED <<work, findings>>

\* It is closed when it is complete, and not touched again.
Move(w, to) ==
  /\ Live(w) /\ <<state[w], to>> \in WoGraph
  /\ to \in Closing => Complete(w)
  /\ state' = [state EXCEPT ![w] = to]
  /\ UNCHANGED <<rework, work, findings>>

SignOff(w, t) ==
  /\ rework[w].signed = None /\ rework[w].lead \notin {None, t}
  /\ rework' = [rework EXCEPT ![w].signed = t]
  /\ UNCHANGED <<state, work, findings>>

Plan(j, w, initial, diagnostic) ==
  /\ job[j].state = None /\ Live(w)
  /\ state[w] \in TakesJobs
  /\ job' = [job EXCEPT ![j] = [wo |-> w, state |-> initial, diagnostic |-> diagnostic]]
  /\ UNCHANGED <<orders, assignment, labour, findings>>

Amend(j, diagnostic) ==
  /\ job[j].state # None /\ Live(job[j].wo)
  /\ job' = [job EXCEPT ![j].diagnostic = diagnostic]
  /\ UNCHANGED <<orders, assignment, labour, findings>>

\* A job that goes on belongs to a work order that is not closed. It is not worked on
\* while the customer is asked.
GoesOn(j) == /\ job[j].state \in JobStates \ JobTerminal
             /\ state[job[j].wo] \notin Closing

Advance(j, to) ==
  /\ GoesOn(j) /\ <<job[j].state, to>> \in JobGraph
  /\ to \in LabourAllowed => \A r \in Requests : request[r].job = j => ~Undecided(r)
  /\ job' = [job EXCEPT ![j].state = to]
  /\ UNCHANGED <<orders, assignment, labour, findings>>

\* A new primary technician follows the one there was, and is somebody else.
Assign(a, j, t, role) ==
  LET before == {b \in Assignments : role = "primary" /\ assignment[b].job = j
                                       /\ assignment[b].role = "primary"} IN
  /\ GoesOn(j) /\ assignment[a].job = None
  /\ \A b \in before : assignment[b].tech # t
  /\ assignment' = [b \in Assignments |->
       IF b = a THEN [job |-> j, tech |-> t, role |-> role]
       ELSE IF b \in before THEN [job |-> None, tech |-> None, role |-> "assist"]
       ELSE assignment[b]]
  /\ UNCHANGED <<orders, job, labour, findings>>

Unassign(a) ==
  /\ assignment[a].job # None
  /\ assignment' = [assignment EXCEPT ![a] = [job |-> None, tech |-> None, role |-> "assist"]]
  /\ UNCHANGED <<orders, job, labour, findings>>

\* A technician works on one thing at a time, and on nothing that has ended.
Start(l, j, t) ==
  /\ labour[l].job = None /\ job[j].state # None /\ Live(job[j].wo)
  /\ \A m \in Labours : labour[m].tech # t
  /\ labour' = [labour EXCEPT ![l] = [job |-> j, tech |-> t]]
  /\ UNCHANGED <<orders, job, assignment, findings>>

Stop(l) ==
  /\ labour[l].job # None
  /\ labour' = [labour EXCEPT ![l] = [job |-> None, tech |-> None]]
  /\ UNCHANGED <<orders, job, assignment, findings>>

Raise(r, j, required) ==
  /\ request[r].state = "none" /\ job[j].state # None
  /\ Live(job[j].wo) /\ state[job[j].wo] \in TakesRequests
  /\ request' = [request EXCEPT ![r] = [job |-> j, required |-> required,
                                        state |-> "pending", fulfilment |-> "unfulfilled"]]
  /\ UNCHANGED <<orders, work, diagnosed, inspection>>

Asked(r) == request[r].job \in Jobs /\ Live(job[request[r].job].wo)

\* It is decided once; what was approved is done or waived.
Decide(r, to) ==
  /\ Asked(r) /\ request[r].state = "pending"
  /\ request' = [request EXCEPT ![r].state = to]
  /\ UNCHANGED <<orders, work, diagnosed, inspection>>

Fulfil(r, to) ==
  /\ Asked(r) /\ request[r].state = "approved" /\ request[r].fulfilment # to
  /\ request' = [request EXCEPT ![r].fulfilment = to]
  /\ UNCHANGED <<orders, work, diagnosed, inspection>>

\* What the findings say comes at any time, also when the work order has ended.
Diagnose(j) ==
  /\ job[j].state # None
  /\ diagnosed' = diagnosed \cup {j}
  /\ UNCHANGED <<orders, work, request, inspection>>

Inspect(q, w) ==
  /\ inspection[q].wo = None /\ state[w] # None
  /\ inspection' = [inspection EXCEPT ![q] = [wo |-> w, result |-> "pending"]]
  /\ UNCHANGED <<orders, work, request, diagnosed>>

Judge(q, result) ==
  /\ inspection[q].result = "pending"
  /\ inspection' = [inspection EXCEPT ![q].result = result]
  /\ UNCHANGED <<orders, work, request, diagnosed>>

FInit ==
  /\ state = [w \in WorkOrders |-> None]
  /\ rework = [w \in WorkOrders |-> [critical |-> FALSE, lead |-> None, signed |-> None]]
  /\ job = [j \in Jobs |-> [wo |-> None, state |-> None, diagnostic |-> FALSE]]
  /\ assignment = [a \in Assignments |-> [job |-> None, tech |-> None, role |-> "assist"]]
  /\ labour = [l \in Labours |-> [job |-> None, tech |-> None]]
  /\ request = [r \in Requests |-> [job |-> None, required |-> FALSE, state |-> "none",
                                    fulfilment |-> "unfulfilled"]]
  /\ diagnosed = {}
  /\ inspection = [q \in Inspections |-> [wo |-> None, result |-> "none"]]

FNext ==
  \/ \E w \in WorkOrders :
       \/ Open(w) \/ \E to \in WoStates : Move(w, to)
       \/ \E t \in Technicians : SignOff(w, t)
       \/ \E q \in Inspections : Inspect(q, w)
  \/ \E j \in Jobs :
       \/ \E w \in WorkOrders, i \in JobStates \ JobTerminal, d \in BOOLEAN : Plan(j, w, i, d)
       \/ \E d \in BOOLEAN : Amend(j, d)
       \/ \E to \in JobStates : Advance(j, to)
       \/ \E a \in Assignments, t \in Technicians, role \in {"primary", "assist"} :
            Assign(a, j, t, role)
       \/ \E l \in Labours, t \in Technicians : Start(l, j, t)
       \/ \E r \in Requests, required \in BOOLEAN : Raise(r, j, required)
       \/ Diagnose(j)
  \/ \E a \in Assignments : Unassign(a)
  \/ \E l \in Labours : Stop(l)
  \/ \E r \in Requests : \/ \E to \in {"approved", "rejected", "withdrawn"} : Decide(r, to)
                        \/ \E to \in {"fulfilled", "waived"} : Fulfil(r, to)
  \/ \E q \in Inspections, result \in {"passed", "failed"} : Judge(q, result)

FSpec == FInit /\ [][FNext]_fvars

=============================================================================
