--------------------------- MODULE WorkshopProofs ---------------------------
(***************************************************************************)
(* Theorems about Workshop for every catalog of states, flags and edges    *)
(* and all sets of work orders, jobs, people, rows and connections, and    *)
(* that it implements WorkOrderFile.                                       *)
(***************************************************************************)
EXTENDS Workshop, TLAPS

Holders == {"transition", "assign", "reassign"}

\* A row that names a job names one that exists, and a job its work order.
Referenced ==
  /\ \A j \in Jobs : job[j].state # None => job[j].wo \in WorkOrders
  /\ \A j \in Jobs : job[j].state = None => job[j].wo = None
  /\ \A r \in Requests : request[r].job \in Jobs => job[request[r].job].state # None
  /\ \A l \in Labours : labour[l].job \in Jobs => job[labour[l].job].state # None
  /\ \A q \in Inspections : inspection[q].wo = None => inspection[q].result = "none"

\* What a transaction is about exists.
TxOK ==
  \A s \in Sessions :
    /\ tx[s].kind = "close" => /\ tx[s].wo \in WorkOrders /\ tx[s].to \in Closing
                               /\ Live(tx[s].wo)
    /\ tx[s].kind \in Holders \cup {"labour", "correct", "diagnose"} =>
         tx[s].job \in Jobs /\ job[tx[s].job].state # None
    /\ tx[s].kind = "transition" => tx[s].to \in JobStates
    /\ tx[s].kind \in {"assign", "reassign"} =>
         tx[s].tech \in Technicians /\ tx[s].to \in {"primary", "assist"}
    /\ tx[s].kind = "labour" => tx[s].tech \in Technicians
    /\ tx[s].kind = "correct" => tx[s].row \in Labours
    /\ tx[s].kind = "inspect" => tx[s].wo \in WorkOrders

\* Two transactions never hold the same row.
Exclusive ==
  \A s, u \in Sessions :
    /\ tx[s].kind = "close" /\ tx[u].kind = "close" /\ tx[s].wo = tx[u].wo => s = u
    /\ tx[s].kind \in Holders /\ tx[u].kind \in Holders /\ tx[s].job = tx[u].job => s = u

\* The blockers a closure has asked for still do not hold.
PassedHolds ==
  \A s \in Sessions, w \in WorkOrders : tx[s].kind = "close" /\ tx[s].wo = w =>
    \A b \in Lasting : b <= tx[s].passed => ~Blocked(b, w)

\* What a transition and an assignment have read still holds.
ReadHolds ==
  \A s \in Sessions :
    /\ tx[s].kind = "transition" => job[tx[s].job].state \notin JobTerminal
    /\ tx[s].kind = "transition" /\ tx[s].to \in LabourAllowed => Settled(tx[s].job)
    /\ tx[s].kind = "assign" /\ tx[s].to = "primary" => ActivePrimaries(tx[s].job) = {}

Inv == /\ TypeOK /\ Referenced /\ TxOK /\ Exclusive
       /\ PassedHolds /\ ReadHolds /\ ClosedComplete /\ OnePrimary
-----------------------------------------------------------------------------
(* Which steps write which table.                                          *)

WritesState ==
  \/ \E w \in WorkOrders : OpenWorkOrder(w)
  \/ \E w, v \in WorkOrders, c \in BOOLEAN, t \in Technicians : CreateRework(w, v, c, t)
  \/ \E w \in WorkOrders, to \in WoStates : Transition(w, to)
  \/ \E s \in Sessions : FinishClose(s)

WritesJob ==
  \/ \E j \in Jobs, w \in WorkOrders, i \in JobStates \ JobTerminal, d \in BOOLEAN :
       CreateJob(j, w, i, d)
  \/ \E j \in Jobs, d \in BOOLEAN : UpdateJob(j, d)
  \/ \E s \in Sessions : FinishJobTransition(s)

WritesAssignment ==
  \/ \E a \in Assignments : EndAssignment(a)
  \/ \E s \in Sessions, a \in Assignments : FinishAssign(s, a)

WritesLabour ==
  \/ \E l \in Labours : StopLabour(l)
  \/ \E s \in Sessions, l \in Labours : StartLabour(s, l)
  \/ \E s \in Sessions : FinishCorrection(s)

WritesRequest ==
  \/ \E r \in Requests, j \in Jobs, required \in BOOLEAN : Raise(r, j, required)
  \/ \E r \in Requests, to \in {"approved", "rejected", "withdrawn"} : Decide(r, to)
  \/ \E r \in Requests, to \in {"fulfilled", "waived"} : SetFulfilment(r, to)

WritesInspection ==
  \/ \E q \in Inspections, result \in {"passed", "failed"} : Finalize(q, result)
  \/ \E s \in Sessions, q \in Inspections : FinishInspection(s, q)

WritesRework ==
  \/ \E w, v \in WorkOrders, c \in BOOLEAN, t \in Technicians : CreateRework(w, v, c, t)
  \/ \E w \in WorkOrders, t \in Technicians : SignOff(w, t)

WritesTx ==
  \E s \in Sessions : End(s) \/ BeginStep(s) \/ CheckBlocker(s)

Frame ==
  /\ UNCHANGED state \/ WritesState
  /\ UNCHANGED job \/ WritesJob
  /\ UNCHANGED assignment \/ WritesAssignment
  /\ UNCHANGED labour \/ WritesLabour
  /\ UNCHANGED request \/ WritesRequest
  /\ UNCHANGED diagnosed \/ \E s \in Sessions : FinishDiagnosis(s)
  /\ UNCHANGED inspection \/ WritesInspection
  /\ UNCHANGED rework \/ WritesRework
  /\ UNCHANGED tx \/ WritesTx

\* Every step writes the tables of its part and no others.
LEMMA StepFrame == Next => Frame
<1> SUFFICES ASSUME Next PROVE Frame OBVIOUS
<1>1. CASE WorkOrderStep
  <2>1. UNCHANGED <<job, assignment, labour, request, diagnosed, inspection, tx>>
    BY <1>1 DEF WorkOrderStep, OpenWorkOrder, CreateRework, SignOff, Transition
  <2>2. UNCHANGED state \/ WritesState
    BY <1>1 DEF WorkOrderStep, WritesState, SignOff
  <2>3. UNCHANGED rework \/ WritesRework
    BY <1>1 DEF WorkOrderStep, WritesRework, OpenWorkOrder, Transition
  <2> QED BY <2>1, <2>2, <2>3 DEF Frame
<1>2. CASE JobStep
  <2>1. UNCHANGED <<state, request, diagnosed, inspection, rework, tx>>
    BY <1>2 DEF JobStep, CreateJob, UpdateJob, EndAssignment, StopLabour
  <2>2. UNCHANGED job \/ WritesJob
    BY <1>2 DEF JobStep, WritesJob, EndAssignment, StopLabour
  <2>3. UNCHANGED assignment \/ WritesAssignment
    BY <1>2 DEF JobStep, WritesAssignment, CreateJob, UpdateJob, StopLabour
  <2>4. UNCHANGED labour \/ WritesLabour
    BY <1>2 DEF JobStep, WritesLabour, CreateJob, UpdateJob, EndAssignment
  <2> QED BY <2>1, <2>2, <2>3, <2>4 DEF Frame
<1>3. CASE RequestStep
  <2>1. UNCHANGED <<state, job, assignment, labour, diagnosed, rework, tx>>
    BY <1>3 DEF RequestStep, Raise, Decide, SetFulfilment, Finalize
  <2>2. UNCHANGED request \/ WritesRequest
    BY <1>3 DEF RequestStep, WritesRequest, Finalize
  <2>3. UNCHANGED inspection \/ WritesInspection
    BY <1>3 DEF RequestStep, WritesInspection, Raise, Decide, SetFulfilment
  <2> QED BY <2>1, <2>2, <2>3 DEF Frame
<1>4. ASSUME NEW s \in Sessions, BeginStep(s) PROVE Frame
  <2>1. UNCHANGED <<state, job, assignment, labour, request, diagnosed, inspection, rework>>
    BY <1>4 DEF BeginStep, BeginClose, BeginInspection, BeginJobTransition, BeginAssign,
                BeginLabour, BeginCorrection, BeginDiagnosis
  <2>2. WritesTx BY <1>4 DEF WritesTx
  <2> QED BY <2>1, <2>2 DEF Frame
<1>5. ASSUME NEW s \in Sessions, EndStep(s) PROVE Frame
  <2>1. WritesTx
    BY <1>5 DEF WritesTx, EndStep, FinishClose, FinishJobTransition, FinishAssign,
                StartLabour, FinishCorrection, FinishDiagnosis, FinishInspection, Rollback
  <2>2. CASE CheckBlocker(s) \/ Rollback(s)
    BY <2>1, <2>2 DEF CheckBlocker, Rollback, Frame
  <2>3. CASE FinishClose(s)
    BY <2>1, <2>3 DEF FinishClose, Frame, WritesState
  <2>4. CASE FinishJobTransition(s)
    BY <2>1, <2>4 DEF FinishJobTransition, Frame, WritesJob
  <2>5. CASE \E a \in Assignments : FinishAssign(s, a)
    BY <2>1, <2>5 DEF FinishAssign, Frame, WritesAssignment
  <2>6. CASE \E l \in Labours : StartLabour(s, l)
    BY <2>1, <2>6 DEF StartLabour, Frame, WritesLabour
  <2>7. CASE FinishCorrection(s)
    BY <2>1, <2>7 DEF FinishCorrection, Frame, WritesLabour
  <2>8. CASE FinishDiagnosis(s)
    BY <2>1, <2>8 DEF FinishDiagnosis, Frame
  <2>9. CASE \E q \in Inspections : FinishInspection(s, q)
    BY <2>1, <2>9 DEF FinishInspection, Frame, WritesInspection
  <2> QED BY <1>5, <2>2, <2>3, <2>4, <2>5, <2>6, <2>7, <2>8, <2>9 DEF EndStep
<1> QED BY <1>1, <1>2, <1>3, <1>4, <1>5 DEF Next

-----------------------------------------------------------------------------
(* Types.                                                                  *)

JobRow == [wo : WorkOrders \cup {None}, state : JobStates \cup {None}, diagnostic : BOOLEAN]
RequestRow == [job : Jobs \cup {None}, required : BOOLEAN,
               state : {"none", "pending", "approved", "rejected", "withdrawn"},
               fulfilment : {"unfulfilled", "fulfilled", "waived"}]
InspectionRow == [wo : WorkOrders \cup {None},
                  result : {"none", "pending", "passed", "failed"}]
ReworkRow == [critical : BOOLEAN, lead : Technicians \cup {None},
              signed : Technicians \cup {None}]

\* A row stays a row when one of its columns is written.
LEMMA RowWrites ==
  /\ \A x \in JobRow, d \in BOOLEAN : [x EXCEPT !.diagnostic = d] \in JobRow
  /\ \A x \in JobRow, to \in JobStates : [x EXCEPT !.state = to] \in JobRow
  /\ \A x \in RequestRow, to \in {"approved", "rejected", "withdrawn"} :
       [x EXCEPT !.state = to] \in RequestRow
  /\ \A x \in RequestRow, to \in {"fulfilled", "waived"} :
       [x EXCEPT !.fulfilment = to] \in RequestRow
  /\ \A x \in InspectionRow, to \in {"passed", "failed"} :
       [x EXCEPT !.result = to] \in InspectionRow
  /\ \A x \in ReworkRow, t \in Technicians : [x EXCEPT !.signed = t] \in ReworkRow
<1>1. \A x \in JobRow, d \in BOOLEAN : [x EXCEPT !.diagnostic = d] \in JobRow BY DEF JobRow
<1>2. \A x \in JobRow, to \in JobStates : [x EXCEPT !.state = to] \in JobRow BY DEF JobRow
<1>3. \A x \in RequestRow, to \in {"approved", "rejected", "withdrawn"} :
        [x EXCEPT !.state = to] \in RequestRow BY DEF RequestRow
<1>4. \A x \in RequestRow, to \in {"fulfilled", "waived"} :
        [x EXCEPT !.fulfilment = to] \in RequestRow BY DEF RequestRow
<1>5. \A x \in InspectionRow, to \in {"passed", "failed"} :
        [x EXCEPT !.result = to] \in InspectionRow BY DEF InspectionRow
<1>6. \A x \in ReworkRow, t \in Technicians : [x EXCEPT !.signed = t] \in ReworkRow
  BY DEF ReworkRow
<1> QED BY <1>1, <1>2, <1>3, <1>4, <1>5, <1>6

\* The transaction of an idle session is well typed.
LEMMA IdleType == Idle \in Tx
  BY DEF Idle, Tx

\* A transaction that begins or ends is one.
LEMMA TxStep ==
  ASSUME tx \in [Sessions -> Tx], NEW s \in Sessions
  PROVE  /\ End(s) => tx' \in [Sessions -> Tx] /\ tx' = [tx EXCEPT ![s] = Idle]
         /\ \A t \in Tx : Begin(s, t) => tx' \in [Sessions -> Tx]
  BY IdleType DEF End, Begin

\* What each kind of transaction begins with.
Begun(t) ==
  \/ /\ t.kind = "close" /\ t.wo \in WorkOrders /\ t.to \in Closing /\ t.passed = 0
     /\ FreeWo(t.wo) /\ Live(t.wo)
  \/ t.kind = "inspect" /\ t.wo \in WorkOrders
  \/ /\ t.kind = "transition" /\ t.job \in Jobs /\ t.to \in JobStates
     /\ job[t.job].state \notin JobTerminal \cup {None} /\ FreeJob(t.job)
     /\ t.to \in LabourAllowed => Settled(t.job)
  \/ /\ t.kind \in {"assign", "reassign"} /\ t.job \in Jobs /\ FreeJob(t.job)
     /\ job[t.job].state # None
     /\ t.tech \in Technicians /\ t.to \in {"primary", "assist"}
     /\ t.kind = "assign" /\ t.to = "primary" => ActivePrimaries(t.job) = {}
  \/ /\ t.kind = "labour" /\ t.job \in Jobs /\ job[t.job].state # None
     /\ t.tech \in Technicians
  \/ /\ t.kind = "correct" /\ t.job \in Jobs /\ t.row \in Labours
     /\ \E l \in Labours : labour[l].job = t.job
  \/ t.kind = "diagnose" /\ t.job \in Jobs /\ job[t.job].state # None

\* A transaction begins with one of the kinds and nothing checked yet.
LEMMA BeginKinds ==
  ASSUME TypeOK, NEW s \in Sessions, BeginStep(s)
  PROVE  \E t \in Tx : Begin(s, t) /\ Begun(t)
<1> USE DEF Begun
<1>1. CASE \E w \in WorkOrders, to \in WoStates : BeginClose(s, w, to)
  <2>1. PICK w \in WorkOrders, to \in WoStates : BeginClose(s, w, to) BY <1>1
  <2>2. [Idle EXCEPT !.kind = "close", !.wo = w, !.to = to] \in Tx BY IdleType DEF Tx
  <2> QED BY <2>1, <2>2 DEF BeginClose, Idle
<1>2. CASE \E w \in WorkOrders : BeginInspection(s, w)
  <2>1. PICK w \in WorkOrders : BeginInspection(s, w) BY <1>2
  <2>2. [Idle EXCEPT !.kind = "inspect", !.wo = w] \in Tx BY IdleType DEF Tx
  <2> QED BY <2>1, <2>2 DEF BeginInspection, Idle
<1>3. CASE \E j \in Jobs, to \in JobStates : BeginJobTransition(s, j, to)
  <2>1. PICK j \in Jobs, to \in JobStates : BeginJobTransition(s, j, to) BY <1>3
  <2>2. [Idle EXCEPT !.kind = "transition", !.job = j, !.to = to] \in Tx BY IdleType DEF Tx
  <2> QED BY <2>1, <2>2 DEF BeginJobTransition, Idle
<1>4. CASE \E j \in Jobs, t \in Technicians, kind \in {"assign", "reassign"},
              role \in {"primary", "assist"} : BeginAssign(s, j, t, kind, role)
  <2>1. PICK j \in Jobs, t \in Technicians, kind \in {"assign", "reassign"},
             role \in {"primary", "assist"} : BeginAssign(s, j, t, kind, role) BY <1>4
  <2>2. [Idle EXCEPT !.kind = kind, !.job = j, !.tech = t, !.to = role] \in Tx
    BY IdleType DEF Tx
  <2>3. job[j].state # None
    BY <2>1, CatalogAssumption, NoneAssumption DEF BeginAssign, LockAssignable
  <2> QED BY <2>1, <2>2, <2>3 DEF BeginAssign, LockAssignable, Idle
<1>5. CASE \E j \in Jobs, t \in Technicians : BeginLabour(s, t, j)
  <2>1. PICK j \in Jobs, t \in Technicians : BeginLabour(s, t, j) BY <1>5
  <2>2. [Idle EXCEPT !.kind = "labour", !.job = j, !.tech = t] \in Tx BY IdleType DEF Tx
  <2>3. job[j].state # None
    BY <2>1, CatalogAssumption, NoneAssumption DEF BeginLabour
  <2> QED BY <2>1, <2>2, <2>3 DEF BeginLabour, Idle
<1>6. CASE \E l \in Labours : BeginCorrection(s, l)
  <2>1. PICK l \in Labours : BeginCorrection(s, l) BY <1>6
  <2>2. labour[l].job \in Jobs BY <2>1 DEF BeginCorrection, TypeOK
  <2>3. [Idle EXCEPT !.kind = "correct", !.job = labour[l].job, !.row = l] \in Tx
    BY <2>2, IdleType DEF Tx
  <2> QED BY <2>1, <2>2, <2>3 DEF BeginCorrection, Idle
<1>7. CASE \E j \in Jobs : BeginDiagnosis(s, j)
  <2>1. PICK j \in Jobs : BeginDiagnosis(s, j) BY <1>7
  <2>2. [Idle EXCEPT !.kind = "diagnose", !.job = j] \in Tx BY IdleType DEF Tx
  <2> QED BY <2>1, <2>2 DEF BeginDiagnosis, Idle
<1> QED BY <1>1, <1>2, <1>3, <1>4, <1>5, <1>6, <1>7 DEF BeginStep

\* Every step that moves a transaction keeps its type.
LEMMA TxTypeStep ==
  ASSUME TypeOK, WritesTx PROVE tx' \in [Sessions -> Tx]
<1>0. tx \in [Sessions -> Tx] BY DEF TypeOK
<1>1. PICK s \in Sessions : End(s) \/ BeginStep(s) \/ CheckBlocker(s) BY DEF WritesTx
<1>2. CASE End(s) BY <1>0, <1>2, TxStep
<1>3. CASE BeginStep(s)
  <2>1. PICK t \in Tx : Begin(s, t) BY <1>3, BeginKinds
  <2> QED BY <1>0, <2>1, TxStep
<1>4. CASE CheckBlocker(s)
  <2>1. tx[s].passed + 1 \in 0..6 BY <1>4 DEF CheckBlocker, Blockers
  <2>2. [tx[s] EXCEPT !.passed = tx[s].passed + 1] \in Tx BY <1>0, <2>1 DEF Tx
  <2>3. tx' = [tx EXCEPT ![s] = [tx[s] EXCEPT !.passed = tx[s].passed + 1]]
    BY <1>0, <1>4 DEF CheckBlocker
  <2> QED BY <1>0, <2>2, <2>3
<1> QED BY <1>1, <1>2, <1>3, <1>4

\* The types hold initially.
LEMMA TypeInit == Init => TypeOK
  BY IdleType, CatalogAssumption
  DEF Init, TypeOK, NoJob, NoAssignment, NoLabour, NoRequest, NoInspection, NoRework

\* Every table keeps its type in a step that writes it.
LEMMA TypeStep ==
  ASSUME TypeOK, Referenced, TxOK, Next PROVE TypeOK'
<1>0. Frame BY StepFrame
<1>t. /\ job \in [Jobs -> JobRow] /\ request \in [Requests -> RequestRow]
      /\ inspection \in [Inspections -> InspectionRow] /\ rework \in [WorkOrders -> ReworkRow]
  BY DEF TypeOK, JobRow, RequestRow, InspectionRow, ReworkRow
<1>1. state' \in [WorkOrders -> WoStates \cup {None}]
  <2>1. CASE WritesState
    BY <2>1, CatalogAssumption
    DEF TypeOK, TxOK, WritesState, OpenWorkOrder, CreateRework, Transition, FinishClose, Closing
  <2> QED BY <1>0, <2>1 DEF Frame, TypeOK
<1>2. job' \in [Jobs -> JobRow]
  <2>1. CASE WritesJob
    <3>1. ASSUME NEW j \in Jobs, NEW w \in WorkOrders, NEW i \in JobStates, NEW d \in BOOLEAN,
                 CreateJob(j, w, i, d)
          PROVE  job' \in [Jobs -> JobRow]
      BY <1>t, <3>1 DEF CreateJob, JobRow
    <3>2. ASSUME NEW j \in Jobs, NEW d \in BOOLEAN, UpdateJob(j, d)
          PROVE  job' \in [Jobs -> JobRow]
      <4>1. job' = [job EXCEPT ![j] = [job[j] EXCEPT !.diagnostic = d]]
        BY <1>t, <3>2 DEF UpdateJob
      <4> QED BY <1>t, <4>1, RowWrites
    <3>3. ASSUME NEW s \in Sessions, FinishJobTransition(s)
          PROVE  job' \in [Jobs -> JobRow]
      <4>1. tx[s].job \in Jobs /\ tx[s].to \in JobStates
        BY <3>3 DEF FinishJobTransition, TxOK, Holders
      <4>2. job' = [job EXCEPT ![tx[s].job] = [job[tx[s].job] EXCEPT !.state = tx[s].to]]
        BY <1>t, <3>3, <4>1 DEF FinishJobTransition
      <4> QED BY <1>t, <4>1, <4>2, RowWrites
    <3> QED BY <2>1, <3>1, <3>2, <3>3 DEF WritesJob
  <2> QED BY <1>0, <1>t, <2>1 DEF Frame
<1>3. assignment' \in [Assignments -> [job : Jobs \cup {None}, tech : Technicians \cup {None},
                                       role : {"primary", "assist"}]]
  <2>1. CASE WritesAssignment
    BY <2>1
    DEF TypeOK, TxOK, Holders, WritesAssignment, FinishAssign, EndAssignment, NoAssignment
  <2> QED BY <1>0, <2>1 DEF Frame, TypeOK
<1>4. labour' \in [Labours -> [job : Jobs \cup {None}, tech : Technicians \cup {None}]]
  <2>1. CASE WritesLabour
    <3>1. NoLabour \in [job : Jobs \cup {None}, tech : Technicians \cup {None}] BY DEF NoLabour
    <3>2. \/ \E l \in Labours : labour' = [labour EXCEPT ![l] = NoLabour]
          \/ \E l \in Labours, s \in Sessions : 
               /\ tx[s].job \in Jobs /\ tx[s].tech \in Technicians
               /\ labour' = [labour EXCEPT ![l] = [job |-> tx[s].job, tech |-> tx[s].tech]]
      BY <2>1 DEF TxOK, Holders, WritesLabour, StartLabour, StopLabour, FinishCorrection
    <3> QED BY <3>1, <3>2 DEF TypeOK
  <2> QED BY <1>0, <2>1 DEF Frame, TypeOK
<1>5. request' \in [Requests -> RequestRow]
  <2>1. CASE WritesRequest
    <3>1. CASE \E r \in Requests, j \in Jobs, required \in BOOLEAN : Raise(r, j, required)
      BY <1>t, <3>1 DEF Raise, RequestRow
    <3>2. ASSUME NEW r \in Requests, NEW to \in {"approved", "rejected", "withdrawn"},
                 Decide(r, to)
          PROVE  request' = [request EXCEPT ![r] = [request[r] EXCEPT !.state = to]]
      BY <1>t, <3>2 DEF Decide
    <3>3. ASSUME NEW r \in Requests, NEW to \in {"fulfilled", "waived"}, SetFulfilment(r, to)
          PROVE  request' = [request EXCEPT ![r] = [request[r] EXCEPT !.fulfilment = to]]
      BY <1>t, <3>3 DEF SetFulfilment
    <3>4. CASE \E r \in Requests, to \in {"approved", "rejected", "withdrawn"} : Decide(r, to)
      <4>1. PICK r \in Requests, to \in {"approved", "rejected", "withdrawn"} : Decide(r, to)
        BY <3>4
      <4>2. request' = [request EXCEPT ![r] = [request[r] EXCEPT !.state = to]] BY <3>2, <4>1
      <4>3. [request[r] EXCEPT !.state = to] \in RequestRow BY <1>t, RowWrites
      <4> QED BY <1>t, <4>2, <4>3
    <3>5. CASE \E r \in Requests, to \in {"fulfilled", "waived"} : SetFulfilment(r, to)
      <4>1. PICK r \in Requests, to \in {"fulfilled", "waived"} : SetFulfilment(r, to) BY <3>5
      <4>2. request' = [request EXCEPT ![r] = [request[r] EXCEPT !.fulfilment = to]]
        BY <3>3, <4>1
      <4>3. [request[r] EXCEPT !.fulfilment = to] \in RequestRow BY <1>t, RowWrites
      <4> QED BY <1>t, <4>2, <4>3
    <3> QED BY <2>1, <3>1, <3>4, <3>5 DEF WritesRequest
  <2> QED BY <1>0, <1>t, <2>1 DEF Frame
<1>6. diagnosed' \subseteq Jobs
  BY <1>0 DEF Frame, TypeOK, TxOK, FinishDiagnosis
<1>7. inspection' \in [Inspections -> InspectionRow]
  <2>1. CASE WritesInspection
    <3>1. \/ \E q \in Inspections, result \in {"passed", "failed"} :
               inspection' = [inspection EXCEPT ![q] = [inspection[q] EXCEPT !.result = result]]
          \/ \E q \in Inspections, w \in WorkOrders :
               inspection' = [inspection EXCEPT ![q] = [wo |-> w, result |-> "pending"]]
      BY <1>t, <2>1 DEF TxOK, WritesInspection, Finalize, FinishInspection
    <3>2. CASE \E q \in Inspections, w \in WorkOrders :
                 inspection' = [inspection EXCEPT ![q] = [wo |-> w, result |-> "pending"]]
      BY <1>t, <3>2 DEF InspectionRow
    <3>3. ASSUME NEW q \in Inspections, NEW result \in {"passed", "failed"},
                 inspection' = [inspection EXCEPT ![q] = [inspection[q] EXCEPT !.result = result]]
          PROVE  inspection' \in [Inspections -> InspectionRow]
      <4>1. [inspection[q] EXCEPT !.result = result] \in InspectionRow BY <1>t, RowWrites
      <4> QED BY <1>t, <3>3, <4>1
    <3> QED BY <3>1, <3>2, <3>3
  <2> QED BY <1>0, <1>t, <2>1 DEF Frame
<1>8. rework' \in [WorkOrders -> ReworkRow]
  <2>1. CASE WritesRework
    <3>1. \/ \E w \in WorkOrders, c \in BOOLEAN, t \in Technicians :
               rework' = [rework EXCEPT ![w] = [critical |-> c, lead |-> t, signed |-> None]]
          \/ \E w \in WorkOrders, t \in Technicians :
               rework' = [rework EXCEPT ![w] = [rework[w] EXCEPT !.signed = t]]
      BY <1>t, <2>1 DEF WritesRework, CreateRework, SignOff
    <3>2. CASE \E w \in WorkOrders, c \in BOOLEAN, t \in Technicians :
                 rework' = [rework EXCEPT ![w] = [critical |-> c, lead |-> t, signed |-> None]]
      BY <1>t, <3>2 DEF ReworkRow
    <3>3. ASSUME NEW w \in WorkOrders, NEW t \in Technicians,
                 rework' = [rework EXCEPT ![w] = [rework[w] EXCEPT !.signed = t]]
          PROVE  rework' \in [WorkOrders -> ReworkRow]
      <4>1. [rework[w] EXCEPT !.signed = t] \in ReworkRow BY <1>t, RowWrites
      <4> QED BY <1>t, <3>3, <4>1
    <3> QED BY <3>1, <3>2, <3>3
  <2> QED BY <1>0, <1>t, <2>1 DEF Frame
<1>9. tx' \in [Sessions -> Tx] BY <1>0, TxTypeStep DEF Frame, TypeOK
<1> QED BY <1>1, <1>2, <1>3, <1>4, <1>5, <1>6, <1>7, <1>8, <1>9
  DEF TypeOK, JobRow, RequestRow, InspectionRow, ReworkRow

-----------------------------------------------------------------------------
(* What a step does to one row.                                            *)

Data == <<state, job, assignment, labour, request, diagnosed, inspection, rework>>

\* A work order opens, or moves while it is live and nobody has it locked.
LEMMA StateChange ==
  ASSUME TypeOK, TxOK, Next, NEW w \in WorkOrders
  PROVE  \/ state'[w] = state[w]
         \/ state[w] = None /\ state'[w] = WoStart
         \/ FreeWo(w) /\ Live(w) /\ state'[w] \in WoStates \ Closing
         \/ \E s \in Sessions : /\ tx[s].kind = "close" /\ tx[s].wo = w /\ tx[s].passed = 6
                                /\ state'[w] = tx[s].to /\ tx'[s] = Idle
<1>1. UNCHANGED state \/ WritesState BY StepFrame DEF Frame
<1>2. CASE \E v \in WorkOrders : OpenWorkOrder(v) BY <1>2 DEF OpenWorkOrder, TypeOK
<1>3. CASE \E x, v \in WorkOrders, c \in BOOLEAN, t \in Technicians : CreateRework(x, v, c, t)
  BY <1>3 DEF CreateRework, TypeOK
<1>4. CASE \E v \in WorkOrders, to \in WoStates : Transition(v, to)
  BY <1>4 DEF Transition, TypeOK
<1>5. CASE \E s \in Sessions : FinishClose(s)
  <2>1. PICK s \in Sessions : FinishClose(s) BY <1>5
  <2>2. tx'[s] = Idle BY <2>1 DEF FinishClose, End, TypeOK
  <2> QED BY <2>1, <2>2 DEF FinishClose, TypeOK, TxOK
<1> QED BY <1>1, <1>2, <1>3, <1>4, <1>5 DEF WritesState

\* A job is added to, or moves within, a work order that is live and unlocked.
LEMMA JobChange ==
  ASSUME TypeOK, TxOK, Referenced, ReadHolds, Next, NEW j \in Jobs
  PROVE  \/ job'[j] = job[j]
         \/ /\ job[j].state = None /\ job'[j].state \in JobStates
            /\ job'[j].wo \in WorkOrders /\ FreeWo(job'[j].wo) /\ Live(job'[j].wo)
         \/ /\ job[j].state # None /\ job'[j].wo = job[j].wo /\ job'[j].state = job[j].state
            /\ FreeWo(job[j].wo) /\ Live(job[j].wo)
         \/ \E s \in Sessions :
              /\ tx[s].kind = "transition" /\ tx[s].job = j /\ tx'[s] = Idle
              /\ job[j].state \notin JobTerminal \cup {None} /\ job'[j].state = tx[s].to
              /\ job'[j].wo = job[j].wo /\ job'[j].diagnostic = job[j].diagnostic
<1>0. job \in [Jobs -> JobRow] BY DEF TypeOK, JobRow
<1>1. UNCHANGED job \/ WritesJob BY StepFrame DEF Frame
<1>2. ASSUME NEW i \in Jobs, NEW w \in WorkOrders, NEW to \in JobStates \ JobTerminal,
             NEW d \in BOOLEAN, CreateJob(i, w, to, d)
      PROVE  \/ job'[j] = job[j]
             \/ /\ job[j].state = None /\ job'[j].state \in JobStates
                /\ job'[j].wo \in WorkOrders /\ FreeWo(job'[j].wo) /\ Live(job'[j].wo)
  <2>1. CASE i = j BY <1>0, <1>2, <2>1 DEF CreateJob
  <2>2. CASE i # j BY <1>0, <1>2, <2>2 DEF CreateJob
  <2> QED BY <2>1, <2>2
<1>3. ASSUME NEW i \in Jobs, NEW d \in BOOLEAN, UpdateJob(i, d)
      PROVE  \/ job'[j] = job[j]
             \/ /\ job[j].state # None /\ job'[j].wo = job[j].wo /\ job'[j].state = job[j].state
                /\ FreeWo(job[j].wo) /\ Live(job[j].wo)
  <2>1. job' = [job EXCEPT ![i] = [job[i] EXCEPT !.diagnostic = d]]
    BY <1>0, <1>3 DEF UpdateJob
  <2>2. job[i] \in JobRow BY <1>0
  <2>3. /\ [job[i] EXCEPT !.diagnostic = d].wo = job[i].wo
        /\ [job[i] EXCEPT !.diagnostic = d].state = job[i].state BY <2>2 DEF JobRow
  <2> QED BY <1>0, <1>3, <2>1, <2>3 DEF UpdateJob
<1>4. ASSUME NEW s \in Sessions, FinishJobTransition(s)
      PROVE  \/ job'[j] = job[j]
             \/ /\ tx[s].kind = "transition" /\ tx[s].job = j /\ tx'[s] = Idle
                /\ job[j].state \notin JobTerminal \cup {None} /\ job'[j].state = tx[s].to
                /\ job'[j].wo = job[j].wo /\ job'[j].diagnostic = job[j].diagnostic
  <2>1. /\ tx[s].kind = "transition" /\ tx[s].job \in Jobs
        /\ job[tx[s].job].state \notin JobTerminal \cup {None}
    BY <1>4 DEF FinishJobTransition, TxOK, ReadHolds, Holders
  <2>2. job' = [job EXCEPT ![tx[s].job] = [job[tx[s].job] EXCEPT !.state = tx[s].to]]
    BY <1>0, <1>4 DEF FinishJobTransition
  <2>3. job[tx[s].job] \in JobRow BY <1>0, <2>1
  <2>4. /\ [job[tx[s].job] EXCEPT !.state = tx[s].to].wo = job[tx[s].job].wo
        /\ [job[tx[s].job] EXCEPT !.state = tx[s].to].diagnostic = job[tx[s].job].diagnostic
        /\ [job[tx[s].job] EXCEPT !.state = tx[s].to].state = tx[s].to
    BY <2>3 DEF JobRow
  <2>5. tx'[s] = Idle BY <1>4 DEF FinishJobTransition, End, TypeOK
  <2> QED BY <1>0, <2>1, <2>2, <2>4, <2>5
<1> QED BY <1>1, <1>2, <1>3, <1>4 DEF WritesJob

\* So is a labour line, on a job that exists.
LEMMA LabourChange ==
  ASSUME TypeOK, TxOK, Next, NEW l \in Labours
  PROVE  \/ labour'[l] = labour[l] \/ labour'[l].job = None
         \/ /\ labour'[l].job \in Jobs /\ job[labour'[l].job].state # None
            /\ FreeWo(job[labour'[l].job].wo) /\ Live(job[labour'[l].job].wo)
<1>1. UNCHANGED labour \/ WritesLabour BY StepFrame DEF Frame
<1>2. CASE \E m \in Labours : StopLabour(m) BY <1>2 DEF StopLabour, NoLabour, TypeOK
<1>3. CASE \E s \in Sessions : FinishCorrection(s)
  BY <1>3 DEF FinishCorrection, NoLabour, TypeOK
<1>4. CASE \E s \in Sessions, m \in Labours : StartLabour(s, m)
  <2>1. PICK s \in Sessions, m \in Labours : StartLabour(s, m) BY <1>4
  <2>2. tx[s].job \in Jobs /\ job[tx[s].job].state # None
    BY <2>1 DEF StartLabour, TxOK, Holders
  <2>3. CASE m = l BY <2>1, <2>2, <2>3 DEF StartLabour, TypeOK
  <2>4. CASE m # l BY <2>1, <2>4 DEF StartLabour, TypeOK
  <2> QED BY <2>3, <2>4
<1> QED BY <1>1, <1>2, <1>3, <1>4 DEF WritesLabour

\* So is a parts request.
LEMMA RequestChange ==
  ASSUME TypeOK, Referenced, Next, NEW r \in Requests
  PROVE  \/ request'[r] = request[r]
         \/ /\ request'[r].job \in Jobs /\ job[request'[r].job].state # None
            /\ FreeWo(job[request'[r].job].wo) /\ Live(job[request'[r].job].wo)
            /\ FreeJob(request'[r].job) \/ request'[r].state # "pending"
            /\ request[r].state = "none" \/ request[r].job = request'[r].job
<1>0. request \in [Requests -> RequestRow] BY DEF TypeOK, RequestRow
<1>1. UNCHANGED request \/ WritesRequest BY StepFrame DEF Frame
<1>2. CASE \E p \in Requests, j \in Jobs, required \in BOOLEAN : Raise(p, j, required)
  <2>1. PICK p \in Requests, j \in Jobs, required \in BOOLEAN : Raise(p, j, required) BY <1>2
  <2>2. CASE p = r BY <1>0, <2>1, <2>2 DEF Raise, ReferencesJob
  <2>3. CASE p # r BY <1>0, <2>1, <2>3 DEF Raise
  <2> QED BY <2>2, <2>3
<1>3. CASE \E p \in Requests, to \in {"approved", "rejected", "withdrawn"} : Decide(p, to)
  <2>1. PICK p \in Requests, to \in {"approved", "rejected", "withdrawn"} : Decide(p, to)
    BY <1>3
  <2>2. request' = [request EXCEPT ![p] = [request[p] EXCEPT !.state = to]]
    BY <1>0, <2>1 DEF Decide
  <2>3. request[p] \in RequestRow BY <1>0
  <2>4. /\ [request[p] EXCEPT !.state = to].job = request[p].job
        /\ [request[p] EXCEPT !.state = to].state = to BY <2>3 DEF RequestRow
  <2>5. to # "pending" BY <2>1
  <2> QED BY <1>0, <2>1, <2>2, <2>4, <2>5 DEF Decide, Decidable, Referenced
<1>4. CASE \E p \in Requests, to \in {"fulfilled", "waived"} : SetFulfilment(p, to)
  <2>1. PICK p \in Requests, to \in {"fulfilled", "waived"} : SetFulfilment(p, to) BY <1>4
  <2>2. request' = [request EXCEPT ![p] = [request[p] EXCEPT !.fulfilment = to]]
    BY <1>0, <2>1 DEF SetFulfilment
  <2>3. request[p] \in RequestRow BY <1>0
  <2>4. /\ [request[p] EXCEPT !.fulfilment = to].job = request[p].job
        /\ [request[p] EXCEPT !.fulfilment = to].state = request[p].state
    BY <2>3 DEF RequestRow
  <2> QED BY <1>0, <2>1, <2>2, <2>4 DEF SetFulfilment, Decidable, Referenced
<1> QED BY <1>1, <1>2, <1>3, <1>4 DEF WritesRequest

\* An inspection is opened, or decided while it is pending.
LEMMA InspectionChange ==
  ASSUME TypeOK, TxOK, Next, NEW q \in Inspections
  PROVE  \/ inspection'[q] = inspection[q]
         \/ inspection[q].wo = None /\ inspection'[q].wo \in WorkOrders
         \/ inspection[q].result = "pending" /\ inspection'[q].wo = inspection[q].wo
<1>0. inspection \in [Inspections -> InspectionRow] BY DEF TypeOK, InspectionRow
<1>1. UNCHANGED inspection \/ WritesInspection BY StepFrame DEF Frame
<1>2. CASE \E p \in Inspections, result \in {"passed", "failed"} : Finalize(p, result)
  <2>1. PICK p \in Inspections, result \in {"passed", "failed"} : Finalize(p, result) BY <1>2
  <2>2. inspection' = [inspection EXCEPT ![p] = [inspection[p] EXCEPT !.result = result]]
    BY <1>0, <2>1 DEF Finalize
  <2>3. inspection[p] \in InspectionRow BY <1>0
  <2>4. [inspection[p] EXCEPT !.result = result].wo = inspection[p].wo
    BY <2>3 DEF InspectionRow
  <2> QED BY <1>0, <2>1, <2>2, <2>4 DEF Finalize
<1>3. CASE \E s \in Sessions, p \in Inspections : FinishInspection(s, p)
  <2>1. PICK s \in Sessions, p \in Inspections : FinishInspection(s, p) BY <1>3
  <2>2. tx[s].wo \in WorkOrders BY <2>1 DEF FinishInspection, TxOK
  <2>3. CASE p = q BY <1>0, <2>1, <2>2, <2>3 DEF FinishInspection
  <2>4. CASE p # q BY <1>0, <2>1, <2>4 DEF FinishInspection
  <2> QED BY <2>3, <2>4
<1> QED BY <1>1, <1>2, <1>3 DEF WritesInspection

\* The rework of a work order that exists changes only by its sign-off.
LEMMA ReworkChange ==
  ASSUME TypeOK, Next, NEW w \in WorkOrders
  PROVE  rework'[w] = rework[w] \/ state[w] = None \/ rework'[w].signed # None
<1>0. rework \in [WorkOrders -> ReworkRow] BY DEF TypeOK, ReworkRow
<1>1. UNCHANGED rework \/ WritesRework BY StepFrame DEF Frame
<1>2. CASE \E x, v \in WorkOrders, c \in BOOLEAN, t \in Technicians : CreateRework(x, v, c, t)
  BY <1>0, <1>2 DEF CreateRework
<1>3. CASE \E v \in WorkOrders, t \in Technicians : SignOff(v, t)
  <2>1. PICK v \in WorkOrders, t \in Technicians : SignOff(v, t) BY <1>3
  <2>2. rework' = [rework EXCEPT ![v] = [rework[v] EXCEPT !.signed = t]]
    BY <1>0, <2>1 DEF SignOff
  <2>3. rework[v] \in ReworkRow BY <1>0
  <2>4. [rework[v] EXCEPT !.signed = t].signed # None BY <2>3, NoneAssumption DEF ReworkRow
  <2> QED BY <1>0, <2>2, <2>4
<1> QED BY <1>1, <1>2, <1>3 DEF WritesRework

\* A transaction that begins or asks for a blocker writes no table.
LEMMA QuietSteps ==
  ASSUME NEW s \in Sessions, BeginStep(s) \/ CheckBlocker(s) PROVE UNCHANGED Data
<1>1. CASE BeginStep(s)
  BY <1>1 DEF Data, BeginStep, BeginClose, BeginInspection, BeginJobTransition, BeginAssign,
              BeginLabour, BeginCorrection, BeginDiagnosis
<1>2. CASE CheckBlocker(s) BY <1>2 DEF Data, CheckBlocker
<1> QED BY <1>1, <1>2

\* A step ends transactions, or begins or advances one and writes no table.
LEMMA TxChange ==
  ASSUME TypeOK, Next
  PROVE  \/ \A u \in Sessions : tx'[u] = tx[u] \/ tx'[u] = Idle
         \/ /\ UNCHANGED Data
            /\ \E s \in Sessions : /\ Begun(tx'[s])
                                   /\ \A u \in Sessions \ {s} : tx'[u] = tx[u]
         \/ /\ UNCHANGED Data
            /\ \E s \in Sessions :
                 /\ CheckBlocker(s)
                 /\ \A u \in Sessions \ {s} : tx'[u] = tx[u]
                 /\ tx'[s].kind = tx[s].kind /\ tx'[s].wo = tx[s].wo /\ tx'[s].to = tx[s].to
                 /\ tx'[s].passed = tx[s].passed + 1
<1>0. tx \in [Sessions -> Tx] BY DEF TypeOK
<1>1. UNCHANGED tx \/ WritesTx BY StepFrame DEF Frame
<1>2. ASSUME NEW s \in Sessions, End(s)
      PROVE  \A u \in Sessions : tx'[u] = tx[u] \/ tx'[u] = Idle
  BY <1>0, <1>2 DEF End
<1>3. ASSUME NEW s \in Sessions, BeginStep(s)
      PROVE  /\ UNCHANGED Data /\ Begun(tx'[s])
             /\ \A u \in Sessions \ {s} : tx'[u] = tx[u]
  <2>1. PICK t \in Tx : Begin(s, t) /\ Begun(t) BY <1>3, BeginKinds
  <2>2. tx'[s] = t /\ \A u \in Sessions \ {s} : tx'[u] = tx[u] BY <1>0, <2>1 DEF Begin
  <2> QED BY <1>3, <2>1, <2>2, QuietSteps
<1>4. ASSUME NEW s \in Sessions, CheckBlocker(s)
      PROVE  /\ UNCHANGED Data
             /\ \A u \in Sessions \ {s} : tx'[u] = tx[u]
             /\ tx'[s].kind = tx[s].kind /\ tx'[s].wo = tx[s].wo /\ tx'[s].to = tx[s].to
             /\ tx'[s].passed = tx[s].passed + 1
  <2>1. tx' = [tx EXCEPT ![s] = [tx[s] EXCEPT !.passed = tx[s].passed + 1]]
    BY <1>0, <1>4 DEF CheckBlocker
  <2>2. tx[s] \in Tx BY <1>0
  <2> QED BY <1>0, <1>4, <2>1, <2>2, QuietSteps DEF Tx
<1> QED BY <1>1, <1>2, <1>3, <1>4 DEF WritesTx

-----------------------------------------------------------------------------
(* The invariant is inductive.                                             *)

\* Inv holds initially.
LEMMA InitInv == Init => Inv
<1> SUFFICES ASSUME Init PROVE Inv OBVIOUS
<1>1. TypeOK BY TypeInit
<1>2. Referenced BY NoneAssumption DEF Init, Referenced, NoJob, NoLabour, NoRequest, NoInspection
<1>3. TxOK /\ Exclusive /\ PassedHolds /\ ReadHolds
  BY DEF Init, TxOK, Exclusive, PassedHolds, ReadHolds, Idle, Holders
<1>4. ClosedComplete
  BY CatalogAssumption, NoneAssumption DEF Init, ClosedComplete, Closing
<1>5. OnePrimary
  BY DEF Init, OnePrimary, ActivePrimaries, NoAssignment
<1> QED BY <1>1, <1>2, <1>3, <1>4, <1>5 DEF Inv

\* Every step keeps the references between tables ...
LEMMA ReferencedStep == ASSUME Inv, Next PROVE Referenced'
<1>0. TypeOK /\ Referenced /\ TxOK /\ ReadHolds BY DEF Inv
<1>1. ASSUME NEW j \in Jobs
      PROVE  /\ job'[j].state # None => job'[j].wo \in WorkOrders
             /\ job'[j].state = None => job'[j].wo = None
             /\ job[j].state # None => job'[j].state # None
  BY <1>0, JobChange, NoneAssumption DEF Referenced, TxOK
<1>2. ASSUME NEW r \in Requests, request'[r].job \in Jobs
      PROVE  job'[request'[r].job].state # None
  BY <1>0, <1>1, <1>2, RequestChange DEF Referenced
<1>3. ASSUME NEW q \in Inspections, inspection'[q].wo = None
      PROVE  inspection'[q].result = "none"
  BY <1>0, <1>3, InspectionChange, NoneAssumption DEF Referenced
<1>4. ASSUME NEW l \in Labours, labour'[l].job \in Jobs
      PROVE  job'[labour'[l].job].state # None
  BY <1>0, <1>1, <1>4, LabourChange, NoneAssumption DEF Referenced
<1> QED BY <1>1, <1>2, <1>3, <1>4 DEF Referenced

\* A transaction that goes on holds what it held.
LEMMA LiveWhileClosing ==
  ASSUME Inv, Next, NEW s \in Sessions, tx[s].kind = "close", tx'[s] # Idle
  PROVE  state'[tx[s].wo] = state[tx[s].wo]
<1>1. tx[s].wo \in WorkOrders /\ Live(tx[s].wo) BY DEF Inv, TxOK
<1>2. ~FreeWo(tx[s].wo) BY DEF FreeWo
<1>3. state[tx[s].wo] # None BY <1>1, NoneAssumption DEF Live
<1> QED BY <1>1, <1>2, <1>3, StateChange DEF Inv, Exclusive

\* ... what open transactions refer to ...
LEMMA TxOKStep == ASSUME Inv, Next PROVE TxOK'
<1>0. TypeOK /\ Referenced /\ TxOK /\ ReadHolds BY DEF Inv
<1>1. \A j \in Jobs : job[j].state # None => job'[j].state # None
  BY <1>0, JobChange, NoneAssumption DEF Referenced, TxOK
<1>2. ASSUME NEW s \in Sessions, tx'[s] = tx[s], tx[s].kind = "close"
      PROVE  Live(tx[s].wo)'
  <2>1. tx[s] # Idle BY <1>2 DEF Idle
  <2> QED BY <1>0, <1>2, <2>1, LiveWhileClosing DEF TxOK, Live
<1>3. CASE \A u \in Sessions : tx'[u] = tx[u] \/ tx'[u] = Idle
  BY <1>0, <1>1, <1>2, <1>3 DEF TxOK, Idle, Holders
<1>4. ASSUME NEW s \in Sessions, UNCHANGED Data, Begun(tx'[s]),
             \A u \in Sessions \ {s} : tx'[u] = tx[u]
      PROVE  TxOK'
  <2>1. \A l \in Labours : labour[l].job \in Jobs => job[labour[l].job].state # None
    BY <1>0 DEF Referenced
  <2> QED BY <1>0, <1>4, <2>1 DEF Begun, TxOK, Holders, Data, Live
<1>5. ASSUME NEW s \in Sessions, UNCHANGED Data, CheckBlocker(s),
             \A u \in Sessions \ {s} : tx'[u] = tx[u],
             tx'[s].kind = tx[s].kind, tx'[s].wo = tx[s].wo, tx'[s].to = tx[s].to
      PROVE  TxOK'
  BY <1>0, <1>5 DEF CheckBlocker, TxOK, Holders, Data, Live
<1> QED BY <1>0, <1>3, <1>4, <1>5, TxChange

\* ... and that no two hold one work order.
LEMMA ExclusiveStep == ASSUME Inv, Next PROVE Exclusive'
<1>0. TypeOK /\ Exclusive BY DEF Inv
<1>1. CASE \A u \in Sessions : tx'[u] = tx[u] \/ tx'[u] = Idle
  BY <1>0, <1>1 DEF Exclusive, Idle, Holders
<1>2. ASSUME NEW s \in Sessions, Begun(tx'[s]), \A u \in Sessions \ {s} : tx'[u] = tx[u]
      PROVE  Exclusive'
  BY <1>0, <1>2 DEF Exclusive, Begun, FreeWo, FreeJob, Holders
<1>3. ASSUME NEW s \in Sessions, CheckBlocker(s), \A u \in Sessions \ {s} : tx'[u] = tx[u],
             tx'[s].kind = tx[s].kind, tx'[s].wo = tx[s].wo
      PROVE  Exclusive'
  BY <1>0, <1>3 DEF Exclusive, CheckBlocker, Holders
<1> QED BY <1>0, <1>1, <1>2, <1>3, TxChange

-----------------------------------------------------------------------------
(* Closures.                                                               *)

\* Nothing is written to a work order that is terminal, or that a closure holds.
Guarded(w) == state[w] \in WoTerminal \/ ~FreeWo(w)

\* A work order under closure, or closed, exists ...
LEMMA GuardedExists ==
  ASSUME Inv, NEW w \in WorkOrders, Guarded(w) PROVE state[w] # None
<1>1. CASE state[w] \in WoTerminal BY <1>1, CatalogAssumption, NoneAssumption
<1>2. CASE ~FreeWo(w) BY <1>2, NoneAssumption DEF FreeWo, Inv, TxOK, Live
<1> QED BY <1>1, <1>2 DEF Guarded

\* ... and is not open for others to write.
LEMMA GuardedNotOpen ==
  ASSUME NEW w \in WorkOrders, Guarded(w), FreeWo(w), Live(w) PROVE FALSE
  BY DEF Guarded, Live

\* No job joins or leaves it, and none asks for a diagnosis.
LEMMA GuardedJobs ==
  ASSUME Inv, Next, NEW w \in WorkOrders, Guarded(w)
  PROVE  /\ JobsOf(w)' = JobsOf(w)
         /\ \A j \in JobsOf(w) : job'[j].diagnostic = job[j].diagnostic
         /\ \A j \in JobsOf(w) : job[j].state \in JobTerminal => job'[j] = job[j]
<1>0. TypeOK /\ Referenced /\ TxOK /\ ReadHolds BY DEF Inv
<1>1. \A j \in Jobs : job[j].state = None => job[j].wo = None BY <1>0 DEF Referenced
<1>2. \A j \in Jobs : job'[j].wo = w <=> job[j].wo = w
  BY <1>0, <1>1, JobChange, GuardedNotOpen, NoneAssumption
<1>3. \A j \in JobsOf(w) : job'[j].diagnostic = job[j].diagnostic
  BY <1>0, <1>1, JobChange, GuardedNotOpen, NoneAssumption DEF JobsOf
<1>4. \A j \in JobsOf(w) : job[j].state \in JobTerminal => job'[j] = job[j]
  BY <1>0, <1>1, JobChange, GuardedNotOpen, NoneAssumption DEF JobsOf
<1> QED BY <1>2, <1>3, <1>4 DEF JobsOf

\* No labour begins on it.
LEMMA GuardedLabour ==
  ASSUME Inv, Next, NEW w \in WorkOrders, Guarded(w), NEW l \in Labours,
         labour'[l].job \in JobsOf(w)'
  PROVE  labour'[l] = labour[l]
<1>1. JobsOf(w)' = JobsOf(w) BY GuardedJobs
<1>2. labour'[l].job \in Jobs /\ job[labour'[l].job].wo = w BY <1>1 DEF JobsOf
<1> QED BY <1>2, LabourChange, GuardedNotOpen, NoneAssumption DEF Inv

\* No additional work is raised, decided or done on it.
LEMMA GuardedRequests ==
  ASSUME Inv, Next, NEW w \in WorkOrders, Guarded(w), NEW r \in Requests,
         request'[r].job \in JobsOf(w)'
  PROVE  request'[r] = request[r]
<1>1. JobsOf(w)' = JobsOf(w) BY GuardedJobs
<1>2. request'[r].job \in Jobs /\ job[request'[r].job].wo = w BY <1>1 DEF JobsOf
<1> QED BY <1>2, RequestChange, GuardedNotOpen DEF Inv

\* A blocker that does not hold of it does not come back.
LEMMA GuardedBlockers ==
  ASSUME Inv, Next, NEW w \in WorkOrders, Guarded(w), NEW b \in Lasting, ~Blocked(b, w)
  PROVE  ~Blocked(b, w)'
<1>0. TypeOK /\ TxOK /\ Frame BY StepFrame DEF Inv
<1>1. /\ JobsOf(w)' = JobsOf(w) /\ JobsOf(w) \subseteq Jobs
      /\ \A j \in JobsOf(w) : job'[j].diagnostic = job[j].diagnostic
      /\ \A j \in JobsOf(w) : job[j].state \in JobTerminal => job'[j] = job[j]
  BY GuardedJobs DEF JobsOf
<1>2. CASE b = 1 BY <1>1, <1>2 DEF Blocked
<1>3. CASE b = 2 BY <1>1, <1>3, GuardedLabour DEF Blocked
<1>4. CASE b = 3 BY <1>1, <1>4, GuardedRequests DEF Blocked, Unresolved
<1>5. CASE b = 4
  <2>1. diagnosed \subseteq diagnosed' BY <1>0 DEF Frame, FinishDiagnosis
  <2> QED BY <1>1, <1>5, <2>1 DEF Blocked
<1>6. CASE b = 5
  <2>1. MandatoryQc BY <1>6 DEF Lasting
  <2>2. PICK q \in Inspections : inspection[q].wo = w /\ inspection[q].result = "passed"
    BY <1>6, <2>1 DEF Blocked, Results
  <2>3. inspection'[q] = inspection[q]
    BY <1>0, <2>2, InspectionChange, NoneAssumption
  <2> QED BY <1>6, <2>2, <2>3 DEF Blocked, Results
<1>7. CASE b = 6
  BY <1>0, <1>7, ReworkChange, GuardedExists DEF Blocked
<1> QED BY <1>2, <1>3, <1>4, <1>5, <1>6, <1>7 DEF Lasting, Blockers

\* A blocker that a closure has found clear stays clear.
LEMMA PassedHoldsStep == ASSUME Inv, Next PROVE PassedHolds'
<1>0. TypeOK /\ TxOK /\ PassedHolds BY DEF Inv
<1> SUFFICES ASSUME NEW s \in Sessions, tx'[s].kind = "close",
                    NEW w \in WorkOrders, tx'[s].wo = w,
                    NEW b \in Lasting, b <= tx'[s].passed
             PROVE  ~Blocked(b, w)'
  BY DEF PassedHolds, Lasting
<1>1. CASE tx'[s] = tx[s]
  <2>1. tx[s].wo = w /\ Guarded(w) BY <1>0, <1>1 DEF TxOK, Guarded, FreeWo
  <2>2. ~Blocked(b, w) BY <1>0, <1>1, <2>1 DEF PassedHolds
  <2> QED BY <1>1, <2>1, <2>2, GuardedBlockers
<1>2. CASE tx'[s] = Idle BY <1>2 DEF Idle
<1>3. CASE Begun(tx'[s])
  <2>1. tx'[s].passed = 0 BY <1>3 DEF Begun
  <2> QED BY <2>1 DEF Lasting, Blockers
<1>4. CASE UNCHANGED Data /\ CheckBlocker(s) /\ tx'[s].kind = tx[s].kind
           /\ tx'[s].wo = tx[s].wo /\ tx'[s].passed = tx[s].passed + 1
  <2>1. tx[s].passed \in 0..6 BY <1>0 DEF TypeOK, Tx
  <2>2. tx[s].wo = w /\ Guarded(w) BY <1>0, <1>4 DEF TxOK, Guarded, FreeWo
  <2>3. b <= tx[s].passed \/ b = tx[s].passed + 1 BY <1>4, <2>1 DEF Lasting, Blockers
  <2>4. ~Blocked(b, w) BY <1>0, <1>4, <2>2, <2>3 DEF PassedHolds, CheckBlocker
  <2> QED BY <1>4, <2>2, <2>4, GuardedBlockers
<1> QED BY <1>0, <1>1, <1>2, <1>3, <1>4, TxChange

\* A closed work order stays complete.
LEMMA ClosedCompleteStep == ASSUME Inv, Next PROVE ClosedComplete'
<1>0. TypeOK /\ TxOK /\ PassedHolds /\ ClosedComplete BY DEF Inv
<1> SUFFICES ASSUME NEW w \in WorkOrders, state'[w] \in Closing, NEW b \in Lasting
             PROVE  ~Blocked(b, w)'
  BY DEF ClosedComplete, Lasting, Closing
<1>1. CASE state'[w] = state[w]
  <2>1. Guarded(w) /\ ~Blocked(b, w) BY <1>0, <1>1 DEF ClosedComplete, Guarded, Closing
  <2> QED BY <2>1, GuardedBlockers
<1>2. CASE \E s \in Sessions : tx[s].kind = "close" /\ tx[s].wo = w /\ tx[s].passed = 6
  <2>1. Guarded(w) BY <1>2 DEF Guarded, FreeWo
  <2>2. b <= 6 BY DEF Lasting, Blockers
  <2>3. ~Blocked(b, w) BY <1>0, <1>2, <2>2 DEF PassedHolds
  <2> QED BY <2>1, <2>3, GuardedBlockers
<1>3. CASE state'[w] = WoStart \/ state'[w] \in WoStates \ Closing
  BY <1>3, CatalogAssumption DEF Closing
<1> QED BY <1>0, <1>1, <1>2, <1>3, StateChange

-----------------------------------------------------------------------------
(* Jobs.                                                                   *)

\* A request of a job that a transition holds is decided or left alone.
LEMMA SettledStays ==
  ASSUME Inv, Next, NEW j \in Jobs, ~FreeJob(j), Settled(j) PROVE Settled(j)'
<1> SUFFICES ASSUME NEW r \in Requests, request'[r].job = j, request'[r].required,
                    request'[r].state = "pending"
             PROVE  FALSE
  BY DEF Settled, Pending
<1>1. request'[r] = request[r] BY RequestChange DEF Inv
<1> QED BY <1>1 DEF Settled, Pending

\* A job keeps its state while its lock is held, until the transition ends.
LEMMA HeldJob ==
  ASSUME Inv, Next, NEW s \in Sessions, tx[s].kind = "transition", tx'[s] = tx[s]
  PROVE  job'[tx[s].job].state = job[tx[s].job].state
<1>1. tx[s].job \in Jobs /\ job[tx[s].job].state # None BY DEF Inv, TxOK, Holders
<1>2. tx[s] # Idle BY DEF Idle
<1> QED BY <1>1, <1>2, JobChange DEF Inv, Exclusive, Holders

\* An assignment is written by the transaction that checked it.
LEMMA AssignmentChange ==
  ASSUME TypeOK, TxOK, Next, NEW a \in Assignments
  PROVE  \/ assignment'[a] = assignment[a] \/ assignment'[a] = NoAssignment
         \/ \E s \in Sessions :
              /\ tx[s].kind \in {"assign", "reassign"} /\ tx'[s] = Idle
              /\ assignment'[a] = [job |-> tx[s].job, tech |-> tx[s].tech, role |-> tx[s].to]
<1>1. UNCHANGED assignment \/ WritesAssignment BY StepFrame DEF Frame
<1>2. CASE \E b \in Assignments : EndAssignment(b) BY <1>2 DEF EndAssignment, TypeOK
<1>3. CASE \E s \in Sessions, b \in Assignments : FinishAssign(s, b)
  BY <1>3 DEF FinishAssign, End, TypeOK
<1> QED BY <1>1, <1>2, <1>3 DEF WritesAssignment

\* An assigner that found no active primary still finds none.
LEMMA NonePrimary ==
  ASSUME Inv, Next, NEW s \in Sessions, tx[s].kind = "assign", tx'[s] = tx[s],
         ActivePrimaries(tx[s].job) = {}
  PROVE  \A a \in Assignments : ~(assignment'[a].job = tx[s].job
                                  /\ assignment'[a].role = "primary")
<1>1. tx[s].job \in Jobs /\ tx[s] # Idle BY DEF Inv, TxOK, Holders, Idle
<1> SUFFICES ASSUME NEW a \in Assignments, assignment'[a].job = tx[s].job,
                    assignment'[a].role = "primary"
             PROVE  FALSE
  OBVIOUS
<1>2. CASE assignment'[a] = assignment[a] BY <1>2 DEF ActivePrimaries
<1>3. CASE assignment'[a] = NoAssignment BY <1>1, <1>3, NoneAssumption DEF NoAssignment
<1>4. CASE \E u \in Sessions :
             /\ tx[u].kind \in {"assign", "reassign"} /\ tx'[u] = Idle
             /\ assignment'[a] = [job |-> tx[u].job, tech |-> tx[u].tech, role |-> tx[u].to]
  BY <1>1, <1>4 DEF Inv, Exclusive, Holders
<1> QED BY <1>2, <1>3, <1>4, AssignmentChange DEF Inv

\* What a transition has read of its job still holds.
LEMMA ReadHoldsStep == ASSUME Inv, Next PROVE ReadHolds'
<1>0. TypeOK /\ TxOK /\ ReadHolds BY DEF Inv
<1>1. ASSUME NEW s \in Sessions, tx'[s].kind = "transition"
      PROVE  job'[tx'[s].job].state \notin JobTerminal
  <2>1. CASE tx'[s] = tx[s] BY <1>0, <1>1, <2>1, HeldJob DEF ReadHolds
  <2>2. CASE tx'[s] = Idle BY <1>1, <2>2 DEF Idle
  <2>3. CASE UNCHANGED Data /\ Begun(tx'[s]) BY <1>1, <2>3 DEF Begun, Data
  <2>4. CASE CheckBlocker(s) /\ tx'[s].kind = tx[s].kind
    BY <1>1, <2>4 DEF CheckBlocker
  <2> QED BY <1>0, <2>1, <2>2, <2>3, <2>4, TxChange
<1>2. ASSUME NEW s \in Sessions, NEW j \in Jobs, tx'[s].kind = "transition", tx'[s].job = j,
             tx'[s].to \in LabourAllowed
      PROVE  Settled(j)'
  <2>1. CASE tx'[s] = tx[s]
    BY <1>0, <1>2, <2>1, SettledStays DEF ReadHolds, FreeJob
  <2>2. CASE tx'[s] = Idle BY <1>2, <2>2 DEF Idle
  <2>3. CASE UNCHANGED Data /\ Begun(tx'[s])
    BY <1>2, <2>3 DEF Begun, Data, Settled, Pending
  <2>4. CASE CheckBlocker(s) /\ tx'[s].kind = tx[s].kind
    BY <1>2, <2>4 DEF CheckBlocker
  <2> QED BY <1>0, <2>1, <2>2, <2>3, <2>4, TxChange
<1>3. ASSUME NEW s \in Sessions, tx'[s].kind = "assign", tx'[s].to = "primary",
             NEW a \in Assignments
      PROVE  ~(assignment'[a].job = tx'[s].job /\ assignment'[a].role = "primary")
  <2>1. CASE tx'[s] = tx[s] BY <1>0, <1>3, <2>1, NonePrimary DEF ReadHolds
  <2>2. CASE tx'[s] = Idle BY <1>3, <2>2 DEF Idle
  <2>3. CASE UNCHANGED Data /\ Begun(tx'[s])
    BY <1>3, <2>3 DEF Begun, Data, ActivePrimaries
  <2>4. CASE CheckBlocker(s) /\ tx'[s].kind = tx[s].kind
    BY <1>3, <2>4 DEF CheckBlocker
  <2> QED BY <1>0, <2>1, <2>2, <2>3, <2>4, TxChange
<1>4. TxOK' BY TxOKStep
<1> QED BY <1>1, <1>2, <1>3, <1>4 DEF ReadHolds, ActivePrimaries, TxOK, Holders, Settled, Pending

\* A job keeps at most one primary technician.
LEMMA OnePrimaryStep == ASSUME Inv, Next PROVE OnePrimary'
<1>0. TypeOK /\ TxOK /\ ReadHolds /\ OnePrimary BY DEF Inv
<1>1. UNCHANGED assignment \/ WritesAssignment BY StepFrame DEF Frame
<1>2. CASE UNCHANGED assignment BY <1>0, <1>2 DEF OnePrimary, ActivePrimaries
<1>3. CASE \E a \in Assignments : EndAssignment(a)
  BY <1>0, <1>3, NoneAssumption DEF OnePrimary, ActivePrimaries, EndAssignment, NoAssignment, TypeOK
<1>4. ASSUME NEW s \in Sessions, NEW a \in Assignments, FinishAssign(s, a)
      PROVE  OnePrimary'
  <2>1. tx[s].job \in Jobs /\ tx[s].to \in {"primary", "assist"}
    BY <1>0, <1>4 DEF TxOK, FinishAssign, Holders
  <2>2. \A b \in Assignments : b # a =>
          assignment'[b] = assignment[b] \/ assignment'[b] = NoAssignment
    BY <1>4 DEF FinishAssign
  <2>3. assignment'[a] = [job |-> tx[s].job, tech |-> tx[s].tech, role |-> tx[s].to]
    BY <1>4 DEF FinishAssign
  <2>4. tx[s].to = "primary" => \A b \in Assignments : b # a =>
          ~(assignment'[b].job = tx[s].job /\ assignment'[b].role = "primary")
    <3>1. CASE tx[s].kind = "assign"
      BY <1>0, <2>1, <2>2, <3>1, NoneAssumption DEF ReadHolds, ActivePrimaries, NoAssignment
    <3>2. CASE tx[s].kind = "reassign"
      BY <1>4, <2>1, <3>2, NoneAssumption DEF FinishAssign, ActivePrimaries, NoAssignment
    <3> QED BY <1>4, <3>1, <3>2 DEF FinishAssign
  <2> QED
    BY <1>0, <2>1, <2>2, <2>3, <2>4, NoneAssumption
    DEF OnePrimary, ActivePrimaries, NoAssignment
<1> QED BY <1>1, <1>2, <1>3, <1>4 DEF WritesAssignment

\* Every step keeps Inv ...
LEMMA InvStep == Inv /\ [Next]_vars => Inv'
<1> SUFFICES ASSUME Inv, [Next]_vars PROVE Inv' OBVIOUS
<1>1. CASE Next
  <2>1. TypeOK' BY <1>1, TypeStep DEF Inv
  <2> QED BY <1>1, <2>1, ReferencedStep, TxOKStep, ExclusiveStep, PassedHoldsStep,
             ReadHoldsStep, ClosedCompleteStep, OnePrimaryStep DEF Inv
<1>2. CASE UNCHANGED vars
  <2>1. TypeOK' BY <1>2 DEF vars, Inv, TypeOK
  <2>2. Referenced' /\ TxOK' /\ Exclusive'
    BY <1>2 DEF vars, Inv, Referenced, TxOK, Exclusive, Live
  <2>3. \A b \in Lasting, w \in WorkOrders : Blocked(b, w)' <=> Blocked(b, w)
    BY <1>2 DEF vars, Blocked, JobsOf, Unresolved, Results
  <2>4. PassedHolds' /\ ClosedComplete'
    BY <1>2, <2>3 DEF vars, Inv, PassedHolds, ClosedComplete
  <2>5. ReadHolds' BY <1>2 DEF vars, Inv, ReadHolds, Settled, Pending, ActivePrimaries
  <2>6. OnePrimary' BY <1>2 DEF vars, Inv, OnePrimary, ActivePrimaries
  <2> QED BY <2>1, <2>2, <2>4, <2>5, <2>6 DEF Inv
<1> QED BY <1>1, <1>2

\* ... so it always holds.
LEMMA Invariance == Spec => []Inv
  BY InitInv, InvStep, PTL DEF Spec

-----------------------------------------------------------------------------
(* Theorems.                                                               *)

\* Every row and every transaction has its type, in every catalog.
THEOREM WorkshopTypeCorrect == Spec => []TypeOK
<1>1. Inv => TypeOK BY DEF Inv
<1> QED BY <1>1, Invariance, PTL

\* A closed work order is complete, however the requests that change its parts
\* interleave with the queries of the closure.
THEOREM ClosureSound == Spec => []ClosedComplete
<1>1. Inv => ClosedComplete BY DEF Inv
<1> QED BY <1>1, Invariance, PTL

\* A job has at most one active primary assignment.
THEOREM PrimaryUnique == Spec => []OnePrimary
<1>1. Inv => OnePrimary BY DEF Inv
<1> QED BY <1>1, Invariance, PTL

\* Nothing reaches a terminal work order.
THEOREM TerminalStaysFrozen == Spec => TerminalFrozen
<1> DEFINE Frozen == \A w \in WorkOrders : state[w] \in WoTerminal =>
       /\ state'[w] = state[w]
       /\ JobsOf(w)' = JobsOf(w)
       /\ \A l \in Labours : labour'[l].job \in JobsOf(w) => labour[l] = labour'[l]
       /\ \A r \in Requests : request'[r].job \in JobsOf(w) => request[r] = request'[r]
<1>1. Inv /\ Next => Frozen
  <2> SUFFICES ASSUME Inv, Next, NEW w \in WorkOrders, state[w] \in WoTerminal
               PROVE  /\ state'[w] = state[w]
                      /\ JobsOf(w)' = JobsOf(w)
                      /\ \A l \in Labours :
                           labour'[l].job \in JobsOf(w) => labour[l] = labour'[l]
                      /\ \A r \in Requests :
                           request'[r].job \in JobsOf(w) => request[r] = request'[r]
    OBVIOUS
  <2>1. Guarded(w) /\ state[w] # None BY GuardedExists DEF Guarded
  <2>2. JobsOf(w)' = JobsOf(w) BY <2>1, GuardedJobs
  <2>3. \A l \in Labours : labour'[l].job \in JobsOf(w) => labour[l] = labour'[l]
    BY <2>1, <2>2, GuardedLabour
  <2>4. \A r \in Requests : request'[r].job \in JobsOf(w) => request[r] = request'[r]
    BY <2>1, <2>2, GuardedRequests
  <2>5. ~Live(w) BY DEF Live
  <2>6. \A s \in Sessions : ~(tx[s].kind = "close" /\ tx[s].wo = w) BY <2>5 DEF Inv, TxOK
  <2> QED BY <2>1, <2>2, <2>3, <2>4, <2>5, <2>6, StateChange DEF Inv
<1>2. UNCHANGED vars => Frozen BY DEF vars, JobsOf
<1>3. Inv /\ [Next]_vars => [Frozen]_vars BY <1>1, <1>2
<1> QED BY <1>3, Invariance, PTL DEF Spec, TerminalFrozen

\* No job enters a state of labour while its additional work awaits the customer.
THEOREM LabourWaitsForCustomer == Spec => SettledBeforeLabour
<1> DEFINE Waits == \A j \in Jobs : job'[j].state # job[j].state /\ job[j].state # None
                                    /\ job'[j].state \in LabourAllowed => Settled(j)
<1>1. Inv /\ Next => Waits
  <2> SUFFICES ASSUME Inv, Next, NEW j \in Jobs, job'[j].state # job[j].state,
                      job[j].state # None, job'[j].state \in LabourAllowed
               PROVE  Settled(j)
    OBVIOUS
  <2>1. PICK s \in Sessions : /\ tx[s].kind = "transition" /\ tx[s].job = j
                              /\ job'[j].state = tx[s].to
    BY JobChange DEF Inv
  <2> QED BY <2>1 DEF Inv, ReadHolds
<1>2. UNCHANGED vars => Waits BY DEF vars
<1>3. Inv /\ [Next]_vars => [Waits]_vars BY <1>1, <1>2
<1> QED BY <1>3, Invariance, PTL DEF Spec, SettledBeforeLabour

-----------------------------------------------------------------------------
(* Every request is one entry in the files.                                *)

\* EdgesHold is about one transaction at a time ...
EdgeHolds(t) ==
  /\ t.kind = "close" => <<state[t.wo], t.to>> \in WoGraph
  /\ t.kind = "inspect" => state[t.wo] # None
  /\ t.kind = "transition" => <<job[t.job].state, t.to>> \in JobGraph
  /\ t.kind \in {"assign", "reassign"} => job[t.job].state \notin JobTerminal
  /\ t.kind = "reassign" =>
       /\ t.to = "primary"
       /\ \A a \in Assignments :
            assignment[a].job = t.job /\ assignment[a].role = "primary" =>
              assignment[a].tech # t.tech
  /\ t.kind = "correct" => labour[t.row].job \in Jobs

\* ... and on corrections of different sessions.
Apart(t, u) == t.kind = "correct" /\ u.kind = "correct" => t.row # u.row

\* ... and that is all it says.
LEMMA EdgeParts ==
  EdgesHold <=> /\ \A s \in Sessions : EdgeHolds(tx[s])
                /\ \A s \in Sessions : \A u \in Sessions \ {s} : Apart(tx[s], tx[u])
  BY DEF EdgesHold, EdgeHolds, Apart, ActivePrimaries

\* The same, put together in the next state.
LEMMA EdgeNext ==
  ASSUME \A s \in Sessions : EdgeHolds(tx[s])',
         \A s \in Sessions : \A u \in Sessions \ {s} : Apart(tx'[s], tx'[u])
  PROVE  EdgesHold'
  BY DEF EdgesHold, EdgeHolds, Apart, ActivePrimaries

\* What is looked up when a transaction begins.
LEMMA BegunEdges ==
  ASSUME TypeOK, NEW s \in Sessions, BeginStep(s)
  PROVE  /\ EdgeHolds(tx[s])' /\ UNCHANGED Data
         /\ \A u \in Sessions \ {s} : tx'[u] = tx[u] /\ Apart(tx'[s], tx[u])
<1> DEFINE Looked == /\ EdgeHolds(tx[s])' /\ UNCHANGED Data
                     /\ \A u \in Sessions \ {s} : tx'[u] = tx[u] /\ Apart(tx'[s], tx[u])
<1>0. UNCHANGED Data BY QuietSteps
<1>1. ASSUME NEW t, Begin(s, t), EdgeHolds(t), \A u \in Sessions : Apart(t, tx[u]) PROVE Looked
  <2>1. tx'[s] = t /\ \A u \in Sessions \ {s} : tx'[u] = tx[u] BY <1>1 DEF Begin, TypeOK
  <2>2. EdgeHolds(tx[s])' BY <1>0, <1>1, <2>1 DEF EdgeHolds, Data
  <2> QED BY <1>0, <1>1, <2>1, <2>2
<1>2. ASSUME NEW w \in WorkOrders, NEW to \in WoStates, BeginClose(s, w, to) PROVE Looked
  <2> DEFINE t == [Idle EXCEPT !.kind = "close", !.wo = w, !.to = to]
  <2>1. Begin(s, t) /\ <<state[w], to>> \in WoGraph BY <1>2 DEF BeginClose
  <2>2. t.kind = "close" /\ t.wo = w /\ t.to = to BY DEF Idle
  <2> HIDE DEF t
  <2> QED BY <1>1, <2>1, <2>2 DEF EdgeHolds, Apart
<1>3. ASSUME NEW w \in WorkOrders, BeginInspection(s, w) PROVE Looked
  <2> DEFINE t == [Idle EXCEPT !.kind = "inspect", !.wo = w]
  <2>1. Begin(s, t) /\ state[w] # None BY <1>3, NoneAssumption DEF BeginInspection, Live
  <2>2. t.kind = "inspect" /\ t.wo = w BY DEF Idle
  <2> HIDE DEF t
  <2> QED BY <1>1, <2>1, <2>2 DEF EdgeHolds, Apart
<1>4. ASSUME NEW j \in Jobs, NEW to \in JobStates, BeginJobTransition(s, j, to) PROVE Looked
  <2> DEFINE t == [Idle EXCEPT !.kind = "transition", !.job = j, !.to = to]
  <2>1. Begin(s, t) /\ <<job[j].state, to>> \in JobGraph BY <1>4 DEF BeginJobTransition
  <2>2. t.kind = "transition" /\ t.job = j /\ t.to = to BY DEF Idle
  <2> HIDE DEF t
  <2> QED BY <1>1, <2>1, <2>2 DEF EdgeHolds, Apart
<1>5. ASSUME NEW j \in Jobs, NEW p \in Technicians, NEW kind \in {"assign", "reassign"},
             NEW role \in {"primary", "assist"}, BeginAssign(s, j, p, kind, role)
      PROVE  Looked
  <2> DEFINE t == [Idle EXCEPT !.kind = kind, !.job = j, !.tech = p, !.to = role]
  <2>1. /\ Begin(s, t) /\ job[j].state \notin JobTerminal
        /\ kind = "reassign" => /\ role = "primary"
                                /\ \A a \in ActivePrimaries(j) : assignment[a].tech # p
    BY <1>5 DEF BeginAssign, LockAssignable
  <2>2. t.kind = kind /\ t.job = j /\ t.tech = p /\ t.to = role BY DEF Idle
  <2> HIDE DEF t
  <2>3. EdgeHolds(t) BY <2>1, <2>2 DEF EdgeHolds, ActivePrimaries
  <2>4. \A u \in Sessions : Apart(t, tx[u]) BY <2>2 DEF Apart
  <2> QED BY <1>1, <2>1, <2>3, <2>4
<1>6. ASSUME NEW j \in Jobs, NEW p \in Technicians, BeginLabour(s, p, j) PROVE Looked
  <2> DEFINE t == [Idle EXCEPT !.kind = "labour", !.job = j, !.tech = p]
  <2>1. Begin(s, t) BY <1>6 DEF BeginLabour
  <2>2. t.kind = "labour" BY DEF Idle
  <2> HIDE DEF t
  <2> QED BY <1>1, <2>1, <2>2 DEF EdgeHolds, Apart
<1>7. ASSUME NEW l \in Labours, BeginCorrection(s, l) PROVE Looked
  <2> DEFINE t == [Idle EXCEPT !.kind = "correct", !.job = labour[l].job, !.row = l]
  <2>1. Begin(s, t) /\ labour[l].job # None /\ FreeLabour(l) BY <1>7 DEF BeginCorrection
  <2>2. labour[l].job \in Jobs BY <2>1 DEF TypeOK
  <2>3. t.kind = "correct" /\ t.row = l BY DEF Idle
  <2> HIDE DEF t
  <2> QED BY <1>1, <2>1, <2>2, <2>3 DEF EdgeHolds, Apart, FreeLabour
<1>8. ASSUME NEW j \in Jobs, BeginDiagnosis(s, j) PROVE Looked
  <2> DEFINE t == [Idle EXCEPT !.kind = "diagnose", !.job = j]
  <2>1. Begin(s, t) BY <1>8 DEF BeginDiagnosis
  <2>2. t.kind = "diagnose" BY DEF Idle
  <2> HIDE DEF t
  <2> QED BY <1>1, <2>1, <2>2 DEF EdgeHolds, Apart
<1> QED BY <1>2, <1>3, <1>4, <1>5, <1>6, <1>7, <1>8 DEF BeginStep

\* A job keeps its state while a transaction holds it.
LEMMA HeldState ==
  ASSUME Inv, Next, NEW s \in Sessions, tx[s].kind \in Holders, tx'[s] = tx[s]
  PROVE  job'[tx[s].job].state = job[tx[s].job].state
<1>1. tx[s].job \in Jobs /\ job[tx[s].job].state # None BY DEF Inv, TxOK
<1>2. tx[s] # Idle BY DEF Idle, Holders
<1> QED BY <1>1, <1>2, JobChange DEF Inv, Exclusive, Holders

\* A primary that a reassignment found is replaced by nobody else meanwhile.
LEMMA HeldPrimary ==
  ASSUME Inv, Next, NEW s \in Sessions, tx[s].kind = "reassign", tx'[s] = tx[s],
         EdgeHolds(tx[s]), NEW a \in Assignments, assignment'[a].job = tx[s].job,
         assignment'[a].role = "primary"
  PROVE  assignment'[a].tech # tx[s].tech
<1>1. tx[s].job \in Jobs /\ tx[s] # Idle BY DEF Inv, TxOK, Holders, Idle
<1>2. CASE assignment'[a] = assignment[a] BY <1>2 DEF EdgeHolds
<1>3. CASE assignment'[a] = NoAssignment BY <1>1, <1>3, NoneAssumption DEF NoAssignment
<1>4. CASE \E u \in Sessions :
             /\ tx[u].kind \in {"assign", "reassign"} /\ tx'[u] = Idle
             /\ assignment'[a] = [job |-> tx[u].job, tech |-> tx[u].tech, role |-> tx[u].to]
  BY <1>1, <1>4 DEF Inv, Exclusive, Holders
<1> QED BY <1>2, <1>3, <1>4, AssignmentChange DEF Inv

\* A session under correction is left alone by others.
LEMMA HeldLabour ==
  ASSUME Inv, EdgesHold, Next, NEW s \in Sessions, tx[s].kind = "correct", tx'[s] = tx[s]
  PROVE  labour'[tx[s].row].job = labour[tx[s].row].job
<1>0. TypeOK /\ tx[s].row \in Labours /\ labour[tx[s].row].job \in Jobs /\ tx[s] # Idle
  <2>1. tx[s].row \in Labours BY DEF Inv, TxOK
  <2>2. labour[tx[s].row].job \in Jobs BY EdgeParts DEF EdgeHolds
  <2>3. tx[s] # Idle BY DEF Idle
  <2> QED BY <2>1, <2>2, <2>3 DEF Inv
<1>1. UNCHANGED labour \/ WritesLabour BY StepFrame DEF Frame
<1>2. CASE \E l \in Labours : StopLabour(l)
  BY <1>0, <1>2 DEF StopLabour, FreeLabour, TypeOK
<1>3. CASE \E u \in Sessions : FinishCorrection(u)
  <2>1. PICK u \in Sessions : FinishCorrection(u) BY <1>3
  <2>2. tx'[u] = Idle BY <1>0, <2>1 DEF FinishCorrection, End, TypeOK
  <2>3. u # s BY <1>0, <2>2
  <2>4. tx[u].row # tx[s].row BY <2>1, <2>3, EdgeParts DEF Apart, FinishCorrection
  <2> QED BY <1>0, <2>1, <2>4 DEF FinishCorrection, TypeOK
<1>4. CASE \E u \in Sessions, l \in Labours : StartLabour(u, l)
  BY <1>0, <1>4, NoneAssumption DEF StartLabour, TypeOK
<1> QED BY <1>1, <1>2, <1>3, <1>4 DEF WritesLabour

\* A transaction that goes on finds what it looked up.
LEMMA EdgeLasts ==
  ASSUME Inv, EdgesHold, Next, NEW s \in Sessions, tx'[s] = tx[s]
  PROVE  EdgeHolds(tx[s])'
<1>0. TypeOK /\ TxOK /\ EdgeHolds(tx[s]) BY EdgeParts DEF Inv
<1>1. tx[s].kind = "close" => <<state'[tx[s].wo], tx[s].to>> \in WoGraph
  BY <1>0, LiveWhileClosing DEF EdgeHolds, Idle
<1>2. tx[s].kind = "inspect" => state'[tx[s].wo] # None
  <2>1. \A w \in WorkOrders : state[w] # None => state'[w] # None
    BY <1>0, StateChange, NoneAssumption, CatalogAssumption DEF TxOK, Closing
  <2> QED BY <1>0, <2>1 DEF TxOK, EdgeHolds
<1>3. tx[s].kind \in Holders => job'[tx[s].job].state = job[tx[s].job].state BY HeldState
<1>4. tx[s].kind = "reassign" => \A a \in Assignments :
        assignment'[a].job = tx[s].job /\ assignment'[a].role = "primary" =>
          assignment'[a].tech # tx[s].tech
  BY <1>0, HeldPrimary
<1>5. tx[s].kind = "correct" => labour'[tx[s].row].job \in Jobs
  BY <1>0, HeldLabour DEF EdgeHolds
<1> QED BY <1>0, <1>1, <1>2, <1>3, <1>4, <1>5 DEF EdgeHolds, Holders

\* Every step keeps EdgesHold.
LEMMA EdgesStep == Inv /\ EdgesHold /\ [Next]_vars => EdgesHold'
<1> SUFFICES ASSUME Inv, EdgesHold, [Next]_vars PROVE EdgesHold' OBVIOUS
<1>0. /\ TypeOK /\ \A s \in Sessions : EdgeHolds(tx[s])
      /\ \A s \in Sessions : \A u \in Sessions \ {s} : Apart(tx[s], tx[u])
  BY EdgeParts DEF Inv
<1>1. CASE UNCHANGED vars
  BY <1>1 DEF vars, EdgesHold, ActivePrimaries
<1>2. ASSUME Next, \A u \in Sessions : tx'[u] = tx[u] \/ tx'[u] = Idle PROVE EdgesHold'
  <2>1. ASSUME NEW s \in Sessions PROVE EdgeHolds(tx[s])'
    <3>1. CASE tx'[s] = tx[s] BY <1>2, <3>1, EdgeLasts
    <3>2. CASE tx'[s] = Idle BY <3>2 DEF EdgeHolds, Idle
    <3> QED BY <1>2, <3>1, <3>2
  <2>2. \A s \in Sessions : \A u \in Sessions \ {s} : Apart(tx'[s], tx'[u])
    BY <1>0, <1>2 DEF Apart, Idle
  <2> QED BY <2>1, <2>2, EdgeNext
<1>3. ASSUME NEW s \in Sessions, BeginStep(s) PROVE EdgesHold'
  <2>1. /\ EdgeHolds(tx[s])' /\ UNCHANGED Data
        /\ \A u \in Sessions \ {s} : tx'[u] = tx[u] /\ Apart(tx'[s], tx[u])
    BY <1>0, <1>3, BegunEdges
  <2>2. \A u \in Sessions \ {s} : EdgeHolds(tx[u])' BY <1>0, <2>1 DEF EdgeHolds, Data
  <2>3. \A v \in Sessions : \A u \in Sessions \ {v} : Apart(tx'[v], tx'[u])
    BY <1>0, <2>1 DEF Apart
  <2> QED BY <2>1, <2>2, <2>3, EdgeNext
<1>4. ASSUME NEW s \in Sessions, CheckBlocker(s) PROVE EdgesHold'
  <2>1. UNCHANGED Data BY <1>4, QuietSteps
  <2>2. /\ tx'[s].kind = "close" /\ tx[s].kind = "close"
        /\ tx'[s].wo = tx[s].wo /\ tx'[s].to = tx[s].to
        /\ \A u \in Sessions \ {s} : tx'[u] = tx[u]
    BY <1>0, <1>4 DEF CheckBlocker, TypeOK, Tx
  <2>3. \A u \in Sessions : EdgeHolds(tx[u])' BY <1>0, <2>1, <2>2 DEF EdgeHolds, Data
  <2>4. \A v \in Sessions : \A u \in Sessions \ {v} : Apart(tx'[v], tx'[u])
    BY <1>0, <2>2 DEF Apart
  <2> QED BY <2>3, <2>4, EdgeNext
<1>5. ASSUME NEW s \in Sessions, End(s) PROVE \A u \in Sessions : tx'[u] = tx[u] \/ tx'[u] = Idle
  BY <1>0, <1>5 DEF End, TypeOK
<1>6. Next => UNCHANGED tx \/ WritesTx BY StepFrame DEF Frame
<1> QED BY <1>1, <1>2, <1>3, <1>4, <1>5, <1>6 DEF WritesTx

\* What open transactions looked up and hold lasts until they end.
LEMMA EdgesAlways == Spec => []EdgesHold
<1>1. Init => EdgesHold BY DEF Init, EdgesHold, Idle
<1> QED BY <1>1, EdgesStep, Invariance, PTL DEF Spec

\* A step in the files.
Entry == Files!FNext \/ UNCHANGED Files!fvars

\* What a closure has asked for makes the work order complete.
LEMMA PassedComplete ==
  ASSUME TypeOK, NEW w \in WorkOrders, \A b \in Lasting : ~Blocked(b, w)
  PROVE  Files!Complete(w)
<1>0. {1, 2, 3, 4, 6} \subseteq Lasting /\ (MandatoryQc => 5 \in Lasting)
  BY DEF Lasting, Blockers
<1>1. \A b \in {1, 2, 3, 4, 6} : ~Blocked(b, w) BY <1>0
<1>2. \A j \in JobsOf(w) : job[j].state \in JobTerminal
  <2>1. ~Blocked(1, w) BY <1>1
  <2> QED BY <2>1 DEF Blocked
<1>3. \A l \in Labours : labour[l].job \notin JobsOf(w)
  <2>1. ~Blocked(2, w) BY <1>1
  <2> QED BY <2>1 DEF Blocked
<1>4. \A r \in Requests : request[r].job \in JobsOf(w) => ~Unresolved(r)
  <2>1. ~Blocked(3, w) BY <1>1
  <2> QED BY <2>1 DEF Blocked
<1>5. \A j \in JobsOf(w) : job[j].diagnostic => j \in diagnosed
  <2>1. ~Blocked(4, w) BY <1>1
  <2> QED BY <2>1 DEF Blocked
<1>6. rework[w].critical => rework[w].signed # None
  <2>1. ~Blocked(6, w) BY <1>1
  <2> QED BY <2>1 DEF Blocked
<1>7. MandatoryQc => \E q \in Inspections : inspection[q] = [wo |-> w, result |-> "passed"]
  <2> SUFFICES ASSUME MandatoryQc
               PROVE  \E q \in Inspections : inspection[q] = [wo |-> w, result |-> "passed"]
    OBVIOUS
  <2>0. ~Blocked(5, w) BY <1>0
  <2>1. "passed" \in Results(w) BY <2>0 DEF Blocked
  <2>2. PICK q \in Inspections : inspection[q].wo = w /\ inspection[q].result = "passed"
    BY <2>1 DEF Results
  <2>3. inspection[q] \in InspectionRow BY DEF TypeOK, InspectionRow
  <2>4. inspection[q] = [wo |-> w, result |-> "passed"] BY <2>2, <2>3 DEF InspectionRow
  <2> QED BY <2>4
<1>8. Files!Of(w) = JobsOf(w) BY DEF Files!Of, JobsOf
<1> QED
  BY <1>2, <1>3, <1>4, <1>5, <1>6, <1>7, <1>8
  DEF Files!Complete, Files!Undecided, Files!Undone, Unresolved

\* A job that is held while it goes on keeps its work order from closing.
LEMMA HeldGoesOn ==
  ASSUME Inv, NEW j \in Jobs, job[j].state \notin JobTerminal \cup {None}
  PROVE  Files!GoesOn(j)
<1>1. job[j].wo \in WorkOrders /\ j \in JobsOf(job[j].wo) BY DEF Inv, Referenced, JobsOf
<1>2. Blocked(1, job[j].wo) BY <1>1 DEF Blocked
<1>3. 1 \in Lasting BY DEF Lasting, Blockers
<1>4. state[job[j].wo] \notin Closing BY <1>1, <1>2, <1>3 DEF Inv, ClosedComplete
<1>5. job[j].state \in JobStates BY DEF Inv, TypeOK
<1> QED BY <1>4, <1>5 DEF Files!GoesOn, Files!Closing, Closing

\* The entries about work orders ...
LEMMA WorkOrderEntries == WorkOrderStep => Entry
<1> USE DEF Entry, Files!FNext, Files!orders, Files!work, Files!findings
<1>1. ASSUME NEW w \in WorkOrders, OpenWorkOrder(w) PROVE Entry
  <2>1. Files!Open(w) BY <1>1 DEF OpenWorkOrder, Files!Open
  <2> QED BY <2>1
<1>2. ASSUME NEW w \in WorkOrders, NEW v \in WorkOrders, NEW c \in BOOLEAN,
             NEW t \in Technicians, CreateRework(w, v, c, t)
      PROVE  Entry
  <2>1. Files!Open(w) BY <1>2 DEF CreateRework, Files!Open, Files!Closing, Closing
  <2> QED BY <2>1
<1>3. ASSUME NEW w \in WorkOrders, NEW t \in Technicians, SignOff(w, t) PROVE Entry
  <2>1. Files!SignOff(w, t) BY <1>3 DEF SignOff, Files!SignOff
  <2> QED BY <2>1
<1>4. ASSUME NEW w \in WorkOrders, NEW to \in WoStates, Transition(w, to) PROVE Entry
  <2>1. Files!Move(w, to)
    BY <1>4 DEF Transition, Files!Move, Files!Live, Live, Files!Closing, Closing
  <2> QED BY <2>1
<1> QED BY <1>1, <1>2, <1>3, <1>4 DEF WorkOrderStep

\* ... their jobs, assignments and labour ...
LEMMA JobEntries == TypeOK /\ JobStep => Entry
<1> USE DEF Entry, Files!FNext, Files!orders, Files!work, Files!findings
<1>1. ASSUME NEW j \in Jobs, NEW w \in WorkOrders, NEW i \in JobStates \ JobTerminal,
             NEW d \in BOOLEAN, CreateJob(j, w, i, d)
      PROVE  Entry
  <2>1. Files!Plan(j, w, i, d) BY <1>1 DEF CreateJob, Files!Plan, Files!Live, Live
  <2> QED BY <2>1
<1>2. ASSUME NEW j \in Jobs, NEW d \in BOOLEAN, UpdateJob(j, d) PROVE Entry
  <2>1. Files!Amend(j, d) BY <1>2 DEF UpdateJob, Files!Amend, Files!Live, Live
  <2> QED BY <2>1
<1>3. ASSUME NEW a \in Assignments, EndAssignment(a) PROVE Entry
  <2>1. Files!Unassign(a) BY <1>3 DEF EndAssignment, Files!Unassign, NoAssignment
  <2> QED BY <2>1
<1>4. ASSUME NEW l \in Labours, StopLabour(l) PROVE Entry
  <2>1. Files!Stop(l) BY <1>4 DEF StopLabour, Files!Stop, NoLabour
  <2> QED BY <2>1
<1> QED BY <1>1, <1>2, <1>3, <1>4 DEF JobStep

\* ... and what was found.
LEMMA RequestEntries == RequestStep => Entry
<1> USE DEF Entry, Files!FNext, Files!orders, Files!work, Files!findings
<1>1. ASSUME NEW r \in Requests, NEW j \in Jobs, NEW required \in BOOLEAN,
             Raise(r, j, required)
      PROVE  Entry
  <2>1. Files!Raise(r, j, required) BY <1>1 DEF Raise, Files!Raise, Files!Live, Live
  <2> QED BY <2>1
<1>2. ASSUME NEW r \in Requests, NEW to \in {"approved", "rejected", "withdrawn"}, Decide(r, to)
      PROVE  Entry
  <2>1. Files!Decide(r, to)
    BY <1>2 DEF Decide, Decidable, Files!Decide, Files!Asked, Files!Live, Live
  <2> QED BY <2>1
<1>3. ASSUME NEW r \in Requests, NEW to \in {"fulfilled", "waived"}, SetFulfilment(r, to)
      PROVE  Entry
  <2>1. Files!Fulfil(r, to)
    BY <1>3 DEF SetFulfilment, Decidable, Files!Fulfil, Files!Asked, Files!Live, Live
  <2> QED BY <2>1
<1>4. ASSUME NEW q \in Inspections, NEW result \in {"passed", "failed"}, Finalize(q, result)
      PROVE  Entry
  <2>1. Files!Judge(q, result) BY <1>4 DEF Finalize, Files!Judge
  <2> QED BY <2>1
<1> QED BY <1>1, <1>2, <1>3, <1>4 DEF RequestStep

\* A closure is decided by what holds when it ends.
LEMMA CloseEntry ==
  ASSUME Inv, EdgesHold, NEW s \in Sessions, FinishClose(s) PROVE Entry
<1> DEFINE w == tx[s].wo  to == tx[s].to
<1>1. /\ tx[s].kind = "close" /\ tx[s].passed = 6 /\ w \in WorkOrders /\ Live(w)
      /\ to \in Closing /\ to \in WoStates /\ <<state[w], to>> \in WoGraph
  BY CatalogAssumption DEF FinishClose, Inv, TxOK, EdgesHold, Closing
<1>2. \A b \in Lasting : b <= 6 BY DEF Lasting, Blockers
<1>3. Files!Complete(w) BY <1>1, <1>2, PassedComplete DEF Inv, PassedHolds
<1>4. Files!Move(w, to)
  BY <1>1, <1>3 DEF FinishClose, Files!Move, Files!Live, Live, Files!work, Files!findings
<1> QED BY <1>1, <1>4 DEF Entry, Files!FNext

\* So is a job transition, although it has only the job ...
LEMMA AdvanceEntry ==
  ASSUME Inv, EdgesHold, NEW s \in Sessions, FinishJobTransition(s) PROVE Entry
<1> DEFINE j == tx[s].job  to == tx[s].to
<1>1. /\ tx[s].kind = "transition" /\ j \in Jobs /\ to \in JobStates
      /\ job[j].state \notin JobTerminal \cup {None}
      /\ <<job[j].state, to>> \in JobGraph /\ (to \in LabourAllowed => Settled(j))
  BY DEF FinishJobTransition, Inv, TxOK, Holders, ReadHolds, EdgesHold
<1>2. Files!GoesOn(j) BY <1>1, HeldGoesOn
<1>3. Files!Advance(j, to)
  BY <1>1, <1>2 DEF FinishJobTransition, Files!Advance, Settled, Pending, Files!Undecided,
     Files!orders, Files!findings
<1> QED BY <1>1, <1>3 DEF Entry, Files!FNext

\* ... and an assignment: the primary it follows is the one there is.
LEMMA AssignEntry ==
  ASSUME Inv, EdgesHold, NEW s \in Sessions, NEW a \in Assignments, FinishAssign(s, a)
  PROVE  Entry
<1>1. PICK j \in Jobs, t \in Technicians, role \in {"primary", "assist"} :
        tx[s].job = j /\ tx[s].tech = t /\ tx[s].to = role
  BY DEF FinishAssign, Inv, TxOK, Holders
<1>2. tx[s].kind \in {"assign", "reassign"} /\ job[j].state \notin JobTerminal \cup {None}
  BY <1>1 DEF FinishAssign, Inv, TxOK, Holders, EdgesHold
<1>3. Files!GoesOn(j) BY <1>2, HeldGoesOn
<1> DEFINE before == {b \in Assignments : role = "primary" /\ assignment[b].job = j
                                            /\ assignment[b].role = "primary"}
           ended == IF tx[s].kind = "reassign" THEN ActivePrimaries(j) ELSE {}
<1>4. before = ended
  <2>1. CASE tx[s].kind = "reassign"
    BY <1>1, <2>1 DEF EdgesHold, ActivePrimaries
  <2>2. CASE tx[s].kind = "assign"
    BY <1>1, <2>2 DEF Inv, ReadHolds, ActivePrimaries
  <2> QED BY <1>2, <2>1, <2>2
<1>5. \A b \in before : assignment[b].tech # t
  BY <1>1, <1>4 DEF EdgesHold
<1>6. /\ assignment[a].job = None /\ UNCHANGED <<state, job, labour, request, diagnosed,
                                                  inspection, rework>>
      /\ assignment' = [b \in Assignments |->
           IF b = a THEN [job |-> j, tech |-> t, role |-> role]
           ELSE IF b \in ended THEN NoAssignment ELSE assignment[b]]
  BY <1>1 DEF FinishAssign
<1>7. assignment' = [b \in Assignments |->
        IF b = a THEN [job |-> j, tech |-> t, role |-> role]
        ELSE IF b \in before THEN [job |-> None, tech |-> None, role |-> "assist"]
        ELSE assignment[b]]
  BY <1>4, <1>6 DEF NoAssignment
<1>8. Files!Assign(a, j, t, role)
  BY <1>3, <1>5, <1>6, <1>7 DEF Files!Assign, Files!orders, Files!findings
<1> QED BY <1>8 DEF Entry, Files!FNext

\* The other ends of requests.
LEMMA EndEntries ==
  ASSUME Inv, EdgesHold, NEW s \in Sessions, EndStep(s) PROVE Entry
<1> USE DEF Entry, Files!FNext, Files!orders, Files!work, Files!findings
<1>0. TypeOK /\ TxOK BY DEF Inv
<1>1. ASSUME NEW l \in Labours, StartLabour(s, l) PROVE Entry
  <2>1. PICK j \in Jobs, t \in Technicians : tx[s].job = j /\ tx[s].tech = t /\ job[j].state # None
    BY <1>0, <1>1 DEF StartLabour, TxOK
  <2>2. Files!Start(l, j, t)
    BY <1>1, <2>1 DEF StartLabour, Files!Start, Files!Live, Live
  <2> QED BY <2>2
<1>2. CASE FinishCorrection(s)
  <2>1. PICK l \in Labours : tx[s].row = l /\ labour[l].job \in Jobs
    BY <1>0, <1>2 DEF FinishCorrection, TxOK, EdgesHold
  <2>2. Files!Stop(l)
    BY <1>2, <2>1, NoneAssumption DEF FinishCorrection, Files!Stop, NoLabour
  <2> QED BY <2>2
<1>3. CASE FinishDiagnosis(s)
  <2>1. PICK j \in Jobs : tx[s].job = j /\ job[j].state # None
    BY <1>0, <1>3 DEF FinishDiagnosis, TxOK
  <2>2. Files!Diagnose(j) BY <1>3, <2>1 DEF FinishDiagnosis, Files!Diagnose
  <2> QED BY <2>2
<1>4. ASSUME NEW q \in Inspections, FinishInspection(s, q) PROVE Entry
  <2>1. PICK w \in WorkOrders : tx[s].wo = w /\ state[w] # None
    BY <1>0, <1>4 DEF FinishInspection, TxOK, EdgesHold
  <2>2. Files!Inspect(q, w) BY <1>4, <2>1 DEF FinishInspection, Files!Inspect
  <2> QED BY <2>2
<1>5. CASE CheckBlocker(s) \/ Rollback(s)
  <2>1. UNCHANGED Data BY <1>5, QuietSteps DEF Rollback, Data
  <2> QED BY <2>1 DEF Data, Files!fvars
<1> QED
  BY <1>1, <1>2, <1>3, <1>4, <1>5, CloseEntry, AdvanceEntry, AssignEntry DEF EndStep

\* Every step is an entry or writes nothing.
LEMMA StepEnters == Inv /\ EdgesHold /\ [Next]_vars => Entry
<1> SUFFICES ASSUME Inv, EdgesHold, [Next]_vars PROVE Entry OBVIOUS
<1>1. UNCHANGED Data => Entry
  BY DEF Data, Entry, Files!fvars, Files!orders, Files!work, Files!findings
<1>2. CASE UNCHANGED vars BY <1>1, <1>2 DEF vars, Data
<1>3. ASSUME NEW s \in Sessions, BeginStep(s) PROVE Entry BY <1>1, <1>3, QuietSteps
<1>4. ASSUME NEW s \in Sessions, EndStep(s) PROVE Entry BY <1>4, EndEntries
<1> QED
  BY <1>2, <1>3, <1>4, WorkOrderEntries, JobEntries, RequestEntries DEF Next, Inv

\* The workshop implements its files: every request is decided on the tables as they are
\* when it commits, a closure on all of its blockers at once, whatever it read one after
\* the other and whoever wrote meanwhile (closeWorkOrder, transitionJob, assign, reassign,
\* guard_labor_session, correct_labor_session).
THEOREM WorkshopIsAFile == Spec => RequestsAreAtomic
<1>1. Init => Files!FInit
  BY DEF Init, Files!FInit, NoJob, NoAssignment, NoLabour, NoRequest, NoInspection, NoRework
<1>2. Inv /\ EdgesHold /\ [Next]_vars => [Files!FNext]_(Files!fvars)
  BY StepEnters DEF Entry
<1> QED BY <1>1, <1>2, Invariance, EdgesAlways, PTL DEF Spec, RequestsAreAtomic, Files!FSpec

=============================================================================
