---------------------------- MODULE Agent_proofs ----------------------------
(***************************************************************************)
(* Proofs about the agent: its session and the streams that meet in it     *)
(* (AgentSession), for every number of streams, every bound and every set  *)
(* of outcomes, and the loop of one run (ToolRound), for every set of      *)
(* tools, everything the provider may answer with, every setting and every *)
(* limit.                                                                  *)
(***************************************************************************)
EXTENDS AgentSession, ToolRound, FiniteSetTheorems, WellFoundedInduction, TLAPS

Purposes == {"message", "plan"} \cup Internal

\* A plan stream's own steps, and what no step of a stream looks at.
PlanWork(r) == Continue(r) \/ OpenPlan(r) \/ ClassifyIntent(r) \/ CreatePlan(r)

\* Somebody else takes a notification or answers for it.
Handled(r) == claim_operation_notification(r) \/ mark_operation_notification(r)

\* The actions, one by one.
LEMMA Actions ==
    ASSUME [Next]_vars
    PROVE  \/ \E r \in Runs :
                \/ CreateRun(r) \/ ExecuteTool(r) \/ RecordWait(r) \/ EndLoop(r) \/ CloseStream(r)
                \/ OperationEnds(r) \/ promote_approval_wait_to_operation_wait(r)
                \/ claim_next_idle(r) \/ CheckWaiting(r)
                \/ Disconnect(r) \/ DecideApproval(r)
                \/ PlanWork(r) \/ Handled(r)
           \/ \E r \in Runs, what \in Purposes : UserStream(r, what)
           \/ \E r, q \in Runs :
                OpenReport(r, q) \/ ReportFails(r, q)
                \/ reconcile_waiting_operation_agent_state(r, q)
           \/ CenterRestarts
           \/ UNCHANGED vars
  BY DEF Next, GoesOn, StreamStep, Report, Request, Purposes, Internal, PlanWork, Handled, invoke_agent,
     resume_operation, resume_agent_run, resume_last_agent_run, agent_plan

(***************************************************************************)
(* Types.                                                                  *)
(***************************************************************************)
Booleans == marked \in BOOLEAN /\ overlapped \in BOOLEAN /\ held \in [Runs -> BOOLEAN]

\* The incidents of a behaviour are few: there are finitely many streams.
LEMMA IncidentsBound ==
    ASSUME drops \in Nat, Incidents < MaxDrops
    PROVE  drops + 1 \in 0..MaxDrops
<1> DEFINE Held == {r \in Runs : held[r]}
<1>1. IsFiniteSet(Runs)
  BY FS_Interval, SessionAssumption DEF Runs
<1>2. IsFiniteSet(Held)
  BY <1>1, FS_Subset
<1>3. Cardinality(Held) \in Nat
  BY <1>2, FS_CardinalityType
<1> QED
  BY <1>3, SessionAssumption DEF Incidents

RunStatus == {"none", "active"} \cup Paused \cup TERMINAL_AGENT_RUN_STATUSES

TurnStatus == {"none", "open"} \cup Paused \cup TERMINAL_AGENT_RUN_STATUSES

Typed ==
    /\ drops \in 0..MaxDrops
    /\ step \in [Runs -> Streaming \cup {"idle", "over", "dropped"}]
    /\ run \in [Runs -> RunStatus]
    /\ purpose \in [Runs -> Purposes]
    /\ turn \in [Runs -> TurnStatus]
    /\ reportOf \in [Runs -> Runs \cup {0}]
    /\ approval \in [Runs -> {"none", "pending", "executed", "decided"}]
    /\ op \in [Runs -> {"none", "running"} \cup TERMINAL_STATUSES]
    /\ note \in [Runs -> {"none", "pending", "processing", "reported", "failed"}]
    /\ reporter \in [at : {"idle", "claimed", "checked", "reading"}, for : Runs \cup {0}]

\* What a step of a plan stream leaves alone, and where it goes.
LEMMA PlanWorkStep ==
    ASSUME NEW r \in Runs, PlanWork(r)
    PROVE  /\ UNCHANGED <<held, marked, run, purpose, reportOf, approval, op, note, reporter, overlapped, drops>>
           /\ step[r] \in {"open", "thinking", "planning", "drafting"}
           /\ UNCHANGED step \/ \E x \in {"planning", "drafting", "answered", "failing", "dropped"} :
                step' = [step EXCEPT ![r] = x]
           /\ step[r] # "thinking" \/ UNCHANGED step
           /\ UNCHANGED turn \/ \E s \in {"open", "failed", "waiting_approval"} : Tells(r, s)
  BY DEF PlanWork, Continue, OpenPlan, ClassifyIntent, CreatePlan, PlanUnchanged, Goes

\* The same of a notification that somebody else handles.
LEMMA HandledStep ==
    ASSUME drops \in 0..MaxDrops, NEW r \in Runs, Handled(r)
    PROVE  /\ UNCHANGED <<held, marked, step, run, purpose, turn, reportOf, approval, op, reporter,
                          overlapped>>
           /\ note[r] # "none" /\ \E s \in {"processing", "reported", "failed"} : note' = [note EXCEPT ![r] = s]
           /\ drops' \in 0..MaxDrops /\ Dropped'
<1>1. drops' \in 0..MaxDrops /\ drops' > 0
  BY SessionAssumption, IncidentsBound DEF Handled, claim_operation_notification, mark_operation_notification
<1>2. Dropped'
  BY <1>1 DEF Dropped
<1> QED
  BY <1>1, <1>2 DEF Handled, claim_operation_notification, mark_operation_notification

LEMMA TypeSplit == TypeOK <=> Booleans /\ Typed
  BY Zenon DEF TypeOK, Booleans, Typed, RunStatus, TurnStatus, Purposes

LEMMA BooleansStep == Booleans /\ [Next]_vars => Booleans'
<1> SUFFICES ASSUME Booleans, [Next]_vars PROVE Booleans'
  OBVIOUS
<1> USE DEF Booleans
<1>1. ASSUME NEW r \in Runs, NEW w, NEW x, OpenStream(r, w, x) PROVE Booleans'
  BY <1>1, Zenon DEF OpenStream
<1>2. ASSUME NEW r \in Runs, CloseStream(r) PROVE Booleans'
  <2>1. marked' \in BOOLEAN /\ overlapped' \in BOOLEAN
    BY <1>2, Zenon DEF CloseStream
  <2>2. held' = [held EXCEPT ![r] = TRUE] \/ UNCHANGED held
    BY <1>2, Zenon DEF CloseStream
  <2> QED
    BY <2>1, <2>2
<1>3. CASE CenterRestarts
  BY <1>3, Zenon DEF CenterRestarts
<1>4. CASE UNCHANGED <<held, marked, overlapped>>
  BY <1>4, Zenon
<1>5. ASSUME NEW r \in Runs,
             \/ CreateRun(r) \/ ExecuteTool(r) \/ RecordWait(r) \/ EndLoop(r)
             \/ OperationEnds(r) \/ promote_approval_wait_to_operation_wait(r)
             \/ claim_next_idle(r) \/ CheckWaiting(r) \/ Disconnect(r) \/ DecideApproval(r)
      PROVE  UNCHANGED <<held, marked, overlapped>>
  BY <1>5 DEF CreateRun, ExecuteTool, RecordWait, EndLoop, OperationEnds,
        promote_approval_wait_to_operation_wait, claim_next_idle, CheckWaiting, Disconnect,
        DecideApproval
<1>10. ASSUME NEW r \in Runs, PlanWork(r) PROVE UNCHANGED <<held, marked, overlapped>>
  BY <1>10, PlanWorkStep
<1>11. ASSUME NEW r \in Runs, Handled(r) PROVE UNCHANGED <<held, marked, overlapped>>
  BY <1>11 DEF Handled, claim_operation_notification, mark_operation_notification
<1>6. ASSUME NEW r \in Runs, NEW q \in Runs,
             ReportFails(r, q) \/ reconcile_waiting_operation_agent_state(r, q)
      PROVE  UNCHANGED <<held, marked, overlapped>>
  BY <1>6 DEF ReportFails, reconcile_waiting_operation_agent_state
<1>7. ASSUME NEW r \in Runs, NEW w \in Purposes, UserStream(r, w) PROVE Booleans'
  BY <1>1, <1>7 DEF UserStream
<1>8. ASSUME NEW r \in Runs, NEW q \in Runs, OpenReport(r, q) PROVE Booleans'
  BY <1>1, <1>8 DEF OpenReport
<1>9. UNCHANGED vars => UNCHANGED <<held, marked, overlapped>>
  BY DEF vars
<1> QED
  BY <1>2, <1>3, <1>4, <1>5, <1>6, <1>7, <1>8, <1>9, <1>10, <1>11, Actions

(***************************************************************************)
(* The life of a run: what its stream is at says which row it has, what it *)
(* waits for, and whether there can be a notification of it; the reporter  *)
(* only works on a run that has one.                                       *)
(***************************************************************************)
NotYet == {"idle", "open", "planning", "drafting"}

Life ==
    \A r \in Runs :
        /\ step[r] \in NotYet => run[r] = "none"
        /\ step[r] \in {"thinking", "acted"} => run[r] = "active"
        /\ step[r] \in NotYet \cup {"thinking"} => op[r] = "none" /\ approval[r] = "none"
        /\ approval[r] = "pending" => op[r] = "none"
        /\ note[r] # "none" => op[r] \in TERMINAL_STATUSES
        /\ reporter.for = r => note[r] # "none" /\ reporter.at # "idle"
        /\ step[r] \in {"waits", "answered", "failing", "over"} /\ op[r] # "none"
           /\ approval[r] = "none"
               => run[r] \in {"waiting_operation"} \cup TERMINAL_AGENT_RUN_STATUSES

LEMMA TypedStep == Typed /\ Life /\ [Next]_vars => Typed'
<1> SUFFICES ASSUME Typed, Life, [Next]_vars PROVE Typed'
  OBVIOUS
<1> USE DEF Typed, Streaming, RunStatus, TurnStatus, Purposes, Internal, Paused, TERMINAL_AGENT_RUN_STATUSES,
        Goes, Becomes, Tells, _next_turn_status, _finalize_unclosed_turn
<1>1. ASSUME NEW r \in Runs, CreateRun(r) PROVE Typed'
  BY <1>1 DEF CreateRun
<1>2. ASSUME NEW r \in Runs, ExecuteTool(r) PROVE Typed'
  BY <1>2 DEF ExecuteTool
<1>3. ASSUME NEW r \in Runs, RecordWait(r) PROVE Typed'
  BY <1>3 DEF RecordWait
<1>4. ASSUME NEW r \in Runs, EndLoop(r) PROVE Typed'
  BY <1>4 DEF EndLoop
<1>5. ASSUME NEW r \in Runs, CloseStream(r) PROVE Typed'
  BY <1>5 DEF CloseStream, ClosedTurn
<1>6. ASSUME NEW r \in Runs, OperationEnds(r) PROVE Typed'
  BY <1>6, SessionAssumption DEF OperationEnds
<1>7. ASSUME NEW r \in Runs, promote_approval_wait_to_operation_wait(r) PROVE Typed'
  BY <1>7 DEF promote_approval_wait_to_operation_wait
<1>8. ASSUME NEW r \in Runs, claim_next_idle(r) PROVE Typed'
  BY <1>8 DEF claim_next_idle
<1>9. ASSUME NEW r \in Runs, CheckWaiting(r) PROVE Typed'
  BY <1>9 DEF CheckWaiting, Finish, Nobody
<1>10. ASSUME NEW r \in Runs, NEW w \in Purposes, NEW x \in Runs \cup {0}, OpenStream(r, w, x),
              reporter' \in [at : {"idle", "claimed", "checked", "reading"}, for : Runs \cup {0}]
       PROVE  Typed'
  BY <1>10 DEF OpenStream, create_agent_turn
<1>11. ASSUME NEW r \in Runs, NEW w \in Purposes, UserStream(r, w) PROVE Typed'
  BY <1>10, <1>11 DEF UserStream
<1>12. ASSUME NEW r \in Runs, NEW q \in Runs, OpenReport(r, q) PROVE Typed'
  BY <1>10, <1>12 DEF OpenReport
<1>13. ASSUME NEW r \in Runs, Disconnect(r) PROVE Typed'
  <2>1. drops' \in 0..MaxDrops
    BY <1>13, SessionAssumption, IncidentsBound DEF Disconnect
  <2> QED
    BY <1>13, <2>1 DEF Disconnect
<1>14. ASSUME NEW r \in Runs, DecideApproval(r) PROVE Typed'
  BY <1>14 DEF DecideApproval
<1>15. ASSUME NEW r \in Runs, NEW q \in Runs, ReportFails(r, q) PROVE Typed'
  BY <1>15 DEF ReportFails, Finish, Nobody
<1>16. ASSUME NEW r \in Runs, NEW q \in Runs, reconcile_waiting_operation_agent_state(r, q)
       PROVE  Typed'
  <2>1. op[r] \in TERMINAL_STATUSES
    BY <1>16 DEF Life, reconcile_waiting_operation_agent_state
  <2>2. _agent_status_for_operation(op[r]) \in RunStatus
    BY <2>1 DEF _agent_status_for_operation, TERMINAL_STATUSES
  <2>3. _agent_status_for_operation(op[r]) \in TurnStatus
    BY <2>1 DEF _agent_status_for_operation, TERMINAL_STATUSES
  <2>4. reporter' \in [at : {"idle", "claimed", "checked", "reading"}, for : Runs \cup {0}]
        /\ note' \in [Runs -> {"none", "pending", "processing", "reported", "failed"}]
    BY <1>16 DEF reconcile_waiting_operation_agent_state, Finish, Nobody
  <2>5. run' \in [Runs -> RunStatus] /\ turn' \in [Runs -> TurnStatus]
    BY <1>16, <2>2, <2>3 DEF reconcile_waiting_operation_agent_state
  <2> QED
    BY <1>16, <2>4, <2>5 DEF reconcile_waiting_operation_agent_state
<1>17. CASE CenterRestarts
  <2>1. drops' \in 0..MaxDrops
    BY <1>17, SessionAssumption, IncidentsBound DEF CenterRestarts
  <2> QED
    BY <1>17, <2>1 DEF CenterRestarts, Nobody
<1>18. CASE UNCHANGED vars
  BY <1>18 DEF vars
<1>19. ASSUME NEW r \in Runs, PlanWork(r) PROVE Typed'
  <2>1. step' \in [Runs -> Streaming \cup {"idle", "over", "dropped"}]
    BY <1>19, PlanWorkStep
  <2>2. turn' \in [Runs -> TurnStatus]
    BY <1>19, PlanWorkStep
  <2> QED
    BY <1>19, <2>1, <2>2, PlanWorkStep
<1>20. ASSUME NEW r \in Runs, Handled(r) PROVE Typed'
  BY <1>20, HandledStep, SessionAssumption
<1> QED
  BY <1>1, <1>2, <1>3, <1>4, <1>5, <1>6, <1>7, <1>8, <1>9, <1>11, <1>12, <1>13, <1>14, <1>15,
     <1>16, <1>17, <1>18, <1>19, <1>20, Actions

LEMMA InitTyped == Init => Typed /\ Booleans
<1> SUFFICES ASSUME Init PROVE Typed /\ Booleans
  OBVIOUS
<1>1. Booleans
  BY Zenon DEF Init, Booleans
<1>2. Typed
  BY SessionAssumption DEF Init, Typed, RunStatus, TurnStatus, Purposes, Nobody
<1> QED
  BY <1>1, <1>2

LEMMA LifeStep == Typed /\ Life /\ [Next]_vars => Life'
<1> SUFFICES ASSUME Typed, Life, [Next]_vars PROVE Life'
  OBVIOUS
<1> USE DEF Typed, Life, Streaming, RunStatus, Paused, TERMINAL_AGENT_RUN_STATUSES, NotYet, Goes, Becomes
<1>0. 0 \notin Runs
  BY SessionAssumption DEF Runs
<1>1. ASSUME NEW r \in Runs, CreateRun(r) PROVE Life'
  BY <1>1 DEF CreateRun
<1>2. ASSUME NEW r \in Runs, ExecuteTool(r) PROVE Life'
  BY <1>2 DEF ExecuteTool, TERMINAL_STATUSES
<1>3. ASSUME NEW r \in Runs, RecordWait(r) PROVE Life'
  BY <1>3 DEF RecordWait
<1>4. ASSUME NEW r \in Runs, EndLoop(r) PROVE Life'
  BY <1>4 DEF EndLoop
<1>5. ASSUME NEW r \in Runs, CloseStream(r) PROVE Life'
  BY <1>5 DEF CloseStream
<1>6. ASSUME NEW r \in Runs, OperationEnds(r) PROVE Life'
  BY <1>6, SessionAssumption DEF OperationEnds
<1>7. ASSUME NEW r \in Runs, promote_approval_wait_to_operation_wait(r) PROVE Life'
  BY <1>7 DEF promote_approval_wait_to_operation_wait
<1>8. ASSUME NEW r \in Runs, claim_next_idle(r) PROVE Life'
  BY <1>8 DEF claim_next_idle
<1>9. ASSUME NEW r \in Runs, CheckWaiting(r) PROVE Life'
  BY <1>0, <1>9 DEF CheckWaiting, Finish, Nobody
<1>10. ASSUME NEW r \in Runs, NEW w \in Purposes, NEW x \in Runs \cup {0}, OpenStream(r, w, x),
              \/ UNCHANGED reporter
              \/ reporter.at = "checked" /\ reporter' = [at |-> "reading", for |-> reporter.for]
       PROVE  Life'
  BY <1>10 DEF OpenStream
<1>11. ASSUME NEW r \in Runs, NEW w \in Purposes, UserStream(r, w) PROVE Life'
  BY <1>10, <1>11 DEF UserStream
<1>12. ASSUME NEW r \in Runs, NEW q \in Runs, OpenReport(r, q) PROVE Life'
  BY <1>10, <1>12 DEF OpenReport, Purposes, Internal
<1>13. ASSUME NEW r \in Runs, Disconnect(r) PROVE Life'
  BY <1>13 DEF Disconnect
<1>14. ASSUME NEW r \in Runs, DecideApproval(r) PROVE Life'
  BY <1>14 DEF DecideApproval, TERMINAL_STATUSES
<1>15. ASSUME NEW r \in Runs, NEW q \in Runs, ReportFails(r, q) PROVE Life'
  BY <1>0, <1>15 DEF ReportFails, Finish, Nobody
<1>16. ASSUME NEW r \in Runs, NEW q \in Runs, reconcile_waiting_operation_agent_state(r, q)
       PROVE  Life'
  <2>1. op[r] \in TERMINAL_STATUSES
    BY <1>16 DEF reconcile_waiting_operation_agent_state
  <2>2. _agent_status_for_operation(op[r]) \in TERMINAL_AGENT_RUN_STATUSES
    BY <2>1 DEF _agent_status_for_operation, TERMINAL_STATUSES
  <2> QED
    BY <1>0, <1>16, <2>2 DEF reconcile_waiting_operation_agent_state, Finish, Nobody
<1>17. CASE CenterRestarts
  BY <1>0, <1>17 DEF CenterRestarts, Nobody
<1>18. CASE UNCHANGED vars
  BY <1>18 DEF vars
<1>19. ASSUME NEW r \in Runs, PlanWork(r) PROVE Life'
  BY <1>19, PlanWorkStep DEF TERMINAL_STATUSES
<1>20. ASSUME NEW r \in Runs, Handled(r) PROVE Life'
  BY <1>20, HandledStep
<1> QED
  BY <1>1, <1>2, <1>3, <1>4, <1>5, <1>6, <1>7, <1>8, <1>9, <1>11, <1>12, <1>13, <1>14, <1>15,
     <1>16, <1>17, <1>18, <1>19, <1>20, Actions

LEMMA InitLife == Init => Life
  BY DEF Init, Life, Nobody, Runs

\* Every variable keeps its type.
THEOREM TypeCorrect == Spec => []TypeOK
<1> DEFINE I == Typed /\ Booleans /\ Life
<1>1. Init => I
  BY InitTyped, InitLife, Zenon
<1>2. I /\ [Next]_vars => I'
  BY TypedStep, BooleansStep, LifeStep, Zenon
<1>3. I => TypeOK
  BY TypeSplit, Zenon
<1> QED
  BY <1>1, <1>2, <1>3, PTL DEF Spec

\* A run leaves its wait for an operation only when that operation is over, and as it
\* ended.
THEOREM EndsAsOperation == Spec => RunEndsAsOperation
<1>1. Typed /\ Life /\ [Next]_vars =>
        [\A r \in Runs : run[r] = "waiting_operation" /\ run'[r] # run[r] =>
            /\ op[r] \in TERMINAL_STATUSES
            /\ run'[r] = _agent_status_for_operation(op[r])]_vars
  <2> SUFFICES ASSUME Typed, Life, [Next]_vars, NEW r \in Runs,
                      run[r] = "waiting_operation", run'[r] # run[r]
               PROVE  /\ op[r] \in TERMINAL_STATUSES
                      /\ run'[r] = _agent_status_for_operation(op[r])
    OBVIOUS
  <2> USE DEF Typed, Life, RunStatus, Paused, NotYet
  <2>1. \E x, q \in Runs : reconcile_waiting_operation_agent_state(x, q)
    <3>1. ASSUME NEW x \in Runs,
                 CreateRun(x) \/ RecordWait(x) \/ EndLoop(x)
                 \/ promote_approval_wait_to_operation_wait(x)
          PROVE  FALSE
      BY <3>1 DEF CreateRun, RecordWait, EndLoop, Becomes, promote_approval_wait_to_operation_wait
    <3>2. ASSUME NEW x \in Runs, NEW q \in Runs, NEW w \in Purposes,
                 \/ ExecuteTool(x) \/ CloseStream(x) \/ OperationEnds(x) \/ claim_next_idle(x)
                 \/ CheckWaiting(x) \/ UserStream(x, w) \/ Disconnect(x) \/ DecideApproval(x)
                 \/ PlanWork(x) \/ Handled(x) \/ OpenReport(x, q) \/ ReportFails(x, q)
          PROVE  FALSE
      BY <3>2, PlanWorkStep, HandledStep DEF ExecuteTool, CloseStream, OperationEnds, claim_next_idle, CheckWaiting,
         UserStream, OpenStream, Disconnect, DecideApproval, OpenReport, ReportFails
    <3>3. ~CenterRestarts /\ ~UNCHANGED vars
      BY DEF CenterRestarts, vars
    <3> QED
      BY <3>1, <3>2, <3>3, Actions
  <2>2. PICK x \in Runs, q \in Runs : reconcile_waiting_operation_agent_state(x, q)
    BY <2>1
  <2>3. x = r
    BY <2>2 DEF reconcile_waiting_operation_agent_state
  <2> QED
    BY <2>2, <2>3 DEF reconcile_waiting_operation_agent_state
<1> DEFINE I == Typed /\ Booleans /\ Life
<1>2. Init => I
  BY InitTyped, InitLife, Zenon
<1>3. I /\ [Next]_vars => I'
  BY TypedStep, BooleansStep, LifeStep, Zenon
<1> QED
  BY <1>1, <1>2, <1>3, PTL DEF Spec, RunEndsAsOperation

(***************************************************************************)
(* Streams that take turns: at most one is working, the mark is there      *)
(* exactly while it is, and the run the reporter has claimed is not the    *)
(* one that is working: it was claimed while the session was not marked.   *)
(***************************************************************************)
OneStream == ~overlapped => \A p, q \in Runs : step[p] \in Streaming /\ step[q] \in Streaming => p = q

ClaimedIsOver ==
    ~overlapped /\ ~Dropped => \A r \in Runs : reporter.for = r => step[r] = "over"

TInv ==
    /\ Typed /\ Booleans /\ Life
    /\ OneStream /\ MarkTellsTheTruth /\ ClaimedIsOver /\ ReportedIsSettled

\* A stream that was dropped stays dropped, and streams that overlapped have overlapped.
LEMMA HistoryStays ==
    ASSUME Typed, [Next]_vars
    PROVE  (overlapped => overlapped') /\ (Dropped => Dropped')
<1> USE DEF Typed, Dropped, Goes
<1>1. ASSUME NEW r \in Runs, NEW w, NEW x, OpenStream(r, w, x)
      PROVE  (overlapped => overlapped') /\ (Dropped => Dropped')
  BY <1>1 DEF OpenStream
<1>2. ASSUME NEW r \in Runs,
             \/ CreateRun(r) \/ ExecuteTool(r) \/ RecordWait(r) \/ EndLoop(r) \/ CloseStream(r)
             \/ OperationEnds(r) \/ promote_approval_wait_to_operation_wait(r)
             \/ claim_next_idle(r) \/ CheckWaiting(r) \/ DecideApproval(r)
      PROVE  (overlapped => overlapped') /\ (Dropped => Dropped')
  BY <1>2 DEF CreateRun, ExecuteTool, RecordWait, EndLoop, CloseStream, OperationEnds,
        promote_approval_wait_to_operation_wait, claim_next_idle, CheckWaiting, DecideApproval,
        Streaming
<1>3. ASSUME NEW r \in Runs, Disconnect(r) PROVE (overlapped => overlapped') /\ Dropped'
  BY <1>3, SessionAssumption DEF Disconnect
<1>4. ASSUME NEW r \in Runs, NEW q \in Runs,
             ReportFails(r, q) \/ reconcile_waiting_operation_agent_state(r, q)
      PROVE  (overlapped => overlapped') /\ (Dropped => Dropped')
  BY <1>4 DEF ReportFails, reconcile_waiting_operation_agent_state
<1>5. CenterRestarts => (overlapped => overlapped') /\ Dropped'
  BY SessionAssumption DEF CenterRestarts
<1>6. CASE UNCHANGED vars
  BY <1>6 DEF vars
<1>7. ASSUME NEW r \in Runs, NEW w \in Purposes, UserStream(r, w)
      PROVE  (overlapped => overlapped') /\ (Dropped => Dropped')
  BY <1>1, <1>7 DEF UserStream
<1>8. ASSUME NEW r \in Runs, NEW q \in Runs, OpenReport(r, q)
      PROVE  (overlapped => overlapped') /\ (Dropped => Dropped')
  BY <1>1, <1>8 DEF OpenReport
<1>9. ASSUME NEW r \in Runs, PlanWork(r) PROVE (overlapped => overlapped') /\ (Dropped => Dropped')
  BY <1>9, PlanWorkStep
<1>10. ASSUME NEW r \in Runs, Handled(r) PROVE (overlapped => overlapped') /\ Dropped'
  BY <1>10, HandledStep
<1> HIDE DEF Dropped, Typed
<1> QED
  BY <1>2, <1>3, <1>4, <1>5, <1>6, <1>7, <1>8, <1>9, <1>10, Actions, Zenon

\* A step within the stream of one run leaves the others as they are.
LEMMA TurnsStep == TInv /\ [Next]_vars => OneStream' /\ MarkTellsTheTruth' /\ ClaimedIsOver'
<1> SUFFICES ASSUME TInv, [Next]_vars, ~overlapped'
             PROVE  /\ \A p, q \in Runs : step'[p] \in Streaming /\ step'[q] \in Streaming => p = q
                    /\ ~Dropped' => (marked' <=> Busy')
                    /\ ~Dropped' => \A r \in Runs : reporter'.for = r => step'[r] = "over"
  BY Zenon DEF OneStream, MarkTellsTheTruth, ClaimedIsOver
<1> DEFINE Turns == /\ \A p, q \in Runs : step'[p] \in Streaming /\ step'[q] \in Streaming => p = q
                    /\ ~Dropped' => (marked' <=> Busy')
                    /\ ~Dropped' => \A r \in Runs : reporter'.for = r => step'[r] = "over"
<1>1. /\ Typed /\ ~overlapped /\ (~Dropped' => ~Dropped) /\ 0 \notin Runs
      /\ \A p, q \in Runs : step[p] \in Streaming /\ step[q] \in Streaming => p = q
      /\ ~Dropped => (marked <=> Busy)
      /\ ~Dropped => \A r \in Runs : reporter.for = r => step[r] = "over"
  BY HistoryStays, SessionAssumption DEF TInv, OneStream, MarkTellsTheTruth, ClaimedIsOver, Runs
<1> SUFFICES Turns
  OBVIOUS
<1> USE DEF Typed, Streaming, Busy, Goes
<1>2. ASSUME NEW r \in Runs, CreateRun(r) \/ ExecuteTool(r) \/ RecordWait(r) \/ EndLoop(r)
      PROVE  Turns
  <2>1. /\ step[r] \in Streaming /\ UNCHANGED <<marked, reporter>>
        /\ \E x \in Streaming : step' = [step EXCEPT ![r] = x]
    BY <1>2 DEF CreateRun, ExecuteTool, RecordWait, EndLoop
  <2>2. Busy /\ Busy' /\ \A p \in Runs : step'[p] \in Streaming <=> step[p] \in Streaming
    BY <2>1
  <2>3. \A p \in Runs : p # r => step'[p] = step[p]
    BY <2>1
  <2> QED
    BY <1>1, <2>1, <2>2, <2>3
<1>3. ASSUME NEW r \in Runs, CloseStream(r) PROVE Turns
  <2>1. step[r] \in Streaming /\ UNCHANGED reporter /\ ~marked' /\ step' = [step EXCEPT ![r] = "over"]
    BY <1>3 DEF CloseStream
  <2>2. \A p \in Runs : step'[p] \notin Streaming
    BY <1>1, <2>1
  <2> QED
    BY <1>1, <2>1, <2>2
<1>4. ASSUME NEW r \in Runs, NEW w, NEW x, OpenStream(r, w, x), reporter'.for = reporter.for PROVE Turns
  <2>1. ~Busy /\ marked' /\ step' = [step EXCEPT ![r] = "open"] /\ step[r] = "idle"
    BY <1>4 DEF OpenStream
  <2> QED
    BY <1>1, <1>4, <2>1
<1>5. ASSUME NEW r \in Runs,
             \/ OperationEnds(r) \/ promote_approval_wait_to_operation_wait(r)
             \/ DecideApproval(r) \/ CheckWaiting(r)
      PROVE  Turns
  <2>1. UNCHANGED <<marked, step>> /\ (reporter'.for = reporter.for \/ reporter'.for = 0)
    BY <1>5 DEF OperationEnds, promote_approval_wait_to_operation_wait, DecideApproval,
       CheckWaiting, Finish, Nobody
  <2> QED
    BY <1>1, <2>1
<1>6. ASSUME NEW r \in Runs, claim_next_idle(r) PROVE Turns
  <2>1. UNCHANGED <<marked, step>> /\ ~marked /\ reporter'.for = r
        /\ note[r] # "none"
    BY <1>6 DEF claim_next_idle
  <2>2. step[r] \notin {"idle"}
    BY <2>1 DEF TInv, Life, NotYet, TERMINAL_STATUSES
  <2>3. ~Dropped => step[r] = "over"
    BY <1>1, <2>1, <2>2 DEF Dropped
  <2> QED
    BY <1>1, <2>1, <2>3
<1>7. ASSUME NEW r \in Runs, Disconnect(r) PROVE Turns
  <2>1. Dropped' /\ step' = [step EXCEPT ![r] = "dropped"]
    BY <1>1, <1>7, SessionAssumption DEF Disconnect, Dropped
  <2> QED
    BY <1>1, <2>1
<1>8. ASSUME NEW r \in Runs, NEW q \in Runs,
             ReportFails(r, q) \/ reconcile_waiting_operation_agent_state(r, q)
      PROVE  Turns
  <2>1. CASE Dropped' /\ step' = [step EXCEPT ![q] = "dropped"]
    BY <1>1, <2>1
  <2>2. CASE UNCHANGED <<marked, step>> /\ reporter'.for = 0
    BY <1>1, <2>2
  <2> QED
    BY <1>1, <1>8, <2>1, <2>2 DEF ReportFails, reconcile_waiting_operation_agent_state, Finish, Nobody,
       Dropped
<1>9. CASE CenterRestarts
  <2>1. Dropped' /\ \A p \in Runs : step'[p] \notin Streaming
    BY <1>1, <1>9, SessionAssumption DEF CenterRestarts, Dropped
  <2> QED
    BY <2>1
<1>10. CASE UNCHANGED vars
  BY <1>1, <1>10 DEF vars
<1>11. ASSUME NEW r \in Runs, NEW w \in Purposes, UserStream(r, w) PROVE Turns
  BY <1>4, <1>11 DEF UserStream
<1>12. ASSUME NEW r \in Runs, NEW q \in Runs, OpenReport(r, q) PROVE Turns
  BY <1>4, <1>12 DEF OpenReport
<1>13. ASSUME NEW r \in Runs, PlanWork(r) PROVE Turns
  <2>1. step[r] \in Streaming /\ UNCHANGED <<marked, reporter>>
    BY <1>13, PlanWorkStep
  <2>2. CASE UNCHANGED step
    BY <1>1, <2>1, <2>2
  <2>3. CASE \E x \in Streaming : step' = [step EXCEPT ![r] = x]
    <3>1. Busy /\ Busy' /\ \A p \in Runs : step'[p] \in Streaming <=> step[p] \in Streaming
      BY <2>1, <2>3
    <3>2. \A p \in Runs : p # r => step'[p] = step[p]
      BY <2>3
    <3> QED
      BY <1>1, <2>1, <3>1, <3>2
  <2>4. CASE step' = [step EXCEPT ![r] = "dropped"]
    <3>1. Dropped'
      BY <1>1, <2>4 DEF Dropped
    <3> QED
      BY <1>1, <2>4, <3>1
  <2> QED
    BY <1>13, <2>2, <2>3, <2>4, PlanWorkStep
<1>14. ASSUME NEW r \in Runs, Handled(r) PROVE Turns
  <2>1. Dropped'
    BY <1>1, <1>14, HandledStep
  <2>2. UNCHANGED step
    BY <1>1, <1>14, HandledStep
  <2> QED
    BY <1>1, <2>1, <2>2
<1> QED
  BY <1>2, <1>3, <1>5, <1>6, <1>7, <1>8, <1>9, <1>10, <1>11, <1>12, <1>13, <1>14, Actions

\* A notification is spent on the run the reporter has claimed, or is spent already.
LEMMA SettledStep == TInv /\ [Next]_vars => ReportedIsSettled'
<1> SUFFICES ASSUME TInv, [Next]_vars, ~overlapped', ~Dropped', NEW r \in Runs,
                    note'[r] = "reported", approval'[r] = "none"
             PROVE  run'[r] \in TERMINAL_AGENT_RUN_STATUSES
  BY Zenon DEF ReportedIsSettled
<1>1. Typed /\ Life /\ ~overlapped /\ ~Dropped
  BY HistoryStays DEF TInv
<1>2. reporter.for = r => step[r] = "over"
  BY <1>1 DEF TInv, ClaimedIsOver
<1>3. note[r] = "reported" /\ approval[r] = "none" => run[r] \in TERMINAL_AGENT_RUN_STATUSES
  BY <1>1 DEF TInv, ReportedIsSettled
<1> USE DEF Typed, Life, NotYet, TERMINAL_AGENT_RUN_STATUSES, Goes, Becomes
<1>4. ASSUME NEW x \in Runs,
             \/ CreateRun(x) \/ ExecuteTool(x) \/ RecordWait(x) \/ EndLoop(x) \/ CloseStream(x)
             \/ Disconnect(x) \/ PlanWork(x) \/ \E w \in Purposes : UserStream(x, w)
      PROVE  run'[r] \in TERMINAL_AGENT_RUN_STATUSES
  <2>1. UNCHANGED note /\ note[r] = "reported" /\ op[r] \in TERMINAL_STATUSES
    BY <1>1, <1>4, PlanWorkStep DEF CreateRun, ExecuteTool, RecordWait, EndLoop, CloseStream, UserStream,
       OpenStream, Disconnect
  <2>2. approval[r] = "none"
    BY <1>1, <1>4, PlanWorkStep DEF CreateRun, ExecuteTool, RecordWait, EndLoop, CloseStream, UserStream,
       OpenStream, Disconnect
  <2>3. run[r] \in TERMINAL_AGENT_RUN_STATUSES /\ op[r] # "none"
    BY <1>3, <2>1, <2>2 DEF TERMINAL_STATUSES
  <2>4. run'[r] = run[r] \/ run'[r] \in TERMINAL_AGENT_RUN_STATUSES
    BY <1>1, <1>4, <2>3, PlanWorkStep DEF CreateRun, ExecuteTool, RecordWait, EndLoop, CloseStream, UserStream,
       OpenStream, Disconnect
  <2> QED
    BY <2>3, <2>4
<1>5. ASSUME NEW x \in Runs,
             \/ OperationEnds(x) \/ DecideApproval(x) \/ claim_next_idle(x)
             \/ promote_approval_wait_to_operation_wait(x)
      PROVE  run'[r] \in TERMINAL_AGENT_RUN_STATUSES
  BY <1>1, <1>3, <1>5 DEF OperationEnds, DecideApproval, claim_next_idle,
     promote_approval_wait_to_operation_wait
<1>6. ASSUME NEW x \in Runs, CheckWaiting(x) PROVE run'[r] \in TERMINAL_AGENT_RUN_STATUSES
  <2>1. UNCHANGED <<run, approval>>
    BY <1>6 DEF CheckWaiting
  <2>2. CASE note[r] = "reported"
    BY <1>3, <2>1, <2>2
  <2>3. CASE note[r] # "reported"
    <3>1. x = r /\ reporter.for = r /\ run[r] # "waiting_operation"
      BY <1>1, <1>6, <2>3 DEF CheckWaiting, Finish
    <3>2. op[r] # "none"
      BY <1>1, <3>1 DEF TERMINAL_STATUSES
    <3> QED
      BY <1>1, <1>2, <2>1, <3>1, <3>2
  <2> QED
    BY <2>2, <2>3
<1>7. ASSUME NEW x \in Runs, NEW q \in Runs, OpenReport(x, q) \/ ReportFails(x, q)
      PROVE  run'[r] \in TERMINAL_AGENT_RUN_STATUSES
  BY <1>1, <1>3, <1>7 DEF OpenReport, OpenStream, ReportFails, Finish
<1>8. ASSUME NEW x \in Runs, NEW q \in Runs, reconcile_waiting_operation_agent_state(x, q)
      PROVE  run'[r] \in TERMINAL_AGENT_RUN_STATUSES
  <2>1. op[x] \in TERMINAL_STATUSES /\ UNCHANGED approval
    BY <1>1, <1>8 DEF reconcile_waiting_operation_agent_state
  <2>2. _agent_status_for_operation(op[x]) \in TERMINAL_AGENT_RUN_STATUSES
    BY <2>1 DEF _agent_status_for_operation, TERMINAL_STATUSES
  <2>3. CASE x # r
    BY <1>1, <1>3, <1>8, <2>3 DEF reconcile_waiting_operation_agent_state, Finish
  <2>4. CASE x = r
    <3>1. step[r] = "over" /\ op[r] # "none"
      BY <1>1, <1>2, <1>8, <2>1, <2>4 DEF reconcile_waiting_operation_agent_state, TERMINAL_STATUSES
    <3>2. run[r] \in {"waiting_operation"} \cup TERMINAL_AGENT_RUN_STATUSES
      BY <1>1, <2>1, <3>1
    <3> QED
      BY <1>1, <1>8, <2>2, <2>4, <3>2 DEF reconcile_waiting_operation_agent_state
  <2> QED
    BY <2>3, <2>4
<1>9. CASE CenterRestarts
  BY <1>9, <1>1, SessionAssumption DEF CenterRestarts, Dropped
<1>10. CASE UNCHANGED vars
  BY <1>3, <1>10 DEF vars
<1>11. ASSUME NEW x \in Runs PROVE ~Handled(x)
  BY <1>1, <1>11, HandledStep
<1> QED
  BY <1>4, <1>5, <1>6, <1>7, <1>8, <1>9, <1>10, <1>11, Actions

LEMMA InitTurns == Init => TInv
<1> SUFFICES ASSUME Init PROVE TInv
  OBVIOUS
<1>1. Typed /\ Booleans /\ Life
  BY InitTyped, InitLife
<1>2. \A r \in Runs : step[r] = "idle" /\ note[r] = "none" /\ r # 0
  BY SessionAssumption DEF Init, Runs
<1>3. ~marked /\ ~Busy
  BY <1>2 DEF Init, Busy, Streaming
<1>4. OneStream /\ ClaimedIsOver /\ ReportedIsSettled
  BY <1>2 DEF Init, OneStream, ClaimedIsOver, ReportedIsSettled, Streaming, Nobody
<1>5. MarkTellsTheTruth
  BY <1>3 DEF MarkTellsTheTruth
<1> QED
  BY <1>1, <1>4, <1>5 DEF TInv

LEMMA Turns == Spec => []TInv
<1>1. TInv /\ [Next]_vars => TInv'
  BY TypedStep, BooleansStep, LifeStep, TurnsStep, SettledStep, Zenon DEF TInv
<1> QED
  BY <1>1, InitTurns, PTL DEF Spec

\* While streams take turns and are read to their end, the session is marked exactly
\* while one is working.
THEOREM MarkTrue == Spec => []MarkTellsTheTruth
<1>1. TInv => MarkTellsTheTruth
  BY DEF TInv
<1> QED
  BY <1>1, Turns, PTL

\* Under the same conditions no notification is spent on a run that could still come to
\* wait for it.
THEOREM Settled == Spec => []ReportedIsSettled
<1>1. TInv => ReportedIsSettled
  BY DEF TInv
<1> QED
  BY <1>1, Turns, PTL

(***************************************************************************)
(* Without a restart the reporter finishes what it has claimed, so a       *)
(* notification is claimed once, and reported by one stream.               *)
(***************************************************************************)
NoReportOf(r) == \A p \in Runs : reportOf[p] # r

ReportsFollow ==
    ~Dropped => \A r \in Runs :
        /\ note[r] \in {"none", "pending"} => NoReportOf(r)
        /\ note[r] = "processing" <=> reporter.for = r
        /\ reporter.for = r /\ reporter.at \in {"claimed", "checked"} => NoReportOf(r)

RInv == Typed /\ Booleans /\ Life /\ ReportsFollow /\ ReportedOnce

LEMMA ReportsStep == RInv /\ [Next]_vars => ReportsFollow' /\ ReportedOnce'
<1> SUFFICES ASSUME RInv, [Next]_vars, ~Dropped'
             PROVE  /\ \A r \in Runs :
                        /\ note'[r] \in {"none", "pending"} => NoReportOf(r)'
                        /\ note'[r] = "processing" <=> reporter'.for = r
                        /\ reporter'.for = r /\ reporter'.at \in {"claimed", "checked"}
                            => NoReportOf(r)'
                    /\ \A p, q \in Runs : reportOf'[p] # 0 /\ reportOf'[p] = reportOf'[q] => p = q
  BY Zenon DEF ReportsFollow, ReportedOnce
<1> DEFINE Goal == /\ \A r \in Runs :
                        /\ note'[r] \in {"none", "pending"} => NoReportOf(r)'
                        /\ note'[r] = "processing" <=> reporter'.for = r
                        /\ reporter'.for = r /\ reporter'.at \in {"claimed", "checked"}
                            => NoReportOf(r)'
                   /\ \A p, q \in Runs : reportOf'[p] # 0 /\ reportOf'[p] = reportOf'[q] => p = q
<1>1. /\ Typed /\ Life /\ ~Dropped /\ 0 \notin Runs
      /\ \A r \in Runs :
            /\ note[r] \in {"none", "pending"} => NoReportOf(r)
            /\ note[r] = "processing" <=> reporter.for = r
            /\ reporter.for = r /\ reporter.at \in {"claimed", "checked"} => NoReportOf(r)
      /\ \A p, q \in Runs : reportOf[p] # 0 /\ reportOf[p] = reportOf[q] => p = q
  BY HistoryStays, SessionAssumption DEF RInv, ReportsFollow, ReportedOnce, Runs
<1> SUFFICES Goal
  OBVIOUS
<1> USE DEF Typed, NoReportOf
<1>2. CASE UNCHANGED <<note, reporter, reportOf>>
  BY <1>1, <1>2
<1>3. ASSUME NEW x \in Runs,
             \/ CreateRun(x) \/ ExecuteTool(x) \/ RecordWait(x) \/ EndLoop(x) \/ CloseStream(x)
             \/ promote_approval_wait_to_operation_wait(x) \/ Disconnect(x) \/ DecideApproval(x)
             \/ PlanWork(x)
      PROVE  UNCHANGED <<note, reporter, reportOf>>
  BY <1>3, PlanWorkStep DEF CreateRun, ExecuteTool, RecordWait, EndLoop, CloseStream,
     promote_approval_wait_to_operation_wait, Disconnect, DecideApproval
<1>4. ASSUME NEW x \in Runs, OperationEnds(x) PROVE Goal
  <2>1. note[x] = "none" /\ note' = [note EXCEPT ![x] = "pending"]
        /\ UNCHANGED <<reporter, reportOf>>
    BY <1>1, <1>4 DEF OperationEnds, Life, TERMINAL_STATUSES
  <2> QED
    BY <1>1, <2>1
<1>5. ASSUME NEW x \in Runs, claim_next_idle(x) PROVE Goal
  <2>1. /\ note[x] = "pending" /\ note' = [note EXCEPT ![x] = "processing"]
        /\ reporter' = [at |-> "claimed", for |-> x] /\ UNCHANGED reportOf
        /\ reporter.for = 0
    BY <1>1, <1>5 DEF claim_next_idle, Nobody
  <2> QED
    BY <1>1, <2>1
<1>6. ASSUME NEW x \in Runs, CheckWaiting(x) PROVE Goal
  <2>1. reporter = [at |-> "claimed", for |-> x] /\ UNCHANGED reportOf
    BY <1>6 DEF CheckWaiting
  <2>2. CASE reporter' = [at |-> "checked", for |-> x] /\ UNCHANGED note
    BY <1>1, <2>1, <2>2
  <2>3. CASE reporter' = Nobody /\ \E s \in {"reported", "failed"} : note' = [note EXCEPT ![x] = s]
    BY <1>1, <2>1, <2>3 DEF Nobody
  <2> QED
    BY <1>6, <2>2, <2>3 DEF CheckWaiting, Finish
<1>7. ASSUME NEW x \in Runs, NEW w \in Purposes, UserStream(x, w) PROVE Goal
  <2>1. reportOf' = [reportOf EXCEPT ![x] = 0] /\ UNCHANGED <<note, reporter>>
    BY <1>7 DEF UserStream, OpenStream
  <2> QED
    BY <1>1, <2>1
<1>8. ASSUME NEW x \in Runs, NEW q \in Runs, OpenReport(x, q) PROVE Goal
  <2>1. /\ reporter = [at |-> "checked", for |-> x] /\ reporter' = [at |-> "reading", for |-> x]
        /\ reportOf' = [reportOf EXCEPT ![q] = x] /\ UNCHANGED note
    BY <1>8 DEF OpenReport, OpenStream
  <2>2. NoReportOf(x) /\ note[x] \notin {"none", "pending"}
    BY <1>1, <2>1 DEF Life
  <2> QED
    BY <1>1, <2>1, <2>2
<1>9. ASSUME NEW x \in Runs, NEW q \in Runs,
             ReportFails(x, q) \/ reconcile_waiting_operation_agent_state(x, q)
      PROVE  Goal
  <2>1. /\ reporter.for = x /\ reporter' = Nobody /\ UNCHANGED reportOf
        /\ \E s \in {"reported", "failed"} : note' = [note EXCEPT ![x] = s]
    BY <1>9 DEF ReportFails, reconcile_waiting_operation_agent_state, Finish
  <2> QED
    BY <1>1, <2>1 DEF Nobody
<1>10. CASE CenterRestarts
  BY <1>1, <1>10, SessionAssumption DEF CenterRestarts, Dropped
<1>11. UNCHANGED vars => UNCHANGED <<note, reporter, reportOf>>
  BY DEF vars
<1>12. ASSUME NEW x \in Runs PROVE ~Handled(x)
  BY <1>1, <1>12, HandledStep
<1> QED
  BY <1>2, <1>3, <1>4, <1>5, <1>6, <1>7, <1>8, <1>9, <1>10, <1>11, <1>12, Actions

\* Without a restart and with streams read to their end, no operation is reported by two
\* streams, however many end and whatever overlaps.
THEOREM Once == Spec => []ReportedOnce
<1>1. Init => RInv
  <2> SUFFICES ASSUME Init PROVE ReportsFollow /\ ReportedOnce
    BY InitTyped, InitLife DEF RInv
  <2>1. \A r \in Runs : reportOf[r] = 0 /\ note[r] = "none" /\ r # 0
    BY SessionAssumption DEF Init, Runs
  <2> QED
    BY <2>1 DEF Init, ReportsFollow, ReportedOnce, NoReportOf, Nobody
<1>2. RInv /\ [Next]_vars => RInv'
  BY TypedStep, BooleansStep, LifeStep, ReportsStep, Zenon DEF RInv
<1>3. RInv => ReportedOnce
  BY DEF RInv
<1> QED
  BY <1>1, <1>2, <1>3, PTL DEF Spec

(***************************************************************************)
(* The turn follows its run: the event that ends or pauses a stream comes  *)
(* when the turn can take it, and a turn that is paused stays so until its *)
(* run moves on.                                                           *)
(***************************************************************************)
TurnLife ==
    \A r \in Runs :
        /\ step[r] = "acted" =>
            turn[r] = IF approval[r] = "none" THEN "waiting_operation" ELSE "waiting_approval"
        /\ step[r] = "waits" => turn[r] = run[r] /\ run[r] \in Paused \cup TERMINAL_AGENT_RUN_STATUSES
        /\ step[r] = "answered" => run[r] \in {"none", "succeeded"}
        /\ step[r] = "failing" => turn[r] = "failed" /\ run[r] \in {"none", "failed"}

FInv == Typed /\ Booleans /\ Life /\ TurnLife /\ TurnFollowsRun

LEMMA TurnStep == FInv /\ [Next]_vars => TurnLife' /\ TurnFollowsRun'
<1> SUFFICES ASSUME FInv, [Next]_vars PROVE TurnLife' /\ TurnFollowsRun'
  OBVIOUS
<1> USE DEF Typed, Life, TurnLife, TurnFollowsRun, NotYet, Streaming, Paused, TERMINAL_AGENT_RUN_STATUSES,
        RunStatus, TurnStatus, Goes, Becomes, Tells, _next_turn_status
<1>1. Typed /\ Life /\ TurnLife /\ TurnFollowsRun
  BY Zenon DEF FInv
<1>2. ASSUME NEW r \in Runs, CreateRun(r) PROVE TurnLife' /\ TurnFollowsRun'
  BY <1>1, <1>2 DEF CreateRun
<1>3. ASSUME NEW r \in Runs, ExecuteTool(r) PROVE TurnLife' /\ TurnFollowsRun'
  BY <1>1, <1>3 DEF ExecuteTool
<1>4. ASSUME NEW r \in Runs, RecordWait(r) PROVE TurnLife' /\ TurnFollowsRun'
  BY <1>1, <1>4 DEF RecordWait
<1>5. ASSUME NEW r \in Runs, EndLoop(r) PROVE TurnLife' /\ TurnFollowsRun'
  BY <1>1, <1>5 DEF EndLoop
<1>6. ASSUME NEW r \in Runs, CloseStream(r) PROVE TurnLife' /\ TurnFollowsRun'
  <2>1. /\ step' = [step EXCEPT ![r] = "over"] /\ turn' = [turn EXCEPT ![r] = ClosedTurn(r)]
        /\ UNCHANGED <<run, approval>> /\ step[r] \in {"waits", "answered", "failing"}
    BY <1>6 DEF CloseStream
  <2>2. (MayHold(r) /\ held' = [held EXCEPT ![r] = TRUE]) \/ UNCHANGED held
    BY <1>6 DEF CloseStream
  <2>3. held \in [Runs -> BOOLEAN]
    BY Zenon DEF FInv, Booleans
  <2>4. \A q \in Runs : held[q] => held'[q]
    BY <2>2, <2>3
  <2>5. CASE UNCHANGED held
    <3>1. turn'[r] = IF run[r] = "none" THEN turn'[r]
                     ELSE IF held'[r] THEN "succeeded" ELSE run[r]
      BY <1>1, <2>1, <2>5 DEF ClosedTurn, _finalize_unclosed_turn
    <3> QED
      BY <1>1, <2>1, <2>4, <2>5, <3>1 DEF ClosedTurn, _finalize_unclosed_turn
  <2>6. CASE MayHold(r) /\ held' = [held EXCEPT ![r] = TRUE]
    <3>1. held'[r] /\ turn'[r] = "succeeded" /\ run[r] # "none"
      BY <1>1, <2>1, <2>3, <2>6 DEF ClosedTurn, MayHold
    <3> QED
      BY <1>1, <2>1, <2>4, <3>1
  <2> QED
    BY <2>2, <2>5, <2>6
<1>7. ASSUME NEW r \in Runs, PlanWork(r) PROVE TurnLife' /\ TurnFollowsRun'
  BY <1>1, <1>7 DEF PlanWork, Continue, OpenPlan, ClassifyIntent, CreatePlan, PlanUnchanged
<1>8. ASSUME NEW r \in Runs,
             \/ OperationEnds(r) \/ claim_next_idle(r) \/ CheckWaiting(r) \/ Handled(r)
      PROVE  TurnLife' /\ TurnFollowsRun'
  BY <1>1, <1>8, HandledStep DEF OperationEnds, claim_next_idle, CheckWaiting
<1>9. ASSUME NEW r \in Runs, DecideApproval(r) PROVE TurnLife' /\ TurnFollowsRun'
  BY <1>1, <1>9 DEF DecideApproval
<1>10. ASSUME NEW r \in Runs, promote_approval_wait_to_operation_wait(r)
       PROVE  TurnLife' /\ TurnFollowsRun'
  BY <1>1, <1>10 DEF promote_approval_wait_to_operation_wait
<1>11. ASSUME NEW r \in Runs, NEW w, NEW x, OpenStream(r, w, x) PROVE TurnLife' /\ TurnFollowsRun'
  <2>1. \A q \in Runs : q # r => step'[q] = step[q] /\ (turn[q] # "open" => turn'[q] = turn[q])
    BY <1>11 DEF OpenStream, create_agent_turn
  <2>2. step'[r] = "open" /\ UNCHANGED <<held, run, approval>>
    BY <1>1, <1>11 DEF OpenStream
  <2> QED
    BY <1>1, <2>1, <2>2
<1>12. ASSUME NEW r \in Runs, NEW q \in Runs, ReportFails(r, q) PROVE TurnLife' /\ TurnFollowsRun'
  BY <1>1, <1>12 DEF ReportFails
<1>13. ASSUME NEW r \in Runs, NEW q \in Runs, reconcile_waiting_operation_agent_state(r, q)
       PROVE  TurnLife' /\ TurnFollowsRun'
  <2>1. op[r] \in TERMINAL_STATUSES
    BY <1>1, <1>13 DEF reconcile_waiting_operation_agent_state
  <2>2. _agent_status_for_operation(op[r]) \in TERMINAL_AGENT_RUN_STATUSES
    BY <2>1 DEF _agent_status_for_operation, TERMINAL_STATUSES
  <2>3. /\ UNCHANGED <<held, step, approval>>
        /\ \A p \in Runs : p # r => run'[p] = run[p] /\ turn'[p] = turn[p]
        /\ run[r] # "waiting_operation" => run'[r] = run[r] /\ turn'[r] = turn[r]
        /\ run[r] = "waiting_operation" /\ turn[r] = "waiting_operation" =>
            run'[r] = _agent_status_for_operation(op[r]) /\ turn'[r] = run'[r]
        /\ turn[r] # "waiting_operation" => turn'[r] = turn[r]
        /\ run[r] = "waiting_operation" => run'[r] # "none"
    BY <1>1, <1>13, <2>2 DEF reconcile_waiting_operation_agent_state
  <2> QED
    BY <1>1, <2>2, <2>3
<1>14. ASSUME NEW r \in Runs, Disconnect(r) PROVE TurnLife' /\ TurnFollowsRun'
  BY <1>1, <1>14 DEF Disconnect
<1>15. CASE CenterRestarts
  BY <1>1, <1>15 DEF CenterRestarts
<1>16. CASE UNCHANGED vars
  BY <1>1, <1>16 DEF vars
<1>17. ASSUME NEW r \in Runs, NEW w \in Purposes, UserStream(r, w) PROVE TurnLife' /\ TurnFollowsRun'
  BY <1>11, <1>17 DEF UserStream
<1>18. ASSUME NEW r \in Runs, NEW q \in Runs, OpenReport(r, q) PROVE TurnLife' /\ TurnFollowsRun'
  BY <1>11, <1>18 DEF OpenReport
<1> HIDE DEF Typed, Life, TurnLife, TurnFollowsRun
<1> QED
  BY <1>2, <1>3, <1>4, <1>5, <1>6, <1>7, <1>8, <1>9, <1>10, <1>12, <1>13, <1>14, <1>15, <1>16,
     <1>17, <1>18, Actions

\* A stream that was read to its end leaves a turn that says what its run says, or a success when
\* it closed over an answer the gate had blocked, and says so for as long as both are there,
\* whatever approvals, reports and other streams do.
THEOREM TurnFollows == Spec => []TurnFollowsRun
<1>1. Init => FInv
  <2> SUFFICES ASSUME Init PROVE TurnLife /\ TurnFollowsRun
    BY InitTyped, InitLife DEF FInv
  <2> QED
    BY DEF Init, TurnLife, TurnFollowsRun
<1>2. FInv /\ [Next]_vars => FInv'
  BY TypedStep, BooleansStep, LifeStep, TurnStep, Zenon DEF FInv
<1>3. FInv => TurnFollowsRun
  BY DEF FInv
<1> QED
  BY <1>1, <1>2, <1>3, PTL DEF Spec

---------------------------------------------------------------------------
(* The loop of one run and its calls (ToolRound).                          *)

\* What the parts of a call's row say of each other: an answer exactly when it is answered, no job
\* before it is executed, a job in flight only while it is polled or after an answer that leaves it.
CallRow(c) ==
    /\ c.st \in {"planned", "pending", "polling"} <=> c.answer = "none"
    /\ c.st \in {"planned", "pending"} => c.job = "none"
    /\ c.st = "polling" => c.job # "none"
    /\ c.job = "inflight" => c.st = "polling" \/ c.answer \in {"error", "running", "waiting_operation"}
    /\ c.answer = "running" => late

\* How many steps have calls, and how many answers for the provider to read.
StepsCounted ==
    /\ Len(calls) <= runRow.step /\ Len(history) <= Len(calls)
    /\ stage = "provider" => Len(calls) = runRow.step - 1
    /\ stage \in {"iterate", "save"} \cup ToolStages => Len(calls) = runRow.step
    /\ stage \in {"iterate", "save", "provider"} => Len(history) = Len(calls)
    /\ stage \in ToolStages => Len(history) = Len(calls) - 1

\* Every row is sound.
RowsSound == \A s \in DOMAIN calls : \A i \in DOMAIN calls[s] : CallRow(calls[s][i])

\* The calls of the earlier steps are over, and so are those of this one when the loop goes on.
Over(c) == c.st = "recorded" /\ c.answer \notin Waiting
EarlierOver ==
    /\ \A s \in DOMAIN calls : s < runRow.step =>
         \A i \in DOMAIN calls[s] : Over(calls[s][i]) /\ calls[s][i].answer # "running"
    /\ stage = "iterate" => \A i \in This : Over(Here(i))

\* The concurrent calls share no key; who is polled and not one of them is polled alone, and no
\* concurrent call is left to start, not even after the stream has gone.
GroupApart ==
    /\ \A i, j \in group \cap This : i # j => KeysOf(i) \cap KeysOf(j) = {}
    /\ \A i \in In("polling") \ group : In("polling") = {i} /\ group \cap In("pending") = {}

\* Every call of this step that is not recorded is with the concurrent ones or in the queue, of
\* which only the next one may be under way.
CallsPlaced ==
    /\ stage = "preflight" => group = {} /\ queue = {} /\ In("polling") = {}
    /\ stage \in {"concurrent", "serial"} =>
         /\ group \subseteq This /\ queue \subseteq This /\ group \cap queue = {}
         /\ This \ (group \cup queue) \subseteq In("recorded")
         /\ In("planned") = {}
         /\ queue \cap In("recorded") = {}
    /\ stage = "concurrent" => queue \subseteq In("pending")
    /\ stage = "serial" => group \subseteq In("recorded") /\ \A i \in queue : Here(i).st # "pending" => i = Foremost

\* The stream has met exactly the calls that are recorded, each once.
ResultsTold ==
    stage \in ToolStages =>
      /\ ToSet(results) = In("recorded")
      /\ \A m, n \in DOMAIN results : results[m] = results[n] => m = n

\* Two jobs that lock the same resource are not in flight together.
Contend(c, d) ==
    /\ c.tool.keys \cap d.tool.keys # {}
    /\ requires_serialization(c.tool) /\ requires_serialization(d.tool)
    /\ c.job = "inflight" /\ d.job = "inflight"
LocksApart == \A i, j \in This : i # j => ~Contend(Here(i), Here(j))

\* The inductive invariant of the round.
RoundInv ==
    /\ RoundTypeOK /\ StepsCounted /\ RowsSound /\ EarlierOver
    /\ GroupApart /\ LocksApart /\ CallsPlaced /\ ResultsTold /\ OneAnswerEach

\* A job starts only when no lock is in the way.
StartsFree(i, c) == c.job = "inflight" => Here(i).job = "inflight" \/ Admitted(c.tool)

---------------------------------------------------------------------------
(* Least and greatest elements; what the helpers of the round return.      *)

\* Least and greatest numbers of a set.
LEMMA LeastExists ==
    ASSUME NEW S \in SUBSET Nat, S # {}
    PROVE  \E x \in S : \A y \in S : x <= y
<1>1. PICK x \in S : \A y \in S : <<y, x>> \notin OpToRel(<, Nat)
  <2>1. \E x \in S : TRUE
    OBVIOUS
  <2>. QED BY <2>1, NatLessThanWellFounded, WFMin, Zenon
<1>2. ASSUME NEW y \in S PROVE ~(y < x)
  BY <1>1 DEF OpToRel
<1>. QED BY <1>2

LEMMA MinIsIn ==
    ASSUME NEW S \in SUBSET Nat, S # {}
    PROVE  Min(S) \in S
  BY LeastExists DEF Min

LEMMA GreatestExists ==
    ASSUME NEW n \in Nat, NEW S \in SUBSET (1..n), S # {}
    PROVE  \E x \in S : \A y \in S : x >= y
<1>1. PICK D : D = {n - x : x \in S}
  OBVIOUS
<1>2. D \in SUBSET Nat /\ D # {}
  <2>1. ASSUME NEW d \in D PROVE d \in Nat
    <3>1. PICK x \in S : d = n - x
      BY <1>1
    <3>. QED BY <3>1
  <2>2. \E x \in S : n - x \in D
    BY <1>1
  <2>. QED BY <2>1, <2>2
<1>3. PICK d \in D : \A y \in D : d <= y
  BY <1>2, LeastExists
<1>4. PICK x \in S : d = n - x
  BY <1>1, <1>3
<1>5. \A y \in S : x >= y
  <2>. TAKE y \in S
  <2>1. n - y \in D
    BY <1>1
  <2>. QED BY <1>3, <1>4, <2>1
<1>. QED BY <1>5

LEMMA MaxIsIn ==
    ASSUME NEW n \in Nat, NEW S \in SUBSET (1..n), S # {}
    PROVE  Max(S) \in S
  BY GreatestExists DEF Max

\* The definition of Together has a solution for every set of calls: the calls are decided in the
\* provider's order.
\* resource_key_owners for calls S with these keys.
Owners(O, S, keys) ==
    \A i \in S : i \in O <=> \A j \in O : j < i => keys[j] \cap keys[i] = {}

LEMMA OwnersExist ==
    ASSUME NEW n \in Nat, NEW S \in SUBSET (1..n), NEW keys
    PROVE  \E O \in SUBSET S : Owners(O, S, keys)
<1> DEFINE Decides(O, m) ==
             /\ O \in SUBSET {i \in S : i < m}
             /\ \A i \in S : i < m => (i \in O <=> \A j \in O : j < i => keys[j] \cap keys[i] = {})
<1>1. PICK Bad : Bad = {m \in Nat : ~ \E O : Decides(O, m)}
  OBVIOUS
<1>2. Bad = {}
  <2>. SUFFICES ASSUME Bad # {} PROVE FALSE
    OBVIOUS
  <2>1. PICK m \in Bad : \A y \in Bad : m <= y
    BY <1>1, LeastExists
  <2>2. m \in Nat /\ ~ \E O : Decides(O, m)
    BY <1>1, <2>1
  <2>3. CASE m = 0
    <3>1. Decides({}, m)
      BY <2>3
    <3>. QED BY <2>2, <3>1
  <2>4. CASE m # 0
    <3>1. m - 1 \in Nat /\ m - 1 \notin Bad
      BY <2>1, <2>2, <2>4
    <3>2. PICK O : Decides(O, m - 1)
      BY <1>1, <3>1
    <3>3. PICK N : N = O \cup {i \in S : i = m - 1 /\ \A j \in O : keys[j] \cap keys[i] = {}}
      OBVIOUS
    <3>4. N \in SUBSET {i \in S : i < m}
      <4>1. ASSUME NEW i \in N PROVE i \in S /\ i < m
        BY <2>2, <2>4, <3>1, <3>2, <3>3
      <4>. QED BY <4>1
    <3>5. ASSUME NEW i \in S, i < m
          PROVE  i \in N <=> \A j \in N : j < i => keys[j] \cap keys[i] = {}
      <4>1. i \in Nat /\ O \in SUBSET Nat
        BY <3>2
      <4>2. \A j \in O : j < m - 1
        BY <3>2
      <4>3. CASE i < m - 1
        <5>1. i \in N <=> i \in O
          BY <2>2, <3>3, <4>1, <4>3
        <5>2. \A j \in Nat : j < i => (j \in N <=> j \in O)
          BY <2>2, <3>3, <4>1, <4>3
        <5>3. i \in O <=> \A j \in O : j < i => keys[j] \cap keys[i] = {}
          BY <3>2, <4>3
        <5>4. N \in SUBSET Nat
          BY <3>4
        <5>. QED BY <4>1, <5>1, <5>2, <5>3, <5>4
      <4>4. CASE i = m - 1
        <5>1. i \in N <=> \A j \in O : keys[j] \cap keys[i] = {}
          BY <3>3, <4>2, <4>4, <4>1
        <5>2. \A j \in Nat : j < i => (j \in N <=> j \in O)
          BY <2>2, <3>3, <4>1, <4>4
        <5>. QED BY <3>4, <4>1, <4>2, <4>4, <5>1, <5>2
      <4>. QED BY <2>2, <3>5, <4>1, <4>3, <4>4
    <3>6. Decides(N, m)
      BY <3>4, <3>5
    <3>. QED BY <2>2, <3>6
  <2>. QED BY <2>3, <2>4
<1>3. n + 1 \in Nat /\ \A i \in S : i < n + 1
  OBVIOUS
<1>4. PICK O : Decides(O, n + 1)
  <2>. HIDE DEF Decides
  <2>1. n + 1 \notin Bad
    BY <1>2
  <2>. QED BY <1>1, <1>3, <2>1
<1>5. O \in SUBSET S
  BY <1>4
<1>6. \A i \in S : i \in O <=> \A j \in O : j < i => keys[j] \cap keys[i] = {}
  BY <1>3, <1>4
<1>. QED BY <1>5, <1>6 DEF Owners

\* What is in a sequence.
LEMMA ToSetIs ==
    ASSUME NEW s, NEW x
    PROVE  x \in ToSet(s) <=> \E i \in DOMAIN s : s[i] = x
  BY DEF ToSet

\* The one way to put 1..n in order.
LEMMA SortedIsIdentity ==
    ASSUME NEW n \in Nat, NEW f \in [1..n -> 1..n],
           \A y \in 1..n : \E x \in 1..n : f[x] = y,
           \A i, j \in 1..n : i < j => f[i] <= f[j]
    PROVE  \A i \in 1..n : f[i] = i
<1>1. ASSUME NEW S, S = {i \in 1..n : f[i] > i}, S # {}
      PROVE  FALSE
  <2>1. S \in SUBSET Nat
    BY <1>1
  <2>2. PICK i \in S : \A j \in S : i <= j
    BY <1>1, <2>1, LeastExists
  <2>3. PICK x \in 1..n : f[x] = i
    BY <1>1
  <2>4. i \in 1..n /\ f[i] > i /\ f[i] \in 1..n
    BY <1>1
  <2>5. ASSUME x < i PROVE FALSE
    <3>1. x \notin S
      BY <2>2, <2>3, <2>4, <2>5
    <3>. QED BY <1>1, <2>3, <2>5, <3>1, <2>4
  <2>6. ASSUME i < x PROVE FALSE
    <3>1. f[i] <= f[x]
      BY <2>3, <2>4, <2>6
    <3>. QED BY <2>3, <2>4, <3>1
  <2>. QED BY <2>3, <2>4, <2>5, <2>6
<1>2. ASSUME NEW S, S = {i \in 1..n : f[i] < i}, S # {}
      PROVE  FALSE
  <2>1. S \in SUBSET (1..n)
    BY <1>2
  <2>2. PICK i \in S : \A j \in S : i >= j
    BY <1>2, <2>1, GreatestExists
  <2>3. PICK x \in 1..n : f[x] = i
    BY <1>2
  <2>4. i \in 1..n /\ f[i] < i /\ f[i] \in 1..n
    BY <1>2
  <2>5. ASSUME i < x PROVE FALSE
    <3>1. x \notin S
      BY <2>2, <2>3, <2>4, <2>5
    <3>. QED BY <1>2, <2>3, <2>5, <3>1, <2>4
  <2>6. ASSUME x < i PROVE FALSE
    <3>1. f[x] <= f[i]
      BY <2>3, <2>4, <2>6
    <3>. QED BY <2>3, <2>4, <3>1
  <2>. QED BY <2>3, <2>4, <2>5, <2>6
<1>3. {i \in 1..n : f[i] > i} = {} /\ {i \in 1..n : f[i] < i} = {}
  BY <1>1, <1>2, Zenon
<1>4. ASSUME NEW i \in 1..n PROVE f[i] = i
  BY <1>3
<1>. QED BY <1>4

\* A sequence that holds each of 1..n once has that length.
LEMMA SequenceOfAll ==
    ASSUME NEW n \in Nat, NEW s \in Seq(Nat), ToSet(s) = 1..n,
           \A j, k \in DOMAIN s : s[j] = s[k] => j = k
    PROVE  Len(s) = n
<1>0. /\ DOMAIN s = 1..Len(s) /\ Len(s) \in Nat
      /\ s = [i \in 1..Len(s) |-> s[i]]
  OBVIOUS
<1>1. s \in [1..Len(s) -> 1..n] /\ Len(s) \in Nat
  <2>1. ASSUME NEW i \in 1..Len(s) PROVE s[i] \in 1..n
    <3>1. s[i] \in ToSet(s)
      BY <1>0, ToSetIs, Zenon
    <3>. QED BY <3>1
  <2>. QED BY <1>0, <2>1
<1>2. ASSUME NEW t \in 1..n PROVE \E i \in 1..Len(s) : s[i] = t
  <2>1. t \in ToSet(s)
    OBVIOUS
  <2>. QED BY <1>0, <2>1, ToSetIs, Zenon
<1>3. s \in Surjection(1..Len(s), 1..n)
  BY <1>1, <1>2 DEF Surjection
<1>4. s \in Injection(1..Len(s), 1..n)
  BY <1>0, <1>1 DEF Injection, IsInjective
<1>5. IsFiniteSet(1..Len(s)) /\ Cardinality(1..Len(s)) = Len(s) /\ Cardinality(1..n) = n
  <2>1. 1 \in Int /\ Len(s) \in Int /\ n \in Int
    BY <1>1
  <2>2. IsFiniteSet(1..Len(s)) /\ Cardinality(1..Len(s)) = IF 1 > Len(s) THEN 0 ELSE Len(s) - 1 + 1
    BY <2>1, FS_Interval
  <2>3. Cardinality(1..n) = IF 1 > n THEN 0 ELSE n - 1 + 1
    BY <2>1, FS_Interval
  <2>. QED BY <1>1, <2>2, <2>3
<1>. QED BY <1>3, <1>4, <1>5, FS_Surjection

\* The results of the calls 1..n, each stored once, are read in the order of the calls.
LEMMA ResultsInOrder ==
    ASSUME NEW n \in Nat, results \in Seq(Nat), ToSet(results) = 1..n,
           \A j, k \in DOMAIN results : results[j] = results[k] => j = k
    PROVE  ordered_results = [i \in 1..n |-> i]
<1>1. DOMAIN results = 1..n
  BY SequenceOfAll
<1>2. results \in [1..n -> 1..n] /\ \A i \in 1..n : \E j \in 1..n : results[j] = i
  <2>1. ASSUME NEW i \in 1..n PROVE results[i] \in 1..n
    BY <1>1, ToSetIs
  <2>2. ASSUME NEW i \in 1..n PROVE \E j \in 1..n : results[j] = i
    BY <1>1, ToSetIs
  <2>3. results = [i \in 1..n |-> results[i]]
    BY <1>1
  <2>. QED BY <2>1, <2>2, <2>3
<1> DEFINE Sorts(p) ==
             /\ ToSet(p) = 1..n
             /\ \A j, k \in 1..n : j < k => results[p[j]] <= results[p[k]]
<1>3. \E p \in [1..n -> 1..n] : Sorts(p)
  <2>1. PICK p : p = [i \in 1..n |-> CHOOSE j \in 1..n : results[j] = i]
    OBVIOUS
  <2>2. \A i \in 1..n : p[i] \in 1..n /\ results[p[i]] = i
    BY <1>2, <2>1
  <2>3. p \in [1..n -> 1..n]
    BY <2>1, <2>2
  <2>4. ASSUME NEW j \in 1..n PROVE j \in ToSet(p)
    <3>1. results[j] \in 1..n
      BY <1>2
    <3>2. p[results[j]] = j
      BY <1>1, <2>2, <3>1
    <3>. QED BY <2>3, <3>1, <3>2, ToSetIs
  <2>5. ASSUME NEW j \in ToSet(p) PROVE j \in 1..n
    BY <2>3, ToSetIs
  <2>6. ToSet(p) = 1..n
    BY <2>4, <2>5
  <2>7. \A j, k \in 1..n : j < k => results[p[j]] <= results[p[k]]
    BY <2>2
  <2>8. Sorts(p)
    BY <2>6, <2>7
  <2>. HIDE DEF Sorts
  <2>. QED BY <2>3, <2>8
<1>4. PICK order : order = CHOOSE p \in [1..n -> 1..n] : Sorts(p)
  OBVIOUS
<1>5. order \in [1..n -> 1..n] /\ Sorts(order)
  BY <1>3, <1>4
<1>6. ordered_results = [i \in 1..n |-> results[order[i]]]
  BY <1>1, <1>4 DEF ordered_results
<1>7. PICK f : f = [i \in 1..n |-> results[order[i]]]
  OBVIOUS
<1>8. f \in [1..n -> 1..n]
  BY <1>2, <1>5, <1>7
<1>9. ASSUME NEW y \in 1..n PROVE \E x \in 1..n : f[x] = y
  <2>1. PICK j \in 1..n : results[j] = y
    BY <1>2
  <2>2. PICK x \in 1..n : order[x] = j
    BY <1>5, ToSetIs
  <2>. QED BY <1>7, <2>1, <2>2
<1>10. \A i, j \in 1..n : i < j => f[i] <= f[j]
  BY <1>5, <1>7
<1>11. \A i \in 1..n : f[i] = i
  BY <1>8, <1>9, <1>10, SortedIsIdentity
<1>. QED BY <1>6, <1>7, <1>8, <1>11

---------------------------------------------------------------------------
(* What a step does to the rows of the calls.                              *)

\* The rows have their types.
LEMMA CallsTyped ==
    ASSUME RoundTypeOK
    PROVE  /\ DOMAIN calls = 1..Len(calls) /\ Len(calls) \in Nat
           /\ \A s \in DOMAIN calls : /\ DOMAIN calls[s] = 1..Len(calls[s]) /\ Len(calls[s]) \in Nat
                                      /\ \A i \in DOMAIN calls[s] : calls[s][i] \in Calls
           /\ runRow.step \in Nat
  BY LimitsAssumption DEF RoundTypeOK

LEMMA ThisTyped ==
    ASSUME RoundTypeOK
    PROVE  /\ \E n \in Nat : This = 1..n
           /\ \A i \in This : Here(i) \in Calls
           /\ \A i \in This : runRow.step \in DOMAIN calls /\ i \in DOMAIN calls[runRow.step]
<1>1. CASE runRow.step \in DOMAIN calls
  BY <1>1, CallsTyped DEF This, Here
<1>2. CASE runRow.step \notin DOMAIN calls
  <2>1. This = {} /\ 1..0 = {} /\ 0 \in Nat
    BY <1>2 DEF This
  <2>. QED BY <2>1
<1>. QED BY <1>1, <1>2

\* One row of a step is replaced.
LEMMA RowPut ==
    ASSUME RoundTypeOK, NEW s \in DOMAIN calls, NEW i \in DOMAIN calls[s], NEW c \in Calls,
           calls' = [calls EXCEPT ![s][i] = c]
    PROVE  /\ calls' \in Seq(Seq(Calls))
           /\ Len(calls') = Len(calls) /\ DOMAIN calls' = DOMAIN calls
           /\ \A t \in DOMAIN calls : DOMAIN calls'[t] = DOMAIN calls[t]
           /\ \A t \in DOMAIN calls : \A j \in DOMAIN calls[t] :
                calls'[t][j] = IF t = s /\ j = i THEN c ELSE calls[t][j]
<1>1. PICK row : row = [calls[s] EXCEPT ![i] = c]
  OBVIOUS
<1>2. calls[s] \in Seq(Calls) /\ calls \in Seq(Seq(Calls))
  BY DEF RoundTypeOK
<1>3. /\ row \in Seq(Calls) /\ DOMAIN row = DOMAIN calls[s]
      /\ \A j \in DOMAIN calls[s] : row[j] = IF j = i THEN c ELSE calls[s][j]
  BY <1>1, <1>2
<1>4. calls' = [calls EXCEPT ![s] = row]
  BY <1>1
<1>. QED BY <1>2, <1>3, <1>4

\* What a step that replaces one row of this step's calls does.
Replaced(i, c) ==
    /\ calls' \in Seq(Seq(Calls))
    /\ Len(calls') = Len(calls) /\ DOMAIN calls' = DOMAIN calls
    /\ \A t \in DOMAIN calls : DOMAIN calls'[t] = DOMAIN calls[t]
    /\ \A t \in DOMAIN calls : t # runRow.step => \A j \in DOMAIN calls[t] : calls'[t][j] = calls[t][j]
    /\ This' = This
    /\ Here(i)' = c
    /\ \A j \in This \ {i} : Here(j)' = Here(j)

LEMMA PutReplaces ==
    ASSUME RoundTypeOK, NEW i \in This, NEW c \in Calls, Put(i, c), UNCHANGED runRow
    PROVE  Replaced(i, c)
<1>1. runRow.step \in DOMAIN calls /\ i \in DOMAIN calls[runRow.step]
  BY ThisTyped
<1>2. calls' = [calls EXCEPT ![runRow.step][i] = c]
  BY DEF Put
<1>3. /\ calls' \in Seq(Seq(Calls))
      /\ Len(calls') = Len(calls) /\ DOMAIN calls' = DOMAIN calls
      /\ \A t \in DOMAIN calls : DOMAIN calls'[t] = DOMAIN calls[t]
      /\ \A t \in DOMAIN calls : \A j \in DOMAIN calls[t] :
           calls'[t][j] = IF t = runRow.step /\ j = i THEN c ELSE calls[t][j]
  BY <1>1, <1>2, RowPut
<1>4. This' = This /\ This = DOMAIN calls[runRow.step]
  BY <1>1, <1>3 DEF This
<1>. QED BY <1>1, <1>3, <1>4 DEF Replaced, Here

\* A job that starts contends with none in flight; a transfer names no resource.
LEMMA StartedApart ==
    ASSUME RoundInv, NEW i \in This, NEW c \in Calls, Replaced(i, c), UNCHANGED runRow,
           c.tool = Here(i).tool, StartsFree(i, c)
    PROVE  LocksApart'
<1>1. ASSUME NEW j \in This, j # i, Contend(c, Here(j))
      PROVE  FALSE
  <2>1. CASE Here(i).job = "inflight"
    <3>1. Contend(Here(i), Here(j))
      BY <1>1, <2>1 DEF Contend
    <3>. QED BY <1>1, <3>1 DEF RoundInv, LocksApart
  <2>2. CASE Admitted(c.tool)
    <3>1. c.tool \in Tools /\ c.tool.keys # {} /\ requires_serialization(c.tool)
      BY <1>1 DEF Contend, Calls
    <3>2. c.tool.kind = "node"
      BY <3>1, ToolsAssumption DEF IsTool
    <3>3. ~Locked(c.tool)
      BY <2>2, <3>2 DEF Admitted
    <3>4. Here(j) \in InFlight
      <4>1. runRow.step \in DOMAIN calls /\ j \in DOMAIN calls[runRow.step]
        BY ThisTyped DEF RoundInv
      <4>2. Here(j) \in ToSet(calls[runRow.step])
        BY <4>1, ToSetIs DEF Here
      <4>. QED BY <1>1, <4>1, <4>2 DEF InFlight, Contend
    <3>. QED BY <1>1, <3>1, <3>3, <3>4 DEF Locked, Contend
  <2>. QED BY <1>1, <2>1, <2>2 DEF StartsFree, Contend
<1>2. ASSUME NEW j \in This, NEW k \in This, j # k
      PROVE  ~Contend(Here(j)', Here(k)')
  <2>1. CASE j = i
    <3>1. Here(j)' = c /\ Here(k)' = Here(k)
      BY <1>2, <2>1 DEF Replaced
    <3>. QED BY <1>1, <1>2, <2>1, <3>1
  <2>2. CASE k = i
    <3>1. Here(k)' = c /\ Here(j)' = Here(j)
      BY <1>2, <2>2 DEF Replaced
    <3>2. Contend(Here(j), c) => Contend(c, Here(j))
      BY DEF Contend
    <3>. QED BY <1>1, <1>2, <2>2, <3>1, <3>2
  <2>3. CASE j # i /\ k # i
    <3>1. Here(k)' = Here(k) /\ Here(j)' = Here(j)
      BY <1>2, <2>3 DEF Replaced
    <3>. QED BY <1>2, <3>1 DEF RoundInv, LocksApart
  <2>. QED BY <2>1, <2>2, <2>3
<1>3. This' = This
  BY DEF Replaced
<1>4. \A j \in This' : \A k \in This' : j # k => ~Contend(Here(j)', Here(k)')
  BY <1>2, <1>3
<1>5. \A j, k : Contend(Here(j), Here(k))' <=> Contend(Here(j)', Here(k)')
  BY DEF Contend, requires_serialization
<1>. QED BY <1>4, <1>5 DEF LocksApart

\* What the calls of this step are decides which contend.
LEMMA LocksStay ==
    ASSUME LocksApart, This' = This, \A i \in This : Here(i)' = Here(i)
    PROVE  LocksApart'
  BY DEF LocksApart, Contend, requires_serialization

\* The row of a call that is not over moves on: its tool stays, and it is sound.
LEMMA RowMoves ==
    ASSUME RoundInv, NEW i \in This, NEW c \in Calls, Put(i, c), UNCHANGED <<runRow, history, late>>,
           stage' = stage, group' \subseteq Nat, queue' \subseteq Nat, results' \in Seq(Nat),
           Here(i).st # "recorded", c.tool = Here(i).tool, CallRow(c), StartsFree(i, c)
    PROVE  /\ RoundTypeOK' /\ StepsCounted' /\ RowsSound' /\ EarlierOver' /\ OneAnswerEach'
           /\ LocksApart'
           /\ \A j \in This : KeysOf(j)' = KeysOf(j)
<1>1. Replaced(i, c)
  BY PutReplaces DEF RoundInv
<1>2. RoundTypeOK'
  BY <1>1 DEF RoundInv, RoundTypeOK, Replaced
<1>3. StepsCounted'
  BY <1>1 DEF RoundInv, StepsCounted, Replaced
<1>4. runRow.step \in DOMAIN calls /\ i \in DOMAIN calls[runRow.step] /\ This = DOMAIN calls[runRow.step]
  BY ThisTyped DEF RoundInv, This
<1>5. \A s \in DOMAIN calls : \A j \in DOMAIN calls[s] :
        calls'[s][j] = IF s = runRow.step /\ j = i THEN c ELSE calls[s][j]
  BY <1>1, <1>4 DEF Replaced, Here
<1>6. RowsSound'
  BY <1>1, <1>5 DEF RoundInv, RowsSound, CallRow, Replaced
<1>7. EarlierOver'
  <2>1. stage # "iterate"
    BY DEF RoundInv, EarlierOver, Over
  <2>2. ASSUME NEW s \in DOMAIN calls, s < runRow.step, NEW j \in DOMAIN calls[s]
        PROVE  Over(calls'[s][j]) /\ calls'[s][j].answer # "running"
    <3>1. calls'[s][j] = calls[s][j]
      BY <1>5, <2>2, CallsTyped DEF RoundInv
    <3>2. Over(calls[s][j]) /\ calls[s][j].answer # "running"
      BY <2>2 DEF RoundInv, EarlierOver
    <3>. QED BY <3>1, <3>2
  <2>3. DOMAIN calls' = DOMAIN calls /\ \A s \in DOMAIN calls : DOMAIN calls'[s] = DOMAIN calls[s]
    BY <1>1 DEF Replaced
  <2>. QED BY <2>1, <2>2, <2>3 DEF EarlierOver, Over
<1>8. OneAnswerEach'
  <2>1. DOMAIN history \subseteq DOMAIN calls
    BY CallsTyped DEF RoundInv, RoundTypeOK, StepsCounted
  <2>. QED BY <1>1, <2>1 DEF RoundInv, OneAnswerEach, Replaced
<1>9. \A j \in This : KeysOf(j)' = KeysOf(j)
  BY <1>1 DEF KeysOf, Replaced
<1>10. LocksApart'
  BY <1>1, StartedApart
<1>. QED BY <1>2, <1>3, <1>6, <1>7, <1>8, <1>9, <1>10

\* The sets of calls in each progress after one row is replaced.
LEMMA InMoves ==
    ASSUME NEW i \in This, NEW c, Replaced(i, c), NEW st
    PROVE  In(st)' = (In(st) \ {i}) \cup (IF c.st = st THEN {i} ELSE {})
  BY DEF Replaced, In

LEMMA RowSound ==
    ASSUME RoundInv, NEW i \in This
    PROVE  CallRow(Here(i)) /\ Here(i) \in Calls
<1>1. runRow.step \in DOMAIN calls /\ i \in DOMAIN calls[runRow.step]
  BY ThisTyped DEF RoundInv
<1>. QED BY <1>1, ThisTyped DEF RoundInv, RowsSound, Here

\* A call that is executed is answered, or its job is polled.
LEMMA ExecuteMoves ==
    ASSUME RoundInv, NEW i \in This, Here(i).st = "pending", Execute(i)
    PROVE  \E c \in Calls : /\ Put(i, c) /\ c.tool = Here(i).tool /\ CallRow(c) /\ StartsFree(i, c)
                            /\ c.st \in {"answered", "polling"}
<1>0. CallRow(Here(i)) /\ Here(i) \in Calls
  BY RowSound
<1> DEFINE Fits(c) == /\ c \in Calls /\ c.tool = Here(i).tool /\ CallRow(c) /\ StartsFree(i, c)
                      /\ c.st \in {"answered", "polling"}
<1>1. /\ Fits(Refused(Here(i))) /\ Fits(Raised(Here(i)))
      /\ Fits(Answered(Here(i), "succeeded")) /\ Fits(Answered(Here(i), "waiting_approval"))
  BY <1>0 DEF Refused, Raised, Answered, Calls, CallRow, Answers, Waiting, CallProgress, StartsFree
<1>2. Admitted(Here(i).tool) =>
      /\ Fits(Raised(Started(Here(i)))) /\ Fits(Answered(Started(Here(i)), "waiting_operation"))
      /\ Fits([Started(Here(i)) EXCEPT !.st = "polling"])
  BY <1>0 DEF Raised, Answered, Started, Calls, CallRow, Answers, Waiting, CallProgress, Jobs, StartsFree
<1>3. \E c : Fits(c) /\ Put(i, c)
  <2>. HIDE DEF Fits
  <2>. QED BY <1>1, <1>2 DEF Execute
<1>. QED BY <1>3

\* A polled call that is answered.
LEMMA PolledMoves ==
    ASSUME RoundInv, NEW i \in This, Here(i).st = "polling",
           JobAnswer(i) \/ Put(i, Raised(Here(i)))
    PROVE  \E c \in Calls : /\ Put(i, c) /\ c.tool = Here(i).tool /\ CallRow(c) /\ StartsFree(i, c)
                            /\ c.st = "answered"
<1>0. CallRow(Here(i)) /\ Here(i) \in Calls
  BY RowSound
<1> DEFINE Fits(c) == /\ c \in Calls /\ c.tool = Here(i).tool /\ CallRow(c) /\ StartsFree(i, c)
                      /\ c.st = "answered"
<1>1. CASE Here(i).job # "inflight" /\ Put(i, Answered(Here(i), Here(i).job))
  <2>1. Here(i).job \in {"succeeded", "failed"}
    BY <1>0, <1>1 DEF Calls, Jobs, CallRow
  <2>2. Fits(Answered(Here(i), Here(i).job))
    BY <1>0, <2>1 DEF Answered, Calls, CallRow, Answers, CallProgress, StartsFree
  <2>. QED BY <1>1, <2>2
<1>2. CASE late /\ Put(i, Answered(Here(i), "running"))
  <2>2. Fits(Answered(Here(i), "running"))
    BY <1>0, <1>2 DEF Answered, Calls, CallRow, Answers, CallProgress, StartsFree
  <2>. QED BY <1>2, <2>2
<1>3. CASE Put(i, Raised(Here(i)))
  <2>2. Fits(Raised(Here(i)))
    BY <1>0 DEF Raised, Answered, Calls, CallRow, Answers, CallProgress, StartsFree
  <2>. QED BY <1>3, <2>2
<1>. QED BY <1>1, <1>2, <1>3 DEF JobAnswer

\* A step that moves one call and nothing else but its row: what is left is the place of the calls.
LEMMA CallMoves ==
    ASSUME RoundInv, NEW i \in This, NEW c \in Calls, Put(i, c),
           UNCHANGED <<runRow, stage, group, queue, results, history, late>>,
           c.tool = Here(i).tool, CallRow(c), StartsFree(i, c),
           Here(i).st # "recorded", c.st # "recorded",
           GroupApart', CallsPlaced'
    PROVE  RoundInv'
<1>1. /\ RoundTypeOK' /\ StepsCounted' /\ RowsSound' /\ EarlierOver' /\ OneAnswerEach' /\ LocksApart'
  BY RowMoves DEF RoundInv, RoundTypeOK
<1>2. ResultsTold'
  <2>1. Replaced(i, c)
    BY PutReplaces DEF RoundInv
  <2>2. In("recorded")' = In("recorded")
    BY <2>1, InMoves DEF In
  <2>. QED BY <2>2 DEF RoundInv, ResultsTold
<1>. QED BY <1>1, <1>2 DEF RoundInv

\* The tools of the calls decide which is the next of the serial ones.
LEMMA ForemostStays ==
    ASSUME queue' = queue, \A j \in queue : Here(j)'.tool = Here(j).tool
    PROVE  Foremost' = Foremost
<1>1. {j \in queue : ~is_concurrent_safe(Here(j).tool)}' = {j \in queue : ~is_concurrent_safe(Here(j).tool)}
  BY DEF is_concurrent_safe
<1>. QED BY <1>1 DEF Foremost

LEMMA ForemostIsIn ==
    ASSUME queue \in SUBSET Nat, queue # {}
    PROVE  Foremost \in queue
<1>1. PICK unsafe : unsafe = {i \in queue : ~is_concurrent_safe(Here(i).tool)}
  OBVIOUS
<1>2. unsafe \in SUBSET Nat /\ unsafe \subseteq queue
  BY <1>1
<1>3. CASE unsafe # {}
  <2>1. Foremost = Min(unsafe)
    BY <1>1, <1>3 DEF Foremost
  <2>. QED BY <1>2, <1>3, <2>1, MinIsIn
<1>4. CASE unsafe = {}
  <2>1. Foremost = Min(queue)
    BY <1>1, <1>4 DEF Foremost
  <2>. QED BY <2>1, MinIsIn
<1>. QED BY <1>3, <1>4

---------------------------------------------------------------------------
(* Every step keeps the invariant.                                         *)

LEMMA PreflightKeeps == RoundInv /\ Preflight => RoundInv'
<1> SUFFICES ASSUME RoundInv, Preflight PROVE RoundInv'
  OBVIOUS
<1>1. PICK i : i = Min(In("planned"))
  OBVIOUS
<1>2. i \in In("planned")
  <2>1. In("planned") \in SUBSET Nat /\ In("planned") # {}
    BY ThisTyped DEF In, RoundInv, Preflight
  <2>. QED BY <1>1, <2>1, MinIsIn
<1>3. i \in This /\ Here(i).st = "planned" /\ CallRow(Here(i)) /\ Here(i) \in Calls
  BY <1>2, RowSound DEF In
<1>4. PICK c : Put(i, c) /\ c \in {Refused(Here(i)), [Here(i) EXCEPT !.st = "pending"]}
  BY <1>1 DEF Preflight
<1>5. /\ c \in Calls /\ c.tool = Here(i).tool /\ CallRow(c) /\ StartsFree(i, c)
      /\ c.st \in {"answered", "pending"}
  BY <1>3, <1>4 DEF Refused, Answered, Calls, CallRow, Answers, CallProgress, StartsFree
<1>6. Replaced(i, c)
  BY <1>3, <1>4, <1>5, PutReplaces DEF RoundInv, Preflight
<1>7. stage = "preflight" /\ group = {} /\ queue = {} /\ In("polling") = {}
  BY DEF RoundInv, CallsPlaced, Preflight
<1>8. In("polling")' = {} /\ group' = {} /\ stage' = "preflight" /\ queue' = {}
  BY <1>3, <1>5, <1>6, <1>7, InMoves DEF Preflight
<1>9. GroupApart' /\ CallsPlaced'
  BY <1>8 DEF GroupApart, CallsPlaced
<1>. QED BY <1>3, <1>4, <1>5, <1>9, CallMoves DEF Preflight

LEMMA StartConcurrentKeeps ==
    ASSUME RoundInv, NEW i \in This, StartConcurrent(i)
    PROVE  RoundInv'
<1>1. i \in group /\ Here(i).st = "pending" /\ i \in In("pending")
  BY DEF StartConcurrent, In
<1>2. PICK c \in Calls : /\ Put(i, c) /\ c.tool = Here(i).tool /\ CallRow(c) /\ StartsFree(i, c)
                         /\ c.st \in {"answered", "polling"}
  BY <1>1, ExecuteMoves DEF StartConcurrent
<1>3. Replaced(i, c)
  BY <1>2, PutReplaces DEF RoundInv, StartConcurrent
<1>4. /\ In("recorded")' = In("recorded") /\ In("planned")' = In("planned")
      /\ In("pending")' = In("pending") \ {i} /\ In("polling")' \subseteq In("polling") \cup {i}
  <2>1. i \notin In("recorded") \cup In("planned") \cup In("polling")
    BY <1>1 DEF In
  <2>2. \A st : In(st)' = (In(st) \ {i}) \cup (IF c.st = st THEN {i} ELSE {})
    BY <1>1, <1>3, InMoves
  <2>. QED BY <1>2, <2>1, <2>2
<1>5. \A j \in This : KeysOf(j)' = KeysOf(j)
  BY <1>2, <1>3 DEF Replaced, KeysOf
<1>6. In("polling") \subseteq group
  BY <1>1 DEF RoundInv, GroupApart
<1>7. GroupApart'
  BY <1>1, <1>3, <1>4, <1>5, <1>6 DEF RoundInv, GroupApart, StartConcurrent, Replaced
<1>8. stage \notin {"preflight", "serial"}
  BY <1>1 DEF RoundInv, CallsPlaced, In
<1>9. CallsPlaced'
  BY <1>1, <1>3, <1>4, <1>8 DEF RoundInv, CallsPlaced, StartConcurrent, Replaced
<1>. QED BY <1>1, <1>2, <1>7, <1>9, CallMoves DEF StartConcurrent

LEMMA StartSerialKeeps == RoundInv /\ StartSerial => RoundInv'
<1> SUFFICES ASSUME RoundInv, StartSerial PROVE RoundInv'
  OBVIOUS
<1>0. PICK i : i = Foremost
  OBVIOUS
<1>1. i \in queue /\ i \in This /\ Here(i).st = "pending" /\ i \in In("pending")
  <2>1. i \in queue
    BY <1>0, ForemostIsIn DEF RoundInv, RoundTypeOK, StartSerial
  <2>. QED BY <1>0, <2>1 DEF StartSerial, RoundInv, CallsPlaced, In
<1>2. PICK c \in Calls : /\ Put(i, c) /\ c.tool = Here(i).tool /\ CallRow(c) /\ StartsFree(i, c)
                         /\ c.st \in {"answered", "polling"}
  BY <1>0, <1>1, ExecuteMoves DEF StartSerial
<1>3. Replaced(i, c)
  BY <1>1, <1>2, PutReplaces DEF RoundInv, StartSerial
<1>4. /\ In("recorded")' = In("recorded") /\ In("planned")' = In("planned")
      /\ In("pending")' = In("pending") \ {i} /\ In("polling")' \subseteq In("polling") \cup {i}
  <2>1. i \notin In("recorded") \cup In("planned") \cup In("polling")
    BY <1>1 DEF In
  <2>2. \A st : In(st)' = (In(st) \ {i}) \cup (IF c.st = st THEN {i} ELSE {})
    BY <1>1, <1>3, InMoves
  <2>. QED BY <1>2, <2>1, <2>2
<1>5. \A j \in This : KeysOf(j)' = KeysOf(j)
  BY <1>2, <1>3 DEF Replaced, KeysOf
<1>6. stage = "serial" /\ group \subseteq In("recorded") /\ \A j \in queue : Here(j).st # "pending" => j = i
  BY <1>0 DEF RoundInv, CallsPlaced, StartSerial
<1>7. In("polling") = {}
  BY <1>1, <1>6 DEF RoundInv, CallsPlaced, In
<1>8. GroupApart'
  <2>1. group \cap In("pending")' = {}
    BY <1>4, <1>6 DEF In
  <2>. QED BY <1>3, <1>4, <1>5, <1>7, <2>1 DEF RoundInv, GroupApart, StartSerial, Replaced
<1>9. CallsPlaced'
  <2>1. Foremost' = i
    <3>1. \A j \in queue : Here(j)'.tool = Here(j).tool
      BY <1>2, <1>3, <1>6 DEF RoundInv, CallsPlaced, Replaced
    <3>. QED BY <1>0, <3>1, ForemostStays DEF StartSerial
  <2>2. \A j \in queue : Here(j)'.st # "pending" => j = i
    BY <1>3, <1>6 DEF RoundInv, CallsPlaced, Replaced
  <2>. QED BY <1>3, <1>4, <1>6, <2>1, <2>2 DEF RoundInv, CallsPlaced, StartSerial, Replaced
<1>. QED BY <1>1, <1>2, <1>8, <1>9, CallMoves DEF StartSerial

LEMMA PolledKeeps ==
    ASSUME RoundInv, NEW i \in This, Poll(i) \/ PollRaises(i)
    PROVE  RoundInv'
<1>1. Here(i).st = "polling" /\ i \in In("polling")
  BY DEF Poll, PollRaises, In
<1>2. PICK c \in Calls : /\ Put(i, c) /\ c.tool = Here(i).tool /\ CallRow(c) /\ StartsFree(i, c)
                         /\ c.st = "answered"
  BY <1>1, PolledMoves DEF Poll, PollRaises
<1>u. UNCHANGED <<runRow, stage, group, queue, results, history, late>>
  BY DEF Poll, PollRaises
<1>3. Replaced(i, c)
  BY <1>2, <1>u, PutReplaces DEF RoundInv
<1>4. /\ In("recorded")' = In("recorded") /\ In("planned")' = In("planned")
      /\ In("pending")' = In("pending") /\ In("polling")' = In("polling") \ {i}
  <2>1. i \notin In("recorded") \cup In("planned") \cup In("pending")
    BY <1>1 DEF In
  <2>2. \A st : In(st)' = (In(st) \ {i}) \cup (IF c.st = st THEN {i} ELSE {})
    BY <1>3, InMoves
  <2>. QED BY <1>2, <2>1, <2>2
<1>5. \A j \in This : KeysOf(j)' = KeysOf(j)
  BY <1>2, <1>3 DEF Replaced, KeysOf
<1>6. GroupApart'
  BY <1>3, <1>4, <1>5, <1>u DEF RoundInv, GroupApart, Replaced
<1>7. CallsPlaced'
  <2>1. CASE stage = "serial"
    <3>1. Foremost' = Foremost
      <4>1. \A j \in queue : Here(j)'.tool = Here(j).tool
        BY <1>2, <1>3, <2>1 DEF RoundInv, CallsPlaced, Replaced
      <4>. QED BY <4>1, <1>u, ForemostStays
    <3>2. \A j \in queue : Here(j)'.st # "pending" => j = Foremost
      BY <1>1, <1>3, <2>1 DEF RoundInv, CallsPlaced, Replaced
    <3>. QED BY <1>3, <1>4, <1>u, <2>1, <3>1, <3>2 DEF RoundInv, CallsPlaced, Replaced
  <2>2. CASE stage # "serial"
    BY <1>3, <1>4, <1>u, <2>2 DEF RoundInv, CallsPlaced, Replaced
  <2>. QED BY <2>1, <2>2
<1>. QED BY <1>1, <1>2, <1>6, <1>7, <1>u, CallMoves

LEMMA RecordKeeps ==
    ASSUME RoundInv, NEW i \in This, Record(i)
    PROVE  RoundInv'
<1>0. CallRow(Here(i)) /\ Here(i) \in Calls /\ Here(i).st = "answered" /\ i \in In("answered")
  BY RowSound DEF Record, In
<1>1. PICK c : c = [Here(i) EXCEPT !.st = "recorded"]
  OBVIOUS
<1>2. /\ c \in Calls /\ Put(i, c) /\ c.tool = Here(i).tool /\ CallRow(c) /\ StartsFree(i, c)
      /\ c.st = "recorded"
  BY <1>0, <1>1 DEF Record, Calls, CallRow, CallProgress, StartsFree
<1>u. UNCHANGED <<runRow, stage, group, history, late>> /\ queue' = queue \ {i}
      /\ results' = Append(results, i) /\ stage \in ToolStages
  BY DEF Record
<1>3. Replaced(i, c)
  BY <1>2, <1>u, PutReplaces DEF RoundInv
<1>4. /\ In("recorded")' = In("recorded") \cup {i} /\ In("planned")' = In("planned")
      /\ In("pending")' = In("pending") /\ In("polling")' = In("polling") /\ i \notin In("recorded")
  <2>1. i \notin In("recorded") \cup In("planned") \cup In("pending") \cup In("polling")
    BY <1>0 DEF In
  <2>2. \A st : In(st)' = (In(st) \ {i}) \cup (IF c.st = st THEN {i} ELSE {})
    BY <1>3, InMoves
  <2>. QED BY <1>2, <2>1, <2>2
<1>n. i \in Nat
  BY ThisTyped DEF RoundInv
<1>5. /\ RoundTypeOK' /\ StepsCounted' /\ RowsSound' /\ EarlierOver' /\ OneAnswerEach' /\ LocksApart'
      /\ \A j \in This : KeysOf(j)' = KeysOf(j)
  <2>1. group' \subseteq Nat /\ queue' \subseteq Nat /\ results' \in Seq(Nat)
    BY <1>n, <1>u DEF RoundInv, RoundTypeOK
  <2>. QED BY <1>0, <1>2, <1>u, <2>1, RowMoves
<1>6. GroupApart'
  BY <1>3, <1>4, <1>5, <1>u DEF RoundInv, GroupApart, Replaced
<1>7. CallsPlaced'
  <2>1. CASE stage = "serial"
    <3>1. \A j \in queue : j # i => Here(j).st = "pending"
      <4>1. i \in queue
        BY <1>0, <2>1 DEF RoundInv, CallsPlaced, In
      <4>. QED BY <1>0, <2>1, <4>1 DEF RoundInv, CallsPlaced
    <3>2. \A j \in queue' : Here(j)'.st = "pending"
      BY <1>3, <1>u, <2>1, <3>1 DEF RoundInv, CallsPlaced, Replaced
    <3>. QED BY <1>3, <1>4, <1>u, <2>1, <3>2 DEF RoundInv, CallsPlaced, Replaced
  <2>2. CASE stage # "serial"
    BY <1>3, <1>4, <1>u, <2>2 DEF RoundInv, CallsPlaced, Replaced
  <2>. QED BY <2>1, <2>2
<1>8. ResultsTold'
  <2>1. results \in Seq(Nat) /\ ToSet(results) = In("recorded")
        /\ \A m, n \in DOMAIN results : results[m] = results[n] => m = n
    BY <1>u DEF RoundInv, RoundTypeOK, ResultsTold
  <2>2. \A m \in DOMAIN results : results[m] # i
    BY <1>4, <2>1, ToSetIs
  <2>3. /\ DOMAIN results' = DOMAIN results \cup {Len(results) + 1}
        /\ Len(results) + 1 \notin DOMAIN results
        /\ \A m \in DOMAIN results : results'[m] = results[m]
        /\ results'[Len(results) + 1] = i
    BY <1>n, <1>u, <2>1
  <2>4. ToSet(results') = ToSet(results) \cup {i}
    <3>1. \A x : x \in ToSet(results') <=> \E m \in DOMAIN results' : results'[m] = x
      BY ToSetIs
    <3>2. \A x : x \in ToSet(results) <=> \E m \in DOMAIN results : results[m] = x
      BY ToSetIs
    <3>. QED BY <2>3, <3>1, <3>2
  <2>. QED BY <1>4, <2>1, <2>2, <2>3, <2>4 DEF ResultsTold
<1>. QED BY <1>5, <1>6, <1>7, <1>8 DEF RoundInv

\* Of the safe calls no two that go together name the same resource.
LEMMA TogetherApart ==
    ASSUME RoundTypeOK
    PROVE  /\ Together \subseteq Safe
           /\ \A i, j \in Together : i # j => KeysOf(i) \cap KeysOf(j) = {}
<1>1. PICK n \in Nat : This = 1..n
  BY ThisTyped
<1>2. Safe \in SUBSET (1..n)
  BY <1>1 DEF Safe, In
<1>3. PICK keys : keys = [i \in This |-> KeysOf(i)]
  OBVIOUS
<1>4. PICK O \in SUBSET Safe : Owners(O, Safe, keys)
  BY <1>2, OwnersExist
<1>5. \E P \in SUBSET Safe :
         \A i \in Safe : i \in P <=> \A j \in P : j < i => KeysOf(j) \cap KeysOf(i) = {}
  <2>1. \A i \in Safe : i \in O <=> \A j \in O : j < i => keys[j] \cap keys[i] = {}
    BY <1>4 DEF Owners
  <2>2. \A i \in Safe : keys[i] = KeysOf(i)
    BY <1>1, <1>2, <1>3
  <2>3. \A i \in Safe : i \in O <=> \A j \in O : j < i => KeysOf(j) \cap KeysOf(i) = {}
    BY <2>1, <2>2
  <2>. QED BY <2>3
<1>6. /\ Together \in SUBSET Safe
      /\ \A i \in Safe : i \in Together <=> \A j \in Together : j < i => KeysOf(j) \cap KeysOf(i) = {}
  BY <1>5 DEF Together
<1>7. ASSUME NEW i \in Together, NEW j \in Together, i # j
      PROVE  KeysOf(i) \cap KeysOf(j) = {}
  <2>1. i \in Nat /\ j \in Nat /\ i \in Safe /\ j \in Safe
    BY <1>2, <1>6
  <2>2. CASE j < i
    BY <1>6, <2>1, <2>2
  <2>3. CASE i < j
    BY <1>6, <2>1, <2>3
  <2>. QED BY <1>7, <2>1, <2>2, <2>3
<1>. QED BY <1>6, <1>7

LEMMA PartitionKeeps == RoundInv /\ Partition => RoundInv'
<1> SUFFICES ASSUME RoundInv, Partition PROVE RoundInv'
  OBVIOUS
<1>0. /\ stage = "preflight" /\ stage' = "concurrent" /\ In("answered") = {} /\ In("planned") = {}
      /\ In("polling") = {}
      /\ group' = Together /\ queue' = Serial /\ UNCHANGED <<runRow, calls, results, history, late>>
  BY DEF Partition, RoundInv, CallsPlaced
<1>1. /\ This' = This /\ \A st : In(st)' = In(st)
      /\ \A i \in This : Here(i)' = Here(i) /\ KeysOf(i)' = KeysOf(i)
  BY <1>0 DEF This, In, Here, KeysOf
<1>2. Together \subseteq In("pending") /\ Serial = In("pending") \ Together
  BY TogetherApart DEF RoundInv, Safe, Serial
<1>3. In("pending") \subseteq This /\ This \subseteq Nat /\ This \ In("pending") \subseteq In("recorded")
      /\ In("pending") \cap In("recorded") = {}
  <2>1. This \subseteq Nat
    BY ThisTyped DEF RoundInv
  <2>2. \A i \in This : Here(i).st \in CallProgress
    BY RowSound DEF Calls
  <2>. QED BY <1>0, <2>1, <2>2 DEF In, CallProgress
<1>4. RoundTypeOK'
  BY <1>0, <1>2, <1>3 DEF RoundInv, RoundTypeOK, ToolStages
<1>5. StepsCounted' /\ RowsSound' /\ EarlierOver' /\ OneAnswerEach' /\ ResultsTold'
  BY <1>0, <1>1 DEF RoundInv, StepsCounted, RowsSound, CallRow, EarlierOver, OneAnswerEach, ResultsTold, ToolStages
<1>6. GroupApart'
  BY <1>0, <1>1, <1>2, <1>3, TogetherApart DEF RoundInv, GroupApart
<1>7. CallsPlaced'
  BY <1>0, <1>1, <1>2, <1>3 DEF CallsPlaced
<1>8. LocksApart'
  BY <1>1, LocksStay DEF RoundInv
<1>. QED BY <1>4, <1>5, <1>6, <1>7, <1>8 DEF RoundInv

LEMMA GroupDoneKeeps == RoundInv /\ GroupDone => RoundInv'
<1> SUFFICES ASSUME RoundInv, GroupDone PROVE RoundInv'
  OBVIOUS
<1>0. /\ stage = "concurrent" /\ stage' = "serial" /\ group \subseteq In("recorded")
      /\ UNCHANGED <<runRow, calls, group, queue, results, history, late>>
  BY DEF GroupDone, ToolsUnchanged
<1>1. /\ This' = This /\ \A st : In(st)' = In(st)
      /\ \A i \in This : Here(i)' = Here(i) /\ KeysOf(i)' = KeysOf(i)
  BY <1>0 DEF This, In, Here, KeysOf
<1>2. RoundTypeOK'
  BY <1>0 DEF RoundInv, RoundTypeOK, ToolStages
<1>3. StepsCounted' /\ RowsSound' /\ EarlierOver' /\ OneAnswerEach' /\ ResultsTold'
  BY <1>0, <1>1 DEF RoundInv, StepsCounted, RowsSound, CallRow, EarlierOver, OneAnswerEach, ResultsTold, ToolStages
<1>4. GroupApart'
  BY <1>0, <1>1 DEF RoundInv, GroupApart
<1>5. CallsPlaced'
  BY <1>0, <1>1 DEF RoundInv, CallsPlaced, In
<1>6. LocksApart'
  BY <1>1, LocksStay DEF RoundInv
<1>. QED BY <1>2, <1>3, <1>4, <1>5, <1>6 DEF RoundInv

\* The stream ends where it stands; the run's row keeps its step.
LEMMA StreamEnds ==
    ASSUME RoundInv, stage' \in Ended, runRow' \in [status : RunStatuses, step : {runRow.step}, waiting : Nat],
           UNCHANGED <<calls, group, queue, results, history, late>>
    PROVE  RoundInv'
<1>0. runRow'.step = runRow.step /\ runRow.step \in 0..MaxSteps
  BY DEF RoundInv, RoundTypeOK
<1>1. /\ This' = This /\ \A st : In(st)' = In(st)
      /\ \A i \in This : Here(i)' = Here(i) /\ KeysOf(i)' = KeysOf(i)
  BY <1>0 DEF This, In, Here, KeysOf
<1>2. RoundTypeOK'
  BY <1>0 DEF RoundInv, RoundTypeOK
<1>3. StepsCounted'
  BY <1>0 DEF RoundInv, StepsCounted, ToolStages, Ended
<1>4. RowsSound' /\ OneAnswerEach'
  BY DEF RoundInv, RowsSound, CallRow, OneAnswerEach
<1>5. EarlierOver'
  BY <1>0 DEF RoundInv, EarlierOver, Ended
<1>6. GroupApart'
  BY <1>1 DEF RoundInv, GroupApart
<1>7. CallsPlaced' /\ ResultsTold'
  BY DEF CallsPlaced, ResultsTold, ToolStages, Ended
<1>8. LocksApart'
  BY <1>1, LocksStay DEF RoundInv
<1>. QED BY <1>2, <1>3, <1>4, <1>5, <1>6, <1>7, <1>8 DEF RoundInv

\* The ways the stream ends: a failure, the save, the client leaving.
LEMMA EndKeeps ==
    ASSUME RoundInv, Fail \/ (stage' \in Ended /\ UNCHANGED runRow),
           UNCHANGED <<calls, group, queue, results, history, late>>
    PROVE  RoundInv'
<1>0. runRow \in [status : RunStatuses, step : 0..MaxSteps, waiting : Nat]
  BY DEF RoundInv, RoundTypeOK
<1>1. stage' \in Ended
  BY DEF Fail, Ended
<1>2. runRow' = runRow \/ runRow' = [runRow EXCEPT !.status = "failed"]
  BY DEF Fail
<1>3. runRow' \in [status : RunStatuses, step : {runRow.step}, waiting : Nat]
  BY <1>0, <1>2 DEF RunStatuses
<1>. QED BY <1>1, <1>3, StreamEnds

LEMMA ObserveKeeps == RoundInv /\ Observe => RoundInv'
<1> SUFFICES ASSUME RoundInv, Observe PROVE RoundInv'
  OBVIOUS
<1>0. /\ stage = "serial" /\ queue = {} /\ stage' \in {"save", "iterate"}
      /\ stage' = "iterate" => ~LoopWaits
      /\ history' = Append(history, ordered_results)
      /\ UNCHANGED <<calls, group, queue, results, late>>
  BY DEF Observe
<1>1. /\ Len(calls) = runRow.step /\ Len(history) = runRow.step - 1 /\ runRow.step \in Nat
      /\ Len(history) \in Nat /\ runRow.step \in DOMAIN calls
  BY <1>0, CallsTyped DEF RoundInv, RoundTypeOK, StepsCounted, ToolStages
<1>2. /\ This = In("recorded") /\ ToSet(results) = This
      /\ \A m, n \in DOMAIN results : results[m] = results[n] => m = n
  BY <1>0 DEF RoundInv, CallsPlaced, ResultsTold, ToolStages, In
<1>3. PICK n \in Nat : This = 1..n
  BY ThisTyped DEF RoundInv
<1>4. This = DOMAIN calls[runRow.step]
  BY <1>1 DEF This
<1>5. PICK waits : waits = {i \in ToSet(results) : Here(i).answer \in Waiting}
  OBVIOUS
<1>6. runRow' = IF waits = {} THEN runRow
                ELSE [runRow EXCEPT !.status = Here(Max(waits)).answer, !.waiting = Max(waits)]
  BY <1>5 DEF Observe
<1>7. runRow' \in [status : RunStatuses, step : 0..MaxSteps, waiting : Nat] /\ runRow'.step = runRow.step
  <2>1. runRow \in [status : RunStatuses, step : 0..MaxSteps, waiting : Nat]
    BY DEF RoundInv, RoundTypeOK
  <2>2. CASE waits = {}
    BY <1>6, <2>1, <2>2
  <2>3. CASE waits # {}
    <3>1. waits \in SUBSET (1..n)
      BY <1>2, <1>3, <1>5
    <3>2. Max(waits) \in waits
      BY <2>3, <3>1, MaxIsIn
    <3>3. Max(waits) \in Nat /\ Here(Max(waits)).answer \in RunStatuses
      BY <1>5, <3>1, <3>2 DEF RunStatuses
    <3>. QED BY <1>6, <2>1, <2>3, <3>3
  <2>. QED BY <2>2, <2>3
<1>8. /\ This' = This /\ \A st : In(st)' = In(st)
      /\ \A i \in This : Here(i)' = Here(i) /\ KeysOf(i)' = KeysOf(i)
  BY <1>0, <1>7 DEF This, In, Here, KeysOf
<1>9. ordered_results = [i \in 1..n |-> i]
  <2>1. results \in Seq(Nat)
    BY DEF RoundInv, RoundTypeOK
  <2>. QED BY <1>2, <1>3, <2>1, ResultsInOrder
<1>10. ordered_results \in Seq(Nat)
  <2>1. [i \in 1..n |-> i] \in Seq(Nat)
    BY <1>3
  <2>. QED BY <1>9, <2>1
<1>11. RoundTypeOK'
  BY <1>0, <1>7, <1>10 DEF RoundInv, RoundTypeOK
<1>12. StepsCounted'
  <2>1. Len(history') = runRow.step
    BY <1>0, <1>1, <1>10 DEF RoundInv, RoundTypeOK
  <2>. QED BY <1>0, <1>1, <1>7, <2>1 DEF StepsCounted, ToolStages
<1>13. RowsSound'
  BY <1>0 DEF RoundInv, RowsSound, CallRow
<1>14. EarlierOver'
  <2>1. \A i \in This : Here(i).st = "recorded"
    BY <1>2 DEF In
  <2>2. stage' = "iterate" => \A i \in This : Here(i).answer \notin Waiting
    BY <1>0, <1>2 DEF LoopWaits
  <2>. QED BY <1>0, <1>7, <1>8, <2>1, <2>2 DEF RoundInv, EarlierOver, Over
<1>15. GroupApart'
  BY <1>0, <1>8 DEF RoundInv, GroupApart
<1>16. CallsPlaced' /\ ResultsTold'
  BY <1>0 DEF CallsPlaced, ResultsTold, ToolStages
<1>17. OneAnswerEach'
  <2>1. /\ DOMAIN history' = DOMAIN history \cup {runRow.step}
        /\ \A s \in DOMAIN history : history'[s] = history[s]
        /\ history'[runRow.step] = ordered_results
    BY <1>0, <1>1, <1>10 DEF RoundInv, RoundTypeOK
  <2>2. ordered_results = [i \in DOMAIN calls[runRow.step] |-> i]
    BY <1>3, <1>4, <1>9
  <2>. QED BY <1>0, <2>1, <2>2 DEF RoundInv, OneAnswerEach
<1>18. LocksApart'
  BY <1>8, LocksStay DEF RoundInv
<1>. QED BY <1>11, <1>12, <1>13, <1>14, <1>15, <1>16, <1>17, <1>18 DEF RoundInv

LEMMA BeginIterationKeeps == RoundInv /\ BeginIteration => RoundInv'
<1> SUFFICES ASSUME RoundInv, BeginIteration PROVE RoundInv'
  OBVIOUS
<1>0. /\ stage = "iterate" /\ UNCHANGED <<calls, group, queue, results, history, late>>
      /\ runRow \in [status : RunStatuses, step : 0..MaxSteps, waiting : Nat]
      /\ runRow.step \in Nat /\ MaxSteps \in Nat
  BY LimitsAssumption DEF BeginIteration, ToolsUnchanged, RoundInv, RoundTypeOK
<1>1. CASE LimitsReached
  BY <1>0, <1>1, EndKeeps DEF BeginIteration
<1>2. CASE ~LimitsReached
  <2>1. /\ stage' = "provider" /\ ~late /\ runRow' = [runRow EXCEPT !.step = @ + 1]
        /\ runRow'.step = runRow.step + 1
    BY <1>0, <1>2 DEF BeginIteration, LimitsReached
  <2>2. RoundTypeOK'
    <3>1. runRow.step + 1 \in 0..MaxSteps
      BY <1>0, <1>2 DEF LimitsReached
    <3>2. runRow' \in [status : RunStatuses, step : 0..MaxSteps, waiting : Nat]
      BY <1>0, <2>1, <3>1
    <3>. QED BY <1>0, <2>1, <3>2 DEF RoundInv, RoundTypeOK
  <2>3. Len(calls) = runRow.step /\ DOMAIN calls = 1..runRow.step
    BY <1>0, CallsTyped DEF RoundInv, StepsCounted
  <2>4. StepsCounted'
    BY <1>0, <2>1, <2>3 DEF RoundInv, StepsCounted, ToolStages
  <2>5. RowsSound' /\ OneAnswerEach'
    BY <1>0 DEF RoundInv, RowsSound, CallRow, OneAnswerEach
  <2>6. EarlierOver'
    <3>1. ASSUME NEW s \in DOMAIN calls, NEW i \in DOMAIN calls[s]
          PROVE  Over(calls[s][i]) /\ calls[s][i].answer # "running"
      <4>1. CASE s < runRow.step
        BY <3>1, <4>1 DEF RoundInv, EarlierOver
      <4>2. CASE s = runRow.step
        <5>1. i \in This /\ Here(i) = calls[s][i]
          BY <3>1, <4>2 DEF This, Here
        <5>. QED BY <1>0, <2>1, <3>1, <5>1 DEF RoundInv, EarlierOver, RowsSound, CallRow
      <4>. QED BY <1>0, <2>3, <4>1, <4>2
    <3>. QED BY <1>0, <2>1, <3>1 DEF EarlierOver
  <2>7. This' = {}
    BY <1>0, <2>1, <2>3 DEF This
  <2>8. GroupApart' /\ LocksApart' /\ CallsPlaced' /\ ResultsTold'
    BY <2>1, <2>7 DEF GroupApart, LocksApart, CallsPlaced, ResultsTold, In, ToolStages
  <2>. QED BY <2>2, <2>4, <2>5, <2>6, <2>8 DEF RoundInv
<1>. QED BY <1>1, <1>2

\* The provider answers: this step has its calls, and nothing of them has happened yet.
LEMMA ProviderKeeps ==
    ASSUME RoundInv, stage = "provider", NEW rows \in Seq(Calls), calls' = Append(calls, rows),
           runRow' \in [status : RunStatuses, step : {runRow.step}, waiting : Nat], late' = late,
           \A i \in DOMAIN rows : rows[i].st = "planned" /\ rows[i].answer = "none" /\ rows[i].job = "none"
    PROVE  /\ calls' \in Seq(Seq(Calls)) /\ runRow'.step = runRow.step
           /\ runRow' \in [status : RunStatuses, step : 0..MaxSteps, waiting : Nat]
           /\ Len(calls') = runRow.step /\ This' = DOMAIN rows
           /\ \A i \in DOMAIN rows : Here(i)' = rows[i]
           /\ DOMAIN calls' = DOMAIN calls \cup {runRow.step} /\ runRow.step \notin DOMAIN calls
           /\ \A s \in DOMAIN calls : s < runRow.step /\ calls'[s] = calls[s]
           /\ RowsSound'
           /\ stage' # "iterate" \/ rows = <<>> => EarlierOver'
<1>1. /\ Len(calls) = runRow.step - 1 /\ runRow.step \in Nat /\ Len(calls) \in Nat
      /\ DOMAIN calls = 1..Len(calls) /\ calls \in Seq(Seq(Calls))
      /\ runRow \in [status : RunStatuses, step : 0..MaxSteps, waiting : Nat]
  BY CallsTyped DEF RoundInv, StepsCounted, RoundTypeOK
<1>2. runRow'.step = runRow.step /\ runRow' \in [status : RunStatuses, step : 0..MaxSteps, waiting : Nat]
  BY <1>1
<1>3. /\ calls' \in Seq(Seq(Calls)) /\ Len(calls') = runRow.step
      /\ DOMAIN calls' = DOMAIN calls \cup {runRow.step} /\ runRow.step \notin DOMAIN calls
      /\ \A s \in DOMAIN calls : s < runRow.step /\ calls'[s] = calls[s]
      /\ calls'[runRow.step] = rows
  BY <1>1
<1>4. This' = DOMAIN rows /\ \A i \in DOMAIN rows : Here(i)' = rows[i]
  BY <1>2, <1>3 DEF This, Here
<1>5. RowsSound'
  BY <1>3 DEF RoundInv, RowsSound, CallRow
<1>6. ASSUME stage' # "iterate" \/ rows = <<>> PROVE EarlierOver'
  <2>1. \A s \in DOMAIN calls' : s < runRow'.step =>
          \A i \in DOMAIN calls'[s] : Over(calls'[s][i]) /\ calls'[s][i].answer # "running"
    BY <1>2, <1>3 DEF RoundInv, EarlierOver, Over
  <2>2. stage' = "iterate" => This' = {}
    BY <1>4, <1>6
  <2>. QED BY <2>1, <2>2 DEF EarlierOver
<1>. QED BY <1>2, <1>3, <1>4, <1>5, <1>6

LEMMA ProviderCallsKeeps == RoundInv /\ ProviderCalls => RoundInv'
<1> SUFFICES ASSUME RoundInv, ProviderCalls PROVE RoundInv'
  OBVIOUS
<1>0. /\ stage = "provider" /\ stage' = "preflight" /\ group' = {} /\ queue' = {} /\ results' = <<>>
      /\ UNCHANGED <<runRow, history, late>>
  BY DEF ProviderCalls
<1>1. PICK plan \in Plans[runRow.step] :
         calls' = Append(calls, [i \in DOMAIN plan |->
                    [tool |-> plan[i], st |-> "planned", answer |-> "none", job |-> "none"]])
  BY DEF ProviderCalls
<1>2. /\ runRow \in [status : RunStatuses, step : 0..MaxSteps, waiting : Nat] /\ runRow.step \in 0..MaxSteps
      /\ Len(calls) = runRow.step - 1 /\ Len(calls) \in Nat /\ Len(history) = Len(calls)
      /\ history \in Seq(Seq(Nat))
  BY <1>0, CallsTyped DEF RoundInv, RoundTypeOK, StepsCounted
<1>3. plan \in Seq(Tools)
  <2>1. runRow.step \in 1..MaxSteps
    BY <1>2, LimitsAssumption
  <2>. QED BY <1>1, <2>1, PlansAssumption
<1>4. PICK rows : rows = [i \in DOMAIN plan |->
                    [tool |-> plan[i], st |-> "planned", answer |-> "none", job |-> "none"]]
  OBVIOUS
<1>5. \A i \in DOMAIN plan : rows[i] \in Calls /\ rows[i].st = "planned"
                             /\ rows[i].answer = "none" /\ rows[i].job = "none"
  BY <1>3, <1>4 DEF Calls, CallProgress, Answers, Jobs
<1>6. rows \in Seq(Calls) /\ DOMAIN rows = DOMAIN plan
  BY <1>3, <1>4, <1>5
<1>7. runRow' \in [status : RunStatuses, step : {runRow.step}, waiting : Nat]
  BY <1>0, <1>2
<1>8. /\ calls' \in Seq(Seq(Calls)) /\ runRow'.step = runRow.step
      /\ Len(calls') = runRow.step /\ This' = DOMAIN rows
      /\ \A i \in DOMAIN rows : Here(i)' = rows[i]
      /\ DOMAIN calls' = DOMAIN calls \cup {runRow.step} /\ runRow.step \notin DOMAIN calls
      /\ \A s \in DOMAIN calls : s < runRow.step /\ calls'[s] = calls[s]
      /\ RowsSound' /\ EarlierOver'
  BY <1>0, <1>1, <1>4, <1>5, <1>6, <1>7, ProviderKeeps
<1>9. RoundTypeOK'
  BY <1>0, <1>8 DEF RoundInv, RoundTypeOK, ToolStages
<1>10. StepsCounted'
  BY <1>0, <1>2, <1>8 DEF StepsCounted, ToolStages
<1>11. OneAnswerEach'
  <2>1. DOMAIN history \subseteq DOMAIN calls
    BY <1>2, CallsTyped DEF RoundInv
  <2>. QED BY <1>0, <1>8, <2>1 DEF RoundInv, OneAnswerEach
<1>12. \A i \in This' : Here(i)'.st = "planned"
  BY <1>5, <1>6, <1>8
<1>13. In("polling")' = {} /\ In("recorded")' = {}
  BY <1>12 DEF In
<1>14. GroupApart' /\ CallsPlaced'
  BY <1>0, <1>13 DEF GroupApart, CallsPlaced
<1>16. LocksApart'
  <2>1. \A i \in This' : Here(i)'.job = "none"
    BY <1>5, <1>6, <1>8
  <2>. QED BY <2>1 DEF LocksApart, Contend
<1>15. ResultsTold'
  <2>1. ToSet(<<>>) = {} /\ DOMAIN <<>> = {}
    BY ToSetIs
  <2>. QED BY <1>0, <1>13, <2>1 DEF ResultsTold
<1>. QED BY <1>8, <1>9, <1>10, <1>11, <1>14, <1>15, <1>16 DEF RoundInv

LEMMA ProviderFinalKeeps == RoundInv /\ ProviderFinal => RoundInv'
<1> SUFFICES ASSUME RoundInv, ProviderFinal PROVE RoundInv'
  OBVIOUS
<1>0. /\ stage = "provider" /\ stage' \in {"iterate", "save"}
      /\ calls' = Append(calls, <<>>) /\ history' = Append(history, <<>>)
      /\ UNCHANGED <<group, queue, results, late>>
      /\ runRow' = runRow \/ runRow' = [runRow EXCEPT !.status = "succeeded"]
  BY DEF ProviderFinal
<1>2. /\ runRow \in [status : RunStatuses, step : 0..MaxSteps, waiting : Nat] /\ runRow.step \in Nat
      /\ Len(calls) = runRow.step - 1 /\ Len(calls) \in Nat /\ Len(history) = Len(calls)
      /\ history \in Seq(Seq(Nat))
  BY <1>0, CallsTyped DEF RoundInv, RoundTypeOK, StepsCounted
<1>6. <<>> \in Seq(Calls) /\ DOMAIN <<>> = {} /\ <<>> \in Seq(Nat)
  OBVIOUS
<1>7. runRow' \in [status : RunStatuses, step : {runRow.step}, waiting : Nat]
  BY <1>0, <1>2 DEF RunStatuses
<1>8. /\ calls' \in Seq(Seq(Calls)) /\ runRow'.step = runRow.step
      /\ runRow' \in [status : RunStatuses, step : 0..MaxSteps, waiting : Nat]
      /\ Len(calls') = runRow.step /\ This' = {}
      /\ DOMAIN calls' = DOMAIN calls \cup {runRow.step} /\ runRow.step \notin DOMAIN calls
      /\ \A s \in DOMAIN calls : s < runRow.step /\ calls'[s] = calls[s]
      /\ RowsSound' /\ EarlierOver'
  BY <1>0, <1>6, <1>7, ProviderKeeps
<1>9. /\ history' \in Seq(Seq(Nat)) /\ Len(history') = runRow.step
      /\ DOMAIN history' = DOMAIN history \cup {runRow.step} /\ DOMAIN history = DOMAIN calls
      /\ \A s \in DOMAIN history : history'[s] = history[s]
      /\ history'[runRow.step] = <<>> /\ calls'[runRow.step] = <<>>
  <2>1. DOMAIN history = DOMAIN calls
    BY <1>2, CallsTyped DEF RoundInv
  <2>2. calls \in Seq(Seq(Calls))
    BY DEF RoundInv, RoundTypeOK
  <2>. QED BY <1>0, <1>2, <1>6, <2>1, <2>2
<1>10. RoundTypeOK'
  BY <1>0, <1>8, <1>9 DEF RoundInv, RoundTypeOK
<1>11. StepsCounted'
  BY <1>0, <1>2, <1>8, <1>9 DEF StepsCounted, ToolStages
<1>12. OneAnswerEach'
  <2>1. \A s \in DOMAIN history : history[s] = [i \in DOMAIN calls[s] |-> i]
    BY DEF RoundInv, OneAnswerEach
  <2>2. <<>> = [i \in DOMAIN <<>> |-> i]
    OBVIOUS
  <2>3. ASSUME NEW s \in DOMAIN history' PROVE history'[s] = [i \in DOMAIN calls'[s] |-> i]
    BY <1>8, <1>9, <2>1, <2>2, <2>3
  <2>. QED BY <2>3 DEF OneAnswerEach
<1>13. GroupApart' /\ LocksApart' /\ CallsPlaced' /\ ResultsTold'
  BY <1>0, <1>8 DEF GroupApart, LocksApart, CallsPlaced, ResultsTold, In, ToolStages
<1>. QED BY <1>8, <1>10, <1>11, <1>12, <1>13 DEF RoundInv

LEMMA JobEndsKeeps == RoundInv /\ JobEnds => RoundInv'
<1> SUFFICES ASSUME RoundInv, JobEnds PROVE RoundInv'
  OBVIOUS
<1>u. UNCHANGED <<runRow, stage, group, queue, results, history, late>>
  BY DEF JobEnds
<1>0. PICK s \in DOMAIN calls : \E i \in DOMAIN calls[s], end \in {"succeeded", "failed"} :
        /\ calls[s][i].job = "inflight"
        /\ calls' = [calls EXCEPT ![s][i].job = end]
  BY DEF JobEnds
<1>1. PICK i \in DOMAIN calls[s], end \in {"succeeded", "failed"} :
        /\ calls[s][i].job = "inflight"
        /\ calls' = [calls EXCEPT ![s][i].job = end]
  BY <1>0
<1>2. PICK c : c = [calls[s][i] EXCEPT !.job = end]
  OBVIOUS
<1>3. calls[s][i] \in Calls /\ CallRow(calls[s][i])
  BY CallsTyped DEF RoundInv, RowsSound
<1>4. /\ c \in Calls /\ CallRow(c) /\ c.tool = calls[s][i].tool /\ c.st = calls[s][i].st
      /\ c.answer = calls[s][i].answer
  BY <1>1, <1>2, <1>3 DEF Calls, Jobs, CallRow
<1>5. calls' = [calls EXCEPT ![s][i] = c]
  BY <1>1, <1>2
<1>6. /\ calls' \in Seq(Seq(Calls))
      /\ Len(calls') = Len(calls) /\ DOMAIN calls' = DOMAIN calls
      /\ \A t \in DOMAIN calls : DOMAIN calls'[t] = DOMAIN calls[t]
      /\ \A t \in DOMAIN calls : \A j \in DOMAIN calls[t] :
           calls'[t][j] = IF t = s /\ j = i THEN c ELSE calls[t][j]
  BY <1>4, <1>5, RowPut DEF RoundInv
<1>7. \A t \in DOMAIN calls : \A j \in DOMAIN calls[t] :
        /\ calls'[t][j].tool = calls[t][j].tool /\ calls'[t][j].st = calls[t][j].st
        /\ calls'[t][j].answer = calls[t][j].answer /\ CallRow(calls'[t][j])
  BY <1>4, <1>6 DEF RoundInv, RowsSound
<1>8. This' = This
  BY <1>u, <1>6 DEF This
<1>9. \A j \in This : /\ Here(j)'.tool = Here(j).tool /\ Here(j)'.st = Here(j).st
                      /\ Here(j)'.answer = Here(j).answer
  BY <1>u, <1>7, ThisTyped DEF RoundInv, Here
<1>10. /\ \A st : In(st)' = In(st)
       /\ \A j \in This : KeysOf(j)' = KeysOf(j)
  BY <1>8, <1>9 DEF In, KeysOf
<1>11. RoundTypeOK' /\ StepsCounted'
  BY <1>u, <1>6 DEF RoundInv, RoundTypeOK, StepsCounted
<1>12. RowsSound'
  BY <1>u, <1>6, <1>7 DEF RowsSound, CallRow
<1>13. EarlierOver'
  <2>1. \A t \in DOMAIN calls' : t < runRow'.step =>
          \A j \in DOMAIN calls'[t] : Over(calls'[t][j]) /\ calls'[t][j].answer # "running"
    <3>1. ASSUME NEW t \in DOMAIN calls, t < runRow.step, NEW j \in DOMAIN calls[t]
          PROVE  Over(calls'[t][j]) /\ calls'[t][j].answer # "running"
      <4>1. Over(calls[t][j]) /\ calls[t][j].answer # "running"
        BY <3>1 DEF RoundInv, EarlierOver
      <4>. QED BY <1>7, <4>1 DEF Over
    <3>. QED BY <1>u, <1>6, <3>1
  <2>2. stage' = "iterate" => \A j \in This' : Over(Here(j)')
    BY <1>u, <1>8, <1>9 DEF RoundInv, EarlierOver, Over
  <2>. QED BY <2>1, <2>2 DEF EarlierOver, Over
<1>14. OneAnswerEach'
  <2>1. DOMAIN history \subseteq DOMAIN calls
    BY CallsTyped DEF RoundInv, RoundTypeOK, StepsCounted
  <2>. QED BY <1>u, <1>6, <2>1 DEF RoundInv, OneAnswerEach
<1>15. GroupApart' /\ ResultsTold'
  BY <1>u, <1>8, <1>10 DEF RoundInv, GroupApart, ResultsTold
<1>16. CallsPlaced'
  <2>1. CASE stage = "serial"
    <3>1. Foremost' = Foremost
      <4>1. \A j \in queue : Here(j)'.tool = Here(j).tool
        BY <1>9, <2>1 DEF RoundInv, CallsPlaced
      <4>. QED BY <4>1, <1>u, ForemostStays
    <3>2. \A j \in queue : Here(j)'.st # "pending" => j = Foremost
      BY <1>9, <2>1 DEF RoundInv, CallsPlaced
    <3>. QED BY <1>u, <1>8, <1>10, <2>1, <3>1, <3>2 DEF RoundInv, CallsPlaced
  <2>2. CASE stage # "serial"
    BY <1>u, <1>8, <1>10, <2>2 DEF RoundInv, CallsPlaced
  <2>. QED BY <2>1, <2>2
<1>17. LocksApart'
  <2>1. \A j \in This : Here(j)'.job = "inflight" => Here(j).job = "inflight"
    <3>1. \A t \in DOMAIN calls : \A j \in DOMAIN calls[t] :
            calls'[t][j].job = "inflight" => calls[t][j].job = "inflight"
      BY <1>1, <1>2, <1>3, <1>6 DEF Calls
    <3>. QED BY <1>u, <3>1, ThisTyped DEF RoundInv, Here
  <2>2. ASSUME NEW j \in This, NEW k \in This, j # k
        PROVE  ~Contend(Here(j)', Here(k)')
    <3>1. Contend(Here(j)', Here(k)') => Contend(Here(j), Here(k))
      BY <1>9, <2>1 DEF Contend
    <3>. QED BY <2>2, <3>1 DEF RoundInv, LocksApart
  <2>3. \A j, k : Contend(Here(j), Here(k))' <=> Contend(Here(j)', Here(k)')
    BY DEF Contend, requires_serialization
  <2>4. \A j \in This' : \A k \in This' : j # k => ~Contend(Here(j)', Here(k)')
    BY <1>8, <2>2
  <2>. QED BY <2>3, <2>4 DEF LocksApart
<1>. QED BY <1>11, <1>12, <1>13, <1>14, <1>15, <1>16, <1>17 DEF RoundInv

\* Nothing moves but the clock.
LEMMA TimeKeeps ==
    ASSUME RoundInv, UNCHANGED <<runRow, stage, calls, group, queue, results, history>>,
           late' \in BOOLEAN, late => late'
    PROVE  RoundInv'
<1>1. /\ This' = This /\ \A st : In(st)' = In(st) /\ Foremost' = Foremost
      /\ \A i \in This : Here(i)' = Here(i) /\ KeysOf(i)' = KeysOf(i)
  BY DEF This, In, Here, KeysOf, Foremost, is_concurrent_safe
<1>2. RoundTypeOK' /\ StepsCounted' /\ OneAnswerEach'
  BY DEF RoundInv, RoundTypeOK, StepsCounted, OneAnswerEach
<1>3. RowsSound'
  BY DEF RoundInv, RowsSound, CallRow
<1>4. EarlierOver'
  BY <1>1 DEF RoundInv, EarlierOver
<1>5. GroupApart' /\ ResultsTold'
  BY <1>1 DEF RoundInv, GroupApart, ResultsTold
<1>6. CallsPlaced'
  BY <1>1 DEF RoundInv, CallsPlaced
<1>7. LocksApart'
  BY <1>1, LocksStay DEF RoundInv
<1>. QED BY <1>2, <1>3, <1>4, <1>5, <1>6, <1>7 DEF RoundInv

LEMMA RoundInvInit == RoundInit => RoundInv
<1> SUFFICES ASSUME RoundInit PROVE RoundInv
  OBVIOUS
<1>1. DOMAIN calls = {} /\ DOMAIN history = {} /\ Len(calls) = 0 /\ Len(history) = 0
      /\ runRow.step = 0 /\ stage = "iterate"
  BY DEF RoundInit
<1>2. RoundTypeOK
  <2>1. <<>> \in Seq(Seq(Calls)) /\ <<>> \in Seq(Nat) /\ <<>> \in Seq(Seq(Nat))
    OBVIOUS
  <2>2. 0 \in 0..MaxSteps /\ 0 \in Nat
    BY LimitsAssumption
  <2>. QED BY <2>1, <2>2 DEF RoundInit, RoundTypeOK, RunStatuses
<1>3. This = {}
  BY <1>1 DEF This
<1>. QED BY <1>1, <1>2, <1>3 DEF RoundInv, StepsCounted, RowsSound, EarlierOver, GroupApart, LocksApart, CallsPlaced,
            ResultsTold, OneAnswerEach, In, ToolStages

LEMMA RoundInvStep == RoundInv /\ [RoundNext]_roundVars => RoundInv'
<1> SUFFICES ASSUME RoundInv, [RoundNext]_roundVars PROVE RoundInv'
  OBVIOUS
<1>1. CASE ProviderFinal \/ ProviderCalls
  BY <1>1, ProviderFinalKeeps, ProviderCallsKeeps
<1>2. CASE BeginIteration
  BY <1>2, BeginIterationKeeps
<1>3. CASE Save \/ RunnerFails \/ Leave
  <2>1. Fail \/ (stage' \in Ended /\ UNCHANGED runRow)
    BY <1>3 DEF Save, RunnerFails, Leave, Ended
  <2>2. UNCHANGED <<calls, group, queue, results, history, late>>
    BY <1>3 DEF Save, RunnerFails, Leave, ToolsUnchanged
  <2>. QED BY <2>1, <2>2, EndKeeps
<1>4. CASE Preflight \/ Partition \/ StartSerial
  BY <1>4, PreflightKeeps, PartitionKeeps, StartSerialKeeps
<1>5. CASE GroupDone \/ Observe
  BY <1>5, GroupDoneKeeps, ObserveKeeps
<1>6. ASSUME NEW i \in This, StartConcurrent(i) \/ Poll(i) \/ PollRaises(i) \/ Record(i)
      PROVE  RoundInv'
  BY <1>6, StartConcurrentKeeps, PolledKeeps, RecordKeeps
<1>7. CASE JobEnds
  BY <1>7, JobEndsKeeps
<1>8. CASE TimePasses \/ UNCHANGED roundVars
  <2>1. UNCHANGED <<runRow, stage, calls, group, queue, results, history>> /\ (late' = TRUE \/ late' = late)
    BY <1>8 DEF TimePasses, ToolsUnchanged, roundVars
  <2>2. late \in BOOLEAN
    BY DEF RoundInv, RoundTypeOK
  <2>3. late' \in BOOLEAN
    BY <2>1, <2>2, Zenon
  <2>4. late => late'
    BY <2>1, Zenon
  <2>. QED BY <2>1, <2>3, <2>4, TimeKeeps
<1>. QED BY <1>1, <1>2, <1>3, <1>4, <1>5, <1>6, <1>7, <1>8 DEF RoundNext, RoundStep

LEMMA RoundInvHolds == RoundSpec => []RoundInv
  BY RoundInvInit, RoundInvStep, PTL DEF RoundSpec

\* Type correctness of the round, for all tools, plans and settings.
THEOREM RoundTypeCorrect == RoundSpec => []RoundTypeOK
<1>1. RoundInv => RoundTypeOK
  BY DEF RoundInv
<1>. QED BY <1>1, RoundInvHolds, PTL

\* Whatever is refused, raises, waits or runs into the deadline, in whatever order the tasks are
\* completed: the provider reads one answer for each of its calls, in their order.
THEOREM EveryCallAnswered == RoundSpec => []OneAnswerEach
<1>1. RoundInv => OneAnswerEach
  BY DEF RoundInv
<1>. QED BY <1>1, RoundInvHolds, PTL

\* Of two jobs of a step in flight on the same resource the Center no longer looks at one, not even
\* by the tasks a stream leaves behind; two that lock it are never in flight together.
THEOREM ResourcesTakeTurns == RoundSpec => []CallsApart
<1>1. ASSUME RoundInv, NEW i \in This, NEW j \in This, i # j, KeysOf(i) \cap KeysOf(j) # {},
             Here(i).job = "inflight", Here(j).job = "inflight"
      PROVE  /\ Abandoned(Here(i)) \/ Abandoned(Here(j))
             /\ ~(requires_serialization(Here(i).tool) /\ requires_serialization(Here(j).tool))
  <2>1. ~(requires_serialization(Here(i).tool) /\ requires_serialization(Here(j).tool))
    BY <1>1 DEF RoundInv, LocksApart, Contend, KeysOf
  <2>2. CallRow(Here(i)) /\ CallRow(Here(j))
    BY <1>1, RowSound
  <2>3. ASSUME i \in In("polling"), j \in In("polling") PROVE FALSE
    <3>1. CASE i \in group /\ j \in group
      BY <1>1, <3>1 DEF RoundInv, GroupApart
    <3>2. CASE i \notin group
      BY <1>1, <2>3, <3>2 DEF RoundInv, GroupApart
    <3>3. CASE j \notin group
      BY <1>1, <2>3, <3>3 DEF RoundInv, GroupApart
    <3>. QED BY <3>1, <3>2, <3>3
  <2>4. ASSUME ~Abandoned(Here(i)), ~Abandoned(Here(j)) PROVE FALSE
    <3>1. Here(i).st = "polling" /\ Here(j).st = "polling"
      BY <1>1, <2>2, <2>4 DEF CallRow, Abandoned
    <3>. QED BY <2>3, <3>1 DEF In
  <2>. QED BY <2>1, <2>4
<1>2. RoundInv => CallsApart
  BY <1>1 DEF CallsApart
<1>. QED BY <1>2, RoundInvHolds, PTL

\* The provider is not asked again while a call of an earlier step waits or has its job in flight,
\* unless an exception left the job behind.
THEOREM StepsLeaveNothing == RoundSpec => []NextStepAlone
<1>1. ASSUME RoundInv PROVE NextStepAlone
  <2>1. ASSUME stage \in ToolStages, NEW s \in 1..(runRow.step - 1), NEW c \in ToSet(calls[s])
        PROVE  c.answer \notin Waiting /\ (c.job = "inflight" => c.answer = "error")
    <3>1. s \in DOMAIN calls /\ s < runRow.step
      BY <1>1, <2>1, CallsTyped DEF RoundInv, StepsCounted
    <3>2. PICK i \in DOMAIN calls[s] : c = calls[s][i]
      BY ToSetIs
    <3>. QED BY <1>1, <3>1, <3>2 DEF RoundInv, EarlierOver, Over, RowsSound, CallRow, Waiting
  <2>. QED BY <2>1 DEF NextStepAlone
<1>. QED BY <1>1, RoundInvHolds, PTL
=============================================================================
