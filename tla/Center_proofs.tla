---------------------------- MODULE Center_proofs ----------------------------
(***************************************************************************)
(* Proofs about two of the Center's services: the maintenance of plans     *)
(* (Maintenance), for every plan and every number of runs, and the         *)
(* registry of capabilities (CapabilityRegistry), for every set of nodes,  *)
(* manifests, handlers and searches.                                       *)
(***************************************************************************)
EXTENDS Maintenance, CapabilityRegistry, FiniteSetTheorems, WellFoundedInduction, TLAPS

(***************************************************************************)
(* The plans of the Agent: what is chosen is available, and in its place.  *)
(***************************************************************************)
LEMMA LeastIs ==
    ASSUME NEW S, S \subseteq Nat, S # {}
    PROVE  \E s \in S : \A t \in S : s <= t
<1>1. PICK s \in S : \A t \in S : ~(<<t, s>> \in OpToRel(<, Nat))
  BY NatLessThanWellFounded, WFMin
<1>2. ASSUME NEW t \in S PROVE s <= t
  <2>1. <<t, s>> \in OpToRel(<, Nat) <=> t < s
    BY DEF OpToRel
  <2>2. ~(t < s) /\ s \in Nat /\ t \in Nat
    BY <1>1, <2>1
  <2> QED
    BY <2>2
<1> QED
  BY <1>2

LEMMA ForemostIs ==
    ASSUME NEW S, S \subseteq DOMAIN tool, S # {}, NEW rank \in [DOMAIN tool -> Nat]
    PROVE  Foremost(S, rank) \in S
<1> DEFINE Ranks == {rank[f] : f \in S}
<1>1. Ranks \subseteq Nat /\ Ranks # {}
  OBVIOUS
<1>2. PICK k \in Ranks : \A t \in Ranks : k <= t
  BY <1>1, LeastIs
<1> DEFINE First == {f \in S : rank[f] = k}
           Places == {tool[f].place : f \in First}
<1>3. Places \subseteq Nat /\ Places # {}
  <2>1. \A f \in S : tool[f].place \in Nat
    BY ToolAssumption
  <2>2. \E f \in S : rank[f] = k
    BY <1>2
  <2> QED
    BY <2>1, <2>2
<1>4. PICK m \in Places : \A t \in Places : m <= t
  BY <1>3, LeastIs
<1>5. PICK f \in First : tool[f].place = m
  BY <1>4
<1>6. ASSUME NEW g \in S
      PROVE  rank[f] < rank[g] \/ (rank[f] = rank[g] /\ tool[f].place <= tool[g].place)
  <2>1. k \in Nat /\ rank[g] \in Nat /\ k <= rank[g] /\ rank[f] = k
    BY <1>1, <1>2, <1>5
  <2>2. CASE rank[g] = k
    BY <1>4, <1>5, <2>1, <2>2
  <2>3. CASE rank[g] # k
    BY <2>1, <2>3
  <2> QED
    BY <2>2, <2>3
<1> QED
  BY <1>5, <1>6 DEF Foremost

LEMMA ProposedIs ==
    ASSUME NEW seeds, NEW n \in Nat, DOMAIN seeds = 1..n, NEW S, Proposed(seeds, S) # {}
    PROVE  FirstProposed(seeds, S) \in S
<1>1. \E i \in Proposed(seeds, S) : \A j \in Proposed(seeds, S) : i <= j
  <2>1. Proposed(seeds, S) \subseteq Nat
    BY DEF Proposed
  <2> QED
    BY <2>1, LeastIs
<1> QED
  BY <1>1 DEF FirstProposed, Proposed

LEMMA AvailableNamed ==
    /\ Available \subseteq DOMAIN tool /\ NoFunction \notin Available
    /\ Readers \cap Writers = {} /\ Readers \subseteq Available /\ Writers \subseteq Available
    /\ Alike \in [DOMAIN tool -> Nat] /\ StatusFirst \in [DOMAIN tool -> Nat]
    /\ Urgency \in [DOMAIN tool -> Nat]
  BY ToolAssumption DEF Available, Readers, Writers, Alike, StatusFirst, Urgency

\* A function that reads is chosen to look with, as long as there is one.
LEMMA CheckIs ==
    ASSUME NEW seeds, NEW n \in Nat, DOMAIN seeds = 1..n, Readers # {}
    PROVE  _select_check_function(seeds) \in Readers
<1> DEFINE looking == {f \in Readers : "looks" \in tool[f].words}
<1>1. looking \subseteq DOMAIN tool /\ Readers \subseteq DOMAIN tool
  BY AvailableNamed
<1>2. Proposed(seeds, Readers) # {} => FirstProposed(seeds, Readers) \in Readers
  BY ProposedIs
<1>3. looking # {} => Foremost(looking, StatusFirst) \in looking
  BY <1>1, ForemostIs, AvailableNamed
<1>4. Foremost(Readers, Alike) \in Readers
  BY <1>1, ForemostIs, AvailableNamed
<1> QED
  BY <1>2, <1>3, <1>4 DEF _select_check_function

\* What is chosen to repair with writes.
LEMMA RepairIs ==
    ASSUME NEW seeds, NEW n \in Nat, DOMAIN seeds = 1..n, NEW looked
    PROVE  _select_repair_function(looked, seeds) \in Writers \cup {NoFunction}
<1> DEFINE related == IF looked \in Available THEN Writers \cap Family(looked) ELSE {}
<1>1. related \subseteq Writers /\ related \subseteq DOMAIN tool /\ Writers \subseteq DOMAIN tool
  BY AvailableNamed
<1>2. Proposed(seeds, Writers) # {} => FirstProposed(seeds, Writers) \in Writers
  BY ProposedIs
<1>3. related # {} => Foremost(related, Urgency) \in related
  BY <1>1, ForemostIs, AvailableNamed
<1>4. Writers # {} => Foremost(Writers, Urgency) \in Writers
  BY <1>1, ForemostIs, AvailableNamed
<1> HIDE DEF related
<1>5. _select_repair_function(looked, seeds) =
        IF Proposed(seeds, Writers) # {} THEN FirstProposed(seeds, Writers)
        ELSE IF related # {} THEN Foremost(related, Urgency)
        ELSE IF Writers # {} THEN Foremost(Writers, Urgency)
        ELSE NoFunction
  BY DEF _select_repair_function, related
<1> QED
  BY <1>1, <1>2, <1>3, <1>4, <1>5

LEMMA RollbackIs ==
    ASSUME NEW looked
    PROVE  _build_rollback_hint(looked) \in DOMAIN tool \cup {NoFunction}
<1> DEFINE undoing == {f \in Writers \cap Family(looked) : "undoes" \in tool[f].words}
<1>1. undoing \subseteq DOMAIN tool
  BY AvailableNamed
<1>2. undoing # {} => Foremost(undoing, Alike) \in undoing
  BY <1>1, ForemostIs, AvailableNamed
<1> QED
  BY <1>1, <1>2 DEF _build_rollback_hint, _select_rollback_function

\* The rows of a plan that looked with one function and repairs with another.
LEMMA RowsAre ==
    ASSUME NEW looked \in DOMAIN tool, NEW repair \in DOMAIN tool
    PROVE  Check(looked) \in StepRows /\ Verify(looked) \in StepRows /\ Repair(looked, repair) \in StepRows
<1>1. {1} \subseteq Steps /\ {2} \subseteq Steps
  BY MaintenanceAssumption DEF Steps
<1>2. _build_rollback_hint(looked) \in DOMAIN tool \cup {NoFunction}
  BY RollbackIs
<1> QED
  BY <1>1, <1>2 DEF Check, Verify, Repair, StepRows

LEMMA Numbered ==
    ASSUME NEW S, NEW seq \in Seq(S)
    PROVE  \E n \in Nat : DOMAIN seq = 1..n
  OBVIOUS

\* Every plan of the Agent is one of these.
LEMMA AgentPlanIs ==
    ASSUME NEW p \in AgentPlans
    PROVE  \E looked \in Available, repair \in Writers \cup {NoFunction} :
                /\ Readers # {} => looked \in Readers
                /\ \/ p = <<Check(looked)>>
                   \/ p = <<Check(looked), Verify(looked)>>
                   \/ /\ repair \in Writers
                      /\ p = <<Check(looked), Repair(looked, repair), Verify(looked)>>
<1>1. PICK intent \in Intents, seeds \in _infer_plan_seed_calls : p = agent_plan(intent, seeds)
  BY DEF AgentPlans
<1> DEFINE looked == _select_check_function(seeds)
           repair == _select_repair_function(looked, seeds)
<1>2. p # <<>>
  BY DEF AgentPlans
<1>3. \E n \in Nat : DOMAIN seeds = 1..n
  <2>1. seeds \in Seq(Names) \/ seeds = <<>>
    BY AnswersAssumption DEF _infer_plan_seed_calls
  <2>2. DOMAIN <<>> = 1..0
    OBVIOUS
  <2> QED
    BY <2>1, <2>2, Numbered
<1>4. Readers # {} => looked \in Readers
  BY <1>3, CheckIs
<1>5. repair \in Writers \cup {NoFunction}
  BY <1>3, RepairIs
<1> HIDE DEF looked, repair
<1>6. /\ looked \in Available
      /\ \/ p = <<Check(looked)>>
         \/ p = <<Check(looked), Verify(looked)>>
         \/ /\ repair # NoFunction
            /\ p = <<Check(looked), Repair(looked, repair), Verify(looked)>>
  BY <1>1, <1>2 DEF agent_plan, looked, repair
<1> QED
  BY <1>4, <1>5, <1>6

LEMMA PlansAre ==
    ASSUME NEW p \in Plans
    PROVE  p \in Seq(StepRows) /\ Len(p) \in Steps /\ DOMAIN p = 1..Len(p) /\ DOMAIN p \subseteq Steps
<1>1. p \in Seq(StepRows) /\ Len(p) \in Steps
  <2>1. CASE p \in Requested
    BY <2>1, MaintenanceAssumption
  <2>2. CASE p \in AgentPlans
    <3>1. PICK looked \in Available, repair \in Writers \cup {NoFunction} :
                \/ p = <<Check(looked)>>
                \/ p = <<Check(looked), Verify(looked)>>
                \/ /\ repair \in Writers
                   /\ p = <<Check(looked), Repair(looked, repair), Verify(looked)>>
      BY <2>2, AgentPlanIs
    <3>2. /\ Check(looked) \in StepRows /\ Verify(looked) \in StepRows
          /\ repair \in Writers => Repair(looked, repair) \in StepRows
      BY RowsAre, AvailableNamed
    <3>3. 1 \in Steps /\ 2 \in Steps /\ 3 \in Steps
      BY MaintenanceAssumption DEF Steps
    <3>4. CASE p = <<Check(looked)>>
      BY <3>2, <3>3, <3>4
    <3>5. CASE p = <<Check(looked), Verify(looked)>>
      BY <3>2, <3>3, <3>5
    <3>6. CASE repair \in Writers /\ p = <<Check(looked), Repair(looked, repair), Verify(looked)>>
      BY <3>2, <3>3, <3>6
    <3> QED
      BY <3>1, <3>4, <3>5, <3>6
  <2> QED
    BY <2>1, <2>2 DEF Plans
<1>2. DOMAIN p = 1..Len(p)
  BY <1>1
<1>3. DOMAIN p \subseteq Steps
  BY <1>1, <1>2, MaintenanceAssumption DEF Steps
<1> QED
  BY <1>1, <1>2, <1>3

\* On a node that has a function to look with, the Agent asks before every step that writes.
LEMMA WritingIsGated == planned \in Plans => Writing \subseteq gated
<1> SUFFICES ASSUME planned \in AgentPlans, Readers # {}, NEW s \in Rows,
                    planned[s].function \in Writers
             PROVE  planned[s].requires_approval
  BY DEF Writing, gated
<1>1. PICK looked \in Readers, repair \in Writers \cup {NoFunction} :
        \/ planned = <<Check(looked)>>
        \/ planned = <<Check(looked), Verify(looked)>>
        \/ planned = <<Check(looked), Repair(looked, repair), Verify(looked)>>
  BY AgentPlanIs
<1>2. looked \notin Writers
  BY AvailableNamed
<1>3. /\ Check(looked).function = looked /\ Verify(looked).function = looked
      /\ Repair(looked, repair).requires_approval
  BY DEF Check, Verify, Repair
<1>4. planned[s] \in {Check(looked), Verify(looked), Repair(looked, repair)}
  BY <1>1 DEF Rows
<1> QED
  BY <1>2, <1>3, <1>4

(***************************************************************************)
(* Types.                                                                  *)
(***************************************************************************)
RunStatus == {"none", "running", "waiting_approval"} \cup EndStatus

Typed ==
    /\ planned \in Plans
    /\ plan \in {"draft", "approved", "running", "waiting_approval"} \cup EndStatus
    /\ approval \in [status : {"none", "pending", "approved", "denied", "consumed"},
                     for : Steps \cup {0}]
    /\ run \in [Runs -> RunStatus]
    /\ mine \in [Runs -> RunStatus]
    /\ rollback \subseteq Runs /\ sound \subseteq Steps
    /\ step \in [Steps -> StepStatus] /\ copy \in [Runs -> [Steps -> StepStatus]]
    /\ job \in [Steps -> {"none", "live", "over"}]
    /\ does \in [Runs -> {"idle", "asked", "gone"} \cup Working]
    /\ at \in [Runs -> 1..N + 1]

LEMMA TypeSplit == TypeOK <=> Typed /\ trouble \in BOOLEAN
  BY Zenon DEF TypeOK, Typed, RunStatus

LEMMA TroubleStep == trouble \in BOOLEAN /\ [Next]_vars => trouble' \in BOOLEAN
<1> SUFFICES ASSUME trouble \in BOOLEAN, [Next]_vars PROVE trouble' \in BOOLEAN
  OBVIOUS
<1>1. ASSUME NEW r \in Runs, Execute(r) PROVE trouble' \in BOOLEAN
  <2>1. CASE StepRaises(r)
    BY <2>1, Zenon DEF StepRaises
  <2>2. CASE StepFails(r)
    BY <2>2, Zenon DEF StepFails
  <2>3. CASE ~StepRaises(r) /\ ~StepFails(r)
    <3>1. trouble' = trouble
      BY <1>1, <2>3, Zenon DEF Execute, run_plan, PassStep, WaitApproval, StopDenied, StartJob,
         StepSucceeds, LastStep, finalize_run
    <3> QED
      BY <3>1, Zenon
  <2> QED
    BY <2>1, <2>2, <2>3, Zenon
<1>2. ASSUME NEW r \in Runs, reject_run(r) \/ cancel(r) \/ RequestLost(r)
      PROVE  trouble' \in BOOLEAN
  BY <1>2, Zenon DEF reject_run, cancel, RequestLost
<1>3. ASSUME NEW r \in Runs, AskRun(r) \/ resume_run(r) PROVE trouble' \in BOOLEAN
  BY <1>3, Zenon DEF AskRun, resume_run
<1>4. CASE DecideApproval
  BY <1>4, Zenon DEF DecideApproval
<1>5. CASE approve_plan \/ UNCHANGED vars
  BY <1>5, Zenon DEF approve_plan, vars
<1> QED
  BY <1>1, <1>2, <1>3, <1>4, <1>5, Zenon DEF Next

\* What the executor writes into a row and its copy of it.
LEMMA SetsTyped ==
    ASSUME Typed, NEW r \in Runs, NEW s \in Steps, NEW x \in StepStatus, Sets(r, s, x)
    PROVE  step' \in [Steps -> StepStatus] /\ copy' \in [Runs -> [Steps -> StepStatus]]
<1>1. [copy[r] EXCEPT ![s] = x] \in [Steps -> StepStatus]
  BY DEF Typed
<1>2. copy' = [copy EXCEPT ![r] = [copy[r] EXCEPT ![s] = x]]
  BY DEF Sets, Typed
<1>3. copy' \in [Runs -> [Steps -> StepStatus]]
  BY <1>1, <1>2 DEF Typed
<1> QED
  BY <1>3 DEF Sets, Typed

LEMMA BecomesTyped ==
    ASSUME Typed, NEW r \in Runs, NEW x \in RunStatus, Becomes(r, x)
    PROVE  run' \in [Runs -> RunStatus] /\ mine' \in [Runs -> RunStatus]
  BY DEF Becomes, Typed

LEMMA FailsTyped ==
    ASSUME Typed, NEW r \in Runs, NEW s \in Steps, Fails(r, s)
    PROVE  /\ run' \in [Runs -> RunStatus] /\ mine' \in [Runs -> RunStatus]
           /\ step' \in [Steps -> StepStatus] /\ copy' \in [Runs -> [Steps -> StepStatus]]
           /\ rollback' \subseteq Runs
<1>1. "failed" \in StepStatus /\ "failed" \in RunStatus /\ "rollback_recommended" \in RunStatus
  BY DEF StepStatus, RunStatus, EndStatus
<1>2. rollback' \subseteq Runs
  BY DEF Fails, Typed
<1> QED
  BY <1>1, <1>2, SetsTyped, BecomesTyped DEF Fails

\* The number of the step a run stands at, once it is not past the last one.
LEMMA AtStep ==
    ASSUME Typed, NEW r \in Runs, at[r] \in Rows
    PROVE  at[r] \in Steps /\ at[r] + 1 \in 1..N + 1
  BY PlansAre, MaintenanceAssumption DEF Typed, Rows, Steps

LEMMA FinalTyped ==
    ASSUME Typed, NEW r \in Runs
    PROVE  FinalStatus(r) \in RunStatus /\ FinalStatus(r) \in {"waiting_approval"} \cup EndStatus
  BY DEF FinalStatus, Typed, RunStatus, EndStatus

\* A run that is at a job stands at a step of the plan.
JobAtStep == \A r \in Runs : does[r] = "job" => at[r] \in Rows

LEMMA JobAtStepStep == Typed /\ JobAtStep /\ [Next]_vars => JobAtStep'
<1> SUFFICES ASSUME Typed, JobAtStep, [Next]_vars PROVE JobAtStep'
  OBVIOUS
<1> USE DEF Typed, JobAtStep, Goes, Moves
<1>1. ASSUME NEW r \in Runs, NEW x, does' = [does EXCEPT ![r] = x],
             x # "job" \/ at[r] \in Rows, UNCHANGED planned, \A q \in Runs : q # r => at'[q] = at[q],
             x = "job" => at'[r] = at[r]
      PROVE  JobAtStep'
  <2>1. Rows' = Rows
    BY <1>1 DEF Rows
  <2> QED
    BY <1>1, <2>1
<1>2. ASSUME NEW r \in Runs, Execute(r) PROVE JobAtStep'
  BY <1>1, <1>2 DEF Execute, run_plan, PassStep, WaitApproval, StopDenied, IsDue, StartJob,
     StepRaises, StepSucceeds, StepFails, LastStep, finalize_run
<1>3. ASSUME NEW r \in Runs, AskRun(r) \/ resume_run(r) \/ RequestLost(r) PROVE JobAtStep'
  BY <1>1, <1>3 DEF AskRun, resume_run, RequestLost
<1>4. CASE UNCHANGED <<planned, does, at>>
  BY <1>4 DEF Rows
<1>5. ASSUME NEW r \in Runs, reject_run(r) \/ cancel(r) PROVE UNCHANGED <<planned, does, at>>
  BY <1>5 DEF reject_run, cancel
<1>6. approve_plan \/ DecideApproval \/ UNCHANGED vars => UNCHANGED <<planned, does, at>>
  BY DEF approve_plan, DecideApproval, vars
<1> QED
  BY <1>2, <1>3, <1>4, <1>5, <1>6 DEF Next

\* The first step that needs an approval.
LEMMA FirstGated ==
    ASSUME Typed, gated # {}
    PROVE  (CHOOSE s \in gated : \A t \in gated : s <= t) \in Steps
<1>1. gated \subseteq Steps
  BY PlansAre DEF Typed, gated, Rows
<1>2. gated \subseteq Nat
  BY <1>1 DEF Steps
<1> QED
  BY <1>1, <1>2, LeastIs

LEMMA TypedStep == Typed /\ JobAtStep /\ [Next]_vars => Typed'
<1> SUFFICES ASSUME Typed, JobAtStep, [Next]_vars PROVE Typed'
  OBVIOUS
<1>0. /\ {"pending", "running", "requires_approval", "succeeded", "failed", "skipped"}
             \subseteq StepStatus
      /\ {"none", "running", "waiting_approval", "cancelled", "succeeded"} \subseteq RunStatus
  BY DEF StepStatus, RunStatus, EndStatus
<1> USE DEF Goes, Moves, Working
<1>1. CASE approve_plan
  <2>1. gated # {} => (CHOOSE s \in gated : \A t \in gated : s <= t) \in Steps
    BY FirstGated
  <2> QED
    BY <1>1, <2>1 DEF approve_plan, Typed
<1>2. ASSUME NEW r \in Runs, AskRun(r) PROVE Typed'
  BY <1>2 DEF AskRun, Typed
<1>3. ASSUME NEW r \in Runs, run_plan(r) PROVE Typed'
  <2>1. 1 \in 1..N + 1
    BY MaintenanceAssumption
  <2> QED
    BY <1>0, <1>3, <2>1, BecomesTyped DEF run_plan, Typed
<1>4. ASSUME NEW r \in Runs, resume_run(r) PROVE Typed'
  <2>1. 1 \in 1..N + 1
    BY MaintenanceAssumption
  <2>2. step' \in [Steps -> StepStatus]
    BY <1>0, <1>4 DEF resume_run, Typed
  <2> QED
    BY <1>0, <1>4, <2>1, <2>2, BecomesTyped DEF resume_run, Typed
<1>5. ASSUME NEW r \in Runs, PassStep(r) PROVE Typed'
  <2>1. at[r] \in Steps /\ at[r] + 1 \in 1..N + 1
    BY <1>5, AtStep DEF PassStep
  <2>2. step' \in [Steps -> StepStatus] /\ copy' \in [Runs -> [Steps -> StepStatus]]
    BY <1>0, <1>5, <2>1, SetsTyped DEF PassStep, Typed
  <2> QED
    BY <1>5, <2>1, <2>2 DEF PassStep, Typed
<1>6. ASSUME NEW r \in Runs, WaitApproval(r) \/ StopDenied(r) PROVE Typed'
  <2>1. at[r] \in Steps
    BY <1>6, AtStep DEF WaitApproval, StopDenied, IsDue
  <2>2. step' \in [Steps -> StepStatus] /\ copy' \in [Runs -> [Steps -> StepStatus]]
    BY <1>0, <1>6, <2>1, SetsTyped DEF WaitApproval, StopDenied
  <2>3. run' \in [Runs -> RunStatus] /\ mine' \in [Runs -> RunStatus]
    BY <1>0, <1>6, BecomesTyped DEF WaitApproval, StopDenied
  <2> QED
    BY <1>6, <2>1, <2>2, <2>3 DEF WaitApproval, StopDenied, Typed, EndStatus
<1>7. ASSUME NEW r \in Runs, StartJob(r) PROVE Typed'
  <2>1. at[r] \in Steps
    BY <1>7, AtStep DEF StartJob, IsDue
  <2>2. step' \in [Steps -> StepStatus] /\ copy' \in [Runs -> [Steps -> StepStatus]]
    BY <1>0, <1>7, <2>1, SetsTyped DEF StartJob
  <2> QED
    BY <1>7, <2>1, <2>2 DEF StartJob, Typed
<1>8. ASSUME NEW r \in Runs, StepRaises(r) \/ StepFails(r) PROVE Typed'
  <2>1. at[r] \in Steps /\ at[r] + 1 \in 1..N + 1
    BY <1>8, AtStep DEF StepRaises, StepFails, IsDue, JobAtStep
  <2>2. Fails(r, at[r])
    BY <1>8 DEF StepRaises, StepFails
  <2>3. /\ run' \in [Runs -> RunStatus] /\ mine' \in [Runs -> RunStatus]
        /\ step' \in [Steps -> StepStatus] /\ copy' \in [Runs -> [Steps -> StepStatus]]
        /\ rollback' \subseteq Runs
    BY <2>1, <2>2, FailsTyped
  <2>4. does' \in [Runs -> {"idle", "asked", "gone"} \cup Working] /\ at' \in [Runs -> 1..N + 1]
    BY <1>8, <2>1 DEF StepRaises, StepFails, Typed, Working
  <2>5. job' \in [Steps -> {"none", "live", "over"}]
    BY <1>8, <2>1 DEF StepRaises, StepFails, Typed
  <2>6. UNCHANGED <<planned, plan, approval, sound>>
    BY <1>8 DEF StepRaises, StepFails
  <2> QED
    BY <2>3, <2>4, <2>5, <2>6 DEF Typed
<1>9. ASSUME NEW r \in Runs, StepSucceeds(r) PROVE Typed'
  <2>1. at[r] \in Steps /\ at[r] + 1 \in 1..N + 1
    BY <1>9, AtStep DEF StepSucceeds, JobAtStep
  <2>2. step' \in [Steps -> StepStatus] /\ copy' \in [Runs -> [Steps -> StepStatus]]
    BY <1>0, <1>9, <2>1, SetsTyped DEF StepSucceeds
  <2>3. sound' \subseteq Steps
    BY <1>9, <2>1 DEF StepSucceeds, Typed
  <2> QED
    BY <1>9, <2>1, <2>2, <2>3 DEF StepSucceeds, Typed
<1>10. ASSUME NEW r \in Runs, LastStep(r) PROVE Typed'
  <2>1. run' \in [Runs -> RunStatus] /\ mine' \in [Runs -> RunStatus]
    BY <1>0, <1>10, BecomesTyped DEF LastStep
  <2> QED
    BY <1>10, <2>1 DEF LastStep, Typed
<1>11. ASSUME NEW r \in Runs, finalize_run(r) PROVE Typed'
  <2>1. run' \in [Runs -> RunStatus] /\ mine' \in [Runs -> RunStatus]
    BY <1>11, FinalTyped, BecomesTyped DEF finalize_run
  <2>2. plan' \in {"waiting_approval"} \cup EndStatus
    BY <1>11, FinalTyped DEF finalize_run
  <2> QED
    BY <1>11, <2>1, <2>2 DEF finalize_run, Typed
<1>12. CASE DecideApproval
  BY <1>12 DEF DecideApproval, Typed
<1>13. ASSUME NEW r \in Runs, reject_run(r) PROVE Typed'
  BY <1>0, <1>13 DEF reject_run, Typed, EndStatus
<1>14. ASSUME NEW r \in Runs, cancel(r) PROVE Typed'
  BY <1>0, <1>14 DEF cancel, Typed, EndStatus
<1>15. ASSUME NEW r \in Runs, RequestLost(r) PROVE Typed'
  BY <1>15 DEF RequestLost, Typed
<1>16. CASE UNCHANGED vars
  BY <1>16 DEF vars, Typed
<1> QED
  BY <1>1, <1>2, <1>3, <1>4, <1>5, <1>6, <1>7, <1>8, <1>9, <1>10, <1>11, <1>12, <1>13, <1>14,
     <1>15, <1>16 DEF Next, Execute

LEMMA InitTyped == Init => Typed /\ JobAtStep /\ trouble \in BOOLEAN
<1> SUFFICES ASSUME Init PROVE Typed /\ JobAtStep /\ trouble \in BOOLEAN
  OBVIOUS
<1>1. trouble \in BOOLEAN
  BY Zenon DEF Init
<1>2. 1 \in 1..N + 1
  BY MaintenanceAssumption
<1>3. Typed
  BY <1>2 DEF Init, Typed, RunStatus, StepStatus
<1>4. JobAtStep
  BY DEF Init, JobAtStep
<1> QED
  BY <1>1, <1>3, <1>4

LEMMA Invariant == Spec => [](Typed /\ JobAtStep /\ trouble \in BOOLEAN)
<1> DEFINE I == Typed /\ JobAtStep /\ trouble \in BOOLEAN
<1>1. I /\ [Next]_vars => I'
  BY TypedStep, JobAtStepStep, TroubleStep, Zenon
<1> QED
  BY <1>1, InitTyped, PTL DEF Spec

\* Every variable keeps its type.
THEOREM TypeCorrect == Spec => []TypeOK
<1>1. Typed /\ JobAtStep /\ trouble \in BOOLEAN => TypeOK
  BY TypeSplit, Zenon
<1> QED
  BY <1>1, Invariant, PTL

\* Whatever is resumed, cancelled or run again, the job of a gated step is started on an
\* approval made for that step, and uses it up.
THEOREM JobsAreGated == Spec => GatedIsApproved
<1>1. Typed /\ [Next]_vars =>
        [\A s \in gated \cup Writing : job[s] # "live" /\ job'[s] = "live" =>
            approval = [status |-> "approved", for |-> s] /\ approval'.status = "consumed"]_vars
  <2> SUFFICES ASSUME Typed, [Next]_vars, NEW s \in gated \cup Writing, job[s] # "live", job'[s] = "live"
               PROVE  approval = [status |-> "approved", for |-> s] /\ approval'.status = "consumed"
    OBVIOUS
  <2>1. s \in gated /\ s \in Steps
    BY WritingIsGated, PlansAre DEF Typed, gated, Rows
  <2>2. PICK r \in Runs : StartJob(r)
    <3>1. ASSUME NEW r \in Runs, Execute(r), ~StartJob(r) PROVE FALSE
      BY <2>1, <3>1 DEF Execute, run_plan, PassStep, WaitApproval, StopDenied, StepRaises,
         StepSucceeds, StepFails, LastStep, finalize_run, Typed
    <3>2. ASSUME NEW r \in Runs,
                 AskRun(r) \/ resume_run(r) \/ reject_run(r) \/ cancel(r) \/ RequestLost(r)
          PROVE  FALSE
      BY <3>2 DEF AskRun, resume_run, reject_run, cancel, RequestLost
    <3>3. ~approve_plan /\ ~DecideApproval /\ ~UNCHANGED vars
      BY DEF approve_plan, DecideApproval, vars
    <3> QED
      BY <3>1, <3>2, <3>3 DEF Next
  <2>3. s = at[r]
    BY <2>1, <2>2 DEF StartJob, Typed
  <2> QED
    BY <2>1, <2>2, <2>3 DEF StartJob, Ungated, Verified, Typed, gated
<1> QED
  BY <1>1, Invariant, PTL DEF Spec, GatedIsApproved

(***************************************************************************)
(* A plan that is run once.  While its request works, what it takes for    *)
(* done is done in the rows, even if somebody cancels the run meanwhile:   *)
(* a cancel leaves finished steps alone, and every later write of the      *)
(* executor goes to the row and to its copy.                               *)
(***************************************************************************)
OneRun == \A p, q \in Runs : run[p] # "none" /\ run[q] # "none" => p = q

Begun == \A r \in Runs : does[r] \in Working => run[r] # "none"

CopyIsTrue ==
    OneRun => \A r \in Runs : does[r] \in Working =>
        \A s \in Steps : copy[r][s] \in Done => step[s] \in Done

Whole ==
    OneRun => \A r \in Runs : run[r] = "succeeded" /\ does[r] = "idle" =>
        \A s \in Rows : step[s] \in Done

LEMMA AloneIsOneRun == Alone => OneRun
<1> SUFFICES ASSUME Alone, NEW p \in Runs, NEW q \in Runs, run[p] # "none", run[q] # "none", p # q
             PROVE  FALSE
  BY DEF OneRun
<1> DEFINE S == {r \in Runs : run[r] # "none"}
<1>1. IsFiniteSet(S)
  <2>1. IsFiniteSet(1..MaxRuns)
    BY MaintenanceAssumption, FS_Interval
  <2>2. S \subseteq 1..MaxRuns
    BY DEF Runs
  <2> QED
    BY <2>1, <2>2, FS_Subset
<1>2. {p, q} \subseteq S
  OBVIOUS
<1>3. Cardinality({p, q}) = 2
  <2>1. IsFiniteSet({p}) /\ Cardinality({p}) = 1
    BY FS_Singleton
  <2>2. {p} \cup {q} = {p, q}
    OBVIOUS
  <2> QED
    BY <2>1, <2>2, FS_AddElement
<1>4. Cardinality(S) \in Nat /\ Cardinality({p, q}) <= Cardinality(S)
  BY <1>1, <1>2, FS_Subset, FS_CardinalityType
<1> QED
  BY <1>3, <1>4 DEF Alone

LEMMA BegunStep == Typed /\ Begun /\ [Next]_vars => Begun' /\ (OneRun' => OneRun)
<1> SUFFICES ASSUME Typed, Begun, [Next]_vars PROVE Begun' /\ (OneRun' => OneRun)
  OBVIOUS
<1> USE DEF Typed, Begun, OneRun, Working, Goes, Moves, Becomes
<1>1. ASSUME NEW r \in Runs,
             \/ run_plan(r) \/ WaitApproval(r) \/ StopDenied(r) \/ LastStep(r) \/ resume_run(r)
             \/ StepRaises(r) \/ StepFails(r) \/ finalize_run(r)
      PROVE  /\ run'[r] # "none" /\ \A q \in Runs : q # r => run'[q] = run[q]
             /\ \A q \in Runs : q # r => does'[q] = does[q]
  <2>1. FinalStatus(r) # "none"
    BY DEF FinalStatus
  <2> QED
    BY <1>1, <2>1 DEF run_plan, WaitApproval, StopDenied, LastStep, resume_run, StepRaises,
       StepFails, Fails, finalize_run
<1>2. ASSUME NEW r \in Runs, PassStep(r) \/ StartJob(r) \/ StepSucceeds(r)
      PROVE  UNCHANGED run /\ does[r] \in Working /\ \A q \in Runs : q # r => does'[q] = does[q]
  BY <1>2 DEF PassStep, StartJob, IsDue, StepSucceeds
<1>7. ASSUME NEW r \in Runs, run'[r] # "none", \A q \in Runs : q # r => run'[q] = run[q],
             \A q \in Runs : q # r => does'[q] = does[q]
      PROVE  Begun' /\ (OneRun' => OneRun)
  BY <1>7
<1>8. ASSUME NEW r \in Runs, UNCHANGED run, does[r] \in Working,
             \A q \in Runs : q # r => does'[q] = does[q]
      PROVE  Begun' /\ (OneRun' => OneRun)
  BY <1>8
<1>3. ASSUME NEW r \in Runs, Execute(r) \/ resume_run(r) PROVE Begun' /\ (OneRun' => OneRun)
  <2>1. \/ run_plan(r) \/ WaitApproval(r) \/ StopDenied(r) \/ LastStep(r) \/ resume_run(r)
        \/ StepRaises(r) \/ StepFails(r) \/ finalize_run(r)
        \/ PassStep(r) \/ StartJob(r) \/ StepSucceeds(r)
    BY <1>3 DEF Execute
  <2> HIDE DEF Begun, OneRun, Working, Typed
  <2> QED
    BY <2>1, <1>1, <1>2, <1>7, <1>8
<1>4. ASSUME NEW r \in Runs, AskRun(r) \/ RequestLost(r) PROVE Begun' /\ (OneRun' => OneRun)
  BY <1>4 DEF AskRun, RequestLost
<1>5. ASSUME NEW r \in Runs, reject_run(r) \/ cancel(r) PROVE Begun' /\ (OneRun' => OneRun)
  BY <1>5 DEF reject_run, cancel
<1>6. CASE approve_plan \/ DecideApproval \/ UNCHANGED vars
  BY <1>6 DEF approve_plan, DecideApproval, vars
<1> QED
  BY <1>3, <1>4, <1>5, <1>6 DEF Next

\* What the executor writes keeps its copy true.
LEMMA SetsTrue ==
    ASSUME Typed, NEW r \in Runs, NEW s \in Steps, NEW x, Sets(r, s, x),
           \A t \in Steps : copy[r][t] \in Done => step[t] \in Done
    PROVE  \A t \in Steps : copy'[r][t] \in Done => step'[t] \in Done
  BY DEF Sets, Typed

\* The steps of a plan stay.
LEMMA PlannedStays == [Next]_vars => UNCHANGED planned
<1> SUFFICES ASSUME [Next]_vars PROVE planned' = planned
  OBVIOUS
<1>1. ASSUME NEW r \in Runs, Execute(r) PROVE planned' = planned
  BY <1>1, Zenon DEF Execute, run_plan, PassStep, WaitApproval, StopDenied, StartJob, StepRaises,
     StepSucceeds, StepFails, LastStep, finalize_run
<1>2. ASSUME NEW r \in Runs, AskRun(r) \/ resume_run(r) \/ reject_run(r) \/ cancel(r) \/ RequestLost(r)
      PROVE  planned' = planned
  BY <1>2, Zenon DEF AskRun, resume_run, reject_run, cancel, RequestLost
<1>3. CASE approve_plan \/ DecideApproval \/ UNCHANGED vars
  BY <1>3, Zenon DEF approve_plan, DecideApproval, vars
<1> QED
  BY <1>1, <1>2, <1>3, Zenon DEF Next

LEMMA WholeStep ==
    Typed /\ JobAtStep /\ Begun /\ CopyIsTrue /\ Whole /\ [Next]_vars => CopyIsTrue' /\ Whole'
<1> SUFFICES ASSUME Typed, JobAtStep, Begun, CopyIsTrue, Whole, [Next]_vars, OneRun'
             PROVE  /\ \A r \in Runs : does'[r] \in Working =>
                            \A s \in Steps : copy'[r][s] \in Done => step'[s] \in Done
                    /\ \A r \in Runs : run'[r] = "succeeded" /\ does'[r] = "idle" =>
                            \A s \in Rows : step'[s] \in Done
  BY PlannedStays DEF CopyIsTrue, Whole, Rows
<1> DEFINE Goal == /\ \A r \in Runs : does'[r] \in Working =>
                            \A s \in Steps : copy'[r][s] \in Done => step'[s] \in Done
                   /\ \A r \in Runs : run'[r] = "succeeded" /\ does'[r] = "idle" =>
                            \A s \in Rows : step'[s] \in Done
<1>1. /\ OneRun /\ Begun' /\ Typed'
      /\ \A r \in Runs : does[r] \in Working =>
            \A s \in Steps : copy[r][s] \in Done => step[s] \in Done
      /\ \A r \in Runs : run[r] = "succeeded" /\ does[r] = "idle" =>
            \A s \in Rows : step[s] \in Done
      /\ Rows \subseteq Steps
  BY BegunStep, TypedStep, PlansAre DEF CopyIsTrue, Whole, Typed, Rows
<1> SUFFICES Goal
  OBVIOUS
\* A step of the only run that has a row.
<1>2. ASSUME NEW r \in Runs, run'[r] # "none",
             does'[r] \in Working =>
                \A s \in Steps : copy'[r][s] \in Done => step'[s] \in Done,
             run'[r] = "succeeded" /\ does'[r] = "idle" =>
                \A s \in Rows : step'[s] \in Done
      PROVE  Goal
  <2>1. \A q \in Runs : q # r => run'[q] = "none" /\ does'[q] \notin Working
    BY <1>1, <1>2 DEF OneRun, Begun
  <2> QED
    BY <1>2, <2>1
<1>3. ASSUME NEW r \in Runs, NEW s \in Steps, NEW x, Sets(r, s, x), does[r] \in Working,
             does'[r] \in Working
      PROVE  Goal
  <2>1. \A t \in Steps : copy'[r][t] \in Done => step'[t] \in Done
    BY <1>1, <1>3, SetsTrue
  <2>2. run'[r] # "none" /\ does'[r] # "idle"
    BY <1>1, <1>3 DEF Begun, Working
  <2> QED
    BY <1>2, <2>1, <2>2
<1>4. ASSUME NEW r \in Runs, run_plan(r) \/ resume_run(r) PROVE Goal
  <2>1. copy' = [copy EXCEPT ![r] = step'] /\ run'[r] = "running"
    BY <1>4 DEF run_plan, resume_run, Becomes, Typed
  <2> QED
    BY <1>2, <2>1 DEF Typed
<1>5. ASSUME NEW r \in Runs,
             \/ WaitApproval(r) \/ StopDenied(r) \/ StartJob(r) \/ StepRaises(r)
             \/ StepSucceeds(r) \/ StepFails(r)
      PROVE  Goal
  <2>1. at[r] \in Steps
    BY <1>5, AtStep DEF WaitApproval, StopDenied, StartJob, StepRaises, StepSucceeds, StepFails,
       IsDue, JobAtStep
  <2>2. \E x : Sets(r, at[r], x)
    BY <1>5 DEF WaitApproval, StopDenied, StartJob, StepRaises, StepSucceeds, StepFails, Fails
  <2>3. does[r] \in Working /\ does'[r] \in Working
    BY <1>5 DEF WaitApproval, StopDenied, StartJob, StepRaises, StepSucceeds, StepFails, IsDue,
       Goes, Moves, Working, Typed
  <2> QED
    BY <1>3, <2>1, <2>2, <2>3
<1>6. ASSUME NEW r \in Runs, PassStep(r) PROVE Goal
  <2>1. does[r] \in Working /\ does'[r] \in Working /\ at[r] \in Steps
    BY <1>6, AtStep DEF PassStep, Moves, Goes, Working, Typed
  <2>2. CASE Sets(r, at[r], "skipped")
    BY <1>3, <2>1, <2>2
  <2>3. CASE UNCHANGED <<step, copy>>
    <3>1. run'[r] # "none" /\ does'[r] # "idle"
      BY <1>1, <2>1 DEF Begun, Working
    <3> QED
      BY <1>1, <1>2, <2>1, <2>3, <3>1
  <2> QED
    BY <1>6, <2>2, <2>3 DEF PassStep
<1>7. ASSUME NEW r \in Runs, LastStep(r) PROVE Goal
  <2>1. does[r] \in Working /\ does'[r] = "end" /\ UNCHANGED <<step, copy>>
    BY <1>7 DEF LastStep, Goes, Working, Typed
  <2>2. run'[r] # "none"
    BY <1>1, <2>1 DEF Begun, Working
  <2> QED
    BY <1>1, <1>2, <2>1, <2>2
<1>8. ASSUME NEW r \in Runs, finalize_run(r) PROVE Goal
  <2>1. /\ does[r] \in Working /\ does'[r] = "idle" /\ UNCHANGED <<step, copy>>
        /\ run'[r] = FinalStatus(r)
    BY <1>8 DEF finalize_run, Goes, Becomes, Working, Typed
  <2>2. FinalStatus(r) # "none"
    BY DEF FinalStatus
  <2>3. ASSUME FinalStatus(r) = "succeeded" PROVE \A s \in Rows : copy[r][s] \in Done
    BY <2>3 DEF FinalStatus
  <2> QED
    BY <1>1, <1>2, <2>1, <2>2, <2>3 DEF Working
<1>9. ASSUME NEW r \in Runs, AskRun(r) PROVE Goal
  BY <1>1, <1>9 DEF AskRun, Goes, Working, Typed
<1>10. ASSUME NEW r \in Runs, RequestLost(r) PROVE Goal
  BY <1>1, <1>10 DEF RequestLost, Goes, Working, Typed
<1>11. ASSUME NEW r \in Runs, reject_run(r) PROVE Goal
  <2>1. run'[r] = "cancelled" /\ does'[r] = "idle"
    BY <1>11 DEF reject_run, Typed
  <2> QED
    BY <1>2, <2>1 DEF Working
<1>12. ASSUME NEW r \in Runs, cancel(r) PROVE Goal
  <2>1. run'[r] = "cancelled" /\ UNCHANGED <<does, copy>>
    BY <1>12 DEF cancel, Typed
  <2>2. \A s \in Steps : step[s] \in Done => step'[s] \in Done
    BY <1>12 DEF cancel, Done, Typed
  <2> QED
    BY <1>1, <1>2, <2>1, <2>2
<1>13. CASE approve_plan \/ DecideApproval \/ UNCHANGED vars
  BY <1>1, <1>13 DEF approve_plan, DecideApproval, vars
<1> QED
  BY <1>4, <1>5, <1>6, <1>7, <1>8, <1>9, <1>10, <1>11, <1>12, <1>13 DEF Next, Execute

\* A plan that is run once and counts as succeeded has no step that is not done, lenient
\* or not, although the run may have been cancelled behind the executor's back.
THEOREM Wholly == Spec => []SuccessIsWhole
<1> DEFINE I == Begun /\ CopyIsTrue /\ Whole
<1>1. Init => I
  BY DEF Init, Begun, CopyIsTrue, Whole, Working
<1>2. Typed /\ JobAtStep /\ I /\ [Next]_vars => I'
  BY BegunStep, WholeStep
<1>3. I => SuccessIsWhole
  BY AloneIsOneRun DEF Whole, SuccessIsWhole
<1> QED
  BY <1>1, <1>2, <1>3, Invariant, PTL DEF Spec

-----------------------------------------------------------------------------
(* The registry of capabilities. *)

\* The handlers that are at a registration, and those that hold the lock of their node.
Busy == {h \in Handlers : Underway(h)}
Locking(h) == Underway(h) /\ ~At(h, "locking")

SearchTyped ==
    search \in [Searches ->
        {Idle} \cup [at : {"embedding"}, candidates : SUBSET Caps, began : 0..MaxReports]
          \cup [at : {"reranking"}, candidates : SUBSET Caps, moved : BOOLEAN, of : 0..MaxReports,
                rows : SUBSET Caps, named : SUBSET Caps]]

FingerprintsTyped ==
    /\ building # None => building[2] \in Nat
    /\ snapshot # None => snapshot.fingerprint[2] \in Nat

\* No registration is newer than the last report.
TimesPast == \A h \in Handlers : Underway(h) => handler[h].time <= reports

\* Every commit has had its report.
CommitsCounted == version + Cardinality(Busy) <= reports /\ latest <= reports

\* A transaction that holds its node's lock replaces what the node has, and what it has merged and
\* has still to merge is its manifest; nobody else holds that lock.
TransactionSound(h) ==
    /\ handler[h].replaced = source[handler[h].node]
    /\ handler[h].offered \cup ToSet(handler[h].todo) = ToSet(handler[h].manifest)
    /\ \A g \in Handlers \ {h} : Locking(g) => handler[g].node # handler[h].node

\* What is not yet derived was dropped, and only what was dropped or offered is written.
RowsTouched(h) ==
    /\ handler[h].stale \subseteq handler[h].replaced
    /\ At(h, "writing") => handler[h].target \in handler[h].stale
    /\ \A c \in Caps : Holds(h, c) => c \in Touched(h)

LockingSound ==
    \A h \in Handlers :
        /\ At(h, "locking") => /\ handler[h].todo = handler[h].manifest /\ handler[h].offered = {}
                               /\ handler[h].stale = {} /\ \A c \in Caps : ~Holds(h, c)
        /\ At(h, "writing") \/ At(h, "committing") => handler[h].todo = <<>>
        /\ Locking(h) => TransactionSound(h) /\ RowsTouched(h)

\* Registrations that take turns: the one under way is newer than every source.
TakingTurns ==
    ~overlapped => \A h \in Handlers : Underway(h) =>
        /\ handler[h].time = reports /\ latest < reports
        /\ \A g \in Handlers : Underway(g) => g = h

\* A fingerprint never runs ahead of the registry.
FingerprintsPast ==
    /\ building # None => building[2] <= latest
    /\ snapshot # None => snapshot.fingerprint[2] <= latest

SnapshotFresh ==
    (~overlapped /\ snapshot # None /\ snapshot.fingerprint[2] = latest)
        => snapshot.counts = ActiveFunctions

RegistryInv ==
    /\ RegistryTypeOK /\ SearchTyped /\ FingerprintsTyped /\ TimesPast /\ CommitsCounted
    /\ LockingSound /\ TakingTurns /\ FingerprintsPast /\ SnapshotFresh
    /\ SourcesFollowReport

LEMMA HandlerIs ==
    ASSUME RegistryTypeOK, NEW h \in Handlers
    PROVE  /\ handler[h] \in Transactions \cup {Idle}
           /\ Underway(h) <=> handler[h] \in Transactions
           /\ Idle \notin Transactions
           /\ MaxHandlers \in Nat /\ MaxReports \in Nat
<1>1. \A t \in Transactions : t.at # "idle"
  BY DEF Transactions
<1>2. Idle.at = "idle"
  BY DEF Idle
<1>. QED BY <1>1, <1>2, BoundsAssumption DEF RegistryTypeOK, Underway

\* One handler moves.
LEMMA HandlerStep ==
    ASSUME RegistryTypeOK, NEW h \in Handlers, NEW t \in Transactions \cup {Idle},
           handler' = [handler EXCEPT ![h] = t]
    PROVE  /\ handler' \in [Handlers -> Transactions \cup {Idle}]
           /\ handler'[h] = t /\ \A g \in Handlers \ {h} : handler'[g] = handler[g]
           /\ \A g \in Handlers \ {h} : /\ Underway(g)' = Underway(g) /\ Locking(g)' = Locking(g)
                                        /\ \A s : At(g, s)' = At(g, s)
                                        /\ \A c : Holds(g, c)' = Holds(g, c)
           /\ Underway(h)' = (t # Idle)
<1>1. /\ handler' \in [Handlers -> Transactions \cup {Idle}]
      /\ handler'[h] = t /\ \A g \in Handlers \ {h} : handler'[g] = handler[g]
  BY DEF RegistryTypeOK
<1>. QED BY <1>1 DEF Underway, Locking, At, Holds

LEMMA BusyCounted ==
    ASSUME RegistryTypeOK
    PROVE  IsFiniteSet(Busy) /\ Cardinality(Busy) \in Nat
<1>1. IsFiniteSet(Handlers)
  BY BoundsAssumption, FS_Interval DEF Handlers
<1>2. Busy \subseteq Handlers
  BY DEF Busy
<1>3. IsFiniteSet(Busy)
  BY <1>1, <1>2, FS_Subset
<1>. QED BY <1>3, FS_CardinalityType

\* A transaction that goes on, and leaves what is committed alone.
LEMMA InnerKeeps ==
    ASSUME RegistryInv, NEW h \in Handlers, Underway(h), NEW t \in Transactions, Step(h, t),
           UNCHANGED <<registry, indexJobs, lookups, reports, overlapped>>,
           t.node = handler[h].node, t.time = handler[h].time,
           t.at # "locking", t.replaced = source[t.node],
           t.offered \cup ToSet(t.todo) = ToSet(t.manifest),
           t.at \in {"writing", "committing"} => t.todo = <<>>,
           t.stale \subseteq t.replaced, t.at = "writing" => t.target \in t.stale,
           \A c \in Caps : t.wrote[c] # "none" => c \in t.replaced \cup t.offered,
           \A g \in Handlers \ {h} : Locking(g) => handler[g].node # t.node
    PROVE  RegistryInv'
<1>0. RegistryTypeOK /\ t # Idle /\ handler' = [handler EXCEPT ![h] = t]
  BY HandlerIs DEF RegistryInv, Step
<1>1. /\ handler' \in [Handlers -> Transactions \cup {Idle}]
      /\ handler'[h] = t /\ \A g \in Handlers \ {h} : handler'[g] = handler[g]
      /\ \A g \in Handlers \ {h} : /\ Underway(g)' = Underway(g) /\ Locking(g)' = Locking(g)
                                   /\ \A s : At(g, s)' = At(g, s)
                                   /\ \A c : Holds(g, c)' = Holds(g, c)
      /\ Underway(h)'
  BY <1>0, HandlerStep
<1>u. /\ UNCHANGED <<source, known, status, indexJob, index, reports, reported, version>>
      /\ UNCHANGED <<latest, cache, search, snapshot, building, outdated, failures, overlapped>>
  BY DEF registry, indexJobs, lookups
<1>2. RegistryTypeOK' /\ SearchTyped'
  BY <1>1, <1>u DEF RegistryInv, RegistryTypeOK, SearchTyped
<1>3. Busy' = Busy
  BY <1>1 DEF Busy
<1>4. CommitsCounted'
  BY <1>3, <1>u DEF RegistryInv, CommitsCounted
<1>5. /\ Locking(h)' /\ \A s : At(h, s)' <=> t.at = s
      /\ \A c : Holds(h, c)' <=> t.wrote[c] # "none"
      /\ Touched(h)' = t.replaced \cup t.offered
  BY <1>1 DEF Locking, At, Holds, Touched
<1>6. LockingSound'
  <2>1. ASSUME NEW g \in Handlers \ {h}
        PROVE  /\ At(g, "locking")' => /\ handler'[g].todo = handler'[g].manifest /\ handler'[g].offered = {}
                                       /\ handler'[g].stale = {} /\ \A c \in Caps : ~Holds(g, c)'
               /\ At(g, "writing")' \/ At(g, "committing")' => handler'[g].todo = <<>>
               /\ Locking(g)' => TransactionSound(g)' /\ RowsTouched(g)'
    <3>1. ASSUME Locking(g) PROVE TransactionSound(g)'
      <4>1. TransactionSound(g)
        BY <3>1 DEF RegistryInv, LockingSound
      <4>2. handler[g].node # t.node
        BY <3>1
      <4>3. \A k \in Handlers \ {g} : Locking(k)' => handler'[k].node # handler[g].node
        BY <1>1, <4>1, <4>2 DEF TransactionSound
      <4>. QED BY <1>1, <1>u, <4>1, <4>3 DEF TransactionSound
    <3>2. ASSUME Locking(g) PROVE RowsTouched(g)'
      BY <1>1, <3>2 DEF RegistryInv, LockingSound, RowsTouched, Touched
    <3>. QED BY <1>1, <3>1, <3>2 DEF RegistryInv, LockingSound
  <2>2. TransactionSound(h)'
    BY <1>1, <1>u DEF TransactionSound
  <2>3. RowsTouched(h)'
    BY <1>1, <1>5 DEF RowsTouched
  <2>. QED BY <1>1, <1>5, <2>1, <2>2, <2>3 DEF LockingSound
<1>7. TakingTurns'
  BY <1>1, <1>u DEF RegistryInv, TakingTurns
<1>8. FingerprintsPast' /\ SnapshotFresh' /\ SourcesFollowReport'
  BY <1>u DEF RegistryInv, FingerprintsPast, SnapshotFresh, ActiveFunctions, SourcesFollowReport
<1>9. TimesPast' /\ FingerprintsTyped'
  BY <1>0, <1>1, <1>u DEF RegistryInv, TimesPast, FingerprintsTyped
<1>. QED BY <1>2, <1>4, <1>6, <1>7, <1>8, <1>9 DEF RegistryInv

\* What a transaction is, spelled out.
LEMMA TransactionIs ==
    ASSUME NEW t \in Transactions
    PROVE  /\ t.node \in Nodes /\ t.time \in 1..MaxReports /\ t.todo \in Seq(Caps)
           /\ t.replaced \in SUBSET Caps /\ t.offered \in SUBSET Caps /\ t.stale \in SUBSET Caps
           /\ t.wrote \in [Caps -> {"none", "active", "inactive"}]
           /\ t.want \in {"active", "inactive"} /\ t.target \in Caps \cup {None}
           /\ t.queued \in SUBSET (Caps \X Documents)
           /\ t.at \in {"locking", "merging", "writing", "committing"}
           /\ ToSet(t.manifest) \in SUBSET Caps
<1>1. \A n \in Nodes : Manifests[n] \subseteq Seq(Caps)
  BY ManifestsAssumption
<1>2. t.manifest \in Seq(Caps)
  BY <1>1 DEF Transactions
<1>3. ToSet(t.manifest) \in SUBSET Caps
  BY <1>2 DEF ToSet
<1>. QED BY <1>3 DEF Transactions

LEMMA DeactivateSourcesKeeps ==
    ASSUME RegistryInv, NEW h \in Handlers, DeactivateSources(h)
    PROVE  RegistryInv'
<1>1. handler[h] \in Transactions /\ Underway(h) /\ handler[h].at = "locking"
  BY HandlerIs DEF RegistryInv, DeactivateSources, At
<1>2. PICK t : t = [handler[h] EXCEPT !.at = "merging", !.replaced = source[handler[h].node],
                                      !.stale = source[handler[h].node]]
  OBVIOUS
<1>3. source[handler[h].node] \in SUBSET Caps
  BY <1>1, TransactionIs DEF RegistryInv, RegistryTypeOK
<1>4. /\ t \in Transactions /\ t.node = handler[h].node /\ t.time = handler[h].time /\ t.at = "merging"
      /\ t.replaced = source[t.node] /\ t.stale = source[t.node] /\ t.offered = handler[h].offered
      /\ t.todo = handler[h].todo /\ t.manifest = handler[h].manifest /\ t.wrote = handler[h].wrote
  BY <1>1, <1>2, <1>3 DEF Transactions
<1>5. /\ handler[h].todo = handler[h].manifest /\ handler[h].offered = {}
      /\ \A c \in Caps : handler[h].wrote[c] = "none"
  BY <1>1 DEF RegistryInv, LockingSound, At, Holds
<1>6. \A g \in Handlers \ {h} : Locking(g) => handler[g].node # t.node
  BY <1>4 DEF DeactivateSources, NodeFree, Locking
<1>7. Step(h, t) /\ UNCHANGED <<registry, indexJobs, lookups, reports, overlapped>>
  BY <1>2 DEF DeactivateSources
<1>. QED BY <1>1, <1>4, <1>5, <1>6, <1>7, InnerKeeps

\* A transaction that holds its node's lock.
LEMMA LockerIs ==
    ASSUME RegistryInv, NEW h \in Handlers, Underway(h), ~At(h, "locking")
    PROVE  /\ handler[h] \in Transactions
           /\ handler[h].replaced = source[handler[h].node]
           /\ handler[h].offered \cup ToSet(handler[h].todo) = ToSet(handler[h].manifest)
           /\ \A g \in Handlers \ {h} : Locking(g) => handler[g].node # handler[h].node
           /\ handler[h].stale \subseteq handler[h].replaced
           /\ At(h, "writing") => handler[h].target \in handler[h].stale
           /\ \A c \in Caps : handler[h].wrote[c] # "none" => c \in handler[h].replaced \cup handler[h].offered
           /\ At(h, "writing") \/ At(h, "committing") => handler[h].todo = <<>>
<1>1. Locking(h) /\ TransactionSound(h) /\ RowsTouched(h)
  BY DEF Locking, RegistryInv, LockingSound
<1>. QED BY <1>1, HandlerIs DEF RegistryInv, LockingSound, TransactionSound, RowsTouched, Holds, Touched

LEMMA UpsertKeeps ==
    ASSUME RegistryInv, NEW h \in Handlers, upsert_source(h)
    PROVE  RegistryInv'
<1>1. Underway(h) /\ ~At(h, "locking") /\ handler[h].at = "merging" /\ handler[h].todo # <<>>
  BY DEF upsert_source, At
<1>2. handler[h] \in Transactions
  BY <1>1, LockerIs
<1>3. PICK c : c = Head(handler[h].todo)
  OBVIOUS
<1>4. PICK t : t = [handler[h] EXCEPT !.todo = Tail(@), !.offered = @ \cup {c},
                                      !.stale = @ \ {c}, !.wrote = [@ EXCEPT ![c] = "active"]]
  OBVIOUS
<1>5. handler[h].todo \in Seq(Caps)
  BY <1>2, TransactionIs
<1>6. /\ c \in Caps /\ Tail(handler[h].todo) \in Seq(Caps)
      /\ ToSet(handler[h].todo) = {c} \cup ToSet(Tail(handler[h].todo))
  <2>1. c \in Caps /\ Tail(handler[h].todo) \in Seq(Caps)
    BY <1>1, <1>3, <1>5
  <2>2. ASSUME NEW s \in Seq(Caps), s # <<>>
        PROVE  ToSet(s) = {Head(s)} \cup ToSet(Tail(s))
    <3>1. /\ Len(s) \in Nat \ {0} /\ DOMAIN s = 1..Len(s) /\ s[1] = Head(s)
          /\ Tail(s) \in Seq(Caps) /\ DOMAIN Tail(s) = 1..(Len(s) - 1)
          /\ \A i \in 1..(Len(s) - 1) : Tail(s)[i] = s[i + 1]
      BY <2>2
    <3>2. \A x : x \in ToSet(s) <=> \E i \in 1..Len(s) : s[i] = x
      BY <3>1 DEF ToSet
    <3>3. \A x : x \in ToSet(Tail(s)) <=> \E i \in 1..(Len(s) - 1) : Tail(s)[i] = x
      BY <3>1 DEF ToSet
    <3>4. ASSUME NEW x \in ToSet(s) PROVE x = Head(s) \/ x \in ToSet(Tail(s))
      <4>1. PICK i \in 1..Len(s) : s[i] = x
        BY <3>2
      <4>2. CASE i = 1
        BY <3>1, <4>1, <4>2
      <4>3. CASE i # 1
        <5>1. i - 1 \in 1..(Len(s) - 1) /\ Tail(s)[i - 1] = x
          BY <3>1, <4>1, <4>3
        <5>. QED BY <3>3, <5>1
      <4>. QED BY <4>2, <4>3
    <3>5. ASSUME NEW x \in ToSet(Tail(s)) PROVE x \in ToSet(s)
      <4>1. PICK i \in 1..(Len(s) - 1) : Tail(s)[i] = x
        BY <3>3
      <4>2. i + 1 \in 1..Len(s) /\ s[i + 1] = x
        BY <3>1, <4>1
      <4>. QED BY <3>2, <4>2
    <3>6. Head(s) \in ToSet(s)
      BY <3>1, <3>2
    <3>. QED BY <3>4, <3>5, <3>6
  <2>. QED BY <1>1, <1>3, <1>5, <2>1, <2>2
<1>7. handler[h].wrote \in [Caps -> {"none", "active", "inactive"}]
  BY <1>2, TransactionIs
<1>8. /\ t \in Transactions /\ t.node = handler[h].node /\ t.time = handler[h].time /\ t.at = "merging"
      /\ t.replaced = handler[h].replaced /\ t.stale = handler[h].stale \ {c}
      /\ t.offered = handler[h].offered \cup {c}
      /\ t.todo = Tail(handler[h].todo) /\ t.manifest = handler[h].manifest
      /\ t.wrote = [handler[h].wrote EXCEPT ![c] = "active"]
  BY <1>1, <1>2, <1>4, <1>6, <1>7 DEF Transactions
<1>9. /\ t.replaced = source[t.node] /\ t.offered \cup ToSet(t.todo) = ToSet(t.manifest)
      /\ t.stale \subseteq t.replaced
      /\ \A g \in Handlers \ {h} : Locking(g) => handler[g].node # t.node
  BY <1>1, <1>6, <1>8, LockerIs
<1>10. \A d \in Caps : t.wrote[d] # "none" => d \in t.replaced \cup t.offered
  BY <1>1, <1>7, <1>8, LockerIs
<1>11. Step(h, t) /\ UNCHANGED <<registry, indexJobs, lookups, reports, overlapped>>
  BY <1>3, <1>4 DEF upsert_source, upsert_definition_row
<1>. QED BY <1>1, <1>8, <1>9, <1>10, <1>11, InnerKeeps

\* A definition whose status follows from the sources needs no write.
LEMMA CheckStatusKeeps ==
    ASSUME RegistryInv, NEW h \in Handlers, CheckStatus(h)
    PROVE  RegistryInv'
<1>1. Underway(h) /\ ~At(h, "locking") /\ handler[h].at = "merging" /\ handler[h].todo = <<>>
  BY DEF CheckStatus, At
<1>2. handler[h] \in Transactions
  BY <1>1, LockerIs
<1>u. UNCHANGED <<registry, indexJobs, lookups, reports, overlapped>>
  BY DEF CheckStatus
<1>3. PICK c \in handler[h].stale :
        \/ Step(h, [handler[h] EXCEPT !.stale = @ \ {c}])
        \/ \E w \in {"active", "inactive"} :
              Step(h, [handler[h] EXCEPT !.at = "writing", !.target = c, !.want = w])
  BY DEF CheckStatus
<1>4. c \in Caps
  BY <1>2, TransactionIs
<1>5. CASE Step(h, [handler[h] EXCEPT !.stale = @ \ {c}])
  <2>1. PICK t : t = [handler[h] EXCEPT !.stale = @ \ {c}]
    OBVIOUS
  <2>2. /\ t \in Transactions /\ t.node = handler[h].node /\ t.time = handler[h].time /\ t.at = "merging"
        /\ t.replaced = handler[h].replaced /\ t.stale = handler[h].stale \ {c}
        /\ t.offered = handler[h].offered /\ t.todo = <<>> /\ handler[h].todo = <<>>
        /\ t.manifest = handler[h].manifest /\ t.wrote = handler[h].wrote
    BY <1>1, <1>2, <2>1 DEF Transactions
  <2>3. /\ t.replaced = source[t.node] /\ t.offered \cup ToSet(t.todo) = ToSet(t.manifest)
        /\ t.stale \subseteq t.replaced
        /\ \A d \in Caps : t.wrote[d] # "none" => d \in t.replaced \cup t.offered
        /\ \A g \in Handlers \ {h} : Locking(g) => handler[g].node # t.node
    BY <1>1, <2>2, LockerIs
  <2>4. Step(h, t)
    BY <1>5, <2>1
  <2>. QED BY <1>1, <1>u, <2>2, <2>3, <2>4, InnerKeeps
<1>6. ASSUME NEW w \in {"active", "inactive"},
             Step(h, [handler[h] EXCEPT !.at = "writing", !.target = c, !.want = w])
      PROVE  RegistryInv'
  <2>1. PICK t : t = [handler[h] EXCEPT !.at = "writing", !.target = c, !.want = w]
    OBVIOUS
  <2>2. /\ t \in Transactions /\ t.node = handler[h].node /\ t.time = handler[h].time /\ t.at = "writing"
        /\ t.replaced = handler[h].replaced /\ t.stale = handler[h].stale /\ t.target = c
        /\ t.offered = handler[h].offered /\ t.todo = <<>> /\ handler[h].todo = <<>>
        /\ t.manifest = handler[h].manifest /\ t.wrote = handler[h].wrote
    BY <1>1, <1>2, <1>4, <2>1 DEF Transactions
  <2>3. /\ t.replaced = source[t.node] /\ t.offered \cup ToSet(t.todo) = ToSet(t.manifest)
        /\ t.stale \subseteq t.replaced
        /\ \A d \in Caps : t.wrote[d] # "none" => d \in t.replaced \cup t.offered
        /\ \A g \in Handlers \ {h} : Locking(g) => handler[g].node # t.node
    BY <1>1, <2>2, LockerIs
  <2>4. Step(h, t)
    BY <1>6, <2>1
  <2>. QED BY <1>1, <1>3, <1>u, <2>2, <2>3, <2>4, InnerKeeps
<1>. QED BY <1>3, <1>5, <1>6

LEMMA WriteStatusKeeps ==
    ASSUME RegistryInv, NEW h \in Handlers, WriteStatus(h)
    PROVE  RegistryInv'
<1>1. Underway(h) /\ ~At(h, "locking") /\ At(h, "writing") /\ handler[h].at = "writing"
  BY DEF WriteStatus, At
<1>2. handler[h] \in Transactions /\ handler[h].todo = <<>>
  BY <1>1, LockerIs
<1>3. PICK c : c = handler[h].target
  OBVIOUS
<1>4. c \in handler[h].stale /\ c \in Caps
  BY <1>1, <1>2, <1>3, LockerIs, TransactionIs
<1>5. PICK t : t = [handler[h] EXCEPT !.at = "merging", !.target = None, !.stale = @ \ {c},
                                  !.wrote = [@ EXCEPT ![c] = handler[h].want]]
  OBVIOUS
<1>6. /\ handler[h].wrote \in [Caps -> {"none", "active", "inactive"}]
      /\ handler[h].want \in {"active", "inactive"}
  BY <1>2, TransactionIs
<1>7. /\ t \in Transactions /\ t.node = handler[h].node /\ t.time = handler[h].time /\ t.at = "merging"
      /\ t.replaced = handler[h].replaced /\ t.stale = handler[h].stale \ {c}
      /\ t.offered = handler[h].offered /\ t.todo = handler[h].todo
      /\ t.manifest = handler[h].manifest
      /\ t.wrote = [handler[h].wrote EXCEPT ![c] = handler[h].want]
  BY <1>2, <1>4, <1>5, <1>6 DEF Transactions
<1>8. /\ t.replaced = source[t.node] /\ t.offered \cup ToSet(t.todo) = ToSet(t.manifest)
      /\ t.stale \subseteq t.replaced
      /\ \A g \in Handlers \ {h} : Locking(g) => handler[g].node # t.node
  BY <1>1, <1>7, LockerIs
<1>9. \A d \in Caps : t.wrote[d] # "none" => d \in t.replaced \cup t.offered
  BY <1>1, <1>4, <1>6, <1>7, LockerIs
<1>10. Step(h, t) /\ UNCHANGED <<registry, indexJobs, lookups, reports, overlapped>>
  BY <1>3, <1>5 DEF WriteStatus
<1>. QED BY <1>1, <1>7, <1>8, <1>9, <1>10, InnerKeeps

LEMMA EnqueueKeeps ==
    ASSUME RegistryInv, NEW h \in Handlers, enqueue_capability_index_jobs(h)
    PROVE  RegistryInv'
<1>1. /\ Underway(h) /\ ~At(h, "locking") /\ handler[h].at = "merging" /\ handler[h].todo = <<>>
      /\ handler[h].stale = {}
  BY DEF enqueue_capability_index_jobs, At
<1>2. handler[h] \in Transactions
  BY <1>1, LockerIs
<1>3. PICK Q : Q = Missing({<<c, OfferingSeen(h, c)>> : c \in Touched(h)})
  OBVIOUS
<1>4. Q \in SUBSET (Caps \X Documents)
  <2>1. Touched(h) \subseteq Caps
    BY <1>2, TransactionIs DEF Touched
  <2>2. ASSUME NEW j \in Q PROVE j \in Caps \X Documents
    <3>1. PICK c \in Touched(h) : j = <<c, OfferingSeen(h, c)>>
      BY <1>3 DEF Missing
    <3>2. j[2] # {}
      BY <1>3 DEF Missing
    <3>3. OfferingSeen(h, c) \in SUBSET Nodes
      BY DEF OfferingSeen
    <3>4. OfferingSeen(h, c) \in Documents
      BY <3>1, <3>2, <3>3 DEF Documents
    <3>. QED BY <2>1, <3>1, <3>4
  <2>. QED BY <2>2
<1>5. PICK t : t = [handler[h] EXCEPT !.at = "committing", !.queued = Q]
  OBVIOUS
<1>6. /\ t \in Transactions /\ t.node = handler[h].node /\ t.time = handler[h].time /\ t.at = "committing"
      /\ t.replaced = handler[h].replaced /\ t.stale = {}
      /\ t.offered = handler[h].offered /\ t.todo = <<>> /\ handler[h].todo = <<>>
      /\ t.manifest = handler[h].manifest /\ t.wrote = handler[h].wrote
  BY <1>1, <1>2, <1>4, <1>5 DEF Transactions
<1>7. /\ t.replaced = source[t.node] /\ t.offered \cup ToSet(t.todo) = ToSet(t.manifest)
      /\ \A d \in Caps : t.wrote[d] # "none" => d \in t.replaced \cup t.offered
      /\ \A g \in Handlers \ {h} : Locking(g) => handler[g].node # t.node
  BY <1>1, <1>6, LockerIs
<1>8. Step(h, t) /\ UNCHANGED <<registry, indexJobs, lookups, reports, overlapped>>
  BY <1>3, <1>5 DEF enqueue_capability_index_jobs
<1>. QED BY <1>1, <1>6, <1>7, <1>8, InnerKeeps

\* A new registration.
Received(n, m) ==
    [at |-> "locking", node |-> n, time |-> reports + 1, manifest |-> m, todo |-> m,
     replaced |-> {}, offered |-> {}, stale |-> {}, target |-> None,
     wrote |-> [c \in Caps |-> "none"], want |-> "active", queued |-> {}]

LEMMA ReceiveKeeps ==
    ASSUME RegistryInv, NEW h \in Handlers, handle_register_capabilities(h)
    PROVE  RegistryInv'
<1>1. PICK n \in Nodes : \E m \in Manifests[n] : handler' = [handler EXCEPT ![h] = Received(n, m)]
  BY DEF handle_register_capabilities, Received
<1>2. PICK m \in Manifests[n] : handler' = [handler EXCEPT ![h] = Received(n, m)]
  BY <1>1
<1>3. PICK t : t = Received(n, m)
  OBVIOUS
<1>u. /\ UNCHANGED <<source, known, status, indexJob, index, reported, version>>
      /\ UNCHANGED <<latest, cache, search, snapshot, building, outdated, failures>>
      /\ reports' = reports + 1 /\ reports < MaxReports /\ ~Underway(h)
      /\ overlapped' = (overlapped \/ \E g \in Handlers : Underway(g))
  BY DEF handle_register_capabilities, registry, indexJobs, lookups
<1>4. RegistryTypeOK /\ reports \in 0..MaxReports /\ MaxReports \in Nat /\ version \in Nat /\ latest \in Nat
  BY BoundsAssumption DEF RegistryInv, RegistryTypeOK
<1>5. t \in Transactions
  <2>1. reports + 1 \in 1..MaxReports
    BY <1>u, <1>4
  <2>2. m \in Seq(Caps) /\ m \in UNION {Manifests[k] : k \in Nodes}
    BY ManifestsAssumption
  <2>3. [c \in Caps |-> "none"] \in [Caps -> {"none", "active", "inactive"}]
    OBVIOUS
  <2>. QED BY <1>3, <2>1, <2>2, <2>3 DEF Received, Transactions
<1>6. t # Idle
  BY <1>3 DEF Received, Idle
<1>7. /\ handler' \in [Handlers -> Transactions \cup {Idle}]
      /\ handler'[h] = t /\ \A g \in Handlers \ {h} : handler'[g] = handler[g]
      /\ \A g \in Handlers \ {h} : /\ Underway(g)' = Underway(g) /\ Locking(g)' = Locking(g)
                                   /\ \A s : At(g, s)' = At(g, s)
                                   /\ \A c : Holds(g, c)' = Holds(g, c)
      /\ Underway(h)'
  BY <1>2, <1>3, <1>4, <1>5, <1>6, HandlerStep
<1>8. RegistryTypeOK' /\ SearchTyped'
  BY <1>u, <1>4, <1>7 DEF RegistryInv, RegistryTypeOK, SearchTyped
<1>9. CommitsCounted'
  <2>1. Busy' = Busy \cup {h} /\ h \notin Busy
    BY <1>u, <1>7 DEF Busy
  <2>2. IsFiniteSet(Busy) /\ Cardinality(Busy) \in Nat
    BY <1>4, BusyCounted
  <2>3. Cardinality(Busy') = Cardinality(Busy) + 1
    BY <2>1, <2>2, FS_AddElement
  <2>. QED BY <1>u, <1>4, <2>2, <2>3 DEF RegistryInv, CommitsCounted
<1>10. /\ ~Locking(h)' /\ ~Locking(h) /\ \A s : At(h, s)' <=> s = "locking"
       /\ \A c \in Caps : ~Holds(h, c)'
  BY <1>u, <1>3, <1>7 DEF Received, Locking, At, Holds
<1>11. LockingSound'
  <2>1. ASSUME NEW g \in Handlers \ {h}
        PROVE  /\ At(g, "locking")' => /\ handler'[g].todo = handler'[g].manifest /\ handler'[g].offered = {}
                                       /\ handler'[g].stale = {} /\ \A c \in Caps : ~Holds(g, c)'
               /\ At(g, "writing")' \/ At(g, "committing")' => handler'[g].todo = <<>>
               /\ Locking(g)' => TransactionSound(g)' /\ RowsTouched(g)'
    <3>1. ASSUME Locking(g) PROVE TransactionSound(g)'
      BY <1>7, <1>u, <1>10, <3>1 DEF RegistryInv, LockingSound, TransactionSound
    <3>2. ASSUME Locking(g) PROVE RowsTouched(g)'
      BY <1>7, <3>2 DEF RegistryInv, LockingSound, RowsTouched, Touched
    <3>. QED BY <1>7, <3>1, <3>2 DEF RegistryInv, LockingSound
  <2>2. /\ handler'[h].todo = handler'[h].manifest /\ handler'[h].offered = {} /\ handler'[h].stale = {}
    BY <1>3, <1>7 DEF Received
  <2>3. ~At(h, "writing")' /\ ~At(h, "committing")'
    BY <1>10
  <2>. QED BY <1>10, <2>1, <2>2, <2>3 DEF LockingSound
<1>12. TakingTurns'
  <2>1. SUFFICES ASSUME ~overlapped' PROVE \A g \in Handlers : Underway(g)' =>
            /\ handler'[g].time = reports' /\ latest' < reports'
            /\ \A k \in Handlers : Underway(k)' => k = g
    BY DEF TakingTurns
  <2>2. \A g \in Handlers : ~Underway(g)
    BY <1>u, <2>1
  <2>3. \A g \in Handlers : Underway(g)' => g = h
    BY <1>7, <2>2
  <2>4. handler'[h].time = reports' /\ latest' < reports'
    BY <1>u, <1>3, <1>4, <1>7 DEF Received, RegistryInv, CommitsCounted
  <2>. QED BY <2>3, <2>4
<1>13. SnapshotFresh'
  BY <1>u DEF RegistryInv, SnapshotFresh, ActiveFunctions
<1>14. FingerprintsPast' /\ SourcesFollowReport'
  BY <1>u DEF RegistryInv, FingerprintsPast, SourcesFollowReport
<1>15. TimesPast' /\ FingerprintsTyped'
  <2>1. handler'[h].time <= reports'
    BY <1>u, <1>3, <1>4, <1>7 DEF Received
  <2>2. \A g \in Handlers \ {h} : Underway(g) => handler[g].time <= reports'
    <3>1. ASSUME NEW g \in Handlers, Underway(g) PROVE handler[g].time \in Nat /\ handler[g].time <= reports
      BY <1>4, <3>1, HandlerIs, TransactionIs DEF RegistryInv, TimesPast
    <3>. QED BY <1>u, <1>4, <3>1
  <2>. QED BY <1>u, <1>7, <2>1, <2>2 DEF RegistryInv, TimesPast, FingerprintsTyped
<1>. QED BY <1>8, <1>9, <1>11, <1>12, <1>13, <1>14, <1>15 DEF RegistryInv

\* A registration that is given up leaves everything as it was.
LEMMA GiveUpKeeps ==
    ASSUME RegistryInv, NEW h \in Handlers, Underway(h), handler' = [handler EXCEPT ![h] = Idle],
           UNCHANGED <<registry, indexJobs, lookups, reports, overlapped>>
    PROVE  RegistryInv'
<1>u. /\ UNCHANGED <<source, known, status, indexJob, index, reports, reported, version>>
      /\ UNCHANGED <<latest, cache, search, snapshot, building, outdated, failures, overlapped>>
  BY DEF registry, indexJobs, lookups
<1>1. RegistryTypeOK /\ reports \in Nat /\ version \in Nat
  BY BoundsAssumption DEF RegistryInv, RegistryTypeOK
<1>2. /\ handler' \in [Handlers -> Transactions \cup {Idle}]
      /\ handler'[h] = Idle /\ \A g \in Handlers \ {h} : handler'[g] = handler[g]
      /\ \A g \in Handlers \ {h} : /\ Underway(g)' = Underway(g) /\ Locking(g)' = Locking(g)
                                   /\ \A s : At(g, s)' = At(g, s)
                                   /\ \A c : Holds(g, c)' = Holds(g, c)
      /\ ~Underway(h)'
  BY <1>1, HandlerStep
<1>3. RegistryTypeOK' /\ SearchTyped'
  BY <1>u, <1>1, <1>2 DEF RegistryInv, RegistryTypeOK, SearchTyped
<1>4. CommitsCounted'
  <2>1. Busy' \subseteq Busy
    BY <1>2 DEF Busy
  <2>2. IsFiniteSet(Busy) /\ Cardinality(Busy) \in Nat
    BY <1>1, BusyCounted
  <2>3. Cardinality(Busy') \in Nat /\ Cardinality(Busy') <= Cardinality(Busy)
    BY <2>1, <2>2, FS_Subset, FS_CardinalityType
  <2>. QED BY <1>u, <1>1, <2>2, <2>3 DEF RegistryInv, CommitsCounted
<1>5. ~Locking(h)' /\ \A s : ~At(h, s)'
  BY <1>2 DEF Locking, At
<1>6. LockingSound'
  <2>1. ASSUME NEW g \in Handlers \ {h}
        PROVE  /\ At(g, "locking")' => /\ handler'[g].todo = handler'[g].manifest /\ handler'[g].offered = {}
                                       /\ handler'[g].stale = {} /\ \A c \in Caps : ~Holds(g, c)'
               /\ At(g, "writing")' \/ At(g, "committing")' => handler'[g].todo = <<>>
               /\ Locking(g)' => TransactionSound(g)' /\ RowsTouched(g)'
    <3>1. ASSUME Locking(g) PROVE TransactionSound(g)'
      BY <1>2, <1>u, <1>5, <3>1 DEF RegistryInv, LockingSound, TransactionSound
    <3>2. ASSUME Locking(g) PROVE RowsTouched(g)'
      BY <1>2, <3>2 DEF RegistryInv, LockingSound, RowsTouched, Touched
    <3>. QED BY <1>2, <3>1, <3>2 DEF RegistryInv, LockingSound
  <2>. QED BY <1>5, <2>1 DEF LockingSound
<1>7. TakingTurns'
  BY <1>2, <1>u DEF RegistryInv, TakingTurns
<1>8. FingerprintsPast' /\ SnapshotFresh' /\ SourcesFollowReport'
  BY <1>u DEF RegistryInv, FingerprintsPast, SnapshotFresh, ActiveFunctions, SourcesFollowReport
<1>9. TimesPast' /\ FingerprintsTyped'
  BY <1>2, <1>u DEF RegistryInv, TimesPast, FingerprintsTyped
<1>. QED BY <1>3, <1>4, <1>6, <1>7, <1>8, <1>9 DEF RegistryInv

LEMMA CommitKeeps ==
    ASSUME RegistryInv, NEW h \in Handlers, Commit(h)
    PROVE  RegistryInv'
<1>u. /\ handler' = [handler EXCEPT ![h] = Idle]
      /\ source' = Replaced(h)
      /\ reported' = [reported EXCEPT ![handler[h].node] = ToSet(handler[h].manifest)]
      /\ known' = known \cup ({handler[h].node} \X handler[h].offered)
      /\ status' = [c \in Caps |-> IF Holds(h, c) THEN handler[h].wrote[c] ELSE status[c]]
      /\ version' = version + 1
      /\ latest' = IF Touched(h) # {} /\ handler[h].time > latest THEN handler[h].time ELSE latest
      /\ indexJob' = [j \in DOMAIN indexJob |-> IF j \in handler[h].queued THEN "queued" ELSE indexJob[j]]
      /\ UNCHANGED <<index, failures, cache, search, snapshot, building, outdated, reports, overlapped>>
  BY DEF Commit, Queue, lookups
<1>1. /\ RegistryTypeOK /\ reports \in Nat /\ version \in Nat /\ latest \in 0..MaxReports
      /\ MaxReports \in Nat /\ reports \in 0..MaxReports
  BY BoundsAssumption DEF RegistryInv, RegistryTypeOK
<1>2. Underway(h) /\ At(h, "committing") /\ ~At(h, "locking") /\ handler[h].at = "committing"
  BY DEF Commit, At
<1>3. /\ handler[h] \in Transactions /\ handler[h].replaced = source[handler[h].node]
      /\ handler[h].offered = ToSet(handler[h].manifest)
      /\ \A g \in Handlers \ {h} : Locking(g) => handler[g].node # handler[h].node
      /\ \A c \in Caps : handler[h].wrote[c] # "none" => c \in Touched(h)
  <2>1. ToSet(handler[h].todo) = {}
    BY <1>2, LockerIs DEF ToSet
  <2>. QED BY <1>2, <2>1, LockerIs DEF Touched
<1>4. /\ handler' \in [Handlers -> Transactions \cup {Idle}]
      /\ handler'[h] = Idle /\ \A g \in Handlers \ {h} : handler'[g] = handler[g]
      /\ \A g \in Handlers \ {h} : /\ Underway(g)' = Underway(g) /\ Locking(g)' = Locking(g)
                                   /\ \A s : At(g, s)' = At(g, s)
                                   /\ \A c : Holds(g, c)' = Holds(g, c)
      /\ ~Underway(h)'
  BY <1>u, <1>1, HandlerStep
<1>5. /\ handler[h].node \in Nodes /\ handler[h].time \in 1..MaxReports
      /\ handler[h].offered \in SUBSET Caps
      /\ handler[h].wrote \in [Caps -> {"none", "active", "inactive"}]
      /\ handler[h].queued \in SUBSET (Caps \X Documents)
  BY <1>3, TransactionIs
<1>6. source' = [source EXCEPT ![handler[h].node] = ToSet(handler[h].manifest)]
  BY <1>u, <1>1, <1>3, <1>5 DEF Replaced, RegistryTypeOK
<1>7. CommitsCounted' /\ version' \in 0..MaxReports /\ latest' \in 0..MaxReports
  <2>1. Busy' = Busy \ {h} /\ h \in Busy
    BY <1>2, <1>4 DEF Busy
  <2>2. IsFiniteSet(Busy) /\ Cardinality(Busy) \in Nat
    BY <1>1, BusyCounted
  <2>3. Cardinality(Busy') = Cardinality(Busy) - 1
    BY <2>1, <2>2, FS_RemoveElement
  <2>4. Cardinality(Busy) >= 1
    BY <2>1, <2>2, FS_EmptySet, FS_RemoveElement, FS_CardinalityType, FS_Subset
  <2>5. handler[h].time <= reports
    BY <1>2 DEF RegistryInv, TimesPast
  <2>6. version + Cardinality(Busy) <= reports /\ latest <= reports
    BY DEF RegistryInv, CommitsCounted
  <2>7. version' + Cardinality(Busy') <= reports'
    BY <1>u, <1>1, <2>2, <2>3, <2>6
  <2>8. latest' <= reports' /\ latest' \in 0..MaxReports
    BY <1>u, <1>1, <1>5, <2>5, <2>6
  <2>. QED BY <1>u, <1>1, <2>2, <2>4, <2>6, <2>7, <2>8 DEF CommitsCounted
<1>8. RegistryTypeOK'
  <2>1. source' \in [Nodes -> SUBSET Caps] /\ reported' \in [Nodes -> SUBSET Caps]
    BY <1>u, <1>1, <1>3, <1>5, <1>6 DEF RegistryTypeOK
  <2>2. known' \subseteq Nodes \X Caps
    BY <1>u, <1>1, <1>5 DEF RegistryTypeOK
  <2>3. status' \in [Caps -> {"none", "active", "inactive"}]
    BY <1>u, <1>1, <1>5 DEF RegistryTypeOK
  <2>4. indexJob' \in [Caps \X Documents -> {"none", "queued", "failed", "succeeded"}]
    BY <1>u, <1>1 DEF RegistryTypeOK
  <2>. QED BY <1>u, <1>1, <1>4, <1>7, <2>1, <2>2, <2>3, <2>4 DEF RegistryTypeOK
<1>9. SourcesFollowReport'
  BY <1>u, <1>6 DEF RegistryInv, SourcesFollowReport
<1>10. SearchTyped'
  BY <1>u DEF RegistryInv, SearchTyped
<1>11. ~Locking(h)' /\ \A s : ~At(h, s)'
  BY <1>4 DEF Locking, At
<1>12. LockingSound'
  <2>1. ASSUME NEW g \in Handlers \ {h}
        PROVE  /\ At(g, "locking")' => /\ handler'[g].todo = handler'[g].manifest /\ handler'[g].offered = {}
                                       /\ handler'[g].stale = {} /\ \A c \in Caps : ~Holds(g, c)'
               /\ At(g, "writing")' \/ At(g, "committing")' => handler'[g].todo = <<>>
               /\ Locking(g)' => TransactionSound(g)' /\ RowsTouched(g)'
    <3>1. ASSUME Locking(g) PROVE TransactionSound(g)'
      <4>1. TransactionSound(g)
        BY <3>1 DEF RegistryInv, LockingSound
      <4>2. source'[handler[g].node] = source[handler[g].node]
        <5>1. handler[g].node # handler[h].node
          BY <1>3, <3>1
        <5>2. handler[g].node \in Nodes
          BY <3>1, <1>1, HandlerIs, TransactionIs DEF Locking
        <5>. QED BY <1>1, <1>6, <5>1, <5>2 DEF RegistryTypeOK
      <4>. QED BY <1>4, <1>11, <4>1, <4>2 DEF TransactionSound
    <3>2. ASSUME Locking(g) PROVE RowsTouched(g)'
      BY <1>4, <3>2 DEF RegistryInv, LockingSound, RowsTouched, Touched
    <3>. QED BY <1>4, <3>1, <3>2 DEF RegistryInv, LockingSound
  <2>. QED BY <1>11, <2>1 DEF LockingSound
<1>13. TakingTurns'
  <2>1. ASSUME ~overlapped PROVE \A g \in Handlers : ~Underway(g)'
    <3>1. \A g \in Handlers : Underway(g) => g = h
      BY <1>2, <2>1 DEF RegistryInv, TakingTurns
    <3>. QED BY <1>4, <3>1
  <2>. QED BY <1>u, <2>1 DEF TakingTurns
<1>14. FingerprintsPast' /\ SnapshotFresh'
  <2>1. latest <= latest'
    BY <1>u, <1>1, <1>5
  <2>2. FingerprintsPast'
    BY <1>u, <1>1, <1>7, <2>1 DEF RegistryInv, FingerprintsPast, FingerprintsTyped
  <2>3. ASSUME ~overlapped, snapshot # None, snapshot.fingerprint[2] = latest'
        PROVE  snapshot.counts = ActiveFunctions'
    <3>1. snapshot.fingerprint[2] <= latest /\ snapshot.fingerprint[2] \in Nat
      BY <2>3 DEF RegistryInv, FingerprintsPast, FingerprintsTyped
    <3>2. latest' = latest
      BY <1>1, <1>7, <2>1, <2>3, <3>1
    <3>3. Touched(h) = {}
      <4>1. handler[h].time > latest
        BY <1>1, <1>2, <1>5, <2>3 DEF RegistryInv, TakingTurns
      <4>. QED BY <1>u, <1>1, <1>5, <3>2, <4>1
    <3>4. source' = source
      <4>1. handler[h].replaced = {} /\ handler[h].offered = {}
        BY <3>3 DEF Touched
      <4>2. source[handler[h].node] = ToSet(handler[h].manifest)
        BY <1>3, <4>1
      <4>. QED BY <1>1, <1>5, <1>6, <4>2 DEF RegistryTypeOK
    <3>5. status' = status
      BY <1>u, <1>1, <1>3, <3>3 DEF Holds, RegistryTypeOK
    <3>6. snapshot.counts = ActiveFunctions
      BY <2>3, <3>2 DEF RegistryInv, SnapshotFresh
    <3>. QED BY <3>4, <3>5, <3>6 DEF ActiveFunctions
  <2>. QED BY <1>u, <2>2, <2>3 DEF SnapshotFresh
<1>15. TimesPast'
  BY <1>u, <1>4 DEF RegistryInv, TimesPast
<1>16. FingerprintsTyped'
  BY <1>u DEF RegistryInv, FingerprintsTyped
<1>. QED BY <1>7, <1>8, <1>9, <1>10, <1>12, <1>13, <1>14, <1>15, <1>16 DEF RegistryInv

\* Only a transaction that waits is ended.
LEMMA DeadlockedUnderway ==
    ASSUME NEW h \in Handlers, Deadlock(h)
    PROVE  Underway(h)
<1>1. PICK H \in SUBSET Handlers : h \in H /\ \A g \in H : \E k \in H \ {g} : WaitsFor(g, k)
  BY DEF Deadlock
<1>2. PICK k \in H : WaitsFor(h, k)
  BY <1>1
<1>3. Wanted(h) # {}
  BY <1>2 DEF WaitsFor
<1>4. At(h, "merging") \/ At(h, "writing")
  BY <1>3 DEF Wanted
<1>. QED BY <1>4 DEF At

\* A registration is left, and the registry with it.
LEMMA RegisterKeeps ==
    ASSUME RegistryInv, NEW h \in Handlers, Register(h)
    PROVE  RegistryInv'
<1>1. CASE Refuse(h)
  BY <1>1, GiveUpKeeps DEF Refuse, At
<1>2. CASE Deadlock(h)
  <2>1. Underway(h)
    BY <1>2, DeadlockedUnderway
  <2>. QED BY <1>2, <2>1, GiveUpKeeps DEF Deadlock
<1>. QED BY <1>1, <1>2, DeactivateSourcesKeeps, UpsertKeeps, CheckStatusKeeps, WriteStatusKeeps,
            EnqueueKeeps, CommitKeeps DEF Register

\* What the handlers' part of the invariant reads is left alone.
LEMMA LookupKeeps ==
    ASSUME RegistryInv, UNCHANGED <<registry, handler, reports, overlapped>>,
           RegistryTypeOK', SearchTyped', FingerprintsTyped', FingerprintsPast', SnapshotFresh'
    PROVE  RegistryInv'
<1>u. UNCHANGED <<source, known, status, reported, version, latest, handler, reports, overlapped>>
  BY DEF registry
<1>1. Busy' = Busy /\ \A h \in Handlers : /\ Underway(h)' = Underway(h) /\ Locking(h)' = Locking(h)
                                           /\ \A s : At(h, s)' = At(h, s)
                                           /\ \A c : Holds(h, c)' = Holds(h, c)
  BY <1>u DEF Busy, Underway, Locking, At, Holds
<1>2. CommitsCounted' /\ TimesPast'
  BY <1>u, <1>1 DEF RegistryInv, CommitsCounted, TimesPast
<1>3. LockingSound'
  BY <1>u, <1>1 DEF RegistryInv, LockingSound, TransactionSound, RowsTouched, Touched
<1>4. TakingTurns'
  BY <1>u, <1>1 DEF RegistryInv, TakingTurns
<1>5. SourcesFollowReport'
  BY <1>u DEF RegistryInv, SourcesFollowReport
<1>. QED BY <1>2, <1>3, <1>4, <1>5 DEF RegistryInv

LEMMA IndexJobsFinite ==
    ASSUME RegistryTypeOK, NEW F \in SUBSET Unfinished
    PROVE  Cardinality(F) \in Nat
<1>1. IsFiniteSet(SUBSET Nodes)
  BY FiniteAssumption, FS_SUBSET
<1>2. IsFiniteSet(Documents) /\ IsFiniteSet(Caps)
  BY <1>1, FiniteAssumption, FS_Subset DEF Documents
<1>3. IsFiniteSet(Caps \X Documents)
  BY <1>2, FS_Product
<1>4. F \subseteq Caps \X Documents
  BY DEF Unfinished, RegistryTypeOK
<1>. QED BY <1>3, <1>4, FS_Subset, FS_CardinalityType

LEMMA IndexJobsKeep ==
    ASSUME RegistryInv, run_capability_index_jobs_once
    PROVE  RegistryInv'
<1>u. /\ UNCHANGED <<source, known, status, reported, version, latest, handler, reports>>
      /\ UNCHANGED <<cache, search, snapshot, building, outdated, overlapped>>
  BY DEF run_capability_index_jobs_once, registry, lookups
<1>1. PICK B \in Batches : \E F \in SUBSET B :
        LET done == B \ F IN
        /\ failures + Cardinality(F) <= MaxFailures
        /\ failures' = failures + Cardinality(F)
        /\ indexJob' = [j \in DOMAIN indexJob |-> IF j \in F THEN "failed"
                          ELSE IF j \in done THEN "succeeded" ELSE indexJob[j]]
        /\ \E last \in [{j[1] : j \in done} -> Documents] :
              /\ \A c \in DOMAIN last : <<c, last[c]>> \in done
              /\ index' = [c \in Caps |-> IF c \in DOMAIN last THEN last[c] ELSE index[c]]
  BY Zenon DEF run_capability_index_jobs_once
<1>a. PICK F \in SUBSET B :
        /\ failures + Cardinality(F) <= MaxFailures
        /\ failures' = failures + Cardinality(F)
        /\ indexJob' = [j \in DOMAIN indexJob |-> IF j \in F THEN "failed"
                          ELSE IF j \in B \ F THEN "succeeded" ELSE indexJob[j]]
        /\ \E last \in [{j[1] : j \in B \ F} -> Documents] :
              /\ \A c \in DOMAIN last : <<c, last[c]>> \in B \ F
              /\ index' = [c \in Caps |-> IF c \in DOMAIN last THEN last[c] ELSE index[c]]
  BY <1>1, Zenon
<1>b. F \in SUBSET Unfinished
  BY <1>1 DEF Batches
<1>2. PICK last \in [{j[1] : j \in B \ F} -> Documents] :
        index' = [c \in Caps |-> IF c \in DOMAIN last THEN last[c] ELSE index[c]]
  BY <1>a
<1>3. RegistryTypeOK
  BY DEF RegistryInv
<1>4. \A c \in Caps : index'[c] \in {None} \cup Documents /\ (index[c] # None => index'[c] # None)
  <2>1. \A d \in Documents : d # None
    BY NoneAssumption DEF Documents
  <2>2. \A c \in DOMAIN last : last[c] \in Documents
    BY <1>2
  <2>. QED BY <1>2, <1>3, <2>1, <2>2 DEF RegistryTypeOK
<1>5. failures' \in 0..MaxFailures
  BY <1>3, <1>a, <1>b, IndexJobsFinite DEF RegistryTypeOK
<1>6. indexJob' \in [Caps \X Documents -> {"none", "queued", "failed", "succeeded"}]
  BY <1>3, <1>a DEF RegistryTypeOK
<1>7. RegistryTypeOK'
  BY <1>u, <1>2, <1>3, <1>4, <1>5, <1>6 DEF RegistryTypeOK
<1>8. SearchTyped'
  BY <1>u DEF RegistryInv, SearchTyped
<1>9. FingerprintsTyped' /\ FingerprintsPast' /\ SnapshotFresh'
  BY <1>u DEF RegistryInv, FingerprintsTyped, FingerprintsPast, SnapshotFresh, ActiveFunctions
<1>. QED BY <1>u, <1>7, <1>8, <1>9, LookupKeeps DEF registry

\* A search under way names capabilities.
LEMMA SearchIs ==
    ASSUME SearchTyped, NEW q \in Searches, search[q].at # "idle"
    PROVE  search[q] # Idle /\ search[q].candidates \in SUBSET Caps
BY DEF SearchTyped, Idle

LEMMA SearchKeeps ==
    ASSUME RegistryInv, NEW q \in Searches, search_capability_rag(q)
    PROVE  RegistryInv'
<1>u. /\ UNCHANGED <<source, known, status, reported, version, latest, handler, reports>>
      /\ UNCHANGED <<index, failures, cache, snapshot, building, outdated, overlapped>>
  BY DEF search_capability_rag, registry
<1>1. FingerprintsTyped' /\ FingerprintsPast' /\ SnapshotFresh'
  BY <1>u DEF RegistryInv, FingerprintsTyped, FingerprintsPast, SnapshotFresh, ActiveFunctions
<1>2. CASE Unindexed # {} /\ enqueue_missing_capability_indexes /\ UNCHANGED search
  <2>1. indexJob' \in [Caps \X Documents -> {"none", "queued", "failed", "succeeded"}]
    BY <1>2 DEF enqueue_missing_capability_indexes, Queue, RegistryInv, RegistryTypeOK
  <2>2. RegistryTypeOK' /\ SearchTyped'
    BY <1>u, <1>2, <2>1 DEF RegistryInv, RegistryTypeOK, SearchTyped
  <2>. QED BY <1>u, <1>1, <2>2, LookupKeeps DEF registry
<1>3. CASE /\ Unindexed = {} /\ UNCHANGED indexJob
           /\ search' = [search EXCEPT ![q] = [at |-> "embedding", candidates |-> Candidates,
                                                began |-> version]]
  <2>1. Candidates \in SUBSET Caps /\ version \in 0..MaxReports
    BY DEF Candidates, RegistryInv, RegistryTypeOK
  <2>2. RegistryTypeOK'
    BY <1>u, <1>3 DEF RegistryInv, RegistryTypeOK
  <2>3. SearchTyped'
    BY <1>3, <2>1 DEF RegistryInv, SearchTyped
  <2>. QED BY <1>u, <1>1, <2>2, <2>3, LookupKeeps DEF registry
<1>. QED BY <1>2, <1>3 DEF search_capability_rag

LEMMA RetrieveKeeps ==
    ASSUME RegistryInv, NEW q \in Searches, cached_retrieval_candidates(q)
    PROVE  RegistryInv'
<1>u. /\ UNCHANGED <<source, known, status, reported, version, latest, handler, reports>>
      /\ UNCHANGED <<indexJob, index, failures, cache, snapshot, building, overlapped>>
  BY DEF cached_retrieval_candidates, registry, indexJobs
<1>1. /\ version \in 0..MaxReports /\ RegistryTypeOK /\ SearchTyped
  BY DEF RegistryInv, RegistryTypeOK
<1>2. search[q].at = "embedding" /\ search[q] # Idle /\ search[q].candidates \in SUBSET Caps
  BY <1>1, SearchIs DEF cached_retrieval_candidates
<1>3. PICK rows \in SUBSET Caps :
        search' = [search EXCEPT ![q] = [at |-> "reranking", candidates |-> search[q].candidates,
                     moved |-> version # search[q].began, of |-> version, rows |-> rows,
                     named |-> Matches(rows, search[q].candidates)]]
  <2>1. cache[version] # None => cache[version] \in SUBSET Caps
    BY <1>1 DEF RegistryTypeOK
  <2>2. Rankings(search[q].candidates) \subseteq SUBSET Caps
    BY <1>2 DEF Rankings
  <2>. QED BY <2>1, <2>2 DEF cached_retrieval_candidates, RegistryVersion
<1>a. Matches(rows, search[q].candidates) \in SUBSET Caps /\ (version # search[q].began) \in BOOLEAN
  BY <1>2 DEF Matches
<1>b. outdated' \subseteq 0..MaxReports
  BY <1>1 DEF cached_retrieval_candidates, RegistryVersion, RegistryTypeOK
<1>4. RegistryTypeOK'
  BY <1>u, <1>1, <1>b DEF RegistryTypeOK
<1>5. SearchTyped'
  BY <1>1, <1>2, <1>3, <1>a DEF SearchTyped
<1>8. FingerprintsTyped' /\ FingerprintsPast' /\ SnapshotFresh'
  BY <1>u DEF RegistryInv, FingerprintsTyped, FingerprintsPast, SnapshotFresh, ActiveFunctions
<1>. QED BY <1>u, <1>4, <1>5, <1>8, LookupKeeps DEF registry

LEMMA AnswerKeeps ==
    ASSUME RegistryInv, NEW q \in Searches, AnswerSearch(q)
    PROVE  RegistryInv'
<1>u. /\ UNCHANGED <<source, known, status, reported, version, latest, handler, reports>>
      /\ UNCHANGED <<indexJob, index, failures, snapshot, building, outdated, overlapped>>
      /\ search' = [search EXCEPT ![q] = Idle] /\ search[q].at = "reranking"
  BY DEF AnswerSearch, registry, indexJobs
<1>1. RegistryTypeOK /\ SearchTyped
  BY DEF RegistryInv
<1>2. search[q].rows \in SUBSET Caps
  <2>1. search[q].at # "embedding" /\ search[q].at # "idle"
    BY <1>u
  <2>. QED BY <1>1, <2>1 DEF SearchTyped, Idle
<1>3. cache' \in [0..MaxReports -> {None} \cup SUBSET Caps]
  BY <1>1, <1>2 DEF AnswerSearch, RegistryTypeOK
<1>4. RegistryTypeOK'
  BY <1>u, <1>1, <1>3 DEF RegistryTypeOK
<1>5. SearchTyped'
  BY <1>u, <1>1 DEF SearchTyped
<1>8. FingerprintsTyped' /\ FingerprintsPast' /\ SnapshotFresh'
  BY <1>u DEF RegistryInv, FingerprintsTyped, FingerprintsPast, SnapshotFresh, ActiveFunctions
<1>. QED BY <1>u, <1>4, <1>5, <1>8, LookupKeeps DEF registry

LEMMA ContextKeeps ==
    ASSUME RegistryInv, build_capability_context \/ store_snapshot
    PROVE  RegistryInv'
<1>u. /\ UNCHANGED <<source, known, status, reported, version, latest, handler, reports>>
      /\ UNCHANGED <<indexJob, index, failures, cache, search, outdated, overlapped>>
  BY DEF build_capability_context, store_snapshot, registry, indexJobs
<1>1. RegistryTypeOK' /\ SearchTyped'
  BY <1>u DEF RegistryInv, RegistryTypeOK, SearchTyped
<1>2. latest \in Nat
  BY BoundsAssumption DEF RegistryInv, RegistryTypeOK
<1>3. CASE build_capability_context
  <2>1. building' = <<Cardinality(known), latest>> /\ snapshot' = snapshot
    BY <1>3 DEF build_capability_context, Fingerprint
  <2>2. FingerprintsTyped' /\ FingerprintsPast' /\ SnapshotFresh'
    BY <1>u, <1>2, <2>1 DEF RegistryInv, FingerprintsTyped, FingerprintsPast, SnapshotFresh, ActiveFunctions
  <2>. QED BY <1>u, <1>1, <2>2, LookupKeeps DEF registry
<1>4. CASE store_snapshot
  <2>1. /\ building # None /\ building' = None
        /\ snapshot' = [fingerprint |-> building, counts |-> ActiveFunctions]
    BY <1>4 DEF store_snapshot
  <2>2. FingerprintsTyped' /\ FingerprintsPast' /\ SnapshotFresh'
    BY <1>u, <2>1 DEF RegistryInv, FingerprintsTyped, FingerprintsPast, SnapshotFresh, ActiveFunctions
  <2>. QED BY <1>u, <1>1, <2>2, LookupKeeps DEF registry
<1>. QED BY <1>3, <1>4

LEMMA RegistryStarts == RegistryInit => RegistryInv
<1>. SUFFICES ASSUME RegistryInit PROVE RegistryInv
  OBVIOUS
<1>1. \A h \in Handlers : handler[h] = Idle /\ ~Underway(h) /\ ~Locking(h) /\ \A s : ~At(h, s)
  BY DEF RegistryInit, Underway, Locking, At
<1>2. RegistryTypeOK
  <2>1. source \in [Nodes -> SUBSET Caps] /\ reported \in [Nodes -> SUBSET Caps]
    BY RegisteredAssumption DEF RegistryInit
  <2>2. /\ known \subseteq Nodes \X Caps
        /\ status \in [Caps -> {"none", "active", "inactive"}]
        /\ indexJob \in [Caps \X Documents -> {"none", "queued", "failed", "succeeded"}]
    BY DEF RegistryInit
  <2>3. index \in [Caps -> {None} \cup Documents]
    <3>1. \A c \in Caps : {n \in Nodes : c \in Registered[n]} # {}
                            => {n \in Nodes : c \in Registered[n]} \in Documents
      BY DEF Documents
    <3>. QED BY <3>1 DEF RegistryInit
  <2>4. handler \in [Handlers -> Transactions \cup {Idle}] /\ overlapped \in BOOLEAN
    BY DEF RegistryInit
  <2>5. /\ reports \in 0..MaxReports /\ version \in 0..MaxReports /\ latest \in 0..MaxReports
        /\ failures \in 0..MaxFailures /\ outdated \subseteq 0..MaxReports
    BY BoundsAssumption DEF RegistryInit
  <2>6. cache \in [0..MaxReports -> {None} \cup SUBSET Caps]
    BY DEF RegistryInit
  <2>. QED BY <2>1, <2>2, <2>3, <2>4, <2>5, <2>6 DEF RegistryTypeOK
<1>3. Busy = {}
  BY <1>1 DEF Busy
<1>4. CommitsCounted
  BY <1>3, FS_EmptySet DEF RegistryInit, CommitsCounted
<1>5. SearchTyped /\ FingerprintsTyped /\ FingerprintsPast /\ SnapshotFresh
  BY DEF RegistryInit, SearchTyped, FingerprintsTyped, FingerprintsPast, SnapshotFresh
<1>6. TimesPast /\ LockingSound /\ TakingTurns
  BY <1>1 DEF TimesPast, LockingSound, TakingTurns
<1>7. SourcesFollowReport
  BY DEF RegistryInit, SourcesFollowReport
<1>. QED BY <1>2, <1>4, <1>5, <1>6, <1>7 DEF RegistryInv

LEMMA RegistryKeeps == RegistryInv /\ [RegistryNext]_registryVars => RegistryInv'
<1>. SUFFICES ASSUME RegistryInv, [RegistryNext]_registryVars PROVE RegistryInv'
  OBVIOUS
<1>1. CASE RegistryNext
  BY <1>1, ReceiveKeeps, RegisterKeeps, IndexJobsKeep, SearchKeeps, RetrieveKeeps, AnswerKeeps,
     ContextKeeps DEF RegistryNext
<1>2. CASE UNCHANGED registryVars
  <2>1. /\ UNCHANGED <<registry, handler, reports, overlapped>>
        /\ UNCHANGED <<source, known, status, version, latest, reported, indexJob, index>>
        /\ UNCHANGED <<failures, cache, search, snapshot, building, outdated>>
    BY <1>2 DEF registryVars, registry
  <2>2. RegistryTypeOK' /\ SearchTyped'
    BY <2>1 DEF RegistryInv, RegistryTypeOK, SearchTyped
  <2>3. FingerprintsTyped' /\ FingerprintsPast' /\ SnapshotFresh'
    BY <2>1 DEF RegistryInv, FingerprintsTyped, FingerprintsPast, SnapshotFresh, ActiveFunctions
  <2>. QED BY <2>1, <2>2, <2>3, LookupKeeps
<1>. QED BY <1>1, <1>2

THEOREM RegistryInvariant == RegistrySpec => []RegistryInv
BY RegistryStarts, RegistryKeeps, PTL DEF RegistrySpec

\* The variables of the registry keep their types.
THEOREM RegistryTypeCorrect == RegistrySpec => []RegistryTypeOK
<1>1. RegistryInv => RegistryTypeOK
  BY DEF RegistryInv
<1>. QED BY <1>1, RegistryInvariant, PTL

\* SourcesFollowReport: registrations of one node take turns on its lock, so that what a commit
\* replaces is all the node has, and what it puts there is its whole manifest.
THEOREM ReportReplaces == RegistrySpec => []SourcesFollowReport
<1>1. RegistryInv => SourcesFollowReport
  BY DEF RegistryInv
<1>. QED BY <1>1, RegistryInvariant, PTL

\* SnapshotIsCurrent: without overlap a commit that changes a row is newer than every source, so
\* that the fingerprint of a context that counted other rows is never seen again.
THEOREM ContextIsCurrent == RegistrySpec => []SnapshotIsCurrent
<1>1. RegistryInv => SnapshotIsCurrent
  <2>. SUFFICES ASSUME RegistryInv, ~overlapped, snapshot # None, snapshot.fingerprint = Fingerprint
                PROVE  snapshot.counts = ActiveFunctions
    BY DEF SnapshotIsCurrent
  <2>1. snapshot.fingerprint[2] = latest
    BY DEF Fingerprint
  <2>. QED BY <2>1 DEF RegistryInv, SnapshotFresh
<1>. QED BY <1>1, RegistryInvariant, PTL

\* What is kept for the registry's version ranks what the registry offers, and so does what a
\* search that the registry stood still for has, if no search ranked older candidates for it.
RankingsFit ==
    /\ \A v \in 0..MaxReports : v > version => cache[v] = None
    /\ cache[version] # None /\ version \notin outdated => cache[version] \in Rankings(Candidates)
    /\ \A q \in Searches : search[q].at = "embedding" =>
          /\ search[q].began <= version
          /\ search[q].began = version => search[q].candidates = Candidates
    /\ \A q \in Searches : search[q].at = "reranking" =>
          LET s == search[q] IN
          /\ s.of <= version
          /\ s.of = version /\ s.of \notin outdated => s.rows \in Rankings(Candidates)
          /\ ~s.moved /\ s.of \notin outdated => s.named \in Rankings(s.candidates)

\* The registry does not move, nor does what is kept of it.
LEMMA FitStays ==
    ASSUME RankingsFit, UNCHANGED <<source, version, cache, search, outdated>>
    PROVE  RankingsFit'
BY DEF RankingsFit, Candidates, Offering

\* Nothing is kept yet for the version a commit makes.
LEMMA FitCommit ==
    ASSUME RegistryInv, RegistryInv', RankingsFit, NEW h \in Handlers, Commit(h)
    PROVE  RankingsFit'
<1>1. version' = version + 1 /\ UNCHANGED <<cache, search, outdated>>
  BY DEF Commit, lookups
<1>2. version \in Nat /\ version' \in 0..MaxReports /\ SearchTyped /\ MaxReports \in Nat
  BY BoundsAssumption DEF RegistryInv, RegistryTypeOK
<1>3. \A v \in 0..MaxReports : v > version => cache[v] = None
  BY DEF RankingsFit
<1>4. cache'[version'] = None /\ \A v \in 0..MaxReports : v > version' => cache'[v] = None
  BY <1>1, <1>2, <1>3
<1>5. ASSUME NEW q \in Searches
      PROVE  /\ search[q].at = "embedding" => search[q].began \in Nat /\ search[q].began <= version
             /\ search[q].at = "reranking" =>
                   /\ search[q].of \in Nat /\ search[q].of <= version
                   /\ ~search[q].moved /\ search[q].of \notin outdated
                         => search[q].named \in Rankings(search[q].candidates)
  <2>1. search[q].at = "embedding" => search[q].began \in Nat
    BY <1>2 DEF SearchTyped, Idle
  <2>2. search[q].at = "reranking" => search[q].of \in Nat
    BY <1>2 DEF SearchTyped, Idle
  <2>. QED BY <2>1, <2>2 DEF RankingsFit
<1>6. \A q \in Searches :
        /\ search[q].at = "embedding" => search[q].began <= version' /\ search[q].began # version'
        /\ search[q].at = "reranking" => search[q].of <= version' /\ search[q].of # version'
  BY <1>1, <1>2, <1>5
<1>. HIDE DEF Rankings
<1>. QED BY <1>1, <1>4, <1>5, <1>6 DEF RankingsFit

LEMMA FitSearch ==
    ASSUME RegistryInv, RankingsFit, NEW q \in Searches, search_capability_rag(q)
    PROVE  RankingsFit'
<1>1. UNCHANGED <<source, version, cache, outdated>> /\ SearchTyped /\ version \in Nat
  BY BoundsAssumption DEF search_capability_rag, registry, RegistryInv, RegistryTypeOK
<1>2. CASE UNCHANGED search
  BY <1>1, <1>2, FitStays
<1>3. CASE search' = [search EXCEPT ![q] = [at |-> "embedding", candidates |-> Candidates,
                                            began |-> version]]
  <2>1. /\ search'[q] = [at |-> "embedding", candidates |-> Candidates, began |-> version]
        /\ \A k \in Searches \ {q} : search'[k] = search[k]
    BY <1>1, <1>3 DEF SearchTyped
  <2>2. Candidates' = Candidates
    BY <1>1 DEF Candidates, Offering
  <2>. QED BY <1>1, <2>1, <2>2 DEF RankingsFit
<1>. QED BY <1>2, <1>3 DEF search_capability_rag

LEMMA FitRetrieve ==
    ASSUME RegistryInv, RankingsFit, NEW q \in Searches, cached_retrieval_candidates(q)
    PROVE  RankingsFit'
<1>. DEFINE C == search[q].candidates
            moved == version # search[q].began
<1>1. /\ UNCHANGED <<source, version, cache>> /\ SearchTyped /\ version \in Nat
      /\ search[q].at = "embedding"
      /\ outdated' = IF cache[version] = None /\ moved THEN outdated \cup {version} ELSE outdated
  BY BoundsAssumption
  DEF cached_retrieval_candidates, registry, RegistryInv, RegistryTypeOK, RegistryVersion
<1>2. PICK rows \in IF cache[version] # None THEN {cache[version]} ELSE Rankings(C) :
        search' = [search EXCEPT ![q] = [at |-> "reranking", candidates |-> C, moved |-> moved,
                      of |-> version, rows |-> rows, named |-> Matches(rows, C)]]
  BY DEF cached_retrieval_candidates, RegistryVersion
<1>3. /\ search'[q] = [at |-> "reranking", candidates |-> C, moved |-> moved, of |-> version,
                       rows |-> rows, named |-> Matches(rows, C)]
      /\ \A k \in Searches \ {q} : search'[k] = search[k]
  BY <1>1, <1>2 DEF SearchTyped
<1>4. ~moved => C = Candidates
  BY <1>1 DEF RankingsFit
<1>5. version \notin outdated' => rows \in Rankings(Candidates)
  BY <1>1, <1>2, <1>4 DEF RankingsFit
<1>6. ~moved /\ version \notin outdated' => Matches(rows, C) \in Rankings(C)
  BY <1>4, <1>5 DEF Rankings, Matches
<1>7. Candidates' = Candidates /\ outdated \subseteq outdated'
  BY <1>1 DEF Candidates, Offering
<1>. HIDE DEF C, moved
<1>. QED BY <1>1, <1>3, <1>5, <1>6, <1>7 DEF RankingsFit

LEMMA FitAnswer ==
    ASSUME RegistryInv, RankingsFit, NEW q \in Searches, AnswerSearch(q)
    PROVE  RankingsFit'
<1>1. /\ UNCHANGED <<source, version, outdated>> /\ SearchTyped /\ version \in Nat
      /\ search' = [search EXCEPT ![q] = Idle] /\ search[q].at = "reranking"
      /\ cache \in [0..MaxReports -> {None} \cup SUBSET Caps]
  BY BoundsAssumption DEF AnswerSearch, registry, RegistryInv, RegistryTypeOK
<1>2. search'[q] = Idle /\ \A k \in Searches \ {q} : search'[k] = search[k]
  BY <1>1 DEF SearchTyped
<1>3. Candidates' = Candidates
  BY <1>1 DEF Candidates, Offering
<1>4. cache' = cache \/ cache' = [cache EXCEPT ![search[q].of] = search[q].rows]
  BY DEF AnswerSearch
<1>5. search[q].of \in 0..version
  BY <1>1 DEF RankingsFit, SearchTyped, Idle
<1>6. \A v \in 0..MaxReports : v > version => cache'[v] = None
  <2>1. \A v \in 0..MaxReports : v > version => v # search[q].of
    BY <1>1, <1>5
  <2>2. \A v \in 0..MaxReports : v > version => cache[v] = None
    BY DEF RankingsFit
  <2>. QED BY <1>1, <1>4, <2>1, <2>2
<1>7. cache'[version] # None /\ version \notin outdated => cache'[version] \in Rankings(Candidates)
  <2>1. /\ cache[version] # None /\ version \notin outdated => cache[version] \in Rankings(Candidates)
        /\ search[q].of = version /\ version \notin outdated => search[q].rows \in Rankings(Candidates)
    BY <1>1 DEF RankingsFit
  <2>2. version \in DOMAIN cache
    BY <1>1 DEF RegistryInv, RegistryTypeOK
  <2>. HIDE DEF Rankings
  <2>. QED BY <1>4, <2>1, <2>2
<1>. QED BY <1>1, <1>2, <1>3, <1>6, <1>7 DEF RankingsFit, Idle

LEMMA FitStep ==
    ASSUME RegistryInv, RegistryInv', RankingsFit, [RegistryNext]_registryVars
    PROVE  RankingsFit'
<1>. USE DEF registry, lookups
<1>1. ASSUME NEW h \in Handlers, handle_register_capabilities(h) PROVE RankingsFit'
  BY <1>1, FitStays DEF handle_register_capabilities
<1>2. ASSUME NEW h \in Handlers, Register(h) PROVE RankingsFit'
  <2>1. CASE Commit(h)
    BY <2>1, FitCommit
  <2>2. CASE ~Commit(h)
    BY <1>2, <2>2, FitStays DEF Register, DeactivateSources, upsert_source, CheckStatus, WriteStatus,
       enqueue_capability_index_jobs, Refuse, Deadlock
  <2>. QED BY <2>1, <2>2
<1>3. ASSUME run_capability_index_jobs_once PROVE RankingsFit'
  BY <1>3, FitStays DEF run_capability_index_jobs_once
<1>4. ASSUME build_capability_context \/ store_snapshot PROVE RankingsFit'
  BY <1>4, FitStays DEF build_capability_context, store_snapshot
<1>5. ASSUME UNCHANGED registryVars PROVE RankingsFit'
  BY <1>5, FitStays DEF registryVars
<1>. QED BY <1>1, <1>2, <1>3, <1>4, <1>5, FitSearch, FitRetrieve, FitAnswer DEF RegistryNext

\* AnswersRankCandidates: what is kept for a version was ranked from what the registry offered at
\* that version, unless a search ranked older candidates for it, and a commit makes a new one.
THEOREM AnswersRank == RegistrySpec => []AnswersRankCandidates
<1>1. RegistryInit => RankingsFit
  <2>. SUFFICES ASSUME RegistryInit PROVE RankingsFit
    OBVIOUS
  <2>1. version = 0 /\ \A v \in 0..MaxReports : cache[v] = None
    BY DEF RegistryInit
  <2>2. cache[version] = None /\ \A q \in Searches : search[q].at = "idle"
    BY <2>1, BoundsAssumption DEF RegistryInit, Idle
  <2>. QED BY <2>1, <2>2 DEF RankingsFit
<1>2. RegistryInv /\ RegistryInv' /\ RankingsFit /\ [RegistryNext]_registryVars => RankingsFit'
  BY FitStep
<1>3. RankingsFit => AnswersRankCandidates
  BY DEF RankingsFit, AnswersRankCandidates
<1>. QED BY <1>1, <1>2, <1>3, RegistryInvariant, PTL DEF RegistrySpec

-----------------------------------------------------------------------------
(* The statuses of the definitions. *)

\* What h will leave of the status of c.
Leaves(h, c) == IF Holds(h, c) THEN handler[h].wrote[c] ELSE status[c]

\* What a transaction has merged is active; what it dropped has the status that follows from the
\* sources it sees, or has it still to be derived.
Derived(h) ==
    /\ \A c \in handler[h].stale : c \notin handler[h].offered /\ ~Holds(h, c)
    /\ \A c \in handler[h].offered : handler[h].wrote[c] = "active"
    /\ handler[h].todo # <<>> => handler[h].replaced \ handler[h].offered \subseteq handler[h].stale
    /\ \A c \in handler[h].replaced \ (handler[h].offered \cup handler[h].stale) :
          Leaves(h, c) = "active" <=> OfferingSeen(h, c) # {}
    /\ At(h, "committing") => handler[h].stale = {}
    /\ At(h, "writing") => (handler[h].want = "active" <=> OfferingSeen(h, handler[h].target) # {})

StatusInv ==
    /\ StatusFollowsSources
    /\ ~overlapped => \A h \in Handlers : Locking(h) => Derived(h)

\* While registrations take turns, the one under way keeps what is committed as it was.
LEMMA TurnKeeps ==
    ASSUME RegistryInv, StatusInv, NEW h \in Handlers, Underway(h), NEW t \in Transactions \cup {Idle},
           handler' = [handler EXCEPT ![h] = t],
           UNCHANGED <<registry, indexJobs, lookups, reports, overlapped>>,
           (~overlapped /\ t # Idle) => Derived(h)'
    PROVE  StatusInv'
<1>1. /\ handler'[h] = t /\ \A g \in Handlers \ {h} : Underway(g)' = Underway(g)
      /\ Underway(h)' = (t # Idle)
  BY HandlerStep DEF RegistryInv
<1>2. source' = source /\ status' = status /\ overlapped' = overlapped
  BY DEF registry
<1>3. StatusFollowsSources'
  BY <1>2 DEF StatusInv, StatusFollowsSources, Offering
<1>4. ASSUME ~overlapped, NEW g \in Handlers, Locking(g)' PROVE Derived(g)'
  <2>1. Underway(g)'
    BY <1>4 DEF Locking
  <2>2. CASE g = h
    BY <1>1, <1>4, <2>1, <2>2
  <2>3. CASE g # h
    BY <1>1, <1>4, <2>1, <2>3 DEF RegistryInv, TakingTurns
  <2>. QED BY <2>2, <2>3
<1>. QED BY <1>2, <1>3, <1>4 DEF StatusInv

\* Where h alone is under way and holds its lock, what it has derived is known.
LEMMA DerivedNow ==
    ASSUME StatusInv, ~overlapped, NEW h \in Handlers, Underway(h), ~At(h, "locking")
    PROVE  Derived(h)
BY DEF StatusInv, Locking

LEMMA StatusDeactivated ==
    ASSUME RegistryInv, StatusInv, NEW h \in Handlers, DeactivateSources(h)
    PROVE  StatusInv'
<1>1. handler[h] \in Transactions /\ Underway(h) /\ handler[h].at = "locking"
  BY HandlerIs DEF RegistryInv, DeactivateSources, At
<1>2. PICK t : t = [handler[h] EXCEPT !.at = "merging", !.replaced = source[handler[h].node],
                                      !.stale = source[handler[h].node]]
  OBVIOUS
<1>3. source[handler[h].node] \in SUBSET Caps
  BY <1>1, TransactionIs DEF RegistryInv, RegistryTypeOK
<1>4. /\ t \in Transactions /\ t.at = "merging" /\ t.stale = t.replaced /\ t.replaced \subseteq Caps
      /\ t.offered = handler[h].offered /\ t.wrote = handler[h].wrote
  BY <1>1, <1>2, <1>3 DEF Transactions
<1>5. handler[h].offered = {} /\ \A c \in Caps : handler[h].wrote[c] = "none"
  BY <1>1 DEF RegistryInv, LockingSound, At, Holds
<1>6. handler' = [handler EXCEPT ![h] = t] /\ UNCHANGED <<registry, indexJobs, lookups, reports, overlapped>>
  BY <1>2 DEF DeactivateSources, Step
<1>7. handler'[h] = t
  BY <1>6 DEF RegistryInv, RegistryTypeOK
<1>8. Derived(h)'
  BY <1>4, <1>5, <1>7 DEF Derived, Holds, At
<1>. QED BY <1>1, <1>4, <1>6, <1>8, TurnKeeps

LEMMA StatusMerged ==
    ASSUME RegistryInv, StatusInv, NEW h \in Handlers, upsert_source(h)
    PROVE  StatusInv'
<1>1. Underway(h) /\ ~At(h, "locking") /\ handler[h].at = "merging" /\ handler[h].todo # <<>>
  BY DEF upsert_source, At
<1>2. handler[h] \in Transactions
  BY <1>1, LockerIs
<1>3. PICK c : c = Head(handler[h].todo)
  OBVIOUS
<1>4. PICK t : t = [handler[h] EXCEPT !.todo = Tail(@), !.offered = @ \cup {c},
                                      !.stale = @ \ {c}, !.wrote = [@ EXCEPT ![c] = "active"]]
  OBVIOUS
<1>5. handler[h].todo \in Seq(Caps) /\ handler[h].wrote \in [Caps -> {"none", "active", "inactive"}]
      /\ handler[h].stale \subseteq Caps /\ handler[h].offered \subseteq Caps
  BY <1>2, TransactionIs
<1>6. c \in Caps /\ Tail(handler[h].todo) \in Seq(Caps)
  BY <1>1, <1>3, <1>5
<1>7. /\ t \in Transactions /\ t.at = "merging"
      /\ t.replaced = handler[h].replaced /\ t.stale = handler[h].stale \ {c}
      /\ t.offered = handler[h].offered \cup {c}
      /\ t.wrote = [handler[h].wrote EXCEPT ![c] = "active"]
  BY <1>1, <1>2, <1>4, <1>5, <1>6 DEF Transactions
<1>8. handler' = [handler EXCEPT ![h] = t] /\ UNCHANGED <<registry, indexJobs, lookups, reports, overlapped>>
  BY <1>3, <1>4 DEF upsert_source, upsert_definition_row, Step
<1>9. handler'[h] = t
  BY <1>8 DEF RegistryInv, RegistryTypeOK
<1>10. ASSUME ~overlapped PROVE Derived(h)'
  <2>1. Derived(h)
    BY <1>1, <1>10, DerivedNow
  <2>2. handler[h].replaced \ handler[h].offered \subseteq handler[h].stale
    BY <1>1, <2>1 DEF Derived
  <2>3. t.replaced \ t.offered \subseteq t.stale
    BY <1>7, <2>2
  <2>4. \A d \in t.stale : d \notin t.offered /\ t.wrote[d] = "none"
    BY <1>1, <1>5, <1>7, <2>1 DEF Derived, Holds
  <2>5. \A d \in t.offered : t.wrote[d] = "active"
    BY <1>5, <1>6, <1>7, <2>1 DEF Derived
  <2>. QED BY <1>7, <1>9, <2>3, <2>4, <2>5 DEF Derived, Holds, At
<1>. QED BY <1>1, <1>7, <1>8, <1>10, TurnKeeps

LEMMA StatusChecked ==
    ASSUME RegistryInv, StatusInv, NEW h \in Handlers, CheckStatus(h)
    PROVE  StatusInv'
<1>1. Underway(h) /\ ~At(h, "locking") /\ handler[h].at = "merging" /\ handler[h].todo = <<>>
  BY DEF CheckStatus, At
<1>2. handler[h] \in Transactions
  BY <1>1, LockerIs
<1>u. UNCHANGED <<registry, indexJobs, lookups, reports, overlapped>> /\ source' = source /\ status' = status
  BY DEF CheckStatus, registry
<1>3. PICK c \in handler[h].stale :
        LET derived == IF OfferingSeen(h, c) # {} THEN "active" ELSE "inactive"
        IN  IF derived = status[c]
              THEN Step(h, [handler[h] EXCEPT !.stale = @ \ {c}])
              ELSE Step(h, [handler[h] EXCEPT !.at = "writing", !.target = c, !.want = derived])
  BY DEF CheckStatus
<1>4. PICK w \in {"active", "inactive"} :
        /\ w = "active" <=> OfferingSeen(h, c) # {}
        /\ \/ w = status[c] /\ Step(h, [handler[h] EXCEPT !.stale = @ \ {c}])
           \/ Step(h, [handler[h] EXCEPT !.at = "writing", !.target = c, !.want = w])
  BY <1>3
<1>5. c \in Caps
  BY <1>2, TransactionIs
<1>6. CASE w = status[c] /\ Step(h, [handler[h] EXCEPT !.stale = @ \ {c}])
  <2>1. PICK t : t = [handler[h] EXCEPT !.stale = @ \ {c}]
    OBVIOUS
  <2>2. /\ t \in Transactions /\ t.at = "merging" /\ t.node = handler[h].node
        /\ t.replaced = handler[h].replaced /\ t.stale = handler[h].stale \ {c}
        /\ t.offered = handler[h].offered /\ t.todo = <<>> /\ t.wrote = handler[h].wrote
    BY <1>1, <1>2, <2>1 DEF Transactions
  <2>3. handler' = [handler EXCEPT ![h] = t]
    BY <1>6, <2>1 DEF Step
  <2>4. handler'[h] = t
    BY <2>3 DEF RegistryInv, RegistryTypeOK
  <2>5. /\ \A d : Holds(h, d)' <=> Holds(h, d)
        /\ \A d : OfferingSeen(h, d)' = OfferingSeen(h, d)
        /\ \A d : Leaves(h, d)' = Leaves(h, d)
    BY <1>1, <1>2, <1>u, <2>2, <2>4, HandlerIs DEF RegistryInv, Holds, Underway, OfferingSeen, Replaced, Leaves
  <2>6. ASSUME ~overlapped PROVE Derived(h)'
    <3>1. Derived(h)
      BY <1>1, <2>6, DerivedNow
    <3>2. Leaves(h, c) = "active" <=> OfferingSeen(h, c) # {}
      BY <1>4, <1>6, <3>1 DEF Derived, Leaves
    <3>3. \A d \in t.replaced \ (t.offered \cup t.stale) : Leaves(h, d)' = "active" <=> OfferingSeen(h, d)' # {}
      BY <2>2, <2>5, <3>1, <3>2 DEF Derived
    <3>. QED BY <2>2, <2>4, <2>5, <3>1, <3>3 DEF Derived, At
  <2>. QED BY <1>1, <1>u, <2>2, <2>3, <2>6, TurnKeeps
<1>7. CASE Step(h, [handler[h] EXCEPT !.at = "writing", !.target = c, !.want = w])
  <2>1. PICK t : t = [handler[h] EXCEPT !.at = "writing", !.target = c, !.want = w]
    OBVIOUS
  <2>2. /\ t \in Transactions /\ t.at = "writing" /\ t.node = handler[h].node
        /\ t.replaced = handler[h].replaced /\ t.stale = handler[h].stale
        /\ t.offered = handler[h].offered /\ t.todo = <<>> /\ t.wrote = handler[h].wrote
        /\ t.target = c /\ t.want = w
    BY <1>1, <1>2, <1>5, <2>1 DEF Transactions
  <2>3. handler' = [handler EXCEPT ![h] = t]
    BY <1>7, <2>1 DEF Step
  <2>4. handler'[h] = t
    BY <2>3 DEF RegistryInv, RegistryTypeOK
  <2>5. /\ \A d : Holds(h, d)' <=> Holds(h, d)
        /\ \A d : OfferingSeen(h, d)' = OfferingSeen(h, d)
        /\ \A d : Leaves(h, d)' = Leaves(h, d)
    BY <1>1, <1>2, <1>u, <2>2, <2>4, HandlerIs DEF RegistryInv, Holds, Underway, OfferingSeen, Replaced, Leaves
  <2>6. ASSUME ~overlapped PROVE Derived(h)'
    <3>1. Derived(h)
      BY <1>1, <2>6, DerivedNow
    <3>2. t.want = "active" <=> OfferingSeen(h, t.target)' # {}
      BY <1>4, <2>2, <2>5
    <3>3. \A d \in t.replaced \ (t.offered \cup t.stale) : Leaves(h, d)' = "active" <=> OfferingSeen(h, d)' # {}
      BY <2>2, <2>5, <3>1 DEF Derived
    <3>. QED BY <2>2, <2>4, <2>5, <3>1, <3>2, <3>3 DEF Derived, At
  <2>. QED BY <1>1, <1>u, <2>2, <2>3, <2>6, TurnKeeps
<1>. QED BY <1>4, <1>6, <1>7

LEMMA StatusWritten ==
    ASSUME RegistryInv, StatusInv, NEW h \in Handlers, WriteStatus(h)
    PROVE  StatusInv'
<1>1. Underway(h) /\ ~At(h, "locking") /\ At(h, "writing") /\ handler[h].at = "writing"
  BY DEF WriteStatus, At
<1>2. handler[h] \in Transactions /\ handler[h].todo = <<>>
  BY <1>1, LockerIs
<1>u. UNCHANGED <<registry, indexJobs, lookups, reports, overlapped>> /\ source' = source /\ status' = status
  BY DEF WriteStatus, registry
<1>3. PICK c : c = handler[h].target
  OBVIOUS
<1>4. c \in handler[h].stale /\ c \in Caps
  BY <1>1, <1>2, <1>3, LockerIs, TransactionIs
<1>5. PICK t : t = [handler[h] EXCEPT !.at = "merging", !.target = None, !.stale = @ \ {c},
                                  !.wrote = [@ EXCEPT ![c] = handler[h].want]]
  OBVIOUS
<1>6. /\ handler[h].wrote \in [Caps -> {"none", "active", "inactive"}]
      /\ handler[h].want \in {"active", "inactive"}
      /\ handler[h].stale \subseteq Caps /\ handler[h].offered \subseteq Caps
      /\ handler[h].replaced \subseteq Caps
  BY <1>2, TransactionIs
<1>7. /\ t \in Transactions /\ t.at = "merging" /\ t.node = handler[h].node
      /\ t.replaced = handler[h].replaced /\ t.stale = handler[h].stale \ {c}
      /\ t.offered = handler[h].offered /\ t.todo = <<>>
      /\ t.wrote = [handler[h].wrote EXCEPT ![c] = handler[h].want]
  BY <1>2, <1>4, <1>5, <1>6 DEF Transactions
<1>8. handler' = [handler EXCEPT ![h] = t]
  BY <1>3, <1>5 DEF WriteStatus, Step
<1>9. handler'[h] = t
  BY <1>8 DEF RegistryInv, RegistryTypeOK
<1>10. /\ \A d \in Caps \ {c} : Holds(h, d)' <=> Holds(h, d)
       /\ \A d \in Caps \ {c} : Leaves(h, d)' = Leaves(h, d)
       /\ Leaves(h, c)' = handler[h].want
       /\ \A d : OfferingSeen(h, d)' = OfferingSeen(h, d)
  <2>1. \A d \in Caps \ {c} : t.wrote[d] = handler[h].wrote[d]
    BY <1>6, <1>7
  <2>2. t.wrote[c] = handler[h].want /\ handler[h].want # "none"
    BY <1>4, <1>6, <1>7
  <2>3. Underway(h)'
    BY <1>7, <1>9, HandlerIs DEF RegistryInv, Underway
  <2>4. \A d : OfferingSeen(h, d)' = OfferingSeen(h, d)
    BY <1>u, <1>7, <1>9 DEF OfferingSeen, Replaced
  <2>. QED BY <1>1, <1>u, <1>9, <2>1, <2>2, <2>3, <2>4 DEF Holds, Leaves
<1>11. ASSUME ~overlapped PROVE Derived(h)'
  <2>1. Derived(h)
    BY <1>1, <1>11, DerivedNow
  <2>2. handler[h].want = "active" <=> OfferingSeen(h, c) # {}
    BY <1>1, <1>3, <2>1 DEF Derived
  <2>3. \A d \in t.replaced \ (t.offered \cup t.stale) : Leaves(h, d)' = "active" <=> OfferingSeen(h, d)' # {}
    BY <1>6, <1>7, <1>10, <2>1, <2>2 DEF Derived
  <2>4. \A d \in t.stale : d \notin t.offered /\ ~Holds(h, d)'
    BY <1>6, <1>7, <1>10, <2>1 DEF Derived
  <2>5. \A d \in t.offered : t.wrote[d] = "active"
    <3>1. c \notin handler[h].offered
      BY <1>4, <2>1 DEF Derived
    <3>. QED BY <1>6, <1>7, <2>1, <3>1 DEF Derived
  <2>. QED BY <1>7, <1>9, <2>3, <2>4, <2>5 DEF Derived, At
<1>. QED BY <1>1, <1>u, <1>7, <1>8, <1>11, TurnKeeps

LEMMA StatusEnqueued ==
    ASSUME RegistryInv, StatusInv, NEW h \in Handlers, enqueue_capability_index_jobs(h)
    PROVE  StatusInv'
<1>1. /\ Underway(h) /\ ~At(h, "locking") /\ handler[h].at = "merging" /\ handler[h].todo = <<>>
      /\ handler[h].stale = {}
  BY DEF enqueue_capability_index_jobs, At
<1>2. handler[h] \in Transactions
  BY <1>1, LockerIs
<1>u. UNCHANGED <<registry, indexJobs, lookups, reports, overlapped>> /\ source' = source /\ status' = status
  BY DEF enqueue_capability_index_jobs, registry
<1>3. PICK t : t = [handler[h] EXCEPT !.at = "committing",
                   !.queued = Missing({<<c, OfferingSeen(h, c)>> : c \in Touched(h)})]
  OBVIOUS
<1>4. handler' = [handler EXCEPT ![h] = t] /\ handler'[h] = t
  BY <1>3 DEF enqueue_capability_index_jobs, Step, RegistryInv, RegistryTypeOK
<1>5. /\ t.at = "committing" /\ t.node = handler[h].node
      /\ t.replaced = handler[h].replaced /\ t.stale = handler[h].stale
      /\ t.offered = handler[h].offered /\ t.todo = <<>> /\ t.wrote = handler[h].wrote
  BY <1>1, <1>2, <1>3 DEF Transactions
<1>t. t \in Transactions
  <2>1. t \in Transactions \cup {Idle}
    BY <1>4, EnqueueKeeps DEF RegistryInv, RegistryTypeOK
  <2>. QED BY <1>5, <2>1 DEF Idle
<1>6. /\ \A d : Holds(h, d)' <=> Holds(h, d)
      /\ \A d : OfferingSeen(h, d)' = OfferingSeen(h, d)
      /\ \A d : Leaves(h, d)' = Leaves(h, d)
  BY <1>1, <1>u, <1>t, <1>4, <1>5, HandlerIs DEF RegistryInv, Holds, Underway, OfferingSeen, Replaced, Leaves
<1>7. ASSUME ~overlapped PROVE Derived(h)'
  <2>1. Derived(h)
    BY <1>1, <1>7, DerivedNow
  <2>2. \A d \in t.replaced \ (t.offered \cup t.stale) : Leaves(h, d)' = "active" <=> OfferingSeen(h, d)' # {}
    BY <1>5, <1>6, <2>1 DEF Derived
  <2>. QED BY <1>1, <1>4, <1>5, <1>6, <2>1, <2>2 DEF Derived, At
<1>. QED BY <1>1, <1>u, <1>t, <1>4, <1>7, TurnKeeps

LEMMA StatusCommitted ==
    ASSUME RegistryInv, StatusInv, NEW h \in Handlers, Commit(h)
    PROVE  StatusInv'
<1>1. Underway(h) /\ At(h, "committing") /\ ~At(h, "locking")
  BY DEF Commit, At
<1>2. /\ handler[h] \in Transactions /\ handler[h].todo = <<>>
      /\ \A c \in Caps : Holds(h, c) => c \in Touched(h)
  BY <1>1, LockerIs DEF Holds, Touched
<1>3. /\ handler' = [handler EXCEPT ![h] = Idle] /\ source' = Replaced(h) /\ overlapped' = overlapped
      /\ status' = [c \in Caps |-> Leaves(h, c)]
  BY DEF Commit, Leaves
<1>4. /\ ~Underway(h)' /\ \A g \in Handlers \ {h} : Underway(g)' = Underway(g)
  BY <1>3, HandlerStep DEF RegistryInv
<1>5. ASSUME ~overlapped, NEW g \in Handlers PROVE ~Underway(g)
      \/ g = h
  BY <1>1, <1>5 DEF RegistryInv, TakingTurns
<1>6. ASSUME ~overlapped, NEW c \in Caps PROVE status'[c] = "active" <=> Offering(c)' # {}
  <2>1. Derived(h) /\ handler[h].stale = {}
    BY <1>1, <1>6, DerivedNow DEF Derived
  <2>2. status'[c] = Leaves(h, c) /\ Offering(c)' = OfferingSeen(h, c)
    BY <1>3 DEF Offering, OfferingSeen
  <2>3. /\ handler[h].node \in Nodes /\ handler[h].offered \subseteq Caps
        /\ source \in [Nodes -> SUBSET Caps]
    BY <1>2, TransactionIs DEF RegistryInv, RegistryTypeOK
  <2>4. CASE c \in handler[h].offered
    <3>1. Leaves(h, c) = "active"
      BY <1>1, <2>1, <2>4 DEF Derived, Leaves, Holds
    <3>2. handler[h].node \in OfferingSeen(h, c)
      BY <2>3, <2>4 DEF OfferingSeen, Replaced
    <3>. QED BY <2>2, <3>1, <3>2
  <2>5. CASE c \in handler[h].replaced \ handler[h].offered
    BY <2>1, <2>2, <2>5 DEF Derived
  <2>6. CASE c \notin Touched(h)
    <3>1. Leaves(h, c) = status[c]
      BY <1>2, <2>6 DEF Leaves
    <3>2. \A n \in Nodes : c \in Replaced(h)[n] <=> c \in source[n]
      BY <2>3, <2>6 DEF Replaced, Touched
    <3>3. OfferingSeen(h, c) = Offering(c)
      BY <3>2 DEF OfferingSeen, Offering
    <3>. QED BY <1>6, <2>2, <3>1, <3>3 DEF StatusInv, StatusFollowsSources
  <2>. QED BY <2>4, <2>5, <2>6 DEF Touched
<1>. QED BY <1>3, <1>4, <1>5, <1>6 DEF StatusInv, StatusFollowsSources, Locking

LEMMA StatusKeeps == RegistryInv /\ StatusInv /\ [RegistryNext]_registryVars => StatusInv'
<1>. SUFFICES ASSUME RegistryInv, StatusInv, [RegistryNext]_registryVars PROVE StatusInv'
  OBVIOUS
<1>1. ASSUME NEW h \in Handlers, handle_register_capabilities(h) PROVE StatusInv'
  <2>1. /\ source' = source /\ status' = status
        /\ overlapped' = (overlapped \/ \E g \in Handlers : Underway(g))
    BY <1>1 DEF handle_register_capabilities, registry
  <2>2. StatusFollowsSources'
    BY <2>1 DEF StatusInv, StatusFollowsSources, Offering
  <2>3. ASSUME NEW g \in Handlers, Locking(g)' PROVE Underway(g)
    <3>1. CASE g = h
      <4>1. PICK n \in Nodes : \E m \in Manifests[n] : handler' = [handler EXCEPT ![h] = Received(n, m)]
        BY <1>1 DEF handle_register_capabilities, Received
      <4>2. handler'[g].at = "locking"
        BY <3>1, <4>1 DEF Received, RegistryInv, RegistryTypeOK
      <4>. QED BY <2>3, <4>2 DEF Locking, At
    <3>2. CASE g # h
      <4>1. handler'[g] = handler[g]
        BY <1>1, <3>2 DEF handle_register_capabilities, RegistryInv, RegistryTypeOK
      <4>. QED BY <2>3, <4>1 DEF Locking, Underway
    <3>. QED BY <3>1, <3>2
  <2>. QED BY <2>1, <2>2, <2>3 DEF StatusInv
<1>2. ASSUME NEW h \in Handlers, Register(h) PROVE StatusInv'
  <2>1. CASE Refuse(h)
    BY <2>1, TurnKeeps DEF Refuse, At
  <2>2. CASE Deadlock(h)
    <3>1. Underway(h)
      BY <2>2, DeadlockedUnderway
    <3>. QED BY <2>2, <3>1, TurnKeeps DEF Deadlock
  <2>. QED BY <1>2, <2>1, <2>2, StatusDeactivated, StatusMerged, StatusChecked, StatusWritten,
              StatusEnqueued, StatusCommitted DEF Register
<1>3. ASSUME UNCHANGED <<source, status, handler, overlapped>> PROVE StatusInv'
  <2>1. StatusFollowsSources'
    BY <1>3 DEF StatusInv, StatusFollowsSources, Offering
  <2>2. \A h : /\ Locking(h)' = Locking(h)
               /\ At(h, "writing")' = At(h, "writing") /\ At(h, "committing")' = At(h, "committing")
    BY <1>3 DEF Locking, Underway, At, Holds
  <2>3. \A h, c : /\ Holds(h, c)' = Holds(h, c) /\ Leaves(h, c)' = Leaves(h, c)
                  /\ OfferingSeen(h, c)' = OfferingSeen(h, c)
    BY <1>3 DEF Holds, Underway, Leaves, OfferingSeen, Replaced
  <2>4. \A h : Derived(h)' = Derived(h)
    BY <1>3, <2>2, <2>3 DEF Derived
  <2>. QED BY <1>3, <2>1, <2>2, <2>4 DEF StatusInv
<1>4. ASSUME NEW q \in Searches,
             search_capability_rag(q) \/ cached_retrieval_candidates(q) \/ AnswerSearch(q)
      PROVE  UNCHANGED <<source, status, handler, overlapped>>
  BY <1>4 DEF search_capability_rag, cached_retrieval_candidates, AnswerSearch, registry
<1>5. ASSUME run_capability_index_jobs_once \/ build_capability_context \/ store_snapshot
      PROVE  UNCHANGED <<source, status, handler, overlapped>>
  BY <1>5 DEF run_capability_index_jobs_once, build_capability_context, store_snapshot, registry
<1>6. ASSUME UNCHANGED registryVars PROVE UNCHANGED <<source, status, handler, overlapped>>
  BY <1>6 DEF registryVars
<1>. QED BY <1>1, <1>2, <1>3, <1>4, <1>5, <1>6 DEF RegistryNext

\* StatusFollowsSources: while registrations take turns, the transaction under way derives the
\* status of everything it dropped from sources nobody else changes before it commits.
THEOREM StatusesFollow == RegistrySpec => []StatusFollowsSources
<1>1. RegistryInit => StatusInv
  <2>. SUFFICES ASSUME RegistryInit PROVE StatusInv
    OBVIOUS
  <2>1. \A h \in Handlers : ~Locking(h)
    BY DEF RegistryInit, Locking, Underway
  <2>2. StatusFollowsSources
    BY DEF RegistryInit, StatusFollowsSources, Offering
  <2>. QED BY <2>1, <2>2 DEF StatusInv
<1>2. StatusInv => StatusFollowsSources
  BY DEF StatusInv
<1>. QED BY <1>1, <1>2, StatusKeeps, RegistryInvariant, PTL DEF RegistrySpec
=============================================================================
