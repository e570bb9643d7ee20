---------------------------- MODULE Maintenance ----------------------------
(***************************************************************************)
(* A maintenance plan and its runs: the steps of the plan executed one     *)
(* after the other, each as a job, with an approval for the steps that     *)
(* need one (services/maintenance_executor.py, maintenance_service.py,     *)
(* api/routes/maintenance.py, runtime/operations/maintenance.py).  A run   *)
(* is executed inside the request that starts or resumes it, which works   *)
(* for minutes on the copies of the rows it loaded at the beginning, while *)
(* other requests cancel, reject or start the plan again.                  *)
(*                                                                         *)
(* What the request of a run is doing:                                     *)
(*   "asked"   the plan is loaded and may be run                           *)
(*   "step"    at the step at[r], or past the last one                     *)
(*   "job"     waiting for the job of that step                            *)
(*   "end"     execute_plan_run has returned, finalize_run is next         *)
(***************************************************************************)
EXTENDS AgentPlan, FiniteSets

CONSTANTS
    N,              \* bound: steps of a plan
    Requested,      \* plans that are asked for step by step
    MaxRuns         \* bound: runs of the plan

Steps == 1..N
Runs == 1..MaxRuns

\* A MaintenanceStep, the columns that stay.
StepRows ==
    [kind : {"check", "repair", "verify"},
     function : DOMAIN tool,
     condition : {"always", "if_previous_unhealthy", "if_previous_failed", "after_repair", "manual"},
     depends_on : SUBSET Steps,
     requires_approval : BOOLEAN,
     continue_on_failure : BOOLEAN,
     rollback_hint : DOMAIN tool \cup {NoFunction}]

ASSUME MaintenanceAssumption ==
    /\ N \in Nat /\ N >= 3 /\ MaxRuns \in Nat
    /\ Requested \subseteq {p \in Seq(StepRows) : Len(p) \in Steps}

Plans == Requested \cup AgentPlans

VARIABLES
    planned,   \* the steps of the plan
    plan,      \* MaintenancePlan.status
    approval,  \* the approval the plan links: its status and the step it was made for
    run,       \* MaintenanceRun.status, "none" while there is no row
    rollback,  \* runs with rollback_recommended
    step,      \* MaintenanceStep.status
    sound,     \* steps whose result says that what they looked at is running
    job,       \* the job of each step
    does,      \* what the request of each run is doing
    at,        \* the step it is at
    copy,      \* its copy of the steps
    mine,      \* its copy of the run's status
    trouble    \* history: a job failed, or anyone refused, cancelled or died

vars == <<planned, plan, approval, run, rollback, step, sound, job, does, at, copy, mine, trouble>>

EndStatus == {"succeeded", "failed", "rollback_recommended", "partially_succeeded", "cancelled"}
StepStatus == {"pending", "running", "requires_approval", "succeeded", "failed", "skipped"}
Working == {"step", "job", "end"}

\* The steps there are, those with requires_approval and those with continue_on_failure.
Rows == DOMAIN planned
gated == {s \in Rows : planned[s].requires_approval}
lenient == {s \in Rows : planned[s].continue_on_failure}

TypeOK ==
    /\ planned \in Plans
    /\ plan \in {"draft", "approved", "running", "waiting_approval"} \cup EndStatus
    /\ approval \in [status : {"none", "pending", "approved", "denied", "consumed"},
                     for : Steps \cup {0}]
    /\ run \in [Runs -> {"none", "running", "waiting_approval"} \cup EndStatus]
    /\ mine \in [Runs -> {"none", "running", "waiting_approval"} \cup EndStatus]
    /\ rollback \subseteq Runs /\ sound \subseteq Steps
    /\ step \in [Steps -> StepStatus] /\ copy \in [Runs -> [Steps -> StepStatus]]
    /\ job \in [Steps -> {"none", "live", "over"}]
    /\ does \in [Runs -> {"idle", "asked", "gone"} \cup Working]
    /\ at \in [Runs -> 1..N + 1]
    /\ trouble \in BOOLEAN

\* create_plan.  The Agent's plan waits for its approval by a second commit.
Init ==
    /\ planned \in Plans
    /\ plan = "draft" \/ (planned \in AgentPlans /\ gated # {} /\ plan = "waiting_approval")
    /\ approval = [status |-> "none", for |-> 0]
    /\ run = [r \in Runs |-> "none"] /\ mine = [r \in Runs |-> "none"]
    /\ rollback = {} /\ sound = {}
    /\ step = [s \in Steps |-> "pending"]
    /\ copy = [r \in Runs |-> step]
    /\ job = [s \in Steps |-> "none"]
    /\ does = [r \in Runs |-> "idle"]
    /\ at = [r \in Runs |-> 1]
    /\ trouble = FALSE

Done == {"succeeded", "skipped"}
Goes(r, next) == does' = [does EXCEPT ![r] = next]
Moves(r, next, s) == Goes(r, next) /\ at' = [at EXCEPT ![r] = s]

\* A status the executor writes: in the row and in its copy.
Sets(r, s, status) ==
    /\ step' = [step EXCEPT ![s] = status]
    /\ copy' = [copy EXCEPT ![r][s] = status]

\* A status of the run: in the row and in the executor's copy.
Becomes(r, status) ==
    /\ run' = [run EXCEPT ![r] = status]
    /\ mine' = [mine EXCEPT ![r] = status]

---------------------------------------------------------------------------
\* Requests that start a run.

\* approve_plan_endpoint makes an approval for the first gated step and grants it.
\* The operator does not touch a plan that is being executed.
approve_plan ==
    /\ \A r \in Runs : does[r] \in {"idle", "gone"}
    /\ plan' = "approved"
    /\ approval' = [status |-> "approved",
                    for |-> IF gated = {} THEN 0
                            ELSE CHOOSE s \in gated : \A t \in gated : s <= t]
    /\ UNCHANGED <<planned, run, rollback, step, sound, job, does, at, copy, mine, trouble>>

AskRun(r) ==
    /\ does[r] = "idle" /\ run[r] = "none"
    /\ plan \in {"approved", "draft"}
    /\ Goes(r, "asked")
    /\ UNCHANGED <<planned, plan, approval, run, rollback, step, sound, job, at, copy, mine, trouble>>

\* The steps keep the statuses an earlier run of the plan gave them.
run_plan(r) ==
    /\ does[r] = "asked"
    /\ plan' = "running"
    /\ Becomes(r, "running")
    /\ copy' = [copy EXCEPT ![r] = step]
    /\ Moves(r, "step", 1)
    /\ UNCHANGED <<planned, approval, rollback, step, sound, job, trouble>>

\* The gated step becomes pending and the steps are gone through from the first.
resume_run(r) ==
    /\ run[r] = "waiting_approval" /\ does[r] = "idle"
    /\ approval.status = "approved"
    /\ plan' = "running"
    /\ Becomes(r, "running")
    /\ step' = IF step[at[r]] = "requires_approval"
               THEN [step EXCEPT ![at[r]] = "pending"] ELSE step
    /\ copy' = [copy EXCEPT ![r] = step']
    /\ Moves(r, "step", 1)
    /\ UNCHANGED <<planned, approval, rollback, sound, job, trouble>>

---------------------------------------------------------------------------
\* execute_plan_run, one step of the plan at a time.

\* Dependencies that are no steps of the plan are not looked for.
Dependencies(s) == planned[s].depends_on \cap Rows

\* A dependency counts as done when it was skipped, for whatever reason.
DependenciesDone(r, s) == \A d \in Dependencies(s) : copy[r][d] \in Done

\* A verification has no condition of its own.
Skipped(r, s) ==
    \/ ~DependenciesDone(r, s)
    \/ planned[s].condition = "if_previous_unhealthy" /\ Dependencies(s) \subseteq sound
    \/ /\ planned[s].condition = "if_previous_failed"
       /\ \A d \in Dependencies(s) : copy[r][d] # "failed"
    \/ planned[s].condition = "manual"

PassStep(r) ==
    /\ does[r] = "step" /\ at[r] \in Rows
    /\ LET s == at[r] IN
        \/ copy[r][s] \in Done /\ UNCHANGED <<step, copy>>
        \/ copy[r][s] \notin Done /\ Skipped(r, s) /\ Sets(r, s, "skipped")
    /\ Moves(r, "step", at[r] + 1)
    /\ UNCHANGED <<planned, plan, approval, run, rollback, sound, job, mine, trouble>>

\* The step at which the run stands is to be executed.
IsDue(r) ==
    /\ does[r] = "step" /\ at[r] \in Rows
    /\ copy[r][at[r]] \notin Done
    /\ ~Skipped(r, at[r])

\* A gated step without a decision stops the run; the request that ran it is over.
WaitApproval(r) ==
    /\ IsDue(r) /\ at[r] \in gated
    /\ approval.status \in {"none", "pending"}
    /\ approval' = IF approval.status = "none"
                   THEN [status |-> "pending", for |-> at[r]] ELSE approval
    /\ Sets(r, at[r], "requires_approval")
    /\ Becomes(r, "waiting_approval")
    /\ plan' = "waiting_approval"
    /\ Goes(r, "end")
    /\ UNCHANGED <<planned, rollback, sound, job, at, trouble>>

StopDenied(r) ==
    /\ IsDue(r) /\ at[r] \in gated
    /\ approval.status = "denied"
    /\ Sets(r, at[r], "failed")
    /\ Becomes(r, "cancelled")
    /\ plan' = "cancelled"
    /\ Goes(r, "end")
    /\ UNCHANGED <<planned, approval, rollback, sound, job, at, trouble>>

\* Mutant: an approval is good for every step of its plan, as long as it is not denied.
VerifiedForPlan(s) == approval.status # "denied"

\* verify_approval: whatever the plan links is presented for every step, gated or not.
Verified(s) == approval.status = "none" \/ approval = [status |-> "approved", for |-> s]

Ungated(r) == at[r] \notin gated \/ approval.status \in {"approved", "consumed"}

\* The execution runtime consumes the approval and creates the job.
StartJob(r) ==
    /\ IsDue(r) /\ Ungated(r)
    /\ Verified(at[r])
    /\ approval' = IF approval.status = "none" THEN approval
                   ELSE [approval EXCEPT !.status = "consumed"]
    /\ Sets(r, at[r], "running")
    /\ job' = [job EXCEPT ![at[r]] = "live"]
    /\ Goes(r, "job")
    /\ UNCHANGED <<planned, plan, run, rollback, sound, at, mine, trouble>>

\* The status of a run whose step s failed, and the recommendation.
Fails(r, s) ==
    /\ Sets(r, s, "failed")
    /\ Becomes(r, IF planned[s].kind = "check" THEN "failed" ELSE "rollback_recommended")
    /\ rollback' = IF planned[s].kind = "check" THEN rollback \ {r} ELSE rollback \cup {r}

\* Mutant: a lenient step that was refused is tried again.
StepRaisesAgain(r) ==
    /\ IsDue(r) /\ Ungated(r)
    /\ trouble' = (trouble \/ Verified(at[r]))
    /\ Fails(r, at[r])
    /\ IF at[r] \in lenient THEN Moves(r, "step", at[r]) ELSE Goes(r, "end") /\ UNCHANGED at
    /\ UNCHANGED <<planned, plan, approval, sound, job>>

\* The runtime refuses: the approval, the node or a lock.  A lenient run goes on.
StepRaises(r) ==
    /\ IsDue(r) /\ Ungated(r)
    /\ trouble' = (trouble \/ Verified(at[r]))
    /\ Fails(r, at[r])
    /\ IF at[r] \in lenient THEN Moves(r, "step", at[r] + 1) ELSE Goes(r, "end") /\ UNCHANGED at
    /\ UNCHANGED <<planned, plan, approval, sound, job>>

StepSucceeds(r) ==
    /\ does[r] = "job"
    /\ Sets(r, at[r], "succeeded")
    /\ job' = [job EXCEPT ![at[r]] = "over"]
    /\ \E well \in BOOLEAN : sound' = IF well THEN sound \cup {at[r]} ELSE sound \ {at[r]}
    /\ Moves(r, "step", at[r] + 1)
    /\ UNCHANGED <<planned, plan, approval, run, rollback, mine, trouble>>

\* Fails, is cancelled, times out, or is still running at the deadline of the step:
\* the run ends, lenient or not.
StepFails(r) ==
    /\ does[r] = "job"
    /\ Fails(r, at[r])
    /\ \/ job' = [job EXCEPT ![at[r]] = "over"]
       \/ UNCHANGED job
    /\ trouble' = TRUE
    /\ Goes(r, "end")
    /\ UNCHANGED <<planned, plan, approval, sound, at>>

LastStep(r) ==
    /\ does[r] = "step" /\ at[r] = Len(planned) + 1
    /\ Becomes(r, "succeeded")
    /\ rollback' = rollback \ {r}
    /\ Goes(r, "end")
    /\ UNCHANGED <<planned, plan, approval, step, sound, job, at, copy, trouble>>

Failed(r) == {s \in Rows : copy[r][s] = "failed"}

FinalStatus(r) ==
    IF mine[r] \in {"failed", "rollback_recommended", "cancelled", "waiting_approval"} THEN mine[r]
    ELSE IF \E s \in Failed(r) : planned[s].kind # "check" THEN "rollback_recommended"
    ELSE IF Failed(r) # {} THEN "failed"
    ELSE IF \A s \in Rows : copy[r][s] \in Done THEN "succeeded"
    ELSE "partially_succeeded"

\* Mutant: the status the executor left is taken as it is.
finalize_run_as_is(r) ==
    /\ does[r] = "end"
    /\ plan' = mine[r]
    /\ Goes(r, "idle")
    /\ UNCHANGED <<planned, approval, run, mine, rollback, step, sound, job, at, copy, trouble>>

finalize_run(r) ==
    /\ does[r] = "end"
    /\ Becomes(r, FinalStatus(r))
    /\ plan' = FinalStatus(r)
    /\ rollback' = IF FinalStatus(r) = "rollback_recommended" THEN rollback \cup {r} ELSE rollback
    /\ Goes(r, "idle")
    /\ UNCHANGED <<planned, approval, step, sound, job, at, copy, trouble>>

---------------------------------------------------------------------------
\* Everybody else.

\* The approval is granted, denied or expires.
DecideApproval ==
    /\ approval.status = "pending"
    /\ \E s \in {"approved", "denied"} : approval' = [approval EXCEPT !.status = s]
    /\ trouble' = (trouble \/ approval'.status = "denied")
    /\ UNCHANGED <<planned, plan, run, rollback, step, sound, job, does, at, copy, mine>>

reject_run(r) ==
    /\ run[r] = "waiting_approval" /\ does[r] = "idle"
    /\ run' = [run EXCEPT ![r] = "cancelled"]
    /\ plan' = "cancelled"
    /\ step' = [step EXCEPT ![at[r]] = "failed"]
    /\ approval' = IF approval.status = "pending"
                   THEN [approval EXCEPT !.status = "denied"] ELSE approval
    /\ trouble' = TRUE
    /\ UNCHANGED <<planned, rollback, sound, job, does, at, copy, mine>>

\* The operation's cancel: writes the rows, and tells neither the executor nor the job.
cancel(r) ==
    /\ run[r] \in {"running", "waiting_approval"}
    /\ run' = [run EXCEPT ![r] = "cancelled"]
    /\ plan' = "cancelled"
    /\ step' = [s \in Steps |->
                  IF step[s] \in {"pending", "running", "requires_approval"}
                  THEN "failed" ELSE step[s]]
    /\ trouble' = TRUE
    /\ UNCHANGED <<planned, approval, rollback, sound, job, does, at, copy, mine>>

\* The request is lost with the Center.  Nothing takes the run up again.
RequestLost(r) ==
    /\ does[r] \in Working
    /\ Goes(r, "gone")
    /\ trouble' = TRUE
    /\ UNCHANGED <<planned, plan, approval, run, rollback, step, sound, job, at, copy, mine>>

---------------------------------------------------------------------------
Execute(r) ==
    \/ run_plan(r) \/ PassStep(r) \/ WaitApproval(r) \/ StopDenied(r) \/ StartJob(r)
    \/ StepRaises(r) \/ StepSucceeds(r) \/ StepFails(r) \/ LastStep(r) \/ finalize_run(r)

Next ==
    \/ approve_plan \/ DecideApproval
    \/ \E r \in Runs :
        \/ AskRun(r) \/ Execute(r) \/ resume_run(r)
        \/ reject_run(r) \/ cancel(r) \/ RequestLost(r)

Spec == Init /\ [][Next]_vars

\* A request that executes a run goes on: every job it waits for has a deadline.
FairSpec == Spec /\ \A r \in Runs : WF_vars(Execute(r))

---------------------------------------------------------------------------
\* Properties.

\* One request works on the plan at a time, and nobody cancels behind its back.
Alone == Cardinality({r \in Runs : run[r] # "none"}) <= 1

\* A run that counts as succeeded left no step failed: a lenient step that raised is
\* found again at the end although the loop has gone on and declared success.
SuccessIsWhole ==
    Alone => \A r \in Runs : run[r] = "succeeded" /\ does[r] = "idle" =>
        \A s \in Rows : step[s] \in Done

\* Steps of the Agent's plans whose function writes, on a node that has one that reads.
Writing ==
    IF planned \in AgentPlans /\ Readers # {}
    THEN {s \in Rows : planned[s].function \in Writers} ELSE {}

\* Every job of a gated step was started on an approval made for this step, and every
\* approval started one job; and so was every job by which a plan of the Agent's changes
\* anything, whatever the provider proposed, unless the node has nothing to look with.
GatedIsApproved ==
    [][\A s \in gated \cup Writing : job[s] # "live" /\ job'[s] = "live" =>
        approval = [status |-> "approved", for |-> s] /\ approval'.status = "consumed"]_vars

\* The request that runs or resumes a plan comes back, whatever its steps do, unless it is
\* lost with the Center.
RunReturns ==
    \A r \in Runs : does[r] \in Working ~> does[r] \in {"idle", "gone"}

\* The executor: "Execute all steps of a plan in order."  A plan that was run once, whose
\* jobs all succeeded and to which nobody objected, succeeds.
PlanSucceeds ==
    Alone /\ ~trouble => \A r \in Runs : run[r] \notin {"failed", "rollback_recommended"}
=============================================================================
