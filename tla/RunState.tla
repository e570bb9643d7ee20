------------------------------- MODULE RunState -------------------------------
(***************************************************************************)
(* What the Center knows of one Agent run: the status of its row, the      *)
(* task state in the row's metadata (what is pending, what blocks, how     *)
(* complete it is) and the plan.  Events move it: the stream records every *)
(* tool result, wait and end in a transaction of its own; the projection   *)
(* of an operation, approve-and-run and the reporter write the same row    *)
(* from their own transactions, but only while it waits for what they are  *)
(* about.  A transaction reads the row and writes the whole metadata back, *)
(* so one that commits between another's read and write is lost.  Of an    *)
(* approval that is only approved or denied the run hears nothing.  The    *)
(* gate lets a final answer pass or sends the model back.                  *)
(*                                                                         *)
(* Stages of the stream:                                                   *)
(*   "thinking"   the provider works                                       *)
(*   "recording"  results are recorded, one after the other                *)
(*   "waiting", "waitingPlan"   the result recorded last was a wait        *)
(*   "gate", "final", "succeed", "succeedPlan"   a final answer            *)
(*   "limit", "refused", "unstored", "fail", "failPlan"   no answer        *)
(*   "over"                                                                *)
(***************************************************************************)
EXTENDS Naturals, FiniteSets

CONSTANTS
    Tools,       \* [cap, node] records: a capability on a node
    Repairable,  \* errors a corrected call may repair, by their code, words or details
    Plain,       \* other errors
    CodeOf,      \* the code of each error; several errors may share it
    MaxCalls,    \* bound: tool calls of the run
    MaxBatch,    \* bound: calls of one answer
    MaxSteps,    \* max_steps of the run
    MaxRaises    \* bound: exceptions in the stream, and clients that go away

VARIABLES
    row,       \* [status, task, waits]: AgentRun.status and the two parts of its metadata
    plan,      \* AgentPlan.status
    stage,     \* of the stream
    steps,     \* iterations begun
    call,      \* each call made: its tool, and what it came to
    next,      \* the next call whose result is to be recorded
    approval,  \* status of the approval a call asked for
    op,        \* status of the operation a call, or its approval, started
    doing,     \* the transaction each session is in
    missed,    \* history: calls whose approval or operation ended unheard by the run
    lost,      \* history: a transaction has overwritten another's
    raises

runVars == <<row, plan, stage, steps, call, next, approval, op, doing, missed, lost, raises>>

Sessions == {"stream", "approver", "projector"}
TERMINAL_AGENT_RUN_STATUSES == {"succeeded", "failed", "cancelled"}
Waiting == {"waiting_operation", "waiting_approval"}
CallNumbers == 1..MaxCalls
Errors == Repairable \cup Plain

NoWait == [approval |-> 0, operation |-> 0]

\* initial_task_state.
NoTask == [approvals |-> {}, operations |-> {}, blockers |-> {}, completion |-> "in_progress"]

Nothing == [work |-> "none", call |-> 0, seen |-> [status |-> "active", task |-> NoTask,
                                                   waits |-> NoWait]]

Init ==
    /\ row = [status |-> "active", task |-> NoTask, waits |-> NoWait]
    /\ plan = "active"
    /\ stage = "thinking" /\ steps = 1
    /\ call = <<>> /\ next = 1
    /\ approval = [c \in CallNumbers |-> "none"]
    /\ op = [c \in CallNumbers |-> "none"]
    /\ doing = [s \in Sessions |-> Nothing]
    /\ missed = {} /\ lost = FALSE /\ raises = 0
---------------------------------------------------------------------------
\* The reducer.

\* _blocker_repaired_by_success: a success of the same capability, or on the same node.
RepairedBy(blocker, tool) == blocker.tool.cap = tool.cap \/ blocker.tool.node = tool.node

\* _resolve_repaired_blockers.
Repair(task, tool) ==
    [task EXCEPT !.blockers = {b \in @ : b.terminal \/ ~RepairedBy(b, tool)}]

\* What a blocker is filed under.
KeyOf(error) == IF error \in DOMAIN CodeOf THEN CodeOf[error] ELSE error

\* _record_blocker: one entry per error code, the last one, whatever the earlier one was.
Block(task, tool, error, terminal) ==
    LET blocker == [error |-> error, tool |-> tool,
                    terminal |-> terminal /\ error \notin Repairable]
    IN  [task EXCEPT !.blockers = {b \in @ : KeyOf(b.error) # KeyOf(error)} \cup {blocker}]

\* Mutant: the approval stays pending once its operation runs.
ApprovedStaysPending(task, c) == [task EXCEPT !.operations = @ \cup {c}]

\* approval.approved of approve-and-run, with the operation it started.
Approved(task, c) == [task EXCEPT !.approvals = @ \ {c}, !.operations = @ \cup {c}]

\* _all_paths_failed.
AllPathsFailed(task) == task.blockers # {} /\ \A b \in task.blockers : b.terminal

\* decide_next_action and apply_decision; ask_user needs missing slots, which nothing
\* ever records.
Decided(task) ==
    [task EXCEPT !.completion =
        IF task.approvals # {} THEN "waiting_approval"
        ELSE IF task.operations # {} THEN "waiting_operation"
        ELSE IF @ \in {"complete", "failed"} THEN @
        ELSE IF AllPathsFailed(task) THEN "failed"
        ELSE "in_progress"]

\* tool.completed, tool.failed, approval.waiting, operation.waiting.
RecordResult(task, c) ==
    LET tool == call[c].tool
        outcome == call[c].outcome
    IN  Decided(
            IF outcome = "succeeded" THEN Repair(task, tool)
            ELSE IF outcome = "waiting_approval" THEN [task EXCEPT !.approvals = @ \cup {c}]
            ELSE IF outcome = "waiting_operation" THEN [task EXCEPT !.operations = @ \cup {c}]
            ELSE Block(task, tool, outcome, FALSE))

\* operation.succeeded and its other ends.
OperationEnded(task, c, how) ==
    LET rest == [task EXCEPT !.operations = @ \ {c}]
    IN  Decided(IF how = "succeeded" THEN Repair(rest, call[c].tool)
                ELSE Block(rest, call[c].tool, how, TRUE))

\* run.completed.
RunCompleted(task) == Decided([task EXCEPT !.completion = "complete"])

\* run.failed.
RunFailed(task) ==
    Decided([Block(task, [cap |-> "", node |-> ""], "run failed", TRUE)
                EXCEPT !.completion = "failed"])

\* Mutant: the gate looks at terminal blockers only.
GateOpen(task) == ~AllPathsFailed(task)

\* final_candidate_gate: only continue_llm keeps the answer back, not the decision to wait.
Gate(task) ==
    \/ Decided(task).completion # "in_progress"
    \/ ~ \E b \in task.blockers : b.error \in Repairable /\ ~b.terminal
---------------------------------------------------------------------------
\* Transactions.

Read(s, work, c) ==
    /\ doing[s].work = "none"
    /\ doing' = [doing EXCEPT ![s] = [work |-> work, call |-> c, seen |-> row]]
    /\ UNCHANGED <<row, plan, stage, steps, call, next, approval, op, missed, lost, raises>>

\* The commit of s, which writes the columns it assigned: status, and the metadata whole.
Write(s, status, task, waits) ==
    LET seen == doing[s].seen
    IN  /\ doing' = [doing EXCEPT ![s] = Nothing]
        /\ row' = [status |-> IF status = seen.status THEN row.status ELSE status,
                   task |-> task, waits |-> waits]
        /\ lost' = (lost \/ [row EXCEPT !.status = ""] # [seen EXCEPT !.status = ""])

WriteTask(s, task) == Write(s, doing[s].seen.status, task, doing[s].seen.waits)

\* A commit that leaves the metadata alone.
WriteStatus(s, status) ==
    /\ doing' = [doing EXCEPT ![s] = Nothing]
    /\ row' = [row EXCEPT !.status = status]
    /\ UNCHANGED lost

\* A commit that leaves the row alone.
Leave(s) == doing' = [doing EXCEPT ![s] = Nothing] /\ UNCHANGED <<row, lost>>

\* update_agent_run_status refuses to leave an end.
MayBecome(seen, status) == seen.status \in TERMINAL_AGENT_RUN_STATUSES => status = seen.status

\* update_agent_plan_status refuses as well, and what was to be written is rolled back.
PlanMayBecome(status) == plan \in TERMINAL_AGENT_RUN_STATUSES => status = plan
---------------------------------------------------------------------------
\* The stream.

\* The stages whose work is a transaction.
StreamReads ==
    /\ stage \notin {"thinking", "over"}
    /\ Read("stream", stage, next)

\* The provider answers with calls of tools and they are executed; operations and
\* approvals begin with it, also when the context service cannot store the results.
Execute ==
    /\ stage = "thinking"
    /\ \E size \in 1..MaxBatch :
          /\ Cardinality(DOMAIN call) + size <= MaxCalls
          /\ \E batch \in [1..size -> [tool : Tools, outcome :
                               Errors \cup Waiting \cup {"succeeded"}]] :
                LET of(c) == batch[c - Cardinality(DOMAIN call)].outcome
                    new == (Cardinality(DOMAIN call) + 1)..(Cardinality(DOMAIN call) + size)
                IN  /\ call' = [c \in DOMAIN call \cup new |->
                          IF c \in new THEN batch[c - Cardinality(DOMAIN call)] ELSE call[c]]
                    /\ approval' = [c \in CallNumbers |->
                          IF c \in new /\ of(c) = "waiting_approval" THEN "pending"
                          ELSE approval[c]]
                    /\ op' = [c \in CallNumbers |->
                          IF c \in new /\ of(c) = "waiting_operation" THEN "running" ELSE op[c]]
    /\ stage' \in {"recording", "unstored"}
    /\ UNCHANGED <<row, plan, steps, next, doing, missed, lost, raises>>

\* The provider answers with a text, or fails.
Answer ==
    /\ stage = "thinking"
    /\ stage' \in {"gate", "refused"}
    /\ UNCHANGED <<row, plan, steps, call, next, approval, op, doing, missed, lost, raises>>

\* The next iteration, or the limit of them.
Iterate ==
    IF steps < MaxSteps THEN stage' = "thinking" /\ steps' = steps + 1
    ELSE stage' = "limit" /\ UNCHANGED steps

\* After a result: the next one, the end of the stream when one of the answer's calls
\* waits, or the next iteration.
Proceed ==
    /\ next' = next + 1
    /\ IF next + 1 \in DOMAIN call THEN stage' = "recording" /\ UNCHANGED steps
       ELSE IF row'.status \in Waiting THEN stage' = "over" /\ UNCHANGED steps
       ELSE Iterate

\* _record_agent_run_tool_step.
CommitResult ==
    /\ doing["stream"].work = "recording"
    /\ WriteTask("stream", RecordResult(doing["stream"].seen.task, next))
    /\ IF call[next].outcome \in Waiting
       THEN stage' = "waiting" /\ UNCHANGED <<steps, next>>
       ELSE Proceed
    /\ UNCHANGED <<plan, call, approval, op, missed, raises>>

\* The checkpoint with the wait, which the row remembers instead of an earlier one.
CommitWait ==
    LET seen == doing["stream"].seen
        outcome == call[next].outcome
    IN  /\ doing["stream"].work = "waiting"
        /\ MayBecome(seen, outcome)
        /\ Write("stream", outcome, seen.task,
                 IF outcome = "waiting_approval" THEN [approval |-> next, operation |-> 0]
                 ELSE [approval |-> 0, operation |-> next])
        /\ stage' = "waitingPlan"
        /\ UNCHANGED <<plan, steps, call, next, approval, op, missed, raises>>

\* _update_agent_plan_checkpoint after a wait.
CommitWaitPlan ==
    /\ doing["stream"].work = "waitingPlan"
    /\ PlanMayBecome(call[next].outcome)
    /\ plan' = call[next].outcome
    /\ doing' = [doing EXCEPT !["stream"] = Nothing]
    /\ next' = next + 1
    /\ stage' = IF next + 1 \in DOMAIN call THEN "recording" ELSE "over"
    /\ UNCHANGED <<row, steps, call, approval, op, missed, lost, raises>>

\* _agent_run_final_candidate_gate, which notes its decision in the metadata.
CommitGate ==
    /\ doing["stream"].work = "gate"
    /\ WriteTask("stream", doing["stream"].seen.task)
    /\ IF Gate(doing["stream"].seen.task) THEN stage' = "final" /\ UNCHANGED steps ELSE Iterate
    /\ UNCHANGED <<plan, call, next, approval, op, missed, raises>>

\* _record_agent_run_final_step.
CommitFinal ==
    /\ doing["stream"].work = "final"
    /\ WriteTask("stream", RunCompleted(doing["stream"].seen.task))
    /\ stage' = "succeed"
    /\ UNCHANGED <<plan, steps, call, next, approval, op, missed, raises>>

\* _record_agent_run_provider_step of a failure.
CommitRefused ==
    /\ doing["stream"].work = "refused"
    /\ WriteTask("stream", RunFailed(doing["stream"].seen.task))
    /\ stage' = "fail"
    /\ UNCHANGED <<plan, steps, call, next, approval, op, missed, raises>>

\* _update_agent_run_checkpoint at the end; after results that could not be stored
\* the stream returns, and the plan stays as it was.
CommitEnd ==
    LET end == IF doing["stream"].work = "succeed" THEN "succeeded" ELSE "failed"
    IN  /\ doing["stream"].work \in {"succeed", "fail", "unstored"}
        /\ MayBecome(doing["stream"].seen, end)
        /\ WriteStatus("stream", end)
        /\ stage' = CASE stage = "succeed" -> "succeedPlan"
                      [] stage = "fail" -> "failPlan"
                      [] stage = "unstored" -> "over"
        /\ UNCHANGED <<plan, steps, call, next, approval, op, missed, raises>>

\* _fail_agent_run_checkpoint: status and event in one transaction.
CommitLimit ==
    LET seen == doing["stream"].seen
    IN  /\ doing["stream"].work = "limit"
        /\ MayBecome(seen, "failed")
        /\ Write("stream", "failed", RunFailed(seen.task), seen.waits)
        /\ stage' = "failPlan"
        /\ UNCHANGED <<plan, steps, call, next, approval, op, missed, raises>>

\* _update_agent_plan_checkpoint at the end.
CommitEndPlan ==
    LET end == IF doing["stream"].work = "succeedPlan" THEN "succeeded" ELSE "failed"
    IN  /\ doing["stream"].work \in {"succeedPlan", "failPlan"}
        /\ PlanMayBecome(end)
        /\ plan' = end
        /\ doing' = [doing EXCEPT !["stream"] = Nothing]
        /\ stage' = "over"
        /\ UNCHANGED <<row, steps, call, next, approval, op, missed, lost, raises>>

\* The client goes away, or an exception: the transaction rolls back, and the stream's
\* own handler fails the run, which raises again when the run is over.
Raise ==
    /\ stage # "over" /\ raises < MaxRaises
    /\ raises' = raises + 1
    /\ doing' = [doing EXCEPT !["stream"] = Nothing]
    /\ stage' \in {"over"} \cup
          (IF row.status \in TERMINAL_AGENT_RUN_STATUSES THEN {} ELSE {"fail"})
    /\ UNCHANGED <<row, plan, steps, call, next, approval, op, missed, lost>>
---------------------------------------------------------------------------
\* Others.

\* append_event_to_latest_waiting_run finds the run only while it waits for c.
Hears(seen, kind, c) == seen.status \in Waiting /\ seen.waits[kind] = c

\* approve_endpoint and deny_endpoint: the decision is committed; the event that tells the
\* run is only flushed after it, and rolled back when the request's session closes.
Decide(c) ==
    /\ approval[c] = "pending"
    /\ approval' \in {[approval EXCEPT ![c] = decision] : decision \in {"approved", "denied"}}
    /\ missed' = missed \cup {c}
    /\ UNCHANGED <<row, plan, stage, steps, call, next, op, doing, lost, raises>>

\* approve-and-run executes, and commits what it started, before it looks for the run.
ApproveAndRun(c) ==
    /\ approval[c] = "pending"
    /\ doing["approver"].work = "none"
    /\ approval' = [approval EXCEPT ![c] = "approved"]
    /\ op' = [op EXCEPT ![c] = "running"]
    /\ doing' = [doing EXCEPT !["approver"] = [Nothing EXCEPT !.work = "started", !.call = c]]
    /\ UNCHANGED <<row, plan, stage, steps, call, next, missed, lost, raises>>

ReadPromotion ==
    /\ doing["approver"].work = "started"
    /\ doing' = [doing EXCEPT !["approver"].work = "promote", !["approver"].seen = row]
    /\ UNCHANGED <<row, plan, stage, steps, call, next, approval, op, missed, lost, raises>>

\* promote_approval_wait_to_operation_wait and the events of approve-and-run.
CommitPromotion ==
    LET c == doing["approver"].call
        seen == doing["approver"].seen
    IN  /\ doing["approver"].work = "promote"
        /\ IF seen.status = "waiting_approval" /\ seen.waits.approval = c
           THEN /\ Write("approver", "waiting_operation", Decided(Approved(seen.task, c)),
                         [approval |-> c, operation |-> c])
                /\ plan' = IF plan = "waiting_approval" THEN "waiting_operation" ELSE plan
                /\ UNCHANGED missed
           ELSE Leave("approver") /\ missed' = missed \cup {c} /\ UNCHANGED plan
        /\ UNCHANGED <<stage, steps, call, next, approval, op, raises>>

\* A projection finds the end of an operation.
ReadEnd(c) ==
    /\ op[c] = "running"
    /\ Read("projector", "end", c)

CommitEndOf(how) ==
    LET c == doing["projector"].call
        seen == doing["projector"].seen
    IN  /\ doing["projector"].work = "end"
        /\ op' = [op EXCEPT ![c] = how]
        /\ IF Hears(seen, "operation", c)
           THEN WriteTask("projector", OperationEnded(seen.task, c, how)) /\ UNCHANGED missed
           ELSE Leave("projector") /\ missed' = missed \cup {c}
        /\ UNCHANGED <<plan, stage, steps, call, next, approval, raises>>

\* The reporter's stream in the session has told the end; it keeps off while this one
\* runs.
ReadReport(c) ==
    /\ stage = "over"
    /\ op[c] \notin {"none", "running"}
    /\ row.status = "waiting_operation" /\ row.waits.operation = c
    /\ Read("projector", "report", c)

\* reconcile_waiting_operation_agent_state.
CommitReport ==
    LET c == doing["projector"].call
        seen == doing["projector"].seen
        end == IF op[c] = "succeeded" THEN "succeeded" ELSE "failed"
    IN  /\ doing["projector"].work = "report"
        /\ PlanMayBecome(end)
        /\ Write("projector", end,
                 IF end = "succeeded" THEN RunCompleted(seen.task) ELSE seen.task, seen.waits)
        /\ plan' = end
        /\ UNCHANGED <<stage, steps, call, next, approval, op, missed, raises>>

\* The plan refuses, and the reconciliation with it.
RollBackReport ==
    /\ doing["projector"].work = "report"
    /\ ~PlanMayBecome(IF op[doing["projector"].call] = "succeeded" THEN "succeeded" ELSE "failed")
    /\ doing' = [doing EXCEPT !["projector"] = Nothing]
    /\ UNCHANGED <<row, plan, stage, steps, call, next, approval, op, missed, lost, raises>>

Next ==
    \/ StreamReads \/ Execute \/ Answer
    \/ CommitResult \/ CommitWait \/ CommitWaitPlan
    \/ CommitGate \/ CommitFinal \/ CommitRefused
    \/ CommitEnd \/ CommitLimit \/ CommitEndPlan
    \/ Raise
    \/ \E c \in DOMAIN call :
          \/ Decide(c)
          \/ ApproveAndRun(c)
          \/ ReadEnd(c)
          \/ ReadReport(c)
    \/ ReadPromotion \/ CommitPromotion
    \/ \E how \in Errors \cup {"succeeded"} : CommitEndOf(how)
    \/ CommitReport \/ RollBackReport

Spec == Init /\ [][Next]_runVars
---------------------------------------------------------------------------
\* Properties.

Recorded == {c \in DOMAIN call : c < next}

\* A run does not end with its own answer while a repairable error stands: when the last
\* error of some code was repairable, a success of the same capability or on the same node
\* followed it (final_candidate_gate: "prevents premature completion").
AnswerIsRepaired ==
    row.status = "succeeded" /\ row.waits = NoWait =>
        \A f \in Recorded :
            LET failed == call[f].outcome
            IN  (/\ failed \in Repairable
                 /\ \A c \in Recorded :
                       c > f /\ call[c].outcome \in Errors =>
                           CodeOf[call[c].outcome] # CodeOf[failed]) =>
                    \E c \in Recorded :
                        /\ c > f /\ call[c].outcome = "succeeded"
                        /\ \/ call[c].tool.cap = call[f].tool.cap
                           \/ call[c].tool.node = call[f].tool.node

\* Through waits, promotions and ends the task state knows what the run waits for, and
\* calls nothing pending that is over, except what was only approved or denied and what
\* ended while the run did not yet wait for it; as long as no transaction overwrote another.
PendingIsOpen ==
    ~lost =>
        /\ (/\ row.status \in Waiting /\ row.waits.operation # 0
            /\ op[row.waits.operation] = "running") =>
                    row.waits.operation \in row.task.operations
        /\ row.status = "waiting_approval" /\ approval[row.waits.approval] = "pending" =>
              row.waits.approval \in row.task.approvals
        /\ \A c \in row.task.operations \ missed : op[c] = "running"
        /\ \A c \in row.task.approvals \ missed :
              doing["approver"].call = c \/ approval[c] = "pending"
=============================================================================
