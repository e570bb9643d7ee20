---------------------------- MODULE AgentSession ----------------------------
(***************************************************************************)
(* One Agent session of the Center: the streams users open in it, the runs *)
(* these streams leave waiting for an operation or an approval, and the    *)
(* reporter that takes the notification of an ended operation, opens a     *)
(* stream of its own in the session and closes the run that waited         *)
(* (agent/agent_stream.py, services/agent_operation_reporter.py,           *)
(* services/agent_operation_notifications.py).  The reporter keeps off a   *)
(* session that has a stream: streams put the session in a set when they   *)
(* open and take it out when they close.  Whoever reads a stream tells its *)
(* events to a turn, which the console shows and other endpoints read      *)
(* (services/agent_turn_service.py).                                       *)
(*                                                                         *)
(* A stream is the coroutine that works on one run, or drafts a            *)
(* maintenance plan without a run.  Its step:                              *)
(*   "open"      session marked, no row yet                                *)
(*   "thinking"  context, provider and tools, until a wait or an end       *)
(*   "planning"  of a plan: the provider is asked what is wanted           *)
(*   "drafting"  of a plan: its steps are chosen                           *)
(*   "acted"     a tool started an operation or asked for an approval      *)
(*   "waits"     the wait is on the run's row                              *)
(*   "answered"  the run succeeded, or the plan is made                    *)
(*   "failing"   agent.failed is sent                                      *)
(*   "over"      closed: the session is no longer marked                   *)
(*   "dropped"   nobody reads the stream any more                          *)
(***************************************************************************)
EXTENDS JobStatusMachine, FiniteSets

CONSTANTS
    MaxRuns,    \* bound: streams opened in a behaviour
    MaxUsers,   \* bound: how many of them users open
    MaxDrops,   \* bound: clients that go away, restarts, notifications others take or mark,
                \* blocked answers
    Outcomes    \* how operations end

ASSUME SessionAssumption ==
    /\ MaxRuns \in Nat /\ MaxUsers \in Nat /\ MaxDrops \in Nat
    /\ Outcomes \subseteq TERMINAL_STATUSES

Runs == 1..MaxRuns

VARIABLES
    marked,      \* the session is in _active_stream_sessions
    step,        \* what the stream of each run is doing
    held,        \* the stream closed with an answer the gate had not let through
    run,         \* AgentRun.status, the running ones as "active"
    purpose,     \* what the stream was opened for
    turn,        \* AgentTurn.status of the stream, the open ones as "open"
    reportOf,    \* the run whose operation this run reports, 0 for a user's stream
    approval,    \* the approval the run asked for
    op,          \* status of the operation the run waits for or will wait for
    note,        \* AgentOperationNotification.status of that operation
    reporter,    \* what the reporter is doing, and for the operation of which run
    overlapped,  \* history: two streams were once open together
    drops        \* clients that went away, restarts, notifications others took or marked

vars == <<marked, step, held, run, purpose, turn, reportOf, approval, op, note, reporter, overlapped, drops>>

TERMINAL_AGENT_RUN_STATUSES == {"succeeded", "failed", "cancelled"}
Streaming == {"open", "thinking", "planning", "drafting", "acted", "waits", "answered", "failing"}
Paused == {"waiting_approval", "waiting_operation"}

\* Streams without a message of the user's: their turns have suppress_user_message.
Internal == {"resume", "report"}

TypeOK ==
    /\ marked \in BOOLEAN /\ overlapped \in BOOLEAN /\ drops \in 0..MaxDrops
    /\ step \in [Runs -> Streaming \cup {"idle", "over", "dropped"}]
    /\ held \in [Runs -> BOOLEAN]
    /\ run \in [Runs -> {"none", "active"} \cup Paused \cup TERMINAL_AGENT_RUN_STATUSES]
    /\ purpose \in [Runs -> {"message", "plan"} \cup Internal]
    /\ turn \in [Runs -> {"none", "open"} \cup Paused \cup TERMINAL_AGENT_RUN_STATUSES]
    /\ reportOf \in [Runs -> Runs \cup {0}]
    /\ approval \in [Runs -> {"none", "pending", "executed", "decided"}]
    /\ op \in [Runs -> {"none", "running"} \cup TERMINAL_STATUSES]
    /\ note \in [Runs -> {"none", "pending", "processing", "reported", "failed"}]
    /\ reporter \in [at : {"idle", "claimed", "checked", "reading"}, for : Runs \cup {0}]

Nobody == [at |-> "idle", for |-> 0]

Init ==
    /\ marked = FALSE /\ overlapped = FALSE /\ drops = 0
    /\ step = [r \in Runs |-> "idle"]
    /\ held = [r \in Runs |-> FALSE]
    /\ run = [r \in Runs |-> "none"] /\ turn = [r \in Runs |-> "none"]
    /\ purpose = [r \in Runs |-> "message"]
    /\ reportOf = [r \in Runs |-> 0]
    /\ approval = [r \in Runs |-> "none"]
    /\ op = [r \in Runs |-> "none"]
    /\ note = [r \in Runs |-> "none"]
    /\ reporter = Nobody

Incidents == drops + Cardinality({r \in Runs : held[r]})
Busy == \E r \in Runs : step[r] \in Streaming
Goes(r, next) == step' = [step EXCEPT ![r] = next]
Becomes(r, status) == run' = [run EXCEPT ![r] = status]

---------------------------------------------------------------------------
\* The turn of a stream: what its reader makes of the events.

\* Another internal turn ends the internal ones that are still open.
create_agent_turn(r, what) ==
    turn' = [q \in Runs |->
        IF q = r THEN "open"
        ELSE IF what \in Internal /\ purpose[q] \in Internal /\ turn[q] = "open" THEN "failed"
        ELSE turn[q]]

_next_turn_status(current, incoming) ==
    IF current \in Paused /\ incoming = "open" THEN current ELSE incoming

\* Any other event may open a turn again, but does not end a pause.
Tells(r, status) == turn' = [turn EXCEPT ![r] = _next_turn_status(turn[r], status)]

_finalize_unclosed_turn(status) == IF status = "open" THEN "failed" ELSE status

---------------------------------------------------------------------------
\* agent_invoke_stream.

\* Runs are numbered in the order their streams open.
OpenStream(r, what, reported) ==
    /\ step[r] = "idle"
    /\ \A q \in Runs : q < r => step[q] # "idle"
    /\ marked' = TRUE
    /\ Goes(r, "open")
    /\ purpose' = [purpose EXCEPT ![r] = what]
    /\ create_agent_turn(r, what)
    /\ reportOf' = [reportOf EXCEPT ![r] = reported]
    /\ overlapped' = (overlapped \/ Busy)
    /\ UNCHANGED <<held, run, approval, op, note, drops>>

\* The requests that open a stream read what it starts from and change nothing.
UserStream(r, what) ==
    /\ Cardinality({q \in Runs : step[q] # "idle" /\ reportOf[q] = 0}) < MaxUsers
    /\ OpenStream(r, what, 0)
    /\ UNCHANGED reporter

invoke_agent(r) == UserStream(r, "message")

\* The operation is read, and a row with status observing written that nothing moves.
resume_operation(r) == (\E q \in Runs : op[q] # "none") /\ UserStream(r, "resume")

\* The run that is resumed stays as it is: the stream gets a run of its own.
resume_agent_run(r) == (\E q \in Runs : run[q] # "none") /\ UserStream(r, "resume")

resume_last_agent_run(r) ==
    /\ \E q \in Runs : run[q] \in Paused \cup {"failed"}
    /\ UserStream(r, "resume")

agent_plan(r) == UserStream(r, "plan")

\* The depth limit and a missing session end the stream before it has a row.
CreateRun(r) ==
    /\ step[r] = "open" /\ purpose[r] # "plan"
    /\ \/ Goes(r, "thinking") /\ Becomes(r, "active") /\ Tells(r, "open")
       \/ Goes(r, "failing") /\ Tells(r, "failed") /\ UNCHANGED run
    /\ UNCHANGED <<held, marked, purpose, reportOf, approval, op, note, reporter, overlapped, drops>>

\* Provider and tools go on, and open a turn again that another turn has ended.
Continue(r) ==
    /\ step[r] \in {"thinking", "planning", "drafting"}
    /\ Tells(r, "open")
    /\ UNCHANGED <<held, marked, step, run, purpose, reportOf, approval, op, note, reporter, overlapped,
                   drops>>

\* A tool call returns something to wait for.  The job is already on its way.
ExecuteTool(r) ==
    /\ step[r] = "thinking"
    /\ Goes(r, "acted")
    /\ \/ op' = [op EXCEPT ![r] = "running"] /\ Tells(r, "waiting_operation") /\ UNCHANGED approval
       \/ approval' = [approval EXCEPT ![r] = "pending"] /\ Tells(r, "waiting_approval") /\ UNCHANGED op
    /\ UNCHANGED <<held, marked, run, purpose, reportOf, note, reporter, overlapped, drops>>

\* Status and metadata.waiting, in a transaction after the tool's; then agent.observing.
RecordWait(r) ==
    /\ step[r] = "acted"
    /\ Goes(r, "waits")
    /\ Becomes(r, IF approval[r] # "none" THEN "waiting_approval" ELSE "waiting_operation")
    /\ Tells(r, "open")
    /\ UNCHANGED <<held, marked, purpose, reportOf, approval, op, note, reporter, overlapped, drops>>

\* The final answer ends the loop, or the provider, a limit or the YCR does: the YCR also
\* when it cannot store what a tool returned, with the operation already under way.
EndLoop(r) ==
    /\ \/ /\ step[r] = "thinking"
          /\ Goes(r, "answered") /\ Becomes(r, "succeeded") /\ Tells(r, "open")
       \/ /\ step[r] \in {"thinking", "acted"}
          /\ Goes(r, "failing") /\ Becomes(r, "failed") /\ Tells(r, "failed")
    /\ UNCHANGED <<held, marked, purpose, reportOf, approval, op, note, reporter, overlapped, drops>>

\* The loop goes on after an answer that the gate blocks, and final_message stays: when
\* it then comes to a wait, and after some failures, agent.completed is sent all the same.
MayHold(r) ==
    /\ step[r] \in {"waits", "failing"} /\ run[r] # "none"
    /\ Incidents < MaxDrops

ClosedTurn(r) ==
    IF step[r] = "answered" \/ held'[r] THEN "succeeded" ELSE _finalize_unclosed_turn(turn[r])

\* Mutant: a stream that failed does not take the session out of the set.
CloseStreamUnlessFailed(r) ==
    /\ step[r] \in {"waits", "answered"} \/ (step[r] = "failing" /\ reportOf[r] = 0)
    /\ Goes(r, "over")
    /\ \/ MayHold(r) /\ held' = [held EXCEPT ![r] = TRUE]
       \/ UNCHANGED held
    /\ turn' = [turn EXCEPT ![r] = ClosedTurn(r)]
    /\ marked' = (step[r] = "failing")
    /\ UNCHANGED <<run, purpose, reportOf, approval, op, note, reporter, overlapped, drops>>

\* agent.completed, the mark, and stream.close.  The reporter stops reading at
\* agent.failed, so its stream never comes to this.
CloseStream(r) ==
    /\ step[r] \in {"waits", "answered"} \/ (step[r] = "failing" /\ reportOf[r] = 0)
    /\ Goes(r, "over")
    /\ \/ MayHold(r) /\ held' = [held EXCEPT ![r] = TRUE]
       \/ UNCHANGED held
    /\ turn' = [turn EXCEPT ![r] = ClosedTurn(r)]
    /\ marked' = FALSE
    /\ UNCHANGED <<run, purpose, reportOf, approval, op, note, reporter, overlapped, drops>>

\* The client goes away: nothing in the generator runs any more.
Disconnect(r) ==
    /\ step[r] \in Streaming /\ reportOf[r] = 0
    /\ Incidents < MaxDrops
    /\ Goes(r, "dropped")
    /\ drops' = drops + 1
    /\ UNCHANGED <<held, marked, run, purpose, turn, reportOf, approval, op, note, reporter, overlapped>>

---------------------------------------------------------------------------
\* agent_plan_stream: no run, and no tool is called.

PlanUnchanged == UNCHANGED <<held, marked, run, purpose, reportOf, approval, op, note, reporter, overlapped,
                             drops>>

OpenPlan(r) ==
    /\ step[r] = "open" /\ purpose[r] = "plan"
    /\ \/ Goes(r, "planning") /\ Tells(r, "open")
       \/ Goes(r, "failing") /\ Tells(r, "failed")
    /\ PlanUnchanged

\* The provider says what is wanted, or fails.  When it does not answer in time the
\* exception ends the generator where it stands: the session stays marked.
ClassifyIntent(r) ==
    /\ step[r] = "planning"
    /\ \/ Goes(r, "drafting") /\ UNCHANGED turn
       \/ Goes(r, "failing") /\ Tells(r, "failed")
       \/ Goes(r, "dropped") /\ UNCHANGED turn
    /\ PlanUnchanged

\* The plan is made, waiting for an approval when it would repair something, unless a
\* step needs a function that is not available.
CreatePlan(r) ==
    /\ step[r] = "drafting"
    /\ \/ Goes(r, "answered") /\ \E s \in {"open", "waiting_approval"} : Tells(r, s)
       \/ Goes(r, "failing") /\ Tells(r, "failed")
    /\ PlanUnchanged

---------------------------------------------------------------------------
\* The operation and the approval.

\* The status of the row and the notification are written together.
OperationEnds(r) ==
    /\ op[r] = "running"
    /\ \E s \in Outcomes : op' = [op EXCEPT ![r] = s]
    /\ note' = [note EXCEPT ![r] = "pending"]
    /\ UNCHANGED <<held, marked, step, run, purpose, turn, reportOf, approval, reporter, overlapped, drops>>

\* approve-and-run commits the job and its operation and promotes the run later.
\* A denial, an expiry or a plain approve leaves the run as it is.
DecideApproval(r) ==
    /\ approval[r] = "pending"
    /\ \/ /\ approval' = [approval EXCEPT ![r] = "executed"]
          /\ op' = [op EXCEPT ![r] = "running"]
       \/ approval' = [approval EXCEPT ![r] = "decided"] /\ UNCHANGED op
    /\ UNCHANGED <<held, marked, step, run, purpose, turn, reportOf, note, reporter, overlapped, drops>>

\* Mutant: the turn of the run is left as it is.
PromoteRunOnly(r) ==
    /\ approval[r] = "executed"
    /\ approval' = [approval EXCEPT ![r] = "decided"]
    /\ run' = IF run[r] = "waiting_approval"
              THEN [run EXCEPT ![r] = "waiting_operation"] ELSE run
    /\ UNCHANGED <<held, marked, step, purpose, turn, reportOf, op, note, reporter, overlapped, drops>>

\* Only a run that is already waiting is moved to the operation, and its turn with it.
promote_approval_wait_to_operation_wait(r) ==
    /\ approval[r] = "executed"
    /\ approval' = [approval EXCEPT ![r] = "decided"]
    /\ run' = IF run[r] = "waiting_approval"
              THEN [run EXCEPT ![r] = "waiting_operation"] ELSE run
    /\ turn' = IF run[r] = "waiting_approval" /\ turn[r] = "waiting_approval"
               THEN [turn EXCEPT ![r] = "waiting_operation"] ELSE turn
    /\ UNCHANGED <<held, marked, step, purpose, reportOf, op, note, reporter, overlapped, drops>>

---------------------------------------------------------------------------
\* AgentOperationReporter: one notification at a time.

\* Mutant: the session's streams are not looked at.
claim_next_any(r) ==
    /\ reporter = Nobody
    /\ note[r] \in {"pending", "processing"}
    /\ reporter' = [at |-> "claimed", for |-> r]
    /\ note' = [note EXCEPT ![r] = "processing"]
    /\ UNCHANGED <<held, marked, step, run, purpose, turn, reportOf, approval, op, overlapped, drops>>

\* A notification still processing was claimed by a Center that has died, or by somebody else.
claim_next_idle(r) ==
    /\ reporter = Nobody /\ ~marked
    /\ note[r] \in {"pending", "processing"}
    /\ reporter' = [at |-> "claimed", for |-> r]
    /\ note' = [note EXCEPT ![r] = "processing"]
    /\ UNCHANGED <<held, marked, step, run, purpose, turn, reportOf, approval, op, overlapped, drops>>

Finish(r, status) ==
    /\ note' = [note EXCEPT ![r] = status]
    /\ reporter' = Nobody

\* Nothing waits for the operation, or the status, session or provider query raises.
CheckWaiting(r) ==
    /\ reporter = [at |-> "claimed", for |-> r]
    /\ \/ /\ run[r] = "waiting_operation"
          /\ reporter' = [at |-> "checked", for |-> r]
          /\ UNCHANGED note
       \/ run[r] # "waiting_operation" /\ Finish(r, "reported")
       \/ Finish(r, "failed")
    /\ UNCHANGED <<held, marked, step, run, purpose, turn, reportOf, approval, op, overlapped, drops>>

\* q is the run of the report.
OpenReport(r, q) ==
    /\ reporter = [at |-> "checked", for |-> r]
    /\ OpenStream(q, "report", r)
    /\ reporter' = [at |-> "reading", for |-> r]

\* agent.completed was among the events of the report's stream.
Completed(q) == run[q] = "succeeded" \/ held[q]

\* Mutant: a notification that failed is taken again.
ReportFailsRetried(r, q) ==
    /\ reporter = [at |-> "reading", for |-> r]
    /\ reportOf[q] = r
    /\ \/ step[q] = "failing" /\ Goes(q, "dropped")
       \/ step[q] = "over" /\ ~Completed(q) /\ UNCHANGED step
    /\ Finish(r, "pending")
    /\ UNCHANGED <<held, marked, run, purpose, turn, reportOf, approval, op, overlapped, drops>>

\* agent.failed is read and the stream abandoned, or the report itself came to wait
\* with no answer held back.
ReportFails(r, q) ==
    /\ reporter = [at |-> "reading", for |-> r]
    /\ reportOf[q] = r
    /\ \/ step[q] = "failing" /\ Goes(q, "dropped")
       \/ step[q] = "over" /\ ~Completed(q) /\ UNCHANGED step
    /\ Finish(r, "failed")
    /\ UNCHANGED <<held, marked, run, purpose, turn, reportOf, approval, op, overlapped, drops>>

_agent_status_for_operation(s) == IF s = "timeout" THEN "failed" ELSE s

\* The run, its turn and the notification change in one transaction.
reconcile_waiting_operation_agent_state(r, q) ==
    /\ reporter = [at |-> "reading", for |-> r]
    /\ reportOf[q] = r
    /\ step[q] = "over" /\ Completed(q)
    /\ run' = IF run[r] = "waiting_operation"
              THEN [run EXCEPT ![r] = _agent_status_for_operation(op[r])] ELSE run
    /\ turn' = IF run[r] = "waiting_operation" /\ turn[r] = "waiting_operation"
               THEN [turn EXCEPT ![r] = _agent_status_for_operation(op[r])] ELSE turn
    /\ Finish(r, "reported")
    /\ UNCHANGED <<held, marked, step, purpose, reportOf, approval, op, overlapped, drops>>

\* The endpoints by which somebody else takes notifications and answers for them.
claim_operation_notification(r) ==
    /\ note[r] = "pending"
    /\ note' = [note EXCEPT ![r] = "processing"]
    /\ Incidents < MaxDrops
    /\ drops' = drops + 1
    /\ UNCHANGED <<held, marked, step, run, purpose, turn, reportOf, approval, op, reporter, overlapped>>

mark_operation_notification(r) ==
    /\ note[r] # "none"
    /\ \E s \in {"reported", "failed"} : note' = [note EXCEPT ![r] = s]
    /\ Incidents < MaxDrops
    /\ drops' = drops + 1
    /\ UNCHANGED <<held, marked, step, run, purpose, turn, reportOf, approval, op, reporter, overlapped>>

\* The set of marked sessions and every coroutine are gone; runs are not recovered.
CenterRestarts ==
    /\ Incidents < MaxDrops
    /\ drops' = drops + 1
    /\ marked' = FALSE
    /\ step' = [r \in Runs |-> IF step[r] \in Streaming THEN "dropped" ELSE step[r]]
    /\ approval' = [r \in Runs |-> IF approval[r] = "executed" THEN "decided" ELSE approval[r]]
    /\ reporter' = Nobody
    /\ UNCHANGED <<held, run, purpose, turn, reportOf, op, note, overlapped>>

---------------------------------------------------------------------------
StreamStep(r) ==
    \/ CreateRun(r) \/ Continue(r) \/ ExecuteTool(r) \/ RecordWait(r) \/ EndLoop(r)
    \/ OpenPlan(r) \/ ClassifyIntent(r) \/ CreatePlan(r) \/ CloseStream(r)

Report(r) ==
    \/ CheckWaiting(r)
    \/ \E q \in Runs :
        OpenReport(r, q) \/ ReportFails(r, q) \/ reconcile_waiting_operation_agent_state(r, q)

\* What goes on of itself.
GoesOn ==
    \E r \in Runs :
        \/ StreamStep(r) \/ OperationEnds(r) \/ promote_approval_wait_to_operation_wait(r)
        \/ claim_next_idle(r) \/ Report(r)

Request(r) ==
    \/ invoke_agent(r) \/ resume_operation(r) \/ resume_agent_run(r) \/ resume_last_agent_run(r)
    \/ agent_plan(r)
    \/ claim_operation_notification(r) \/ mark_operation_notification(r)

Next ==
    \/ GoesOn
    \/ \E r \in Runs : Request(r) \/ Disconnect(r) \/ DecideApproval(r)
    \/ CenterRestarts

Spec == Init /\ [][Next]_vars

\* Streams, jobs and the reporter go on while any of them can.  None of their actions
\* returns to an earlier state, so they only stop when the session is at rest.
FairSpec == Spec /\ WF_vars(GoesOn)

---------------------------------------------------------------------------
\* Properties.

\* A client went away, the Center restarted, somebody else took or marked a notification,
\* the reporter gave a stream up, or a plan's provider did not answer in time.
Dropped == drops > 0 \/ \E r \in Runs : step[r] = "dropped"

\* As long as streams take turns and each is read to its end, the mark tells the truth:
\* the session is marked exactly while a stream is working in it.
MarkTellsTheTruth == ~overlapped /\ ~Dropped => (marked <=> Busy)

\* A wait that ended well ends as its operation did, whatever the report's own run did.
RunEndsAsOperation ==
    [][\A r \in Runs : run[r] = "waiting_operation" /\ run'[r] # run[r] =>
        /\ op[r] \in TERMINAL_STATUSES
        /\ run'[r] = _agent_status_for_operation(op[r])]_vars

\* The Agent reports an operation once: without a restart, a dropped stream or somebody else
\* who handles notifications, two runs never report the same operation.
ReportedOnce ==
    ~Dropped => \A p, q \in Runs : reportOf[p] # 0 /\ reportOf[p] = reportOf[q] => p = q

\* What the console shows of a stream that was read to its end is what became of its run,
\* except that an answer the gate held back makes it a success: neither the requests and
\* reports that move the run later, nor the turns that take each other for abandoned,
\* leave the two rows saying different things.
TurnFollowsRun ==
    \A r \in Runs : step[r] = "over" =>
        IF run[r] = "none" THEN turn[r] \in {"succeeded", "failed"}
        ELSE turn[r] = run[r] \/ (held[r] /\ turn[r] = "succeeded")

\* A notification is only spent on a run that cannot come to wait any more: of a
\* session whose streams take turns and whose notifications nobody else handles, no run
\* without an approval is left waiting for an operation that counts as reported.
ReportedIsSettled ==
    ~overlapped /\ ~Dropped =>
        \A r \in Runs : note[r] = "reported" /\ approval[r] = "none" =>
            run[r] \in TERMINAL_AGENT_RUN_STATUSES

\* In the end no run is left waiting for an operation that ended, unless its report
\* failed, a dropped stream left the session marked, the notification was spent while
\* the wait was being made, or the bound leaves no stream for the report.
WaitsEnd ==
    <>[](\A r \in Runs :
            run[r] = "waiting_operation" /\ op[r] \in TERMINAL_STATUSES =>
                \/ note[r] \in {"reported", "failed"}
                \/ Dropped
                \/ \A q \in Runs : step[q] # "idle")

=============================================================================
