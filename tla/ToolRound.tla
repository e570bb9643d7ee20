------------------------------ MODULE ToolRound ------------------------------
(***************************************************************************)
(* The loop of one Agent run between the provider and the tools.  In each  *)
(* step the provider answers with text or with a list of tool calls; the   *)
(* calls are checked in order, those that may run side by side are given   *)
(* to concurrent tasks, the others run one after the other, and every call *)
(* gets an answer the provider will read in the next step.  A call may     *)
(* leave something behind that is not over: an approval, an operation, or  *)
(* a job nobody looks at any more.  The stream that runs the loop may be   *)
(* given up at any moment; the tasks it created go on.                     *)
(***************************************************************************)
EXTENDS Naturals, FiniteSets, SequencesExt

CONSTANTS Tools,            \* the functions the provider may call
          Plans,            \* bound: per step, the lists of calls it may answer with
          ExecutionMode,    \* of the session
          ApprovalBypass,   \* the setting approval_bypass_enabled
          MaxSteps,         \* DEFAULT_AGENT_MAX_STEPS
          ConcurrencyMax    \* CONCURRENCY_MAX

Modes == {"auto", "assist", "readonly", "manual"}
Risks == {"safe", "maintenance", "destructive", "catastrophic"}
Effects == {"read", "external", "write", "destructive"}

\* kind: answered by the Center itself, a transfer, or a function of a node.
IsTool(t) ==
    /\ t.kind \in {"meta", "transfer", "node"}
    /\ t.risk \in Risks /\ t.effect \in Effects
    /\ t.policy \in {"allow_parallel", "serialize"}
    /\ t.timeout \in Nat
    /\ t.kind # "node" => t.keys = {}

ASSUME ToolsAssumption == \A t \in Tools : IsTool(t)
ASSUME PlansAssumption == DOMAIN Plans = 1..MaxSteps /\ \A s \in 1..MaxSteps : Plans[s] \subseteq Seq(Tools)
ASSUME SettingsAssumption == ExecutionMode \in Modes /\ ApprovalBypass \in BOOLEAN
ASSUME LimitsAssumption == MaxSteps \in Nat \ {0} /\ ConcurrencyMax \in Nat \ {0}

VARIABLES
    runRow,    \* the row of the run: status, step, and the call it waits for
    stage,     \* where the stream is
    calls,     \* per step, the provider's calls and what has become of them
    group,     \* the calls of this step given to concurrent tasks
    queue,     \* the calls of this step still to run one by one
    results,   \* the answers of this step, in the order the stream met them
    history,   \* per step, the tool messages the provider reads next
    late       \* max_total_duration_sec has passed

roundVars == <<runRow, stage, calls, group, queue, results, history, late>>

Waiting == {"waiting_approval", "waiting_operation"}
RunStatuses == {"running", "succeeded", "failed"} \cup Waiting
\* running: tool_call.failed with final_status running.  error: an exception became tool_call.failed.
Answers == {"none", "succeeded", "failed", "running", "error"} \cup Waiting
Jobs == {"none", "inflight", "succeeded", "failed"}
CallProgress == {"planned", "pending", "polling", "answered", "recorded"}
Calls == [tool : Tools, st : CallProgress, answer : Answers, job : Jobs]
ToolStages == {"preflight", "concurrent", "serial"}
\* closed: the session's mark is removed.  gone: the client left, or the handler of an exception
\* raised another; the mark stays.
Ended == {"closed", "gone"}

RoundInit ==
    /\ runRow = [status |-> "running", step |-> 0, waiting |-> 0]
    /\ stage = "iterate"
    /\ calls = <<>> /\ history = <<>>
    /\ group = {} /\ queue = {} /\ results = <<>>
    /\ late = FALSE

RoundTypeOK ==
    /\ runRow \in [status : RunStatuses, step : 0..MaxSteps, waiting : Nat]
    /\ stage \in {"iterate", "provider", "save"} \cup ToolStages \cup Ended
    /\ calls \in Seq(Seq(Calls))
    /\ group \subseteq Nat /\ queue \subseteq Nat /\ results \in Seq(Nat)
    /\ history \in Seq(Seq(Nat))
    /\ late \in BOOLEAN

----------------------------------------------------------------------------
(* What the Center decides about a call.                                   *)

\* check_policy: the matrix of execution mode and risk.  "conditional" without a whitelist denies.
check_policy(risk) ==
    CASE risk = "safe" -> "allow"
      [] risk = "catastrophic" \/ (risk # "safe" /\ ExecutionMode = "readonly") -> "deny"
      [] risk = "maintenance" /\ ExecutionMode = "auto" -> "allow"
      [] risk = "maintenance" /\ ExecutionMode = "assist" -> "deny"
      [] OTHER -> "ask"

check_policy_l2(t) ==
    IF t.effect \in {"write", "destructive"}
      THEN IF ExecutionMode = "readonly" THEN "deny" ELSE "ask"
      ELSE check_policy(t.risk)

is_concurrent_safe(t) ==
    /\ t.risk = "safe" /\ t.effect = "read"
    /\ ~(t.keys # {} /\ t.policy = "serialize")

requires_serialization(t) ==
    \/ t.policy = "serialize"
    \/ t.effect \in {"write", "destructive"}
    \/ t.risk \in {"maintenance", "destructive", "catastrophic"}

should_create_job_operation(t) ==
    \/ t.timeout > 60
    \/ t.effect \in {"external", "write"} /\ t.timeout > 30
    \/ t.policy = "serialize" /\ t.timeout > 30

InFlight == {c \in UNION {ToSet(calls[s]) : s \in DOMAIN calls} : c.job = "inflight"}

\* A lock of this run's jobs is in the way (those of others are among the failures of Refused).
Locked(t) ==
    /\ requires_serialization(t)
    /\ \E c \in InFlight : requires_serialization(c.tool) /\ c.tool.keys \cap t.keys # {}

----------------------------------------------------------------------------
(* The stream: iterations and the provider.                                *)

Here(i) == calls[runRow.step][i]
Put(i, c) == calls' = [calls EXCEPT ![runRow.step][i] = c]
This == IF runRow.step \in DOMAIN calls THEN DOMAIN calls[runRow.step] ELSE {}
In(st) == {i \in This : Here(i).st = st}

ToolsUnchanged == UNCHANGED <<calls, group, queue, results, history>>

\* A run that has succeeded cannot fail any more: update_agent_run_status raises, out of the
\* handler of the exception, and the mark of the session stays.
Fail ==
    IF runRow.status = "succeeded"
      THEN stage' = "gone" /\ UNCHANGED runRow
      ELSE stage' = "closed" /\ runRow' = [runRow EXCEPT !.status = "failed"]

\* check_initial_constraints: the run has been too long or has had its steps.
LimitsReached == late \/ runRow.step >= MaxSteps

BeginIteration ==
    /\ stage = "iterate"
    /\ IF LimitsReached
         THEN Fail
         ELSE /\ stage' = "provider"
              /\ runRow' = [runRow EXCEPT !.step = @ + 1]
    /\ ToolsUnchanged /\ UNCHANGED late

\* Text without calls is the final answer, unless the gate sends the provider back to its plan.
ProviderFinal ==
    /\ stage = "provider"
    /\ \/ stage' = "iterate" /\ UNCHANGED runRow
       \/ stage' = "save" /\ runRow' = [runRow EXCEPT !.status = "succeeded"]
    /\ calls' = Append(calls, <<>>) /\ history' = Append(history, <<>>)
    /\ UNCHANGED <<group, queue, results, late>>

ProviderCalls ==
    /\ stage = "provider" /\ stage' = "preflight"
    /\ \E plan \in Plans[runRow.step] :
         calls' = Append(calls, [i \in DOMAIN plan |->
                    [tool |-> plan[i], st |-> "planned", answer |-> "none", job |-> "none"]])
    /\ group' = {} /\ queue' = {} /\ results' = <<>>
    /\ UNCHANGED <<runRow, history, late>>

\* The history of a run that ends or waits is saved, the mark removed, the stream closed.
Save ==
    /\ stage = "save" /\ stage' = "closed"
    /\ UNCHANGED runRow /\ ToolsUnchanged /\ UNCHANGED late

\* Any error of the stream's own: the provider's, one of the context service when an answer is
\* stored, the database's, an answer with neither text nor calls.
RunnerFails ==
    /\ stage \notin Ended
    /\ Fail
    /\ ToolsUnchanged /\ UNCHANGED late

\* The client is gone; the coroutine ends where it stands.
Leave ==
    /\ stage \notin Ended /\ stage' = "gone"
    /\ UNCHANGED runRow /\ ToolsUnchanged /\ UNCHANGED late

----------------------------------------------------------------------------
(* execute_tool_calls_scheduled.                                           *)

Answered(c, a) == [c EXCEPT !.st = "answered", !.answer = a]

\* A guard, the target, the policy or a lock is in the way.
Refused(c) == Answered(c, "failed")

\* ToolPreflightApplicationService.check: what the policy would ask about passes as well.
Checked(t) == check_policy_l2(t) # "deny"

\* The calls are checked in order: one that is unknown, circular, outside the working set, not
\* available, or whose check raises, is answered at once, and so is one the policy denies.
Preflight ==
    /\ stage = "preflight" /\ In("answered") = {} /\ In("planned") # {}
    /\ LET i == Min(In("planned"))
       IN  \/ Put(i, Refused(Here(i)))
           \/ /\ Checked(Here(i).tool)
              /\ Put(i, [Here(i) EXCEPT !.st = "pending"])
    /\ UNCHANGED <<runRow, stage, group, queue, results, history, late>>

KeysOf(i) == Here(i).tool.keys
Safe == {i \in In("pending") : is_concurrent_safe(Here(i).tool)}

\* Mutant: keys have no owners.
TogetherAll == Safe

\* resource_key_owners: in the provider's order, a safe call goes with the concurrent ones unless
\* one before it that does owns one of its keys.
Together ==
    CHOOSE owners \in SUBSET Safe :
        \A i \in Safe : i \in owners <=> \A j \in owners : j < i => KeysOf(j) \cap KeysOf(i) = {}

\* Mutant: what lost its key to another call is not executed.
SerialUnsafe == In("pending") \ Safe
\* serial_tools: the others, and the safe ones another owns a key of.
Serial == In("pending") \ Together

Partition ==
    /\ stage = "preflight" /\ In("answered") = {} /\ In("planned") = {}
    /\ stage' = "concurrent"
    /\ group' = Together /\ queue' = Serial
    /\ UNCHANGED <<runRow, calls, results, history, late>>

\* An exception out of the call, or of the session that polls, becomes a failed answer.
Raised(c) == Answered(c, "error")

\* The Center wants to ask a person first, and the setting does not spare it.
Asks(t) == t.kind = "node" /\ check_policy_l2(t) = "ask" /\ ~ApprovalBypass

\* The job is created and committed.
Started(c) == [c EXCEPT !.job = "inflight"]
Admitted(t) == t.kind = "transfer" \/ (t.kind = "node" /\ ~Asks(t) /\ ~Locked(t))

\* A transfer has its operation from the start; its job stands for its session.
LeavesOperation(t) == t.kind = "transfer" \/ should_create_job_operation(t)

\* CenterExecutionRuntime.execute for call i, in one step, and the answer made of its result: a
\* job that has no operation is polled.  After a raise the job may be there.
Execute(i) ==
    LET c == Here(i)
    IN  \/ Put(i, Refused(c))
        \/ Put(i, Raised(c))
        \/ c.tool.kind = "meta" /\ Put(i, Answered(c, "succeeded"))
        \/ Asks(c.tool) /\ Put(i, Answered(c, "waiting_approval"))
        \/ /\ Admitted(c.tool)
           /\ \/ Put(i, Raised(Started(c)))
              \/ LeavesOperation(c.tool) /\ Put(i, Answered(Started(c), "waiting_operation"))
              \/ ~LeavesOperation(c.tool) /\ Put(i, [Started(c) EXCEPT !.st = "polling"])

\* The next of serial_tools: first the unsafe ones, then the others, both in the provider's order.
Foremost ==
    LET unsafe == {i \in queue : ~is_concurrent_safe(Here(i).tool)}
    IN  Min(IF unsafe # {} THEN unsafe ELSE queue)

\* A task passes the semaphore, whether or not the stream that created it is still there.
StartConcurrent(i) ==
    /\ i \in group /\ Here(i).st = "pending"
    /\ Cardinality(In("polling") \cap group) < ConcurrencyMax
    /\ Execute(i)
    /\ UNCHANGED <<runRow, stage, group, queue, results, history, late>>

StartSerial ==
    /\ stage = "serial" /\ queue # {} /\ Here(Foremost).st = "pending"
    /\ Execute(Foremost)
    /\ UNCHANGED <<runRow, stage, group, queue, results, history, late>>

\* Mutant: the job is waited for as long as it takes.
JobAnswerPatient(i) == Here(i).job # "inflight" /\ Put(i, Answered(Here(i), Here(i).job))
\* The job is looked at every half second until the deadline of the run.
JobAnswer(i) ==
    \/ Here(i).job # "inflight" /\ Put(i, Answered(Here(i), Here(i).job))
    \/ late /\ Put(i, Answered(Here(i), "running"))

Poll(i) ==
    /\ Here(i).st = "polling" /\ (i \in group \/ stage = "serial")
    /\ JobAnswer(i)
    /\ UNCHANGED <<runRow, stage, group, queue, results, history, late>>

PollRaises(i) ==
    /\ Here(i).st = "polling" /\ (i \in group \/ stage = "serial")
    /\ Put(i, Raised(Here(i)))
    /\ UNCHANGED <<runRow, stage, group, queue, results, history, late>>

\* The stream meets the answer and the collector stores it; those of the concurrent tasks come
\* as they are completed.
Record(i) ==
    /\ stage \in ToolStages /\ Here(i).st = "answered"
    /\ Put(i, [Here(i) EXCEPT !.st = "recorded"])
    /\ results' = Append(results, i)
    /\ queue' = queue \ {i}
    /\ UNCHANGED <<runRow, stage, group, history, late>>

GroupDone ==
    /\ stage = "concurrent" /\ group \subseteq In("recorded")
    /\ stage' = "serial"
    /\ UNCHANGED runRow /\ ToolsUnchanged /\ UNCHANGED late

\* The results sorted by the provider's order of the calls.
ordered_results ==
    LET order == CHOOSE p \in [DOMAIN results -> DOMAIN results] :
                     /\ ToSet(p) = DOMAIN results
                     /\ \A m, n \in DOMAIN results : m < n => results[p[m]] <= results[p[n]]
    IN  [n \in DOMAIN results |-> results[order[n]]]

\* Mutant: only the last result decides.
LastWaits == results # <<>> /\ Here(Last(ordered_results)).answer \in Waiting
\* observe_tool_results: whether one of the results makes the loop wait.
LoopWaits == \E i \in ToSet(results) : Here(i).answer \in Waiting

\* Each waiting result in turn overwrites what the run waits for.
Observe ==
    /\ stage = "serial" /\ queue = {}
    /\ history' = Append(history, ordered_results)
    /\ LET waits == {i \in ToSet(results) : Here(i).answer \in Waiting}
       IN  runRow' = IF waits = {} THEN runRow
                  ELSE [runRow EXCEPT !.status = Here(Max(waits)).answer, !.waiting = Max(waits)]
    /\ stage' = IF LoopWaits THEN "save" ELSE "iterate"
    /\ UNCHANGED <<calls, group, queue, results, late>>

----------------------------------------------------------------------------
(* The world around.                                                       *)

\* Jobs, transfers and the jobs of operations end when they do.
JobEnds ==
    /\ \E s \in DOMAIN calls : \E i \in DOMAIN calls[s] : \E end \in {"succeeded", "failed"} :
         /\ calls[s][i].job = "inflight"
         /\ calls' = [calls EXCEPT ![s][i].job = end]
    /\ UNCHANGED <<runRow, stage, group, queue, results, history, late>>

TimePasses ==
    /\ ~late /\ late' = TRUE
    /\ UNCHANGED <<runRow, stage>> /\ ToolsUnchanged

RoundStep ==
    \/ BeginIteration \/ ProviderFinal \/ ProviderCalls \/ Save
    \/ Preflight \/ Partition \/ StartSerial \/ GroupDone \/ Observe
    \/ \E i \in This : StartConcurrent(i) \/ Poll(i) \/ Record(i)

RoundNext ==
    \/ RoundStep
    \/ \E i \in This : PollRaises(i)
    \/ RunnerFails \/ Leave
    \/ JobEnds \/ TimePasses

\* The event loop runs what can run, and time goes on; nothing makes a job end.
RoundSpec == RoundInit /\ [][RoundNext]_roundVars /\ WF_roundVars(RoundStep) /\ WF_roundVars(TimePasses)

----------------------------------------------------------------------------
\* Properties.

\* Whatever is refused, raises, waits or runs into the deadline, in whatever order the tasks
\* are completed: the provider reads one answer for each of its calls, in their order
\* (ordered_results).
OneAnswerEach ==
    \A s \in DOMAIN history : history[s] = [i \in DOMAIN calls[s] |-> i]

\* Of two jobs of a step that work on the same resource at once, the Center no longer looks at
\* one: it became an operation, was given up at the deadline, or its polling raised
\* (resource_key_owners, and the concurrent calls before the others).  Two that lock what they
\* work on are never in flight together, whatever became of their calls.
Abandoned(c) == c.answer \in {"waiting_operation", "running", "error"}
CallsApart ==
    \A i, j \in This :
        /\ i # j /\ KeysOf(i) \cap KeysOf(j) # {}
        /\ Here(i).job = "inflight" /\ Here(j).job = "inflight"
        => /\ Abandoned(Here(i)) \/ Abandoned(Here(j))
           /\ ~(requires_serialization(Here(i).tool) /\ requires_serialization(Here(j).tool))

\* The provider is not asked again, and no further call made, while a call of an earlier step
\* waits or has its job in flight: the loop stops for what waits, and the deadline that gives
\* up a job is also the run's own.  Only an exception leaves a job behind.
NextStepAlone ==
    stage \in ToolStages =>
        \A s \in 1..(runRow.step - 1) : \A c \in ToSet(calls[s]) :
            /\ c.answer \notin Waiting
            /\ c.job = "inflight" => c.answer = "error"

\* The stream ends, although a job it looks at may never do.
StreamReturns == <>(stage \in Ended)

----------------------------------------------------------------------------
\* What the code does not do.

\* What the round leaves to wait for is what the run waits for (agent_stream.py: each waiting
\* result overwrites the one before).
NothingForgotten ==
    stage = "closed" /\ runRow.status \in Waiting =>
        \A i \in This : Here(i).answer \in Waiting => i = runRow.waiting

\* Of two calls that name the same resource the one the provider put first is executed first.
OrderOfCalls ==
    \A i, j \in This :
        i < j /\ KeysOf(i) \cap KeysOf(j) # {} /\ Here(j).job # "none" => Here(i).st # "pending"

\* A run that has failed starts no further call.
NothingAfterTheEnd == [][(stage \in Ended) => In("pending")' = In("pending")]_roundVars

\* A call is not refused for the lock of another call of the same answer.
OwnLocksDoNotRefuse ==
    stage = "serial" /\ queue # {} => ~Locked(Here(Foremost).tool) \/ Here(Foremost).job # "none"

\* A call reported as failed has no job that goes on.
FailedIsOver ==
    \A s \in DOMAIN calls : \A c \in ToSet(calls[s]) :
        c.answer \in {"failed", "running", "error"} => c.job # "inflight"
=============================================================================
