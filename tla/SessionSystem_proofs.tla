------------------------ MODULE SessionSystem_proofs ------------------------
(***************************************************************************)
(* Proofs about approvals and capability calls (Approval, CapabilityCall), *)
(* for every set of handlers, calls and nodes; about the run of an agent   *)
(* (RunState), for every set of tools and errors, every number of calls,   *)
(* batches, iterations and interruptions; and about the memory of a        *)
(* session (SessionMemory), for every set of turns and sources and every   *)
(* limit of the table, the load, the window and the working set.           *)
(***************************************************************************)
EXTENDS SessionSystem, FiniteSetTheorems, WellFoundedInduction, TLAPS

(***************************************************************************)
(* The invariant behind JobsAreGranted: the committed status says approved *)
(* or consumed only after a commit of an approval.                         *)
(***************************************************************************)
StatusGranted == status \in {"approved", "consumed"} => granted

GInv == StatusGranted /\ JobsAreGranted

\* The types without the bounds on the counters, which the proofs do not need.
Typed ==
    /\ status \in {"none", "pending", "approved"} \cup FinalStatuses
    /\ overdue \in BOOLEAN /\ alone \in BOOLEAN /\ granted \in BOOLEAN /\ refused \in BOOLEAN
    /\ doing \in [Requests -> Decisions \cup {"idle", "expire", "granted", "verified", "consumed"}]
    /\ jobs \in Nat
    /\ stranded \in Nat

\* Every step keeps the types.
LEMMA TypedStep == Typed /\ [Next]_vars => Typed'
<1> SUFFICES ASSUME Typed, [Next]_vars PROVE Typed'
  OBVIOUS
<1> USE DEF Typed, Decisions, FinalStatuses
<1>1. CASE create_approval
  BY <1>1 DEF create_approval
<1>2. ASSUME NEW r \in Requests, NEW d \in Decisions, Decide(r, d) PROVE Typed'
  BY <1>2 DEF Decide, Begin
<1>3. ASSUME NEW r \in Requests, Verify(r) PROVE Typed'
  BY <1>3 DEF Verify, Begin
<1>4. ASSUME NEW r \in Requests, VerifyOwn(r) PROVE Typed'
  BY <1>4 DEF VerifyOwn
<1>5. ASSUME NEW r \in Requests, CommitDecision(r) PROVE Typed'
  BY <1>5 DEF CommitDecision
<1>6. ASSUME NEW r \in Requests, Consume(r) PROVE Typed'
  BY <1>6 DEF Consume
<1>7. ASSUME NEW r \in Requests, CreateJob(r) PROVE Typed'
  BY <1>7 DEF CreateJob
<1>8. ASSUME NEW r \in Requests, Abort(r) PROVE Typed'
  BY <1>8 DEF Abort
<1>9. CASE ScanExpired
  BY <1>9 DEF ScanExpired
<1>10. CASE TimePasses
  BY <1>10 DEF TimePasses
<1>11. CASE UNCHANGED vars
  BY <1>11 DEF vars
<1> QED
  BY <1>1, <1>2, <1>3, <1>4, <1>5, <1>6, <1>7, <1>8, <1>9, <1>10, <1>11 DEF Next

LEMMA InitTyped == Init => Typed
<1> SUFFICES ASSUME Init PROVE Typed
  OBVIOUS
<1>1. status \in {"none", "pending", "approved"} \cup FinalStatuses /\ jobs \in Nat /\ stranded \in Nat
  BY SMT DEF Init
<1>2. overdue \in BOOLEAN /\ alone \in BOOLEAN /\ granted \in BOOLEAN /\ refused \in BOOLEAN
  BY Zenon DEF Init
<1>3. doing \in [Requests -> Decisions \cup {"idle", "expire", "granted", "verified", "consumed"}]
  BY SMT DEF Init
<1> QED
  BY <1>1, <1>2, <1>3 DEF Typed

\* A step of any handler keeps the approval behind what it allowed.
LEMMA GrantedStep == Typed /\ GInv /\ [Next]_vars => GInv'
<1> SUFFICES ASSUME Typed, GInv, [Next]_vars PROVE GInv'
  OBVIOUS
<1> USE DEF Typed, GInv, StatusGranted, JobsAreGranted, Decisions, FinalStatuses
<1>1. CASE create_approval
  BY <1>1 DEF create_approval
<1>2. ASSUME NEW r \in Requests, NEW d \in Decisions, Decide(r, d) PROVE GInv'
  BY <1>2 DEF Decide, Begin
<1>3. ASSUME NEW r \in Requests, Verify(r) PROVE GInv'
  BY <1>3 DEF Verify, Begin
<1>4. ASSUME NEW r \in Requests, VerifyOwn(r) PROVE GInv'
  BY <1>4 DEF VerifyOwn
<1>5. ASSUME NEW r \in Requests, CommitDecision(r) PROVE GInv'
  BY <1>5 DEF CommitDecision
<1>6. ASSUME NEW r \in Requests, Consume(r) PROVE GInv'
  BY <1>6 DEF Consume
<1>7. ASSUME NEW r \in Requests, CreateJob(r) PROVE GInv'
  BY <1>7 DEF CreateJob
<1>8. ASSUME NEW r \in Requests, Abort(r) PROVE GInv'
  BY <1>8 DEF Abort
<1>9. CASE ScanExpired
  BY <1>9 DEF ScanExpired
<1>10. CASE TimePasses
  BY <1>10 DEF TimePasses
<1>11. CASE UNCHANGED vars
  BY <1>11 DEF vars
<1> QED
  BY <1>1, <1>2, <1>3, <1>4, <1>5, <1>6, <1>7, <1>8, <1>9, <1>10, <1>11 DEF Next

\* However many handlers interleave, no job runs on an approval nobody gave.
THEOREM Granted == Spec => []JobsAreGranted
<1>1. Init => Typed /\ GInv
  BY InitTyped DEF Init, GInv, StatusGranted, JobsAreGranted
<1>2. Typed /\ GInv /\ [Next]_vars => Typed' /\ GInv'
  BY TypedStep, GrantedStep
<1>3. GInv => JobsAreGranted
  BY DEF GInv
<1> QED
  BY <1>1, <1>2, <1>3, PTL DEF Spec
-----------------------------------------------------------------------------
\* A final status with no handler at work is the end of the approval: no step leaves it.
THEOREM FinalIsFinal == Spec => FinalOnceQuiet
<1>1. ASSUME Quiet, status \in FinalStatuses, Next
      PROVE  Quiet' /\ status' = status /\ jobs' = jobs
  <2> USE <1>1 DEF Quiet, FinalStatuses
  <2>1. CASE create_approval
    BY <2>1 DEF create_approval
  <2>2. ASSUME NEW r \in Requests, NEW d \in Decisions, Decide(r, d) PROVE FALSE
    BY <2>2 DEF Decide
  <2>3. ASSUME NEW r \in Requests, Verify(r) PROVE FALSE
    BY <2>3 DEF Verify
  <2>4. ASSUME NEW r \in Requests, VerifyOwn(r) PROVE FALSE
    BY <2>4 DEF VerifyOwn
  <2>5. ASSUME NEW r \in Requests, CommitDecision(r) PROVE FALSE
    BY <2>5 DEF CommitDecision
  <2>6. ASSUME NEW r \in Requests, Consume(r) PROVE FALSE
    BY <2>6 DEF Consume
  <2>7. ASSUME NEW r \in Requests, CreateJob(r) PROVE FALSE
    BY <2>7 DEF CreateJob
  <2>8. ASSUME NEW r \in Requests, Abort(r) PROVE FALSE
    BY <2>8 DEF Abort
  <2>9. CASE ScanExpired
    BY <2>9 DEF ScanExpired
  <2>10. CASE TimePasses
    BY <2>10 DEF TimePasses
  <2> QED
    BY <2>1, <2>2, <2>3, <2>4, <2>5, <2>6, <2>7, <2>8, <2>9, <2>10 DEF Next
<1>2. [Next]_vars => [Quiet /\ status \in FinalStatuses => Quiet' /\ status' = status /\ jobs' = jobs]_vars
  BY <1>1
<1> QED
  BY <1>2, PTL DEF Spec, FinalOnceQuiet
-----------------------------------------------------------------------------
(***************************************************************************)
(* While no two handlers were in progress together, the row a handler      *)
(* holds is the row: what it is about to do determines the status.         *)
(***************************************************************************)
OnlyOne == \A r, s \in Requests : doing[r] # "idle" /\ doing[s] # "idle" => r = s

RowIsCurrent == \A r \in Requests :
    /\ doing[r] # "idle" =>
          \/ doing[r] \in Decisions \cup {"expire"} /\ status \in {"pending", "expired"}
          \/ doing[r] \in {"granted", "verified"} /\ status = "approved"
          \/ doing[r] = "consumed" /\ status = "consumed"
    /\ doing[r] = "consumed" => jobs = 0

OInv == alone =>
    /\ OnlyOne
    /\ RowIsCurrent
    /\ status # "consumed" => jobs = 0
    /\ jobs <= 1
    /\ refused => status = "denied"

\* Every step keeps it: a handler that begins beside another one ends the premise.
LEMMA AloneStep == Typed /\ OInv /\ [Next]_vars => OInv'
<1> SUFFICES ASSUME Typed, OInv, [Next]_vars, alone' PROVE OInv'
  BY DEF OInv
<1> USE DEF Typed, OInv, OnlyOne, RowIsCurrent, Decisions, FinalStatuses
<1>1. CASE create_approval
  BY <1>1 DEF create_approval
<1>2. ASSUME NEW r \in Requests, NEW d \in Decisions, Decide(r, d) PROVE OInv'
  <2>1. alone /\ Quiet
    BY <1>2, Zenon DEF Decide, Begin
  <2> QED
    BY <1>2, <2>1 DEF Decide, Begin, Quiet
<1>3. ASSUME NEW r \in Requests, Verify(r) PROVE OInv'
  <2>1. alone /\ Quiet
    BY <1>3, Zenon DEF Verify, Begin
  <2> QED
    BY <1>3, <2>1 DEF Verify, Begin, Quiet
<1>4. ASSUME NEW r \in Requests, VerifyOwn(r) PROVE OInv'
  BY <1>4 DEF VerifyOwn
<1>5. ASSUME NEW r \in Requests, CommitDecision(r) PROVE OInv'
  BY <1>5 DEF CommitDecision
<1>6. ASSUME NEW r \in Requests, Consume(r) PROVE OInv'
  BY <1>6 DEF Consume
<1>7. ASSUME NEW r \in Requests, CreateJob(r) PROVE OInv'
  BY <1>7 DEF CreateJob
<1>8. ASSUME NEW r \in Requests, Abort(r) PROVE OInv'
  BY <1>8 DEF Abort
<1>9. CASE ScanExpired
  BY <1>9 DEF ScanExpired
<1>10. CASE TimePasses
  BY <1>10 DEF TimePasses
<1>11. CASE UNCHANGED vars
  BY <1>11 DEF vars
<1> QED
  BY <1>1, <1>2, <1>3, <1>4, <1>5, <1>6, <1>7, <1>8, <1>9, <1>10, <1>11 DEF Next

\* As long as requests come one at a time an approval is used once, and never after a
\* denial, whatever the scanner, the clock and crashes do in between.
THEOREM AloneIsSafe == Spec => [](UsedOnce /\ DeniedNeverRuns)
<1>1. Init => Typed /\ OInv
  BY InitTyped DEF Init, OInv, OnlyOne, RowIsCurrent
<1>2. Typed /\ OInv /\ [Next]_vars => Typed' /\ OInv'
  BY TypedStep, AloneStep
<1>3. Typed /\ OInv => UsedOnce /\ DeniedNeverRuns
  BY DEF Typed, OInv, UsedOnce, DeniedNeverRuns
<1> QED
  BY <1>1, <1>2, <1>3, PTL DEF Spec
-----------------------------------------------------------------------------
(***************************************************************************)
(* The approval inside CapabilityCall is the one of Approval, so what was  *)
(* proved of it holds there.                                               *)
(***************************************************************************)

\* A step of the calls is a step of the approval or leaves it alone.
LEMMA CallStep == [CallNext]_allVars => [Next]_vars
<1> SUFFICES ASSUME CallNext PROVE [Next]_vars
  BY DEF allVars
<1>1. ASSUME NEW n \in Nodes, NEW d \in Policies, Report(n, d) PROVE UNCHANGED vars
  BY <1>1 DEF Report
<1>2. ASSUME NEW n \in Nodes, Withdraw(n) \/ Lose(n) PROVE UNCHANGED vars
  BY <1>2 DEF Withdraw, Lose
<1>3. ASSUME NEW c \in Calls, NEW n \in Nodes \cup {Any}, Preflight(c, n) PROVE UNCHANGED vars
  BY <1>3 DEF Preflight
<1>4. ASSUME NEW c \in Calls, Refuse(c) \/ Start(c) \/ Dispatch(c) PROVE UNCHANGED vars
  BY <1>4 DEF Refuse, Start, Dispatch
<1>5. ASSUME NEW c \in Calls, AskApproval(c) PROVE Next
  BY <1>5 DEF AskApproval, Next
<1>6. ASSUME NEW r \in Requests, NEW n \in Nodes, Present(r, n) PROVE Next
  BY <1>6 DEF Present, Next
<1>7. ASSUME NEW r \in Requests, RunApproved(r) \/ DispatchApproved(r) \/ AbortApproved(r)
      PROVE  Next
  BY <1>7 DEF RunApproved, DispatchApproved, AbortApproved, Next
<1>8. CASE Handle
  BY <1>8 DEF Handle, Next
<1> QED
  BY <1>1, <1>2, <1>3, <1>4, <1>5, <1>6, <1>7, <1>8 DEF CallNext

\* CapabilityCall implements Approval.
THEOREM Implements == CallSpec => Spec
<1>1. CallInit => Init
  BY DEF CallInit
<1> QED
  BY <1>1, CallStep, PTL DEF CallSpec, Spec

(***************************************************************************)
(* The invariant behind GatedJobsAreGranted: a call that was started is    *)
(* one the policy allowed; what an execution resolved is the node the      *)
(* approval was asked for, which no step changes while it is under way.    *)
(***************************************************************************)
StartedIsAllowed == \A c \in Calls : call[c].stage = "started" => call[c].policy = "allow"

RunsWhatWasAsked ==
    \A r \in Requests : doing[r] \in {"verified", "consumed"} => run[r].node = asked

Unasked == status = "none" => Quiet /\ \A job \in made : ~job.approved

CInv == StartedIsAllowed /\ RunsWhatWasAsked /\ Unasked /\ GatedJobsAreGranted

Domains == DOMAIN call = Calls /\ DOMAIN run = Requests

LEMMA DomainsStep == Domains /\ [CallNext]_allVars => Domains'
<1> SUFFICES ASSUME Domains, [CallNext]_allVars PROVE Domains'
  OBVIOUS
<1> USE DEF Domains
<1>1. CASE UNCHANGED allVars
  BY <1>1 DEF allVars, callVars
<1>2. CASE CallNext
  BY <1>2 DEF CallNext, Report, Withdraw, Lose, Preflight, Refuse, AskApproval, Start, Dispatch, EndCall,
              Present, RunApproved, DispatchApproved, AbortApproved, Handle, callVars
<1> QED
  BY <1>1, <1>2

LEMMA CallInvStep == Typed /\ GInv /\ Domains /\ CInv /\ [CallNext]_allVars => CInv'
<1> SUFFICES ASSUME Typed, GInv, Domains, CInv, [CallNext]_allVars PROVE CInv'
  OBVIOUS
<1> USE DEF Domains, CInv, StartedIsAllowed, RunsWhatWasAsked, Unasked, GatedJobsAreGranted, Quiet
<1>1. ASSUME NEW n \in Nodes, NEW d \in Policies, Report(n, d) PROVE CInv'
  BY <1>1 DEF Report, vars
<1>2. ASSUME NEW n \in Nodes, Withdraw(n) \/ Lose(n) PROVE CInv'
  BY <1>2 DEF Withdraw, Lose, vars
<1>3. ASSUME NEW c \in Calls, NEW n \in Nodes \cup {Any}, Preflight(c, n) PROVE CInv'
  BY <1>3 DEF Preflight, Work, vars
<1>4. ASSUME NEW c \in Calls, Refuse(c) PROVE CInv'
  BY <1>4 DEF Refuse, EndCall, NoCall, Work, vars
<1>5. ASSUME NEW c \in Calls, AskApproval(c) PROVE CInv'
  <2>1. StartedIsAllowed'
    BY <1>5 DEF AskApproval, EndCall, NoCall, Work
  <2>2. RunsWhatWasAsked' /\ Unasked'
    BY <1>5 DEF AskApproval, create_approval
  <2>3. GatedJobsAreGranted'
    BY <1>5 DEF AskApproval, create_approval
  <2> QED
    BY <2>1, <2>2, <2>3
<1>6. ASSUME NEW c \in Calls, Start(c) PROVE CInv'
  BY <1>6 DEF Start, PolicyAt, Work, vars
<1>7. ASSUME NEW c \in Calls, Dispatch(c) PROVE CInv'
  BY <1>7 DEF Dispatch, EndCall, NoCall, Work, Job, vars
<1>8. ASSUME NEW r \in Requests, NEW n \in Nodes, Present(r, n) PROVE CInv'
  BY <1>8 DEF Present, SameRequest, Verify, Begin, Work, Typed
<1>9. ASSUME NEW r \in Requests, RunApproved(r) PROVE CInv'
  BY <1>9 DEF RunApproved, VerifyOwn, Work, Typed
<1>10. ASSUME NEW r \in Requests, DispatchApproved(r) PROVE CInv'
  <2>1. granted /\ run[r].node = asked /\ granted' = granted /\ asked' = asked
    BY <1>10 DEF DispatchApproved, CreateJob, GInv, JobsAreGranted
  <2>2. made' \subseteq made \cup {Job(run[r].node, run[r].policy, TRUE)}
    BY <1>10 DEF DispatchApproved
  <2>3. GatedJobsAreGranted'
    BY <2>1, <2>2 DEF Job
  <2>4. StartedIsAllowed' /\ RunsWhatWasAsked' /\ Unasked'
    BY <1>10 DEF DispatchApproved, CreateJob, Typed
  <2> QED
    BY <2>3, <2>4
<1>11. ASSUME NEW r \in Requests, AbortApproved(r) PROVE CInv'
  BY <1>11 DEF AbortApproved, Abort, Typed
<1>12. CASE Handle
  <2>1. StartedIsAllowed'
    BY <1>12 DEF Handle, callVars
  <2>2. ASSUME NEW r \in Requests, NEW d \in Decisions, Decide(r, d) PROVE CInv'
    BY <1>12, <2>2 DEF Handle, callVars, Decide, Begin, Decisions, Typed
  <2>3. ASSUME NEW r \in Requests, CommitDecision(r) PROVE CInv'
    BY <1>12, <2>3 DEF Handle, callVars, CommitDecision, Typed
  <2>4. ASSUME NEW r \in Requests, Consume(r) PROVE CInv'
    BY <1>12, <2>4 DEF Handle, callVars, Consume, Typed
  <2>5. CASE ScanExpired \/ TimePasses
    BY <1>12, <2>5 DEF Handle, callVars, ScanExpired, TimePasses
  <2> QED
    BY <1>12, <2>2, <2>3, <2>4, <2>5 DEF Handle
<1>13. CASE UNCHANGED allVars
  BY <1>13 DEF allVars, callVars, vars
<1> QED
  BY <1>1, <1>2, <1>3, <1>4, <1>5, <1>6, <1>7, <1>8, <1>9, <1>10, <1>11, <1>12, <1>13
     DEF CallNext

\* Whatever nodes register and lose, calls and approvals do at the same time, a job the
\* policy gates has an approval of its node behind it; and so in the session as a whole.
THEOREM GatedIsGranted ==
    /\ CallSpec => []GatedJobsAreGranted
    /\ SystemSpec => []GatedJobsAreGranted
<1>1. CallInit => Typed /\ GInv /\ Domains /\ CInv
  <2> SUFFICES ASSUME CallInit PROVE Typed /\ GInv /\ Domains /\ CInv
    OBVIOUS
  <2>1. Typed /\ GInv
    BY InitTyped DEF CallInit, Init, GInv, StatusGranted, JobsAreGranted
  <2>2. Domains /\ CInv
    BY DEF CallInit, Init, NoCall, Work, Domains, CInv, StartedIsAllowed, RunsWhatWasAsked,
           Unasked, Quiet, GatedJobsAreGranted
  <2> QED
    BY <2>1, <2>2
<1>2. Typed /\ GInv /\ Domains /\ CInv /\ [CallNext]_allVars
        => Typed' /\ GInv' /\ Domains' /\ CInv'
  BY CallStep, TypedStep, GrantedStep, DomainsStep, CallInvStep
<1>3. CInv => GatedJobsAreGranted
  BY DEF CInv
<1>4. (SystemInit => CallInit) /\ ([SystemNext]_systemVars => [CallNext]_allVars)
  BY DEF SystemInit, SystemNext, systemVars
<1> QED
  BY <1>1, <1>2, <1>3, <1>4, PTL DEF CallSpec, SystemSpec

---------------------------------------------------------------------------
(* The state of one run.                                                   *)

RunStatuses == {"active"} \cup Run!Waiting \cup Run!TERMINAL_AGENT_RUN_STATUSES
Stages == {"thinking", "recording", "waiting", "waitingPlan", "gate", "final", "succeed", "succeedPlan",
           "limit", "refused", "unstored", "fail", "failPlan", "over"}
Outcomes == Run!Errors \cup Run!Waiting \cup {"succeeded"}
Positive == Nat \ {0}
NoTool == [cap |-> "", node |-> ""]
BlockedTools == Tools \cup {NoTool}
BlockerErrors == Run!Errors \cup {"run failed"}
Blockers == [error : BlockerErrors, tool : BlockedTools, terminal : BOOLEAN]
Tasks == [approvals : SUBSET Positive, operations : SUBSET Positive, blockers : SUBSET Blockers,
          completion : {"in_progress", "waiting_approval", "waiting_operation", "complete", "failed"}]
Waits == [approval : Nat, operation : Nat]
Rows == [status : RunStatuses, task : Tasks, waits : Waits]
Transactions ==
    [work : {"none", "started", "promote", "end", "report"} \cup Stages,
     call : Nat, seen : Rows]

\* Calls are numbered in the order in which they are made and recorded.
CallsNumbered ==
    \E n \in 0..MaxToolCalls :
        /\ toolCall \in [1..n -> [tool : Tools, outcome : Outcomes]]
        /\ next \in 1..n + 1
        /\ stage \in {"thinking", "gate", "final"} => next = n + 1
        /\ stage \in {"recording", "waiting", "waitingPlan", "unstored"} => next <= n
        /\ stage \in {"waiting", "waitingPlan"} => toolCall[next].outcome \in Run!Waiting

RunTyped ==
    /\ row \in Rows
    /\ stage \in Stages
    /\ approval \in [1..MaxToolCalls -> {"none", "pending", "approved", "denied"}]
    /\ op \in [1..MaxToolCalls -> {"none", "running", "succeeded"} \cup Run!Errors]
    /\ working \in [Run!Sessions -> Transactions]
    /\ lost \in BOOLEAN
    /\ CallsNumbered

\* A transaction of a session is of the kind the session makes.
WorkFits ==
    /\ working["stream"].work \in {"none", stage}
    /\ stage \in {"thinking", "over"} => working["stream"].work = "none"
    /\ working["approver"].work \in {"none", "started", "promote"}
    /\ working["projector"].work \in {"none", "end", "report"}
    /\ working["approver"].work = "none" => working["approver"].call = 0
    /\ \A s \in {"approver", "projector"} : working[s].work # "none" => working[s].call \in DOMAIN toolCall
    /\ working["projector"].work = "report" =>
          working["projector"].seen.waits.operation = working["projector"].call

\* A run that has not begun to wait is written by its stream only.
NoWaitNoOther ==
    /\ row.waits = Run!NoWait => \A s \in Run!Sessions : working[s].seen.waits = Run!NoWait
    /\ working["stream"].work # "none" /\ working["stream"].seen.waits = Run!NoWait =>
          working["stream"].seen = row
    /\ stage = "waitingPlan" => row.waits # Run!NoWait

\* A repairable error with which the last recorded failure of its code came.
LastFailed(c) ==
    /\ c \in Run!Recorded /\ toolCall[c].outcome \in Repairable
    /\ \A d \in Run!Recorded : d > c /\ toolCall[d].outcome \in Run!Errors =>
          CodeOf[toolCall[d].outcome] # CodeOf[toolCall[c].outcome]
RepairedLater(c) ==
    \E d \in Run!Recorded :
        /\ d > c /\ toolCall[d].outcome = "succeeded"
        /\ toolCall[d].tool.cap = toolCall[c].tool.cap \/ toolCall[d].tool.node = toolCall[c].tool.node
AllRepaired == \A c \in DOMAIN toolCall : LastFailed(c) => RepairedLater(c)

\* Before a run waits, its blockers are the failures no success has repaired.
FailuresTold(task) ==
    /\ task.approvals = {} /\ task.operations = {} /\ task.completion = "in_progress"
    /\ \A b \in task.blockers : ~b.terminal
    /\ \A c \in DOMAIN toolCall : LastFailed(c) =>
         \/ RepairedLater(c)
         \/ \E b \in task.blockers : b.error = toolCall[c].outcome /\ b.tool = toolCall[c].tool
BlockersTell ==
    row.waits = Run!NoWait /\ stage \in {"thinking", "recording", "gate"} => FailuresTold(row.task)

AnswerPassed ==
    /\ row.waits = Run!NoWait /\ stage \in {"final", "succeed"} => AllRepaired
    /\ row.waits = Run!NoWait /\ row.status = "succeeded" => stage \in {"succeedPlan", "over"} /\ AllRepaired

AnswerInv == RunTyped /\ WorkFits /\ NoWaitNoOther /\ BlockersTell /\ AnswerPassed

\* What the approval and the operation of a call are there for.
Promoting(c) == working["approver"].work \in {"started", "promote"} /\ working["approver"].call = c
CallsHaveKinds ==
    /\ \A c \in 1..MaxToolCalls :
        /\ approval[c] # "none" => c \in DOMAIN toolCall /\ toolCall[c].outcome = "waiting_approval"
        /\ op[c] # "none" => c \in DOMAIN toolCall /\
              \/ toolCall[c].outcome = "waiting_operation"
              \/ toolCall[c].outcome = "waiting_approval" /\ approval[c] = "approved"
        /\ Promoting(c) => approval[c] = "approved" /\ (op[c] = "running" \/ c \in missed)
        /\ working["projector"].work = "end" /\ working["projector"].call = c => op[c] = "running"
    /\ working["projector"].work = "report" => stage = "over"

SeenWaits == {row.waits} \cup {working[s].seen.waits : s \in Run!Sessions}
\* What a run waits for was recorded before.
WaitIsOld(w) ==
    /\ w.operation # 0 =>
          /\ w.operation \in DOMAIN toolCall /\ w.operation <= next
          /\ \/ toolCall[w.operation].outcome = "waiting_operation"
             \/ /\ toolCall[w.operation].outcome = "waiting_approval"
                /\ approval[w.operation] = "approved" /\ ~Promoting(w.operation)
    /\ w.approval # 0 =>
          /\ w.approval \in DOMAIN toolCall /\ w.approval <= next
          /\ toolCall[w.approval].outcome = "waiting_approval"
    /\ stage \in {"thinking", "recording", "waiting", "gate"} => w.operation # next /\ w.approval # next
WaitsAreOld == \A w \in SeenWaits : WaitIsOld(w)

\* Calls whose result the run has not recorded.
Unrecorded == {c \in DOMAIN toolCall : \/ stage \in {"recording", "waiting", "waitingPlan"} /\ c > next
                                       \/ stage = "recording" /\ c = next}
\* They are open still, but for those whose end no run has heard of.
UnrecordedIsOpen ==
    \A c \in Unrecorded :
        /\ toolCall[c].outcome = "waiting_operation" => op[c] = "running" \/ c \in missed
        /\ toolCall[c].outcome = "waiting_approval" =>
              approval[c] = "pending" \/ c \in missed \/ working["approver"].call = c

\* The status goes with the wait, in the row and in what the stream has read of it.
StatusIsWait ==
    ~lost =>
        /\ row.status = "waiting_approval" => row.waits.approval # 0
        /\ working["stream"].work # "none" /\ working["stream"].seen.status # row.status =>
              working["stream"].seen.waits # row.waits

\* What the run waits for, or is about to wait for, and what its task state calls pending.
Awaited(c, kind) ==
    \/ c = row.waits[kind]
    \/ /\ stage = "waiting" /\ c = next
       /\ toolCall[c].outcome = (IF kind = "operation" THEN "waiting_operation" ELSE "waiting_approval")
PendingTold ==
    ~lost =>
        /\ \A c \in DOMAIN toolCall : Awaited(c, "operation") /\ op[c] = "running" => c \in row.task.operations
        /\ \A c \in DOMAIN toolCall : Awaited(c, "approval") /\ approval[c] = "pending" => c \in row.task.approvals
        /\ \A c \in row.task.operations \ missed : c \in DOMAIN toolCall /\ op[c] = "running"
        /\ \A c \in row.task.approvals \ missed :
             c \in DOMAIN toolCall /\ (working["approver"].call = c \/ approval[c] = "pending")

LEMMA StageNames ==
    /\ Run!Sessions = {"stream", "approver", "projector"}
    /\ Run!TERMINAL_AGENT_RUN_STATUSES = {"succeeded", "failed", "cancelled"}
    /\ Run!Waiting = {"waiting_operation", "waiting_approval"}
    /\ RunStatuses = {"active", "waiting_operation", "waiting_approval", "succeeded", "failed", "cancelled"}
  BY DEF Run!Sessions, Run!TERMINAL_AGENT_RUN_STATUSES, Run!Waiting, RunStatuses

\* What blockers are about.
LEMMA Blockable ==
    /\ NoTool \in BlockedTools /\ \A tool \in Tools : tool \in BlockedTools
    /\ \A code \in Run!Errors : code \in BlockerErrors
    /\ "run failed" \in BlockerErrors
  BY DEF NoTool, BlockedTools, BlockerErrors

\* What the operators of the reducer do to a task state.
LEMMA DecidedIs ==
    ASSUME NEW task \in Tasks
    PROVE  /\ Run!Decided(task) \in Tasks
           /\ Run!Decided(task).approvals = task.approvals
           /\ Run!Decided(task).operations = task.operations
           /\ Run!Decided(task).blockers = task.blockers
           /\ task.approvals = {} /\ task.operations = {} =>
                /\ Run!AllPathsFailed(task) \/ Run!Decided(task).completion = "in_progress"
                      \/ task.completion \in {"complete", "failed"}
                /\ Run!Decided(task).completion \in {"complete", "failed", "in_progress"}
  BY DEF Tasks, Run!Decided

LEMMA RepairIs ==
    ASSUME NEW task \in Tasks, NEW tool
    PROVE  /\ Run!Repair(task, tool) \in Tasks
           /\ Run!Repair(task, tool).approvals = task.approvals
           /\ Run!Repair(task, tool).operations = task.operations
           /\ Run!Repair(task, tool).completion = task.completion
           /\ Run!Repair(task, tool).blockers =
                {b \in task.blockers : b.terminal \/ ~Run!RepairedBy(b, tool)}
  BY DEF Tasks, Run!Repair

LEMMA BlockIs ==
    ASSUME NEW task \in Tasks, NEW tool, tool \in BlockedTools,
           NEW error, error \in BlockerErrors, NEW terminal, terminal \in BOOLEAN
    PROVE  /\ Run!Block(task, tool, error, terminal) \in Tasks
           /\ Run!Block(task, tool, error, terminal).approvals = task.approvals
           /\ Run!Block(task, tool, error, terminal).operations = task.operations
           /\ Run!Block(task, tool, error, terminal).completion = task.completion
<1>. DEFINE blocker == [error |-> error, tool |-> tool,
                        terminal |-> terminal /\ error \notin Repairable]
            set == {b \in task.blockers : Run!KeyOf(b.error) # Run!KeyOf(error)} \cup {blocker}
<1>1. blocker \in Blockers
  <2>1. (terminal /\ error \notin Repairable) \in BOOLEAN
    OBVIOUS
  <2>. QED BY <2>1, Zenon DEF Blockers
<1>2. set \subseteq Blockers
  <2>. HIDE DEF blocker
  <2>. QED BY <1>1 DEF Tasks
<1>3. Run!Block(task, tool, error, terminal) = [task EXCEPT !.blockers = set]
  BY DEF Run!Block
<1>. HIDE DEF set
<1>. QED BY <1>2, <1>3 DEF Tasks

\* A failure that a corrected call may repair, and one that is final.
Failure(task, tool, error) == Run!Block(task, tool, error, FALSE)
FinalFailure(task, tool, error) == Run!Block(task, tool, error, TRUE)

LEMMA BlockedIs ==
    ASSUME NEW task \in Tasks, NEW tool, tool \in BlockedTools, NEW error, error \in BlockerErrors,
           NEW new, new \in {Failure(task, tool, error), FinalFailure(task, tool, error)}
    PROVE  /\ new \in Tasks
           /\ new.approvals = task.approvals
           /\ new.operations = task.operations
           /\ new.completion = task.completion
<1>1. PICK terminal \in BOOLEAN : new = Run!Block(task, tool, error, terminal)
  BY Zenon DEF Failure, FinalFailure
<1>. QED BY <1>1, BlockIs

LEMMA CompletionIs ==
    ASSUME NEW task \in Tasks, NEW c \in {"complete", "failed"},
           NEW new, new = [task EXCEPT !.completion = c]
    PROVE  /\ Run!Decided(new) \in Tasks
           /\ Run!Decided(new).approvals = task.approvals
           /\ Run!Decided(new).operations = task.operations
<1>1. new \in Tasks /\ new.approvals = task.approvals /\ new.operations = task.operations
  BY DEF Tasks
<1>. QED BY <1>1, DecidedIs

\* A result that is recorded.
LEMMA RecordedIs ==
    ASSUME NEW task \in Tasks, NEW c \in Positive, toolCall[c].tool \in Tools,
           toolCall[c].outcome \in Outcomes, NEW new, new = Run!RecordResult(task, c)
    PROVE  /\ new \in Tasks
           /\ new.approvals = IF toolCall[c].outcome = "waiting_approval"
                              THEN task.approvals \cup {c} ELSE task.approvals
           /\ new.operations = IF toolCall[c].outcome = "waiting_operation"
                               THEN task.operations \cup {c} ELSE task.operations
<1>0. Run!Errors \cap {"succeeded", "waiting_approval", "waiting_operation"} = {}
  BY RunAssumption DEF Run!Errors
<1>1. CASE toolCall[c].outcome = "succeeded"
  <2>1. PICK fixed : fixed = Run!Repair(task, toolCall[c].tool)
    OBVIOUS
  <2>2. new = Run!Decided(fixed)
    BY <1>1, <2>1 DEF Run!RecordResult
  <2>3. fixed \in Tasks /\ fixed.approvals = task.approvals /\ fixed.operations = task.operations
    BY <2>1, RepairIs
  <2>. QED BY <1>1, <2>2, <2>3, DecidedIs
<1>2. CASE toolCall[c].outcome = "waiting_approval"
  <2>1. PICK waits : waits = [task EXCEPT !.approvals = @ \cup {c}]
    OBVIOUS
  <2>2. /\ waits \in Tasks /\ waits.approvals = task.approvals \cup {c}
        /\ waits.operations = task.operations
    BY <2>1 DEF Tasks
  <2>3. new = Run!Decided(waits)
    BY <1>2, <2>1 DEF Run!RecordResult
  <2>. QED BY <1>2, <2>2, <2>3, DecidedIs
<1>3. CASE toolCall[c].outcome = "waiting_operation"
  <2>1. PICK waits : waits = [task EXCEPT !.operations = @ \cup {c}]
    OBVIOUS
  <2>2. /\ waits \in Tasks /\ waits.operations = task.operations \cup {c}
        /\ waits.approvals = task.approvals
    BY <2>1 DEF Tasks
  <2>3. new = Run!Decided(waits)
    BY <1>3, <2>1 DEF Run!RecordResult
  <2>. QED BY <1>3, <2>2, <2>3, DecidedIs
<1>4. CASE toolCall[c].outcome \in Run!Errors
  <2>a. PICK tool, error : tool = toolCall[c].tool /\ error = toolCall[c].outcome
    OBVIOUS
  <2>b. /\ tool \in BlockedTools
        /\ error \in BlockerErrors
    BY <1>4, <2>a, Blockable
  <2>1. PICK blocked : blocked = Failure(task, tool, error)
    OBVIOUS
  <2>2. new = Run!Decided(blocked)
    BY <1>0, <1>4, <2>a, <2>1 DEF Run!RecordResult, Failure
  <2>3. blocked \in Tasks /\ blocked.approvals = task.approvals /\ blocked.operations = task.operations
    BY <2>b, <2>1, BlockedIs
  <2>. QED BY <1>0, <1>4, <2>2, <2>3, DecidedIs
<1>. QED BY <1>1, <1>2, <1>3, <1>4, StageNames DEF Outcomes

\* The end of an operation that is recorded.
LEMMA EndedIs ==
    ASSUME NEW task \in Tasks, NEW c, toolCall[c].tool \in Tools,
           NEW how \in Run!Errors \cup {"succeeded"},
           NEW new, new = Run!OperationEnded(task, c, how)
    PROVE  /\ new \in Tasks
           /\ new.approvals = task.approvals
           /\ new.operations = task.operations \ {c}
<1>2. PICK rest : rest = [task EXCEPT !.operations = @ \ {c}]
  OBVIOUS
<1>4. rest \in Tasks /\ rest.approvals = task.approvals /\ rest.operations = task.operations \ {c}
  BY <1>2 DEF Tasks
<1>5. CASE how = "succeeded"
  <2>1. PICK fixed : fixed = Run!Repair(rest, toolCall[c].tool)
    OBVIOUS
  <2>2. new = Run!Decided(fixed)
    BY <1>2, <1>5, <2>1 DEF Run!OperationEnded
  <2>3. fixed \in Tasks /\ fixed.approvals = rest.approvals /\ fixed.operations = rest.operations
    BY <1>4, <2>1, RepairIs
  <2>. QED BY <1>4, <2>2, <2>3, DecidedIs
<1>6. CASE how # "succeeded"
  <2>a. PICK tool : tool = toolCall[c].tool
    OBVIOUS
  <2>b. /\ tool \in BlockedTools
        /\ how \in BlockerErrors
    BY <1>6, <2>a, Blockable
  <2>1. PICK blocked : blocked = FinalFailure(rest, tool, how)
    OBVIOUS
  <2>2. new = Run!Decided(blocked)
    BY <1>2, <1>6, <2>a, <2>1 DEF Run!OperationEnded, FinalFailure
  <2>c. rest \in Tasks
    BY <1>4
  <2>3. blocked \in Tasks /\ blocked.approvals = rest.approvals /\ blocked.operations = rest.operations
    BY <2>b, <2>c, <2>1, BlockedIs
  <2>. QED BY <1>4, <2>2, <2>3, DecidedIs
<1>. QED BY <1>5, <1>6

\* A promotion.
LEMMA PromotedIs ==
    ASSUME NEW task \in Tasks, NEW c \in Positive, NEW new, new = Run!Decided(Run!Approved(task, c))
    PROVE  /\ new \in Tasks
           /\ new.approvals = task.approvals \ {c}
           /\ new.operations = task.operations \cup {c}
<1>1. PICK moved : moved = Run!Approved(task, c)
  OBVIOUS
<1>2. /\ moved \in Tasks /\ moved.approvals = task.approvals \ {c}
      /\ moved.operations = task.operations \cup {c}
  BY <1>1 DEF Tasks, Run!Approved
<1>. QED BY <1>1, <1>2, DecidedIs

\* The end of the run.
LEMMA CompletedIs ==
    ASSUME NEW task \in Tasks, NEW new, new \in {Run!RunCompleted(task), Run!RunFailed(task)}
    PROVE  /\ new \in Tasks
           /\ new.approvals = task.approvals
           /\ new.operations = task.operations
<1>1. CASE new = Run!RunCompleted(task)
  <2>1. PICK done : done = [task EXCEPT !.completion = "complete"]
    OBVIOUS
  <2>2. new = Run!Decided(done)
    BY <1>1, <2>1 DEF Run!RunCompleted
  <2>. QED BY <2>1, <2>2, CompletionIs
<1>2. CASE new = Run!RunFailed(task)
  <2>a. PICK tool, error : tool = NoTool /\ error = "run failed"
    OBVIOUS
  <2>b. tool \in BlockedTools /\ error \in BlockerErrors
    BY <2>a, Blockable
  <2>1. PICK blocked : blocked = FinalFailure(task, tool, error)
    OBVIOUS
  <2>2. blocked \in Tasks /\ blocked.approvals = task.approvals /\ blocked.operations = task.operations
    BY <2>b, <2>1, BlockedIs
  <2>3. PICK done : done = [blocked EXCEPT !.completion = "failed"]
    OBVIOUS
  <2>4. new = Run!Decided(done)
    BY <1>2, <2>a, <2>1, <2>3 DEF Run!RunFailed, NoTool, FinalFailure
  <2>. QED BY <2>2, <2>3, <2>4, CompletionIs
<1>. QED BY <1>1, <1>2

\* What a commit writes.
LEMMA WriteIs ==
    ASSUME RunTyped, NEW s \in Run!Sessions, NEW end \in RunStatuses, NEW task \in Tasks,
           NEW waits \in Waits, Run!Write(s, end, task, waits)
    PROVE  /\ row' \in Rows /\ lost' \in BOOLEAN
           /\ working' \in [Run!Sessions -> Transactions]
           /\ working' = [working EXCEPT ![s] = Run!Nothing]
           /\ row'.task = task /\ row'.waits = waits
           /\ row'.status = (IF end = working[s].seen.status THEN row.status ELSE end)
           /\ ~lost' => /\ ~lost /\ working[s].seen.task = row.task
                        /\ working[s].seen.waits = row.waits
<1>1. working[s].seen \in Rows /\ row \in Rows /\ working[s] \in Transactions
  BY DEF RunTyped, Transactions
<1>2. Run!Nothing \in Transactions
  BY StageNames DEF Run!Nothing, Run!NoTask, Run!NoWait, Transactions, Rows, Tasks, Waits
<1>3. row' = [status |-> IF end = working[s].seen.status THEN row.status ELSE end,
              task |-> task, waits |-> waits]
  BY DEF Run!Write
<1>4. lost' = (lost \/ [row EXCEPT !.status = ""] # [working[s].seen EXCEPT !.status = ""])
  BY DEF Run!Write
<1>5. working' = [working EXCEPT ![s] = Run!Nothing]
  BY DEF Run!Write
<1>6. working' \in [Run!Sessions -> Transactions]
  BY <1>2, <1>5 DEF RunTyped
<1>7. lost' \in BOOLEAN
  BY <1>4
<1>8. row' \in Rows /\ row'.task = task /\ row'.waits = waits
      /\ row'.status = (IF end = working[s].seen.status THEN row.status ELSE end)
  BY <1>1, <1>3 DEF Rows
<1>9. ASSUME ~lost' PROVE ~lost /\ working[s].seen.task = row.task
                            /\ working[s].seen.waits = row.waits
  <2>1. ~lost /\ [row EXCEPT !.status = ""] = [working[s].seen EXCEPT !.status = ""]
    BY <1>4, <1>9, Zenon
  <2>2. PICK seen \in Rows : seen = working[s].seen
    BY <1>1
  <2>3. seen.task = row.task /\ seen.waits = row.waits
    BY <1>1, <2>1, <2>2 DEF Rows
  <2>. QED BY <2>1, <2>2, <2>3
<1>. QED BY <1>5, <1>6, <1>7, <1>8, <1>9

LEMMA WriteTaskIs ==
    ASSUME RunTyped, NEW s \in Run!Sessions, NEW task \in Tasks, Run!WriteTask(s, task)
    PROVE  /\ row' \in Rows /\ lost' \in BOOLEAN
           /\ working' \in [Run!Sessions -> Transactions]
           /\ working' = [working EXCEPT ![s] = Run!Nothing]
           /\ row'.task = task /\ row'.waits = working[s].seen.waits /\ row'.status = row.status
           /\ ~lost' => /\ ~lost /\ working[s].seen.task = row.task
                        /\ working[s].seen.waits = row.waits
<1>1. PICK end \in RunStatuses : end = working[s].seen.status
  BY DEF RunTyped, Transactions, Rows
<1>2. PICK waits \in Waits : waits = working[s].seen.waits
  BY DEF RunTyped, Transactions, Rows
<1>3. Run!Write(s, end, task, waits)
  BY <1>1, <1>2 DEF Run!WriteTask
<1>. QED BY <1>1, <1>2, <1>3, WriteIs

\* A session that begins a transaction, and one that ends it with nothing.
LEMMA ReadIs ==
    ASSUME RunTyped, NEW s \in Run!Sessions, NEW c \in Nat,
           NEW work \in {"none", "started", "promote", "end", "report"} \cup Stages,
           Run!Read(s, work, c)
    PROVE  /\ working' \in [Run!Sessions -> Transactions]
           /\ working[s].work = "none"
           /\ working' = [working EXCEPT ![s] = [work |-> work, call |-> c, seen |-> row]]
           /\ UNCHANGED <<row, plan, stage, steps, toolCall, next, approval, op, missed, lost, raises>>
<1>1. [work |-> work, call |-> c, seen |-> row] \in Transactions
  BY DEF RunTyped, Transactions
<1>. QED BY <1>1 DEF Run!Read, RunTyped

LEMMA LeaveIs ==
    ASSUME RunTyped, NEW s \in Run!Sessions, working' = [working EXCEPT ![s] = Run!Nothing]
    PROVE  working' \in [Run!Sessions -> Transactions]
<1>1. Run!Nothing \in Transactions
  BY StageNames DEF Run!Nothing, Run!NoTask, Run!NoWait, Transactions, Rows, Tasks, Waits
<1>. QED BY <1>1 DEF RunTyped

\* Where the values of a run are from.
LEMMA SeenIs ==
    ASSUME RunTyped
    PROVE  /\ row.task \in Tasks /\ row.waits \in Waits /\ row.status \in RunStatuses
           /\ \A s \in Run!Sessions :
                /\ working[s].seen \in Rows /\ working[s].seen.task \in Tasks
                /\ working[s].seen.waits \in Waits /\ working[s].seen.status \in RunStatuses
                /\ working[s].call \in Nat
  BY DEF RunTyped, Transactions, Rows

LEMMA CallIs ==
    ASSUME RunTyped, NEW c \in DOMAIN toolCall
    PROVE  /\ c \in Positive /\ c \in Nat /\ c \in 1..MaxToolCalls
           /\ toolCall[c].tool \in Tools /\ toolCall[c].outcome \in Outcomes
<1>1. PICK n \in 0..MaxToolCalls : toolCall \in [1..n -> [tool : Tools, outcome : Outcomes]]
  BY DEF RunTyped, CallsNumbered
<1>2. c \in 1..n
  BY <1>1
<1>3. toolCall[c] \in [tool : Tools, outcome : Outcomes]
  BY <1>1, <1>2
<1>. QED BY <1>2, <1>3, RunAssumption DEF Positive

LEMMA NumbersAre ==
    ASSUME RunTyped
    PROVE  /\ next \in Nat /\ next # 0
           /\ \A c \in DOMAIN toolCall : c \in Nat /\ c # 0 /\ c \in 1..MaxToolCalls
<1>1. next \in Nat /\ next # 0
  BY DEF RunTyped, CallsNumbered
<1>. QED BY <1>1, CallIs

\* The next call to record, while results are recorded.
LEMMA NextIs ==
    ASSUME RunTyped, stage \in {"recording", "waiting", "waitingPlan", "unstored"}
    PROVE  next \in DOMAIN toolCall
  BY DEF RunTyped, CallsNumbered

LEMMA StreamStage ==
    ASSUME RunTyped, WorkFits, working["stream"].work # "none"
    PROVE  working["stream"].work = stage
  BY DEF WorkFits

\* An answer with size calls after the first n.
Executed(n, size, batch) ==
    /\ n + size <= MaxToolCalls
    /\ toolCall' = [c \in DOMAIN toolCall \cup ((n + 1)..(n + size)) |->
          IF c \in (n + 1)..(n + size) THEN batch[c - n] ELSE toolCall[c]]
    /\ approval' = [c \in Run!CallNumbers |->
          IF c \in (n + 1)..(n + size) /\ batch[c - n].outcome = "waiting_approval"
          THEN "pending" ELSE approval[c]]
    /\ op' = [c \in Run!CallNumbers |->
          IF c \in (n + 1)..(n + size) /\ batch[c - n].outcome = "waiting_operation"
          THEN "running" ELSE op[c]]

\* RunState's cardinality is the library's.
LEMMA SameCardinality == \A S : Run!Cardinality(S) = Cardinality(S)
  BY DEF Run!Cardinality, Cardinality

\* The tool calls are numbered without a gap, and executing more keeps it so.
LEMMA ExecuteNumbers ==
    ASSUME RunTyped, Run!Execute
    PROVE  /\ CallsNumbered'
           /\ approval' \in [1..MaxToolCalls -> {"none", "pending", "approved", "denied"}]
           /\ op' \in [1..MaxToolCalls -> {"none", "running", "succeeded"} \cup Run!Errors]
           /\ \A c \in DOMAIN toolCall : c \in DOMAIN toolCall' /\ toolCall'[c] = toolCall[c]
           /\ \A c \in DOMAIN toolCall' \ DOMAIN toolCall : c >= next
           /\ \A c \in 1..MaxToolCalls :
                /\ approval'[c] = IF c \in DOMAIN toolCall' \ DOMAIN toolCall
                                     /\ toolCall'[c].outcome = "waiting_approval"
                                  THEN "pending" ELSE approval[c]
                /\ op'[c] = IF c \in DOMAIN toolCall' \ DOMAIN toolCall
                               /\ toolCall'[c].outcome = "waiting_operation"
                            THEN "running" ELSE op[c]
<1>1. PICK n \in 0..MaxToolCalls :
          /\ toolCall \in [1..n -> [tool : Tools, outcome : Outcomes]]
          /\ next = n + 1
  BY DEF RunTyped, CallsNumbered, Run!Execute
<1>2. DOMAIN toolCall = 1..n /\ Cardinality(DOMAIN toolCall) = n
  BY <1>1, FS_Interval
<1>3. \E size \in 1..MaxBatch : \E batch \in [1..size -> [tool : Tools, outcome : Outcomes]] :
          Executed(Cardinality(DOMAIN toolCall), size, batch)
  <2>1. PICK m : m = Run!Cardinality(DOMAIN toolCall)
    OBVIOUS
  <2>2. \E size \in 1..MaxBatch : \E batch \in [1..size -> [tool : Tools, outcome : Outcomes]] :
          Executed(m, size, batch)
    BY <2>1, SMTT(30) DEF Run!Execute, Outcomes, Executed
  <2>. QED BY <2>1, <2>2, SameCardinality
<1>4. PICK size \in 1..MaxBatch, m \in 0..MaxToolCalls :
          /\ m = n + size /\ m > n
          /\ \E batch \in [1..size -> [tool : Tools, outcome : Outcomes]] : Executed(n, size, batch)
  <2>1. PICK size \in 1..MaxBatch :
            \E batch \in [1..size -> [tool : Tools, outcome : Outcomes]] : Executed(n, size, batch)
    BY <1>2, <1>3
  <2>2. n + size <= MaxToolCalls
    BY <2>1 DEF Executed
  <2>. QED BY <2>1, <2>2, RunAssumption
<1>5. PICK batch \in [1..size -> [tool : Tools, outcome : Outcomes]] : Executed(n, size, batch)
  BY <1>4
<1>6. DOMAIN toolCall \cup ((n + 1)..(n + size)) = 1..m
  BY <1>2, <1>4
<1>7. \A c \in 1..m : (IF c \in (n + 1)..(n + size) THEN batch[c - n] ELSE toolCall[c])
                         \in [tool : Tools, outcome : Outcomes]
  <2>. TAKE c \in 1..m
  <2>1. CASE c \in (n + 1)..(n + size)
    <3>1. c - n \in 1..size
      BY <2>1
    <3>. QED BY <2>1, <3>1
  <2>2. CASE c \notin (n + 1)..(n + size)
    <3>1. c \in 1..n
      BY <2>2, <1>4
    <3>. QED BY <1>1, <2>2, <3>1
  <2>. QED BY <2>1, <2>2
<1>8. toolCall' \in [1..m -> [tool : Tools, outcome : Outcomes]]
  BY <1>5, <1>6, <1>7 DEF Executed
<1>9. \A c \in DOMAIN toolCall : c \in DOMAIN toolCall' /\ toolCall'[c] = toolCall[c]
  <2>. TAKE c \in DOMAIN toolCall
  <2>1. c \in 1..n /\ c \in 1..m /\ c \notin (n + 1)..(n + size)
    BY <1>2, <1>4
  <2>. QED BY <1>5, <1>6, <1>8, <2>1 DEF Executed
<1>10. \A c \in DOMAIN toolCall' \ DOMAIN toolCall : c >= next
  BY <1>1, <1>2, <1>8
<1>11. next' = next /\ stage' \in {"recording", "unstored"}
  BY DEF Run!Execute
<1>12. CallsNumbered'
  <2>1. next' \in 1..m + 1 /\ next' <= m
    BY <1>1, <1>4, <1>11
  <2>. QED BY <1>4, <1>8, <1>11, <2>1 DEF CallsNumbered
<1>13. approval' \in [1..MaxToolCalls -> {"none", "pending", "approved", "denied"}]
  BY <1>5 DEF RunTyped, Run!CallNumbers, Executed
<1>14. op' \in [1..MaxToolCalls -> {"none", "running", "succeeded"} \cup Run!Errors]
  BY <1>5 DEF RunTyped, Run!CallNumbers, Executed
<1>15. ASSUME NEW c \in 1..MaxToolCalls
       PROVE  /\ approval'[c] = IF c \in DOMAIN toolCall' \ DOMAIN toolCall
                                   /\ toolCall'[c].outcome = "waiting_approval"
                                THEN "pending" ELSE approval[c]
              /\ op'[c] = IF c \in DOMAIN toolCall' \ DOMAIN toolCall
                             /\ toolCall'[c].outcome = "waiting_operation"
                          THEN "running" ELSE op[c]
  <2>1. c \in DOMAIN toolCall' \ DOMAIN toolCall <=> c \in (n + 1)..(n + size)
    BY <1>2, <1>4, <1>8
  <2>2. c \in (n + 1)..(n + size) => toolCall'[c] = batch[c - n]
    BY <1>5 DEF Executed
  <2>3. /\ approval'[c] = IF c \in (n + 1)..(n + size) /\ batch[c - n].outcome = "waiting_approval"
                          THEN "pending" ELSE approval[c]
        /\ op'[c] = IF c \in (n + 1)..(n + size) /\ batch[c - n].outcome = "waiting_operation"
                    THEN "running" ELSE op[c]
    BY <1>5 DEF Executed, Run!CallNumbers
  <2>. QED BY <2>1, <2>2, <2>3
<1>. QED BY <1>9, <1>10, <1>12, <1>13, <1>14, <1>15

\* What to show of a step: the calls are those of some number.
LEMMA NumberedAfter ==
    ASSUME NEW n \in 0..MaxToolCalls,
           toolCall' \in [1..n -> [tool : Tools, outcome : Outcomes]], next' \in 1..n + 1,
           stage' \in {"thinking", "gate", "final"} => next' = n + 1,
           stage' \in {"recording", "waiting", "waitingPlan", "unstored"} => next' <= n,
           stage' \in {"waiting", "waitingPlan"} => toolCall'[next'].outcome \in Run!Waiting
    PROVE  CallsNumbered'
BY DEF CallsNumbered

\* Every step of the run keeps the types.
LEMMA RunTypedStep ==
    ASSUME RunTyped, WorkFits, Run!Next
    PROVE  RunTyped'
<1>. USE SeenIs, StageNames
<1>c. ASSUME NEW c \in DOMAIN toolCall PROVE c \in Nat /\ c \in 1..MaxToolCalls
  BY <1>c, CallIs
<1>s. "stream" \in Run!Sessions /\ "approver" \in Run!Sessions /\ "projector" \in Run!Sessions
  OBVIOUS
<1>n. next \in Nat
  BY DEF RunTyped, CallsNumbered
<1>1. CASE Run!StreamReads
  <2>1. Run!Read("stream", stage, next)
    BY <1>1 DEF Run!StreamReads
  <2>2. /\ working' \in [Run!Sessions -> Transactions]
        /\ UNCHANGED <<row, stage, toolCall, next, approval, op, lost>>
    BY <2>1, <1>n, <1>s, ReadIs DEF RunTyped
  <2>. QED BY <1>1, <2>2 DEF RunTyped, CallsNumbered, Run!StreamReads
<1>2. CASE Run!Execute
  <2>. QED BY <1>2, ExecuteNumbers DEF RunTyped, Stages, Run!Execute
<1>3. CASE Run!Answer
  BY <1>3 DEF Run!Answer, RunTyped, CallsNumbered, Stages
<1>4. CASE Run!CommitResult
  <2>1. next \in DOMAIN toolCall /\ stage = "recording"
    BY <1>4, NextIs, StreamStage DEF Run!CommitResult
  <2>2. next \in Positive /\ toolCall[next].tool \in Tools /\ toolCall[next].outcome \in Outcomes
    BY <2>1, CallIs
  <2>3. PICK task \in Tasks : task = working["stream"].seen.task
    BY <1>s
  <2>4. PICK new : new = Run!RecordResult(task, next)
    OBVIOUS
  <2>5. new \in Tasks
    BY <2>2, <2>4, RecordedIs
  <2>6. Run!WriteTask("stream", new)
    BY <1>4, <2>3, <2>4 DEF Run!CommitResult
  <2>7. row' \in Rows /\ lost' \in BOOLEAN /\ working' \in [Run!Sessions -> Transactions]
    BY <1>s, <2>5, <2>6, WriteTaskIs
  <2>8. CallsNumbered' /\ stage' \in Stages
    <3>1. PICK n \in 0..MaxToolCalls :
             /\ toolCall \in [1..n -> [tool : Tools, outcome : Outcomes]]
             /\ next \in 1..n /\ DOMAIN toolCall = 1..n
      BY <2>1 DEF RunTyped, CallsNumbered
    <3>2. n \in Nat /\ next \in Nat /\ toolCall' = toolCall /\ MaxToolCalls \in Nat
      BY <1>4, <3>1, RunAssumption DEF Run!CommitResult
    <3>3. CASE toolCall[next].outcome \in Run!Waiting
      <4>1. stage' = "waiting" /\ next' = next
        BY <1>4, <3>3 DEF Run!CommitResult
      <4>2. next' <= n /\ next' \in 1..n + 1 /\ toolCall'[next'].outcome \in Run!Waiting
        BY <3>1, <3>2, <3>3, <4>1
      <4>3. CallsNumbered'
        BY <3>1, <3>2, <4>1, <4>2, NumberedAfter
      <4>. QED BY <4>1, <4>3 DEF Stages
    <3>4. CASE toolCall[next].outcome \notin Run!Waiting
      <4>1. /\ next' = next + 1
            /\ IF next + 1 \in DOMAIN toolCall THEN stage' = "recording"
               ELSE stage' \in {"over", "thinking", "limit"}
        BY <1>4, <3>4 DEF Run!CommitResult, Run!Proceed, Run!Iterate
      <4>2. CASE next + 1 \in 1..n
        <5>1. stage' = "recording" /\ next' <= n /\ next' \in 1..n + 1
          BY <3>1, <3>2, <4>1, <4>2
        <5>2. CallsNumbered'
          BY <3>1, <3>2, <5>1, NumberedAfter
        <5>. QED BY <5>1, <5>2 DEF Stages
      <4>3. CASE next + 1 \notin 1..n
        <5>1. next' = n + 1 /\ next' \in 1..n + 1
          BY <3>1, <3>2, <4>1, <4>3
        <5>2. stage' \in {"over", "thinking", "limit"}
          BY <3>1, <4>1, <4>3
        <5>3. CallsNumbered'
          BY <3>1, <3>2, <5>1, <5>2, NumberedAfter
        <5>. QED BY <5>2, <5>3 DEF Stages
      <4>. QED BY <4>2, <4>3
    <3>. QED BY <3>3, <3>4
  <2>. QED BY <1>4, <2>7, <2>8 DEF RunTyped, Run!CommitResult
<1>5. CASE Run!CommitWait
  <2>1. next \in DOMAIN toolCall /\ stage = "waiting" /\ next \in Nat
    BY <1>5, NextIs, StreamStage, CallIs DEF Run!CommitWait
  <2>2. PICK waits \in Waits :
            waits = IF toolCall[next].outcome = "waiting_approval" THEN [approval |-> next, operation |-> 0]
                    ELSE [approval |-> 0, operation |-> next]
    BY <2>1 DEF Waits
  <2>3. PICK task \in Tasks : task = working["stream"].seen.task
    BY <1>s
  <2>4. PICK end \in RunStatuses : end = toolCall[next].outcome
    BY <2>1 DEF RunTyped, CallsNumbered
  <2>5. Run!Write("stream", end, task, waits)
    BY <1>5, <2>2, <2>3, <2>4 DEF Run!CommitWait
  <2>6. row' \in Rows /\ lost' \in BOOLEAN /\ working' \in [Run!Sessions -> Transactions]
    BY <1>s, <2>5, WriteIs
  <2>. QED BY <1>5, <2>1, <2>6 DEF RunTyped, CallsNumbered, Stages, Run!CommitWait
<1>6. CASE Run!CommitWaitPlan
  <2>1. stage = "waitingPlan" /\ working' \in [Run!Sessions -> Transactions]
    BY <1>6, <1>s, StreamStage, LeaveIs DEF Run!CommitWaitPlan
  <2>. QED BY <1>6, <2>1 DEF RunTyped, CallsNumbered, Stages, Run!CommitWaitPlan
<1>7. CASE Run!CommitGate
  <2>1. stage = "gate"
    BY <1>7, StreamStage DEF Run!CommitGate
  <2>2. PICK task \in Tasks : task = working["stream"].seen.task
    BY <1>s
  <2>3. Run!WriteTask("stream", task)
    BY <1>7, <2>2 DEF Run!CommitGate
  <2>4. row' \in Rows /\ lost' \in BOOLEAN /\ working' \in [Run!Sessions -> Transactions]
    BY <1>s, <2>3, WriteTaskIs
  <2>. QED BY <1>7, <2>1, <2>4 DEF RunTyped, CallsNumbered, Stages, Run!CommitGate, Run!Iterate
<1>8. CASE Run!CommitFinal
  <2>1. PICK task \in Tasks : task = working["stream"].seen.task
    BY <1>s
  <2>2. PICK new : new = Run!RunCompleted(task)
    OBVIOUS
  <2>3. new \in Tasks /\ Run!WriteTask("stream", new)
    BY <1>8, <2>1, <2>2, CompletedIs DEF Run!CommitFinal
  <2>4. row' \in Rows /\ lost' \in BOOLEAN /\ working' \in [Run!Sessions -> Transactions]
    BY <1>s, <2>3, WriteTaskIs
  <2>. QED BY <1>8, <2>4 DEF RunTyped, CallsNumbered, Stages, Run!CommitFinal
<1>9. CASE Run!CommitRefused
  <2>1. PICK task \in Tasks : task = working["stream"].seen.task
    BY <1>s
  <2>2. PICK new : new = Run!RunFailed(task)
    OBVIOUS
  <2>3. new \in Tasks /\ Run!WriteTask("stream", new)
    BY <1>9, <2>1, <2>2, CompletedIs DEF Run!CommitRefused
  <2>4. row' \in Rows /\ lost' \in BOOLEAN /\ working' \in [Run!Sessions -> Transactions]
    BY <1>s, <2>3, WriteTaskIs
  <2>. QED BY <1>9, <2>4 DEF RunTyped, CallsNumbered, Stages, Run!CommitRefused
<1>10. CASE Run!CommitEnd
  <2>1. PICK end \in RunStatuses : Run!WriteStatus("stream", end)
    BY <1>10 DEF Run!CommitEnd
  <2>2. row' \in Rows /\ lost' = lost /\ working' \in [Run!Sessions -> Transactions]
    BY <1>s, <2>1, LeaveIs DEF Run!WriteStatus, RunTyped, Rows
  <2>3. stage \in {"succeed", "fail", "unstored"}
    BY <1>10, StreamStage DEF Run!CommitEnd
  <2>4. stage' \in {"succeedPlan", "failPlan", "over"}
    BY <1>10, <2>3 DEF Run!CommitEnd
  <2>. QED BY <1>10, <2>2, <2>4 DEF RunTyped, CallsNumbered, Stages, Run!CommitEnd
<1>11. CASE Run!CommitLimit
  <2>1. PICK task \in Tasks : task = working["stream"].seen.task
    BY <1>s
  <2>2. PICK new : new = Run!RunFailed(task)
    OBVIOUS
  <2>3. PICK waits \in Waits : waits = working["stream"].seen.waits
    BY <1>s
  <2>4. new \in Tasks /\ Run!Write("stream", "failed", new, waits)
    BY <1>11, <2>1, <2>2, <2>3, CompletedIs DEF Run!CommitLimit
  <2>5. row' \in Rows /\ lost' \in BOOLEAN /\ working' \in [Run!Sessions -> Transactions]
    BY <1>s, <2>4, WriteIs
  <2>. QED BY <1>11, <2>5 DEF RunTyped, CallsNumbered, Stages, Run!CommitLimit
<1>12. CASE Run!CommitEndPlan
  <2>1. working' \in [Run!Sessions -> Transactions]
    BY <1>12, <1>s, LeaveIs DEF Run!CommitEndPlan
  <2>. QED BY <1>12, <2>1 DEF RunTyped, CallsNumbered, Stages, Run!CommitEndPlan
<1>13. CASE Run!Raise
  <2>1. working' \in [Run!Sessions -> Transactions]
    BY <1>13, <1>s, LeaveIs DEF Run!Raise
  <2>2. stage' \in {"over", "fail"}
    BY <1>13 DEF Run!Raise
  <2>. QED BY <1>13, <2>1, <2>2 DEF RunTyped, CallsNumbered, Stages, Run!Raise
<1>14. ASSUME NEW c \in DOMAIN toolCall, Run!Decide(c) PROVE RunTyped'
  BY <1>14, <1>c DEF RunTyped, CallsNumbered, Run!Decide
<1>15. ASSUME NEW c \in DOMAIN toolCall, Run!ApproveAndRun(c) PROVE RunTyped'
  <2>1. Run!Nothing \in Transactions
    BY DEF Run!Nothing, Run!NoTask, Run!NoWait, Transactions, Rows, Tasks, Waits
  <2>2. PICK t : t = [Run!Nothing EXCEPT !.work = "started", !.call = c]
    OBVIOUS
  <2>3. t \in Transactions
    BY <2>1, <2>2, <1>15, <1>c DEF Transactions
  <2>4. working' \in [Run!Sessions -> Transactions]
    BY <1>15, <2>2, <2>3 DEF Run!ApproveAndRun, RunTyped
  <2>. QED BY <1>15, <1>c, <2>4 DEF RunTyped, CallsNumbered, Run!ApproveAndRun
<1>16. ASSUME NEW c \in DOMAIN toolCall, Run!ReadEnd(c) PROVE RunTyped'
  <2>1. /\ working' \in [Run!Sessions -> Transactions]
        /\ UNCHANGED <<row, stage, toolCall, next, approval, op, lost>>
    BY <1>16, <1>c, <1>s, ReadIs DEF Run!ReadEnd
  <2>. QED BY <2>1 DEF RunTyped, CallsNumbered
<1>17. ASSUME NEW c \in DOMAIN toolCall, Run!ReadReport(c) PROVE RunTyped'
  <2>1. /\ working' \in [Run!Sessions -> Transactions]
        /\ UNCHANGED <<row, stage, toolCall, next, approval, op, lost>>
    BY <1>17, <1>c, <1>s, ReadIs DEF Run!ReadReport
  <2>. QED BY <2>1 DEF RunTyped, CallsNumbered
<1>18. CASE Run!ReadPromotion
  <2>1. PICK t : t = working["approver"]
    OBVIOUS
  <2>2. [t EXCEPT !.work = "promote", !.seen = row] \in Transactions
    BY <2>1, <1>s DEF RunTyped, Transactions
  <2>3. working' \in [Run!Sessions -> Transactions]
    BY <1>18, <2>1, <2>2, <1>s DEF Run!ReadPromotion, RunTyped
  <2>. QED BY <1>18, <2>3 DEF RunTyped, CallsNumbered, Run!ReadPromotion
<1>20. CASE Run!CommitPromotion
  <2>1. PICK c \in DOMAIN toolCall : c = working["approver"].call
    BY <1>20 DEF WorkFits, Run!CommitPromotion
  <2>2. PICK task \in Tasks : task = working["approver"].seen.task
    BY <1>s
  <2>3. c \in Positive /\ c \in Nat
    BY CallIs
  <2>4. PICK new \in Tasks : new = Run!Decided(Run!Approved(task, c))
    BY <2>3, PromotedIs
  <2>5. PICK waits \in Waits : waits = [approval |-> c, operation |-> c]
    BY <2>3 DEF Waits
  <2>6. Run!Write("approver", "waiting_operation", new, waits) \/ Run!Leave("approver")
    BY <1>20, <2>1, <2>2, <2>4, <2>5 DEF Run!CommitPromotion
  <2>7. row' \in Rows /\ lost' \in BOOLEAN /\ working' \in [Run!Sessions -> Transactions]
    BY <1>s, <2>6, WriteIs, LeaveIs DEF Run!Leave, RunTyped
  <2>. QED BY <1>20, <2>7 DEF RunTyped, CallsNumbered, Run!CommitPromotion
<1>21. ASSUME NEW how \in Run!Errors \cup {"succeeded"}, Run!CommitEndOf(how) PROVE RunTyped'
  <2>1. PICK c \in DOMAIN toolCall : c = working["projector"].call
    BY <1>21 DEF WorkFits, Run!CommitEndOf
  <2>2. PICK task \in Tasks : task = working["projector"].seen.task
    BY <1>s
  <2>3. PICK new \in Tasks : new = Run!OperationEnded(task, c, how)
    BY <1>21, EndedIs, CallIs
  <2>4. Run!WriteTask("projector", new) \/ Run!Leave("projector")
    BY <1>21, <2>1, <2>2, <2>3 DEF Run!CommitEndOf
  <2>5. row' \in Rows /\ lost' \in BOOLEAN /\ working' \in [Run!Sessions -> Transactions]
    BY <1>s, <2>4, WriteTaskIs, LeaveIs DEF Run!Leave, RunTyped
  <2>. QED BY <1>21, <2>5, <1>c DEF RunTyped, CallsNumbered, Run!CommitEndOf
<1>22. CASE Run!CommitReport
  <2>1. PICK end \in {"succeeded", "failed"} :
            end = IF op[working["projector"].call] = "succeeded" THEN "succeeded" ELSE "failed"
    OBVIOUS
  <2>2. PICK task \in Tasks : task = working["projector"].seen.task
    BY <1>s
  <2>3. PICK waits \in Waits : waits = working["projector"].seen.waits
    BY <1>s
  <2>4. PICK new \in Tasks : new = IF end = "succeeded" THEN Run!RunCompleted(task) ELSE task
    BY CompletedIs
  <2>5. Run!Write("projector", end, new, waits)
    BY <1>22, <2>1, <2>2, <2>3, <2>4 DEF Run!CommitReport
  <2>6. row' \in Rows /\ lost' \in BOOLEAN /\ working' \in [Run!Sessions -> Transactions]
    BY <1>s, <2>1, <2>5, WriteIs
  <2>. QED BY <1>22, <2>6 DEF RunTyped, CallsNumbered, Run!CommitReport
<1>23. CASE Run!RollBackReport
  <2>1. working' \in [Run!Sessions -> Transactions]
    BY <1>23, <1>s, LeaveIs DEF Run!RollBackReport
  <2>. QED BY <1>23, <2>1 DEF RunTyped, CallsNumbered, Run!RollBackReport
<1>. QED BY <1>1, <1>2, <1>3, <1>4, <1>5, <1>6, <1>7, <1>8, <1>9, <1>10, <1>11, <1>12, <1>13,
            <1>14, <1>15, <1>16, <1>17, <1>18, <1>20, <1>21, <1>22, <1>23 DEF Run!Next

\* The steps of the stream, and those of the others.
StreamNext ==
    \/ Run!StreamReads \/ Run!Execute \/ Run!Answer
    \/ Run!CommitResult \/ Run!CommitWait \/ Run!CommitWaitPlan
    \/ Run!CommitGate \/ Run!CommitFinal \/ Run!CommitRefused
    \/ Run!CommitEnd \/ Run!CommitLimit \/ Run!CommitEndPlan
    \/ Run!Raise
Decides == \E c \in DOMAIN toolCall : Run!Decide(c)
OtherReads ==
    \/ \E c \in DOMAIN toolCall :
          \/ Run!ApproveAndRun(c) \/ Run!ReadEnd(c) \/ Run!ReadReport(c)
    \/ Run!ReadPromotion
OtherCommits ==
    \/ Run!CommitPromotion
    \/ \E how \in Run!Errors \cup {"succeeded"} : Run!CommitEndOf(how)
    \/ Run!CommitReport \/ Run!RollBackReport

LEMMA WhoSteps == Run!Next => StreamNext \/ Decides \/ OtherReads \/ OtherCommits
  BY DEF Run!Next, StreamNext, Decides, OtherReads, OtherCommits

\* A decision tells the run nothing.
LEMMA DecisionIs ==
    Decides => UNCHANGED <<row, plan, stage, steps, toolCall, next, op, working, lost, raises>>
  BY DEF Decides, Run!Decide

\* A step of the stream leaves the others' transactions alone, and ends its own or begins it.
LEMMA StreamWorks ==
    ASSUME RunTyped, WorkFits, StreamNext
    PROVE  /\ \A s \in {"approver", "projector"} : working'[s] = working[s]
           /\ \/ /\ ~Run!StreamReads
                 /\ working'["stream"].work = "none"
                 /\ working'["stream"].seen.waits \in {Run!NoWait, working["stream"].seen.waits}
              \/ /\ Run!StreamReads /\ stage \notin {"thinking", "over"}
                 /\ working'["stream"].work = stage /\ working'["stream"].seen = row
                 /\ UNCHANGED <<row, plan, stage, steps, toolCall, next, approval, op, missed, lost, raises>>
           /\ \A c \in DOMAIN toolCall : c \in DOMAIN toolCall' /\ toolCall'[c] = toolCall[c]
           /\ ~Run!Execute => toolCall' = toolCall /\ UNCHANGED <<approval, op>>
           /\ UNCHANGED missed
<1>s. "stream" \in Run!Sessions /\ "approver" \in Run!Sessions /\ "projector" \in Run!Sessions
  BY StageNames
<1>0. Run!Nothing.work = "none" /\ Run!Nothing.seen.waits = Run!NoWait
  BY DEF Run!Nothing
<1>1. CASE Run!StreamReads
  <2>1. next \in Nat
    BY DEF RunTyped, CallsNumbered
  <2>2. Run!Read("stream", stage, next) /\ stage \notin {"thinking", "over"}
    BY <1>1 DEF Run!StreamReads
  <2>3. PICK t : t = [work |-> stage, call |-> next, seen |-> row]
    OBVIOUS
  <2>4. /\ working' = [working EXCEPT !["stream"] = t]
        /\ UNCHANGED <<row, plan, stage, steps, toolCall, next, approval, op, missed, lost, raises>>
    BY <1>s, <2>2, <2>3 DEF Run!Read
  <2>5. t.work = stage /\ t.seen = row
    BY <2>3
  <2>6. working'["stream"] = t /\ \A s \in {"approver", "projector"} : working'[s] = working[s]
    BY <1>s, <2>4 DEF RunTyped
  <2>. QED BY <1>1, <2>2, <2>4, <2>5, <2>6
<1>2. CASE Run!Execute
  <2>1. working["stream"].work = "none" /\ UNCHANGED <<working, missed>>
    BY <1>2 DEF Run!Execute, WorkFits
  <2>. QED BY <1>2, <2>1, ExecuteNumbers DEF Run!StreamReads, Run!Execute
<1>3. CASE Run!Answer
  <2>1. working["stream"].work = "none" /\ UNCHANGED <<working, missed, toolCall, approval, op>>
    BY <1>3 DEF Run!Answer, WorkFits
  <2>2. ~Run!StreamReads /\ ~Run!Execute
    BY <1>3 DEF Run!StreamReads, Run!Answer, Run!Execute
  <2>. QED BY <2>1, <2>2
<1>4. CASE /\ working' = [working EXCEPT !["stream"] = Run!Nothing]
           /\ UNCHANGED <<missed, toolCall, approval, op>>
           /\ ~Run!StreamReads /\ ~Run!Execute
  <2>1. working'["stream"] = Run!Nothing /\ \A s \in {"approver", "projector"} : working'[s] = working[s]
    BY <1>4, <1>s DEF RunTyped
  <2>. QED BY <1>4, <2>1, <1>0
<1>5. CASE ~Run!StreamReads /\ ~Run!Execute /\ ~Run!Answer
  BY <1>5, <1>4 DEF StreamNext, Run!CommitResult, Run!CommitWait, Run!CommitWaitPlan, Run!CommitGate,
     Run!CommitFinal, Run!CommitRefused, Run!CommitEnd, Run!CommitLimit, Run!CommitEndPlan, Run!Raise,
     Run!WriteTask, Run!Write, Run!WriteStatus
<1>. QED BY <1>1, <1>2, <1>3, <1>5

\* The others read what they are to write.
LEMMA OthersRead ==
    ASSUME RunTyped, WorkFits, OtherReads
    PROVE  /\ UNCHANGED <<row, plan, stage, steps, toolCall, next, missed, lost, raises>>
           /\ working'["stream"] = working["stream"]
           /\ \A s \in Run!Sessions :
                working'[s].seen.waits \in {Run!NoWait, row.waits, working[s].seen.waits}
           /\ WorkFits'
<1>s. "stream" \in Run!Sessions /\ "approver" \in Run!Sessions /\ "projector" \in Run!Sessions
      /\ Run!Sessions = {"stream", "approver", "projector"}
  BY StageNames
<1>0. Run!Nothing.seen.waits = Run!NoWait
  BY DEF Run!Nothing
<1>2. ASSUME NEW c \in DOMAIN toolCall, Run!ReadEnd(c)
      PROVE  /\ working' = [working EXCEPT !["projector"] = [work |-> "end", call |-> c, seen |-> row]]
             /\ UNCHANGED <<row, plan, stage, steps, toolCall, next, missed, lost, raises>>
  BY <1>2 DEF Run!ReadEnd, Run!Read
<1>3. ASSUME NEW c \in DOMAIN toolCall, Run!ReadReport(c)
      PROVE  /\ working' = [working EXCEPT !["projector"] = [work |-> "report", call |-> c, seen |-> row]]
             /\ UNCHANGED <<row, plan, stage, steps, toolCall, next, missed, lost, raises>>
             /\ row.waits.operation = c
  BY <1>3 DEF Run!ReadReport, Run!Read
<1>4. ASSUME NEW c \in DOMAIN toolCall, Run!ApproveAndRun(c)
      PROVE  \E t : /\ t.work = "started" /\ t.call = c /\ t.seen.waits = Run!NoWait
                    /\ working' = [working EXCEPT !["approver"] = t]
                    /\ UNCHANGED <<row, plan, stage, steps, toolCall, next, missed, lost, raises>>
  <2>1. PICK t : t = [Run!Nothing EXCEPT !.work = "started", !.call = c]
    OBVIOUS
  <2>2. t.work = "started" /\ t.call = c /\ t.seen.waits = Run!NoWait
    BY <2>1 DEF Run!Nothing
  <2>. QED BY <1>4, <2>1, <2>2 DEF Run!ApproveAndRun
<1>5. ASSUME Run!ReadPromotion
      PROVE  \E t : /\ t.work = "promote" /\ t.call = working["approver"].call /\ t.seen.waits = row.waits
                    /\ working["approver"].work = "started"
                    /\ working' = [working EXCEPT !["approver"] = t]
                    /\ UNCHANGED <<row, plan, stage, steps, toolCall, next, missed, lost, raises>>
  <2>1. PICK t \in Transactions : t = working["approver"]
    BY <1>s DEF RunTyped
  <2>2. PICK u : u = [t EXCEPT !.work = "promote", !.seen = row]
    OBVIOUS
  <2>3. u.work = "promote" /\ u.call = t.call /\ u.seen = row
    BY <2>2 DEF Transactions
  <2>4. working' = [working EXCEPT !["approver"] = u]
    BY <1>5, <1>s, <2>1, <2>2 DEF Run!ReadPromotion, RunTyped
  <2>. QED BY <1>5, <2>1, <2>3, <2>4 DEF Run!ReadPromotion
<1>. DEFINE Begins(s, t) ==
          /\ working' = [working EXCEPT ![s] = t]
          /\ t.seen.waits \in {Run!NoWait, row.waits}
          /\ t.call \in DOMAIN toolCall
          /\ t.work \in IF s = "approver" THEN {"started", "promote"}
                         ELSE {"end", "report"}
          /\ t.work = "report" => t.seen.waits.operation = t.call
          /\ UNCHANGED <<row, plan, stage, steps, toolCall, next, missed, lost, raises>>
<1>b. PICK s \in {"approver", "projector"} : \E t : Begins(s, t)
  <2>2. CASE \E c \in DOMAIN toolCall : Run!ReadEnd(c)
    <3>1. PICK c \in DOMAIN toolCall : Run!ReadEnd(c)
      BY <2>2
    <3>2. PICK t : t = [work |-> "end", call |-> c, seen |-> row]
      OBVIOUS
    <3>. QED BY <1>2, <3>1, <3>2
  <2>3. CASE \E c \in DOMAIN toolCall : Run!ReadReport(c)
    <3>1. PICK c \in DOMAIN toolCall : Run!ReadReport(c)
      BY <2>3
    <3>2. PICK t : t = [work |-> "report", call |-> c, seen |-> row]
      OBVIOUS
    <3>. QED BY <1>3, <3>1, <3>2
  <2>4. CASE \E c \in DOMAIN toolCall : Run!ApproveAndRun(c)
    BY <1>4, <2>4
  <2>5. CASE Run!ReadPromotion
    <3>1. working["approver"].work = "started" => working["approver"].call \in DOMAIN toolCall
      BY DEF WorkFits
    <3>. QED BY <1>5, <2>5, <3>1
  <2>. QED BY <2>2, <2>3, <2>4, <2>5 DEF OtherReads
<1>6. PICK t : Begins(s, t)
  BY <1>b
<1>7. working'[s] = t /\ \A r \in Run!Sessions \ {s} : working'[r] = working[r]
  BY <1>6, <1>s DEF RunTyped
<1>8. WorkFits'
  BY <1>6, <1>7, <1>s DEF WorkFits
<1>. QED BY <1>6, <1>7, <1>8, <1>s

\* The others write the row of a run only while it waits.
LEMMA OthersCommit ==
    ASSUME RunTyped, WorkFits, OtherCommits
    PROVE  /\ UNCHANGED <<stage, steps, toolCall, next, raises>>
           /\ \E s \in {"approver", "projector"} :
                /\ working' = [working EXCEPT ![s] = Run!Nothing]
                /\ row' = row \/ (working[s].seen.waits # Run!NoWait /\ row'.waits # Run!NoWait)
           /\ WorkFits'
<1>s. "stream" \in Run!Sessions /\ "approver" \in Run!Sessions /\ "projector" \in Run!Sessions
      /\ Run!Sessions = {"stream", "approver", "projector"}
  BY StageNames
<1>0. Run!Nothing.work = "none" /\ Run!Nothing.call = 0
  BY DEF Run!Nothing
<1>1. ASSUME NEW c \in DOMAIN toolCall, NEW seen, NEW kind \in {"approval", "operation"},
             Run!Hears(seen, kind, c)
      PROVE  seen.waits # Run!NoWait
  <2>1. c # 0
    BY CallIs DEF Positive
  <2>2. seen.waits[kind] = c
    BY <1>1 DEF Run!Hears
  <2>3. Run!NoWait[kind] = 0
    BY DEF Run!NoWait
  <2>. QED BY <2>1, <2>2, <2>3
<1>2. ASSUME NEW s \in Run!Sessions, NEW task, Run!WriteTask(s, task)
      PROVE  row'.waits = working[s].seen.waits /\ working' = [working EXCEPT ![s] = Run!Nothing]
  BY <1>2 DEF Run!WriteTask, Run!Write
<1>4. CASE Run!CommitPromotion
  <2>1. PICK c \in DOMAIN toolCall : c = working["approver"].call
    BY <1>4 DEF WorkFits, Run!CommitPromotion
  <2>2. \/ /\ \E task : Run!Write("approver", "waiting_operation", task, [approval |-> c, operation |-> c])
           /\ working["approver"].seen.waits.approval = c
        \/ Run!Leave("approver")
    BY <1>4, <2>1, Zenon DEF Run!CommitPromotion
  <2>a. PICK waits : waits = [approval |-> c, operation |-> c]
    OBVIOUS
  <2>b. waits # Run!NoWait /\ \A w : w.approval = c => w # Run!NoWait
    BY <2>a, CallIs DEF Positive, Run!NoWait
  <2>c. ASSUME NEW task, Run!Write("approver", "waiting_operation", task, waits)
        PROVE  row'.waits = waits /\ working' = [working EXCEPT !["approver"] = Run!Nothing]
    BY <2>c DEF Run!Write
  <2>3. /\ working' = [working EXCEPT !["approver"] = Run!Nothing]
        /\ \/ row' = row
           \/ working["approver"].seen.waits # Run!NoWait /\ row'.waits # Run!NoWait
    BY <2>a, <2>b, <2>c, <1>s, <2>2 DEF Run!Leave
  <2>4. UNCHANGED <<stage, steps, toolCall, next, raises>>
    BY <1>4 DEF Run!CommitPromotion
  <2>. QED BY <2>3, <2>4, <1>0, <1>s DEF WorkFits, RunTyped
<1>5. ASSUME NEW how \in Run!Errors \cup {"succeeded"}, Run!CommitEndOf(how)
      PROVE  /\ UNCHANGED <<stage, steps, toolCall, next, raises>>
             /\ working' = [working EXCEPT !["projector"] = Run!Nothing]
             /\ \/ row' = row
                \/ working["projector"].seen.waits # Run!NoWait /\ row'.waits # Run!NoWait
  <2>1. PICK c \in DOMAIN toolCall : c = working["projector"].call
    BY <1>5 DEF WorkFits, Run!CommitEndOf
  <2>2. \/ /\ \E task : Run!WriteTask("projector", task)
           /\ Run!Hears(working["projector"].seen, "operation", c)
        \/ Run!Leave("projector")
    BY <1>5, <2>1, Zenon DEF Run!CommitEndOf
  <2>3. /\ working' = [working EXCEPT !["projector"] = Run!Nothing]
        /\ \/ row' = row
           \/ working["projector"].seen.waits # Run!NoWait /\ row'.waits # Run!NoWait
    BY <1>1, <1>2, <1>s, <2>2 DEF Run!Leave
  <2>4. UNCHANGED <<stage, steps, toolCall, next, raises>>
    BY <1>5 DEF Run!CommitEndOf
  <2>. QED BY <2>3, <2>4
<1>6. CASE Run!CommitReport
  <2>1. PICK c \in DOMAIN toolCall : c = working["projector"].call /\ working["projector"].seen.waits.operation = c
    BY <1>6 DEF WorkFits, Run!CommitReport
  <2>2. c # 0 /\ Run!NoWait.operation = 0
    BY CallIs DEF Positive, Run!NoWait
  <2>3. /\ working' = [working EXCEPT !["projector"] = Run!Nothing]
        /\ row'.waits = working["projector"].seen.waits
        /\ UNCHANGED <<stage, steps, toolCall, next, raises>>
    BY <1>6 DEF Run!CommitReport, Run!Write
  <2>. QED BY <2>1, <2>2, <2>3, <1>0, <1>s DEF WorkFits, RunTyped
<1>7. CASE Run!RollBackReport
  BY <1>7, <1>0, <1>s DEF Run!RollBackReport, WorkFits, RunTyped
<1>8. CASE \E how \in Run!Errors \cup {"succeeded"} : Run!CommitEndOf(how)
  BY <1>5, <1>8, <1>0, <1>s DEF WorkFits, RunTyped
<1>. QED BY <1>4, <1>6, <1>7, <1>8 DEF OtherCommits

\* A transaction of a session stays of its kind.
LEMMA WorkFitsStep ==
    ASSUME RunTyped, WorkFits, Run!Next
    PROVE  WorkFits'
<1>1. CASE StreamNext
  <2>1. /\ working'["stream"].work \in {"none", stage'}
        /\ stage' \in {"thinking", "over"} => working'["stream"].work = "none"
    BY <1>1, StreamWorks
  <2>2. \A s \in {"approver", "projector"} : working'[s] = working[s]
    BY <1>1, StreamWorks
  <2>3. DOMAIN toolCall \subseteq DOMAIN toolCall'
    BY <1>1, StreamWorks
  <2>. QED BY <2>1, <2>2, <2>3 DEF WorkFits
<1>2. CASE Decides
  BY <1>2, DecisionIs DEF WorkFits
<1>. QED BY <1>1, <1>2, OthersRead, OthersCommit, WhoSteps

\* What the stream writes of the waits is what it read, or a wait.
LEMMA StreamWaits ==
    ASSUME RunTyped, WorkFits, StreamNext
    PROVE  /\ \/ row' = row
              \/ row'.waits = row.waits
              \/ working["stream"].work # "none" /\ row'.waits = working["stream"].seen.waits
              \/ Run!CommitWait
           /\ Run!CommitWait => /\ row'.waits # Run!NoWait
                                /\ row'.waits = IF toolCall[next].outcome = "waiting_approval"
                                                THEN [approval |-> next, operation |-> 0]
                                                ELSE [approval |-> 0, operation |-> next]
           /\ stage' = "waitingPlan" => Run!CommitWait \/ (row' = row /\ stage = "waitingPlan")
<1>1. CASE Run!CommitWait
  <2>1. next \in DOMAIN toolCall /\ next # 0
    BY <1>1, NextIs, CallIs, StreamStage DEF Run!CommitWait, Positive
  <2>2. row'.waits = IF toolCall[next].outcome = "waiting_approval"
                     THEN [approval |-> next, operation |-> 0] ELSE [approval |-> 0, operation |-> next]
    BY <1>1 DEF Run!CommitWait, Run!Write
  <2>3. row'.waits # Run!NoWait
    BY <2>1, <2>2 DEF Run!NoWait
  <2>. QED BY <1>1, <2>2, <2>3
<1>2. ASSUME NEW task, Run!WriteTask("stream", task)
      PROVE  row'.waits = working["stream"].seen.waits
  BY <1>2 DEF Run!WriteTask, Run!Write
<1>3. CASE Run!CommitResult
  <2>1. stage' # "waitingPlan" /\ ~Run!CommitWait
    BY <1>3 DEF Run!CommitResult, Run!CommitWait, Run!Proceed, Run!Iterate
  <2>. QED BY <1>2, <1>3, <2>1 DEF Run!CommitResult
<1>4. CASE Run!CommitGate \/ Run!CommitFinal \/ Run!CommitRefused
  <2>1. stage' # "waitingPlan" /\ ~Run!CommitWait
    BY <1>4 DEF Run!CommitGate, Run!CommitFinal, Run!CommitRefused, Run!CommitWait, Run!Iterate
  <2>. QED BY <1>2, <1>4, <2>1 DEF Run!CommitGate, Run!CommitFinal, Run!CommitRefused
<1>5. CASE Run!CommitLimit
  <2>1. stage' # "waitingPlan" /\ ~Run!CommitWait /\ row'.waits = working["stream"].seen.waits
    BY <1>5 DEF Run!CommitLimit, Run!CommitWait, Run!Write
  <2>. QED BY <1>5, <2>1 DEF Run!CommitLimit
<1>6. CASE Run!CommitEnd
  <2>1. stage \in {"succeed", "fail", "unstored"}
    BY <1>6, StreamStage DEF Run!CommitEnd
  <2>2. stage' # "waitingPlan" /\ ~Run!CommitWait
    BY <1>6, <2>1 DEF Run!CommitEnd, Run!CommitWait
  <2>3. row'.waits = row.waits
    BY <1>6 DEF Run!CommitEnd, Run!WriteStatus, RunTyped, Rows
  <2>. QED BY <2>2, <2>3
<1>7. CASE /\ StreamNext
           /\ ~(Run!CommitWait \/ Run!CommitResult \/ Run!CommitGate \/ Run!CommitFinal \/ Run!CommitRefused
                \/ Run!CommitLimit \/ Run!CommitEnd)
  BY <1>7 DEF StreamNext, Run!StreamReads, Run!Read, Run!Execute, Run!Answer, Run!CommitWaitPlan,
     Run!CommitEndPlan, Run!Raise
<1>. QED BY <1>1, <1>3, <1>4, <1>5, <1>6, <1>7

\* Until the run waits, its stream alone writes it.
LEMMA NoWaitStep ==
    ASSUME RunTyped, WorkFits, NoWaitNoOther, Run!Next
    PROVE  NoWaitNoOther'
<1>s. "stream" \in Run!Sessions /\ Run!Sessions = {"stream", "approver", "projector"}
  BY StageNames
<1>1. CASE StreamNext
  <2>1. ASSUME row'.waits = Run!NoWait PROVE row.waits = Run!NoWait
    BY <1>1, <2>1, StreamWaits DEF NoWaitNoOther
  <2>2. row'.waits = Run!NoWait => \A s \in Run!Sessions : working'[s].seen.waits = Run!NoWait
    BY <1>1, <1>s, <2>1, StreamWorks DEF NoWaitNoOther
  <2>3. working'["stream"].work # "none" => working'["stream"].seen = row'
    BY <1>1, StreamWorks
  <2>4. stage' = "waitingPlan" => row'.waits # Run!NoWait
    BY <1>1, StreamWaits DEF NoWaitNoOther
  <2>. QED BY <2>2, <2>3, <2>4 DEF NoWaitNoOther
<1>2. CASE OtherReads
  BY <1>2, <1>s, OthersRead DEF NoWaitNoOther
<1>3. CASE OtherCommits
  <2>1. PICK s \in {"approver", "projector"} :
            /\ working' = [working EXCEPT ![s] = Run!Nothing]
            /\ row' = row \/ (working[s].seen.waits # Run!NoWait /\ row'.waits # Run!NoWait)
    BY <1>3, OthersCommit
  <2>2. working'["stream"] = working["stream"] /\ stage' = stage
        /\ \A r \in Run!Sessions : working'[r].seen.waits \in {Run!NoWait, working[r].seen.waits}
    BY <1>3, <1>s, <2>1, OthersCommit DEF RunTyped, Run!Nothing
  <2>3. CASE row' = row
    BY <2>2, <2>3 DEF NoWaitNoOther
  <2>4. CASE row' # row
    <3>1. working[s].seen.waits # Run!NoWait /\ row'.waits # Run!NoWait /\ row.waits # Run!NoWait
      BY <2>1, <2>4, <1>s DEF NoWaitNoOther
    <3>. QED BY <3>1, <2>2 DEF NoWaitNoOther
  <2>. QED BY <2>3, <2>4
<1>4. CASE Decides
  BY <1>4, DecisionIs DEF NoWaitNoOther
<1>. QED BY <1>1, <1>2, <1>3, <1>4, WhoSteps

\* A failure that is recorded.
LEMMA FailedIs ==
    ASSUME NEW task \in Tasks, NEW c, toolCall[c].tool \in Tools, toolCall[c].outcome \in Run!Errors,
           NEW new, new = Run!RecordResult(task, c)
    PROVE  \E mid \in Tasks :
             /\ new = Run!Decided(mid)
             /\ mid.approvals = task.approvals /\ mid.operations = task.operations
             /\ mid.completion = task.completion
             /\ mid.blockers =
                    {b \in task.blockers : Run!KeyOf(b.error) # Run!KeyOf(toolCall[c].outcome)}
                    \cup {[error |-> toolCall[c].outcome, tool |-> toolCall[c].tool, terminal |-> FALSE]}
<1>0. Run!Errors \cap {"succeeded", "waiting_approval", "waiting_operation"} = {}
  BY RunAssumption DEF Run!Errors
<1>1. PICK tool, error : tool = toolCall[c].tool /\ error = toolCall[c].outcome
  OBVIOUS
<1>2. /\ tool \in BlockedTools
      /\ error \in BlockerErrors
  BY <1>1, Blockable
<1>3. PICK mid : mid = Failure(task, tool, error)
  OBVIOUS
<1>4. new = Run!Decided(mid)
  BY <1>0, <1>1, <1>3 DEF Run!RecordResult, Failure
<1>5. /\ mid \in Tasks /\ mid.approvals = task.approvals /\ mid.operations = task.operations
      /\ mid.completion = task.completion
  BY <1>2, <1>3, BlockedIs
<1>6. mid.blockers = {b \in task.blockers : Run!KeyOf(b.error) # Run!KeyOf(error)}
                        \cup {[error |-> error, tool |-> tool, terminal |-> FALSE]}
  BY <1>3 DEF Failure, Run!Block, Tasks
<1>. QED BY <1>1, <1>4, <1>5, <1>6

\* Recording a result keeps the blockers telling what stands.
LEMMA ResultTold ==
    ASSUME RunTyped, NEW task \in Tasks, FailuresTold(task), next \in DOMAIN toolCall,
           toolCall[next].outcome \notin Run!Waiting, toolCall' = toolCall, next' = next + 1,
           NEW new, new = Run!RecordResult(task, next)
    PROVE  FailuresTold(new)'
<1>0. Run!Errors \cap {"succeeded", "waiting_approval", "waiting_operation"} = {}
  BY RunAssumption DEF Run!Errors
<1>1. next \in Nat /\ next \in Positive /\ toolCall[next].tool \in Tools /\ toolCall[next].outcome \in Outcomes
      /\ \A c \in DOMAIN toolCall : c \in Nat
  BY CallIs
<1>2. /\ Run!Recorded' = Run!Recorded \cup {next}
      /\ \A c \in Run!Recorded : c < next /\ c \in DOMAIN toolCall
      /\ Run!Recorded \subseteq Run!Recorded'
  BY <1>1 DEF Run!Recorded
<1>3. \A c \in DOMAIN toolCall : RepairedLater(c) => RepairedLater(c)'
  BY <1>2 DEF RepairedLater
<1>4. PICK mid \in Tasks :
          /\ new = Run!Decided(mid) /\ mid.approvals = {} /\ mid.operations = {}
          /\ mid.completion = "in_progress" /\ \A b \in mid.blockers : ~b.terminal
          /\ \/ /\ toolCall[next].outcome = "succeeded"
                /\ mid.blockers = {b \in task.blockers : b.terminal \/ ~Run!RepairedBy(b, toolCall[next].tool)}
             \/ /\ toolCall[next].outcome # "succeeded"
                /\ toolCall[next].outcome \in Run!Errors
                /\ \A b \in task.blockers :
                      Run!KeyOf(b.error) # Run!KeyOf(toolCall[next].outcome) => b \in mid.blockers
                /\ \E b \in mid.blockers : b.error = toolCall[next].outcome /\ b.tool = toolCall[next].tool
  <2>1. CASE toolCall[next].outcome = "succeeded"
    <3>1. PICK tool : tool = toolCall[next].tool
      OBVIOUS
    <3>2. PICK mid : mid = Run!Repair(task, tool)
      OBVIOUS
    <3>3. new = Run!Decided(mid)
      BY <2>1, <3>1, <3>2 DEF Run!RecordResult
    <3>4. /\ mid \in Tasks /\ mid.approvals = {} /\ mid.operations = {} /\ mid.completion = "in_progress"
          /\ mid.blockers = {b \in task.blockers : b.terminal \/ ~Run!RepairedBy(b, tool)}
      BY <3>2, RepairIs DEF FailuresTold
    <3>5. \A b \in mid.blockers : ~b.terminal
      BY <3>4 DEF FailuresTold
    <3>. QED BY <2>1, <3>1, <3>3, <3>4, <3>5
  <2>2. CASE toolCall[next].outcome \in Run!Errors
    <3>1. PICK error : error = toolCall[next].outcome
      OBVIOUS
    <3>2. PICK tool : tool = toolCall[next].tool
      OBVIOUS
    <3>3. PICK mid \in Tasks :
            /\ new = Run!Decided(mid)
            /\ mid.approvals = task.approvals /\ mid.operations = task.operations
            /\ mid.completion = task.completion
            /\ mid.blockers = {b \in task.blockers : Run!KeyOf(b.error) # Run!KeyOf(error)}
                    \cup {[error |-> error, tool |-> tool, terminal |-> FALSE]}
      BY <1>1, <2>2, <3>1, <3>2, FailedIs
    <3>7. \A b \in mid.blockers : ~b.terminal
      BY <3>3 DEF FailuresTold
    <3>8. \A b \in task.blockers : Run!KeyOf(b.error) # Run!KeyOf(error) => b \in mid.blockers
      BY <3>3
    <3>9. \E b \in mid.blockers : b.error = error /\ b.tool = tool
      <4>1. PICK b : b = [error |-> error, tool |-> tool, terminal |-> FALSE]
        OBVIOUS
      <4>2. b \in mid.blockers /\ b.error = error /\ b.tool = tool
        BY <3>3, <4>1
      <4>. QED BY <4>2
    <3>10. toolCall[next].outcome # "succeeded"
      BY <1>0, <2>2
    <3>. QED BY <2>2, <3>1, <3>2, <3>3, <3>7, <3>8, <3>9, <3>10 DEF FailuresTold
  <2>. QED BY <1>1, <2>1, <2>2, StageNames DEF Outcomes
<1>5. /\ new.approvals = {} /\ new.operations = {} /\ new.blockers = mid.blockers
      /\ new.completion = "in_progress"
  <2>1. mid.blockers = {} \/ \E b \in mid.blockers : ~b.terminal
    BY <1>4
  <2>. QED BY <1>4, <2>1 DEF Run!Decided, Tasks, Run!AllPathsFailed
<1>6. ASSUME NEW c \in DOMAIN toolCall, LastFailed(c)'
      PROVE  RepairedLater(c)' \/ \E b \in mid.blockers : b.error = toolCall[c].outcome
                                                          /\ b.tool = toolCall[c].tool
  <2>0. /\ toolCall[c].outcome \in Repairable /\ toolCall[c].outcome \in Run!Errors
        /\ toolCall[c].outcome # "succeeded"
    BY <1>0, <1>6 DEF LastFailed, Run!Errors
  <2>1. CASE c = next
    BY <1>4, <2>0, <2>1
  <2>2. CASE c # next
    <3>1. LastFailed(c) /\ c < next
      BY <1>2, <1>6, <2>2 DEF LastFailed
    <3>2. toolCall[next].outcome \in Run!Errors =>
             CodeOf[toolCall[next].outcome] # CodeOf[toolCall[c].outcome]
      BY <1>1, <1>2, <1>6, <2>2, <3>1 DEF LastFailed
    <3>a. \A e \in Run!Errors : Run!KeyOf(e) = CodeOf[e]
      BY RunAssumption DEF Run!KeyOf, Run!Errors
    <3>3. CASE RepairedLater(c)
      BY <1>3, <3>3
    <3>4. CASE \E b \in task.blockers : b.error = toolCall[c].outcome /\ b.tool = toolCall[c].tool
      <4>1. PICK b \in task.blockers : b.error = toolCall[c].outcome /\ b.tool = toolCall[c].tool
        BY <3>4
      <4>2. CASE b \in mid.blockers
        BY <4>1, <4>2
      <4>3. CASE b \notin mid.blockers
        <5>1. toolCall[next].outcome = "succeeded" /\ Run!RepairedBy(b, toolCall[next].tool)
          BY <1>4, <2>0, <3>2, <3>a, <4>1, <4>3
        <5>2. RepairedLater(c)'
          BY <1>1, <1>2, <3>1, <4>1, <5>1 DEF RepairedLater, Run!RepairedBy
        <5>. QED BY <5>2
      <4>. QED BY <4>2, <4>3
    <3>. QED BY <3>1, <3>3, <3>4 DEF FailuresTold
  <2>. QED BY <2>1, <2>2
<1>. QED BY <1>4, <1>5, <1>6 DEF FailuresTold

\* What passes the gate has repaired every failure that could be.
LEMMA GateTells ==
    ASSUME NEW task \in Tasks, FailuresTold(task), Run!Gate(task)
    PROVE  AllRepaired
<1>1. Run!Decided(task).completion = "in_progress"
  <2>1. task.blockers = {} \/ \E b \in task.blockers : ~b.terminal
    BY DEF FailuresTold
  <2>. QED BY <2>1 DEF Run!Decided, Tasks, Run!AllPathsFailed, FailuresTold
<1>2. ~ \E b \in task.blockers : b.error \in Repairable
  BY <1>1 DEF Run!Gate, FailuresTold
<1>. QED BY <1>2 DEF AllRepaired, FailuresTold, LastFailed

\* A transaction of a stream whose run has not begun to wait has read the row as it is.
LEMMA StreamReadsTruth ==
    ASSUME NoWaitNoOther, working["stream"].work # "none", working["stream"].seen.waits = Run!NoWait
    PROVE  working["stream"].seen = row /\ row.waits = Run!NoWait
  BY DEF NoWaitNoOther

LEMMA ToldStays ==
    ASSUME toolCall' = toolCall, next' = next, NEW task
    PROVE  /\ FailuresTold(task) => FailuresTold(task)'
           /\ AllRepaired => AllRepaired'
  BY DEF FailuresTold, AllRepaired, LastFailed, RepairedLater, Run!Recorded

LEMMA ExecuteTold ==
    ASSUME RunTyped, Run!Execute, NEW task
    PROVE  FailuresTold(task) => FailuresTold(task)'
<1>1. Run!Recorded' = Run!Recorded /\ Run!Recorded \subseteq DOMAIN toolCall
      /\ \A c \in Run!Recorded : toolCall'[c] = toolCall[c]
  <2>1. next' = next
    BY DEF Run!Execute
  <2>2. \A c \in DOMAIN toolCall' \ DOMAIN toolCall : ~(c < next)
    <3>1. \A c \in DOMAIN toolCall' : c \in Nat
      BY ExecuteNumbers DEF CallsNumbered
    <3>2. next \in Nat
      BY DEF RunTyped, CallsNumbered
    <3>. QED BY <3>1, <3>2, ExecuteNumbers
  <2>. QED BY <2>1, <2>2, ExecuteNumbers DEF Run!Recorded
<1>. QED BY <1>1 DEF FailuresTold, LastFailed, RepairedLater

\* What others do to a run keeps what its stream answers repaired.
LEMMA AnswerOthers ==
    ASSUME AnswerInv, Decides \/ OtherReads \/ OtherCommits
    PROVE  BlockersTell' /\ AnswerPassed'
<1>1. toolCall' = toolCall /\ next' = next /\ stage' = stage
  BY DecisionIs, OthersRead, OthersCommit DEF AnswerInv
<1>2. row' = row \/ row'.waits # Run!NoWait
  BY DecisionIs, OthersRead, OthersCommit DEF AnswerInv
<1>. QED BY <1>1, <1>2, ToldStays DEF AnswerInv, BlockersTell, AnswerPassed

\* What the stream does keeps it so.
LEMMA AnswerStream ==
    ASSUME AnswerInv, StreamNext, row'.waits = Run!NoWait
    PROVE  BlockersTell' /\ AnswerPassed'
<1>. USE DEF AnswerInv
<1>s. "stream" \in Run!Sessions
  BY StageNames
<1>0. row.waits = Run!NoWait /\ (working["stream"].work # "none" => working["stream"].seen = row)
      /\ ~Run!CommitWait
  <2>1. ~Run!CommitWait
    BY StreamWaits
  <2>2. row.waits = Run!NoWait
    BY <2>1, StreamWaits, StreamReadsTruth
  <2>3. working["stream"].seen.waits = Run!NoWait
    BY <2>2, <1>s DEF NoWaitNoOther
  <2>. QED BY <2>1, <2>2, <2>3, StreamReadsTruth
<1>1. CASE Run!StreamReads
  <2>1. UNCHANGED <<row, stage, toolCall, next>>
    BY <1>1 DEF Run!StreamReads, Run!Read
  <2>. QED BY <2>1, ToldStays DEF BlockersTell, AnswerPassed
<1>2. CASE Run!Execute
  <2>1. stage = "thinking" /\ row' = row /\ stage' \in {"recording", "unstored"}
    BY <1>2 DEF Run!Execute
  <2>. QED BY <1>0, <1>2, <2>1, ExecuteTold DEF BlockersTell, AnswerPassed
<1>3. CASE Run!Answer
  <2>1. stage = "thinking" /\ row' = row /\ stage' \in {"gate", "refused"} /\ UNCHANGED <<toolCall, next>>
    BY <1>3 DEF Run!Answer
  <2>. QED BY <1>0, <2>1, ToldStays DEF BlockersTell, AnswerPassed
<1>4. CASE Run!CommitResult
  <2>1. stage = "recording" /\ next \in DOMAIN toolCall /\ working["stream"].seen = row
    BY <1>0, <1>4, StreamStage, NextIs DEF Run!CommitResult
  <2>2. PICK task \in Tasks : task = row.task
    BY SeenIs
  <2>3. PICK new : new = Run!RecordResult(task, next)
    OBVIOUS
  <2>4. new \in Tasks
    BY <2>1, <2>3, RecordedIs, CallIs
  <2>5. Run!WriteTask("stream", new)
    BY <1>4, <2>1, <2>2, <2>3 DEF Run!CommitResult
  <2>6. row'.task = new /\ row'.status = row.status
    BY <1>s, <2>4, <2>5, WriteTaskIs
  <2>7. row.status # "succeeded"
    BY <1>0, <2>1 DEF AnswerPassed
  <2>8. CASE toolCall[next].outcome \in Run!Waiting
    <3>1. stage' = "waiting"
      BY <1>4, <2>8 DEF Run!CommitResult
    <3>. QED BY <3>1, <2>6, <2>7 DEF BlockersTell, AnswerPassed
  <2>9. CASE toolCall[next].outcome \notin Run!Waiting
    <3>1. Run!Proceed /\ toolCall' = toolCall
      BY <1>4, <2>9 DEF Run!CommitResult
    <3>2. next' = next + 1 /\ stage' \notin {"final", "succeed"}
      BY <3>1 DEF Run!Proceed, Run!Iterate
    <3>3. FailuresTold(task)
      BY <1>0, <2>1, <2>2 DEF BlockersTell
    <3>4. FailuresTold(new)'
      BY <2>1, <2>3, <2>9, <3>1, <3>2, <3>3, ResultTold
    <3>5. FailuresTold(row.task)'
      BY <2>6, <3>4 DEF FailuresTold
    <3>. QED BY <2>6, <2>7, <3>2, <3>5 DEF BlockersTell, AnswerPassed
  <2>. QED BY <2>8, <2>9
<1>6. CASE Run!CommitWaitPlan
  <2>1. stage = "waitingPlan"
    BY <1>6, StreamStage DEF Run!CommitWaitPlan
  <2>. QED BY <1>0, <2>1 DEF NoWaitNoOther
<1>7. CASE Run!CommitGate
  <2>1. stage = "gate" /\ working["stream"].seen = row
    BY <1>0, <1>7, StreamStage DEF Run!CommitGate
  <2>2. PICK task \in Tasks : task = row.task
    BY SeenIs
  <2>3. Run!WriteTask("stream", task)
    BY <1>7, <2>1, <2>2 DEF Run!CommitGate
  <2>4. row'.task = task /\ row'.status = row.status
    BY <1>s, <2>3, WriteTaskIs
  <2>5. row.status # "succeeded"
    BY <1>0, <2>1 DEF AnswerPassed
  <2>6. FailuresTold(task) /\ toolCall' = toolCall /\ next' = next
    BY <1>0, <1>7, <2>1, <2>2 DEF BlockersTell, Run!CommitGate
  <2>7. FailuresTold(row.task)'
    <3>1. FailuresTold(task)'
      BY <2>6, ToldStays
    <3>. QED BY <2>4, <3>1 DEF FailuresTold
  <2>8. CASE Run!Gate(task)
    <3>1. AllRepaired'
      BY <2>6, <2>8, GateTells, ToldStays
    <3>. QED BY <2>4, <2>5, <2>7, <3>1 DEF BlockersTell, AnswerPassed
  <2>9. CASE ~Run!Gate(task)
    <3>1. stage' \in {"thinking", "limit"}
      BY <1>7, <2>1, <2>2, <2>9 DEF Run!CommitGate, Run!Iterate
    <3>. QED BY <2>4, <2>5, <2>7, <3>1 DEF BlockersTell, AnswerPassed
  <2>. QED BY <2>8, <2>9
<1>8. CASE Run!CommitFinal \/ Run!CommitRefused
  <2>1. stage \in {"final", "refused"} /\ working["stream"].seen = row /\ toolCall' = toolCall /\ next' = next
        /\ stage' \in {"succeed", "fail"} /\ (stage' = "succeed" => stage = "final")
    BY <1>0, <1>8, StreamStage DEF Run!CommitFinal, Run!CommitRefused
  <2>2. PICK task \in Tasks : task = row.task
    BY SeenIs
  <2>3. PICK new : new \in {Run!RunCompleted(task), Run!RunFailed(task)} /\ Run!WriteTask("stream", new)
    BY <1>8, <2>1, <2>2 DEF Run!CommitFinal, Run!CommitRefused
  <2>4. row'.status = row.status
    BY <1>s, <2>3, WriteTaskIs, CompletedIs
  <2>5. row.status # "succeeded"
    BY <1>0, <2>1 DEF AnswerPassed
  <2>. QED BY <1>0, <2>1, <2>4, <2>5, ToldStays DEF BlockersTell, AnswerPassed
<1>9. CASE Run!CommitEnd
  <2>1. stage \in {"succeed", "fail", "unstored"} /\ stage = working["stream"].work
    BY <1>9, StreamStage DEF Run!CommitEnd
  <2>2. toolCall' = toolCall /\ next' = next /\ stage' \in {"succeedPlan", "failPlan", "over"}
        /\ (stage = "succeed" => stage' = "succeedPlan")
    BY <1>9, <2>1 DEF Run!CommitEnd
  <2>3. row'.status = IF stage = "succeed" THEN "succeeded" ELSE "failed"
    BY <1>9, <2>1 DEF Run!CommitEnd, Run!WriteStatus, RunTyped, Rows
  <2>. QED BY <1>0, <2>1, <2>2, <2>3, ToldStays DEF BlockersTell, AnswerPassed
<1>10. CASE Run!CommitLimit
  <2>1. stage = "limit" /\ stage' = "failPlan"
    BY <1>10, StreamStage DEF Run!CommitLimit
  <2>2. row'.status \in {row.status, "failed"}
    BY <1>10 DEF Run!CommitLimit, Run!Write
  <2>. QED BY <1>0, <2>1, <2>2 DEF BlockersTell, AnswerPassed
<1>11. CASE Run!CommitEndPlan
  <2>1. stage \in {"succeedPlan", "failPlan"} /\ stage' = "over" /\ UNCHANGED <<row, toolCall, next>>
    BY <1>11, StreamStage DEF Run!CommitEndPlan
  <2>. QED BY <1>0, <2>1, ToldStays DEF BlockersTell, AnswerPassed
<1>12. CASE Run!Raise
  <2>1. stage' \in {"over", "fail"} /\ UNCHANGED <<row, toolCall, next>>
        /\ (row.status = "succeeded" => stage' = "over")
    BY <1>12, StageNames DEF Run!Raise
  <2>. QED BY <1>0, <2>1, ToldStays DEF BlockersTell, AnswerPassed
<1>. QED BY <1>0, <1>1, <1>2, <1>3, <1>4, <1>6, <1>7, <1>8, <1>9, <1>10, <1>11, <1>12 DEF StreamNext

LEMMA AnswerInit == ASSUME Run!Init PROVE AnswerInv
<1>. USE StageNames DEF Run!Init
<1>1. row.task = Run!NoTask /\ row.waits = Run!NoWait /\ row.status = "active" /\ row \in Rows
  BY DEF Run!NoTask, Run!NoWait, Rows, Tasks, Waits
<1>2. Run!Nothing \in Transactions /\ Run!Nothing.seen.waits = Run!NoWait /\ Run!Nothing.work = "none"
      /\ Run!Nothing.call = 0
  BY DEF Run!Nothing, Run!NoTask, Run!NoWait, Transactions, Rows, Tasks, Waits
<1>3. DOMAIN toolCall = {} /\ next = 1 /\ toolCall \in [1..0 -> [tool : Tools, outcome : Outcomes]]
  OBVIOUS
<1>4. CallsNumbered
  <2>1. 0 \in 0..MaxToolCalls /\ next \in 1..0 + 1
    BY <1>3, RunAssumption
  <2>. QED BY <1>3, <2>1 DEF CallsNumbered
<1>5. RunTyped
  BY <1>1, <1>2, <1>4 DEF RunTyped, Stages, Run!CallNumbers
<1>6. WorkFits /\ NoWaitNoOther
  BY <1>1, <1>2 DEF WorkFits, NoWaitNoOther
<1>7. FailuresTold(row.task)
  BY <1>1, <1>3 DEF FailuresTold, Run!NoTask
<1>. QED BY <1>1, <1>5, <1>6, <1>7 DEF AnswerInv, BlockersTell, AnswerPassed

\* Only the run's own steps change what it knows.
LEMMA AnswerInvStep == AnswerInv /\ [Run!Next]_runVars => AnswerInv'
<1>1. ASSUME AnswerInv, Run!Next PROVE AnswerInv'
  <2>1. RunTyped' /\ WorkFits' /\ NoWaitNoOther'
    BY <1>1, RunTypedStep, WorkFitsStep, NoWaitStep DEF AnswerInv
  <2>2. BlockersTell' /\ AnswerPassed'
    <3>1. CASE StreamNext /\ row'.waits = Run!NoWait
      BY <1>1, <3>1, AnswerStream
    <3>2. CASE row'.waits # Run!NoWait
      BY <3>2 DEF BlockersTell, AnswerPassed
    <3>. QED BY <1>1, <3>1, <3>2, WhoSteps, AnswerOthers
  <2>. QED BY <2>1, <2>2 DEF AnswerInv
<1>2. ASSUME AnswerInv, UNCHANGED runVars PROVE AnswerInv'
  <2>1. RunTyped'
    BY <1>2 DEF AnswerInv, RunTyped, CallsNumbered, runVars
  <2>2. WorkFits' /\ NoWaitNoOther'
    BY <1>2 DEF AnswerInv, WorkFits, NoWaitNoOther, runVars
  <2>3. BlockersTell' /\ AnswerPassed'
    BY <1>2, ToldStays DEF AnswerInv, BlockersTell, AnswerPassed, runVars
  <2>. QED BY <2>1, <2>2, <2>3 DEF AnswerInv
<1>. QED BY <1>1, <1>2

LEMMA RunSteps ==
    /\ SystemInit => Run!Init
    /\ [SystemNext]_systemVars => [Run!Next]_runVars
  BY DEF SystemInit, SystemNext, systemVars

\* Whatever operations, approvals and administrators do while a run's stream goes on, the
\* run does not end with its own answer while a failure a corrected call may repair stands.
THEOREM AnswersAreRepaired == SystemSpec => []AnswerIsRepaired
<1>1. SystemInit => AnswerInv
  BY RunSteps, AnswerInit
<1>2. AnswerInv /\ [SystemNext]_systemVars => AnswerInv'
  BY RunSteps, AnswerInvStep
<1>3. ASSUME AnswerInv PROVE AnswerIsRepaired
  <2>. SUFFICES ASSUME row.status = "succeeded", row.waits = Run!NoWait, NEW f \in Run!Recorded,
                       toolCall[f].outcome \in Repairable,
                       \A c \in Run!Recorded : c > f /\ toolCall[c].outcome \in Run!Errors =>
                          CodeOf[toolCall[c].outcome] # CodeOf[toolCall[f].outcome]
                PROVE  \E c \in Run!Recorded :
                         /\ c > f /\ toolCall[c].outcome = "succeeded"
                         /\ \/ toolCall[c].tool.cap = toolCall[f].tool.cap
                            \/ toolCall[c].tool.node = toolCall[f].tool.node
    BY DEF AnswerIsRepaired, Run!AnswerIsRepaired
  <2>1. LastFailed(f) /\ f \in DOMAIN toolCall
    BY DEF LastFailed, Run!Recorded
  <2>2. RepairedLater(f)
    BY <1>3, <2>1 DEF AnswerInv, AnswerPassed, AllRepaired
  <2>. QED BY <2>2 DEF RepairedLater
<1>. QED BY <1>1, <1>2, <1>3, PTL DEF SystemSpec

(***************************************************************************)
(* What is pending.                                                        *)
(***************************************************************************)

\* What a commit of the stream makes of what is pending and what the run waits for.
LEMMA StreamEffect ==
    ASSUME RunTyped, WorkFits, StreamNext, ~lost'
    PROVE  /\ ~lost
           /\ IF Run!CommitResult
              THEN /\ row'.task.approvals = IF toolCall[next].outcome = "waiting_approval"
                                            THEN row.task.approvals \cup {next} ELSE row.task.approvals
                   /\ row'.task.operations = IF toolCall[next].outcome = "waiting_operation"
                                             THEN row.task.operations \cup {next} ELSE row.task.operations
              ELSE row'.task.approvals = row.task.approvals /\ row'.task.operations = row.task.operations
           /\ ~Run!CommitWait => row'.waits = row.waits
           /\ Run!CommitWait => working["stream"].seen.waits = row.waits
<1>s. "stream" \in Run!Sessions
  BY StageNames
<1>t. PICK task \in Tasks : task = working["stream"].seen.task
  BY <1>s, SeenIs
<1>w. PICK waits \in Waits : waits = working["stream"].seen.waits
  BY <1>s, SeenIs
<1>1. CASE Run!CommitResult
  <2>1. next \in DOMAIN toolCall
    BY <1>1, NextIs, StreamStage DEF Run!CommitResult
  <2>2. next \in Positive /\ toolCall[next].tool \in Tools /\ toolCall[next].outcome \in Outcomes
    BY <2>1, CallIs
  <2>3. PICK new : new = Run!RecordResult(task, next)
    OBVIOUS
  <2>4. /\ new \in Tasks
        /\ new.approvals = IF toolCall[next].outcome = "waiting_approval"
                           THEN task.approvals \cup {next} ELSE task.approvals
        /\ new.operations = IF toolCall[next].outcome = "waiting_operation"
                            THEN task.operations \cup {next} ELSE task.operations
    BY <2>2, <2>3, RecordedIs
  <2>5. Run!WriteTask("stream", new) /\ ~Run!CommitWait
    BY <1>1, <1>t, <2>3 DEF Run!CommitResult, Run!CommitWait
  <2>6. /\ row'.task = new /\ row'.waits = working["stream"].seen.waits /\ ~lost
        /\ working["stream"].seen.task = row.task /\ working["stream"].seen.waits = row.waits
    BY <1>s, <2>4, <2>5, WriteTaskIs
  <2>. QED BY <1>1, <1>t, <2>4, <2>5, <2>6
<1>2. CASE Run!CommitWait
  <2>1. ~Run!CommitResult
    BY <1>2 DEF Run!CommitWait, Run!CommitResult
  <2>2. next \in DOMAIN toolCall /\ stage = "waiting" /\ next \in Nat
    BY <1>2, NextIs, StreamStage, CallIs DEF Run!CommitWait
  <2>3. PICK end \in RunStatuses : end = toolCall[next].outcome
    BY <2>2, StageNames DEF RunTyped, CallsNumbered
  <2>4. PICK new \in Waits :
            new = IF toolCall[next].outcome = "waiting_approval" THEN [approval |-> next, operation |-> 0]
                  ELSE [approval |-> 0, operation |-> next]
    BY <2>2 DEF Waits
  <2>5. Run!Write("stream", end, task, new)
    BY <1>2, <1>t, <2>3, <2>4 DEF Run!CommitWait
  <2>6. /\ row'.task = task /\ ~lost
        /\ working["stream"].seen.task = row.task /\ working["stream"].seen.waits = row.waits
    BY <1>s, <2>5, WriteIs
  <2>. QED BY <1>2, <1>t, <2>1, <2>6
<1>3. CASE Run!CommitGate \/ Run!CommitFinal \/ Run!CommitRefused
  <2>1. ~Run!CommitWait /\ ~Run!CommitResult
    BY <1>3 DEF Run!CommitGate, Run!CommitFinal, Run!CommitRefused, Run!CommitWait, Run!CommitResult
  <2>2. PICK new : new \in {task, Run!RunCompleted(task), Run!RunFailed(task)} /\ Run!WriteTask("stream", new)
    BY <1>3, <1>t DEF Run!CommitGate, Run!CommitFinal, Run!CommitRefused
  <2>3. new \in Tasks /\ new.approvals = task.approvals /\ new.operations = task.operations
    BY <2>2, CompletedIs
  <2>4. /\ row'.task = new /\ row'.waits = working["stream"].seen.waits /\ ~lost
        /\ working["stream"].seen.task = row.task /\ working["stream"].seen.waits = row.waits
    BY <1>s, <2>2, <2>3, WriteTaskIs
  <2>. QED BY <1>t, <2>1, <2>3, <2>4
<1>4. CASE Run!CommitLimit
  <2>1. ~Run!CommitWait /\ ~Run!CommitResult
    BY <1>4 DEF Run!CommitLimit, Run!CommitWait, Run!CommitResult
  <2>2. PICK new : new = Run!RunFailed(task)
    OBVIOUS
  <2>3. new \in Tasks /\ new.approvals = task.approvals /\ new.operations = task.operations
    BY <2>2, CompletedIs
  <2>4. Run!Write("stream", "failed", new, waits)
    BY <1>4, <1>t, <1>w, <2>2 DEF Run!CommitLimit
  <2>5. /\ row'.task = new /\ row'.waits = waits /\ ~lost
        /\ working["stream"].seen.task = row.task /\ working["stream"].seen.waits = row.waits
    BY <1>s, <2>3, <2>4, WriteIs, StageNames
  <2>. QED BY <1>t, <1>w, <2>1, <2>3, <2>5
<1>5. CASE Run!CommitEnd
  <2>1. ~Run!CommitWait /\ ~Run!CommitResult
    BY <1>5 DEF Run!CommitEnd, Run!CommitWait, Run!CommitResult
  <2>2. row'.task = row.task /\ row'.waits = row.waits /\ lost' = lost
    BY <1>5 DEF Run!CommitEnd, Run!WriteStatus, RunTyped, Rows
  <2>. QED BY <2>1, <2>2
<1>6. CASE /\ ~Run!CommitWait /\ ~Run!CommitResult /\ ~Run!CommitEnd /\ ~Run!CommitLimit
           /\ ~(Run!CommitGate \/ Run!CommitFinal \/ Run!CommitRefused)
  <2>1. row' = row /\ lost' = lost
    BY <1>6 DEF StreamNext, Run!StreamReads, Run!Read, Run!Execute, Run!Answer, Run!CommitWaitPlan,
       Run!CommitEndPlan, Run!Raise
  <2>. QED BY <1>6, <2>1
<1>. QED BY <1>1, <1>2, <1>3, <1>4, <1>5, <1>6

\* What a promotion makes of them.
LEMMA PromotionEffect ==
    ASSUME RunTyped, WorkFits, Run!CommitPromotion, NEW c, c = working["approver"].call
    PROVE  /\ c \in DOMAIN toolCall /\ working["approver"].work = "promote"
           /\ working' = [working EXCEPT !["approver"] = Run!Nothing]
           /\ UNCHANGED <<stage, toolCall, next, op, approval>>
           /\ \/ /\ UNCHANGED <<row, lost>> /\ missed' = missed \cup {c}
              \/ /\ working["approver"].seen.waits.approval = c
                 /\ row'.status = "waiting_operation"
                 /\ row'.waits = [approval |-> c, operation |-> c] /\ missed' = missed
                 /\ ~lost' => /\ ~lost
                              /\ row'.task.approvals = row.task.approvals \ {c}
                              /\ row'.task.operations = row.task.operations \cup {c}
<1>s. "approver" \in Run!Sessions
  BY StageNames
<1>1. c \in DOMAIN toolCall
  BY DEF WorkFits, Run!CommitPromotion
<1>2. PICK task \in Tasks : task = working["approver"].seen.task
  BY <1>s, SeenIs
<1>3. c \in Positive /\ c \in Nat
  BY <1>1, CallIs
<1>4. PICK new \in Tasks : /\ new = Run!Decided(Run!Approved(task, c))
                           /\ new.approvals = task.approvals \ {c} /\ new.operations = task.operations \cup {c}
  BY <1>3, PromotedIs
<1>5. PICK waits \in Waits : waits = [approval |-> c, operation |-> c]
  BY <1>3 DEF Waits
<1>6. \/ /\ Run!Write("approver", "waiting_operation", new, waits) /\ missed' = missed
         /\ working["approver"].seen.status = "waiting_approval" /\ working["approver"].seen.waits.approval = c
      \/ Run!Leave("approver") /\ missed' = missed \cup {c}
  BY <1>2, <1>4, <1>5 DEF Run!CommitPromotion
<1>7. CASE /\ Run!Write("approver", "waiting_operation", new, waits) /\ missed' = missed
           /\ working["approver"].seen.status = "waiting_approval" /\ working["approver"].seen.waits.approval = c
  <2>1. /\ row'.task = new /\ row'.waits = waits /\ row'.status = "waiting_operation"
        /\ working' = [working EXCEPT !["approver"] = Run!Nothing]
        /\ ~lost' => ~lost /\ task = row.task
    BY <1>s, <1>2, <1>7, WriteIs, StageNames
  <2>. QED BY <1>1, <1>4, <1>5, <1>7, <2>1 DEF Run!CommitPromotion
<1>8. CASE Run!Leave("approver") /\ missed' = missed \cup {c}
  BY <1>1, <1>8 DEF Run!Leave, Run!CommitPromotion
<1>. QED BY <1>6, <1>7, <1>8

\* What the end of an operation makes of them.
LEMMA EndEffect ==
    ASSUME RunTyped, WorkFits, NEW how \in Run!Errors \cup {"succeeded"}, Run!CommitEndOf(how),
           NEW c, c = working["projector"].call
    PROVE  /\ c \in DOMAIN toolCall /\ working["projector"].work = "end" /\ how # "running"
           /\ working' = [working EXCEPT !["projector"] = Run!Nothing]
           /\ op' = [op EXCEPT ![c] = how]
           /\ UNCHANGED <<stage, toolCall, next, approval>>
           /\ \/ /\ UNCHANGED <<row, lost>> /\ missed' = missed \cup {c}
              \/ /\ working["projector"].seen.waits.operation = c /\ row'.status = row.status
                 /\ missed' = missed
                 /\ ~lost' => /\ ~lost /\ row'.waits = row.waits
                              /\ row'.task.approvals = row.task.approvals
                              /\ row'.task.operations = row.task.operations \ {c}
<1>s. "projector" \in Run!Sessions
  BY StageNames
<1>0. how # "running"
  BY RunAssumption DEF Run!Errors
<1>1. c \in DOMAIN toolCall
  BY DEF WorkFits, Run!CommitEndOf
<1>2. PICK task \in Tasks : task = working["projector"].seen.task
  BY <1>s, SeenIs
<1>3. PICK new \in Tasks : /\ new = Run!OperationEnded(task, c, how)
                           /\ new.approvals = task.approvals /\ new.operations = task.operations \ {c}
  BY <1>1, EndedIs, CallIs
<1>4. \/ /\ Run!WriteTask("projector", new) /\ missed' = missed
         /\ Run!Hears(working["projector"].seen, "operation", c)
      \/ Run!Leave("projector") /\ missed' = missed \cup {c}
  BY <1>2, <1>3 DEF Run!CommitEndOf
<1>5. CASE /\ Run!WriteTask("projector", new) /\ missed' = missed
           /\ Run!Hears(working["projector"].seen, "operation", c)
  <2>1. /\ row'.task = new /\ row'.waits = working["projector"].seen.waits /\ row'.status = row.status
        /\ working' = [working EXCEPT !["projector"] = Run!Nothing]
        /\ ~lost' => ~lost /\ task = row.task /\ working["projector"].seen.waits = row.waits
    BY <1>s, <1>2, <1>5, WriteTaskIs
  <2>2. working["projector"].seen.waits.operation = c
    BY <1>5 DEF Run!Hears
  <2>. QED BY <1>0, <1>1, <1>3, <1>5, <2>1, <2>2 DEF Run!CommitEndOf
<1>6. CASE Run!Leave("projector") /\ missed' = missed \cup {c}
  BY <1>0, <1>1, <1>6 DEF Run!Leave, Run!CommitEndOf
<1>. QED BY <1>4, <1>5, <1>6

\* What the reporter makes of them.
LEMMA ReportEffect ==
    ASSUME RunTyped, WorkFits, Run!CommitReport
    PROVE  /\ working["projector"].work = "report"
           /\ working' = [working EXCEPT !["projector"] = Run!Nothing]
           /\ UNCHANGED <<stage, toolCall, next, op, approval, missed>>
           /\ row'.status \in {row.status, "succeeded", "failed"}
           /\ row'.waits = working["projector"].seen.waits
           /\ ~lost' => /\ ~lost /\ row'.waits = row.waits
                        /\ row'.task.approvals = row.task.approvals
                        /\ row'.task.operations = row.task.operations
<1>s. "projector" \in Run!Sessions
  BY StageNames
<1>1. PICK end \in {"succeeded", "failed"} :
          end = IF op[working["projector"].call] = "succeeded" THEN "succeeded" ELSE "failed"
  OBVIOUS
<1>2. PICK task \in Tasks : task = working["projector"].seen.task
  BY <1>s, SeenIs
<1>3. PICK waits \in Waits : waits = working["projector"].seen.waits
  BY <1>s, SeenIs
<1>4. PICK new \in Tasks : /\ new = IF end = "succeeded" THEN Run!RunCompleted(task) ELSE task
                           /\ new.approvals = task.approvals /\ new.operations = task.operations
  BY CompletedIs
<1>5. Run!Write("projector", end, new, waits)
  BY <1>1, <1>2, <1>3, <1>4 DEF Run!CommitReport
<1>6. /\ row'.task = new /\ row'.waits = waits /\ row'.status \in {row.status, end}
      /\ working' = [working EXCEPT !["projector"] = Run!Nothing]
      /\ ~lost' => ~lost /\ task = row.task /\ waits = row.waits
  BY <1>s, <1>1, <1>2, <1>3, <1>5, WriteIs, StageNames
<1>. QED BY <1>1, <1>3, <1>4, <1>6 DEF Run!CommitReport

\* How the stream moves on.
LEMMA StageMoves ==
    ASSUME RunTyped, WorkFits, StreamNext
    PROVE  \/ UNCHANGED <<stage, next>> /\ ~Run!CommitWait /\ ~Run!CommitResult
           \/ /\ Run!Execute /\ stage = "thinking" /\ stage' \in {"recording", "unstored"} /\ next' = next
              /\ ~Run!CommitWait /\ ~Run!CommitResult /\ row' = row
           \/ /\ Run!CommitResult /\ stage = "recording" /\ next \in DOMAIN toolCall /\ ~Run!CommitWait
              /\ \/ toolCall[next].outcome \in Run!Waiting /\ stage' = "waiting" /\ next' = next
                 \/ /\ toolCall[next].outcome \notin Run!Waiting /\ next' = next + 1
                    /\ stage' \in {"recording", "over", "thinking", "limit"}
           \/ /\ Run!CommitWait /\ stage = "waiting" /\ stage' = "waitingPlan" /\ next' = next
              /\ next \in DOMAIN toolCall /\ toolCall[next].outcome \in Run!Waiting /\ ~Run!CommitResult
           \/ /\ stage = "waitingPlan" /\ next' = next + 1 /\ stage' \in {"recording", "over"}
              /\ ~Run!CommitWait /\ ~Run!CommitResult /\ row' = row
           \/ /\ next' = next /\ stage' \notin {"recording", "waiting", "waitingPlan"}
              /\ stage' \in {"thinking", "gate"} => stage \in {"thinking", "gate"}
              /\ ~Run!CommitWait /\ ~Run!CommitResult
<1>1. CASE Run!CommitResult
  <2>1. stage = "recording" /\ next \in DOMAIN toolCall /\ ~Run!CommitWait
    BY <1>1, StreamStage, NextIs DEF Run!CommitResult, Run!CommitWait
  <2>2. CASE toolCall[next].outcome \in Run!Waiting
    BY <1>1, <2>1, <2>2 DEF Run!CommitResult
  <2>3. CASE toolCall[next].outcome \notin Run!Waiting
    BY <1>1, <2>1, <2>3 DEF Run!CommitResult, Run!Proceed, Run!Iterate
  <2>. QED BY <2>2, <2>3
<1>2. CASE Run!CommitWait
  <2>1. stage = "waiting" /\ next \in DOMAIN toolCall /\ ~Run!CommitResult
    BY <1>2, StreamStage, NextIs DEF Run!CommitResult, Run!CommitWait
  <2>2. toolCall[next].outcome \in Run!Waiting
    BY <2>1 DEF RunTyped, CallsNumbered
  <2>. QED BY <1>2, <2>1, <2>2 DEF Run!CommitWait
<1>3. CASE Run!CommitEnd
  <2>1. stage \in {"succeed", "fail", "unstored"}
    BY <1>3, StreamStage DEF Run!CommitEnd
  <2>. QED BY <1>3, <2>1 DEF Run!CommitEnd, Run!CommitResult, Run!CommitWait
<1>4. CASE Run!StreamReads \/ Run!Execute \/ Run!Answer \/ Run!Raise
  <2>n. next \in Nat
    BY DEF RunTyped, CallsNumbered
  <2>0. ~Run!CommitWait /\ ~Run!CommitResult
    <3>1. stage = "recording" /\ stage' = "waiting" => ~(Run!StreamReads \/ Run!Execute \/ Run!Answer \/ Run!Raise)
      BY DEF Run!StreamReads, Run!Read, Run!Execute, Run!Answer, Run!Raise
    <3>2. next' = next
      BY <1>4 DEF Run!StreamReads, Run!Read, Run!Execute, Run!Answer, Run!Raise
    <3>3. Run!CommitResult => stage = "recording" /\ (stage' = "waiting" \/ next' = next + 1)
      BY StreamStage DEF Run!CommitResult, Run!Proceed
    <3>4. Run!CommitWait => stage = "waiting" /\ stage' = "waitingPlan"
      BY StreamStage DEF Run!CommitWait
    <3>5. ~(stage = "waiting" /\ stage' = "waitingPlan")
      BY <1>4 DEF Run!StreamReads, Run!Read, Run!Execute, Run!Answer, Run!Raise
    <3>. QED BY <1>4, <2>n, <3>1, <3>2, <3>3, <3>4, <3>5
  <2>1. CASE Run!StreamReads
    BY <2>0, <2>1 DEF Run!StreamReads, Run!Read
  <2>2. CASE Run!Execute
    BY <2>0, <2>2 DEF Run!Execute
  <2>3. CASE Run!Answer
    BY <2>0, <2>3 DEF Run!Answer
  <2>4. CASE Run!Raise
    BY <2>0, <2>4 DEF Run!Raise
  <2>. QED BY <1>4, <2>1, <2>2, <2>3, <2>4
<1>5. CASE Run!CommitWaitPlan
  BY <1>5, StreamStage DEF Run!CommitWaitPlan, Run!CommitResult, Run!CommitWait
<1>6. CASE Run!CommitGate \/ Run!CommitFinal \/ Run!CommitRefused \/ Run!CommitLimit \/ Run!CommitEndPlan
  BY <1>6, StreamStage DEF Run!CommitGate, Run!CommitFinal, Run!CommitRefused, Run!CommitLimit,
     Run!CommitEndPlan, Run!Iterate, Run!CommitResult, Run!CommitWait
<1>. QED BY <1>1, <1>2, <1>3, <1>4, <1>5, <1>6 DEF StreamNext

\* The invariant behind PendingIsOpen.
PendingInv == AnswerInv /\ CallsHaveKinds /\ WaitsAreOld /\ UnrecordedIsOpen /\ StatusIsWait /\ PendingTold

\* The stream keeps what is pending told.
LEMMA KindsStream ==
    ASSUME AnswerInv, CallsHaveKinds, StreamNext
    PROVE  CallsHaveKinds'
<1>. USE DEF AnswerInv
<1>1. /\ \A s \in {"approver", "projector"} : working'[s] = working[s]
      /\ missed' = missed
      /\ \A c \in DOMAIN toolCall : c \in DOMAIN toolCall' /\ toolCall'[c] = toolCall[c]
  BY StreamWorks
<1>2. working["projector"].work = "report" => stage = "over"
  BY DEF CallsHaveKinds
<1>3. stage = "over" => stage' = "over"
  BY StreamStage DEF StreamNext, Run!StreamReads, Run!Execute, Run!Answer, Run!CommitResult, Run!CommitWait,
     Run!CommitWaitPlan, Run!CommitGate, Run!CommitFinal, Run!CommitRefused, Run!CommitEnd, Run!CommitLimit,
     Run!CommitEndPlan, Run!Raise
<1>4. CASE ~Run!Execute
  <2>1. toolCall' = toolCall /\ UNCHANGED <<approval, op>>
    BY <1>4, StreamWorks
  <2>. QED BY <1>1, <1>2, <1>3, <2>1 DEF CallsHaveKinds, Promoting
<1>5. CASE Run!Execute
  <2>1. \A c \in 1..MaxToolCalls :
                /\ approval'[c] = IF c \in DOMAIN toolCall' \ DOMAIN toolCall
                                     /\ toolCall'[c].outcome = "waiting_approval"
                                  THEN "pending" ELSE approval[c]
                /\ op'[c] = IF c \in DOMAIN toolCall' \ DOMAIN toolCall
                               /\ toolCall'[c].outcome = "waiting_operation"
                            THEN "running" ELSE op[c]
    BY <1>5, ExecuteNumbers
  <2>2. \A c \in 1..MaxToolCalls : c \in DOMAIN toolCall \/ (approval[c] = "none" /\ op[c] = "none" /\ ~Promoting(c))
    BY DEF CallsHaveKinds
  <2>3. \A c \in 1..MaxToolCalls :
          c \in DOMAIN toolCall => approval'[c] = approval[c] /\ op'[c] = op[c]
    BY <2>1
  <2>4. ASSUME NEW c \in 1..MaxToolCalls, c \notin DOMAIN toolCall
        PROVE  /\ approval'[c] # "none" => c \in DOMAIN toolCall' /\ toolCall'[c].outcome = "waiting_approval"
               /\ op'[c] # "none" => c \in DOMAIN toolCall' /\ toolCall'[c].outcome = "waiting_operation"
    BY <2>1, <2>2, <2>4
  <2>5. \A s \in {"approver", "projector"} : working[s].work # "none" => working[s].call \in DOMAIN toolCall
    BY DEF WorkFits
  <2>. QED BY <1>1, <1>2, <1>3, <2>2, <2>3, <2>4, <2>5 DEF CallsHaveKinds, Promoting
<1>. QED BY <1>4, <1>5

LEMMA WaitsStream ==
    ASSUME AnswerInv, CallsHaveKinds, WaitsAreOld, StreamNext
    PROVE  WaitsAreOld'
<1>. USE DEF AnswerInv
<1>s. "stream" \in Run!Sessions /\ Run!Sessions = {"stream", "approver", "projector"}
  BY StageNames
<1>n. next \in Nat /\ \A c \in DOMAIN toolCall : c \in Nat
  BY NumbersAre
<1>1. /\ \A s \in {"approver", "projector"} : working'[s] = working[s]
      /\ \A c \in DOMAIN toolCall : c \in DOMAIN toolCall' /\ toolCall'[c] = toolCall[c]
      /\ working'["stream"].seen.waits \in {Run!NoWait, working["stream"].seen.waits, row.waits}
  BY StreamWorks
<1>2. \A c \in DOMAIN toolCall : approval[c] = "approved" => approval'[c] = "approved"
  <2>1. CASE Run!Execute
    BY <2>1, ExecuteNumbers, CallIs
  <2>2. CASE ~Run!Execute
    BY <2>2, StreamWorks
  <2>. QED BY <2>1, <2>2
<1>3. ASSUME NEW w, WaitIsOld(w), w.operation \in Nat, w.approval \in Nat PROVE WaitIsOld(w)'
  <2>1. \A c : Promoting(c)' <=> Promoting(c)
    BY <1>1 DEF Promoting
  <2>2. next' = next \/ next' = next + 1
    BY StageMoves
  <2>3. stage' \in {"thinking", "recording", "waiting", "gate"} => w.operation # next' /\ w.approval # next'
    BY <1>3, <1>n, StageMoves DEF WaitIsOld
  <2>. QED BY <1>1, <1>2, <1>3, <1>n, <2>1, <2>2, <2>3 DEF WaitIsOld
<1>4. WaitIsOld(Run!NoWait)
  <2>1. next # 0
    BY DEF RunTyped, CallsNumbered
  <2>. QED BY <2>1 DEF WaitIsOld, Run!NoWait
<1>5. \A w \in SeenWaits : w.operation \in Nat /\ w.approval \in Nat
  BY SeenIs DEF SeenWaits, Waits
<1>6. \A w \in SeenWaits \cup {Run!NoWait} : WaitIsOld(w)'
  <2>1. Run!NoWait.operation \in Nat /\ Run!NoWait.approval \in Nat
    BY DEF Run!NoWait
  <2>2. ASSUME NEW w \in SeenWaits \cup {Run!NoWait} PROVE WaitIsOld(w)'
    <3>1. WaitIsOld(w) /\ w.operation \in Nat /\ w.approval \in Nat
      BY <1>4, <1>5, <2>1 DEF WaitsAreOld
    <3>. QED BY <1>3, <3>1
  <2>. QED BY <2>2
<1>7. CASE Run!CommitWait
  <2>1. PICK w : w = row'.waits
    OBVIOUS
  <2>2. /\ w = IF toolCall[next].outcome = "waiting_approval"
               THEN [approval |-> next, operation |-> 0] ELSE [approval |-> 0, operation |-> next]
        /\ next \in DOMAIN toolCall /\ toolCall[next].outcome \in Run!Waiting /\ stage' = "waitingPlan" /\ next' = next
    BY <1>7, <2>1, StreamWaits, StageMoves
  <2>3. next \in DOMAIN toolCall' /\ toolCall'[next] = toolCall[next] /\ next' <= next'
    BY <1>1, <1>n, <2>2
  <2>4. WaitIsOld(w)'
    BY <2>2, <2>3, StageNames DEF WaitIsOld
  <2>5. SeenWaits' \subseteq SeenWaits \cup {Run!NoWait, w}
    BY <1>1, <1>s, <2>1 DEF SeenWaits
  <2>. QED BY <1>6, <2>4, <2>5 DEF WaitsAreOld
<1>8. CASE ~Run!CommitWait
  <2>1. row'.waits \in {row.waits, working["stream"].seen.waits}
    BY <1>8, StreamWaits
  <2>2. SeenWaits' \subseteq SeenWaits \cup {Run!NoWait}
    BY <1>1, <1>s, <2>1 DEF SeenWaits
  <2>. QED BY <1>6, <2>2 DEF WaitsAreOld
<1>. QED BY <1>7, <1>8

LEMMA UnrecordedStream ==
    ASSUME AnswerInv, CallsHaveKinds, UnrecordedIsOpen, StreamNext
    PROVE  UnrecordedIsOpen'
<1>. USE DEF AnswerInv
<1>n. next \in Nat /\ \A c \in DOMAIN toolCall : c \in Nat
  BY NumbersAre
<1>1. missed' = missed /\ working'["approver"] = working["approver"]
  BY StreamWorks
<1>2. CASE Run!Execute
  <2>1. stage' \in {"recording", "unstored"} /\ next' = next
    BY <1>2, StageMoves DEF Run!Execute
  <2>2. /\ \A c \in DOMAIN toolCall : ~(c >= next)
        /\ \A c \in DOMAIN toolCall' : c \in 1..MaxToolCalls
    <3>1. stage = "thinking"
      BY <1>2 DEF Run!Execute
    <3>2. \A c \in DOMAIN toolCall : ~(c >= next)
      BY <3>1 DEF RunTyped, CallsNumbered
    <3>3. CallsNumbered'
      BY <1>2, ExecuteNumbers
    <3>4. \A c \in DOMAIN toolCall' : c \in 1..MaxToolCalls
      BY <3>3, RunAssumption DEF CallsNumbered
    <3>. QED BY <3>2, <3>4
  <2>3. Unrecorded' \subseteq DOMAIN toolCall' \ DOMAIN toolCall
    BY <2>1, <2>2, <1>n DEF Unrecorded
  <2>4. ASSUME NEW c \in DOMAIN toolCall' \ DOMAIN toolCall
        PROVE  /\ toolCall'[c].outcome = "waiting_operation" => op'[c] = "running"
               /\ toolCall'[c].outcome = "waiting_approval" => approval'[c] = "pending"
    BY <1>2, <2>2, ExecuteNumbers
  <2>. QED BY <2>3, <2>4 DEF UnrecordedIsOpen
<1>3. CASE ~Run!Execute
  <2>1. toolCall' = toolCall /\ UNCHANGED <<approval, op>>
    BY <1>3, StreamWorks
  <2>2. Unrecorded' \subseteq Unrecorded
    BY <1>3, <1>n, <2>1, StageMoves DEF Unrecorded
  <2>. QED BY <1>1, <2>1, <2>2 DEF UnrecordedIsOpen
<1>. QED BY <1>2, <1>3

LEMMA StatusStream ==
    ASSUME AnswerInv, StatusIsWait, StreamNext
    PROVE  StatusIsWait'
<1>. USE DEF AnswerInv
<1>s. "stream" \in Run!Sessions
  BY StageNames
<1>. SUFFICES ASSUME ~lost' PROVE /\ row'.status = "waiting_approval" => row'.waits.approval # 0
                                  /\ working'["stream"].work # "none" => working'["stream"].seen = row'
  BY DEF StatusIsWait
<1>1. ~lost /\ (~Run!CommitWait => row'.waits = row.waits)
      /\ (Run!CommitWait => working["stream"].seen.waits = row.waits)
  BY StreamEffect
<1>2. working'["stream"].work # "none" => working'["stream"].seen = row'
  BY StreamWorks
<1>3. CASE Run!CommitWait
  <2>1. working["stream"].work # "none" /\ working["stream"].seen.status = row.status
    BY <1>1, <1>3 DEF Run!CommitWait, StatusIsWait
  <2>2. row'.status = toolCall[next].outcome
    BY <1>3, <2>1 DEF Run!CommitWait, Run!Write
  <2>3. row'.waits = IF toolCall[next].outcome = "waiting_approval"
                     THEN [approval |-> next, operation |-> 0] ELSE [approval |-> 0, operation |-> next]
    BY <1>3, StreamWaits
  <2>4. next # 0
    BY DEF RunTyped, CallsNumbered
  <2>. QED BY <1>2, <2>2, <2>3, <2>4
<1>4. CASE ~Run!CommitWait
  <2>1. row'.status \in {row.status, "succeeded", "failed"}
    <3>1. ASSUME NEW task, Run!WriteTask("stream", task) PROVE row'.status = row.status
      BY <3>1 DEF Run!WriteTask, Run!Write
    <3>2. CASE Run!CommitResult \/ Run!CommitGate \/ Run!CommitFinal \/ Run!CommitRefused
      BY <3>1, <3>2 DEF Run!CommitResult, Run!CommitGate, Run!CommitFinal, Run!CommitRefused
    <3>3. CASE Run!CommitEnd
      BY <3>3 DEF Run!CommitEnd, Run!WriteStatus, RunTyped, Rows
    <3>4. CASE Run!CommitLimit
      BY <3>4 DEF Run!CommitLimit, Run!Write
    <3>5. CASE ~(Run!CommitResult \/ Run!CommitGate \/ Run!CommitFinal \/ Run!CommitRefused
                 \/ Run!CommitEnd \/ Run!CommitLimit)
      BY <1>4, <3>5 DEF StreamNext, Run!StreamReads, Run!Read, Run!Execute, Run!Answer, Run!CommitWaitPlan,
         Run!CommitEndPlan, Run!Raise
    <3>. QED BY <3>2, <3>3, <3>4, <3>5
  <2>. QED BY <1>1, <1>2, <1>4, <2>1 DEF StatusIsWait
<1>. QED BY <1>3, <1>4

LEMMA ToldStream ==
    ASSUME PendingInv, StreamNext
    PROVE  PendingTold'
<1>. USE DEF AnswerInv, PendingInv
<1>. SUFFICES ASSUME ~lost'
              PROVE  /\ \A c \in DOMAIN toolCall' :
                          Awaited(c, "operation")' /\ op'[c] = "running" => c \in row'.task.operations
                     /\ \A c \in DOMAIN toolCall' :
                          Awaited(c, "approval")' /\ approval'[c] = "pending" => c \in row'.task.approvals
                     /\ \A c \in row'.task.operations \ missed' : c \in DOMAIN toolCall' /\ op'[c] = "running"
                     /\ \A c \in row'.task.approvals \ missed' :
                          /\ c \in DOMAIN toolCall'
                          /\ working'["approver"].call = c \/ approval'[c] = "pending"
  BY DEF PendingTold
<1>n. next \in Nat /\ next # 0 /\ \A c \in DOMAIN toolCall : c \in Nat /\ c \in 1..MaxToolCalls
  BY NumbersAre
<1>1. missed' = missed /\ working'["approver"] = working["approver"] /\ ~lost
  BY StreamWorks, StreamEffect
<1>2. CASE Run!CommitResult
  <2>1. UNCHANGED <<toolCall, approval, op>> /\ row'.waits = row.waits /\ stage = "recording" /\ next \in DOMAIN toolCall
        /\ (stage' = "waiting" => next' = next)
    BY <1>2, StreamWorks, StreamEffect, StageMoves DEF Run!CommitResult, Run!Execute
  <2>2. /\ row'.task.approvals = IF toolCall[next].outcome = "waiting_approval"
                                 THEN row.task.approvals \cup {next} ELSE row.task.approvals
        /\ row'.task.operations = IF toolCall[next].outcome = "waiting_operation"
                                  THEN row.task.operations \cup {next} ELSE row.task.operations
    BY <1>2, StreamEffect
  <2>3. next \in Unrecorded
    BY <2>1 DEF Unrecorded
  <2>. QED BY <1>1, <2>1, <2>2, <2>3 DEF PendingTold, Awaited, UnrecordedIsOpen
<1>3. CASE Run!CommitWait
  <2>1. UNCHANGED <<toolCall, approval, op>> /\ stage = "waiting" /\ stage' = "waitingPlan" /\ next' = next
        /\ row'.task.approvals = row.task.approvals /\ row'.task.operations = row.task.operations
    BY <1>3, StreamWorks, StreamEffect, StageMoves DEF Run!CommitWait, Run!Execute, Run!CommitResult
  <2>2. row'.waits = IF toolCall[next].outcome = "waiting_approval"
                     THEN [approval |-> next, operation |-> 0] ELSE [approval |-> 0, operation |-> next]
    BY <1>3, StreamWaits
  <2>3. toolCall[next].outcome \in Run!Waiting
    BY <1>3, StageMoves
  <2>4. \A c \in DOMAIN toolCall : c # 0 /\ (Awaited(c, "operation")' => Awaited(c, "operation"))
                                   /\ (Awaited(c, "approval")' => Awaited(c, "approval"))
    BY <1>n, <2>1, <2>2, <2>3, StageNames DEF Awaited
  <2>. QED BY <1>1, <2>1, <2>4 DEF PendingTold
<1>4. CASE ~Run!CommitResult /\ ~Run!CommitWait
  <2>1. row'.task.approvals = row.task.approvals /\ row'.task.operations = row.task.operations
        /\ row'.waits = row.waits
    BY <1>4, StreamEffect
  <2>2. stage' = "waiting" => stage = "waiting" /\ next' = next
    BY <1>4, StageMoves
  <2>3. /\ \A c \in DOMAIN toolCall : c \in DOMAIN toolCall' /\ toolCall'[c] = toolCall[c]
        /\ \A c \in DOMAIN toolCall : approval'[c] = approval[c] /\ op'[c] = op[c]
    <3>1. CASE Run!Execute
      BY <1>n, <3>1, ExecuteNumbers
    <3>. QED BY <3>1, StreamWorks
  <2>4. row.waits \in SeenWaits
    BY DEF SeenWaits
  <2>5. ASSUME NEW c \in DOMAIN toolCall'
        PROVE  /\ Awaited(c, "operation")' => c \in DOMAIN toolCall /\ Awaited(c, "operation")
               /\ Awaited(c, "approval")' => c \in DOMAIN toolCall /\ Awaited(c, "approval")
    <3>1. c # 0
      <4>1. RunTyped'
        BY RunTypedStep DEF StreamNext, Run!Next
      <4>. QED BY <4>1 DEF RunTyped, CallsNumbered
    <3>2. WaitIsOld(row.waits)
      BY <2>4 DEF WaitsAreOld
    <3>3. c = row.waits.operation \/ c = row.waits.approval => c \in DOMAIN toolCall
      BY <3>1, <3>2 DEF WaitIsOld
    <3>4. stage' = "waiting" /\ c = next => c \in DOMAIN toolCall
      BY <2>2, NextIs
    <3>. QED BY <2>1, <2>2, <2>3, <3>3, <3>4 DEF Awaited
  <2>. QED BY <1>1, <2>1, <2>3, <2>5 DEF PendingTold
<1>. QED BY <1>2, <1>3, <1>4

\* What PendingInv adds to AnswerInv.
Pending == CallsHaveKinds /\ WaitsAreOld /\ UnrecordedIsOpen /\ StatusIsWait /\ PendingTold

\* A transaction that begins changes nothing of it.
LEMMA PendingReads ==
    ASSUME PendingInv, UNCHANGED <<row, stage, toolCall, next, missed, lost>>,
           working'["stream"] = working["stream"], working'["projector"] = working["projector"],
           working'["approver"].seen.waits \in {Run!NoWait, row.waits, working["approver"].seen.waits},
           NEW c \in DOMAIN toolCall, working'["approver"].call = c,
           \/ /\ working["approver"].work = "none" /\ approval[c] = "pending"
              /\ working'["approver"].work = "started"
              /\ approval' = [approval EXCEPT ![c] = "approved"] /\ op' = [op EXCEPT ![c] = "running"]
           \/ /\ working["approver"].work = "started" /\ working["approver"].call = c
              /\ working'["approver"].work = "promote" /\ UNCHANGED <<approval, op>>
    PROVE  Pending'
<1>. USE DEF AnswerInv, PendingInv
<1>s. Run!Sessions = {"stream", "approver", "projector"}
  BY StageNames
<1>n. next \in Nat /\ next # 0 /\ \A d \in DOMAIN toolCall : d \in Nat /\ d # 0 /\ d \in 1..MaxToolCalls
  BY NumbersAre
<1>1. /\ approval[c] = "pending" \/ working["approver"].call = c
      /\ \A d \in 1..MaxToolCalls \ {c} : approval'[d] = approval[d] /\ op'[d] = op[d]
      /\ \/ approval[c] = "pending" /\ approval'[c] \in {"pending", "approved"}
         \/ approval'[c] = approval[c]
      /\ approval'[c] = "pending" => approval[c] = "pending" /\ op'[c] = op[c]
      /\ op'[c] = op[c] \/ (op'[c] = "running" /\ approval'[c] = "approved" /\ approval[c] = "pending")
  BY <1>n DEF RunTyped
<1>2. \A d \in DOMAIN toolCall : approval[d] # "none" => toolCall[d].outcome = "waiting_approval"
  BY <1>n DEF CallsHaveKinds
<1>3. working["approver"].call \in {0, c}
  BY DEF WorkFits
<1>4. CallsHaveKinds'
  <2>1. ASSUME NEW d \in 1..MaxToolCalls, d # c
        PROVE  /\ approval'[d] = approval[d] /\ op'[d] = op[d] /\ working'["approver"].call # d
    BY <1>1, <2>1
  <2>2. /\ approval[c] # "none" => toolCall[c].outcome = "waiting_approval"
        /\ op[c] # "none" => toolCall[c].outcome = "waiting_operation"
                             \/ (toolCall[c].outcome = "waiting_approval" /\ approval[c] = "approved")
        /\ Promoting(c) => approval[c] = "approved" /\ (op[c] = "running" \/ c \in missed)
    BY <1>n DEF CallsHaveKinds
  <2>3. /\ approval'[c] # "none" => toolCall[c].outcome = "waiting_approval"
        /\ op'[c] # "none" => toolCall[c].outcome = "waiting_operation"
                              \/ (toolCall[c].outcome = "waiting_approval" /\ approval'[c] = "approved")
    BY <1>1, <2>2
  <2>4. Promoting(c)' => approval'[c] = "approved" /\ (op'[c] = "running" \/ c \in missed')
    BY <1>n, <2>2 DEF Promoting, RunTyped
  <2>6. ASSUME working'["projector"].work = "end", working'["projector"].call = c PROVE op'[c] = "running"
    BY <1>1, <1>n, <2>6 DEF CallsHaveKinds
  <2>. QED BY <2>1, <2>2, <2>3, <2>4, <2>6 DEF CallsHaveKinds, Promoting
<1>5. ASSUME NEW d, Promoting(d)', ~Promoting(d) PROVE approval[d] = "pending" /\ d = c
  BY <1>5 DEF Promoting
<1>6. \A w \in SeenWaits \cup {Run!NoWait} : WaitIsOld(w)'
  <2>1. WaitIsOld(Run!NoWait)
    BY <1>n DEF WaitIsOld, Run!NoWait
  <2>2. ASSUME NEW w, WaitIsOld(w) PROVE WaitIsOld(w)'
    <3>1. w.operation # 0 /\ approval[w.operation] = "approved" => approval'[w.operation] = "approved"
      BY <1>n, <1>1, <2>2 DEF WaitIsOld
    <3>2. w.operation # 0 /\ approval[w.operation] = "approved" /\ ~Promoting(w.operation) => ~Promoting(w.operation)'
      BY <1>5
    <3>. QED BY <2>2, <3>1, <3>2 DEF WaitIsOld
  <2>. QED BY <2>1, <2>2 DEF WaitsAreOld
<1>7. WaitsAreOld'
  <2>1. SeenWaits' \subseteq SeenWaits \cup {Run!NoWait}
    BY <1>s DEF SeenWaits
  <2>. QED BY <1>6, <2>1 DEF WaitsAreOld
<1>8. UnrecordedIsOpen'
  <2>1. Unrecorded' = Unrecorded /\ Unrecorded \subseteq DOMAIN toolCall
    BY DEF Unrecorded
  <2>2. ASSUME NEW d \in Unrecorded
        PROVE  /\ op[d] = "running" => op'[d] = "running"
               /\ approval[d] = "pending" => approval'[d] = "pending" \/ working'["approver"].call = d
               /\ working["approver"].call = d => working'["approver"].call = d
    BY <1>1, <1>n, <1>3, <2>1, <2>2
  <2>. QED BY <2>1, <2>2 DEF UnrecordedIsOpen
<1>9. StatusIsWait'
  BY DEF StatusIsWait
<1>10. PendingTold'
  <2>1. ASSUME NEW d \in DOMAIN toolCall, Awaited(d, "operation")', op'[d] = "running", ~lost
        PROVE  Awaited(d, "operation") /\ op[d] = "running"
    <3>1. Awaited(d, "operation")
      BY <2>1 DEF Awaited
    <3>2. CASE d = c /\ op[c] # "running"
      <4>1. approval[c] = "pending" /\ toolCall[c].outcome = "waiting_approval"
        BY <1>1, <1>2, <2>1, <3>2
      <4>2. row.waits \in SeenWaits
        BY DEF SeenWaits
      <4>3. row.waits.operation # c
        BY <1>n, <4>1, <4>2 DEF WaitsAreOld, WaitIsOld
      <4>. QED BY <3>1, <3>2, <4>1, <4>3 DEF Awaited
    <3>. QED BY <1>1, <1>n, <2>1, <3>1, <3>2
  <2>2. ASSUME NEW d \in DOMAIN toolCall, Awaited(d, "approval")', approval'[d] = "pending"
        PROVE  Awaited(d, "approval") /\ approval[d] = "pending"
    BY <1>1, <1>n, <2>2 DEF Awaited
  <2>3. ASSUME NEW d \in DOMAIN toolCall, op[d] = "running" PROVE op'[d] = "running"
    BY <1>1, <1>n, <2>3
  <2>4. ASSUME NEW d \in DOMAIN toolCall, working["approver"].call = d \/ approval[d] = "pending"
        PROVE  working'["approver"].call = d \/ approval'[d] = "pending"
    BY <1>1, <1>n, <1>3, <2>4
  <2>. QED BY <2>1, <2>2, <2>3, <2>4 DEF PendingTold
<1>. QED BY <1>4, <1>7, <1>8, <1>9, <1>10 DEF Pending

\* The waits a session forgets, and those it writes, are old.
LEMMA WaitsAfterCommit ==
    ASSUME AnswerInv, WaitsAreOld, NEW s \in {"approver", "projector"},
           working' = [working EXCEPT ![s] = Run!Nothing], UNCHANGED <<stage, toolCall, next>>,
           \A c \in DOMAIN toolCall : approval[c] = "approved" => approval'[c] = "approved",
           row'.waits \in SeenWaits \/ WaitIsOld(row.waits)'
    PROVE  WaitsAreOld'
<1>s. Run!Sessions = {"stream", "approver", "projector"}
  BY StageNames
<1>1. working'[s] = Run!Nothing /\ \A r \in Run!Sessions \ {s} : working'[r] = working[r]
  BY <1>s DEF AnswerInv, RunTyped
<1>2. SeenWaits' \subseteq SeenWaits \cup {Run!NoWait, row'.waits}
  BY <1>1, <1>s DEF SeenWaits, Run!Nothing
<1>3. WaitIsOld(Run!NoWait)'
  <2>1. next # 0
    BY DEF AnswerInv, RunTyped, CallsNumbered
  <2>. QED BY <2>1 DEF WaitIsOld, Run!NoWait
<1>4. ASSUME NEW w \in SeenWaits PROVE WaitIsOld(w)'
  <2>1. WaitIsOld(w)
    BY DEF WaitsAreOld
  <2>2. \A c : Promoting(c)' => Promoting(c)
    BY <1>1, <1>s DEF Promoting, Run!Nothing
  <2>. QED BY <2>1, <2>2 DEF WaitIsOld
<1>5. ASSUME NEW w \in SeenWaits' PROVE WaitIsOld(w)'
  <2>1. CASE w \in SeenWaits \cup {Run!NoWait}
    BY <1>3, <1>4, <2>1
  <2>2. CASE w = row'.waits /\ w \notin SeenWaits
    BY <2>2 DEF WaitIsOld
  <2>. QED BY <1>2, <2>1, <2>2
<1>. QED BY <1>5 DEF WaitsAreOld

LEMMA DecisionKeeps ==
    ASSUME PendingInv, Decides
    PROVE  Pending'
<1>. USE DEF AnswerInv, PendingInv
<1>n. next \in Nat /\ next # 0 /\ \A d \in DOMAIN toolCall : d \in Nat /\ d # 0 /\ d \in 1..MaxToolCalls
  BY NumbersAre
<1>c. PICK c \in DOMAIN toolCall : Run!Decide(c)
  BY DEF Decides
<1>1. /\ approval[c] = "pending" /\ missed' = missed \cup {c}
      /\ UNCHANGED <<row, stage, toolCall, next, op, working, lost>>
      /\ \E d \in {"approved", "denied"} : approval' = [approval EXCEPT ![c] = d]
  BY <1>c DEF Run!Decide
<1>2. /\ toolCall[c].outcome = "waiting_approval" /\ op[c] = "none"
      /\ approval'[c] \in {"approved", "denied"}
      /\ \A d \in 1..MaxToolCalls \ {c} : approval'[d] = approval[d]
      /\ ~Promoting(c)
  BY <1>1, <1>n DEF CallsHaveKinds, RunTyped
<1>3. \A d \in DOMAIN toolCall : /\ approval'[d] = "pending" => d # c /\ approval[d] = "pending"
                                 /\ approval[d] = "pending" => d = c \/ approval'[d] = "pending"
                                 /\ approval[d] = "approved" => approval'[d] = "approved"
  BY <1>1, <1>2, <1>n
<1>4. CallsHaveKinds'
  BY <1>1, <1>2, <1>n DEF CallsHaveKinds, Promoting
<1>5. WaitsAreOld'
  BY <1>1, <1>3 DEF WaitsAreOld, SeenWaits, WaitIsOld, Promoting
<1>6. UnrecordedIsOpen'
  BY <1>1, <1>3 DEF UnrecordedIsOpen, Unrecorded
<1>7. StatusIsWait'
  BY <1>1 DEF StatusIsWait
<1>8. PendingTold'
  BY <1>1, <1>3 DEF PendingTold, Awaited
<1>. QED BY <1>4, <1>5, <1>6, <1>7, <1>8 DEF Pending

LEMMA PromotionKeeps ==
    ASSUME PendingInv, Run!CommitPromotion
    PROVE  Pending'
<1>. USE DEF AnswerInv, PendingInv
<1>s. Run!Sessions = {"stream", "approver", "projector"}
  BY StageNames
<1>c. PICK c : c = working["approver"].call
  OBVIOUS
<1>n. next \in Nat /\ next # 0 /\ \A d \in DOMAIN toolCall : d \in Nat /\ d # 0 /\ d \in 1..MaxToolCalls
  BY NumbersAre
<1>1. /\ c \in DOMAIN toolCall /\ working["approver"].work = "promote"
      /\ working' = [working EXCEPT !["approver"] = Run!Nothing]
      /\ UNCHANGED <<stage, toolCall, next, op, approval>>
      /\ \/ /\ UNCHANGED <<row, lost>> /\ missed' = missed \cup {c}
         \/ /\ working["approver"].seen.waits.approval = c
            /\ row'.status = "waiting_operation"
            /\ row'.waits = [approval |-> c, operation |-> c] /\ missed' = missed
            /\ ~lost' => /\ ~lost
                         /\ row'.task.approvals = row.task.approvals \ {c}
                         /\ row'.task.operations = row.task.operations \cup {c}
  BY <1>c, PromotionEffect
<1>2. /\ Promoting(c) /\ approval[c] = "approved" /\ (op[c] = "running" \/ c \in missed)
      /\ toolCall[c].outcome = "waiting_approval"
  BY <1>1, <1>n, <1>c DEF CallsHaveKinds, Promoting
<1>3. /\ working'["approver"] = Run!Nothing /\ working'["projector"] = working["projector"]
      /\ working'["stream"] = working["stream"]
      /\ Run!Nothing.work = "none" /\ Run!Nothing.call = 0
  BY <1>1, <1>s DEF RunTyped, Run!Nothing
<1>4. CallsHaveKinds'
  BY <1>1, <1>3, <1>n DEF CallsHaveKinds, Promoting
<1>a. ASSUME working["approver"].seen.waits.approval = c
      PROVE  c <= next /\ (stage \in {"thinking", "recording", "waiting", "gate"} => c # next)
  <2>1. working["approver"].seen.waits \in SeenWaits
    BY <1>s DEF SeenWaits
  <2>. QED BY <1>n, <1>1, <1>a, <2>1 DEF WaitsAreOld, WaitIsOld
<1>5. WaitsAreOld'
  <2>1. row' = row => row'.waits \in SeenWaits
    BY DEF SeenWaits
  <2>2. ASSUME row' # row PROVE WaitIsOld(row.waits)'
    <3>1. PICK w : w = row'.waits
      OBVIOUS
    <3>2. w.operation = c /\ w.approval = c /\ ~Promoting(c)'
      BY <1>1, <1>3, <2>2, <3>1 DEF Promoting
    <3>3. c \in DOMAIN toolCall' /\ c <= next' /\ toolCall'[c].outcome = "waiting_approval"
          /\ approval'[c] = "approved"
          /\ (stage' \in {"thinking", "recording", "waiting", "gate"} => c # next')
      BY <1>1, <1>2, <1>a, <2>2
    <3>4. row'.waits.operation = c /\ row'.waits.approval = c
      BY <3>1, <3>2
    <3>. QED BY <3>2, <3>3, <3>4 DEF WaitIsOld
  <2>. QED BY <1>1, <2>1, <2>2, WaitsAfterCommit
<1>6. UnrecordedIsOpen'
  <2>1. Unrecorded' = Unrecorded /\ Unrecorded \subseteq DOMAIN toolCall
    BY <1>1 DEF Unrecorded
  <2>2. c \in Unrecorded => c \in missed'
    <3>1. SUFFICES ASSUME working["approver"].seen.waits.approval = c PROVE c \notin Unrecorded
      BY <1>1
    <3>. QED BY <1>n, <1>1, <1>a, <3>1 DEF Unrecorded
  <2>3. missed \subseteq missed'
    BY <1>1
  <2>. QED BY <1>1, <1>2, <1>c, <1>n, <2>1, <2>2, <2>3 DEF UnrecordedIsOpen
<1>7. StatusIsWait'
  <2>. SUFFICES ASSUME ~lost', row' # row PROVE StatusIsWait'
    BY <1>1, <1>3 DEF StatusIsWait
  <2>1. row'.status = "waiting_operation" /\ row'.waits.operation = c
    BY <1>1
  <2>2. working["stream"].seen.waits \in SeenWaits
    BY <1>s DEF SeenWaits
  <2>3. working["stream"].seen.waits.operation # c
    BY <1>1, <1>2, <1>n, <2>2 DEF WaitsAreOld, WaitIsOld
  <2>4. row'.status # "waiting_approval"
    BY <2>1
  <2>. QED BY <1>3, <2>1, <2>3, <2>4 DEF StatusIsWait
<1>8. PendingTold'
  <2>. SUFFICES ASSUME ~lost' PROVE PendingTold'
    BY DEF PendingTold
  <2>1. CASE row' = row /\ lost' = lost /\ missed' = missed \cup {c}
    <3>1. \A d \in DOMAIN toolCall : /\ Awaited(d, "operation")' => Awaited(d, "operation")
                                     /\ Awaited(d, "approval")' => Awaited(d, "approval")
      BY <1>1, <2>1 DEF Awaited
    <3>2. ASSUME NEW d \in row'.task.approvals \ missed' PROVE d \in DOMAIN toolCall' /\ approval'[d] = "pending"
      BY <1>1, <1>c, <2>1, <3>2 DEF PendingTold
    <3>. QED BY <1>1, <2>1, <3>1, <3>2 DEF PendingTold
  <2>2. CASE /\ ~lost /\ row'.task.approvals = row.task.approvals \ {c}
             /\ row'.task.operations = row.task.operations \cup {c}
             /\ row'.waits = [approval |-> c, operation |-> c] /\ missed' = missed
    <3>1. \A d \in DOMAIN toolCall : /\ Awaited(d, "operation")' => d = c \/ Awaited(d, "operation")
                                     /\ Awaited(d, "approval")' => d = c \/ Awaited(d, "approval")
      BY <1>1, <2>2 DEF Awaited
    <3>2. ASSUME NEW d \in DOMAIN toolCall', Awaited(d, "operation")', op'[d] = "running"
          PROVE  d \in row'.task.operations
      BY <1>1, <2>2, <3>1, <3>2 DEF PendingTold
    <3>3. ASSUME NEW d \in DOMAIN toolCall', Awaited(d, "approval")', approval'[d] = "pending"
          PROVE  d \in row'.task.approvals
      BY <1>1, <1>2, <2>2, <3>1, <3>3 DEF PendingTold
    <3>4. ASSUME NEW d \in row'.task.operations \ missed' PROVE d \in DOMAIN toolCall' /\ op'[d] = "running"
      BY <1>1, <1>2, <2>2, <3>4 DEF PendingTold
    <3>5. ASSUME NEW d \in row'.task.approvals \ missed' PROVE d \in DOMAIN toolCall' /\ approval'[d] = "pending"
      BY <1>1, <1>c, <2>2, <3>5 DEF PendingTold
    <3>. QED BY <3>2, <3>3, <3>4, <3>5 DEF PendingTold
  <2>. QED BY <1>1, <2>1, <2>2
<1>. QED BY <1>4, <1>5, <1>6, <1>7, <1>8 DEF Pending

LEMMA EndKeeps ==
    ASSUME PendingInv, NEW how \in Run!Errors \cup {"succeeded"}, Run!CommitEndOf(how)
    PROVE  Pending'
<1>. USE DEF AnswerInv, PendingInv
<1>s. Run!Sessions = {"stream", "approver", "projector"}
  BY StageNames
<1>c. PICK c : c = working["projector"].call
  OBVIOUS
<1>n. next \in Nat /\ next # 0 /\ \A d \in DOMAIN toolCall : d \in Nat /\ d # 0 /\ d \in 1..MaxToolCalls
  BY NumbersAre
<1>1. /\ c \in DOMAIN toolCall /\ working["projector"].work = "end" /\ how # "running"
      /\ working' = [working EXCEPT !["projector"] = Run!Nothing]
      /\ op' = [op EXCEPT ![c] = how]
      /\ UNCHANGED <<stage, toolCall, next, approval>>
      /\ \/ /\ UNCHANGED <<row, lost>> /\ missed' = missed \cup {c}
         \/ /\ working["projector"].seen.waits.operation = c /\ row'.status = row.status
            /\ missed' = missed
            /\ ~lost' => /\ ~lost /\ row'.waits = row.waits
                         /\ row'.task.approvals = row.task.approvals
                         /\ row'.task.operations = row.task.operations \ {c}
  BY <1>c, EndEffect
<1>2. /\ op[c] = "running" /\ op'[c] # "running"
      /\ \A d \in 1..MaxToolCalls \ {c} : op'[d] = op[d]
  BY <1>1, <1>n, <1>c DEF CallsHaveKinds, RunTyped
<1>3. /\ working'["projector"] = Run!Nothing /\ working'["approver"] = working["approver"]
      /\ working'["stream"] = working["stream"]
      /\ Run!Nothing.work = "none" /\ Run!Nothing.call = 0
  BY <1>1, <1>s DEF RunTyped, Run!Nothing
<1>a. ASSUME working["projector"].seen.waits.operation = c
      PROVE  c <= next /\ (stage = "recording" => c # next) /\ ~Promoting(c)
  <2>1. working["projector"].seen.waits \in SeenWaits
    BY <1>s DEF SeenWaits
  <2>2. Promoting(c) => toolCall[c].outcome = "waiting_approval"
    BY <1>1, <1>n DEF CallsHaveKinds
  <2>. QED BY <1>n, <1>1, <1>a, <2>1, <2>2 DEF WaitsAreOld, WaitIsOld
<1>w. row'.waits \in SeenWaits
  <2>1. ASSUME NEW task, Run!WriteTask("projector", task) PROVE row'.waits = working["projector"].seen.waits
    BY <2>1 DEF Run!WriteTask, Run!Write
  <2>2. (\E task : Run!WriteTask("projector", task)) \/ Run!Leave("projector")
    BY Zenon DEF Run!CommitEndOf
  <2>. QED BY <2>1, <2>2, <1>s DEF SeenWaits, Run!Leave
<1>4. CallsHaveKinds'
  <2>1. Promoting(c) => c \in missed'
    BY <1>1, <1>a
  <2>2. missed \subseteq missed'
    BY <1>1
  <2>. QED BY <1>1, <1>2, <1>3, <1>n, <2>1, <2>2 DEF CallsHaveKinds, Promoting
<1>5. WaitsAreOld'
  BY <1>1, <1>w, WaitsAfterCommit
<1>6. UnrecordedIsOpen'
  <2>1. Unrecorded' = Unrecorded /\ Unrecorded \subseteq DOMAIN toolCall
    BY <1>1 DEF Unrecorded
  <2>2. c \in Unrecorded => c \in missed'
    BY <1>n, <1>1, <1>a DEF Unrecorded
  <2>3. missed \subseteq missed'
    BY <1>1
  <2>. QED BY <1>1, <1>2, <1>3, <1>n, <2>1, <2>2, <2>3 DEF UnrecordedIsOpen
<1>7. StatusIsWait'
  BY <1>1, <1>3 DEF StatusIsWait
<1>8. PendingTold'
  <2>. SUFFICES ASSUME ~lost' PROVE PendingTold'
    BY DEF PendingTold
  <2>1. /\ ~lost /\ row'.waits = row.waits /\ row'.task.approvals = row.task.approvals
        /\ missed \subseteq missed'
        /\ \/ row'.task.operations = row.task.operations /\ c \in missed'
           \/ row'.task.operations = row.task.operations \ {c}
    BY <1>1
  <2>2. \A d \in DOMAIN toolCall : /\ Awaited(d, "operation")' => Awaited(d, "operation")
                                   /\ Awaited(d, "approval")' => Awaited(d, "approval")
    BY <1>1, <2>1 DEF Awaited
  <2>3. \A d \in DOMAIN toolCall : op'[d] = "running" => d # c /\ op[d] = "running"
    BY <1>2, <1>n
  <2>4. ASSUME NEW d \in DOMAIN toolCall', Awaited(d, "operation")', op'[d] = "running"
        PROVE  d \in row'.task.operations
    BY <1>1, <2>1, <2>2, <2>3, <2>4 DEF PendingTold
  <2>5. ASSUME NEW d \in DOMAIN toolCall', Awaited(d, "approval")', approval'[d] = "pending"
        PROVE  d \in row'.task.approvals
    BY <1>1, <2>1, <2>2, <2>5 DEF PendingTold
  <2>6. ASSUME NEW d \in row'.task.operations \ missed' PROVE d \in DOMAIN toolCall' /\ op'[d] = "running"
    <3>1. d # c /\ d \in DOMAIN toolCall /\ op[d] = "running"
      BY <2>1, <2>6 DEF PendingTold
    <3>. QED BY <1>1, <1>2, <1>n, <3>1
  <2>7. ASSUME NEW d \in row'.task.approvals \ missed'
        PROVE  d \in DOMAIN toolCall' /\ (working'["approver"].call = d \/ approval'[d] = "pending")
    BY <1>1, <1>3, <2>1, <2>7 DEF PendingTold
  <2>. QED BY <2>4, <2>5, <2>6, <2>7 DEF PendingTold
<1>. QED BY <1>4, <1>5, <1>6, <1>7, <1>8 DEF Pending

LEMMA ReportKeeps ==
    ASSUME PendingInv, Run!CommitReport
    PROVE  Pending'
<1>. USE DEF AnswerInv, PendingInv
<1>s. Run!Sessions = {"stream", "approver", "projector"}
  BY StageNames
<1>1. /\ working["projector"].work = "report"
      /\ working' = [working EXCEPT !["projector"] = Run!Nothing]
      /\ UNCHANGED <<stage, toolCall, next, op, approval, missed>>
      /\ row'.status \in {row.status, "succeeded", "failed"}
      /\ row'.waits = working["projector"].seen.waits
      /\ ~lost' => /\ ~lost /\ row'.waits = row.waits
                   /\ row'.task.approvals = row.task.approvals
                   /\ row'.task.operations = row.task.operations
  BY ReportEffect
<1>2. stage = "over" /\ working["stream"].work = "none"
  BY <1>1 DEF CallsHaveKinds, WorkFits
<1>3. /\ working'["projector"] = Run!Nothing /\ working'["approver"] = working["approver"]
      /\ working'["stream"] = working["stream"] /\ Run!Nothing.work = "none"
  BY <1>1, <1>s DEF RunTyped, Run!Nothing
<1>4. CallsHaveKinds'
  BY <1>1, <1>3 DEF CallsHaveKinds, Promoting
<1>5. WaitsAreOld'
  <2>1. row'.waits \in SeenWaits
    BY <1>1, <1>s DEF SeenWaits
  <2>. QED BY <1>1, <2>1, WaitsAfterCommit
<1>6. UnrecordedIsOpen'
  BY <1>1, <1>3 DEF UnrecordedIsOpen, Unrecorded
<1>7. StatusIsWait'
  BY <1>1, <1>2, <1>3 DEF StatusIsWait
<1>8. PendingTold'
  BY <1>1, <1>3 DEF PendingTold, Awaited
<1>. QED BY <1>4, <1>5, <1>6, <1>7, <1>8 DEF Pending

LEMMA RollBackKeeps ==
    ASSUME PendingInv, Run!RollBackReport
    PROVE  Pending'
<1>. USE DEF AnswerInv, PendingInv
<1>s. Run!Sessions = {"stream", "approver", "projector"}
  BY StageNames
<1>1. /\ working' = [working EXCEPT !["projector"] = Run!Nothing]
      /\ UNCHANGED <<row, stage, toolCall, next, op, approval, missed, lost>>
  BY DEF Run!RollBackReport
<1>3. /\ working'["projector"] = Run!Nothing /\ working'["approver"] = working["approver"]
      /\ working'["stream"] = working["stream"] /\ Run!Nothing.work = "none"
  BY <1>1, <1>s DEF RunTyped, Run!Nothing
<1>4. CallsHaveKinds'
  BY <1>1, <1>3 DEF CallsHaveKinds, Promoting
<1>5. WaitsAreOld'
  <2>1. row'.waits \in SeenWaits
    BY <1>1 DEF SeenWaits
  <2>. QED BY <1>1, <2>1, WaitsAfterCommit
<1>6. UnrecordedIsOpen' /\ StatusIsWait' /\ PendingTold'
  BY <1>1, <1>3 DEF UnrecordedIsOpen, Unrecorded, StatusIsWait, PendingTold, Awaited
<1>. QED BY <1>4, <1>5, <1>6 DEF Pending

\* The projector's transactions begin.
LEMMA ProjectorReads ==
    ASSUME PendingInv, NEW c \in DOMAIN toolCall, Run!ReadEnd(c) \/ Run!ReadReport(c)
    PROVE  Pending'
<1>. USE DEF AnswerInv, PendingInv
<1>s. Run!Sessions = {"stream", "approver", "projector"}
  BY StageNames
<1>1. PICK work \in {"end", "report"} :
          /\ working' = [working EXCEPT !["projector"] = [work |-> work, call |-> c, seen |-> row]]
          /\ UNCHANGED <<row, stage, toolCall, next, op, approval, missed, lost>>
          /\ work = "end" => op[c] = "running"
          /\ work = "report" => stage = "over"
  BY DEF Run!ReadEnd, Run!ReadReport, Run!Read
<1>2. PICK t : t = [work |-> work, call |-> c, seen |-> row]
  OBVIOUS
<1>3. /\ working'["projector"] = t /\ working'["approver"] = working["approver"]
      /\ working'["stream"] = working["stream"] /\ t.work = work /\ t.call = c /\ t.seen = row
  BY <1>1, <1>2, <1>s DEF RunTyped
<1>4. CallsHaveKinds'
  BY <1>1, <1>3 DEF CallsHaveKinds, Promoting
<1>5. WaitsAreOld'
  <2>1. SeenWaits' \subseteq SeenWaits
    BY <1>1, <1>3, <1>s DEF SeenWaits
  <2>2. \A w \in SeenWaits : WaitIsOld(w)'
    BY <1>1, <1>3 DEF WaitsAreOld, WaitIsOld, Promoting
  <2>. QED BY <2>1, <2>2 DEF WaitsAreOld
<1>6. UnrecordedIsOpen' /\ StatusIsWait' /\ PendingTold'
  BY <1>1, <1>3 DEF UnrecordedIsOpen, Unrecorded, StatusIsWait, PendingTold, Awaited
<1>. QED BY <1>4, <1>5, <1>6 DEF Pending

\* The approver's transactions begin.
LEMMA ApproverReads ==
    ASSUME PendingInv,
           \/ \E c \in DOMAIN toolCall :
                 Run!ApproveAndRun(c)
           \/ Run!ReadPromotion
    PROVE  Pending'
<1>s. "approver" \in Run!Sessions /\ Run!Sessions = {"stream", "approver", "projector"}
  BY StageNames
<1>t. RunTyped /\ WorkFits
  BY DEF PendingInv, AnswerInv
<1>2. ASSUME NEW c \in DOMAIN toolCall, Run!ApproveAndRun(c)
      PROVE  Pending'
  <2>1. PICK t : t = [Run!Nothing EXCEPT !.work = "started", !.call = c]
    OBVIOUS
  <2>2. /\ t.work = "started" /\ t.call = c /\ t.seen.waits = Run!NoWait
        /\ working["approver"].work = "none" /\ approval[c] = "pending"
        /\ working' = [working EXCEPT !["approver"] = t]
        /\ approval' = [approval EXCEPT ![c] = "approved"] /\ op' = [op EXCEPT ![c] = "running"]
        /\ UNCHANGED <<row, stage, toolCall, next, missed, lost>>
    BY <1>2, <2>1 DEF Run!ApproveAndRun, Run!Nothing
  <2>3. working'["approver"] = t /\ working'["stream"] = working["stream"]
        /\ working'["projector"] = working["projector"]
    BY <1>s, <1>t, <2>2 DEF RunTyped
  <2>. QED BY <2>2, <2>3, PendingReads
<1>3. CASE Run!ReadPromotion
  <2>0. PICK c : c = working["approver"].call
    OBVIOUS
  <2>1. PICK old \in Transactions : old = working["approver"]
    BY <1>s, <1>t DEF RunTyped
  <2>2. PICK t : t = [old EXCEPT !.work = "promote", !.seen = row]
    OBVIOUS
  <2>3. t.work = "promote" /\ t.call = c /\ t.seen = row
    BY <2>0, <2>1, <2>2 DEF Transactions
  <2>4. /\ working["approver"].work = "started"
        /\ working' = [working EXCEPT !["approver"] = t]
        /\ UNCHANGED <<row, stage, toolCall, next, op, approval, missed, lost>>
    BY <1>3, <1>s, <1>t, <2>1, <2>2 DEF Run!ReadPromotion, RunTyped
  <2>5. working'["approver"] = t /\ working'["stream"] = working["stream"]
        /\ working'["projector"] = working["projector"] /\ c \in DOMAIN toolCall
    BY <1>s, <1>t, <2>0, <2>4 DEF RunTyped, WorkFits
  <2>. QED BY <2>0, <2>3, <2>4, <2>5, PendingReads
<1>. QED BY <1>2, <1>3

LEMMA PendingInit == ASSUME Run!Init PROVE PendingInv
<1>. USE StageNames DEF Run!Init
<1>1. AnswerInv
  BY AnswerInit
<1>2. /\ row.task = Run!NoTask /\ row.waits = Run!NoWait /\ row.status = "active"
      /\ Run!NoTask.approvals = {} /\ Run!NoTask.operations = {}
      /\ Run!NoWait.operation = 0 /\ Run!NoWait.approval = 0
  BY DEF Run!NoTask, Run!NoWait
<1>3. /\ \A s \in Run!Sessions : working[s] = Run!Nothing
      /\ Run!Nothing.seen.waits = Run!NoWait /\ Run!Nothing.work = "none" /\ Run!Nothing.call = 0
  BY DEF Run!Nothing
<1>4. DOMAIN toolCall = {} /\ next = 1
  OBVIOUS
<1>5. CallsHaveKinds
  BY <1>3 DEF CallsHaveKinds, Promoting, Run!CallNumbers
<1>6. WaitsAreOld
  <2>1. \A w \in SeenWaits : w = Run!NoWait
    BY <1>2, <1>3 DEF SeenWaits
  <2>. QED BY <1>2, <1>4, <2>1 DEF WaitsAreOld, WaitIsOld
<1>7. UnrecordedIsOpen /\ StatusIsWait /\ PendingTold
  BY <1>2, <1>3, <1>4 DEF UnrecordedIsOpen, Unrecorded, StatusIsWait, PendingTold
<1>. QED BY <1>1, <1>5, <1>6, <1>7 DEF PendingInv

LEMMA PendingStep == PendingInv /\ [Run!Next]_runVars => PendingInv'
<1>1. ASSUME PendingInv, Run!Next PROVE Pending'
  <2>1. CASE StreamNext
    BY <1>1, <2>1, KindsStream, WaitsStream, UnrecordedStream, StatusStream, ToldStream DEF PendingInv, Pending
  <2>2. CASE OtherReads
    BY <1>1, <2>2, ProjectorReads, ApproverReads DEF OtherReads
  <2>4. CASE Decides
    BY <1>1, <2>4, DecisionKeeps
  <2>3. CASE OtherCommits
    BY <1>1, <2>3, PromotionKeeps, EndKeeps, ReportKeeps, RollBackKeeps DEF OtherCommits
  <2>. QED BY <1>1, <2>1, <2>2, <2>3, <2>4, WhoSteps
<1>2. ASSUME PendingInv, UNCHANGED runVars PROVE Pending'
  BY <1>2 DEF PendingInv, Pending, runVars, CallsHaveKinds, Promoting, WaitsAreOld, WaitIsOld, SeenWaits,
     UnrecordedIsOpen, Unrecorded, StatusIsWait, PendingTold, Awaited
<1>3. PendingInv /\ [Run!Next]_runVars => AnswerInv'
  BY AnswerInvStep DEF PendingInv
<1>. QED BY <1>1, <1>2, <1>3 DEF Pending, PendingInv

\* Through waits, promotions and ends the task state knows what the run waits for, and calls
\* nothing pending that is over, but for an approval that was only approved or denied, of
\* which the code tells the run nothing that is committed, and for what ended while the run
\* did not yet wait for it; as long as no transaction overwrote another.
THEOREM WhatIsPendingIsTold == SystemSpec => []PendingIsOpen
<1>1. SystemInit => PendingInv
  BY RunSteps, PendingInit
<1>2. PendingInv /\ [SystemNext]_systemVars => PendingInv'
  BY RunSteps, PendingStep
<1>3. ASSUME PendingInv PROVE PendingIsOpen
  <2>. SUFFICES ASSUME ~lost PROVE PendingIsOpen
    BY DEF PendingIsOpen, Run!PendingIsOpen
  <2>1. row.waits \in SeenWaits
    BY DEF SeenWaits
  <2>2. /\ row.waits.operation # 0 => row.waits.operation \in DOMAIN toolCall
        /\ row.waits.approval # 0 => row.waits.approval \in DOMAIN toolCall
    BY <1>3, <2>1 DEF PendingInv, WaitsAreOld, WaitIsOld
  <2>3. row.status = "waiting_approval" => row.waits.approval # 0
    BY <1>3 DEF PendingInv, StatusIsWait
  <2>4. /\ \A c \in DOMAIN toolCall : c = row.waits.operation /\ op[c] = "running" => c \in row.task.operations
        /\ \A c \in DOMAIN toolCall : c = row.waits.approval /\ approval[c] = "pending" => c \in row.task.approvals
    BY <1>3 DEF PendingInv, PendingTold, Awaited
  <2>. QED BY <1>3, <2>2, <2>3, <2>4 DEF PendingInv, PendingTold, PendingIsOpen, Run!PendingIsOpen
<1>. QED BY <1>1, <1>2, <1>3, PTL DEF SystemSpec
---------------------------------------------------------------------------
\* The session's memory.

\* Cardinality, as the instance of SessionMemory knows it.
LEMMA SameSize == \A S : Memory!Cardinality(S) = Cardinality(S)
BY DEF Memory!Cardinality, Cardinality

LEMMA LeastExists ==
    ASSUME NEW S \in SUBSET Nat, S # {}
    PROVE  \E x \in S : \A y \in S : x <= y
<1>1. PICK x \in S : \A y \in S : <<y, x>> \notin OpToRel(<, Nat)
  <2>1. \E x \in S : TRUE
    OBVIOUS
  <2>. QED BY <2>1, NatLessThanWellFounded, WFMin, Zenon
<1>2. ASSUME NEW y \in S PROVE ~(y < x)
  BY <1>1 DEF OpToRel
<1>. QED BY <1>2

LEMMA GreatestExists ==
    ASSUME NEW n \in Nat, NEW S \in SUBSET (1..n), S # {}
    PROVE  \E x \in S : \A y \in S : x >= y
<1>1. PICK D : D = {n - x : x \in S}
  OBVIOUS
<1>2. D \in SUBSET Nat /\ D # {}
  <2>1. ASSUME NEW d \in D PROVE d \in Nat
    <3>1. PICK x \in S : d = n - x
      BY <1>1
    <3>. QED BY <3>1
  <2>2. \E x \in S : n - x \in D
    BY <1>1
  <2>. QED BY <2>1, <2>2
<1>3. PICK d \in D : \A y \in D : d <= y
  BY <1>2, LeastExists
<1>4. PICK x \in S : d = n - x
  BY <1>1, <1>3
<1>5. \A y \in S : x >= y
  <2>. TAKE y \in S
  <2>1. n - y \in D
    BY <1>1
  <2>. QED BY <1>3, <1>4, <2>1
<1>. QED BY <1>5

---------------------------------------------------------------------------
(* The conversation of a session.                                          *)

\* Messages placed one after the other: rows of the table by their time, a history by its positions.
Placed(messages, from) == {[msg |-> messages[i], at |-> from + i] : i \in DOMAIN messages}

\* No two at one place.
InOrder(S) ==
    /\ \A r \in S : r.at \in Nat
    /\ \A r, q \in S : r.at = q.at => r = q

\* p is an answer to q: only answers stand between.
Answers(S, q, p) ==
    /\ q.msg.role = "assistant" /\ p.msg.role = "tool" /\ q.at < p.at
    /\ \A k \in S : q.at < k.at /\ k.at < p.at => k.msg.role = "tool"

\* Every answer has its call, and every call its answer.
AnswersCalled(S) ==
    \A p \in S : p.msg.role = "tool" =>
        \E q \in S : Answers(S, q, p) /\ p.msg.calls \subseteq q.msg.calls
CallsAnswered(S) ==
    \A q \in S : q.msg.role = "assistant" =>
        \A c \in q.msg.calls : \E p \in S : Answers(S, q, p) /\ p.msg.calls = {c}
Conversation(S) == AnswersCalled(S) /\ CallsAnswered(S)

\* A call and its answers are in X together or not at all.
KeepsTogether(S, X) == \A q, p \in S : Answers(S, q, p) => (q \in X <=> p \in X)

LEMMA OneCall ==
    ASSUME NEW S, InOrder(S), NEW q \in S, NEW k \in S, NEW p \in S, Answers(S, q, p), Answers(S, k, p)
    PROVE  q = k
<1>1. ~(q.at < k.at) /\ ~(k.at < q.at)
  BY DEF Answers
<1>2. q.at \in Nat /\ k.at \in Nat
  BY DEF InOrder
<1>3. q.at = k.at
  BY <1>1, <1>2
<1>. QED BY <1>3 DEF InOrder

\* A part that keeps calls and answers together is a conversation too.
LEMMA PartConverses ==
    ASSUME NEW S, InOrder(S), Conversation(S), NEW T \in SUBSET S, KeepsTogether(S, T)
    PROVE  /\ InOrder(T) /\ Conversation(T)
           /\ \A q, p \in T : Answers(T, q, p) <=> Answers(S, q, p)
<1>1. InOrder(T)
  BY DEF InOrder
<1>2. ASSUME NEW q \in T, NEW p \in T, Answers(S, q, p) PROVE Answers(T, q, p)
  BY <1>2 DEF Answers
<1>3. ASSUME NEW q \in T, NEW p \in T, Answers(T, q, p) PROVE Answers(S, q, p)
  <2>1. p.msg.role = "tool" /\ q.msg.role = "assistant" /\ q.at < p.at
    BY <1>3 DEF Answers
  <2>2. PICK k \in S : Answers(S, k, p)
    BY <2>1 DEF Conversation, AnswersCalled
  <2>3. k \in T /\ k.msg.role = "assistant" /\ k.at < p.at
    BY <2>2 DEF KeepsTogether, Answers
  <2>4. ~(q.at < k.at)
    BY <1>3, <2>3 DEF Answers
  <2>5. ~(k.at < q.at)
    BY <2>1, <2>2 DEF Answers
  <2>6. q.at \in Nat /\ k.at \in Nat
    BY DEF InOrder
  <2>7. q = k
    BY <2>4, <2>5, <2>6 DEF InOrder
  <2>. QED BY <2>2, <2>7
<1>4. AnswersCalled(T)
  <2>. SUFFICES ASSUME NEW p \in T, p.msg.role = "tool"
                PROVE  \E q \in T : Answers(T, q, p) /\ p.msg.calls \subseteq q.msg.calls
    BY DEF AnswersCalled
  <2>1. PICK q \in S : Answers(S, q, p) /\ p.msg.calls \subseteq q.msg.calls
    BY DEF Conversation, AnswersCalled
  <2>2. q \in T
    BY <2>1 DEF KeepsTogether
  <2>. QED BY <1>2, <2>1, <2>2
<1>5. CallsAnswered(T)
  <2>. SUFFICES ASSUME NEW q \in T, q.msg.role = "assistant", NEW c \in q.msg.calls
                PROVE  \E p \in T : Answers(T, q, p) /\ p.msg.calls = {c}
    BY DEF CallsAnswered
  <2>1. PICK p \in S : Answers(S, q, p) /\ p.msg.calls = {c}
    BY DEF Conversation, CallsAnswered
  <2>2. p \in T
    BY <2>1 DEF KeepsTogether
  <2>. QED BY <1>2, <2>1, <2>2
<1>. QED BY <1>1, <1>2, <1>3, <1>4, <1>5 DEF Conversation

\* What comes after a conversation and is one itself goes on with it.
LEMMA GoesOnConversing ==
    ASSUME NEW S, InOrder(S), Conversation(S), NEW N, InOrder(N), Conversation(N),
           \A r \in S, n \in N : r.at < n.at
    PROVE  /\ InOrder(S \cup N) /\ Conversation(S \cup N)
           /\ \A q, p \in S \cup N : Answers(S \cup N, q, p) <=>
                 (q \in S /\ p \in S /\ Answers(S, q, p)) \/ (q \in N /\ p \in N /\ Answers(N, q, p))
<1>1. InOrder(S \cup N)
  <2>1. ASSUME NEW r \in S, NEW n \in N PROVE r.at # n.at
    BY <2>1 DEF InOrder
  <2>. QED BY <2>1 DEF InOrder
<1>2. ASSUME NEW q \in S, NEW p \in S, Answers(S, q, p) PROVE Answers(S \cup N, q, p)
  <2>1. \A k \in N : ~(k.at < p.at)
    BY DEF InOrder
  <2>. QED BY <1>2, <2>1 DEF Answers
<1>3. ASSUME NEW q \in N, NEW p \in N, Answers(N, q, p) PROVE Answers(S \cup N, q, p)
  <2>1. \A k \in S : ~(q.at < k.at)
    BY DEF InOrder
  <2>. QED BY <1>3, <2>1 DEF Answers
<1>4. ASSUME NEW q \in S \cup N, NEW p \in S \cup N, Answers(S \cup N, q, p)
      PROVE  (q \in S /\ p \in S /\ Answers(S, q, p)) \/ (q \in N /\ p \in N /\ Answers(N, q, p))
  <2>1. CASE p \in S
    <3>1. q \in S
      BY <1>4, <2>1 DEF Answers, InOrder
    <3>. QED BY <1>4, <2>1, <3>1 DEF Answers
  <2>2. CASE p \in N
    <3>1. PICK k \in N : Answers(N, k, p)
      BY <1>4, <2>2 DEF Conversation, AnswersCalled, Answers
    <3>2. Answers(S \cup N, k, p)
      BY <1>3, <2>2, <3>1
    <3>3. q = k
      BY <1>1, <1>4, <3>2, OneCall
    <3>. QED BY <2>2, <3>1, <3>3
  <2>. QED BY <2>1, <2>2
<1>5. AnswersCalled(S \cup N)
  BY <1>2, <1>3 DEF Conversation, AnswersCalled
<1>6. CallsAnswered(S \cup N)
  BY <1>2, <1>3 DEF Conversation, CallsAnswered
<1>. QED BY <1>1, <1>2, <1>3, <1>4, <1>5, <1>6 DEF Conversation

\* Places may be counted from elsewhere.
LEMMA MovedConverses ==
    ASSUME NEW S, NEW N, NEW f \in [S -> N], \A n \in N : \E r \in S : f[r] = n,
           \A r \in S : f[r].msg = r.msg,
           \A r, q \in S : r.at < q.at <=> f[r].at < f[q].at
    PROVE  /\ Conversation(S) => Conversation(N)
           /\ \A q, p \in S : Answers(S, q, p) <=> Answers(N, f[q], f[p])
<1>1. ASSUME NEW q \in S, NEW p \in S, Answers(S, q, p) PROVE Answers(N, f[q], f[p])
  <2>1. ASSUME NEW k \in N, f[q].at < k.at, k.at < f[p].at PROVE k.msg.role = "tool"
    <3>1. PICK r \in S : f[r] = k
      OBVIOUS
    <3>2. q.at < r.at /\ r.at < p.at
      BY <2>1, <3>1
    <3>3. r.msg.role = "tool"
      BY <1>1, <3>2 DEF Answers
    <3>. QED BY <3>1, <3>3
  <2>. QED BY <1>1, <2>1 DEF Answers
<1>2. ASSUME NEW q \in S, NEW p \in S, Answers(N, f[q], f[p]) PROVE Answers(S, q, p)
  <2>1. ASSUME NEW k \in S, q.at < k.at, k.at < p.at PROVE k.msg.role = "tool"
    <3>1. f[k] \in N /\ f[q].at < f[k].at /\ f[k].at < f[p].at
      BY <2>1
    <3>2. f[k].msg.role = "tool"
      BY <1>2, <3>1 DEF Answers
    <3>. QED BY <3>2
  <2>. QED BY <1>2, <2>1 DEF Answers
<1>3. ASSUME Conversation(S) PROVE AnswersCalled(N)
  <2>. SUFFICES ASSUME NEW n \in N, n.msg.role = "tool"
                PROVE  \E q \in N : Answers(N, q, n) /\ n.msg.calls \subseteq q.msg.calls
    BY DEF AnswersCalled
  <2>1. PICK p \in S : f[p] = n
    OBVIOUS
  <2>2. PICK q \in S : Answers(S, q, p) /\ p.msg.calls \subseteq q.msg.calls
    BY <1>3, <2>1 DEF Conversation, AnswersCalled
  <2>. QED BY <1>1, <2>1, <2>2
<1>4. ASSUME Conversation(S) PROVE CallsAnswered(N)
  <2>. SUFFICES ASSUME NEW n \in N, n.msg.role = "assistant", NEW c \in n.msg.calls
                PROVE  \E p \in N : Answers(N, n, p) /\ p.msg.calls = {c}
    BY DEF CallsAnswered
  <2>1. PICK q \in S : f[q] = n
    OBVIOUS
  <2>2. PICK p \in S : Answers(S, q, p) /\ p.msg.calls = {c}
    BY <1>4, <2>1 DEF Conversation, CallsAnswered
  <2>. QED BY <1>1, <2>1, <2>2
<1>. QED BY <1>1, <1>2, <1>3, <1>4 DEF Conversation


\* Where a row stands among others.
Before(S, r) == {q \in S : q.at < r.at}
Rank(S, r) == Cardinality(Before(S, r))

LEMMA RankIsPlace ==
    ASSUME NEW S, IsFiniteSet(S), InOrder(S)
    PROVE  /\ Cardinality(S) \in Nat
           /\ \A r \in S : Rank(S, r) \in 0..(Cardinality(S) - 1)
           /\ \A r, q \in S : r.at < q.at <=> Rank(S, r) < Rank(S, q)
           /\ \A i \in 1..Cardinality(S) : \E r \in S : Rank(S, r) = i - 1
<1> DEFINE n == Cardinality(S)
<1>1. n \in Nat
  BY FS_CardinalityType
<1>2. ASSUME NEW r \in S PROVE Rank(S, r) \in 0..(n - 1) /\ IsFiniteSet(Before(S, r))
  <2>1. Before(S, r) \in SUBSET (S \ {r})
    BY DEF Before, InOrder
  <2>2. IsFiniteSet(S \ {r}) /\ Cardinality(S \ {r}) = n - 1
    BY FS_RemoveElement
  <2>3. IsFiniteSet(Before(S, r)) /\ Rank(S, r) <= n - 1
    BY <2>1, <2>2, FS_Subset DEF Rank
  <2>4. Rank(S, r) \in Nat
    BY <2>3, FS_CardinalityType DEF Rank
  <2>. QED BY <1>1, <2>3, <2>4
<1>3. ASSUME NEW r \in S, NEW q \in S, r.at < q.at PROVE Rank(S, r) < Rank(S, q)
  <2>1. Before(S, r) \cup {r} \in SUBSET Before(S, q)
    BY <1>3 DEF Before, InOrder
  <2>2. r \notin Before(S, r)
    BY DEF Before, InOrder
  <2>3. Cardinality(Before(S, r) \cup {r}) = Rank(S, r) + 1
    BY <1>2, <2>2, FS_AddElement DEF Rank
  <2>4. Cardinality(Before(S, r) \cup {r}) <= Rank(S, q)
    BY <1>2, <2>1, FS_Subset DEF Rank
  <2>. QED BY <1>1, <1>2, <2>3, <2>4
<1>4. \A r, q \in S : r.at < q.at <=> Rank(S, r) < Rank(S, q)
  <2>. SUFFICES ASSUME NEW r \in S, NEW q \in S PROVE r.at < q.at <=> Rank(S, r) < Rank(S, q)
    OBVIOUS
  <2>1. Rank(S, r) \in Nat /\ Rank(S, q) \in Nat
    BY <1>1, <1>2
  <2>2. r.at \in Nat /\ q.at \in Nat
    BY DEF InOrder
  <2>3. r.at = q.at => Rank(S, r) = Rank(S, q)
    BY DEF InOrder
  <2>. QED BY <1>3, <2>1, <2>2, <2>3
<1>5. \A i \in 1..n : \E r \in S : Rank(S, r) = i - 1
  <2> DEFINE f == [r \in S |-> Rank(S, r)]
  <2>1. f \in [S -> 0..(n - 1)]
    BY <1>2
  <2>2. ASSUME NEW r \in S, NEW q \in S, f[r] = f[q] PROVE r = q
    <3>1. Rank(S, r) = Rank(S, q) /\ Rank(S, r) \in Nat
      BY <1>1, <1>2, <2>2
    <3>2. ~(r.at < q.at) /\ ~(q.at < r.at)
      BY <1>4, <3>1
    <3>. QED BY <3>2 DEF InOrder
  <2>3. f \in Injection(S, 0..(n - 1))
    BY <2>1, <2>2, Zenon DEF Injection, IsInjective
  <2>4. IsFiniteSet(0..(n - 1)) /\ Cardinality(0..(n - 1)) = n
    BY <1>1, FS_Interval
  <2>5. f \in Surjection(S, 0..(n - 1))
    BY <2>3, <2>4, FS_Injection
  <2>6. \A j \in 0..(n - 1) : \E r \in S : f[r] = j
    BY <2>5 DEF Surjection
  <2>. QED BY <1>1, <2>6
<1>. QED BY <1>1, <1>2, <1>4, <1>5

\* A load takes each of the newest rows to its place.
LEMMA HistoryHoldsNewest ==
    ASSUME IsFiniteSet(rows), InOrder(rows), Load \in Nat
    PROVE  \E S \in SUBSET rows :
              /\ IsFiniteSet(S) /\ InOrder(S)
              /\ Memory!History = [i \in 1..Cardinality(S) |-> Memory!History[i]]
              /\ \A r \in S : Memory!History[Rank(S, r) + 1] = r.msg
              /\ ~(Cardinality(rows) > Load) => S = rows
<1> DEFINE newest == {r \in rows : Memory!Cardinality({q \in rows : q.at > r.at}) < Load}
           Nth(i) == CHOOSE r \in newest : Memory!Cardinality({q \in newest : q.at < r.at}) = i - 1
<1>1. newest \in SUBSET rows /\ IsFiniteSet(newest) /\ InOrder(newest)
  BY FS_Subset DEF InOrder
<1>2. Memory!History = [i \in 1..Cardinality(newest) |-> Nth(i).msg]
  BY SameSize, Zenon DEF Memory!History
<1>3. Memory!History = [i \in 1..Cardinality(newest) |-> Memory!History[i]]
  BY <1>2
<1>4. ASSUME NEW r \in newest PROVE Memory!History[Rank(newest, r) + 1] = r.msg
  <2> DEFINE i == Rank(newest, r) + 1
  <2>1. i \in 1..Cardinality(newest) /\ i - 1 = Rank(newest, r)
    BY <1>1, RankIsPlace
  <2>2. \A q \in newest : Memory!Cardinality({k \in newest : k.at < q.at}) = Rank(newest, q)
    BY SameSize DEF Rank, Before
  <2>3. Nth(i) \in newest /\ Rank(newest, Nth(i)) = i - 1
    BY <2>1, <2>2
  <2>4. Nth(i) = r
    <3>. HIDE DEF newest, Nth
    <3>1. Rank(newest, Nth(i)) = Rank(newest, r) /\ Rank(newest, r) \in 0..(Cardinality(newest) - 1)
          /\ Cardinality(newest) \in Nat
      BY <1>1, <2>1, <2>3, RankIsPlace
    <3>2. ~(Nth(i).at < r.at) /\ ~(r.at < Nth(i).at)
      BY <1>1, <2>3, <3>1, RankIsPlace
    <3>3. Nth(i).at \in Nat /\ r.at \in Nat
      BY <1>1, <2>3 DEF InOrder
    <3>4. Nth(i).at = r.at
      BY <3>2, <3>3
    <3>. QED BY <1>1, <2>3, <3>4 DEF InOrder
  <2>. QED BY <1>2, <2>1, <2>4
<1>5. ASSUME ~(Cardinality(rows) > Load) PROVE newest = rows
  <2>. SUFFICES ASSUME NEW r \in rows PROVE Cardinality({q \in rows : q.at > r.at}) < Load
    BY SameSize
  <2>1. {q \in rows : q.at > r.at} \in SUBSET (rows \ {r})
    BY DEF InOrder
  <2>2. IsFiniteSet(rows \ {r}) /\ Cardinality(rows \ {r}) = Cardinality(rows) - 1
    BY FS_RemoveElement
  <2>3. Cardinality({q \in rows : q.at > r.at}) <= Cardinality(rows) - 1
    BY <2>1, <2>2, FS_Subset
  <2>4. IsFiniteSet({q \in rows : q.at > r.at})
    BY <2>1, <2>2, FS_Subset
  <2>5. Cardinality({q \in rows : q.at > r.at}) \in Nat /\ Cardinality(rows) \in Nat
    BY <2>4, FS_CardinalityType
  <2>. QED BY <1>5, <2>3, <2>5
<1>. QED BY <1>1, <1>3, <1>4, <1>5


\* Messages: an id is a turn and a place in it, a call the place of its answer's message too.
Texts == [id : Nat \X Nat, role : {"prompt", "user", "assistant", "tool"},
          calls : SUBSET (Nat \X Nat \X Nat)]

\* Calls are named after the message that makes them, answers after their call.
WellNamed(m) ==
    /\ m.role = "assistant" => \A c \in m.calls : c[1] = m.id[1] /\ c[2] = m.id[2]
    /\ m.role = "tool" => \E l, i \in Nat : m.calls = {<<m.id[1], l, i>>} /\ m.id[2] = l + i

\* A message is in a part of the table once.
OncePer(S) == \A r, q \in S : r.msg.id = q.msg.id => r = q
OnceIn(h) == \A i, j \in DOMAIN h :
    h[i].role # "prompt" /\ h[j].role # "prompt" /\ h[i].id = h[j].id => i = j

\* An answer names its call's message, so a call has one message.
LEMMA SameCall ==
    ASSUME NEW m \in Texts, NEW n \in Texts, WellNamed(m), WellNamed(n),
           m.role = "assistant", n.role = "assistant", NEW c \in m.calls, c \in n.calls
    PROVE  m.id = n.id
BY DEF Texts, WellNamed

LEMMA SameAnswer ==
    ASSUME NEW m \in Texts, NEW n \in Texts, WellNamed(m), WellNamed(n),
           m.role = "tool", n.role = "tool", m.calls = n.calls
    PROVE  m.id = n.id
<1>1. PICK l \in Nat, i \in Nat : m.calls = {<<m.id[1], l, i>>} /\ m.id[2] = l + i
  BY DEF WellNamed
<1>2. PICK k \in Nat, j \in Nat : n.calls = {<<n.id[1], k, j>>} /\ n.id[2] = k + j
  BY DEF WellNamed
<1>3. <<m.id[1], l, i>> = <<n.id[1], k, j>>
  BY <1>1, <1>2
<1>4. m.id[1] = n.id[1] /\ l = k /\ i = j
  BY <1>3
<1>. QED BY <1>1, <1>2, <1>4 DEF Texts

\* An answer is to a single call, of the message it answers.
LEMMA AnswerOfCall ==
    ASSUME NEW S, InOrder(S), Conversation(S), NEW q \in S, NEW p \in S, Answers(S, q, p)
    PROVE  p.msg.calls \subseteq q.msg.calls
<1>1. PICK k \in S : Answers(S, k, p) /\ p.msg.calls \subseteq k.msg.calls
  BY DEF Conversation, AnswersCalled, Answers
<1>2. k = q
  BY <1>1, OneCall
<1>. QED BY <1>1, <1>2

\* What a trim deletes, it deletes with its answers.
LEMMA TrimKeepsTogether ==
    ASSUME NEW T, IsFiniteSet(T), InOrder(T), Conversation(T), OncePer(T),
           \A r \in T : r.msg \in Texts /\ WellNamed(r.msg), Keep \in Nat
    PROVE  /\ Memory!Trim(T) \in SUBSET T
           /\ KeepsTogether(T, Memory!Trim(T))
<1> DEFINE prefix == {r \in T : Memory!Cardinality({q \in T : q.at > r.at}) >= Keep}
           orphaned == UNION {p.msg.calls : p \in {q \in prefix : q.msg.role = "assistant"}}
<1>1. Memory!Trim(T) = prefix \cup {r \in T : r.msg.role = "tool" /\ r.msg.calls \subseteq orphaned}
  BY DEF Memory!Trim
<1>2. ASSUME NEW r \in prefix, NEW q \in T, q.at < r.at PROVE q \in prefix
  <2>1. {k \in T : k.at > r.at} \in SUBSET {k \in T : k.at > q.at}
    BY <1>2 DEF InOrder
  <2>2. IsFiniteSet({k \in T : k.at > q.at}) /\ IsFiniteSet({k \in T : k.at > r.at})
    BY FS_Subset
  <2>3. Cardinality({k \in T : k.at > r.at}) <= Cardinality({k \in T : k.at > q.at})
    BY <2>1, <2>2, FS_Subset
  <2>4. Cardinality({k \in T : k.at > r.at}) \in Nat /\ Cardinality({k \in T : k.at > q.at}) \in Nat
    BY <2>2, FS_CardinalityType
  <2>. QED BY <2>3, <2>4, SameSize
<1>3. prefix \subseteq T
  OBVIOUS
<1>4. ASSUME NEW c \in orphaned PROVE \E k \in prefix : k.msg.role = "assistant" /\ c \in k.msg.calls
  BY <1>4
<1>5. ASSUME NEW k \in prefix, k.msg.role = "assistant" PROVE k.msg.calls \subseteq orphaned
  BY <1>5
<1>. HIDE DEF prefix, orphaned
<1>6. ASSUME NEW q \in T, NEW p \in T, Answers(T, q, p), q \in Memory!Trim(T) PROVE p \in Memory!Trim(T)
  <2>1. q \in prefix /\ q.msg.role = "assistant" /\ p.msg.role = "tool"
    BY <1>1, <1>6 DEF Answers
  <2>2. p.msg.calls \subseteq orphaned
    BY <1>5, <1>6, <2>1, AnswerOfCall
  <2>. QED BY <1>1, <2>1, <2>2
<1>7. ASSUME NEW q \in T, NEW p \in T, Answers(T, q, p), p \in Memory!Trim(T) PROVE q \in Memory!Trim(T)
  <2>1. CASE p \in prefix
    BY <1>1, <1>2, <1>7, <2>1 DEF Answers
  <2>2. CASE p \notin prefix
    <3>1. p.msg.role = "tool" /\ q.msg.role = "assistant" /\ p.msg.calls \subseteq orphaned
      BY <1>1, <1>7, <2>2 DEF Answers
    <3>2. PICK c : c \in p.msg.calls
      BY <3>1 DEF WellNamed
    <3>3. PICK k \in prefix : k.msg.role = "assistant" /\ c \in k.msg.calls
      BY <1>4, <3>1, <3>2
    <3>4. c \in q.msg.calls
      BY <1>7, <3>2, AnswerOfCall
    <3>5. k \in T
      BY <1>3
    <3>6. k.msg.id = q.msg.id
      BY <3>1, <3>3, <3>4, <3>5, SameCall
    <3>7. k = q
      BY <3>5, <3>6 DEF OncePer
    <3>. QED BY <1>1, <3>3, <3>7
  <2>. QED BY <2>1, <2>2
<1>8. Memory!Trim(T) \in SUBSET T
  BY <1>1, <1>3
<1>. QED BY <1>6, <1>7, <1>8 DEF KeepsTogether


LEMMA PlacedInOrder ==
    ASSUME NEW h \in Seq(Texts), NEW from \in Nat
    PROVE  /\ InOrder(Placed(h, from))
           /\ \A r \in Placed(h, from) : r.at \in (from + 1)..(from + Len(h)) /\ r.msg \in Texts
           /\ IsFiniteSet(Placed(h, from))
<1>1. DOMAIN h = 1..Len(h) /\ Len(h) \in Nat
  OBVIOUS
<1>2. IsFiniteSet(DOMAIN h)
  BY <1>1, FS_Interval
<1>3. IsFiniteSet(Placed(h, from))
  <2> DEFINE f == [i \in DOMAIN h |-> [msg |-> h[i], at |-> from + i]]
  <2>1. f \in Surjection(DOMAIN h, Placed(h, from))
    BY Zenon DEF Placed, Surjection
  <2>. QED BY <1>2, <2>1, FS_Surjection
<1>4. ASSUME NEW r \in Placed(h, from) PROVE \E i \in 1..Len(h) : r = [msg |-> h[i], at |-> from + i] /\ h[i] \in Texts
  BY <1>1, <1>4 DEF Placed
<1>5. \A r \in Placed(h, from) : r.at \in (from + 1)..(from + Len(h)) /\ r.msg \in Texts /\ r.at \in Nat
  BY <1>1, <1>4
<1>6. ASSUME NEW r \in Placed(h, from), NEW q \in Placed(h, from), r.at = q.at PROVE r = q
  <2>1. PICK i \in 1..Len(h) : r = [msg |-> h[i], at |-> from + i]
    BY <1>4
  <2>2. PICK j \in 1..Len(h) : q = [msg |-> h[j], at |-> from + j]
    BY <1>4
  <2>3. i = j
    BY <1>1, <1>6, <2>1, <2>2
  <2>. QED BY <2>1, <2>2, <2>3
<1>. QED BY <1>3, <1>5, <1>6 DEF InOrder

LEMMA PlacedElsewhere ==
    ASSUME NEW h \in Seq(Texts), NEW from \in Nat, NEW to \in Nat, Conversation(Placed(h, from))
    PROVE  Conversation(Placed(h, to))
<1> DEFINE f == [r \in Placed(h, from) |-> [msg |-> r.msg, at |-> r.at - from + to]]
<1>1. DOMAIN h = 1..Len(h) /\ Len(h) \in Nat
  OBVIOUS
<1>2. ASSUME NEW i \in DOMAIN h
      PROVE  /\ [msg |-> h[i], at |-> from + i] \in Placed(h, from)
             /\ f[[msg |-> h[i], at |-> from + i]] = [msg |-> h[i], at |-> to + i]
  <2>1. from + i - from + to = to + i
    BY <1>1
  <2>. QED BY <2>1 DEF Placed
<1>3. f \in [Placed(h, from) -> Placed(h, to)]
  BY <1>2 DEF Placed
<1>4. ASSUME NEW n \in Placed(h, to) PROVE \E r \in Placed(h, from) : f[r] = n
  <2>1. PICK i \in DOMAIN h : n = [msg |-> h[i], at |-> to + i]
    BY DEF Placed
  <2>. HIDE DEF f
  <2>. QED BY <1>2, <2>1
<1>5. \A r \in Placed(h, from) : f[r].msg = r.msg
  OBVIOUS
<1>6. \A r, q \in Placed(h, from) : r.at < q.at <=> f[r].at < f[q].at
  BY PlacedInOrder
<1>. HIDE DEF f
<1>. QED BY <1>3, <1>4, <1>5, <1>6, MovedConverses

\* What a load returns is the table's conversation.
LEMMA HistoryConverses ==
    ASSUME IsFiniteSet(rows), InOrder(rows), Load \in Nat, ~(Cardinality(rows) > Load), Conversation(rows)
    PROVE  Conversation(Placed(Memory!History, 0))
<1>1. /\ Memory!History = [i \in 1..Cardinality(rows) |-> Memory!History[i]]
      /\ \A r \in rows : Memory!History[Rank(rows, r) + 1] = r.msg
  BY HistoryHoldsNewest
<1>2. DOMAIN Memory!History = 1..Cardinality(rows)
  BY <1>1
<1>3. /\ Cardinality(rows) \in Nat
      /\ \A r \in rows : Rank(rows, r) \in 0..(Cardinality(rows) - 1)
      /\ \A r, q \in rows : r.at < q.at <=> Rank(rows, r) < Rank(rows, q)
      /\ \A i \in 1..Cardinality(rows) : \E r \in rows : Rank(rows, r) = i - 1
  BY RankIsPlace
<1> DEFINE f == [r \in rows |-> [msg |-> r.msg, at |-> 0 + (Rank(rows, r) + 1)]]
<1>4. ASSUME NEW r \in rows PROVE f[r] \in Placed(Memory!History, 0)
  <2>1. Rank(rows, r) + 1 \in DOMAIN Memory!History
    BY <1>2, <1>3
  <2>. QED BY <1>1, <2>1 DEF Placed
<1>5. ASSUME NEW n \in Placed(Memory!History, 0) PROVE \E r \in rows : f[r] = n
  <2>1. PICK i \in DOMAIN Memory!History : n = [msg |-> Memory!History[i], at |-> 0 + i]
    BY DEF Placed
  <2>2. PICK r \in rows : Rank(rows, r) = i - 1
    BY <1>2, <1>3
  <2>3. Rank(rows, r) + 1 = i
    BY <1>2, <1>3, <2>2
  <2>. QED BY <1>1, <2>1, <2>2, <2>3
<1>6. \A r, q \in rows : r.at < q.at <=> f[r].at < f[q].at
  BY <1>3
<1>7. f \in [rows -> Placed(Memory!History, 0)] /\ \A r \in rows : f[r].msg = r.msg
  BY <1>4
<1>. HIDE DEF f
<1>. QED BY <1>5, <1>6, <1>7, MovedConverses

\* What follows a history and is a conversation itself goes on with it.
LEMMA ConcatConverses ==
    ASSUME NEW g \in Seq(Texts), NEW h \in Seq(Texts),
           Conversation(Placed(g, 0)), Conversation(Placed(h, 0))
    PROVE  Conversation(Placed(g \o h, 0))
<1>1. Len(g) \in Nat /\ Len(h) \in Nat
  OBVIOUS
<1>2. Conversation(Placed(h, Len(g)))
  BY <1>1, PlacedElsewhere
<1>3. Placed(g \o h, 0) = Placed(g, 0) \cup Placed(h, Len(g))
  <2>1. DOMAIN (g \o h) = 1..(Len(g) + Len(h)) /\ DOMAIN g = 1..Len(g) /\ DOMAIN h = 1..Len(h)
    OBVIOUS
  <2>2. ASSUME NEW i \in DOMAIN g PROVE i \in DOMAIN (g \o h) /\ (g \o h)[i] = g[i]
    BY <2>1
  <2>3. ASSUME NEW i \in DOMAIN h
        PROVE  Len(g) + i \in DOMAIN (g \o h) /\ (g \o h)[Len(g) + i] = h[i] /\ 0 + (Len(g) + i) = Len(g) + i
    BY <2>1
  <2>4. ASSUME NEW i \in DOMAIN (g \o h), i \notin DOMAIN g
        PROVE  \E j \in DOMAIN h : i = Len(g) + j
    <3>1. i - Len(g) \in DOMAIN h /\ i = Len(g) + (i - Len(g))
      BY <1>1, <2>1, <2>4
    <3>. QED BY <3>1
  <2>5. ASSUME NEW r \in Placed(g \o h, 0) PROVE r \in Placed(g, 0) \cup Placed(h, Len(g))
    <3>1. PICK i \in DOMAIN (g \o h) : r = [msg |-> (g \o h)[i], at |-> 0 + i]
      BY DEF Placed
    <3>2. CASE i \in DOMAIN g
      BY <2>2, <3>1, <3>2 DEF Placed
    <3>3. CASE i \notin DOMAIN g
      BY <2>3, <2>4, <3>1, <3>3 DEF Placed
    <3>. QED BY <3>2, <3>3
  <2>6. Placed(g, 0) \subseteq Placed(g \o h, 0)
    BY <2>2 DEF Placed
  <2>7. Placed(h, Len(g)) \subseteq Placed(g \o h, 0)
    BY <2>3 DEF Placed
  <2>. QED BY <2>5, <2>6, <2>7
<1>4. InOrder(Placed(g, 0)) /\ InOrder(Placed(h, Len(g)))
  BY <1>1, PlacedInOrder
<1>5. \A r \in Placed(g, 0), n \in Placed(h, Len(g)) : r.at < n.at
  BY <1>1, PlacedInOrder
<1>6. Conversation(Placed(g, 0) \cup Placed(h, Len(g)))
  BY <1>2, <1>4, <1>5, GoesOnConversing
<1>. QED BY <1>3, <1>6

\* A message that calls nothing and answers nothing.
LEMMA SingleConverses ==
    ASSUME NEW m \in Texts, m.role # "tool", m.calls = {}
    PROVE  <<m>> \in Seq(Texts) /\ Conversation(Placed(<<m>>, 0))
<1>1. \A r \in Placed(<<m>>, 0) : r.msg = m
  BY DEF Placed
<1>. QED BY <1>1 DEF Conversation, AnswersCalled, CallsAnswered

\* An answer of the provider, and the answers to its calls.
LEMMA RoundConverses ==
    ASSUME NEW a \in Texts, a.role = "assistant", NEW h \in Seq(Texts),
           \A i \in DOMAIN h : h[i].role = "tool" /\ \E c \in a.calls : h[i].calls = {c},
           \A c \in a.calls : \E i \in DOMAIN h : h[i].calls = {c}
    PROVE  <<a>> \o h \in Seq(Texts) /\ Conversation(Placed(<<a>> \o h, 0))
<1> DEFINE g == <<a>> \o h
           S == Placed(g, 0)
           first == [msg |-> a, at |-> 0 + 1]
<1>1. g \in Seq(Texts) /\ Len(g) = 1 + Len(h) /\ Len(h) \in Nat /\ g[1] = a /\ DOMAIN h = 1..Len(h)
      /\ \A i \in 1..Len(h) : g[1 + i] = h[i]
  OBVIOUS
<1>2. DOMAIN g = 1..(1 + Len(h))
  BY <1>1
<1>. HIDE DEF g
<1>3. first \in S
  BY <1>1, <1>2 DEF Placed
<1>4. ASSUME NEW r \in S
      PROVE  r = first \/ (r.msg.role = "tool" /\ r.at \in Nat /\ r.at > 1 /\ \E c \in a.calls : r.msg.calls = {c})
  <2>1. PICK i \in DOMAIN g : r = [msg |-> g[i], at |-> 0 + i]
    BY DEF Placed
  <2>2. CASE i = 1
    BY <1>1, <2>1, <2>2
  <2>3. CASE i # 1
    <3>1. i - 1 \in DOMAIN h /\ 1 + (i - 1) = i /\ i > 1 /\ i \in Nat
      BY <1>1, <1>2, <2>3
    <3>2. g[i] = h[i - 1]
      BY <1>1, <3>1
    <3>. QED BY <2>1, <3>1, <3>2
  <2>. QED BY <2>2, <2>3
<1>5. ASSUME NEW i \in DOMAIN h PROVE [msg |-> h[i], at |-> 0 + (1 + i)] \in S
  <2>1. 1 + i \in DOMAIN g /\ g[1 + i] = h[i]
    BY <1>1, <1>2
  <2>. QED BY <2>1 DEF Placed
<1>6. first.msg = a /\ first.at = 1
  OBVIOUS
<1>. HIDE DEF first, S
<1>7. ASSUME NEW p \in S, p # first PROVE Answers(S, first, p)
  <2>1. p.msg.role = "tool" /\ 1 < p.at
    BY <1>4, <1>7
  <2>2. \A k \in S : 1 < k.at => k.msg.role = "tool"
    BY <1>4, <1>6
  <2>. QED BY <1>6, <2>1, <2>2 DEF Answers
<1>8. AnswersCalled(S)
  <2>. SUFFICES ASSUME NEW p \in S, p.msg.role = "tool"
                PROVE  \E q \in S : Answers(S, q, p) /\ p.msg.calls \subseteq q.msg.calls
    BY DEF AnswersCalled
  <2>1. p # first
    BY <1>6
  <2>. QED BY <1>3, <1>4, <1>6, <1>7, <2>1
<1>9. CallsAnswered(S)
  <2>. SUFFICES ASSUME NEW q \in S, q.msg.role = "assistant", NEW c \in q.msg.calls
                PROVE  \E p \in S : Answers(S, q, p) /\ p.msg.calls = {c}
    BY DEF CallsAnswered
  <2>1. q = first
    BY <1>4
  <2>2. PICK i \in DOMAIN h : h[i].calls = {c}
    BY <1>6, <2>1
  <2>3. [msg |-> h[i], at |-> 0 + (1 + i)] \in S /\ [msg |-> h[i], at |-> 0 + (1 + i)] # first
    BY <1>5, <1>6
  <2>. QED BY <1>7, <2>1, <2>2, <2>3
<1>. QED BY <1>1, <1>8, <1>9 DEF Conversation, S, g


\* What is known of the rows, and of the messages a turn holds.
Tabled == \A r \in rows : r.msg \in Texts /\ WellNamed(r.msg)
Held(h) ==
    /\ h \in Seq(Texts)
    /\ \A i \in DOMAIN h : WellNamed(h[i])
    /\ \A i \in DOMAIN h, r \in rows : h[i].role # "prompt" /\ r.msg.id = h[i].id => r.msg = h[i]

\* A call of a history is in the table if and only if its answers are.
LEMMA SavedTogether ==
    ASSUME InOrder(rows), Conversation(rows), Tabled, NEW h, Held(h),
           NEW i \in DOMAIN h, NEW j \in DOMAIN h, h[i].role = "assistant", h[j].role = "tool",
           h[j].calls \subseteq h[i].calls
    PROVE  h[i].id \in Memory!Ids <=> h[j].id \in Memory!Ids
<1>1. h[i] \in Texts /\ h[j] \in Texts /\ WellNamed(h[i]) /\ WellNamed(h[j])
  BY DEF Held
<1>2. PICK c : h[j].calls = {c}
  BY <1>1 DEF WellNamed
<1>3. ASSUME h[i].id \in Memory!Ids PROVE h[j].id \in Memory!Ids
  <2>1. PICK r \in rows : r.msg = h[i]
    BY <1>3 DEF Memory!Ids, Held
  <2>2. PICK p \in rows : Answers(rows, r, p) /\ p.msg.calls = {c}
    BY <1>2, <2>1 DEF Conversation, CallsAnswered
  <2>3. p.msg.role = "tool" /\ p.msg \in Texts /\ WellNamed(p.msg)
    BY <2>2 DEF Answers, Tabled
  <2>4. p.msg.id = h[j].id
    BY <1>1, <1>2, <2>2, <2>3, SameAnswer
  <2>. QED BY <2>4 DEF Memory!Ids
<1>4. ASSUME h[j].id \in Memory!Ids PROVE h[i].id \in Memory!Ids
  <2>1. PICK r \in rows : r.msg = h[j]
    BY <1>4 DEF Memory!Ids, Held
  <2>2. PICK q \in rows : Answers(rows, q, r) /\ r.msg.calls \subseteq q.msg.calls
    BY <2>1 DEF Conversation, AnswersCalled
  <2>3. q.msg.role = "assistant" /\ q.msg \in Texts /\ WellNamed(q.msg)
    BY <2>2 DEF Answers, Tabled
  <2>4. c \in q.msg.calls /\ c \in h[i].calls
    BY <1>2, <2>1, <2>2
  <2>5. q.msg.id = h[i].id
    BY <1>1, <2>3, <2>4, SameCall
  <2>. QED BY <2>5 DEF Memory!Ids
<1>. QED BY <1>3, <1>4

\* The rows of a save.
LEMMA NewRowsPlaced ==
    ASSUME now \in Nat, NEW h, Held(h)
    PROVE  /\ Memory!NewRows(h) \in SUBSET Placed(h, now) /\ IsFiniteSet(Memory!NewRows(h)) /\ InOrder(Memory!NewRows(h))
           /\ \A r \in Memory!NewRows(h) : r.at \in (now + 1)..(now + Len(h)) /\ r.msg \in Texts /\ WellNamed(r.msg)
           /\ \A r \in Memory!NewRows(h) : r.msg.id \notin Memory!Ids /\ r.msg.role # "prompt"
           /\ \A r \in Memory!NewRows(h) : \E i \in DOMAIN h : r.msg = h[i]
           /\ OnceIn(h) => OncePer(Memory!NewRows(h))
<1>1. h \in Seq(Texts)
  BY DEF Held
<1>2. ASSUME NEW r \in Memory!NewRows(h)
      PROVE  \E i \in DOMAIN h : /\ r = [msg |-> h[i], at |-> now + i]
                                 /\ h[i].role # "prompt" /\ h[i].id \notin Memory!Ids
  BY DEF Memory!NewRows, Memory!Unsaved
<1>3. Memory!NewRows(h) \in SUBSET Placed(h, now)
  BY DEF Memory!NewRows, Memory!Unsaved, Placed
<1>4. IsFiniteSet(Memory!NewRows(h)) /\ InOrder(Memory!NewRows(h))
  BY <1>1, <1>3, PlacedInOrder, FS_Subset DEF InOrder
<1>5. \A r \in Memory!NewRows(h) : r.at \in (now + 1)..(now + Len(h)) /\ r.msg \in Texts
  BY <1>1, <1>3, PlacedInOrder
<1>6. \A r \in Memory!NewRows(h) : WellNamed(r.msg) /\ r.msg.id \notin Memory!Ids /\ r.msg.role # "prompt"
                            /\ \E i \in DOMAIN h : r.msg = h[i]
  BY <1>2 DEF Held
<1>7. ASSUME OnceIn(h), NEW r \in Memory!NewRows(h), NEW q \in Memory!NewRows(h), r.msg.id = q.msg.id PROVE r = q
  <2>1. PICK i \in DOMAIN h : r = [msg |-> h[i], at |-> now + i] /\ h[i].role # "prompt"
    BY <1>2
  <2>2. PICK j \in DOMAIN h : q = [msg |-> h[j], at |-> now + j] /\ h[j].role # "prompt"
    BY <1>2
  <2>3. i = j
    BY <1>7, <2>1, <2>2 DEF OnceIn
  <2>. QED BY <2>1, <2>2, <2>3
<1>. QED BY <1>3, <1>4, <1>5, <1>6, <1>7 DEF OncePer

\* What a save adds is a conversation.
LEMMA NewRowsConverse ==
    ASSUME now \in Nat, InOrder(rows), Conversation(rows), Tabled, NEW h, Held(h), Conversation(Placed(h, 0))
    PROVE  Conversation(Memory!NewRows(h))
<1>1. h \in Seq(Texts)
  BY DEF Held
<1>2. Conversation(Placed(h, now)) /\ InOrder(Placed(h, now))
  BY <1>1, PlacedElsewhere, PlacedInOrder
<1>3. ASSUME NEW q \in Placed(h, now), NEW p \in Placed(h, now), Answers(Placed(h, now), q, p)
      PROVE  q \in Memory!NewRows(h) <=> p \in Memory!NewRows(h)
  <2>1. PICK i \in DOMAIN h : q = [msg |-> h[i], at |-> now + i]
    BY DEF Placed
  <2>2. PICK j \in DOMAIN h : p = [msg |-> h[j], at |-> now + j]
    BY DEF Placed
  <2>3. h[i].role = "assistant" /\ h[j].role = "tool" /\ h[j].calls \subseteq h[i].calls
    BY <1>2, <1>3, <2>1, <2>2, AnswerOfCall DEF Answers
  <2>4. h[i].id \in Memory!Ids <=> h[j].id \in Memory!Ids
    BY <2>3, SavedTogether
  <2>5. ASSUME NEW k \in DOMAIN h, h[k].role \notin {"prompt", "system"}
        PROVE  [msg |-> h[k], at |-> now + k] \in Memory!NewRows(h) <=> h[k].id \notin Memory!Ids
    <3>1. ASSUME NEW l \in Memory!Unsaved(h), [msg |-> h[k], at |-> now + k] = [msg |-> h[l], at |-> now + l]
          PROVE  h[k].id \notin Memory!Ids
      BY <3>1 DEF Memory!Unsaved
    <3>2. h[k].id \notin Memory!Ids => k \in Memory!Unsaved(h)
      BY <2>5 DEF Memory!Unsaved
    <3>. QED BY <3>1, <3>2 DEF Memory!NewRows
  <2>. QED BY <2>1, <2>2, <2>3, <2>4, <2>5
<1>4. Memory!NewRows(h) \in SUBSET Placed(h, now)
  BY NewRowsPlaced
<1>. QED BY <1>2, <1>3, <1>4, PartConverses DEF KeepsTogether

LEMMA PlacesBetween ==
    ASSUME NEW first \in Nat, NEW i \in Nat, NEW k \in Nat, NEW p \in Nat, NEW q \in Nat,
           i >= 1, q = first + i - 1, i < k, k <= p - first + 1
    PROVE  q < first + k - 1 /\ first + k - 1 <= p /\ first + k - 1 \in Nat
OBVIOUS

\* A packet begins at a message that is no answer.
LEMMA CompactIsWhole ==
    ASSUME NEW h \in Seq(Texts), Conversation(Placed(h, 0)), Recent \in Nat
    PROVE  Memory!Whole(Memory!Compact(h))
<1>1. Len(h) \in Nat /\ DOMAIN h = 1..Len(h)
  OBVIOUS
<1>2. PICK first \in 1..(Len(h) + 1) :
         /\ first \in DOMAIN h => first = 1 \/ h[first].role # "tool"
         /\ Memory!Compact(h) = SubSeq(h, first, Len(h))
  <2>1. CASE Len(h) <= Recent
    <3>1. SubSeq(h, 1, Len(h)) = h
      OBVIOUS
    <3>2. 1 \in 1..(Len(h) + 1) /\ Memory!Compact(h) = SubSeq(h, 1, Len(h))
      BY <1>1, <2>1, <3>1 DEF Memory!Compact
    <3>. QED BY <3>2
  <2>2. CASE ~(Len(h) <= Recent)
    <3> DEFINE F == {i \in 1..(Len(h) - Recent + 1) : i = 1 \/ h[i].role # "tool"}
    <3>1. Memory!Compact(h) = SubSeq(h, Memory!Max(F), Len(h))
      BY <2>2 DEF Memory!Compact
    <3>2. F \in SUBSET (1..(Len(h) + 1)) /\ 1 \in F
      BY <1>1, <2>2
    <3>3. \E x \in F : \A y \in F : x >= y
      <4>. HIDE DEF F
      <4>1. Len(h) + 1 \in Nat /\ F # {}
        BY <1>1, <3>2
      <4>. QED BY <3>2, <4>1, GreatestExists
    <3>4. Memory!Max(F) \in F
      BY <3>3 DEF Memory!Max
    <3>5. Memory!Max(F) \in 1..(Len(h) + 1) /\ (Memory!Max(F) = 1 \/ h[Memory!Max(F)].role # "tool")
      BY <3>2, <3>4
    <3>. QED BY <3>1, <3>5
  <2>. QED BY <2>1, <2>2
<1> DEFINE packet == Memory!Compact(h)
           At(i) == [msg |-> h[i], at |-> 0 + i]
           S == Placed(h, 0)
<1>3. ASSUME NEW i \in DOMAIN packet
      PROVE  i \in Nat /\ i >= 1 /\ first + i - 1 \in DOMAIN h /\ packet[i] = h[first + i - 1]
  BY <1>1, <1>2
<1>4. ASSUME NEW k \in DOMAIN h, k >= first
      PROVE  k - first + 1 \in DOMAIN packet /\ packet[k - first + 1] = h[k] /\ k - first + 1 \in Nat
  <2>1. k - first + 1 \in 1..(Len(h) - first + 1) /\ first + (k - first + 1) - 1 = k /\ k - first + 1 \in Nat
    BY <1>1, <1>2, <1>4
  <2>2. DOMAIN packet = 1..(Len(h) - first + 1)
    BY <1>1, <1>2
  <2>. QED BY <1>3, <2>1, <2>2
<1>5. DOMAIN packet = 1..Len(packet) /\ Len(packet) \in Nat
  BY <1>1, <1>2
<1>6. \A r \in S : \E k \in DOMAIN h : r = At(k)
  BY DEF Placed
<1>7. \A k \in DOMAIN h : At(k) \in S /\ At(k).msg = h[k] /\ At(k).at = k
  BY <1>1 DEF Placed
<1>10. Conversation(S)
  OBVIOUS
<1>. HIDE DEF packet, S, At
<1>8. ASSUME NEW i \in DOMAIN packet, packet[i].role = "tool"
      PROVE  \E j \in 1..(i - 1) :
                /\ packet[j].role = "assistant" /\ packet[i].calls \subseteq packet[j].calls
                /\ \A k \in (j + 1)..(i - 1) : packet[k].role = "tool"
  <2> DEFINE p == first + i - 1
  <2>1. p \in DOMAIN h /\ packet[i] = h[p] /\ i \in Nat /\ i >= 1
    BY <1>3
  <2>2. PICK r \in S : Answers(S, r, At(p)) /\ h[p].calls \subseteq r.msg.calls
    BY <1>7, <1>8, <1>10, <2>1 DEF Conversation, AnswersCalled
  <2>3. PICK q \in DOMAIN h : r = At(q)
    BY <1>6
  <2>4. h[q].role = "assistant" /\ h[p].calls \subseteq h[q].calls /\ q < p /\ q \in Nat /\ p \in Nat
    BY <1>1, <1>7, <2>1, <2>2, <2>3 DEF Answers
  <2>5. ASSUME NEW k \in DOMAIN h, q < k, k < p PROVE h[k].role = "tool"
    <3>1. At(k) \in S /\ At(k).msg = h[k] /\ r.at < At(k).at /\ At(k).at < At(p).at
      BY <1>7, <2>1, <2>3, <2>5
    <3>. QED BY <2>2, <3>1 DEF Answers
  <2>6. q >= first
    <3>1. CASE first = p
      <4>1. h[first].role = "tool" /\ first \in DOMAIN h
        BY <1>8, <2>1, <3>1
      <4>. QED BY <1>2, <2>4, <3>1, <4>1
    <3>2. CASE first # p
      <4>1. first \in Nat /\ first < p
        BY <1>1, <1>2, <2>1, <3>2
      <4>2. first \in DOMAIN h
        BY <1>1, <1>2, <2>1, <4>1
      <4>3. q < first => h[first].role = "tool"
        BY <2>5, <4>1, <4>2
      <4>4. q < first => first = 1
        BY <1>2, <4>2, <4>3
      <4>. QED BY <1>1, <2>3, <2>4, <4>1, <4>4
    <3>. QED BY <3>1, <3>2
  <2> DEFINE j == q - first + 1
  <2>7. j \in DOMAIN packet /\ packet[j] = h[q] /\ j \in 1..(i - 1)
    BY <1>1, <1>2, <1>4, <2>1, <2>4, <2>6
  <2>8. ASSUME NEW k \in (j + 1)..(i - 1) PROVE packet[k].role = "tool"
    <3>1. k \in DOMAIN packet
      BY <1>1, <1>2, <1>5, <2>1, <2>7
    <3>2. first + k - 1 \in DOMAIN h /\ packet[k] = h[first + k - 1] /\ q < first + k - 1 /\ first + k - 1 < p
      BY <1>1, <1>2, <1>3, <2>1, <2>4, <3>1
    <3>. QED BY <2>5, <3>2
  <2>. QED BY <2>1, <2>4, <2>7, <2>8
<1>9. ASSUME NEW i \in DOMAIN packet, packet[i].role = "assistant", NEW c \in packet[i].calls
      PROVE  \E j \in (i + 1)..Len(packet) :
                packet[j].calls = {c} /\ \A k \in (i + 1)..j : packet[k].role = "tool"
  <2> DEFINE q == first + i - 1
  <2>1. q \in DOMAIN h /\ packet[i] = h[q] /\ i \in Nat /\ i >= 1
    BY <1>3
  <2>2. PICK r \in S : Answers(S, At(q), r) /\ r.msg.calls = {c}
    <3>1. At(q) \in S /\ At(q).msg = packet[i]
      BY <1>7, <2>1
    <3>. QED BY <1>9, <1>10, <3>1 DEF Conversation, CallsAnswered
  <2>3. PICK p \in DOMAIN h : r = At(p)
    BY <1>6
  <2>4. h[p].role = "tool" /\ h[p].calls = {c} /\ q < p /\ q \in Nat /\ p \in Nat
    BY <1>1, <1>7, <2>1, <2>2, <2>3 DEF Answers
  <2>5. ASSUME NEW k \in DOMAIN h, q < k, k < p PROVE h[k].role = "tool"
    <3>1. At(k) \in S /\ At(k).msg = h[k] /\ At(q).at < At(k).at /\ At(k).at < r.at
      BY <1>7, <2>1, <2>3, <2>5
    <3>. QED BY <2>2, <3>1 DEF Answers
  <2> DEFINE j == p - first + 1
  <2>6. p >= first
    BY <1>1, <1>2, <2>1, <2>4
  <2>7. j \in DOMAIN packet /\ packet[j] = h[p] /\ j \in (i + 1)..Len(packet)
    BY <1>1, <1>2, <1>4, <1>5, <2>1, <2>4, <2>6
  <2>8. ASSUME NEW k \in (i + 1)..j PROVE packet[k].role = "tool"
    <3>1. k \in DOMAIN packet
      BY <1>1, <1>2, <1>5, <2>1, <2>7
    <3>2. first + k - 1 \in DOMAIN h /\ packet[k] = h[first + k - 1] /\ q < first + k - 1 /\ first + k - 1 <= p
          /\ first + k - 1 \in Nat
      <4>1. first + k - 1 \in DOMAIN h /\ packet[k] = h[first + k - 1]
        BY <1>3, <3>1
      <4>2. k \in Nat /\ i < k /\ k <= p - first + 1 /\ first \in Nat
        BY <1>1, <1>2, <2>1, <2>4
      <4>3. q < first + k - 1 /\ first + k - 1 <= p /\ first + k - 1 \in Nat
        BY <2>1, <2>4, <4>2, PlacesBetween
      <4>. QED BY <4>1, <4>3
    <3>3. CASE first + k - 1 = p
      BY <2>4, <3>2, <3>3
    <3>4. CASE first + k - 1 # p
      <4>1. first + k - 1 < p
        BY <2>4, <3>2, <3>4
      <4>. QED BY <2>5, <3>2, <4>1
    <3>. QED BY <3>3, <3>4
  <2>. QED BY <2>4, <2>7, <2>8
<1>. QED BY <1>8, <1>9 DEF Memory!Whole, packet


\* What is kept together in a conversation.
LEMMA KeptUnion ==
    ASSUME NEW S, NEW F, \A X \in F : KeepsTogether(S, X)
    PROVE  KeepsTogether(S, UNION F)
BY DEF KeepsTogether

LEMMA KeptBoth ==
    ASSUME NEW S, NEW X, NEW Y, KeepsTogether(S, X), KeepsTogether(S, Y)
    PROVE  KeepsTogether(S, X \cup Y) /\ KeepsTogether(S, X \ Y)
BY DEF KeepsTogether

LEMMA KeptInPart ==
    ASSUME NEW S, InOrder(S), Conversation(S), NEW T \in SUBSET S, KeepsTogether(S, T),
           NEW X, KeepsTogether(S, X)
    PROVE  KeepsTogether(T, X)
BY PartConverses DEF KeepsTogether

LEMMA KeptInWhole ==
    ASSUME NEW S, InOrder(S), Conversation(S), NEW T \in SUBSET S, KeepsTogether(S, T),
           NEW X \in SUBSET T, KeepsTogether(T, X)
    PROVE  KeepsTogether(S, X)
<1>. SUFFICES ASSUME NEW q \in S, NEW p \in S, Answers(S, q, p) PROVE q \in X <=> p \in X
  BY DEF KeepsTogether
<1>1. q \in T <=> p \in T
  BY DEF KeepsTogether
<1>2. CASE q \in T
  <2>1. Answers(T, q, p) /\ p \in T
    BY <1>1, <1>2, PartConverses
  <2>. QED BY <1>2, <2>1 DEF KeepsTogether
<1>. QED BY <1>1, <1>2

LEMMA KeptBefore ==
    ASSUME NEW S, InOrder(S), Conversation(S), NEW N, InOrder(N), Conversation(N),
           \A r \in S, n \in N : r.at < n.at, NEW X, KeepsTogether(S, X), X \cap N = {}
    PROVE  KeepsTogether(S \cup N, X)
<1>. SUFFICES ASSUME NEW q \in S \cup N, NEW p \in S \cup N, Answers(S \cup N, q, p) PROVE q \in X <=> p \in X
  BY DEF KeepsTogether
<1>1. (q \in S /\ p \in S /\ Answers(S, q, p)) \/ (q \in N /\ p \in N /\ Answers(N, q, p))
  BY GoesOnConversing
<1>. QED BY <1>1 DEF KeepsTogether

LEMMA KeptAfter ==
    ASSUME NEW S, InOrder(S), Conversation(S), NEW N, InOrder(N), Conversation(N),
           \A r \in S, n \in N : r.at < n.at
    PROVE  KeepsTogether(S \cup N, N)
<1>. SUFFICES ASSUME NEW q \in S \cup N, NEW p \in S \cup N, Answers(S \cup N, q, p) PROVE q \in N <=> p \in N
  BY DEF KeepsTogether
<1>1. (q \in S /\ p \in S /\ Answers(S, q, p)) \/ (q \in N /\ p \in N /\ Answers(N, q, p))
  BY GoesOnConversing
<1>2. \A r \in S : r \notin N
  <2>. SUFFICES ASSUME NEW r \in S, r \in N PROVE FALSE
    OBVIOUS
  <2>1. r.at < r.at /\ r.at \in Nat
    BY DEF InOrder
  <2>. QED BY <2>1
<1>. QED BY <1>1, <1>2

---------------------------------------------------------------------------
TextRows == [msg : Texts, at : Nat]
TurnRecords(A) ==
    [stage : {"idle", "opening", "building", "asking", "closing"}, hist : Seq(Texts),
     add : SUBSET TextRows, drop : SUBSET TextRows, allow : A, step : Nat, turn : Nat]

MemoryTyped ==
    /\ now \in Nat /\ turns \in Nat
    /\ rows \in SUBSET TextRows /\ IsFiniteSet(rows)
    /\ \E A : stream \in [Streams -> TurnRecords(A)]
    /\ \A s \in Streams :
          /\ IsFiniteSet(stream[s].add)
          /\ stream[s].stage = "idle" => stream[s].hist = <<>>
          /\ stream[s].stage \notin {"opening", "closing"} => stream[s].add = {} /\ stream[s].drop = {}

\* Every row of the table or on its way there.
Written == rows \cup UNION {stream[s].add : s \in Streams}
Spoken(h) == {h[i] : i \in {j \in DOMAIN h : h[j].role # "prompt"}}
Known == {r.msg : r \in Written} \cup UNION {Spoken(stream[s].hist) : s \in Streams}

Named(M, last) == \A m \in M : m \in Texts /\ WellNamed(m) /\ m.role # "prompt" /\ m.id[1] <= last
OneMeaning(M) == \A m, n \in M : m.id = n.id => m = n
Past(s, M) ==
    stream[s].stage \in {"opening", "building", "asking"} =>
        \A m \in M : m.id[1] = stream[s].turn => m.id[2] < Len(stream[s].hist)
Apart ==
    /\ \A s \in Streams : stream[s].stage # "idle" => stream[s].turn <= turns
    /\ \A s, r \in Streams : s # r /\ stream[s].stage # "idle" /\ stream[r].stage # "idle"
                                => stream[s].turn # stream[r].turn
Once == OncePer(rows) /\ \A s \in Streams : OncePer(stream[s].add) /\ OnceIn(stream[s].hist)
NamesInv == Named(Known, turns) /\ OneMeaning(Known) /\ (\A s \in Streams : Past(s, Known)) /\ Apart /\ Once

Timed == InOrder(Written) /\ \A r \in Written : r.at <= now

Grouped ==
    /\ Conversation(Written) /\ KeepsTogether(Written, rows)
    /\ \A s \in Streams :
          /\ KeepsTogether(Written, stream[s].add)
          /\ KeepsTogether(Written, stream[s].drop) /\ \A r \in stream[s].drop : r.at <= now
          /\ Conversation(Placed(stream[s].hist, 0))

MemoryInv == MemoryTyped /\ NamesInv /\ Timed /\ (~truncated => Grouped)

LEMMA KnownIs ==
    \A m : m \in Known <=> \/ \E r \in rows : m = r.msg
                           \/ \E s \in Streams : \E r \in stream[s].add : m = r.msg
                           \/ \E s \in Streams : m \in Spoken(stream[s].hist)
BY DEF Known, Written

\* What the invariant says of one turn.
LEMMA TurnTyped ==
    ASSUME MemoryTyped, NEW s \in Streams
    PROVE  /\ stream[s].stage \in {"idle", "opening", "building", "asking", "closing"}
           /\ stream[s].hist \in Seq(Texts) /\ stream[s].turn \in Nat
           /\ stream[s].add \in SUBSET TextRows /\ stream[s].drop \in SUBSET TextRows
           /\ IsFiniteSet(stream[s].add)
           /\ stream[s].stage = "idle" => stream[s].hist = <<>>
           /\ stream[s].stage \notin {"opening", "closing"} => stream[s].add = {} /\ stream[s].drop = {}
BY DEF MemoryTyped, TurnRecords

LEMMA RowsHold ==
    ASSUME MemoryTyped, NamesInv, Timed
    PROVE  InOrder(rows) /\ Tabled /\ OncePer(rows) /\ IsFiniteSet(rows) /\ \A r \in rows : r.at <= now /\ r.msg \in Known
<1>1. rows \subseteq Written
  BY DEF Written
<1>2. \A r \in rows : r.msg \in Known
  BY KnownIs
<1>. QED BY <1>1, <1>2 DEF MemoryTyped, NamesInv, Timed, InOrder, Tabled, Named, Once

\* A history's messages are known.
LEMMA HistoryHeld ==
    ASSUME MemoryTyped, NamesInv, Timed, NEW s \in Streams
    PROVE  Held(stream[s].hist)
<1> DEFINE h == stream[s].hist
<1>1. h \in Seq(Texts)
  BY TurnTyped
<1>2. \A i \in DOMAIN h : h[i].role # "prompt" => h[i] \in Known
  BY KnownIs DEF Spoken
<1>3. \A r \in rows : r.msg \in Known
  BY KnownIs
<1>4. ASSUME NEW i \in DOMAIN h PROVE WellNamed(h[i])
  BY <1>2 DEF NamesInv, Named, WellNamed
<1>5. ASSUME NEW i \in DOMAIN h, NEW r \in rows, h[i].role # "prompt", r.msg.id = h[i].id PROVE r.msg = h[i]
  BY <1>2, <1>3, <1>5 DEF NamesInv, OneMeaning
<1>. QED BY <1>1, <1>4, <1>5 DEF Held


LEMMA ConcatIs ==
    ASSUME NEW g \in Seq(Texts), NEW h \in Seq(Texts)
    PROVE  /\ g \o h \in Seq(Texts) /\ Len(g \o h) = Len(g) + Len(h) /\ DOMAIN (g \o h) = 1..(Len(g) + Len(h))
           /\ \A i \in 1..Len(g) : (g \o h)[i] = g[i]
           /\ \A j \in 1..Len(h) : (g \o h)[Len(g) + j] = h[j]
<1>1. Len(g) \in Nat /\ Len(h) \in Nat /\ DOMAIN g = 1..Len(g) /\ DOMAIN h = 1..Len(h)
  OBVIOUS
<1>2. g \o h \in Seq(Texts) /\ Len(g \o h) = Len(g) + Len(h) /\ DOMAIN (g \o h) = 1..(Len(g) + Len(h))
  BY <1>1
<1>3. ASSUME NEW i \in 1..Len(g) PROVE (g \o h)[i] = g[i]
  BY <1>1, <1>2
<1>4. ASSUME NEW j \in 1..Len(h) PROVE (g \o h)[Len(g) + j] = h[j]
  <2>1. Len(g) + j \in DOMAIN (g \o h)
    BY <1>1, <1>2
  <2>. QED BY <1>1, <1>2, <2>1
<1>. QED BY <1>2, <1>3, <1>4

LEMMA Extension ==
    ASSUME NEW g \in Seq(Texts), NEW a \in Texts, NEW h \in Seq(Texts), NEW ext, ext = Append(g, a) \o h
    PROVE  /\ ext \in Seq(Texts) /\ <<a>> \o h \in Seq(Texts) /\ ext = g \o (<<a>> \o h)
           /\ Len(g) \in Nat /\ Len(h) \in Nat /\ Len(ext) = Len(g) + 1 + Len(h) /\ Len(ext) \in Nat
           /\ DOMAIN g = 1..Len(g) /\ DOMAIN h = 1..Len(h) /\ DOMAIN ext = 1..Len(ext)
           /\ \A i \in 1..Len(g) : ext[i] = g[i]
           /\ ext[Len(g) + 1] = a
           /\ \A j \in 1..Len(h) : ext[Len(g) + 1 + j] = h[j]
<1>1. Len(g) \in Nat /\ Len(h) \in Nat /\ DOMAIN g = 1..Len(g) /\ DOMAIN h = 1..Len(h)
  OBVIOUS
<1> DEFINE b == Append(g, a)
<1>2. b \in Seq(Texts) /\ Len(b) = Len(g) + 1 /\ b[Len(g) + 1] = a /\ \A i \in 1..Len(g) : b[i] = g[i]
  BY <1>1
<1>. HIDE DEF b
<1>3. ext = b \o h
  BY DEF b
<1>4. /\ ext \in Seq(Texts) /\ Len(ext) = Len(g) + 1 + Len(h) /\ DOMAIN ext = 1..Len(ext)
      /\ \A i \in 1..(Len(g) + 1) : ext[i] = b[i]
      /\ \A j \in 1..Len(h) : ext[Len(g) + 1 + j] = h[j]
  <2>1. /\ ext \in Seq(Texts) /\ Len(ext) = Len(b) + Len(h) /\ DOMAIN ext = 1..(Len(b) + Len(h))
        /\ \A i \in 1..Len(b) : ext[i] = b[i]
        /\ \A j \in 1..Len(h) : ext[Len(b) + j] = h[j]
    <3>1. /\ b \o h \in Seq(Texts) /\ Len(b \o h) = Len(b) + Len(h) /\ DOMAIN (b \o h) = 1..(Len(b) + Len(h))
          /\ \A i \in 1..Len(b) : (b \o h)[i] = b[i]
          /\ \A j \in 1..Len(h) : (b \o h)[Len(b) + j] = h[j]
      BY <1>2, ConcatIs
    <3>. QED BY <1>3, <3>1
  <2>. QED BY <1>2, <2>1
<1>5. /\ \A i \in 1..Len(g) : ext[i] = g[i]
      /\ ext[Len(g) + 1] = a
  BY <1>1, <1>2, <1>4
<1> DEFINE new == <<a>> \o h
<1>6. new \in Seq(Texts) /\ Len(new) = 1 + Len(h) /\ new[1] = a /\ \A j \in 1..Len(h) : new[1 + j] = h[j]
  BY <1>1
<1>. HIDE DEF new
<1>7. /\ g \o new \in Seq(Texts) /\ Len(g \o new) = Len(g) + 1 + Len(h)
      /\ \A i \in 1..Len(g) : (g \o new)[i] = g[i]
      /\ \A j \in 1..(1 + Len(h)) : (g \o new)[Len(g) + j] = new[j]
  <2>1. Len(g) + (1 + Len(h)) = Len(g) + 1 + Len(h)
    BY <1>1
  <2>2. /\ g \o new \in Seq(Texts) /\ Len(g \o new) = Len(g) + Len(new)
        /\ \A i \in 1..Len(g) : (g \o new)[i] = g[i]
        /\ \A j \in 1..Len(new) : (g \o new)[Len(g) + j] = new[j]
    BY <1>6, ConcatIs
  <2>3. Len(new) = 1 + Len(h)
    BY <1>6
  <2>. QED BY <2>1, <2>2, <2>3
<1>8. ASSUME NEW i \in 1..Len(ext) PROVE ext[i] = (g \o new)[i]
  <2>1. CASE i \in 1..Len(g)
    BY <1>5, <1>7, <2>1
  <2>2. CASE i = Len(g) + 1
    <3>1. (g \o new)[Len(g) + 1] = new[1]
      BY <1>1, <1>7
    <3>. QED BY <1>5, <1>6, <2>2, <3>1
  <2>3. CASE i \notin 1..Len(g) /\ i # Len(g) + 1
    <3> DEFINE j == i - Len(g) - 1
    <3>1. j \in 1..Len(h) /\ i = Len(g) + 1 + j /\ 1 + j \in 1..(1 + Len(h)) /\ i = Len(g) + (1 + j)
      BY <1>1, <1>4, <2>3
    <3>. HIDE DEF j
    <3>2. (g \o new)[i] = new[1 + j] /\ new[1 + j] = h[j] /\ ext[i] = h[j]
      BY <1>4, <1>6, <1>7, <3>1
    <3>. QED BY <3>2
  <2>. QED BY <2>1, <2>2, <2>3
<1>9. ext = g \o new
  BY <1>1, <1>4, <1>7, <1>8
<1>. QED BY <1>1, <1>4, <1>5, <1>6, <1>9 DEF new

LEMMA PlaceAfter ==
    ASSUME NEW i \in Nat, NEW l \in Nat, NEW n \in Nat, l < i, i <= l + 1 + n, i # l + 1
    PROVE  i - l - 1 \in 1..n /\ l + (i - l - 1) = i - 1 /\ i = l + 1 + (i - l - 1)
OBVIOUS


\* A save puts what is new after all that is written.
LEMMA Saving ==
    ASSUME MemoryInv, NEW s \in Streams, stream[s].add = {}, NEW h, Held(h), OnceIn(h),
           rows' = rows, now' = now + Len(h), truncated => truncated', NEW turn,
           stream' = [stream EXCEPT ![s] = turn],
           turn.add = Memory!NewRows(h), turn.drop = Memory!Trim(rows \cup Memory!NewRows(h)),
           ~truncated' => Conversation(Placed(h, 0)) /\ Conversation(Placed(turn.hist, 0))
    PROVE  /\ Written' = Written \cup Memory!NewRows(h)
           /\ Timed' /\ (~truncated' => Grouped')
<1> DEFINE N == Memory!NewRows(h)
           T == rows \cup N
<1>1. /\ MemoryTyped /\ NamesInv /\ Timed /\ (~truncated => Grouped)
      /\ now \in Nat /\ h \in Seq(Texts) /\ Len(h) \in Nat /\ now + Len(h) \in Nat
      /\ DOMAIN stream = Streams
  BY DEF MemoryInv, MemoryTyped, Held
<1>2. InOrder(rows) /\ Tabled /\ OncePer(rows) /\ IsFiniteSet(rows) /\ \A r \in rows : r.at <= now /\ r.msg \in Known
  BY <1>1, RowsHold
<1>3. /\ N \in SUBSET Placed(h, now) /\ IsFiniteSet(N) /\ InOrder(N)
      /\ \A r \in N : r.at \in (now + 1)..(now + Len(h)) /\ r.msg \in Texts /\ WellNamed(r.msg)
      /\ \A r \in N : r.msg.id \notin Memory!Ids /\ r.msg.role # "prompt"
      /\ OncePer(N)
  BY <1>1, NewRowsPlaced
<1>4. stream'[s] = turn /\ \A r \in Streams : r # s => stream'[r] = stream[r]
  BY <1>1
<1>. HIDE DEF N
<1>5. Written' = Written \cup N
  BY <1>4 DEF Written, N
<1>6. InOrder(Written) /\ \A r \in Written, n \in N : r.at < n.at
  BY <1>1, <1>3 DEF Timed, InOrder
<1>7. InOrder(Written \cup N)
  <2>1. \A r \in Written, n \in N : r.at # n.at
    BY <1>3, <1>6 DEF InOrder
  <2>. QED BY <1>3, <1>6, <2>1 DEF InOrder
<1>8. Timed'
  <2>1. \A r \in Written : r.at <= now + Len(h)
    BY <1>1 DEF Timed, InOrder
  <2>2. \A r \in N : r.at <= now + Len(h)
    BY <1>1, <1>3
  <2>. QED BY <1>5, <1>7, <2>1, <2>2 DEF Timed
<1>9. ASSUME ~truncated' PROVE Grouped'
  <2>1. Grouped
    BY <1>1, <1>9
  <2>2. Conversation(Written) /\ KeepsTogether(Written, rows) /\ rows \subseteq Written
    BY <2>1 DEF Grouped, Written
  <2>3. Conversation(rows)
    BY <1>6, <2>2, PartConverses
  <2>4. Conversation(N)
    BY <1>1, <1>2, <1>9, <2>3, NewRowsConverse DEF N
  <2>5. Conversation(Written \cup N)
    BY <1>3, <1>6, <2>2, <2>4, GoesOnConversing
  <2>6. ASSUME NEW X, KeepsTogether(Written, X), \A r \in X : r.at <= now PROVE KeepsTogether(Written \cup N, X)
    <3>1. X \cap N = {}
      BY <1>1, <1>3, <2>6
    <3>. QED BY <1>3, <1>6, <2>2, <2>4, <2>6, <3>1, KeptBefore
  <2>7. KeepsTogether(Written \cup N, rows)
    BY <1>2, <2>2, <2>6
  <2>8. KeepsTogether(Written \cup N, N)
    BY <1>3, <1>6, <2>2, <2>4, KeptAfter
  <2>9. KeepsTogether(Written \cup N, T) /\ T \in SUBSET (Written \cup N)
    BY <2>2, <2>7, <2>8, KeptBoth
  <2>10. InOrder(T) /\ Conversation(T)
    BY <1>7, <2>5, <2>9, PartConverses
  <2>11. IsFiniteSet(T) /\ OncePer(T) /\ \A r \in T : r.msg \in Texts /\ WellNamed(r.msg)
    <3>1. IsFiniteSet(T)
      BY <1>2, <1>3, FS_Union
    <3>2. \A r \in rows, q \in N : r.msg.id # q.msg.id
      BY <1>3 DEF Memory!Ids
    <3>3. OncePer(T)
      BY <1>2, <1>3, <3>2 DEF OncePer
    <3>. QED BY <1>2, <1>3, <3>1, <3>3 DEF Tabled
  <2>12. Memory!Trim(T) \in SUBSET T /\ KeepsTogether(T, Memory!Trim(T))
    BY <2>10, <2>11, TrimKeepsTogether, MemoryAssumption
  <2>13. KeepsTogether(Written \cup N, Memory!Trim(T))
    BY <1>7, <2>5, <2>9, <2>12, KeptInWhole
  <2>14. \A r \in Memory!Trim(T) : r.at <= now + Len(h)
    BY <1>1, <1>2, <1>3, <1>6, <2>2, <2>12 DEF InOrder
  <2>15. ASSUME NEW r \in Streams
         PROVE  /\ KeepsTogether(Written \cup N, stream'[r].add)
                /\ KeepsTogether(Written \cup N, stream'[r].drop) /\ \A x \in stream'[r].drop : x.at <= now + Len(h)
                /\ Conversation(Placed(stream'[r].hist, 0))
    <3>1. CASE r = s
      BY <1>4, <1>9, <2>8, <2>13, <2>14, <3>1 DEF N
    <3>2. CASE r # s
      <4>1. stream'[r] = stream[r]
        BY <1>4, <3>2
      <4>2. stream[r].add \subseteq Written
        BY DEF Written
      <4>3. \A x \in stream[r].add : x.at <= now
        BY <1>1, <4>2 DEF Timed
      <4>4. KeepsTogether(Written \cup N, stream[r].add)
        BY <2>1, <2>6, <4>3 DEF Grouped
      <4>5. KeepsTogether(Written \cup N, stream[r].drop)
        BY <2>1, <2>6 DEF Grouped
      <4>6. \A x \in stream[r].drop : x.at <= now /\ x.at \in Nat
        BY <1>1, <2>1, TurnTyped DEF Grouped, TextRows
      <4>7. \A x \in stream[r].drop : x.at <= now + Len(h)
        BY <1>1, <4>6
      <4>. QED BY <2>1, <4>1, <4>4, <4>5, <4>7 DEF Grouped
    <3>. QED BY <3>1, <3>2
  <2>. QED BY <1>5, <2>5, <2>7, <2>15 DEF Grouped
<1>. QED BY <1>5, <1>8, <1>9 DEF N

\* The provider's answer and the answers to its calls.
LEMMA Extending ==
    ASSUME MemoryInv, NEW s \in Streams, stream[s].stage = "asking",
           NEW a \in Texts, WellNamed(a), a.role = "assistant",
           a.id = <<stream[s].turn, Len(stream[s].hist)>>, NEW h \in Seq(Texts),
           \A i \in DOMAIN h : /\ WellNamed(h[i]) /\ h[i].role = "tool"
                               /\ h[i].id = <<stream[s].turn, Len(stream[s].hist) + i>>
                               /\ \E c \in a.calls : h[i].calls = {c},
           \A c \in a.calls : \E i \in DOMAIN h : h[i].calls = {c},
           NEW ext, ext = Append(stream[s].hist, a) \o h
    PROVE  /\ Held(ext) /\ OnceIn(ext) /\ Len(ext) \in Nat
           /\ ~truncated => Conversation(Placed(ext, 0))
           /\ Named(Known \cup Spoken(ext), turns) /\ OneMeaning(Known \cup Spoken(ext))
           /\ \A r \in Streams : r # s => Past(r, Known \cup Spoken(ext))
           /\ \A m \in Known \cup Spoken(ext) : m.id[1] = stream[s].turn => m.id[2] < Len(ext)
<1> DEFINE old == stream[s].hist
           last == Len(old)
           new == <<a>> \o h
           M == Known \cup Spoken(ext)
<1>1. /\ MemoryTyped /\ NamesInv /\ Timed /\ (~truncated => Grouped)
      /\ old \in Seq(Texts) /\ last \in Nat /\ stream[s].turn \in Nat
  BY TurnTyped DEF MemoryInv
<1>2. Held(old) /\ OnceIn(old)
  BY <1>1, HistoryHeld DEF NamesInv, Once
<1>3. /\ ext = old \o new /\ ext \in Seq(Texts) /\ new \in Seq(Texts)
      /\ DOMAIN ext = 1..Len(ext) /\ Len(ext) = last + 1 + Len(h) /\ Len(ext) \in Nat /\ DOMAIN h = 1..Len(h)
      /\ Len(h) \in Nat /\ DOMAIN old = 1..last
      /\ \A i \in 1..last : ext[i] = old[i]
      /\ ext[last + 1] = a /\ \A j \in 1..Len(h) : ext[last + 1 + j] = h[j]
  <2>. HIDE DEF old
  <2>1. ext = Append(old, a) \o h
    BY DEF old
  <2>. QED BY <1>1, <2>1, Extension
<1>4. \A i \in DOMAIN old : i \in DOMAIN ext /\ ext[i] = old[i]
  <2>. HIDE DEF old, last
  <2>. QED BY <1>1, <1>3
<1>5. ASSUME NEW i \in DOMAIN ext, i \notin DOMAIN old
      PROVE  /\ i \in Nat /\ last < i
             /\ ext[i].id[1] = stream[s].turn /\ ext[i].id[2] = i - 1
             /\ ext[i].role # "prompt" /\ WellNamed(ext[i]) /\ ext[i] \in Texts
  <2>1. i \in Nat /\ last < i /\ i <= last + 1 + Len(h)
    <3>. HIDE DEF last, old
    <3>. QED BY <1>1, <1>3, <1>5
  <2>2. CASE i = last + 1
    <3>1. ext[i] = a
      BY <1>1, <1>3, <2>2
    <3>. QED BY <1>1, <2>1, <2>2, <3>1
  <2>3. CASE i # last + 1
    <3> DEFINE j == i - last - 1
    <3>1. j \in DOMAIN h /\ last + j = i - 1 /\ i = last + 1 + j
      <4>1. i - last - 1 \in 1..Len(h) /\ last + (i - last - 1) = i - 1 /\ i = last + 1 + (i - last - 1)
        <5>. HIDE DEF last, old
        <5>1. last \in Nat /\ Len(h) \in Nat
          BY <1>1, <1>3
        <5>. QED BY <2>1, <2>3, <5>1, PlaceAfter
      <4>. QED BY <1>3, <4>1
    <3>2. ext[i] = h[j]
      BY <1>3, <3>1
    <3>3. h[j].id = <<stream[s].turn, last + j>> /\ WellNamed(h[j]) /\ h[j].role = "tool" /\ h[j] \in Texts
      BY <3>1
    <3>. HIDE DEF j
    <3>. QED BY <2>1, <3>1, <3>2, <3>3
  <2>. QED BY <2>2, <2>3
<1>6. \A m \in Known : m.id[1] = stream[s].turn => m.id[2] < last
  BY <1>1 DEF NamesInv, Past
<1>7. \A m \in Known : m \in Texts /\ WellNamed(m) /\ m.role # "prompt" /\ m.id[1] <= turns
  BY <1>1 DEF NamesInv, Named
<1>. HIDE DEF old, last, new
<1>8. \A i \in DOMAIN old : old[i].role # "prompt" => old[i] \in Known
  BY KnownIs DEF Spoken, old
<1>9. ASSUME NEW m \in M
      PROVE  \/ m \in Known
             \/ \E i \in DOMAIN ext : i \notin DOMAIN old /\ m = ext[i]
  BY <1>4, <1>8, <1>9 DEF Spoken
<1>10. stream[s].turn <= turns
  BY <1>1 DEF NamesInv, Apart
<1>11. Named(M, turns)
  <2>1. ASSUME NEW i \in DOMAIN ext, i \notin DOMAIN old
        PROVE  ext[i] \in Texts /\ WellNamed(ext[i]) /\ ext[i].role # "prompt" /\ ext[i].id[1] <= turns
    BY <1>5, <1>10, <2>1
  <2>. SUFFICES ASSUME NEW m \in M PROVE m \in Texts /\ WellNamed(m) /\ m.role # "prompt" /\ m.id[1] <= turns
    BY DEF Named
  <2>2. CASE m \in Known
    BY <1>7, <2>2
  <2>3. CASE m \notin Known
    <3>1. PICK i \in DOMAIN ext : i \notin DOMAIN old /\ m = ext[i]
      BY <1>9, <2>3
    <3>. QED BY <2>1, <3>1
  <2>. QED BY <2>2, <2>3
<1>12. ASSUME NEW m \in M, NEW n \in M, m.id = n.id PROVE m = n
  <2>1. CASE m \in Known /\ n \in Known
    BY <1>1, <1>12, <2>1 DEF NamesInv, OneMeaning
  <2>2. ASSUME NEW x \in Known, NEW i \in DOMAIN ext, i \notin DOMAIN old, x.id = ext[i].id PROVE FALSE
    <3>1. x.id[1] = stream[s].turn /\ x.id[2] = i - 1 /\ last < i /\ i \in Nat
      BY <1>5, <2>2
    <3>. QED BY <1>1, <1>6, <3>1
  <2>3. ASSUME NEW i \in DOMAIN ext, i \notin DOMAIN old, NEW j \in DOMAIN ext, j \notin DOMAIN old,
               ext[i].id = ext[j].id
        PROVE  i = j
    <3>1. i - 1 = j - 1 /\ i \in Nat /\ j \in Nat
      BY <1>5, <2>3
    <3>. QED BY <3>1
  <2>4. CASE m \in Known
    BY <1>9, <1>12, <2>1, <2>2, <2>4
  <2>5. CASE n \in Known
    BY <1>9, <1>12, <2>1, <2>2, <2>5
  <2>6. CASE m \notin Known /\ n \notin Known
    <3>1. PICK i \in DOMAIN ext : i \notin DOMAIN old /\ m = ext[i]
      BY <1>9, <2>6
    <3>2. PICK j \in DOMAIN ext : j \notin DOMAIN old /\ n = ext[j]
      BY <1>9, <2>6
    <3>. QED BY <1>12, <2>3, <3>1, <3>2
  <2>. QED BY <2>4, <2>5, <2>6
<1>13. \A m \in M : m.id[1] = stream[s].turn => m.id[2] < Len(ext)
  <2>1. ASSUME NEW m \in Known, m.id[1] = stream[s].turn PROVE m.id[2] < Len(ext)
    <3>1. m.id[2] \in Nat /\ m.id[2] < last
      BY <1>6, <1>7, <2>1 DEF Texts
    <3>. QED BY <1>1, <1>3, <3>1
  <2>2. ASSUME NEW i \in DOMAIN ext, i \notin DOMAIN old PROVE ext[i].id[2] < Len(ext)
    BY <1>3, <1>5, <2>2
  <2>. QED BY <1>9, <2>1, <2>2
<1>14. ASSUME NEW r \in Streams, r # s PROVE Past(r, M)
  <2>. SUFFICES ASSUME stream[r].stage \in {"opening", "building", "asking"}, NEW m \in M, m.id[1] = stream[r].turn
                PROVE  m.id[2] < Len(stream[r].hist)
    BY DEF Past
  <2>1. stream[r].turn # stream[s].turn
    BY <1>1, <1>14 DEF NamesInv, Apart
  <2>2. m \in Known
    <3>. SUFFICES ASSUME m \notin Known PROVE FALSE
      OBVIOUS
    <3>1. PICK i \in DOMAIN ext : i \notin DOMAIN old /\ m = ext[i]
      BY <1>9
    <3>2. m.id[1] = stream[s].turn
      BY <1>5, <3>1
    <3>. QED BY <2>1, <3>2
  <2>. QED BY <1>1, <2>2 DEF NamesInv, Past
<1>15. Held(ext)
  <2>1. ASSUME NEW i \in DOMAIN ext PROVE WellNamed(ext[i])
    BY <1>2, <1>4, <1>5 DEF Held
  <2>2. ASSUME NEW i \in DOMAIN ext, NEW r \in rows, ext[i].role # "prompt", r.msg.id = ext[i].id PROVE r.msg = ext[i]
    <3>1. r.msg \in M /\ ext[i] \in M
      BY <2>2, KnownIs DEF Spoken
    <3>. QED BY <1>12, <2>2, <3>1
  <2>. QED BY <1>3, <2>1, <2>2 DEF Held
<1>16. OnceIn(ext)
  <2>. SUFFICES ASSUME NEW i \in DOMAIN ext, NEW j \in DOMAIN ext, ext[i].role # "prompt", ext[j].role # "prompt",
                       ext[i].id = ext[j].id
                PROVE  i = j
    BY DEF OnceIn
  <2>1. CASE i \in DOMAIN old /\ j \in DOMAIN old
    BY <1>2, <1>4, <2>1 DEF OnceIn
  <2>2. CASE i \notin DOMAIN old /\ j \notin DOMAIN old
    <3>1. i - 1 = j - 1 /\ i \in Nat /\ j \in Nat
      BY <1>5, <2>2
    <3>. QED BY <3>1
  <2>3. ASSUME NEW x \in DOMAIN old, NEW y \in DOMAIN ext, y \notin DOMAIN old, old[x].role # "prompt",
               old[x].id = ext[y].id
        PROVE  FALSE
    <3>1. old[x] \in Known
      BY <1>8, <2>3
    <3>2. old[x].id[1] = stream[s].turn /\ old[x].id[2] = y - 1 /\ last < y /\ y \in Nat
      BY <1>5, <2>3
    <3>. QED BY <1>1, <1>6, <3>1, <3>2
  <2>. QED BY <1>4, <2>1, <2>2, <2>3
<1>17. ASSUME ~truncated PROVE Conversation(Placed(ext, 0))
  <2>1. Conversation(Placed(old, 0))
    BY <1>1, <1>17 DEF Grouped, old
  <2>2. Conversation(Placed(new, 0))
    <3>1. \A i \in DOMAIN h : h[i].role = "tool" /\ \E c \in a.calls : h[i].calls = {c}
      OBVIOUS
    <3>. QED BY <3>1, RoundConverses DEF new
  <2>. QED BY <1>1, <1>3, <2>1, <2>2, ConcatConverses
<1>. QED BY <1>3, <1>11, <1>12, <1>13, <1>14, <1>15, <1>16, <1>17 DEF OneMeaning


\* Steps that write nothing new: a commit, a packet, an end.
Lessens(s) ==
    LET was == stream[s] IN
    /\ stream'[s].add \in {was.add, {}} /\ stream'[s].drop \in {was.drop, {}}
    /\ stream'[s].hist \in {was.hist, <<>>}
    /\ stream'[s].stage # "idle" => was.stage # "idle" /\ stream'[s].turn = was.turn
                                     /\ stream'[s].hist = was.hist
    /\ stream'[s].stage \in {"opening", "building", "asking"} => was.stage \in {"opening", "building", "asking"}

LEMMA NothingTogether == \A S : KeepsTogether(S, {})
BY DEF KeepsTogether

LEMMA Lessening ==
    ASSUME MemoryInv, MemoryTyped', now' = now, turns' = turns, truncated' = truncated,
           \A s \in Streams : Lessens(s),
           rows' \in SUBSET Written, OncePer(rows'), ~truncated => KeepsTogether(Written, rows')
    PROVE  MemoryInv'
<1>1. MemoryTyped /\ NamesInv /\ Timed /\ (~truncated => Grouped)
  BY DEF MemoryInv
<1>2. ASSUME NEW s \in Streams
      PROVE  /\ stream'[s].add = stream[s].add \/ stream'[s].add = {}
             /\ stream'[s].drop = stream[s].drop \/ stream'[s].drop = {}
             /\ stream'[s].hist = stream[s].hist \/ stream'[s].hist = <<>>
             /\ stream'[s].stage # "idle" => stream[s].stage # "idle" /\ stream'[s].turn = stream[s].turn
                                              /\ stream'[s].hist = stream[s].hist
             /\ stream'[s].stage \in {"opening", "building", "asking"}
                    => stream[s].stage \in {"opening", "building", "asking"}
  BY DEF Lessens
<1>3. Written' \in SUBSET Written
  BY <1>2 DEF Written
<1>4. Known' \in SUBSET Known
  <2>1. \A s \in Streams : Spoken(stream'[s].hist) \subseteq Spoken(stream[s].hist)
    BY <1>2 DEF Spoken
  <2>. QED BY <1>3, <2>1 DEF Known
<1>5. Named(Known', turns') /\ OneMeaning(Known')
  BY <1>1, <1>4 DEF NamesInv, Named, OneMeaning
<1>6. ASSUME NEW s \in Streams PROVE Past(s, Known)'
  <2>1. CASE stream'[s].stage \in {"opening", "building", "asking"}
    <3>1. /\ stream[s].stage \in {"opening", "building", "asking"} /\ stream'[s].turn = stream[s].turn
          /\ stream'[s].hist = stream[s].hist
      BY <1>2, <2>1
    <3>. QED BY <1>1, <1>4, <3>1 DEF NamesInv, Past
  <2>. QED BY <2>1 DEF Past
<1>7. Apart'
  BY <1>1, <1>2 DEF NamesInv, Apart
<1>8. Once'
  <2>1. ASSUME NEW s \in Streams PROVE OncePer(stream'[s].add)
    BY <1>1, <1>2 DEF NamesInv, Once, OncePer
  <2>2. ASSUME NEW s \in Streams PROVE OnceIn(stream'[s].hist)
    <3>1. OnceIn(<<>>)
      BY DEF OnceIn
    <3>. QED BY <1>1, <1>2, <3>1 DEF NamesInv, Once
  <2>. QED BY <2>1, <2>2 DEF Once
<1>9. NamesInv'
  BY <1>5, <1>6, <1>7, <1>8 DEF NamesInv
<1>10. Timed'
  BY <1>1, <1>3 DEF Timed, InOrder
<1>11. ASSUME ~truncated' PROVE Grouped'
  <2>1. Grouped /\ InOrder(Written) /\ Conversation(Written) /\ KeepsTogether(Written, rows')
    BY <1>1, <1>11 DEF Grouped, Timed
  <2>2. ASSUME NEW s \in Streams
        PROVE KeepsTogether(Written, stream'[s].add) /\ KeepsTogether(Written, stream'[s].drop)
    BY <1>2, <2>1, NothingTogether DEF Grouped
  <2>3. KeepsTogether(Written, Written')
    <3>1. KeepsTogether(Written, UNION {stream'[s].add : s \in Streams})
      BY <2>2, KeptUnion
    <3>2. KeepsTogether(Written, rows' \cup UNION {stream'[s].add : s \in Streams})
      BY <2>1, <3>1, KeptBoth
    <3>. QED BY <3>2 DEF Written
  <2>4. Conversation(Written')
    BY <1>3, <2>1, <2>3, PartConverses
  <2>5. \A X : KeepsTogether(Written, X) => KeepsTogether(Written', X)
    BY <1>3, <2>1, <2>3, KeptInPart
  <2>6. Conversation(Placed(<<>>, 0))
    BY DEF Conversation, AnswersCalled, CallsAnswered, Placed
  <2>7. ASSUME NEW s \in Streams
        PROVE  (\A r \in stream'[s].drop : r.at <= now') /\ Conversation(Placed(stream'[s].hist, 0))
    BY <1>2, <2>1, <2>6 DEF Grouped
  <2>. QED BY <2>1, <2>2, <2>4, <2>5, <2>7 DEF Grouped
<1>. QED BY <1>9, <1>10, <1>11 DEF MemoryInv

LEMMA FailStep ==
    ASSUME MemoryInv, NEW s \in Streams, Memory!Fail(s)
    PROVE  MemoryInv'
<1>1. MemoryTyped
  BY DEF MemoryInv
<1>2. PICK A : stream \in [Streams -> TurnRecords(A)]
  BY <1>1 DEF MemoryTyped
<1>3. /\ stream' = [stream EXCEPT ![s] = Memory!Idle] /\ rows' = rows /\ now' = now /\ turns' = turns
      /\ truncated' = truncated
  BY DEF Memory!Fail
<1>4. stream' \in [Streams -> TurnRecords(A \cup {{}})]
  <2>1. Memory!Idle \in TurnRecords(A \cup {{}})
    BY DEF Memory!Idle, TurnRecords
  <2>2. \A r \in Streams : stream[r] \in TurnRecords(A \cup {{}})
    BY <1>2 DEF TurnRecords
  <2>. QED BY <1>2, <1>3, <2>1, <2>2
<1>5. stream'[s] = Memory!Idle /\ \A r \in Streams : r # s => stream'[r] = stream[r]
  BY <1>2, <1>3
<1>6. MemoryTyped'
  BY <1>1, <1>3, <1>4, <1>5, FS_EmptySet DEF MemoryTyped, Memory!Idle
<1>7. \A r \in Streams : Lessens(r)
  BY <1>5 DEF Lessens, Memory!Idle
<1>8. rows' \in SUBSET Written /\ OncePer(rows') /\ (~truncated => KeepsTogether(Written, rows'))
  BY <1>3 DEF MemoryInv, NamesInv, Once, Grouped, Written
<1>. QED BY <1>3, <1>6, <1>7, <1>8, Lessening

LEMMA BuildStep ==
    ASSUME MemoryInv, NEW s \in Streams, Memory!BuildTurn(s)
    PROVE  MemoryInv'
<1>1. MemoryTyped
  BY DEF MemoryInv
<1>2. PICK A : stream \in [Streams -> TurnRecords(A)]
  BY <1>1 DEF MemoryTyped
<1>3. /\ stream[s].stage = "building" /\ rows' = rows /\ now' = now /\ turns' = turns
      /\ truncated' = truncated
  BY DEF Memory!BuildTurn
<1>4. PICK allow : stream' = [stream EXCEPT ![s].stage = "asking", ![s].step = @ + 1, ![s].allow = allow]
  BY DEF Memory!BuildTurn
<1>5. /\ DOMAIN stream' = Streams
      /\ stream'[s] = [stream[s] EXCEPT !.stage = "asking", !.step = @ + 1, !.allow = allow]
      /\ \A r \in Streams : r # s => stream'[r] = stream[r]
  BY <1>2, <1>4
<1>6. /\ stream'[s] \in TurnRecords(A \cup {allow}) /\ stream'[s].stage = "asking"
      /\ stream'[s].hist = stream[s].hist /\ stream'[s].add = stream[s].add /\ stream'[s].drop = stream[s].drop
      /\ stream'[s].turn = stream[s].turn
  <2>1. stream[s] \in TurnRecords(A)
    BY <1>2
  <2>2. PICK t : t = stream[s]
    OBVIOUS
  <2>3. t \in TurnRecords(A)
    BY <2>1, <2>2
  <2>4. PICK b : b = [t EXCEPT !.stage = "asking", !.step = @ + 1, !.allow = allow]
    OBVIOUS
  <2>5. /\ b \in TurnRecords(A \cup {allow}) /\ b.stage = "asking" /\ b.hist = t.hist /\ b.add = t.add
        /\ b.drop = t.drop /\ b.turn = t.turn
    <3>1. b = [stage |-> "asking", hist |-> t.hist, add |-> t.add, drop |-> t.drop, allow |-> allow,
               step |-> t.step + 1, turn |-> t.turn]
      BY <2>3, <2>4 DEF TurnRecords
    <3>2. /\ t.hist \in Seq(Texts) /\ t.add \in SUBSET TextRows /\ t.drop \in SUBSET TextRows
          /\ t.step + 1 \in Nat /\ t.turn \in Nat
      BY <2>3 DEF TurnRecords
    <3>. QED BY <3>1, <3>2 DEF TurnRecords
  <2>. QED BY <1>5, <2>2, <2>4, <2>5
<1>7. stream' \in [Streams -> TurnRecords(A \cup {allow})]
  <2>1. \A r \in Streams : stream[r] \in TurnRecords(A \cup {allow})
    BY <1>2 DEF TurnRecords
  <2>2. \A r \in Streams : stream'[r] \in TurnRecords(A \cup {allow})
    BY <1>5, <1>6, <2>1
  <2>. QED BY <1>2, <1>4, <2>2
<1>8. MemoryTyped'
  <2>1. ASSUME NEW r \in Streams
        PROVE  /\ IsFiniteSet(stream'[r].add)
               /\ stream'[r].stage = "idle" => stream'[r].hist = <<>>
               /\ stream'[r].stage \notin {"opening", "closing"} => stream'[r].add = {} /\ stream'[r].drop = {}
    BY <1>1, <1>3, <1>5, <1>6 DEF MemoryTyped
  <2>. QED BY <1>1, <1>3, <1>7, <2>1 DEF MemoryTyped
<1>9. \A r \in Streams : Lessens(r)
  BY <1>3, <1>5, <1>6 DEF Lessens
<1>10. rows' \in SUBSET Written /\ OncePer(rows') /\ (~truncated => KeepsTogether(Written, rows'))
  BY <1>3 DEF MemoryInv, NamesInv, Once, Grouped, Written
<1>. QED BY <1>3, <1>8, <1>9, <1>10, Lessening

LEMMA CommitStep ==
    ASSUME MemoryInv, NEW s \in Streams, Memory!CommitSave(s)
    PROVE  MemoryInv'
<1>1. MemoryTyped /\ NamesInv /\ Timed /\ (~truncated => Grouped)
  BY DEF MemoryInv
<1>2. PICK A : stream \in [Streams -> TurnRecords(A)]
  BY <1>1 DEF MemoryTyped
<1>3. now' = now /\ turns' = turns /\ truncated' = truncated /\ stream[s].stage \in {"opening", "closing"}
  BY DEF Memory!CommitSave
<1> DEFINE T == rows \cup stream[s].add
<1>4. CASE stream' = [stream EXCEPT ![s] = Memory!Idle] /\ rows' = rows
  <2>1. stream' \in [Streams -> TurnRecords(A \cup {{}})]
    <3>1. Memory!Idle \in TurnRecords(A \cup {{}})
      BY DEF Memory!Idle, TurnRecords
    <3>2. \A r \in Streams : stream[r] \in TurnRecords(A \cup {{}})
      BY <1>2 DEF TurnRecords
    <3>. QED BY <1>2, <1>4, <3>1, <3>2
  <2>2. stream'[s] = Memory!Idle /\ \A r \in Streams : r # s => stream'[r] = stream[r]
    BY <1>2, <1>4
  <2>3. MemoryTyped'
    BY <1>1, <1>3, <1>4, <2>1, <2>2, FS_EmptySet DEF MemoryTyped, Memory!Idle
  <2>4. \A r \in Streams : Lessens(r)
    BY <2>2 DEF Lessens, Memory!Idle
  <2>5. rows' \in SUBSET Written /\ OncePer(rows') /\ (~truncated => KeepsTogether(Written, rows'))
    BY <1>1, <1>4 DEF NamesInv, Once, Grouped, Written
  <2>. QED BY <1>3, <2>3, <2>4, <2>5, Lessening
<1>5. CASE /\ \A r \in stream[s].add : r.msg.id \notin Memory!Ids
           /\ \E drop \in {stream[s].drop, Memory!Trim(T)} : rows' = T \ drop
           /\ stream' = [stream EXCEPT ![s] =
                IF @.stage = "opening"
                THEN [@ EXCEPT !.stage = "building", !.add = {}, !.drop = {}]
                ELSE Memory!Idle]
  <2>1. PICK drop \in {stream[s].drop, Memory!Trim(T)} : rows' = T \ drop
    BY <1>5
  <2>2. /\ stream[s].add \in SUBSET TextRows /\ IsFiniteSet(stream[s].add)
        /\ rows \in SUBSET TextRows /\ IsFiniteSet(rows) /\ T \in SUBSET Written
    BY <1>1, TurnTyped DEF MemoryTyped, Written
  <2>3. IsFiniteSet(T) /\ OncePer(T) /\ \A r \in T : r.msg \in Texts /\ WellNamed(r.msg)
    <3>1. \A r \in rows, q \in stream[s].add : r.msg.id # q.msg.id
      BY <1>5 DEF Memory!Ids
    <3>2. OncePer(T)
      BY <1>1, <3>1 DEF NamesInv, Once, OncePer
    <3>3. \A r \in T : r.msg \in Known
      BY KnownIs
    <3>. QED BY <1>1, <2>2, <3>2, <3>3, FS_Union DEF NamesInv, Named
  <2>4. rows' \in SUBSET TextRows /\ IsFiniteSet(rows') /\ rows' \in SUBSET Written /\ OncePer(rows')
    BY <2>1, <2>2, <2>3, FS_Subset DEF OncePer
  <2>5. ASSUME ~truncated PROVE KeepsTogether(Written, rows')
    <3>1. InOrder(Written) /\ Conversation(Written) /\ KeepsTogether(Written, T)
      BY <1>1, <2>5, KeptBoth DEF Grouped, Timed
    <3>2. InOrder(T) /\ Conversation(T)
      BY <2>2, <3>1, PartConverses
    <3>3. Memory!Trim(T) \in SUBSET T /\ KeepsTogether(T, Memory!Trim(T))
      BY <2>3, <3>2, TrimKeepsTogether, MemoryAssumption
    <3>4. KeepsTogether(Written, Memory!Trim(T))
      BY <2>2, <3>1, <3>3, KeptInWhole
    <3>5. KeepsTogether(Written, drop)
      BY <1>1, <2>1, <2>5, <3>4 DEF Grouped
    <3>. QED BY <2>1, <3>1, <3>5, KeptBoth
  <2> DEFINE turn == IF stream[s].stage = "opening"
                     THEN [stream[s] EXCEPT !.stage = "building", !.add = {}, !.drop = {}]
                     ELSE Memory!Idle
  <2>6. /\ turn \in TurnRecords(A \cup {{}}) /\ turn.add = {} /\ turn.drop = {}
        /\ \/ /\ turn.stage = "building" /\ turn.hist = stream[s].hist /\ turn.turn = stream[s].turn
              /\ stream[s].stage = "opening"
           \/ turn.stage = "idle" /\ turn.hist = <<>>
    <3>1. stream[s] \in TurnRecords(A)
      BY <1>2
    <3>2. CASE stream[s].stage = "opening"
      BY <3>1, <3>2 DEF TurnRecords
    <3>3. CASE stream[s].stage # "opening"
      BY <3>3 DEF Memory!Idle, TurnRecords
    <3>. QED BY <3>2, <3>3
  <2>7. stream' = [stream EXCEPT ![s] = turn]
    BY <1>2, <1>5
  <2>. HIDE DEF turn
  <2>8. stream'[s] = turn /\ \A r \in Streams : r # s => stream'[r] = stream[r]
    BY <1>2, <2>7
  <2>9. stream' \in [Streams -> TurnRecords(A \cup {{}})]
    <3>1. \A r \in Streams : stream[r] \in TurnRecords(A \cup {{}})
      BY <1>2 DEF TurnRecords
    <3>. QED BY <1>2, <2>6, <2>7, <3>1
  <2>10. MemoryTyped'
    <3>1. ASSUME NEW r \in Streams
          PROVE  /\ IsFiniteSet(stream'[r].add)
                 /\ stream'[r].stage = "idle" => stream'[r].hist = <<>>
                 /\ stream'[r].stage \notin {"opening", "closing"} => stream'[r].add = {} /\ stream'[r].drop = {}
      BY <1>1, <2>6, <2>8, FS_EmptySet DEF MemoryTyped
    <3>. QED BY <1>1, <1>3, <2>4, <2>9, <3>1 DEF MemoryTyped
  <2>11. \A r \in Streams : Lessens(r)
    BY <2>6, <2>8 DEF Lessens
  <2>. QED BY <1>3, <2>4, <2>5, <2>10, <2>11, Lessening
<1>. QED BY <1>4, <1>5 DEF Memory!CommitSave


LEMMA TrimIsPart == \A T : Memory!Trim(T) \in SUBSET T
BY DEF Memory!Trim

LEMMA SaveTyped ==
    ASSUME MemoryInv, NEW s \in Streams, NEW A, stream \in [Streams -> TurnRecords(A)],
           NEW h, Held(h), rows' = rows, now' = now + Len(h), turns' \in Nat,
           NEW at \in {"opening", "closing"}, NEW hist \in Seq(Texts), NEW allow \in A, NEW step \in Nat,
           NEW number \in Nat,
           stream' = [stream EXCEPT ![s] =
               [stage |-> at, hist |-> hist, add |-> Memory!NewRows(h), drop |-> Memory!Trim(rows \cup Memory!NewRows(h)),
                allow |-> allow, step |-> step, turn |-> number]]
    PROVE  MemoryTyped'
<1> DEFINE turn == [stage |-> at, hist |-> hist, add |-> Memory!NewRows(h), drop |-> Memory!Trim(rows \cup Memory!NewRows(h)),
                    allow |-> allow, step |-> step, turn |-> number]
<1>1. MemoryTyped /\ now \in Nat /\ Len(h) \in Nat
  BY DEF MemoryInv, MemoryTyped, Held
<1>2. IsFiniteSet(Memory!NewRows(h)) /\ Memory!NewRows(h) \in SUBSET TextRows
  <2>1. Memory!NewRows(h) \in SUBSET Placed(h, now) /\ IsFiniteSet(Memory!NewRows(h))
    BY <1>1, NewRowsPlaced
  <2>2. h \in Seq(Texts)
    BY DEF Held
  <2>3. Placed(h, now) \in SUBSET TextRows
    BY <1>1, <2>2 DEF Placed, TextRows
  <2>. QED BY <2>1, <2>3
<1>3. Memory!Trim(rows \cup Memory!NewRows(h)) \in SUBSET TextRows
  BY <1>1, <1>2, TrimIsPart DEF MemoryTyped
<1>4. turn \in TurnRecords(A)
  BY <1>2, <1>3 DEF TurnRecords
<1>. HIDE DEF turn
<1>5. stream' = [stream EXCEPT ![s] = turn]
  BY DEF turn
<1>6. stream' \in [Streams -> TurnRecords(A)]
  BY <1>4, <1>5
<1>7. ASSUME NEW r \in Streams
      PROVE  /\ IsFiniteSet(stream'[r].add)
             /\ stream'[r].stage = "idle" => stream'[r].hist = <<>>
             /\ stream'[r].stage \notin {"opening", "closing"} => stream'[r].add = {} /\ stream'[r].drop = {}
  <2>1. CASE r = s
    <3>1. stream'[r] = turn
      BY <1>5, <2>1
    <3>2. stream'[r].add = Memory!NewRows(h) /\ stream'[r].stage = at
      BY <3>1 DEF turn
    <3>. QED BY <1>2, <3>2
  <2>2. CASE r # s
    BY <1>1, <1>5, <2>2 DEF MemoryTyped
  <2>. QED BY <2>1, <2>2
<1>8. now' \in Nat /\ rows' \in SUBSET TextRows /\ IsFiniteSet(rows')
  BY <1>1 DEF MemoryTyped
<1>. QED BY <1>6, <1>7, <1>8 DEF MemoryTyped

LEMMA NewRowsSpoken ==
    ASSUME now \in Nat, NEW h, Held(h)
    PROVE  \A r \in Memory!NewRows(h) : r.msg \in Spoken(h)
<1>1. ASSUME NEW r \in Memory!NewRows(h) PROVE \E i \in DOMAIN h : r.msg = h[i] /\ h[i].role # "prompt"
  BY NewRowsPlaced
<1>. QED BY <1>1 DEF Spoken

LEMMA NamesAfter ==
    ASSUME MemoryInv, NEW s \in Streams, stream[s].stage = "asking", NEW ext,
           Named(Known \cup Spoken(ext), turns), OneMeaning(Known \cup Spoken(ext)),
           \A r \in Streams : r # s => Past(r, Known \cup Spoken(ext)),
           \A m \in Known \cup Spoken(ext) : m.id[1] = stream[s].turn => m.id[2] < Len(ext),
           turns' = turns, rows' = rows, \A r \in Streams : r # s => stream'[r] = stream[r],
           stream'[s].turn = stream[s].turn, OncePer(stream'[s].add), OnceIn(stream'[s].hist),
           Known' \in SUBSET (Known \cup Spoken(ext)),
           stream'[s].stage = "closing" \/ (stream'[s].stage = "building" /\ stream'[s].hist = ext)
    PROVE  NamesInv'
<1> DEFINE M == Known \cup Spoken(ext)
<1>1. NamesInv
  BY DEF MemoryInv
<1>2. Named(Known', turns') /\ OneMeaning(Known')
  BY DEF Named, OneMeaning
<1>3. ASSUME NEW r \in Streams PROVE Past(r, Known)'
  <2>1. CASE r = s
    BY <2>1 DEF Past
  <2>2. CASE r # s
    <3>1. stream'[r] = stream[r] /\ Past(r, M)
      BY <2>2
    <3>. HIDE DEF M
    <3>2. Known' \subseteq M
      BY DEF M
    <3>. QED BY <3>1, <3>2 DEF Past
  <2>. QED BY <2>1, <2>2
<1>4. \A r \in Streams : (stream'[r].stage # "idle" => stream[r].stage # "idle") /\ stream'[r].turn = stream[r].turn
  OBVIOUS
<1>5. Apart'
  BY <1>1, <1>4 DEF NamesInv, Apart
<1>6. Once'
  BY <1>1 DEF NamesInv, Once
<1>. QED BY <1>2, <1>3, <1>5, <1>6 DEF NamesInv

LEMMA FinalStep ==
    ASSUME MemoryInv, NEW s \in Streams, Memory!AnswerFinal(s)
    PROVE  MemoryInv'
<1> DEFINE final == Memory!Message(Memory!NextId(stream[s]), "assistant", {})
           ext == Append(stream[s].hist, final)
           turn == [stream[s] EXCEPT !.stage = "closing", !.add = Memory!NewRows(ext), !.drop = Memory!Trim(rows \cup Memory!NewRows(ext))]
<1>1. MemoryTyped
  BY DEF MemoryInv
<1>2. PICK A : stream \in [Streams -> TurnRecords(A)]
  BY <1>1 DEF MemoryTyped
<1>3. /\ stream[s].stage = "asking" /\ rows' = rows /\ turns' = turns /\ truncated' = truncated
      /\ now' = now + Len(ext) /\ stream' = [stream EXCEPT ![s] = turn]
  BY DEF Memory!AnswerFinal, Memory!Save
<1>4. /\ stream[s].hist \in Seq(Texts) /\ Len(stream[s].hist) \in Nat /\ stream[s].turn \in Nat /\ stream[s].add = {}
  BY <1>1, <1>3, TurnTyped
<1>5. /\ final \in Texts /\ WellNamed(final) /\ final.role = "assistant" /\ final.calls = {}
      /\ final.id = <<stream[s].turn, Len(stream[s].hist)>>
  BY <1>4 DEF Memory!Message, Memory!NextId, Texts, WellNamed
<1>. HIDE DEF final
<1>6. ext = Append(stream[s].hist, final) \o <<>> /\ <<>> \in Seq(Texts) /\ DOMAIN (<<>>) = {}
  BY <1>4, <1>5
<1>. HIDE DEF ext
<1>7. /\ Held(ext) /\ OnceIn(ext) /\ Len(ext) \in Nat
      /\ ~truncated => Conversation(Placed(ext, 0))
      /\ Named(Known \cup Spoken(ext), turns) /\ OneMeaning(Known \cup Spoken(ext))
      /\ \A r \in Streams : r # s => Past(r, Known \cup Spoken(ext))
      /\ \A m \in Known \cup Spoken(ext) : m.id[1] = stream[s].turn => m.id[2] < Len(ext)
  <2>1. /\ \A i \in DOMAIN (<<>>) :
              /\ WellNamed((<<>>)[i]) /\ (<<>>)[i].role = "tool"
              /\ (<<>>)[i].id = <<stream[s].turn, Len(stream[s].hist) + i>>
              /\ \E c \in final.calls : (<<>>)[i].calls = {c}
        /\ \A c \in final.calls : \E i \in DOMAIN (<<>>) : (<<>>)[i].calls = {c}
    BY <1>5, <1>6
  <2>. QED BY <1>3, <1>5, <1>6, <2>1, Extending
<1>8. PICK t : t = stream[s]
  OBVIOUS
<1>9. t \in TurnRecords(A)
  BY <1>2, <1>8
<1>10. turn = [stage |-> "closing", hist |-> t.hist, add |-> Memory!NewRows(ext), drop |-> Memory!Trim(rows \cup Memory!NewRows(ext)),
               allow |-> t.allow, step |-> t.step, turn |-> t.turn]
  <2>1. PICK n : n = Memory!NewRows(ext)
    OBVIOUS
  <2>2. PICK d : d = Memory!Trim(rows \cup Memory!NewRows(ext))
    OBVIOUS
  <2>3. PICK b : b = [t EXCEPT !.stage = "closing", !.add = n, !.drop = d]
    OBVIOUS
  <2>4. b = [stage |-> "closing", hist |-> t.hist, add |-> n, drop |-> d, allow |-> t.allow,
             step |-> t.step, turn |-> t.turn]
    BY <1>9, <2>3 DEF TurnRecords
  <2>. QED BY <1>8, <2>1, <2>2, <2>3, <2>4
<1>11. t.hist \in Seq(Texts) /\ t.allow \in A /\ t.step \in Nat /\ t.turn \in Nat
  BY <1>9 DEF TurnRecords
<1>. HIDE DEF turn
<1>12. MemoryTyped'
  <2>1. turns' \in Nat
    BY <1>1, <1>3 DEF MemoryTyped
  <2>. QED BY <1>2, <1>3, <1>7, <1>10, <1>11, <2>1, SaveTyped
<1>13. /\ turn.add = Memory!NewRows(ext) /\ turn.drop = Memory!Trim(rows \cup Memory!NewRows(ext)) /\ turn.hist = stream[s].hist
       /\ turn.turn = stream[s].turn /\ turn.stage = "closing"
  BY <1>8, <1>10
<1>14. stream'[s] = turn /\ \A r \in Streams : r # s => stream'[r] = stream[r]
  BY <1>2, <1>3
<1>15. ~truncated => Conversation(Placed(stream[s].hist, 0))
  BY DEF MemoryInv, Grouped
<1>16. Written' = Written \cup Memory!NewRows(ext) /\ Timed' /\ (~truncated' => Grouped')
  BY <1>3, <1>4, <1>7, <1>13, <1>15, Saving
<1>17. Known' \in SUBSET (Known \cup Spoken(ext))
  <2>1. \A r \in Memory!NewRows(ext) : r.msg \in Spoken(ext)
    BY <1>1, <1>7, NewRowsSpoken DEF MemoryTyped
  <2>2. \A r \in Streams : Spoken(stream'[r].hist) = Spoken(stream[r].hist)
    BY <1>13, <1>14
  <2>. QED BY <1>16, <2>1, <2>2 DEF Known
<1>18. OncePer(Memory!NewRows(ext)) /\ OnceIn(stream[s].hist)
  BY <1>1, <1>7, NewRowsPlaced DEF MemoryTyped, MemoryInv, NamesInv, Once
<1>19. NamesInv'
  BY <1>3, <1>7, <1>13, <1>14, <1>17, <1>18, NamesAfter
<1>. QED BY <1>12, <1>16, <1>19 DEF MemoryInv


LEMMA RoundStep ==
    ASSUME MemoryInv, NEW s \in Streams, NEW batch \in Batches, Memory!Round(s, batch)
    PROVE  MemoryInv'
<1> DEFINE order == [i \in DOMAIN batch |-> <<stream[s].turn, Len(stream[s].hist), i>>]
           answer == Memory!Message(Memory!NextId(stream[s]), "assistant", Memory!ToSet(order))
           answers == [i \in DOMAIN batch |->
                          Memory!Message(<<stream[s].turn, Len(stream[s].hist) + i>>, "tool", {order[i]})]
           ext == Append(stream[s].hist, answer) \o answers
           after == [stream[s] EXCEPT !.hist = ext]
           closing == [after EXCEPT !.stage = "closing", !.add = Memory!NewRows(after.hist),
                                    !.drop = Memory!Trim(rows \cup Memory!NewRows(after.hist))]
           goesOn == [after EXCEPT !.stage = "building"]
<1>1. MemoryTyped
  BY DEF MemoryInv
<1>2. PICK A : stream \in [Streams -> TurnRecords(A)]
  BY <1>1 DEF MemoryTyped
<1>3. stream[s].stage = "asking" /\ rows' = rows /\ turns' = turns /\ truncated' = truncated
  BY DEF Memory!Round
<1>4. \/ now' = now + Len(after.hist) /\ stream' = [stream EXCEPT ![s] = closing]
      \/ now' = now /\ stream' = [stream EXCEPT ![s] = goesOn]
  BY DEF Memory!Round, Memory!Save
<1>5. /\ stream[s].hist \in Seq(Texts) /\ Len(stream[s].hist) \in Nat /\ stream[s].turn \in Nat /\ stream[s].add = {}
      /\ stream[s].drop = {}
  BY <1>1, <1>3, TurnTyped
<1>6. /\ DOMAIN batch = 1..Len(batch) /\ Len(batch) \in Nat
      /\ order \in [1..Len(batch) -> Nat \X Nat \X Nat]
  <2>1. batch \in Seq(Sources \cup {Search})
    BY MemoryAssumption
  <2>2. DOMAIN batch = 1..Len(batch) /\ Len(batch) \in Nat
    BY <2>1
  <2>. QED BY <1>5, <2>2
<1>7. ASSUME NEW c \in Memory!ToSet(order)
      PROVE  \E i \in 1..Len(batch) : c = order[i] /\ c = <<stream[s].turn, Len(stream[s].hist), i>>
  BY <1>6, <1>7 DEF Memory!ToSet
<1>8. /\ answer \in Texts /\ WellNamed(answer) /\ answer.role = "assistant" /\ answer.calls = Memory!ToSet(order)
      /\ answer.id = <<stream[s].turn, Len(stream[s].hist)>>
  <2>1. Memory!ToSet(order) \in SUBSET (Nat \X Nat \X Nat)
    BY <1>6 DEF Memory!ToSet
  <2>2. \A c \in Memory!ToSet(order) : c[1] = stream[s].turn /\ c[2] = Len(stream[s].hist)
    BY <1>7
  <2>. HIDE DEF order
  <2>. QED BY <1>5, <2>1, <2>2 DEF Memory!Message, Memory!NextId, Texts, WellNamed
<1>9. answers \in Seq(Texts) /\ DOMAIN answers = 1..Len(batch)
  <2>1. ASSUME NEW i \in 1..Len(batch)
        PROVE  Memory!Message(<<stream[s].turn, Len(stream[s].hist) + i>>, "tool", {order[i]}) \in Texts
    <3>1. order[i] \in Nat \X Nat \X Nat
      BY <1>6
    <3>. HIDE DEF order
    <3>. QED BY <1>5, <3>1 DEF Memory!Message, Texts
  <2>. QED BY <1>6, <2>1
<1>10. ASSUME NEW i \in DOMAIN answers
       PROVE  /\ WellNamed(answers[i]) /\ answers[i].role = "tool"
              /\ answers[i].id = <<stream[s].turn, Len(stream[s].hist) + i>>
              /\ answers[i].calls = {order[i]} /\ order[i] \in answer.calls
  <2>1. i \in 1..Len(batch) /\ i \in Nat /\ answers[i] = Memory!Message(<<stream[s].turn, Len(stream[s].hist) + i>>, "tool", {order[i]})
    BY <1>6, <1>9
  <2>2. order[i] = <<stream[s].turn, Len(stream[s].hist), i>>
    BY <1>6, <2>1
  <2>3. order[i] \in Memory!ToSet(order)
    BY <1>6, <2>1 DEF Memory!ToSet
  <2>4. /\ answers[i].role = "tool" /\ answers[i].calls = {order[i]}
        /\ answers[i].id = <<stream[s].turn, Len(stream[s].hist) + i>>
    BY <2>1 DEF Memory!Message
  <2>5. WellNamed(answers[i])
    <3>. HIDE DEF order, answers
    <3>1. PICK m : m = answers[i]
      OBVIOUS
    <3>2. m.role = "tool" /\ m.calls = {<<m.id[1], Len(stream[s].hist), i>>} /\ m.id[2] = Len(stream[s].hist) + i
      BY <2>2, <2>4, <3>1
    <3>3. WellNamed(m)
      BY <1>5, <2>1, <3>2 DEF WellNamed
    <3>. QED BY <3>1, <3>3
  <2>. QED BY <1>8, <2>3, <2>4, <2>5
<1>11. ASSUME NEW c \in answer.calls PROVE \E i \in DOMAIN answers : answers[i].calls = {c}
  <2>1. PICK i \in 1..Len(batch) : c = order[i]
    BY <1>7, <1>8
  <2>2. i \in DOMAIN answers
    BY <1>9
  <2>. QED BY <1>10, <2>1, <2>2
<1>. HIDE DEF order, answer, answers
<1>12. ext \in Seq(Texts)
  BY <1>5, <1>8, <1>9, Extension
<1>13. ext = Append(stream[s].hist, answer) \o answers
  OBVIOUS
<1>. HIDE DEF ext
<1>14. /\ Held(ext) /\ OnceIn(ext) /\ Len(ext) \in Nat
       /\ ~truncated => Conversation(Placed(ext, 0))
       /\ Named(Known \cup Spoken(ext), turns) /\ OneMeaning(Known \cup Spoken(ext))
       /\ \A r \in Streams : r # s => Past(r, Known \cup Spoken(ext))
       /\ \A m \in Known \cup Spoken(ext) : m.id[1] = stream[s].turn => m.id[2] < Len(ext)
  <2>1. \A i \in DOMAIN answers :
              /\ WellNamed(answers[i]) /\ answers[i].role = "tool"
              /\ answers[i].id = <<stream[s].turn, Len(stream[s].hist) + i>>
              /\ \E c \in answer.calls : answers[i].calls = {c}
    BY <1>10
  <2>. QED BY <1>3, <1>8, <1>9, <1>11, <1>13, <2>1, Extending
<1>15. PICK t : t = stream[s]
  OBVIOUS
<1>16. t \in TurnRecords(A) /\ t.hist \in Seq(Texts) /\ t.allow \in A /\ t.step \in Nat /\ t.turn \in Nat
  BY <1>2, <1>15 DEF TurnRecords
<1>17. /\ after \in TurnRecords(A) /\ after.hist = ext /\ after.allow = t.allow /\ after.step = t.step
       /\ after.turn = t.turn /\ after.add = t.add /\ after.drop = t.drop
  <2>1. PICK b : b = [t EXCEPT !.hist = ext]
    OBVIOUS
  <2>2. b \in TurnRecords(A) /\ b.hist = ext /\ b.allow = t.allow /\ b.step = t.step /\ b.turn = t.turn
        /\ b.add = t.add /\ b.drop = t.drop
    BY <1>12, <1>16, <2>1 DEF TurnRecords
  <2>. QED BY <1>15, <2>1, <2>2
<1>18. closing = [stage |-> "closing", hist |-> ext, add |-> Memory!NewRows(ext), drop |-> Memory!Trim(rows \cup Memory!NewRows(ext)),
                  allow |-> t.allow, step |-> t.step, turn |-> t.turn]
  <2>1. PICK n : n = Memory!NewRows(ext)
    OBVIOUS
  <2>2. PICK d : d = Memory!Trim(rows \cup Memory!NewRows(ext))
    OBVIOUS
  <2>3. PICK u : u = after
    OBVIOUS
  <2>. HIDE DEF after
  <2>4. PICK b : b = [u EXCEPT !.stage = "closing", !.add = n, !.drop = d]
    OBVIOUS
  <2>5. u \in TurnRecords(A)
    BY <1>17, <2>3
  <2>6. b = [stage |-> "closing", hist |-> u.hist, add |-> n, drop |-> d, allow |-> u.allow,
             step |-> u.step, turn |-> u.turn]
    BY <2>4, <2>5 DEF TurnRecords
  <2>. QED BY <1>17, <2>1, <2>2, <2>3, <2>4, <2>6
<1>19. goesOn = [stage |-> "building", hist |-> ext, add |-> t.add, drop |-> t.drop,
                 allow |-> t.allow, step |-> t.step, turn |-> t.turn]
  <2>1. PICK u : u = after
    OBVIOUS
  <2>. HIDE DEF after
  <2>2. PICK b : b = [u EXCEPT !.stage = "building"]
    OBVIOUS
  <2>3. u \in TurnRecords(A)
    BY <1>17, <2>1
  <2>4. b = [stage |-> "building", hist |-> u.hist, add |-> u.add, drop |-> u.drop, allow |-> u.allow,
             step |-> u.step, turn |-> u.turn]
    BY <2>2, <2>3 DEF TurnRecords
  <2>. QED BY <1>17, <2>1, <2>2, <2>4
<1>20. CASE now' = now + Len(after.hist) /\ stream' = [stream EXCEPT ![s] = closing]
  <2>1. now' = now + Len(ext)
    BY <1>17, <1>20
  <2>. HIDE DEF closing, after
  <2>2. MemoryTyped'
    <3>1. turns' \in Nat
      BY <1>1, <1>3 DEF MemoryTyped
    <3>. QED BY <1>2, <1>3, <1>12, <1>14, <1>16, <1>18, <1>20, <2>1, <3>1, SaveTyped
  <2>3. /\ closing.add = Memory!NewRows(ext) /\ closing.drop = Memory!Trim(rows \cup Memory!NewRows(ext)) /\ closing.hist = ext
        /\ closing.turn = stream[s].turn /\ closing.stage = "closing"
    BY <1>15, <1>18
  <2>4. stream'[s] = closing /\ \A r \in Streams : r # s => stream'[r] = stream[r]
    BY <1>2, <1>20
  <2>5. Written' = Written \cup Memory!NewRows(ext) /\ Timed' /\ (~truncated' => Grouped')
    BY <1>3, <1>5, <1>14, <1>20, <2>1, <2>3, Saving
  <2>6. Known' \in SUBSET (Known \cup Spoken(ext))
    <3>1. \A r \in Memory!NewRows(ext) : r.msg \in Spoken(ext)
      BY <1>1, <1>14, NewRowsSpoken DEF MemoryTyped
    <3>2. \A r \in Streams : Spoken(stream'[r].hist) \subseteq Spoken(stream[r].hist) \cup Spoken(ext)
      BY <2>3, <2>4
    <3>. QED BY <2>5, <3>1, <3>2 DEF Known
  <2>7. OncePer(Memory!NewRows(ext))
    BY <1>1, <1>14, NewRowsPlaced DEF MemoryTyped
  <2>8. NamesInv'
    BY <1>3, <1>14, <2>3, <2>4, <2>6, <2>7, NamesAfter
  <2>. QED BY <2>2, <2>5, <2>8 DEF MemoryInv
<1>21. CASE now' = now /\ stream' = [stream EXCEPT ![s] = goesOn]
  <2>1. goesOn \in TurnRecords(A)
    BY <1>12, <1>16, <1>19 DEF TurnRecords
  <2>2. /\ goesOn.add = {} /\ goesOn.drop = {} /\ goesOn.hist = ext
        /\ goesOn.turn = stream[s].turn /\ goesOn.stage = "building"
    BY <1>5, <1>15, <1>19
  <2>. HIDE DEF goesOn, after
  <2>3. stream'[s] = goesOn /\ (\A r \in Streams : r # s => stream'[r] = stream[r])
        /\ stream' \in [Streams -> TurnRecords(A)]
    BY <1>2, <1>21, <2>1
  <2>4. MemoryTyped'
    <3>1. ASSUME NEW r \in Streams
          PROVE  /\ IsFiniteSet(stream'[r].add)
                 /\ stream'[r].stage = "idle" => stream'[r].hist = <<>>
                 /\ stream'[r].stage \notin {"opening", "closing"} => stream'[r].add = {} /\ stream'[r].drop = {}
      BY <1>1, <2>2, <2>3, FS_EmptySet DEF MemoryTyped
    <3>. QED BY <1>1, <1>3, <1>21, <2>3, <3>1 DEF MemoryTyped
  <2>5. \A r \in Streams : stream'[r].add = stream[r].add /\ stream'[r].drop = stream[r].drop
    BY <1>5, <2>2, <2>3
  <2>6. Written' = Written
    BY <1>3, <2>5 DEF Written
  <2>7. Timed'
    BY <1>21, <2>6 DEF MemoryInv, Timed
  <2>8. ~truncated' => Grouped'
    <3>. SUFFICES ASSUME ~truncated PROVE Grouped'
      BY <1>3
    <3>1. \A r \in Streams : Conversation(Placed(stream'[r].hist, 0))
      BY <1>14, <2>2, <2>3 DEF MemoryInv, Grouped
    <3>2. Grouped
      BY DEF MemoryInv
    <3>. QED BY <1>3, <1>21, <2>5, <2>6, <3>1, <3>2 DEF Grouped
  <2>9. Known' \in SUBSET (Known \cup Spoken(ext))
    <3>1. \A r \in Streams : Spoken(stream'[r].hist) \subseteq Spoken(stream[r].hist) \cup Spoken(ext)
      BY <2>2, <2>3
    <3>. QED BY <2>6, <3>1 DEF Known
  <2>10. OncePer({})
    BY DEF OncePer
  <2>11. NamesInv'
    BY <1>3, <1>14, <2>2, <2>3, <2>9, <2>10, NamesAfter
  <2>. QED BY <2>4, <2>7, <2>8, <2>11 DEF MemoryInv
<1>. QED BY <1>4, <1>20, <1>21


LEMMA BeginStep ==
    ASSUME MemoryInv, NEW s \in Streams, NEW report \in BOOLEAN, Memory!Begin(s, report)
    PROVE  MemoryInv'
<1> DEFINE user == <<turns + 1, 0>>
           prompt == Memory!Message(user, "prompt", {})
           said == Memory!Message(user, "user", {})
           h == Append(Memory!History, prompt)
           turn == [Memory!Idle EXCEPT !.turn = turns + 1, !.hist = h]
           opening == [turn EXCEPT !.stage = "opening", !.add = Memory!NewRows(<<said>>),
                                   !.drop = Memory!Trim(rows \cup Memory!NewRows(<<said>>))]
           building == [turn EXCEPT !.stage = "building"]
<1>1. MemoryTyped /\ NamesInv /\ Timed /\ (~truncated => Grouped) /\ turns \in Nat /\ now \in Nat
  BY DEF MemoryInv, MemoryTyped
<1>2. PICK A : stream \in [Streams -> TurnRecords(A)]
  BY <1>1 DEF MemoryTyped
<1>3. /\ stream[s].stage = "idle" /\ rows' = rows /\ turns' = turns + 1
      /\ truncated' = (truncated \/ Memory!Cardinality(rows) > Load)
      /\ \/ now' = now /\ stream' = [stream EXCEPT ![s] = building]
         \/ now' = now + Len(<<said>>) /\ stream' = [stream EXCEPT ![s] = opening]
  BY DEF Memory!Begin, Memory!Save
<1>4. stream[s].hist = <<>> /\ stream[s].add = {} /\ stream[s].drop = {}
  BY <1>1, <1>3, TurnTyped
<1>5. InOrder(rows) /\ Tabled /\ OncePer(rows) /\ IsFiniteSet(rows) /\ \A r \in rows : r.at <= now /\ r.msg \in Known
  BY <1>1, RowsHold
<1>6. /\ said \in Texts /\ prompt \in Texts /\ WellNamed(said) /\ WellNamed(prompt) /\ said.role = "user"
      /\ said.calls = {} /\ prompt.calls = {} /\ said.id = user /\ prompt.role = "prompt"
      /\ user[1] = turns + 1 /\ user[2] = 0
  BY <1>1 DEF Memory!Message, Texts, WellNamed
<1>. HIDE DEF said, prompt, user
<1>7. PICK S \in SUBSET rows :
         /\ IsFiniteSet(S) /\ InOrder(S)
         /\ Memory!History = [i \in 1..Cardinality(S) |-> Memory!History[i]]
         /\ \A r \in S : Memory!History[Rank(S, r) + 1] = r.msg
  BY <1>5, HistoryHoldsNewest, MemoryAssumption
<1>8. ASSUME NEW i \in 1..Cardinality(S) PROVE \E r \in S : Memory!History[i] = r.msg /\ Rank(S, r) + 1 = i
  <2>1. PICK r \in S : Rank(S, r) = i - 1
    BY <1>7, RankIsPlace
  <2>2. Cardinality(S) \in Nat
    BY <1>7, FS_CardinalityType
  <2>3. Rank(S, r) + 1 = i
    BY <2>1, <2>2
  <2>. QED BY <1>7, <2>3
<1>9. ASSUME NEW i \in 1..Cardinality(S) PROVE Memory!History[i] \in Texts /\ Memory!History[i] \in Known
  <2>1. PICK r \in S : Memory!History[i] = r.msg
    BY <1>8
  <2>. QED BY <1>5, <2>1 DEF Tabled
<1>10. Memory!History \in Seq(Texts) /\ DOMAIN Memory!History = 1..Len(Memory!History) /\ Len(Memory!History) \in Nat
       /\ Len(Memory!History) = Cardinality(S)
  <2>1. Cardinality(S) \in Nat
    BY <1>7, FS_CardinalityType
  <2>2. Memory!History \in [1..Cardinality(S) -> Texts]
    BY <1>7, <1>9
  <2>. QED BY <2>1, <2>2
<1>11. OnceIn(Memory!History)
  <2>. SUFFICES ASSUME NEW i \in DOMAIN Memory!History, NEW j \in DOMAIN Memory!History, Memory!History[i].id = Memory!History[j].id
                PROVE  i = j
    BY DEF OnceIn
  <2>1. PICK r \in S : Memory!History[i] = r.msg /\ Rank(S, r) + 1 = i
    BY <1>8, <1>10
  <2>2. PICK q \in S : Memory!History[j] = q.msg /\ Rank(S, q) + 1 = j
    BY <1>8, <1>10
  <2>3. r = q
    BY <1>5, <2>1, <2>2 DEF OncePer
  <2>. QED BY <2>1, <2>2, <2>3
<1>12. /\ h \in Seq(Texts) /\ DOMAIN h = 1..(Len(Memory!History) + 1) /\ Len(h) = Len(Memory!History) + 1 /\ Len(h) \in Nat
       /\ h[Len(Memory!History) + 1] = prompt /\ \A i \in 1..Len(Memory!History) : h[i] = Memory!History[i]
  BY <1>6, <1>10
<1>13. h = Memory!History \o <<prompt>>
  BY <1>6, <1>10
<1>. HIDE DEF h
<1>14. OnceIn(h)
  <2>. SUFFICES ASSUME NEW i \in DOMAIN h, NEW j \in DOMAIN h, h[i].role # "prompt", h[j].role # "prompt",
                       h[i].id = h[j].id
                PROVE  i = j
    BY DEF OnceIn
  <2>1. i # Len(Memory!History) + 1 /\ j # Len(Memory!History) + 1
    BY <1>6, <1>12
  <2>2. i \in 1..Len(Memory!History) /\ j \in 1..Len(Memory!History)
    BY <1>10, <1>12, <2>1
  <2>3. h[i] = Memory!History[i] /\ h[j] = Memory!History[j]
    BY <1>12, <2>2
  <2>. QED BY <1>10, <1>11, <2>2, <2>3 DEF OnceIn
<1>15. Spoken(h) \in SUBSET Known
  <2>. SUFFICES ASSUME NEW i \in DOMAIN h, h[i].role # "prompt" PROVE h[i] \in Known
    BY DEF Spoken
  <2>1. i # Len(Memory!History) + 1
    BY <1>6, <1>12
  <2>2. i \in 1..Len(Memory!History)
    BY <1>10, <1>12, <2>1
  <2>. QED BY <1>9, <1>10, <1>12, <2>2
<1>16. ASSUME ~truncated' PROVE Conversation(Placed(h, 0))
  <2>1. ~truncated /\ ~(Cardinality(rows) > Load)
    BY <1>3, <1>16, SameSize
  <2>2. Conversation(Written) /\ KeepsTogether(Written, rows) /\ InOrder(Written) /\ rows \in SUBSET Written
    BY <1>1, <2>1 DEF Grouped, Timed, Written
  <2>3. Conversation(rows)
    BY <2>2, PartConverses
  <2>4. Conversation(Placed(Memory!History, 0))
    BY <1>5, <2>1, <2>3, HistoryConverses, MemoryAssumption
  <2>5. <<prompt>> \in Seq(Texts) /\ Conversation(Placed(<<prompt>>, 0))
    BY <1>6, SingleConverses
  <2>. QED BY <1>10, <1>13, <2>4, <2>5, ConcatConverses
<1>17. /\ opening = [stage |-> "opening", hist |-> h, add |-> Memory!NewRows(<<said>>),
                     drop |-> Memory!Trim(rows \cup Memory!NewRows(<<said>>)), allow |-> {}, step |-> 0, turn |-> turns + 1]
       /\ building = [stage |-> "building", hist |-> h, add |-> {}, drop |-> {}, allow |-> {}, step |-> 0,
                      turn |-> turns + 1]
  <2>1. turn = [stage |-> "idle", hist |-> h, add |-> {}, drop |-> {}, allow |-> {}, step |-> 0, turn |-> turns + 1]
    <3>1. PICK n : n = turns + 1
      OBVIOUS
    <3>2. PICK b : b = [Memory!Idle EXCEPT !.turn = n, !.hist = h]
      OBVIOUS
    <3>3. b = [stage |-> "idle", hist |-> h, add |-> {}, drop |-> {}, allow |-> {}, step |-> 0, turn |-> n]
      BY <3>2 DEF Memory!Idle
    <3>. QED BY <3>1, <3>2, <3>3
  <2>. HIDE DEF turn
  <2>2. PICK n : n = Memory!NewRows(<<said>>)
    OBVIOUS
  <2>3. PICK d : d = Memory!Trim(rows \cup Memory!NewRows(<<said>>))
    OBVIOUS
  <2>4. PICK b : b = [turn EXCEPT !.stage = "opening", !.add = n, !.drop = d]
    OBVIOUS
  <2>5. b = [stage |-> "opening", hist |-> h, add |-> n, drop |-> d, allow |-> {}, step |-> 0, turn |-> turns + 1]
    BY <2>1, <2>4
  <2>6. building = [stage |-> "building", hist |-> h, add |-> {}, drop |-> {}, allow |-> {}, step |-> 0,
                    turn |-> turns + 1]
    BY <2>1
  <2>. QED BY <2>2, <2>3, <2>4, <2>5, <2>6
<1>. HIDE DEF opening, building, turn
<1>18. \A m \in Known : m \in Texts /\ m.id[1] <= turns /\ m.id[1] \in Nat /\ m.id[2] \in Nat
  BY <1>1 DEF NamesInv, Named, Texts
<1> DEFINE M == Known \cup {said}
<1>19. Named(M, turns + 1) /\ OneMeaning(M)
  <2>1. \A m \in Known : m.id # said.id
    BY <1>1, <1>6, <1>18
  <2>2. OneMeaning(M)
    BY <1>1, <2>1 DEF NamesInv, OneMeaning
  <2>3. Named({said}, turns + 1)
    BY <1>1, <1>6 DEF Named
  <2>4. Named(Known, turns + 1)
    BY <1>1, <1>18 DEF NamesInv, Named
  <2>. QED BY <2>2, <2>3, <2>4 DEF Named
\* What is left for each way to begin.
<1>20. ASSUME NEW u, stream' = [stream EXCEPT ![s] = u], u.hist = h, u.turn = turns + 1, u.stage \in {"opening", "building"},
              Known' \in SUBSET M, OncePer(u.add)
       PROVE  NamesInv'
  <2>1. stream'[s] = u /\ \A r \in Streams : r # s => stream'[r] = stream[r]
    BY <1>2, <1>20
  <2>2. Named(Known', turns') /\ OneMeaning(Known')
    BY <1>3, <1>19, <1>20 DEF Named, OneMeaning
  <2>3. \A r \in Streams : stream[r].stage # "idle" => stream[r].turn <= turns /\ stream[r].turn \in Nat
    BY <1>1, TurnTyped DEF NamesInv, Apart
  <2>4. ASSUME NEW r \in Streams PROVE Past(r, Known)'
    <3>1. CASE r = s
      <4>1. \A m \in M : m.id[1] = turns + 1 => m.id[2] < Len(h)
        <5>1. \A m \in Known : m.id[1] # turns + 1
          BY <1>1, <1>18
        <5>2. said.id[2] < Len(h)
          BY <1>6, <1>10, <1>12
        <5>. QED BY <5>1, <5>2
      <4>. QED BY <1>20, <2>1, <3>1, <4>1 DEF Past
    <3>2. CASE r # s
      <4>. SUFFICES ASSUME stream[r].stage \in {"opening", "building", "asking"}, NEW m \in M,
                           m.id[1] = stream[r].turn
                    PROVE  m.id[2] < Len(stream[r].hist)
        BY <1>20, <2>1, <3>2 DEF Past
      <4>1. m # said
        BY <1>1, <1>6, <2>3
      <4>. QED BY <1>1, <4>1 DEF NamesInv, Past
    <3>. QED BY <3>1, <3>2
  <2>5. Apart'
    <3>1. \A r \in Streams : stream'[r].stage # "idle" => stream'[r].turn <= turns + 1
      BY <1>1, <1>20, <2>1, <2>3
    <3>2. \A r \in Streams : r # s /\ stream[r].stage # "idle" => stream[r].turn # turns + 1
      BY <1>1, <2>3
    <3>3. ASSUME NEW r \in Streams, NEW q \in Streams, r # q, stream'[r].stage # "idle", stream'[q].stage # "idle"
          PROVE  stream'[r].turn # stream'[q].turn
      BY <1>1, <1>20, <2>1, <3>2, <3>3 DEF NamesInv, Apart
    <3>. QED BY <1>3, <3>1, <3>3 DEF Apart
  <2>6. Once'
    BY <1>1, <1>3, <1>14, <1>20, <2>1 DEF NamesInv, Once
  <2>. QED BY <2>2, <2>4, <2>5, <2>6 DEF NamesInv
<1>21. turns' \in Nat
  BY <1>1, <1>3
<1>22. CASE now' = now + Len(<<said>>) /\ stream' = [stream EXCEPT ![s] = opening]
  <2> DEFINE new == <<said>>
  <2>1. Held(new) /\ OnceIn(new) /\ Conversation(Placed(new, 0)) /\ Spoken(new) = {said}
    <3>1. new \in Seq(Texts) /\ Conversation(Placed(new, 0))
      BY <1>6, SingleConverses
    <3>2. DOMAIN new = {1} /\ new[1] = said
      OBVIOUS
    <3>3. \A r \in rows : r.msg.id # said.id
      BY <1>1, <1>5, <1>6, <1>18
    <3>. HIDE DEF new
    <3>4. Held(new)
      BY <1>6, <3>1, <3>2, <3>3 DEF Held
    <3>5. Spoken(new) = {said}
      BY <1>6, <3>2 DEF Spoken
    <3>. QED BY <3>1, <3>2, <3>4, <3>5 DEF OnceIn
  <2>2. opening = [stage |-> "opening", hist |-> h, add |-> Memory!NewRows(new),
                   drop |-> Memory!Trim(rows \cup Memory!NewRows(new)), allow |-> {}, step |-> 0, turn |-> turns + 1]
    BY <1>17
  <2>3. now' = now + Len(new) /\ stream' = [stream EXCEPT ![s] = opening]
    BY <1>22
  <2>. HIDE DEF new
  <2>4. MemoryTyped'
    <3>1. stream \in [Streams -> TurnRecords(A \cup {{}})]
      BY <1>2 DEF TurnRecords
    <3>2. {} \in A \cup {{}} /\ turns + 1 \in Nat /\ 0 \in Nat
      BY <1>1
    <3>. QED BY <1>3, <1>12, <1>21, <2>1, <2>2, <2>3, <3>1, <3>2, SaveTyped
  <2>5. /\ opening.add = Memory!NewRows(new) /\ opening.drop = Memory!Trim(rows \cup Memory!NewRows(new)) /\ opening.hist = h
        /\ opening.turn = turns + 1 /\ opening.stage = "opening"
    BY <2>2
  <2>6. truncated => truncated'
    BY <1>3
  <2>7. Written' = Written \cup Memory!NewRows(new) /\ Timed' /\ (~truncated' => Grouped')
    BY <1>3, <1>4, <1>16, <2>1, <2>3, <2>5, <2>6, Saving
  <2>8. Known' \in SUBSET M
    <3>1. stream'[s] = opening /\ \A r \in Streams : r # s => stream'[r] = stream[r]
      BY <1>2, <2>3
    <3>2. \A r \in Memory!NewRows(new) : r.msg = said
      BY <1>1, <2>1, NewRowsSpoken
    <3>3. \A r \in Streams : Spoken(stream'[r].hist) \subseteq Known
      BY <1>15, <2>5, <3>1 DEF Known
    <3>. QED BY <2>7, <3>2, <3>3 DEF Known
  <2>9. OncePer(Memory!NewRows(new))
    BY <1>1, <2>1, NewRowsPlaced
  <2>10. NamesInv'
    BY <1>20, <2>3, <2>5, <2>8, <2>9
  <2>. QED BY <2>4, <2>7, <2>10 DEF MemoryInv
<1>23. CASE now' = now /\ stream' = [stream EXCEPT ![s] = building]
  <2>1. building \in TurnRecords(A \cup {{}})
    BY <1>1, <1>12, <1>17 DEF TurnRecords
  <2>2. /\ building.add = {} /\ building.drop = {} /\ building.hist = h
        /\ building.turn = turns + 1 /\ building.stage = "building"
    BY <1>17
  <2>3. stream'[s] = building /\ (\A r \in Streams : r # s => stream'[r] = stream[r])
    BY <1>2, <1>23
  <2>4. MemoryTyped'
    <3>1. ASSUME NEW r \in Streams
          PROVE  /\ IsFiniteSet(stream'[r].add)
                 /\ stream'[r].stage = "idle" => stream'[r].hist = <<>>
                 /\ stream'[r].stage \notin {"opening", "closing"} => stream'[r].add = {} /\ stream'[r].drop = {}
      BY <1>1, <2>2, <2>3, FS_EmptySet DEF MemoryTyped
    <3>2. \A r \in Streams : stream[r] \in TurnRecords(A \cup {{}})
      BY <1>2 DEF TurnRecords
    <3>3. stream' \in [Streams -> TurnRecords(A \cup {{}})]
      BY <1>2, <1>23, <2>1, <3>2
    <3>. QED BY <1>1, <1>3, <1>21, <1>23, <3>1, <3>3 DEF MemoryTyped
  <2>5. \A r \in Streams : stream'[r].add = stream[r].add /\ stream'[r].drop = stream[r].drop
    BY <1>4, <2>2, <2>3
  <2>6. Written' = Written
    BY <1>3, <2>5 DEF Written
  <2>7. Timed'
    BY <1>1, <1>23, <2>6 DEF Timed
  <2>8. ~truncated' => Grouped'
    <3>. SUFFICES ASSUME ~truncated' PROVE Grouped'
      OBVIOUS
    <3>1. Grouped
      BY <1>1, <1>3
    <3>2. \A r \in Streams : Conversation(Placed(stream'[r].hist, 0))
      BY <1>16, <2>2, <2>3, <3>1 DEF Grouped
    <3>. QED BY <1>3, <1>23, <2>5, <2>6, <3>1, <3>2 DEF Grouped
  <2>9. Known' \in SUBSET M
    <3>1. \A r \in Streams : Spoken(stream'[r].hist) \subseteq Known
      BY <1>15, <2>2, <2>3 DEF Known
    <3>. QED BY <2>6, <3>1 DEF Known
  <2>10. OncePer({})
    BY DEF OncePer
  <2>11. NamesInv'
    BY <1>20, <1>23, <2>2, <2>9, <2>10
  <2>. QED BY <2>4, <2>7, <2>8, <2>11 DEF MemoryInv
<1>. QED BY <1>3, <1>22, <1>23

LEMMA MemoryInitially == Memory!Init => MemoryInv
<1>. SUFFICES ASSUME Memory!Init PROVE MemoryInv
  OBVIOUS
<1>1. rows = {} /\ now = 0 /\ turns = 0 /\ stream = [s \in Streams |-> Memory!Idle]
  BY DEF Memory!Init
<1>2. Memory!Idle \in TurnRecords({{}}) /\ Memory!Idle.add = {} /\ Memory!Idle.drop = {} /\ Memory!Idle.hist = <<>> /\ Memory!Idle.stage = "idle"
  BY DEF Memory!Idle, TurnRecords
<1>3. \A s \in Streams : stream[s] = Memory!Idle
  BY <1>1
<1>4. MemoryTyped
  <2>1. stream \in [Streams -> TurnRecords({{}})]
    BY <1>1, <1>2
  <2>. QED BY <1>1, <1>2, <1>3, <2>1, FS_EmptySet DEF MemoryTyped
<1>5. Written = {} /\ \A s \in Streams : Spoken(stream[s].hist) = {}
  BY <1>1, <1>2, <1>3 DEF Written, Spoken
<1>6. Known = {}
  BY <1>5 DEF Known
<1>7. NamesInv
  BY <1>1, <1>2, <1>3, <1>6 DEF NamesInv, Named, OneMeaning, Past, Apart, Once, OncePer, OnceIn
<1>8. Timed
  BY <1>5 DEF Timed, InOrder
<1>9. Grouped
  <2>1. Placed(<<>>, 0) = {}
    BY DEF Placed
  <2>. QED BY <1>1, <1>2, <1>3, <1>5, <2>1
         DEF Grouped, Conversation, AnswersCalled, CallsAnswered, KeepsTogether
<1>. QED BY <1>4, <1>7, <1>8, <1>9 DEF MemoryInv

LEMMA MemoryStep == MemoryInv /\ [Memory!Next]_memoryVars => MemoryInv'
<1>. SUFFICES ASSUME MemoryInv, [Memory!Next]_memoryVars PROVE MemoryInv'
  OBVIOUS
<1>1. CASE Memory!Next
  BY <1>1, BeginStep, CommitStep, BuildStep, RoundStep, FinalStep, FailStep DEF Memory!Next
<1>2. CASE UNCHANGED memoryVars
  <2>1. MemoryTyped'
    BY <1>2 DEF memoryVars, MemoryInv, MemoryTyped
  <2>2. Written' = Written
    BY <1>2 DEF memoryVars, Written
  <2>3. Known' = Known
    BY <1>2, <2>2 DEF memoryVars, Known
  <2>4. NamesInv'
    BY <1>2, <2>3 DEF memoryVars, MemoryInv, NamesInv, Past, Apart, Once
  <2>5. Timed' /\ (~truncated' => Grouped')
    BY <1>2, <2>2 DEF memoryVars, MemoryInv, Timed, Grouped
  <2>. QED BY <2>1, <2>4, <2>5 DEF MemoryInv
<1>. QED BY <1>1, <1>2

LEMMA PacketsWhole == MemoryInv => Memory!PacketIsWhole
<1>. SUFFICES ASSUME MemoryInv, NEW s \in Streams, ~truncated PROVE Memory!Whole(Memory!Compact(stream[s].hist))
  BY DEF Memory!PacketIsWhole
<1>1. Conversation(Placed(stream[s].hist, 0)) /\ stream[s].hist \in Seq(Texts)
  BY TurnTyped DEF MemoryInv, Grouped
<1>. QED BY <1>1, CompactIsWhole, MemoryAssumption

LEMMA MemorySteps ==
    /\ SystemInit => Memory!Init
    /\ [SystemNext]_systemVars => [Memory!Next]_memoryVars
  BY DEF SystemInit, SystemNext, systemVars

\* Whatever turns of a session load, save and trim at the same time, every conversation sent
\* to the provider has its answers right after their calls and an answer to every call, as
\* long as every turn loaded the whole table.
THEOREM PacketsAreWhole == SystemSpec => []PacketIsWhole
<1>1. SystemInit => MemoryInv
  BY MemorySteps, MemoryInitially
<1>2. MemoryInv /\ [SystemNext]_systemVars => MemoryInv'
  BY MemorySteps, MemoryStep
<1>3. MemoryInv => PacketIsWhole
  BY PacketsWhole DEF PacketIsWhole
<1>. QED BY <1>1, <1>2, <1>3, PTL DEF SystemSpec
---------------------------------------------------------------------------
\* The working set.

\* What comes before an element in an order, and how much it is.
Below(S, order, x) == {y \in S : <<y, x>> \in order}
Level(S, order, x) == Cardinality(Below(S, order, x))

\* A strict total order.
Orders(order, S) ==
    /\ \A x, y, z \in S : <<x, y>> \in order /\ <<y, z>> \in order => <<x, z>> \in order
    /\ \A x \in S : <<x, x>> \notin order
    /\ \A x, y \in S : x # y => <<x, y>> \in order \/ <<y, x>> \in order

\* Listed in an order, every element has the place its predecessors leave.
LEMMA OrderedIs ==
    ASSUME NEW S, IsFiniteSet(S), NEW order, Orders(order, S)
    PROVE  /\ Cardinality(S) \in Nat
           /\ Memory!Ordered(S, order) \in [1..Cardinality(S) -> S]
           /\ \A x \in S : /\ Level(S, order, x) \in 0..(Cardinality(S) - 1)
                           /\ Memory!Ordered(S, order)[Level(S, order, x) + 1] = x
<1> DEFINE n == Cardinality(S)
           Nth(k) == CHOOSE x \in S : Memory!Cardinality({y \in S : <<y, x>> \in order}) = k - 1
<1>1. n \in Nat
  BY FS_CardinalityType
<1>2. ASSUME NEW x \in S PROVE Level(S, order, x) \in 0..(n - 1) /\ IsFiniteSet(Below(S, order, x))
  <2>1. Below(S, order, x) \in SUBSET (S \ {x})
    BY DEF Below, Orders
  <2>2. IsFiniteSet(S \ {x}) /\ Cardinality(S \ {x}) = n - 1
    BY FS_RemoveElement
  <2>3. IsFiniteSet(Below(S, order, x)) /\ Level(S, order, x) <= n - 1
    BY <2>1, <2>2, FS_Subset DEF Level
  <2>4. Level(S, order, x) \in Nat
    BY <2>3, FS_CardinalityType DEF Level
  <2>. QED BY <1>1, <2>3, <2>4
<1>3. ASSUME NEW x \in S, NEW y \in S, <<x, y>> \in order PROVE Level(S, order, x) < Level(S, order, y)
  <2>1. Below(S, order, x) \cup {x} \in SUBSET Below(S, order, y)
    BY <1>3 DEF Below, Orders
  <2>2. x \notin Below(S, order, x)
    BY DEF Below, Orders
  <2>3. Cardinality(Below(S, order, x) \cup {x}) = Level(S, order, x) + 1
    BY <1>2, <2>2, FS_AddElement DEF Level
  <2>4. Cardinality(Below(S, order, x) \cup {x}) <= Level(S, order, y)
    BY <1>2, <2>1, FS_Subset DEF Level
  <2>. QED BY <1>1, <1>2, <2>3, <2>4
<1>4. ASSUME NEW x \in S, NEW y \in S, Level(S, order, x) = Level(S, order, y) PROVE x = y
  <2>1. Level(S, order, x) \in Nat /\ Level(S, order, y) \in Nat
    BY <1>1, <1>2
  <2>2. <<x, y>> \notin order /\ <<y, x>> \notin order
    BY <1>3, <1>4, <2>1
  <2>. QED BY <2>2 DEF Orders
<1>5. \A k \in 1..n : \E x \in S : Level(S, order, x) = k - 1
  <2> DEFINE f == [x \in S |-> Level(S, order, x)]
  <2>1. f \in [S -> 0..(n - 1)]
    BY <1>2
  <2>2. ASSUME NEW x \in S, NEW y \in S, f[x] = f[y] PROVE x = y
    BY <1>4, <2>2
  <2>3. f \in Injection(S, 0..(n - 1))
    BY <2>1, <2>2, Zenon DEF Injection, IsInjective
  <2>4. IsFiniteSet(0..(n - 1)) /\ Cardinality(0..(n - 1)) = n
    BY <1>1, FS_Interval
  <2>5. f \in Surjection(S, 0..(n - 1))
    BY <2>3, <2>4, FS_Injection
  <2>6. \A j \in 0..(n - 1) : \E x \in S : f[x] = j
    BY <2>5 DEF Surjection
  <2>. QED BY <1>1, <2>6
<1>6. \A x \in S : Memory!Cardinality({y \in S : <<y, x>> \in order}) = Level(S, order, x)
  BY SameSize DEF Level, Below
<1>7. Memory!Ordered(S, order) = [k \in 1..n |-> Nth(k)]
  BY SameSize, Zenon DEF Memory!Ordered
<1>8. ASSUME NEW k \in 1..n PROVE Nth(k) \in S /\ Level(S, order, Nth(k)) = k - 1
  <2>1. \E x \in S : Memory!Cardinality({y \in S : <<y, x>> \in order}) = k - 1
    BY <1>5, <1>6
  <2>2. Nth(k) \in S /\ Memory!Cardinality({y \in S : <<y, Nth(k)>> \in order}) = k - 1
    BY <2>1
  <2>. QED BY <1>6, <2>2
<1>. HIDE DEF Nth
<1>9. ASSUME NEW x \in S
      PROVE  /\ Level(S, order, x) \in 0..(n - 1)
             /\ Memory!Ordered(S, order)[Level(S, order, x) + 1] = x
  <2>1. PICK k \in 1..n : k = Level(S, order, x) + 1
    BY <1>1, <1>2
  <2>2. Level(S, order, Nth(k)) = Level(S, order, x)
    BY <1>1, <1>2, <1>8, <2>1
  <2>3. Nth(k) = x
    BY <1>4, <1>8, <2>2
  <2>. QED BY <1>2, <1>7, <2>1, <2>3
<1>. QED BY <1>1, <1>7, <1>8, <1>9

\* The first places of what a sequence holds.
Firsts(seq) == {i \in DOMAIN seq : \A j \in 1..(i - 1) : seq[j] # seq[i]}
UpTo(S) == {p \in S \X S : p[1] < p[2]}

LEMMA FirstsAre ==
    ASSUME NEW A, NEW seq \in Seq(A)
    PROVE  /\ IsFiniteSet(Firsts(seq)) /\ Orders(UpTo(Firsts(seq)), Firsts(seq))
           /\ \A i \in DOMAIN seq : \E j \in Firsts(seq) : j <= i /\ seq[j] = seq[i]
           /\ \A i, j \in Firsts(seq) : seq[i] = seq[j] => i = j
           /\ IsFiniteSet(Memory!ToSet(seq)) /\ Cardinality(Firsts(seq)) = Cardinality(Memory!ToSet(seq))
           /\ Cardinality(Memory!ToSet(seq)) <= Len(seq)
<1> DEFINE F == Firsts(seq)
<1>1. DOMAIN seq = 1..Len(seq) /\ Len(seq) \in Nat /\ \A i \in F : i \in Nat /\ i \in DOMAIN seq
  BY DEF Firsts
<1>2. IsFiniteSet(F) /\ Cardinality(F) <= Len(seq)
  <2>1. IsFiniteSet(1..Len(seq)) /\ Cardinality(1..Len(seq)) = Len(seq)
    BY <1>1, FS_Interval
  <2>2. F \in SUBSET (1..Len(seq))
    BY <1>1
  <2>. QED BY <2>1, <2>2, FS_Subset
<1>3. Orders(UpTo(F), F)
  <2>1. \A i, j \in F : <<i, j>> \in UpTo(F) <=> i < j
    BY DEF UpTo
  <2>. HIDE DEF F
  <2>. QED BY <1>1, <2>1 DEF Orders
<1>4. ASSUME NEW i \in DOMAIN seq PROVE \E j \in F : j <= i /\ seq[j] = seq[i]
  <2> DEFINE same == {j \in 1..i : seq[j] = seq[i]}
  <2>1. same \in SUBSET Nat /\ i \in same
    BY <1>1
  <2>2. PICK j \in same : \A k \in same : j <= k
    BY <2>1, LeastExists
  <2>3. \A k \in 1..(j - 1) : seq[k] # seq[j]
    <3>. SUFFICES ASSUME NEW k \in 1..(j - 1), seq[k] = seq[j] PROVE FALSE
      OBVIOUS
    <3>1. k \in same
      BY <1>1
    <3>. QED BY <2>1, <2>2, <3>1
  <2>. QED BY <1>1, <2>2, <2>3 DEF Firsts
<1>5. ASSUME NEW i \in F, NEW j \in F, seq[i] = seq[j] PROVE i = j
  <2>1. ~(i < j) /\ ~(j < i)
    BY <1>1, <1>5 DEF Firsts
  <2>. QED BY <1>1, <2>1
<1> DEFINE f == [i \in F |-> seq[i]]
<1>6. f \in Bijection(F, Memory!ToSet(seq))
  <2>1. f \in [F -> Memory!ToSet(seq)]
    BY <1>1 DEF Memory!ToSet
  <2>2. \A i, j \in F : f[i] = f[j] => i = j
    BY <1>5
  <2>3. \A x \in Memory!ToSet(seq) : \E i \in F : f[i] = x
    BY <1>4 DEF Memory!ToSet
  <2>. HIDE DEF f, F
  <2>. QED BY <2>1, <2>2, <2>3, Zenon DEF Bijection, Injection, Surjection, IsInjective
<1>7. IsFiniteSet(Memory!ToSet(seq)) /\ Cardinality(Memory!ToSet(seq)) = Cardinality(F)
  BY <1>2, <1>6, FS_Bijection DEF ExistsBijection
<1>. QED BY <1>1, <1>2, <1>3, <1>4, <1>5, <1>7

\* Without repetitions a sequence holds what it held, once.
LEMMA DistinctIs ==
    ASSUME NEW A, NEW seq \in Seq(A)
    PROVE  /\ Memory!Distinct(seq) \in Seq(A)
           /\ Memory!ToSet(Memory!Distinct(seq)) = Memory!ToSet(seq)
           /\ Len(Memory!Distinct(seq)) = Cardinality(Memory!ToSet(seq))
           /\ \A i \in Firsts(seq) :
                 LET k == Level(Firsts(seq), UpTo(Firsts(seq)), i) + 1
                 IN  k \in DOMAIN Memory!Distinct(seq) /\ Memory!Distinct(seq)[k] = seq[i]
<1> DEFINE F == Firsts(seq)
           n == Cardinality(F)
           list == Memory!Ordered(F, UpTo(F))
           d == Memory!Distinct(seq)
<1>1. /\ IsFiniteSet(F) /\ Orders(UpTo(F), F)
      /\ n = Cardinality(Memory!ToSet(seq)) /\ \A i \in DOMAIN seq : \E j \in F : seq[j] = seq[i]
  BY FirstsAre
<1>2. /\ n \in Nat /\ list \in [1..n -> F]
      /\ \A i \in F : Level(F, UpTo(F), i) \in 0..(n - 1) /\ list[Level(F, UpTo(F), i) + 1] = i
  BY <1>1, OrderedIs
<1>3. d = [k \in 1..n |-> seq[list[k]]]
  BY SameSize, Zenon DEF Memory!Distinct, Firsts, UpTo
<1>4. \A i \in F : i \in DOMAIN seq
  BY DEF Firsts
<1>. HIDE DEF F, n, list, d
<1>5. \A k \in 1..n : list[k] \in DOMAIN seq
  BY <1>2, <1>4
<1>6. d \in [1..n -> A]
  BY <1>3, <1>5
<1>7. d \in Seq(A) /\ Len(d) = n /\ DOMAIN d = 1..n
  BY <1>2, <1>6
<1>8. ASSUME NEW i \in F
      PROVE  Level(F, UpTo(F), i) + 1 \in DOMAIN d /\ d[Level(F, UpTo(F), i) + 1] = seq[i]
  <2>1. Level(F, UpTo(F), i) + 1 \in 1..n
    BY <1>2
  <2>. QED BY <1>2, <1>3, <1>7, <2>1
<1>9. Memory!ToSet(d) = Memory!ToSet(seq)
  <2>1. ASSUME NEW x \in Memory!ToSet(d) PROVE x \in Memory!ToSet(seq)
    <3>1. PICK k \in 1..n : x = d[k]
      BY <1>7 DEF Memory!ToSet
    <3>. QED BY <1>3, <1>5, <3>1 DEF Memory!ToSet
  <2>2. ASSUME NEW x \in Memory!ToSet(seq) PROVE x \in Memory!ToSet(d)
    <3>1. PICK i \in F : x = seq[i]
      BY <1>1 DEF Memory!ToSet
    <3>. QED BY <1>8, <3>1 DEF Memory!ToSet
  <2>. QED BY <2>1, <2>2
<1>. QED BY <1>1, <1>7, <1>8, <1>9 DEF F, n, d

LEMMA BeginningIs ==
    ASSUME NEW A, NEW seq \in Seq(A), NEW m \in Nat, m <= Len(seq)
    PROVE  /\ SubSeq(seq, 1, m) \in Seq(A) /\ Len(SubSeq(seq, 1, m)) = m
           /\ DOMAIN SubSeq(seq, 1, m) = 1..m /\ \A k \in 1..m : SubSeq(seq, 1, m)[k] = seq[k]
OBVIOUS

\* What of a sequence a limit leaves.
LEMMA TakeIs ==
    ASSUME NEW A, NEW seq \in Seq(A), NEW n \in Nat
    PROVE  /\ Memory!Take(seq, n) \in Seq(A) /\ Len(Memory!Take(seq, n)) <= n
           /\ \A k \in DOMAIN seq : k <= n => seq[k] \in Memory!ToSet(Memory!Take(seq, n))
           /\ Memory!ToSet(Memory!Take(seq, n)) \subseteq Memory!ToSet(seq)
<1>1. PICK l \in Nat : l = Len(seq) /\ DOMAIN seq = 1..l
  OBVIOUS
<1>2. PICK m \in Nat : /\ m = Memory!Min({n, l}) /\ m <= n /\ m <= l
                       /\ \A k \in Nat : k <= n /\ k <= l => k <= m
  <2>1. \E x \in {n, l} : \A y \in {n, l} : x <= y
    OBVIOUS
  <2>2. PICK m : m = Memory!Min({n, l})
    OBVIOUS
  <2>3. m \in {n, l} /\ \A y \in {n, l} : m <= y
    BY <2>1, <2>2, Zenon DEF Memory!Min
  <2>4. m = n \/ m = l
    BY <2>3, Zenon
  <2>. QED BY <2>2, <2>3, <2>4
<1>3. PICK t : t = SubSeq(seq, 1, m)
  OBVIOUS
<1>4. Memory!Take(seq, n) = t
  BY <1>1, <1>2, <1>3, Zenon DEF Memory!Take
<1>5. t \in Seq(A) /\ Len(t) = m /\ DOMAIN t = 1..m /\ \A k \in 1..m : t[k] = seq[k]
  <2>1. m \in Nat /\ m <= Len(seq)
    BY <1>1, <1>2
  <2>2. /\ SubSeq(seq, 1, m) \in Seq(A) /\ Len(SubSeq(seq, 1, m)) = m
        /\ DOMAIN SubSeq(seq, 1, m) = 1..m /\ \A k \in 1..m : SubSeq(seq, 1, m)[k] = seq[k]
    BY <2>1, BeginningIs
  <2>. QED BY <1>3, <2>2
<1>6. ASSUME NEW k \in DOMAIN seq, k <= n PROVE seq[k] \in Memory!ToSet(t)
  <2>1. k \in Nat /\ 1 <= k /\ k <= l
    BY <1>1
  <2>2. k <= m
    BY <1>2, <1>6, <2>1, Zenon
  <2>3. k \in 1..m
    BY <2>1, <2>2
  <2>. QED BY <1>5, <2>3 DEF Memory!ToSet
<1>7. ASSUME NEW x \in Memory!ToSet(t) PROVE x \in Memory!ToSet(seq)
  <2>1. PICK k \in 1..m : x = t[k]
    BY <1>5 DEF Memory!ToSet
  <2>2. k \in DOMAIN seq
    BY <1>1, <1>2
  <2>. QED BY <1>5, <2>1, <2>2 DEF Memory!ToSet
<1>. QED BY <1>2, <1>4, <1>5, <1>6, <1>7

\* A limit no smaller than what a sequence begins with leaves that.
LEMMA BeginningStays ==
    ASSUME NEW A, NEW s \in Seq(A), NEW seq \in Seq(A), NEW n \in Nat, Cardinality(Memory!ToSet(s)) <= n,
           \A i \in DOMAIN s : i \in DOMAIN seq /\ seq[i] = s[i]
    PROVE  Memory!ToSet(s) \subseteq Memory!ToSet(Memory!Take(Memory!Distinct(seq), n))
<1> DEFINE F == Firsts(seq)
           d == Memory!Distinct(seq)
<1>1. DOMAIN s = 1..Len(s) /\ Len(s) \in Nat /\ DOMAIN seq = 1..Len(seq) /\ Len(seq) \in Nat
  OBVIOUS
<1>2. /\ IsFiniteSet(F) /\ Orders(UpTo(F), F)
      /\ \A i \in DOMAIN seq : \E j \in F : j <= i /\ seq[j] = seq[i]
      /\ \A i, j \in F : seq[i] = seq[j] => i = j
  BY <1>1, FirstsAre
<1>3. /\ d \in Seq(A)
      /\ \A i \in F : LET k == Level(F, UpTo(F), i) + 1 IN k \in DOMAIN d /\ d[k] = seq[i]
  BY <1>1, DistinctIs
<1>4. IsFiniteSet(Memory!ToSet(s)) /\ Cardinality(Memory!ToSet(s)) \in Nat
  BY FirstsAre, FS_CardinalityType
<1>5. \A i \in F : i \in DOMAIN seq
  BY DEF Firsts
<1>. SUFFICES ASSUME NEW x \in Memory!ToSet(s) PROVE x \in Memory!ToSet(Memory!Take(d, n))
  OBVIOUS
<1>6. PICK l \in DOMAIN s : x = s[l]
  BY DEF Memory!ToSet
<1>7. PICK i \in F : i <= l /\ seq[i] = x
  BY <1>1, <1>2, <1>6
<1>. HIDE DEF F, d
<1> DEFINE B == Below(F, UpTo(F), i)
           f == [j \in B |-> seq[j]]
<1>8. i \in DOMAIN s
  BY <1>1, <1>5, <1>7
<1>9. \A j \in B : j \in F /\ j < i /\ j \in DOMAIN s
  BY <1>1, <1>5, <1>8 DEF Below, UpTo
<1>10. f \in Injection(B, Memory!ToSet(s) \ {x})
  <2>1. ASSUME NEW j \in B PROVE seq[j] \in Memory!ToSet(s) \ {x}
    <3>1. seq[j] = s[j]
      BY <1>1, <1>9
    <3>2. seq[j] # x
      <4>1. j \in F /\ j < i /\ i \in Nat
        BY <1>1, <1>8, <1>9
      <4>2. j # i
        BY <4>1
      <4>. QED BY <1>2, <1>7, <4>1, <4>2
    <3>. QED BY <1>9, <3>1, <3>2 DEF Memory!ToSet
  <2>2. f \in [B -> Memory!ToSet(s) \ {x}]
    BY <2>1
  <2>3. \A j, k \in B : f[j] = f[k] => j = k
    BY <1>2, <1>9
  <2>. HIDE DEF f, B
  <2>. QED BY <2>2, <2>3, Zenon DEF Injection, IsInjective
<1>11. Cardinality(B) <= Cardinality(Memory!ToSet(s)) - 1
  <2>1. IsFiniteSet(Memory!ToSet(s) \ {x}) /\ Cardinality(Memory!ToSet(s) \ {x}) = Cardinality(Memory!ToSet(s)) - 1
    BY <1>4, FS_RemoveElement
  <2>. HIDE DEF f, B
  <2>. QED BY <1>10, <2>1, FS_Injection
<1>12. Level(F, UpTo(F), i) + 1 <= n /\ Level(F, UpTo(F), i) + 1 \in DOMAIN d /\ d[Level(F, UpTo(F), i) + 1] = x
  <2>1. Cardinality(B) \in Nat
    BY <1>2, FS_Subset, FS_CardinalityType DEF Below
  <2>2. Level(F, UpTo(F), i) = Cardinality(B)
    BY DEF Level
  <2>. HIDE DEF B
  <2>. QED BY <1>3, <1>4, <1>7, <1>11, <2>1, <2>2
<1>. QED BY <1>3, <1>12, TakeIs

\* One place of a list of lists comes before another.
Sooner(p, q) ==
    \/ p[1] < q[1]
    \/ p[1] = q[1] /\ p[2] < q[2]

\* The lists of a sequence of lists, one after the other, hold what the lists hold.
LEMMA JoinedIs ==
    ASSUME NEW A, NEW lists \in Seq(Seq(A))
    PROVE  /\ Memory!Joined(lists) \in Seq(A)
           /\ \A x : x \in Memory!ToSet(Memory!Joined(lists))
                        <=> \E i \in DOMAIN lists : x \in Memory!ToSet(lists[i])
<1> DEFINE Part(i) == {i} \X (DOMAIN lists[i])
           parts == {Part(i) : i \in DOMAIN lists}
           places == UNION {{i} \X (DOMAIN lists[i]) : i \in DOMAIN lists}
           order == {p \in places \X places : Sooner(p[1], p[2])}
           n == Cardinality(places)
           list == Memory!Ordered(places, order)
           all == Memory!Joined(lists)
<1>1. DOMAIN lists = 1..Len(lists) /\ Len(lists) \in Nat
  OBVIOUS
<1>2. \A i \in DOMAIN lists : lists[i] \in Seq(A) /\ DOMAIN lists[i] = 1..Len(lists[i]) /\ Len(lists[i]) \in Nat
  OBVIOUS
<1>3. ASSUME NEW i \in DOMAIN lists PROVE IsFiniteSet(Part(i))
  <2> DEFINE f == [k \in DOMAIN lists[i] |-> <<i, k>>]
  <2>1. f \in Surjection(DOMAIN lists[i], Part(i))
    <3>1. f \in [DOMAIN lists[i] -> Part(i)] /\ \A x \in Part(i) : \E k \in DOMAIN lists[i] : f[k] = x
      OBVIOUS
    <3>. HIDE DEF f
    <3>. QED BY <3>1 DEF Surjection
  <2>2. IsFiniteSet(DOMAIN lists[i])
    BY <1>2, FS_Interval
  <2>. HIDE DEF f, Part
  <2>. QED BY <2>1, <2>2, FS_Surjection
<1>4. IsFiniteSet(parts)
  <2> DEFINE f == [i \in DOMAIN lists |-> Part(i)]
  <2>1. f \in Surjection(DOMAIN lists, parts)
    <3>. HIDE DEF Part
    <3>1. f \in [DOMAIN lists -> parts] /\ \A x \in parts : \E i \in DOMAIN lists : f[i] = x
      OBVIOUS
    <3>. HIDE DEF f, parts
    <3>. QED BY <3>1 DEF Surjection
  <2>2. IsFiniteSet(DOMAIN lists)
    BY <1>1, FS_Interval
  <2>. HIDE DEF f, parts
  <2>. QED BY <2>1, <2>2, FS_Surjection
<1>5. IsFiniteSet(places)
  <2>1. \A P \in parts : IsFiniteSet(P)
    BY <1>3
  <2>2. IsFiniteSet(UNION parts)
    <3>. HIDE DEF parts
    <3>. QED BY <1>4, <2>1, FS_UNION
  <2>. QED BY <2>2
<1>6. \A p \in places : /\ p[1] \in DOMAIN lists /\ p[2] \in DOMAIN lists[p[1]]
                        /\ p[1] \in Nat /\ p[2] \in Nat /\ p = <<p[1], p[2]>>
  BY <1>1, <1>2
<1>7. \A i \in DOMAIN lists : \A k \in DOMAIN lists[i] : <<i, k>> \in places
  OBVIOUS
<1>8. Orders(order, places)
  <2>. HIDE DEF places
  <2>1. \A p, q \in places : <<p, q>> \in order <=> Sooner(p, q)
    OBVIOUS
  <2>. HIDE DEF order
  <2>2. ASSUME NEW p \in places, NEW q \in places, p # q PROVE <<p, q>> \in order \/ <<q, p>> \in order
    <3>1. p[1] # q[1] \/ p[2] # q[2]
      BY <1>6, <2>2
    <3>2. Sooner(p, q) \/ Sooner(q, p)
      BY <1>6, <3>1 DEF Sooner
    <3>. QED BY <2>1, <3>2
  <2>3. ASSUME NEW p \in places, NEW q \in places, NEW r \in places, <<p, q>> \in order, <<q, r>> \in order
        PROVE  <<p, r>> \in order
    <3>1. Sooner(p, q) /\ Sooner(q, r)
      BY <2>1, <2>3
    <3>2. Sooner(p, r)
      BY <1>6, <3>1 DEF Sooner
    <3>. QED BY <2>1, <3>2
  <2>4. ASSUME NEW p \in places PROVE <<p, p>> \notin order
    <3>1. ~Sooner(p, p)
      BY <1>6 DEF Sooner
    <3>. QED BY <2>1, <3>1
  <2>5. \A p, q, r \in places : <<p, q>> \in order /\ <<q, r>> \in order => <<p, r>> \in order
    BY <2>3
  <2>. QED BY <2>2, <2>4, <2>5, Zenon DEF Orders
<1>9. all = [k \in 1..n |-> lists[list[k][1]][list[k][2]]]
  BY SameSize, Zenon DEF Memory!Joined, Sooner
<1>. HIDE DEF places, order, all, n, list
<1>10. /\ n \in Nat /\ list \in [1..n -> places]
       /\ \A p \in places : \E k \in 1..n : list[k] = p
  <2>1. /\ n \in Nat /\ list \in [1..n -> places]
        /\ \A p \in places : /\ Level(places, order, p) \in 0..(n - 1)
                             /\ list[Level(places, order, p) + 1] = p
    BY <1>5, <1>8, OrderedIs DEF n, list
  <2>2. \A p \in places : Level(places, order, p) + 1 \in 1..n
    BY <2>1
  <2>. QED BY <2>1, <2>2
<1>11. ASSUME NEW k \in 1..n
       PROVE  /\ list[k][1] \in DOMAIN lists /\ list[k][2] \in DOMAIN lists[list[k][1]]
              /\ all[k] = lists[list[k][1]][list[k][2]] /\ all[k] \in A
  <2>1. list[k][1] \in DOMAIN lists /\ list[k][2] \in DOMAIN lists[list[k][1]]
    BY <1>6, <1>10
  <2>. QED BY <1>2, <1>9, <2>1
<1>12. all \in Seq(A) /\ DOMAIN all = 1..n
  <2>1. all \in [1..n -> A]
    BY <1>9, <1>11
  <2>. QED BY <1>10, <2>1
<1>13. ASSUME NEW x \in Memory!ToSet(all) PROVE \E i \in DOMAIN lists : x \in Memory!ToSet(lists[i])
  <2>1. PICK k \in 1..n : x = all[k]
    BY <1>12 DEF Memory!ToSet
  <2>. QED BY <1>11, <2>1 DEF Memory!ToSet
<1>14. ASSUME NEW i \in DOMAIN lists, NEW x \in Memory!ToSet(lists[i]) PROVE x \in Memory!ToSet(all)
  <2>1. PICK j \in DOMAIN lists[i] : x = lists[i][j]
    BY DEF Memory!ToSet
  <2>2. PICK k \in 1..n : list[k] = <<i, j>>
    BY <1>7, <1>10
  <2>3. all[k] = x
    BY <1>11, <2>1, <2>2
  <2>. QED BY <1>12, <2>3 DEF Memory!ToSet
<1>. QED BY <1>12, <1>13, <1>14 DEF all

LEMMA ConcatBoth ==
    ASSUME NEW A, NEW s \in Seq(A), NEW t \in Seq(A)
    PROVE  /\ s \o t \in Seq(A) /\ Len(s \o t) = Len(s) + Len(t) /\ DOMAIN (s \o t) = 1..(Len(s) + Len(t))
           /\ \A i \in 1..Len(s) : (s \o t)[i] = s[i]
           /\ \A i \in 1..Len(t) : (s \o t)[Len(s) + i] = t[i]
<1>1. Len(s) \in Nat /\ Len(t) \in Nat /\ DOMAIN s = 1..Len(s) /\ DOMAIN t = 1..Len(t)
  OBVIOUS
<1>2. s \o t \in Seq(A) /\ Len(s \o t) = Len(s) + Len(t) /\ DOMAIN (s \o t) = 1..(Len(s) + Len(t))
  BY <1>1
<1>3. ASSUME NEW i \in 1..Len(s) PROVE (s \o t)[i] = s[i]
  BY <1>1, <1>2
<1>4. ASSUME NEW i \in 1..Len(t) PROVE (s \o t)[Len(s) + i] = t[i]
  <2>1. Len(s) + i \in DOMAIN (s \o t)
    BY <1>1, <1>2
  <2>. QED BY <1>1, <1>2, <2>1
<1>. QED BY <1>2, <1>3, <1>4

LEMMA ConcatHolds ==
    ASSUME NEW A, NEW s \in Seq(A), NEW t \in Seq(A), NEW u, u = s \o t
    PROVE  /\ u \in Seq(A) /\ Memory!ToSet(u) = Memory!ToSet(s) \cup Memory!ToSet(t)
           /\ \A i \in DOMAIN s : i \in DOMAIN u /\ u[i] = s[i]
<1>1. /\ u \in Seq(A) /\ Len(u) = Len(s) + Len(t)
      /\ \A i \in 1..Len(s) : u[i] = s[i]
      /\ \A i \in 1..Len(t) : u[Len(s) + i] = t[i]
  <2>1. /\ s \o t \in Seq(A) /\ Len(s \o t) = Len(s) + Len(t) /\ DOMAIN (s \o t) = 1..(Len(s) + Len(t))
        /\ \A i \in 1..Len(s) : (s \o t)[i] = s[i]
        /\ \A i \in 1..Len(t) : (s \o t)[Len(s) + i] = t[i]
    BY ConcatBoth
  <2>. QED BY <2>1
<1>2. /\ DOMAIN s = 1..Len(s) /\ Len(s) \in Nat /\ DOMAIN t = 1..Len(t) /\ Len(t) \in Nat
      /\ DOMAIN u = 1..(Len(s) + Len(t))
  BY <1>1
<1>3. \A i \in DOMAIN s : i \in DOMAIN u /\ u[i] = s[i]
  BY <1>1, <1>2
<1>4. \A i \in DOMAIN t : Len(s) + i \in DOMAIN u /\ u[Len(s) + i] = t[i]
  BY <1>1, <1>2
<1>5. ASSUME NEW i \in DOMAIN u PROVE u[i] \in Memory!ToSet(s) \cup Memory!ToSet(t)
  <2>1. CASE i <= Len(s)
    BY <1>1, <1>2, <2>1 DEF Memory!ToSet
  <2>2. CASE ~(i <= Len(s))
    <3>1. i - Len(s) \in DOMAIN t /\ i = Len(s) + (i - Len(s))
      BY <1>2, <2>2
    <3>2. u[i] = t[i - Len(s)]
      BY <1>4, <3>1
    <3>. QED BY <3>1, <3>2 DEF Memory!ToSet
  <2>. QED BY <2>1, <2>2
<1>6. Memory!ToSet(u) = Memory!ToSet(s) \cup Memory!ToSet(t)
  <2>1. \A x \in Memory!ToSet(u) : x \in Memory!ToSet(s) \cup Memory!ToSet(t)
    BY <1>5 DEF Memory!ToSet
  <2>2. \A x \in Memory!ToSet(s) \cup Memory!ToSet(t) : x \in Memory!ToSet(u)
    BY <1>3, <1>4 DEF Memory!ToSet
  <2>. QED BY <2>1, <2>2
<1>. QED BY <1>1, <1>3, <1>6

\* Ordering the candidates loses none and repeats none.
LEMMA PrioritisedIs ==
    ASSUME NEW A, NEW c \in Seq(A), \A x \in A : Effect[x] \in Nat, NEW bound
    PROVE  /\ Memory!Prioritised(c, bound) \in Seq(A) /\ Len(Memory!Prioritised(c, bound)) = Len(c)
           /\ Memory!ToSet(Memory!Prioritised(c, bound)) = Memory!ToSet(c)
<1> DEFINE places == DOMAIN c
           Ahead(x, y) ==
               \/ x \in bound /\ y \notin bound
               \/ (x \in bound <=> y \in bound) /\ Effect[x] < Effect[y]
           order == {p \in places \X places :
                        \/ Ahead(c[p[1]], c[p[2]])
                        \/ ~Ahead(c[p[2]], c[p[1]]) /\ p[1] < p[2]}
           list == Memory!Ordered(places, order)
           out == Memory!Prioritised(c, bound)
<1>1. PICK n \in Nat : n = Len(c) /\ places = 1..n
  OBVIOUS
<1>2. \A i \in places : c[i] \in A
  OBVIOUS
<1>3. /\ \A x, y \in A : Ahead(x, y) => ~Ahead(y, x)
      /\ \A x, y, z \in A : ~Ahead(y, x) /\ ~Ahead(z, y) => ~Ahead(z, x)
      /\ \A x, y, z \in A : ~Ahead(y, x) /\ ~Ahead(z, y) /\ ~Ahead(x, z) => ~Ahead(x, y) /\ ~Ahead(y, z)
  OBVIOUS
<1>4. \A i, j \in places :
         <<i, j>> \in order <=> \/ Ahead(c[i], c[j])
                                \/ ~Ahead(c[j], c[i]) /\ i < j
  <2>. HIDE DEF Ahead
  <2>. QED OBVIOUS
<1>5. out = [k \in places |-> c[list[k]]]
  BY Zenon DEF Memory!Prioritised
<1>. HIDE DEF Ahead, order, list, out, places
<1>6. Orders(order, places)
  <2>1. \A i \in places : <<i, i>> \notin order
    BY <1>1, <1>2, <1>3, <1>4
  <2>2. \A i, j \in places : i # j => <<i, j>> \in order \/ <<j, i>> \in order
    BY <1>1, <1>2, <1>3, <1>4
  <2>3. \A i, j, k \in places : <<i, j>> \in order /\ <<j, k>> \in order => <<i, k>> \in order
    <3>. SUFFICES ASSUME NEW i \in places, NEW j \in places, NEW k \in places,
                         <<i, j>> \in order, <<j, k>> \in order
                  PROVE  <<i, k>> \in order
      OBVIOUS
    <3>1. c[i] \in A /\ c[j] \in A /\ c[k] \in A /\ i \in Nat /\ j \in Nat /\ k \in Nat
      BY <1>1, <1>2
    <3>2. /\ ~Ahead(c[j], c[i]) /\ ~Ahead(c[k], c[j])
          /\ Ahead(c[i], c[j]) \/ i < j
          /\ Ahead(c[j], c[k]) \/ j < k
      BY <1>3, <1>4, <3>1
    <3>3. ~Ahead(c[k], c[i]) /\ (Ahead(c[i], c[k]) \/ i < k)
      BY <1>3, <3>1, <3>2
    <3>. QED BY <1>4, <3>3
  <2>. QED BY <2>1, <2>2, <2>3, Zenon DEF Orders
<1>7. IsFiniteSet(places) /\ Cardinality(places) = n
  <2>1. IsFiniteSet(1..n) /\ Cardinality(1..n) = n
    BY FS_Interval
  <2>. QED BY <1>1, <2>1
<1>8. /\ list \in [1..n -> places]
      /\ \A i \in places : \E k \in 1..n : list[k] = i
  <2>1. /\ list \in [1..n -> places]
        /\ \A i \in places : /\ Level(places, order, i) \in 0..(n - 1)
                             /\ list[Level(places, order, i) + 1] = i
    BY <1>6, <1>7, OrderedIs DEF list
  <2>2. \A i \in places : Level(places, order, i) + 1 \in 1..n
    BY <2>1
  <2>. QED BY <2>1, <2>2
<1>9. out \in Seq(A) /\ Len(out) = n /\ DOMAIN out = 1..n
  <2>1. out \in [1..n -> A]
    BY <1>1, <1>2, <1>5, <1>8
  <2>. QED BY <2>1
<1>10. Memory!ToSet(out) = Memory!ToSet(c)
  <2>1. \A x \in Memory!ToSet(out) : x \in Memory!ToSet(c)
    BY <1>1, <1>5, <1>8, <1>9 DEF Memory!ToSet, places
  <2>2. ASSUME NEW i \in places PROVE \E k \in DOMAIN out : out[k] = c[i]
    BY <1>1, <1>5, <1>8, <1>9
  <2>3. \A x \in Memory!ToSet(c) : x \in Memory!ToSet(out)
    BY <2>2 DEF Memory!ToSet, places
  <2>. QED BY <2>1, <2>3
<1>. QED BY <1>1, <1>9, <1>10 DEF out

---------------------------------------------------------------------------
\* What can be in a working set.
Things == Sources \cup Matches \cup Memory!ToSet(Bindable)

\* The calls a history answers, what references say they found, and what may compete for a
\* place among the candidates.
Answered(h) == UNION {h[i].calls : i \in {j \in DOMAIN h : h[j].role = "tool"}}
FoundBy(f, h) == UNION {Memory!ToSet(f[c]) : c \in Answered(h)}
KnownTo(f, fs, a, h) ==
    IF a THEN FoundBy(f, h) \cup Memory!ToSet(fs) \cup Memory!ToSet(Bindable) \cup Matches
    ELSE FoundBy(f, h)

\* Every answer is to one call, which has its reference.
Referred(h, D) == \A i \in DOMAIN h : h[i].role = "tool" => \E c \in D : h[i].calls = {c}

LEMMA ThingsAre ==
    /\ Limit \in Nat /\ Remembered \in Nat /\ IsFiniteSet(Matches)
    /\ Bindable \in Seq(Things) /\ \A x \in Things : Effect[x] \in Nat
<1>1. Memory!ToSet(Bindable) = {Bindable[i] : i \in DOMAIN Bindable}
  BY DEF Memory!ToSet
<1>2. /\ Bindable \in Seq(Memory!ToSet(Bindable))
      /\ \A x \in Sources \cup Matches \cup Memory!ToSet(Bindable) : Effect[x] \in Nat
  BY <1>1, MemoryAssumption
<1>. QED BY <1>2, MemoryAssumption DEF Things

\* The list of what the history found holds what its references name.
LEMMA FoundIs ==
    ASSUME NEW h \in Seq(Texts), NEW D, refs \in [D -> Seq(Things)], Referred(h, D)
    PROVE  /\ Memory!FoundIn(h) \in Seq(Things)
           /\ Memory!ToSet(Memory!FoundIn(h)) = FoundBy(refs, h)
           /\ IsFiniteSet(FoundBy(refs, h))
<1> DEFINE list(i) == IF h[i].role = "tool" THEN refs[CHOOSE c \in h[i].calls : TRUE] ELSE <<>>
           lists == [i \in DOMAIN h |-> list(i)]
<1>1. ASSUME NEW i \in DOMAIN h, NEW c \in D, h[i].role = "tool", h[i].calls = {c}
      PROVE  list(i) = refs[c] /\ list(i) \in Seq(Things)
  <2>1. (CHOOSE d \in h[i].calls : TRUE) = c
    BY <1>1
  <2>. QED BY <1>1, <2>1
<1>2. ASSUME NEW i \in DOMAIN h PROVE list(i) \in Seq(Things)
  <2>1. CASE h[i].role = "tool"
    BY <1>1, <2>1 DEF Referred
  <2>2. CASE h[i].role # "tool"
    BY <2>2
  <2>. QED BY <2>1, <2>2
<1>. HIDE DEF list
<1>3. lists \in Seq(Seq(Things)) /\ DOMAIN lists = DOMAIN h /\ \A i \in DOMAIN h : lists[i] = list(i)
  <2>1. DOMAIN h = 1..Len(h) /\ Len(h) \in Nat
    OBVIOUS
  <2>. QED BY <1>2, <2>1
<1>4. Memory!FoundIn(h) = Memory!Distinct(Memory!Joined(lists))
  BY Zenon DEF Memory!FoundIn, list
<1>. HIDE DEF lists
<1>5. /\ Memory!Joined(lists) \in Seq(Things)
      /\ \A x : x \in Memory!ToSet(Memory!Joined(lists)) <=> \E i \in DOMAIN h : x \in Memory!ToSet(list(i))
  BY <1>3, JoinedIs
<1>6. ASSUME NEW x, NEW i \in DOMAIN h, x \in Memory!ToSet(list(i)) PROVE x \in FoundBy(refs, h)
  <2>1. h[i].role = "tool"
    <3>1. Memory!ToSet(<<>>) = {}
      BY DEF Memory!ToSet
    <3>2. h[i].role # "tool" => list(i) = <<>>
      BY DEF list
    <3>. QED BY <1>6, <3>1, <3>2
  <2>2. PICK c \in D : h[i].calls = {c}
    BY <2>1 DEF Referred
  <2>3. c \in Answered(h)
    BY <2>1, <2>2 DEF Answered
  <2>4. list(i) = refs[c]
    BY <1>1, <2>1, <2>2
  <2>. QED BY <1>6, <2>3, <2>4 DEF FoundBy
<1>7. ASSUME NEW x \in FoundBy(refs, h) PROVE \E i \in DOMAIN h : x \in Memory!ToSet(list(i))
  <2>1. PICK c \in Answered(h) : x \in Memory!ToSet(refs[c])
    BY DEF FoundBy
  <2>2. PICK i \in DOMAIN h : h[i].role = "tool" /\ c \in h[i].calls
    BY DEF Answered
  <2>3. c \in D /\ h[i].calls = {c}
    BY <2>2 DEF Referred
  <2>4. list(i) = refs[c]
    BY <1>1, <2>2, <2>3
  <2>. QED BY <2>1, <2>4
<1>8. Memory!ToSet(Memory!Joined(lists)) = FoundBy(refs, h)
  BY <1>5, <1>6, <1>7
<1>. QED BY <1>4, <1>5, <1>8, DistinctIs, FirstsAre

\* What a history found is allowed, unless there is more than the working set holds.
LEMMA FoundAllowed ==
    ASSUME NEW h \in Seq(Texts), NEW D, refs \in [D -> Seq(Things)], Referred(h, D),
           facts \in Seq(Things), artifact \in BOOLEAN, NEW hits \in Memory!Hits,
           Cardinality(KnownTo(refs, facts, artifact, h)) <= Limit
    PROVE  FoundBy(refs, h) \subseteq Memory!Allowed(h, hits)
<1> DEFINE found == Memory!FoundIn(h)
           F == FoundBy(refs, h)
           K == KnownTo(refs, facts, artifact, h)
           bound == Memory!Bound
           ws == Memory!WorkingSet(h, hits)
           recent == Memory!Take(facts, Remembered)
           known == Memory!Distinct(ws \o recent)
           new == Memory!NewlyBound(h, hits)
           candidates == Memory!Candidates(h, hits)
<1>1. found \in Seq(Things) /\ Memory!ToSet(found) = F /\ IsFiniteSet(F)
  BY FoundIs
<1>2. hits \in Seq(Things) /\ Memory!ToSet(hits) \subseteq Matches
  <2>1. hits = <<>> \/ \E m \in Matches : hits = <<m>>
    BY DEF Memory!Hits
  <2>2. \A m \in Matches : m \in Things
    BY DEF Things
  <2>3. CASE hits = <<>>
    BY <2>3 DEF Memory!ToSet
  <2>4. ASSUME NEW m \in Matches, hits = <<m>> PROVE hits \in Seq(Things) /\ Memory!ToSet(hits) \subseteq Matches
    <3>1. <<m>> \in Seq(Things) /\ \A i \in DOMAIN <<m>> : <<m>>[i] = m
      BY <2>2
    <3>. QED BY <2>4, <3>1 DEF Memory!ToSet
  <2>. QED BY <2>1, <2>3, <2>4
<1>3. /\ bound \in Seq(Things)
      /\ Memory!ToSet(bound) \subseteq Memory!ToSet(Bindable)
      /\ ~artifact => Memory!ToSet(bound) = {}
  <2>1. Memory!ToSet(<<>>) = {}
    BY DEF Memory!ToSet
  <2>. QED BY <2>1, ThingsAre DEF Memory!Bound
<1>4. recent \in Seq(Things) /\ Memory!ToSet(recent) \subseteq Memory!ToSet(facts)
  BY TakeIs, ThingsAre
<1>5. /\ IsFiniteSet(K) /\ Cardinality(K) \in Nat /\ F \subseteq K
      /\ artifact => K = F \cup Memory!ToSet(facts) \cup Memory!ToSet(Bindable) \cup Matches
  <2>1. IsFiniteSet(Memory!ToSet(facts)) /\ IsFiniteSet(Memory!ToSet(Bindable))
    BY FirstsAre, ThingsAre
  <2>2. IsFiniteSet(F \cup Memory!ToSet(facts) \cup Memory!ToSet(Bindable) \cup Matches)
    BY <1>1, <2>1, ThingsAre, FS_Union
  <2>3. IsFiniteSet(K)
    BY <1>1, <2>2 DEF KnownTo
  <2>. QED BY <2>3, FS_CardinalityType DEF KnownTo
<1>6. Cardinality(F) \in Nat /\ Cardinality(F) <= Limit /\ Limit \in Nat
  BY <1>1, <1>5, ThingsAre, FS_Subset, FS_CardinalityType
<1>7. /\ ws \in Seq(Things) /\ Len(ws) <= Limit
      /\ F \subseteq Memory!ToSet(ws)
      /\ Memory!ToSet(ws) \subseteq F \cup Memory!ToSet(hits) \cup Memory!ToSet(bound)
  <2> DEFINE first == found \o hits
             seq == first \o bound
  <2>. HIDE DEF found, bound, F, K
  <2>11. found \in Seq(Things) /\ hits \in Seq(Things) /\ bound \in Seq(Things)
    BY <1>1, <1>2, <1>3
  <2>1. /\ first \in Seq(Things) /\ Memory!ToSet(first) = Memory!ToSet(found) \cup Memory!ToSet(hits)
        /\ \A i \in DOMAIN found : i \in DOMAIN first /\ first[i] = found[i]
    BY <2>11, ConcatHolds
  <2>. HIDE DEF first
  <2>2. /\ seq \in Seq(Things) /\ Memory!ToSet(seq) = Memory!ToSet(first) \cup Memory!ToSet(bound)
        /\ \A i \in DOMAIN first : i \in DOMAIN seq /\ seq[i] = first[i]
    BY <2>1, <2>11, ConcatHolds
  <2>3. ws = Memory!Take(Memory!Distinct(seq), Limit)
    BY Zenon DEF Memory!WorkingSet, first, seq, found, bound, ws
  <2>. HIDE DEF seq, ws
  <2>4. \A i \in DOMAIN found : i \in DOMAIN seq /\ seq[i] = found[i]
    BY <2>1, <2>2
  <2>5. F \subseteq Memory!ToSet(ws)
    BY <1>1, <1>6, <2>2, <2>3, <2>4, BeginningStays
  <2>6. Memory!Distinct(seq) \in Seq(Things) /\ Memory!ToSet(Memory!Distinct(seq)) = Memory!ToSet(seq)
    BY <2>2, DistinctIs
  <2>7. ws \in Seq(Things) /\ Len(ws) <= Limit /\ Memory!ToSet(ws) \subseteq Memory!ToSet(Memory!Distinct(seq))
    BY <1>6, <2>3, <2>6, TakeIs
  <2>. QED BY <1>1, <2>1, <2>2, <2>5, <2>6, <2>7
<1> DEFINE all == ws \o recent
<1>. HIDE DEF found, F, K, bound, ws, recent
<1>8. /\ all \in Seq(Things) /\ Memory!ToSet(all) = Memory!ToSet(ws) \cup Memory!ToSet(recent)
      /\ \A i \in DOMAIN ws : i \in DOMAIN all /\ all[i] = ws[i]
  BY <1>4, <1>7, ConcatHolds
<1>9. known = Memory!Distinct(all)
  OBVIOUS
<1>. HIDE DEF all, known
<1>10. /\ known \in Seq(Things) /\ Memory!ToSet(known) = Memory!ToSet(all)
       /\ Len(known) = Cardinality(Memory!ToSet(all))
  BY <1>8, <1>9, DistinctIs
<1>11. candidates = Memory!Take(IF new = {} THEN known ELSE Memory!Prioritised(known, new), Limit)
  BY Zenon DEF Memory!Candidates, known, all, ws, recent
<1>12. new \subseteq Memory!ToSet(bound)
  BY DEF Memory!NewlyBound, bound
<1>. HIDE DEF candidates, new
<1>13. ASSUME new = {} PROVE F \subseteq Memory!ToSet(candidates)
  <2>1. candidates = Memory!Take(Memory!Distinct(all), Limit)
    BY <1>9, <1>11, <1>13
  <2>2. Cardinality(Memory!ToSet(ws)) <= Limit
    <3>1. IsFiniteSet(Memory!ToSet(ws)) /\ Cardinality(Memory!ToSet(ws)) <= Len(ws)
      BY <1>7, FirstsAre
    <3>2. Cardinality(Memory!ToSet(ws)) \in Nat /\ Len(ws) \in Nat
      BY <1>7, <3>1, FS_CardinalityType
    <3>. QED BY <1>6, <1>7, <3>1, <3>2
  <2>3. Memory!ToSet(ws) \subseteq Memory!ToSet(Memory!Take(Memory!Distinct(all), Limit))
    BY <1>6, <1>7, <1>8, <2>2, BeginningStays
  <2>. QED BY <1>7, <2>1, <2>3
<1>14. ASSUME new # {} PROVE F \subseteq Memory!ToSet(candidates)
  <2> DEFINE out == Memory!Prioritised(known, new)
  <2>1. artifact = TRUE
    BY <1>3, <1>12, <1>14
  <2>2. Memory!ToSet(all) \in SUBSET K
    BY <1>2, <1>3, <1>4, <1>5, <1>7, <1>8, <2>1
  <2>3. Cardinality(Memory!ToSet(all)) <= Limit /\ Len(known) \in Nat
    <3>1. Cardinality(Memory!ToSet(all)) <= Cardinality(K)
      BY <1>5, <2>2, FS_Subset
    <3>2. Len(known) \in Nat
      BY <1>10
    <3>3. Cardinality(K) <= Limit
      BY DEF K
    <3>. QED BY <1>5, <1>6, <1>10, <3>1, <3>2, <3>3
  <2>4. out \in Seq(Things) /\ Len(out) = Len(known) /\ Memory!ToSet(out) = Memory!ToSet(known)
    BY <1>10, ThingsAre, PrioritisedIs
  <2>5. candidates = Memory!Take(out, Limit)
    BY <1>11, <1>14
  <2>. HIDE DEF out
  <2>6. ASSUME NEW k \in DOMAIN out PROVE out[k] \in Memory!ToSet(candidates)
    <3>1. k <= Limit
      <4>1. k \in Nat /\ k <= Len(out)
        BY <2>4
      <4>. QED BY <1>6, <1>10, <2>3, <2>4, <4>1
    <3>. QED BY <1>6, <2>4, <2>5, <3>1, TakeIs
  <2>7. Memory!ToSet(out) \subseteq Memory!ToSet(candidates)
    <3>. SUFFICES ASSUME NEW x \in Memory!ToSet(out) PROVE x \in Memory!ToSet(candidates)
      OBVIOUS
    <3>1. PICK k \in DOMAIN out : x = out[k]
      BY DEF Memory!ToSet
    <3>. QED BY <2>6, <3>1
  <2>. QED BY <1>7, <1>8, <1>10, <2>4, <2>7
<1>15. F \subseteq Memory!ToSet(candidates)
  BY <1>13, <1>14, Zenon
<1>16. Memory!Strategy(candidates) # "reuse_working_set" => Memory!ToSet(candidates) = {}
  <2>1. Memory!ToSet(<<>>) = {}
    BY DEF Memory!ToSet
  <2>. QED BY <2>1 DEF Memory!Strategy
<1>17. Memory!Strategy(candidates) = "reuse_working_set" => Memory!ToSet(candidates) \subseteq Memory!Allowed(h, hits)
  BY DEF Memory!Allowed, candidates
<1>. QED BY <1>15, <1>16, <1>17 DEF F

\* What the references name stays in range, and what the conversation of a turn that waits
\* for the provider found was allowed when its packet was built and is still what its
\* references name.
FoundInv ==
    /\ facts \in Seq(Things) /\ artifact \in BOOLEAN /\ refs \in [DOMAIN refs -> Seq(Things)]
    /\ \A s \in Streams : stream[s].stage = "asking" =>
          /\ Answered(stream[s].hist) \subseteq DOMAIN refs
          /\ Cardinality(KnownTo(refs, facts, artifact, stream[s].hist)) <= Limit
                => FoundBy(refs, stream[s].hist) \subseteq stream[s].allow

LEMMA HistoryReferred ==
    ASSUME MemoryInv, NEW s \in Streams, NEW D, Answered(stream[s].hist) \subseteq D
    PROVE  stream[s].hist \in Seq(Texts) /\ Referred(stream[s].hist, D)
<1> DEFINE h == stream[s].hist
<1>1. h \in Seq(Texts)
  BY TurnTyped DEF MemoryInv
<1>2. Held(h)
  BY HistoryHeld DEF MemoryInv
<1>. HIDE DEF h
<1>3. ASSUME NEW i \in DOMAIN h, h[i].role = "tool" PROVE \E c \in D : h[i].calls = {c}
  <2>1. PICK c : h[i].calls = {c}
    BY <1>2, <1>3 DEF Held, WellNamed
  <2>2. c \in Answered(h)
    BY <1>3, <2>1 DEF Answered
  <2>. QED BY <2>1, <2>2 DEF h
<1>. QED BY <1>1, <1>3 DEF Referred, h

\* A step that builds no packet and stores no answer changes nothing of it.
LEMMA FoundKeeps ==
    ASSUME FoundInv, refs' = refs, facts' = facts, artifact' = artifact,
           \A r \in Streams : stream'[r].stage = "asking" =>
               /\ stream[r].stage = "asking" /\ stream'[r].hist = stream[r].hist
               /\ stream'[r].allow = stream[r].allow
    PROVE  FoundInv'
<1>1. ASSUME NEW r \in Streams, stream'[r].stage = "asking"
      PROVE  /\ Answered(stream'[r].hist) \subseteq DOMAIN refs'
             /\ Cardinality(KnownTo(refs', facts', artifact', stream'[r].hist)) <= Limit
                   => FoundBy(refs', stream'[r].hist) \subseteq stream'[r].allow
  BY <1>1 DEF FoundInv
<1>. QED BY <1>1 DEF FoundInv

LEMMA FoundBuild ==
    ASSUME MemoryInv, FoundInv, NEW s \in Streams, Memory!BuildTurn(s)
    PROVE  FoundInv'
<1> DEFINE h == stream[s].hist
<1>1. refs' = refs /\ facts' = facts /\ artifact' = artifact
  BY DEF Memory!BuildTurn
<1>2. PICK hits \in Memory!Hits :
          stream' = [stream EXCEPT ![s].stage = "asking", ![s].step = @ + 1,
                                   ![s].allow = Memory!Allowed(h, hits)]
  BY DEF Memory!BuildTurn
<1>3. Answered(h) \subseteq DOMAIN refs
  BY DEF Memory!BuildTurn, Answered
<1>4. h \in Seq(Texts) /\ Referred(h, DOMAIN refs)
  BY <1>3, HistoryReferred
<1>5. PICK A : stream \in [Streams -> TurnRecords(A)]
  BY DEF MemoryInv, MemoryTyped
<1>6. PICK allow : allow = Memory!Allowed(h, hits)
  OBVIOUS
<1>7. /\ stream'[s] = [stream[s] EXCEPT !.stage = "asking", !.step = @ + 1, !.allow = allow]
      /\ \A r \in Streams : r # s => stream'[r] = stream[r]
  BY <1>2, <1>5, <1>6
<1>8. stream'[s].hist = h /\ stream'[s].allow = allow
  <2>1. PICK t \in TurnRecords(A) : t = stream[s]
    BY <1>5
  <2>2. PICK b : b = [t EXCEPT !.stage = "asking", !.step = @ + 1, !.allow = allow]
    OBVIOUS
  <2>3. b.hist = t.hist /\ b.allow = allow
    BY <2>1, <2>2 DEF TurnRecords
  <2>. QED BY <1>7, <2>1, <2>2, <2>3
<1>. HIDE DEF h
<1>9. Cardinality(KnownTo(refs, facts, artifact, h)) <= Limit => FoundBy(refs, h) \subseteq allow
  BY <1>4, <1>6, FoundAllowed DEF FoundInv
<1>10. ASSUME NEW r \in Streams, stream'[r].stage = "asking"
       PROVE  /\ Answered(stream'[r].hist) \subseteq DOMAIN refs'
              /\ Cardinality(KnownTo(refs', facts', artifact', stream'[r].hist)) <= Limit
                    => FoundBy(refs', stream'[r].hist) \subseteq stream'[r].allow
  <2>1. CASE r = s
    BY <1>1, <1>3, <1>8, <1>9, <2>1
  <2>2. CASE r # s
    BY <1>1, <1>7, <1>10, <2>2 DEF FoundInv
  <2>. QED BY <2>1, <2>2
<1>. QED BY <1>1, <1>10 DEF FoundInv

\* A turn saved is not waiting for the provider.
LEMMA SavedStage ==
    ASSUME NEW s, NEW turn, "stage" \in DOMAIN turn, NEW stage0, NEW messages,
           Memory!Save(s, turn, stage0, messages)
    PROVE  \E t : t.stage = stage0 /\ stream' = [stream EXCEPT ![s] = t]
<1>1. PICK add, drop : stream' = [stream EXCEPT ![s] = [turn EXCEPT !.stage = stage0, !.add = add, !.drop = drop]]
  BY DEF Memory!Save
<1>2. [turn EXCEPT !.stage = stage0, !.add = add, !.drop = drop].stage = stage0
  OBVIOUS
<1>. QED BY <1>1, <1>2

LEMMA OutcomeFinds ==
    ASSUME NEW s, NEW of, NEW o \in Memory!Outcomes(s, of)
    PROVE  o.found \in Seq(Things)
<1>1. ASSUME NEW w, NEW m, o = Memory!Outcome(<<>>, w, m) PROVE o.found \in Seq(Things)
  BY <1>1 DEF Memory!Outcome
<1>2. ASSUME NEW hit \in Sources, o = Memory!Outcome(<<hit>>, FALSE, FALSE) PROVE o.found \in Seq(Things)
  <2>1. <<hit>> \in Seq(Things)
    BY DEF Things
  <2>. QED BY <1>2, <2>1 DEF Memory!Outcome
<1>3. CASE of \notin stream[s].allow
  BY <1>1, <1>3 DEF Memory!Outcomes
<1>4. CASE of \in stream[s].allow /\ of = Search
  BY <1>2, <1>4 DEF Memory!Outcomes
<1>5. CASE of \in stream[s].allow /\ of # Search
  BY <1>1, <1>5 DEF Memory!Outcomes
<1>. QED BY <1>3, <1>4, <1>5

LEMMA RoundMoves ==
    ASSUME MemoryInv, NEW s \in Streams, NEW batch \in Batches, Memory!Round(s, batch)
    PROVE  \E t : t.stage # "asking" /\ stream' = [stream EXCEPT ![s] = t]
<1>1. PICK A : stream \in [Streams -> TurnRecords(A)]
  BY DEF MemoryInv, MemoryTyped
<1>2. PICK hist : \/ Memory!Save(s, [stream[s] EXCEPT !.hist = hist], "closing", [stream[s] EXCEPT !.hist = hist].hist)
                  \/ stream' = [stream EXCEPT ![s] = [[stream[s] EXCEPT !.hist = hist] EXCEPT !.stage = "building"]]
  BY DEF Memory!Round
<1>3. PICK u : u = [stream[s] EXCEPT !.hist = hist]
  OBVIOUS
<1>4. "stage" \in DOMAIN u
  BY <1>1, <1>3 DEF TurnRecords
<1>5. CASE Memory!Save(s, u, "closing", u.hist)
  BY <1>4, <1>5, SavedStage
<1>6. CASE stream' = [stream EXCEPT ![s] = [u EXCEPT !.stage = "building"]]
  <2>1. [u EXCEPT !.stage = "building"].stage = "building"
    BY <1>4
  <2>. QED BY <1>6, <2>1
<1>. QED BY <1>2, <1>3, <1>5, <1>6

\* The answers of a round are stored under names no earlier answer has, and what they find
\* joins what the session knows.
LEMMA FoundRound ==
    ASSUME MemoryInv, FoundInv, NEW s \in Streams, NEW batch \in Batches, Memory!Round(s, batch)
    PROVE  FoundInv'
<1> DEFINE order == [i \in DOMAIN batch |-> <<stream[s].turn, Len(stream[s].hist), i>>]
           calls == Memory!ToSet(order)
<1>1. MemoryTyped /\ NamesInv
  BY DEF MemoryInv
<1>2. PICK A : stream \in [Streams -> TurnRecords(A)]
  BY <1>1 DEF MemoryTyped
<1>3. stream[s].stage = "asking"
  BY DEF Memory!Round
<1>4. DOMAIN batch = 1..Len(batch) /\ Len(batch) \in Nat
  BY MemoryAssumption
<1>5. PICK outcome :
         /\ \A i \in DOMAIN batch : outcome[i] \in Memory!Outcomes(s, batch[i])
         /\ Memory!Store([c \in calls |-> outcome[c[3]]], order)
  BY DEF Memory!Round
<1>15. PICK t : t.stage # "asking" /\ stream' = [stream EXCEPT ![s] = t]
  BY RoundMoves
<1> DEFINE results == [c \in calls |-> outcome[c[3]]]
<1>6. ASSUME NEW r \in Streams, stream'[r].stage = "asking"
      PROVE  r # s /\ stream'[r] = stream[r]
  BY <1>2, <1>6, <1>15
<1>7. ASSUME NEW i \in DOMAIN batch
      PROVE  /\ order[i] \in calls /\ order[i] = <<stream[s].turn, Len(stream[s].hist), i>>
             /\ results[order[i]] = outcome[i] /\ outcome[i].found \in Seq(Things)
  <2>1. order[i] \in calls /\ order[i] = <<stream[s].turn, Len(stream[s].hist), i>>
    BY DEF Memory!ToSet
  <2>2. \A hit \in Sources : <<hit>> \in Seq(Things)
    BY DEF Things
  <2>3. outcome[i] \in Memory!Outcomes(s, batch[i])
    BY <1>5
  <2>4. outcome[i].found \in Seq(Things)
    BY <2>2, <2>3, OutcomeFinds
  <2>. QED BY <2>1, <2>4
<1>8. ASSUME NEW c \in calls
      PROVE  c[1] = stream[s].turn /\ c[2] = Len(stream[s].hist) /\ results[c].found \in Seq(Things)
  <2>1. PICK i \in DOMAIN batch : c = order[i]
    BY DEF Memory!ToSet
  <2>. QED BY <1>7, <2>1
<1>. HIDE DEF results
<1>9. /\ refs' = Memory!RefsWith(results)
      /\ facts' = Memory!FactsWith(results, order)
      /\ artifact' = Memory!ArtifactWith(results)
  BY <1>5 DEF Memory!Store, results
<1>10. DOMAIN results = calls
  BY DEF results
<1>. HIDE DEF calls
<1>11. /\ refs' \in [DOMAIN refs \cup calls -> Seq(Things)]
       /\ \A c \in DOMAIN refs : c \notin calls => refs'[c] = refs[c]
  BY <1>8, <1>9, <1>10 DEF Memory!RefsWith, FoundInv
<1>12. artifact' \in BOOLEAN /\ (artifact => artifact')
  BY <1>9 DEF Memory!ArtifactWith, FoundInv
<1>13. facts' \in Seq(Things) /\ Memory!ToSet(facts) \subseteq Memory!ToSet(facts')
  <2> DEFINE n == Len(order)
             list(i) == IF i > n THEN facts ELSE results[order[n + 1 - i]].found
             lists == [i \in 1..(n + 1) |-> list(i)]
  <2>1. DOMAIN order = 1..n /\ n \in Nat /\ DOMAIN order = DOMAIN batch
    BY <1>4
  <2>2. facts' = Memory!Distinct(Memory!Joined(lists))
    BY <1>9, Zenon DEF Memory!FactsWith
  <2>3. \A i \in DOMAIN order : results[order[i]].found \in Seq(Things)
    BY <1>7, <1>8, <2>1
  <2>. HIDE DEF order, n
  <2>4. ASSUME NEW i \in 1..(n + 1) PROVE list(i) \in Seq(Things)
    <3>1. CASE i > n
      BY <3>1 DEF FoundInv
    <3>2. CASE ~(i > n)
      <4>1. n + 1 - i \in DOMAIN order
        BY <2>1, <3>2
      <4>. QED BY <2>3, <3>2, <4>1
    <3>. QED BY <3>1, <3>2
  <2>5. lists[n + 1] = facts /\ n + 1 \in DOMAIN lists
    BY <2>1
  <2>. HIDE DEF list
  <2>6. lists \in Seq(Seq(Things))
    BY <2>1, <2>4
  <2>. HIDE DEF lists
  <2>7. /\ Memory!Joined(lists) \in Seq(Things)
        /\ Memory!ToSet(facts) \subseteq Memory!ToSet(Memory!Joined(lists))
    BY <2>5, <2>6, JoinedIs
  <2>. QED BY <2>2, <2>7, DistinctIs
<1>14. ASSUME NEW r \in Streams, stream'[r].stage = "asking"
       PROVE  /\ Answered(stream'[r].hist) \subseteq DOMAIN refs'
              /\ Cardinality(KnownTo(refs', facts', artifact', stream'[r].hist)) <= Limit
                    => FoundBy(refs', stream'[r].hist) \subseteq stream'[r].allow
  <2> DEFINE h == stream[r].hist
  <2>1. r # s /\ stream'[r] = stream[r] /\ stream[r].stage = "asking"
    BY <1>6, <1>14
  <2>2. Answered(h) \subseteq DOMAIN refs /\ h \in Seq(Texts) /\ Referred(h, DOMAIN refs)
    BY <2>1, HistoryReferred DEF FoundInv
  <2>3. ASSUME NEW c \in Answered(h) PROVE c \notin calls
    <3>1. PICK i \in DOMAIN h : h[i].role = "tool" /\ c \in h[i].calls
      BY DEF Answered
    <3>2. h[i] \in Known
      BY <3>1, KnownIs DEF Spoken
    <3>3. WellNamed(h[i]) /\ h[i].id[1] \in Nat /\ h[i].id[2] \in Nat
      BY <1>1, <3>2 DEF NamesInv, Named, Texts
    <3>4. PICK l \in Nat : \E j \in Nat : h[i].calls = {<<h[i].id[1], l, j>>} /\ h[i].id[2] = l + j
      BY <3>1, <3>3 DEF WellNamed
    <3>5. c[1] = h[i].id[1] /\ c[2] = l /\ h[i].id[2] >= l
      BY <3>1, <3>4
    <3>6. h[i].id[1] = stream[s].turn => h[i].id[2] < Len(stream[s].hist)
      BY <1>1, <1>3, <3>2 DEF NamesInv, Past
    <3>7. Len(stream[s].hist) \in Nat
      BY <1>1, TurnTyped
    <3>. QED BY <1>8, <3>3, <3>5, <3>6, <3>7
  <2>4. FoundBy(refs', h) = FoundBy(refs, h)
    BY <1>11, <2>2, <2>3 DEF FoundBy
  <2>5. Answered(h) \subseteq DOMAIN refs'
    BY <1>11, <2>2
  <2>6. KnownTo(refs, facts, artifact, h) \in SUBSET KnownTo(refs', facts', artifact', h)
    BY <1>12, <1>13, <2>4 DEF KnownTo
  <2>7. IsFiniteSet(KnownTo(refs', facts', artifact', h))
    <3>1. IsFiniteSet(FoundBy(refs', h))
      BY <2>2, <2>4, FoundIs DEF FoundInv
    <3>2. IsFiniteSet(Memory!ToSet(facts')) /\ IsFiniteSet(Memory!ToSet(Bindable))
      BY <1>13, FirstsAre, ThingsAre
    <3>3. IsFiniteSet(FoundBy(refs', h) \cup Memory!ToSet(facts') \cup Memory!ToSet(Bindable) \cup Matches)
      BY <3>1, <3>2, ThingsAre, FS_Union
    <3>. QED BY <3>1, <3>3 DEF KnownTo
  <2>8. ASSUME Cardinality(KnownTo(refs', facts', artifact', h)) <= Limit
        PROVE  Cardinality(KnownTo(refs, facts, artifact, h)) <= Limit
    <3>1. /\ Cardinality(KnownTo(refs, facts, artifact, h)) <= Cardinality(KnownTo(refs', facts', artifact', h))
          /\ IsFiniteSet(KnownTo(refs, facts, artifact, h))
      BY <2>6, <2>7, FS_Subset
    <3>2. /\ Cardinality(KnownTo(refs, facts, artifact, h)) \in Nat
          /\ Cardinality(KnownTo(refs', facts', artifact', h)) \in Nat /\ Limit \in Nat
      BY <2>7, <3>1, ThingsAre, FS_CardinalityType
    <3>. QED BY <2>8, <3>1, <3>2
  <2>. HIDE DEF h
  <2>9. stream'[r].hist = h /\ stream'[r].allow = stream[r].allow
    BY <2>1 DEF h
  <2>10. Cardinality(KnownTo(refs, facts, artifact, h)) <= Limit => FoundBy(refs, h) \subseteq stream[r].allow
    BY <2>1 DEF FoundInv, h
  <2>. QED BY <2>4, <2>5, <2>8, <2>9, <2>10
<1>. QED BY <1>11, <1>12, <1>13, <1>14 DEF FoundInv

LEMMA FoundInitially == Memory!Init => FoundInv
<1>. SUFFICES ASSUME Memory!Init PROVE FoundInv
  OBVIOUS
<1>1. facts = <<>> /\ refs = <<>> /\ artifact = FALSE /\ \A s \in Streams : stream[s] = Memory!Idle
  BY DEF Memory!Init
<1>2. Memory!Idle.stage # "asking"
  BY DEF Memory!Idle
<1>3. <<>> \in Seq(Things) /\ <<>> \in [DOMAIN <<>> -> Seq(Things)]
  OBVIOUS
<1>. QED BY <1>1, <1>2, <1>3 DEF FoundInv

LEMMA FoundStep == MemoryInv /\ FoundInv /\ [Memory!Next]_memoryVars => FoundInv'
<1>. SUFFICES ASSUME MemoryInv, FoundInv, [Memory!Next]_memoryVars PROVE FoundInv'
  OBVIOUS
<1>1. PICK A : stream \in [Streams -> TurnRecords(A)]
  BY DEF MemoryInv, MemoryTyped
<1>2. ASSUME NEW s \in Streams, NEW t, stream' = [stream EXCEPT ![s] = t], t.stage # "asking",
             refs' = refs, facts' = facts, artifact' = artifact
      PROVE  FoundInv'
  <2>1. \A r \in Streams : stream'[r].stage = "asking" => stream'[r] = stream[r]
    BY <1>1, <1>2
  <2>. QED BY <1>2, <2>1, FoundKeeps
<1>3. ASSUME NEW s \in Streams, NEW report \in BOOLEAN, Memory!Begin(s, report) PROVE FoundInv'
  <2> DEFINE h == Append(Memory!History, Memory!Message(<<turns + 1, 0>>, "prompt", {}))
             turn == [Memory!Idle EXCEPT !.turn = turns + 1, !.hist = h]
             said == <<Memory!Message(<<turns + 1, 0>>, "user", {})>>
  <2>1. \/ Memory!Save(s, turn, "opening", said)
        \/ stream' = [stream EXCEPT ![s] = [turn EXCEPT !.stage = "building"]]
    BY <1>3 DEF Memory!Begin
  <2>2. "stage" \in DOMAIN turn
    BY DEF Memory!Idle
  <2>. HIDE DEF turn, said
  <2>3. [turn EXCEPT !.stage = "building"].stage = "building"
    BY <2>2
  <2>4. PICK t : t.stage # "asking" /\ stream' = [stream EXCEPT ![s] = t]
    <3>1. CASE Memory!Save(s, turn, "opening", said)
      <4>1. PICK t : t.stage = "opening" /\ stream' = [stream EXCEPT ![s] = t]
        BY <2>2, <3>1, SavedStage
      <4>. QED BY <4>1
    <3>2. CASE stream' = [stream EXCEPT ![s] = [turn EXCEPT !.stage = "building"]]
      <4>1. PICK t : t = [turn EXCEPT !.stage = "building"]
        OBVIOUS
      <4>. QED BY <2>3, <3>2, <4>1
    <3>. QED BY <2>1, <3>1, <3>2
  <2>. QED BY <1>2, <1>3, <2>4 DEF Memory!Begin
<1>4. ASSUME NEW s \in Streams, Memory!CommitSave(s) PROVE FoundInv'
  <2>1. PICK u \in TurnRecords(A) : u = stream[s]
    BY <1>1
  <2>2. /\ Memory!Idle.stage = "idle"
        /\ [u EXCEPT !.stage = "building", !.add = {}, !.drop = {}].stage = "building"
    BY DEF Memory!Idle, TurnRecords
  <2>3. \/ stream' = [stream EXCEPT ![s] = Memory!Idle]
        \/ stream' = [stream EXCEPT ![s] = [u EXCEPT !.stage = "building", !.add = {}, !.drop = {}]]
    BY <1>1, <1>4, <2>1 DEF Memory!CommitSave
  <2>4. PICK t : t.stage # "asking" /\ stream' = [stream EXCEPT ![s] = t]
    BY <2>2, <2>3
  <2>. QED BY <1>2, <1>4, <2>4 DEF Memory!CommitSave
<1>5. ASSUME NEW s \in Streams, Memory!AnswerFinal(s) PROVE FoundInv'
  <2>1. "stage" \in DOMAIN stream[s]
    BY <1>1 DEF TurnRecords
  <2>2. PICK t : t.stage # "asking" /\ stream' = [stream EXCEPT ![s] = t]
    BY <1>5, <2>1, SavedStage DEF Memory!AnswerFinal
  <2>. QED BY <1>2, <1>5, <2>2 DEF Memory!AnswerFinal
<1>6. ASSUME NEW s \in Streams, Memory!Fail(s) PROVE FoundInv'
  <2>1. Memory!Idle.stage # "asking"
    BY DEF Memory!Idle
  <2>. QED BY <1>2, <1>6, <2>1 DEF Memory!Fail
<1>7. CASE UNCHANGED memoryVars
  BY <1>7, FoundKeeps DEF memoryVars
<1>8. CASE Memory!Next
  BY <1>3, <1>4, <1>5, <1>6, <1>8, FoundBuild, FoundRound DEF Memory!Next
<1>. QED BY <1>7, <1>8

LEMMA FoundInvocable == FoundInv => Memory!FoundCanBeInvoked
<1>. SUFFICES ASSUME FoundInv, NEW s \in Streams, stream[s].stage = "asking",
                     Cardinality(KnownTo(refs, facts, artifact, stream[s].hist)) <= Limit
              PROVE  FoundBy(refs, stream[s].hist) \subseteq stream[s].allow
  BY SameSize DEF Memory!FoundCanBeInvoked, KnownTo, FoundBy, Answered
<1>. QED BY DEF FoundInv

\* What any call of a conversation found can be invoked in every later turn, whatever other
\* turns of the session store and trim meanwhile, as long as what competes for the working
\* set fits into it.
THEOREM FoundStaysInvocable == SystemSpec => []FoundCanBeInvoked
<1>1. SystemInit => MemoryInv /\ FoundInv
  BY MemorySteps, MemoryInitially, FoundInitially
<1>2. MemoryInv /\ FoundInv /\ [SystemNext]_systemVars => (MemoryInv /\ FoundInv)'
  BY MemorySteps, MemoryStep, FoundStep
<1>3. FoundInv => FoundCanBeInvoked
  BY FoundInvocable DEF FoundCanBeInvoked
<1>. QED BY <1>1, <1>2, <1>3, PTL DEF SystemSpec
=============================================================================
