------------------------------ MODULE WinNode ------------------------------
(***************************************************************************)
(* The Windows node daemon (node_win_client) attached to the Center's job  *)
(* runtime.  Unlike the Linux daemon it sends every message once: a send   *)
(* that fails raises in the task that made it, and what that does depends  *)
(* on where execute_job stands.  It reconciles when it starts and whenever *)
(* a heartbeat has failed.                                                 *)
(*                                                                         *)
(* Where execute_job stands: "accepting" and "starting" await job.accepted *)
(* and the started event, outside the try; "executing", "result" (the      *)
(* result event) and "finishing" (job.finished) inside it; "event" and     *)
(* "reporting" are the event and the job.finished of an except clause.     *)
(***************************************************************************)
EXTENDS JobStatusMachine, FiniteSets

CONSTANTS
    Jobs, Keys, NoJob, KeysOf,
    n,              \* the node
    MaxConcurrent,  \* settings.max_concurrent_jobs
    MaxRestarts,    \* bound: restarts of the Center
    MaxCrashes,     \* bound: crashes of the daemon
    MaxLosses       \* bound: requests whose answer never reaches the daemon

ASSUME WinAssumption ==
    /\ KeysOf \in [Jobs -> SUBSET Keys]
    /\ NoJob \notin Jobs
    /\ IsFiniteSet(Jobs)
    /\ MaxConcurrent \in Nat \ {0}
    /\ MaxRestarts \in Nat /\ MaxCrashes \in Nat /\ MaxLosses \in Nat

VARIABLES
    admitted, status, lease, held, inv, node, beat, asked, restarts,  \* JobRuntime's
    up, connected,
    listed,     \* self.jobs: the jobs the daemon remembers
    local,      \* LocalJobState.status
    stage,      \* where execute_job stands, "none" without a task
    renewing,   \* jobs with a _lease_loop
    stored,     \* job_results.status
    reported,   \* jobs with job_results.reported_at
    known,      \* the known_jobs of the reconciliation in progress
    todo,       \* its entries the Center has still to look at
    closing,    \* its entries answered accept_result or discard_result
    cancelling, \* its entries answered cancel
    pending,    \* requests the daemon gave up on that the Center may still take
    truth,      \* history: how the function ended
    runs,       \* history: how often a job was executed (more than 2 counts as 2)
    crashes, losses

cvars == <<admitted, status, lease, held, inv, node, beat, asked, restarts>>
tasks == <<listed, local, stage, renewing, stored, reported, truth, runs>>
talk  == <<known, todo, closing, cancelling>>
life  == <<up, connected, crashes>>
vars  == <<cvars, tasks, talk, life, pending, losses>>

Center == INSTANCE JobRuntime WITH
    Nodes <- {n}, NodeOf <- [j \in Jobs |-> n], MaxSlots <- MaxConcurrent

Stages == {"none", "accepting", "starting", "executing", "result", "finishing", "event",
           "reporting"}
InTry  == {"executing", "result", "finishing"}
Kinds  == {"accepted", "finished"}
Messages == [kind : Kinds, job : Jobs, result : {"running"} \cup TERMINAL_STATUSES]

Settled(j) == status[j] \in TERMINAL_STATUSES
Running    == {j \in listed : local[j] = "running"}

TypeOK ==
    /\ up \in BOOLEAN /\ connected \in BOOLEAN /\ (connected => up)
    /\ listed \subseteq Jobs
    /\ local \in [Jobs -> {"none", "running"} \cup TERMINAL_STATUSES]
    /\ stage \in [Jobs -> Stages]
    /\ renewing \subseteq {j \in Jobs : stage[j] # "none"}
    /\ stored \in [Jobs -> {"none"} \cup TERMINAL_STATUSES]
    /\ reported \subseteq {j \in Jobs : stored[j] # "none"}
    /\ known \in [Jobs -> {"none", "running"} \cup TERMINAL_STATUSES]
    /\ todo \subseteq Jobs /\ closing \subseteq Jobs /\ cancelling \subseteq Jobs
    /\ pending \subseteq Messages
    /\ truth \in [Jobs -> {"none"} \cup TERMINAL_STATUSES]
    /\ runs \in [Jobs -> 0..2]
    /\ crashes \in 0..MaxCrashes /\ losses \in 0..MaxLosses

Init ==
    /\ Center!Init
    /\ up = FALSE /\ connected = FALSE
    /\ listed = {}
    /\ local = [j \in Jobs |-> "none"]
    /\ stage = [j \in Jobs |-> "none"]
    /\ renewing = {}
    /\ stored = [j \in Jobs |-> "none"]
    /\ reported = {}
    /\ known = [j \in Jobs |-> "none"]
    /\ todo = {} /\ closing = {} /\ cancelling = {}
    /\ pending = {}
    /\ truth = [j \in Jobs |-> "none"]
    /\ runs = [j \in Jobs |-> 0]
    /\ crashes = 0 /\ losses = 0

---------------------------------------------------------------------------
\* What a send does to the task that awaits it.

Message(j) == [kind |-> IF stage[j] = "accepting" THEN "accepted" ELSE "finished",
               job |-> j, result |-> local[j]]

\* The stages that await an answer which matters to the Center.
Asking(j) == stage[j] \in {"accepting", "finishing", "reporting"}

\* The exception of a failed send: inside the try it reaches "except Exception", and
\* the job counts as failed; outside, and in an except clause, it ends the task.
Raise(j) ==
    IF stage[j] \in InTry
    THEN /\ local' = [local EXCEPT ![j] = "failed"]
         /\ stage' = [stage EXCEPT ![j] = "event"]
         /\ UNCHANGED renewing
    ELSE /\ stage' = [stage EXCEPT ![j] = "none"]
         /\ renewing' = renewing \ {j}
         /\ UNCHANGED local

\* mark_reported updates a row if there is one; its errors are suppressed.
MarkReported(S) ==
    \E R \in SUBSET {j \in S : stored[j] # "none"} : reported' = reported \cup R

\* The first thing _finish does; errors of the store are suppressed.
Store(j) == stored' = [stored EXCEPT ![j] = local[j]] \/ UNCHANGED stored

\* The answer is lost or late, or the request never arrives.
Lose(m) ==
    /\ losses < MaxLosses
    /\ losses' = losses + 1
    /\ pending' = pending \cup m

\* How the Center takes a message, and when it answers 409.
Handled(m) ==
    \/ m.kind = "accepted" /\ Center!HandleJobAccepted(m.job)
    \/ m.kind = "finished" /\ Center!HandleJobFinished(m.job, m.result)
    \/ m.kind = "finished" /\ status[m.job] = m.result /\ UNCHANGED cvars

Refused(m) ==
    /\ \/ m.kind = "accepted" /\ status[m.job] # "claimed"
       \/ /\ m.kind = "finished" /\ status[m.job] # m.result
          /\ ~is_valid_transition(status[m.job], m.result)
    /\ UNCHANGED cvars

---------------------------------------------------------------------------
\* execute_job.

\* poll_once asks for capacity and names its running jobs; the Center subtracts them
\* from a capacity that is already what is free.
Free == MaxConcurrent - Cardinality(Running)
AvailableSlots == Free - Cardinality(Running)

Poll ==
    /\ up /\ connected
    /\ AvailableSlots > 0
    /\ Center!HandleJobPoll(n, AvailableSlots)
    /\ \/ LET new == {j \in Jobs : status'[j] # status[j]} \ listed
          IN  /\ listed' = listed \cup new
              /\ local' = [j \in Jobs |-> IF j \in new THEN "running" ELSE local[j]]
              /\ stage' = [j \in Jobs |-> IF j \in new THEN "accepting" ELSE stage[j]]
              /\ UNCHANGED <<losses, pending>>
       \/ Lose({}) /\ UNCHANGED <<listed, local, stage>>
    /\ UNCHANGED <<talk, life, renewing, stored, reported, truth, runs>>

\* job.accepted, or job.finished in the try or in an except clause, is answered.
Answered(j) ==
    /\ Asking(j)
    /\ Handled(Message(j))
    /\ IF stage[j] = "accepting"
       THEN /\ stage' = [stage EXCEPT ![j] = "starting"]
            /\ UNCHANGED <<renewing, reported>>
       ELSE /\ stage' = [stage EXCEPT ![j] = "none"]
            /\ renewing' = renewing \ {j}
            /\ MarkReported({j})
    /\ UNCHANGED <<talk, life, listed, local, stored, truth, runs, pending, losses>>

\* Mutant: a result is marked reported although its report failed.
UnansweredReported(j) ==
    /\ Asking(j)
    /\ Lose({Message(j)})
    /\ Raise(j)
    /\ MarkReported({j})
    /\ UNCHANGED <<cvars, talk, life, listed, stored, truth, runs>>

Unanswered(j) ==
    /\ Asking(j)
    /\ \/ Refused(Message(j)) /\ UNCHANGED <<pending, losses>>
       \/ Lose({Message(j)}) /\ UNCHANGED cvars
    /\ Raise(j)
    /\ UNCHANGED <<talk, life, listed, stored, reported, truth, runs>>

\* job.event changes nothing at the Center.  What follows it: the execution and its
\* lease loop, or _finish.
EventSent(j) ==
    /\ stage[j] \in {"starting", "result", "event"}
    /\ IF stage[j] = "starting"
       THEN /\ stage' = [stage EXCEPT ![j] = "executing"]
            /\ renewing' = renewing \cup {j}
            /\ runs' = [runs EXCEPT ![j] = IF @ = 2 THEN 2 ELSE @ + 1]
            /\ UNCHANGED stored
       ELSE /\ stage' = [stage EXCEPT ![j] = IF @ = "result" THEN "finishing" ELSE "reporting"]
            /\ Store(j)
            /\ UNCHANGED <<renewing, runs>>
    /\ UNCHANGED <<cvars, talk, life, listed, local, reported, truth, pending, losses>>

EventFails(j) ==
    /\ stage[j] \in {"starting", "result", "event"}
    /\ Lose({})
    /\ Raise(j)
    /\ UNCHANGED <<cvars, talk, life, listed, stored, reported, truth, runs>>

\* The function returns, raises or exceeds timeout_sec.
Execute(j) ==
    /\ stage[j] = "executing"
    /\ \E result \in {"succeeded", "failed", "timeout"} :
        /\ truth' = [truth EXCEPT ![j] = result]
        /\ local' = [local EXCEPT ![j] = result]
        /\ stage' = [stage EXCEPT ![j] = IF result = "succeeded" THEN "result" ELSE "event"]
    /\ UNCHANGED <<cvars, talk, life, listed, renewing, stored, reported, runs, pending, losses>>

\* _lease_loop: a denied renewal changes nothing, a failed one ends the loop.
RenewLease(j) ==
    /\ j \in renewing /\ local[j] = "running"
    /\ \/ /\ Center!HandleJobLeaseRenew(j)
          /\ UNCHANGED <<renewing, losses, pending>>
       \/ /\ Center!HandleJobLeaseRenew(j) \/ UNCHANGED cvars
          /\ Lose({})
          /\ renewing' = renewing \ {j}
    /\ UNCHANGED <<talk, life, listed, local, stage, stored, reported, truth, runs>>

\* A request nobody waits for any more reaches its handler.
Late(m) ==
    /\ m \in pending
    /\ pending' = pending \ {m}
    /\ Handled(m) \/ Refused(m)
    /\ UNCHANGED <<tasks, talk, life, losses>>

---------------------------------------------------------------------------
\* The connection.

Start ==
    /\ ~up
    /\ up' = TRUE
    /\ UNCHANGED <<cvars, tasks, talk, connected, crashes, pending, losses>>

\* The process ends: tasks and self.jobs are gone, the store stays.
Crash ==
    /\ up /\ crashes < MaxCrashes
    /\ up' = FALSE /\ connected' = FALSE /\ crashes' = crashes + 1
    /\ listed' = {} /\ renewing' = {}
    /\ local' = [j \in Jobs |-> "none"]
    /\ stage' = [j \in Jobs |-> "none"]
    /\ known' = [j \in Jobs |-> "none"]
    /\ todo' = {} /\ closing' = {} /\ cancelling' = {}
    /\ UNCHANGED <<cvars, stored, reported, truth, runs, pending, losses>>

Heartbeat ==
    /\ up /\ connected
    /\ \/ Center!HandleHeartbeat(n) /\ UNCHANGED <<connected, losses, pending>>
       \/ Center!HandleHeartbeat(n) /\ Lose({}) /\ connected' = FALSE
       \/ UNCHANGED cvars /\ Lose({}) /\ connected' = FALSE
    /\ UNCHANGED <<tasks, talk, up, crashes>>

\* reconcile_jobs: the jobs in memory, and the stored results that are not reported.
Known(j) ==
    IF j \in listed THEN local[j]
    ELSE IF stored[j] # "none" /\ j \notin reported THEN stored[j]
    ELSE "none"

Unasked == /\ known' = [j \in Jobs |-> "none"]
           /\ todo' = {} /\ closing' = {} /\ cancelling' = {}

\* bootstrap: node.hello and the capabilities, then the reconciliation is sent.  One
\* without known jobs is answered with no action.
Bootstrap ==
    /\ up /\ ~connected
    /\ \A j \in Jobs : known[j] = "none"
    /\ IF node[n] = "online" THEN UNCHANGED cvars ELSE Center!HandleHello(n)
    /\ known' = [j \in Jobs |-> Known(j)]
    /\ todo' = {j \in Jobs : Known(j) # "none"}
    /\ connected' = (todo' = {})
    /\ UNCHANGED <<tasks, up, crashes, closing, cancelling, pending, losses>>

\* Mutant: a stored result is taken for a success.
EntryOptimistic(j) ==
    /\ j \in todo /\ known[j] \in TERMINAL_STATUSES
    /\ Center!ReconcileToTerminal(j, "succeeded")
    /\ todo' = todo \ {j}
    /\ closing' = closing \cup {j}
    /\ UNCHANGED <<tasks, life, known, cancelling, pending, losses>>

\* handle_reconcile_jobs on one entry.
Entry(j) ==
    /\ j \in todo
    /\ todo' = todo \ {j}
    /\ \/ /\ known[j] \in TERMINAL_STATUSES
          /\ \/ Settled(j) /\ UNCHANGED cvars
             \/ Center!ReconcileToTerminal(j, known[j])
          /\ closing' = closing \cup {j}
          /\ UNCHANGED cancelling
       \/ /\ known[j] = "running"
          /\ cancelling' = IF Settled(j) \/ status[j] = "cancelling"
                           THEN cancelling \cup {j} ELSE cancelling
          /\ UNCHANGED <<cvars, closing>>
    /\ UNCHANGED <<tasks, life, known, pending, losses>>

\* A result the state machine refuses: 409 for the whole reconciliation, after the
\* entries before it were committed.  The daemon bootstraps again.
EntryRefused(j) ==
    /\ j \in todo
    /\ known[j] \in TERMINAL_STATUSES /\ ~Settled(j) /\ ~CanReconcile(status[j], known[j])
    /\ Unasked
    /\ UNCHANGED <<cvars, tasks, life, pending, losses>>

BootstrapFails ==
    /\ \E j \in Jobs : known[j] # "none"
    /\ Lose({})
    /\ Unasked
    /\ UNCHANGED <<cvars, tasks, life>>

\* _apply_reconciliation_actions.  A cancelled task: in the try its job counts as
\* cancelled, elsewhere the task just ends; its request may still be taken.
Reconciled ==
    LET stopped == {j \in cancelling : stage[j] # "none"}
    IN  /\ todo = {} /\ \E j \in Jobs : known[j] # "none"
        /\ MarkReported(closing)
        /\ listed' = listed \ {j \in closing : local[j] # "running"}
        /\ local' = [j \in Jobs |-> IF j \in stopped /\ stage[j] \in InTry
                                    THEN "cancelled" ELSE local[j]]
        /\ truth' = [j \in Jobs |-> IF j \in stopped /\ stage[j] = "executing"
                                    THEN "cancelled" ELSE truth[j]]
        /\ stage' = [j \in Jobs |-> IF j \notin stopped THEN stage[j]
                                    ELSE IF stage[j] \in InTry THEN "event" ELSE "none"]
        /\ renewing' = renewing \ {j \in stopped : stage[j] \notin InTry}
        /\ pending' = pending \cup {Message(j) : j \in {i \in stopped : Asking(i)}}
        /\ Unasked
        /\ connected' = TRUE
        /\ UNCHANGED <<cvars, up, crashes, stored, runs, losses>>

---------------------------------------------------------------------------
\* The Center's own steps, and its restart, which drops the handlers in progress.

CenterStep ==
    /\ \/ \E j \in Jobs : \/ Center!ResolveFunction(j)
                          \/ Center!CreateJob(j)
                          \/ Center!CreateJobConflict(j)
                          \/ Center!CancelJob(j)
                          \/ Center!LeaseRunsOut(j)
       \/ Center!TimeoutScan
       \/ Center!ReleaseLocksForTerminalJobs
    /\ UNCHANGED <<tasks, talk, life, pending, losses>>

CenterRestarts ==
    /\ Center!RestartCenter
    /\ pending' = {}
    /\ UNCHANGED <<tasks, talk, life, losses>>

TaskStep(j) ==
    \/ Answered(j) \/ Unanswered(j)
    \/ EventSent(j) \/ EventFails(j)
    \/ Execute(j)
    \/ RenewLease(j)

Next ==
    \/ Poll
    \/ \E j \in Jobs : TaskStep(j)
    \/ \E m \in pending : Late(m)
    \/ Start \/ Crash \/ Heartbeat
    \/ Bootstrap \/ BootstrapFails \/ Reconciled
    \/ \E j \in Jobs : Entry(j) \/ EntryRefused(j)
    \/ CenterStep \/ CenterRestarts

Spec == Init /\ [][Next]_vars

\* The bootstrap is retried for as long as the process runs and answered when nothing
\* is lost; time passes and the Center scans.
FairSpec ==
    /\ Spec
    /\ WF_vars(Bootstrap)
    /\ WF_vars(Reconciled)
    /\ \A j \in Jobs : /\ WF_vars(Entry(j) \/ EntryRefused(j))
                       /\ WF_vars(Center!LeaseRunsOut(j) /\ UNCHANGED <<tasks, talk, life, pending, losses>>)
    /\ WF_vars(Center!TimeoutScan /\ UNCHANGED <<tasks, talk, life, pending, losses>>)
---------------------------------------------------------------------------
\* Properties.

\* Whatever is lost or comes late, a job's side effects happen at most once.
RunsOnce == \A j \in Jobs : runs[j] <= 1

\* The Center records a success only of a job whose function returned, although a
\* success may be recorded as a failure (a failed send in the try).
SuccessIsReal == \A j \in Jobs : status[j] = "succeeded" => truth[j] = "succeeded"

\* The daemon forgets a result, in memory or in its store, only when the Center has
\* settled the job: nothing unreported is marked reported or dropped.
ForgottenIsSettled ==
    \A j \in Jobs :
        (j \in reported \/ (local[j] \in TERMINAL_STATUSES /\ j \notin listed)) => Settled(j)

\* A daemon that lost its connection gets it back although the Center answers 409 to a
\* result it cannot take (a success of a job it is cancelling): the lease of that job
\* runs out, the scanner settles it, and the next bootstrap discards the result.
Reconnects == (up /\ ~connected) ~> (connected \/ ~up)

\* The Center with this daemon attached behaves as the Center alone is specified to.
ImplementsCenter == Center!Spec

---------------------------------------------------------------------------
\* What a test says and the code does not do.

\* "poll once drains available jobs until capacity is full" (tests/test_protocol.py): a
\* daemon with a free slot asks the Center for at least one job.
FreeSlotIsOffered == Free > 0 => AvailableSlots > 0
=============================================================================
