----------------------------- MODULE LinuxNode -----------------------------
(***************************************************************************)
(* The Linux node daemon (yequnode-core) attached to the Center's job      *)
(* runtime over YQP.  The Center is JobRuntime; every step that touches    *)
(* it is one of its actions.  Between them: HTTP requests that are lost,   *)
(* answered late or not at all, the client's retries of the same envelope, *)
(* and the Center's message dedup, which is committed before the handler   *)
(* runs.  The daemon's job store survives a crash, its tasks do not.       *)
(*                                                                         *)
(* A task of execute_job is "received" (spawned by the poll and entered in *)
(* running_jobs), "accepting" (row inserted, job.accepted in progress),    *)
(* "executing", "finishing" (job.finished in progress) or "storing";       *)
(* "none" is no entry in running_jobs.                                     *)
(***************************************************************************)
EXTENDS JobStatusMachine, FiniteSets

CONSTANTS
    Jobs, Keys, NoJob, KeysOf,
    n,            \* the node
    Long,         \* jobs of LONG_RUNNING_CAPABILITIES: cancellable, they renew leases
    Capacity,     \* capacity the daemon reports in a poll
    MaxRetries,   \* RetryConfig.max_attempts
    MaxRestarts,  \* bound: restarts of the Center
    MaxCrashes    \* bound: crashes of the daemon

ASSUME NodeAssumption ==
    /\ KeysOf \in [Jobs -> SUBSET Keys]
    /\ NoJob \notin Jobs
    /\ IsFiniteSet(Jobs)
    /\ Long \subseteq Jobs
    /\ Capacity \in Nat \ {0}
    /\ MaxRetries \in Nat
    /\ MaxRestarts \in Nat
    /\ MaxCrashes \in Nat

VARIABLES
    admitted, status, lease, held, inv, node, beat, asked, restarts,  \* JobRuntime's
    up,         \* the daemon process runs
    boot,       \* jobs still to be reconciled before the main loop starts
    task,       \* what execute_job is doing with a job
    call,       \* its request in progress
    token,      \* jobs whose cancel token fired
    outcome,    \* what the function returned, once it did
    store,      \* job_records.status
    confirmed,  \* jobs with job_records.confirmed = 1
    seen,       \* message ids the Center recorded (yqp_messages)
    pending,    \* requests whose handler has not committed yet
    handled,    \* history: requests whose handler answered 200
    runs,       \* history: how often a job was executed (more than 2 counts as 2)
    crashes

cvars == <<admitted, status, lease, held, inv, node, beat, asked, restarts>>
tasks == <<task, call, token, outcome, store, confirmed, runs>>
net   == <<seen, pending, handled>>
life  == <<up, boot, crashes>>
vars  == <<cvars, tasks, net, life>>

Center == INSTANCE JobRuntime WITH
    Nodes <- {n}, NodeOf <- [j \in Jobs |-> n], MaxSlots <- Capacity

Stages   == {"none", "received", "accepting", "executing", "finishing", "storing"}
Kinds    == {"accepted", "finished"}
Ids      == Kinds \X Jobs
Calls    == [kind : Kinds \cup {"none"}, tries : 0..MaxRetries, at : {"client", "center"}]
Request(kind, tries, at) == [kind |-> kind, tries |-> tries, at |-> at]
NoCall   == Request("none", 0, "client")
Running  == {j \in Jobs : task[j] # "none"}
Settled(j) == status[j] \in TERMINAL_STATUSES

TypeOK ==
    /\ up \in BOOLEAN
    /\ boot \subseteq Jobs
    /\ task \in [Jobs -> Stages]
    /\ call \in [Jobs -> Calls]
    /\ token \subseteq Long
    /\ outcome \in [Jobs -> {"none"} \cup TERMINAL_STATUSES]
    /\ store \in [Jobs -> {"none", "claimed", "running"} \cup TERMINAL_STATUSES]
    /\ confirmed \subseteq Jobs
    /\ pending \subseteq seen /\ handled \subseteq seen
    /\ seen \subseteq Ids
    /\ runs \in [Jobs -> 0..2]
    /\ crashes \in 0..MaxCrashes

Init ==
    /\ Center!Init
    /\ up = FALSE
    /\ boot = {}
    /\ task = [j \in Jobs |-> "none"]
    /\ call = [j \in Jobs |-> NoCall]
    /\ token = {}
    /\ outcome = [j \in Jobs |-> "none"]
    /\ store = [j \in Jobs |-> "none"]
    /\ confirmed = {}
    /\ seen = {} /\ pending = {} /\ handled = {}
    /\ runs = [j \in Jobs |-> 0]
    /\ crashes = 0

---------------------------------------------------------------------------
\* The daemon process.

\* Daemon::run: node.hello, then the rows that are not confirmed are collected.
Start ==
    /\ ~up
    /\ up' = TRUE
    /\ boot' = {j \in Jobs : store[j] # "none"} \ confirmed
    /\ IF node[n] = "online" THEN UNCHANGED cvars ELSE Center!HandleHello(n)
    /\ UNCHANGED <<tasks, net, crashes>>

\* Mutant: "continue" is obeyed by starting the job again.
ReconcileRestarts(j) ==
    /\ up /\ j \in boot
    /\ boot' = boot \ {j}
    /\ status[j] \in {"claimed", "running"}
    /\ task' = [task EXCEPT ![j] = "executing"]
    /\ runs' = [runs EXCEPT ![j] = IF @ = 2 THEN 2 ELSE @ + 1]
    /\ UNCHANGED <<cvars, net, up, crashes, call, token, outcome, store, confirmed>>

\* One entry of the startup reconciliation.  A row that is not confirmed is never
\* terminal (StoreResult confirms what it stores), so the daemon has no result to
\* offer: a job the Center settled or is cancelling is dropped, any other is left
\* alone ("continue" is not obeyed).
ReconcileEntry(j) ==
    /\ up /\ j \in boot
    /\ boot' = boot \ {j}
    /\ \/ /\ Settled(j) \/ (status[j] = "cancelling" /\ store[j] = "running")
          /\ store' = [store EXCEPT ![j] = "cancelled"]
          /\ confirmed' = confirmed \cup {j}
       \/ /\ status[j] \in {"claimed", "running"}
             \/ (status[j] = "cancelling" /\ store[j] = "claimed")
          /\ UNCHANGED <<store, confirmed>>
    /\ UNCHANGED <<cvars, net, up, crashes, task, call, token, outcome, runs>>

\* SIGTERM, a crash, or a failed reconciliation: the spawned tasks are gone.
Crash ==
    /\ up /\ crashes < MaxCrashes
    /\ up' = FALSE /\ boot' = {} /\ crashes' = crashes + 1
    /\ task' = [j \in Jobs |-> "none"]
    /\ call' = [j \in Jobs |-> NoCall]
    /\ token' = {}
    /\ UNCHANGED <<cvars, net, outcome, store, confirmed, runs>>

MainLoop == up /\ boot = {}

\* do_poll_cycle.  When the answer is lost the retry of the same message is answered
\* as a duplicate, without the jobs: they are claimed and nobody runs them.
Poll ==
    /\ MainLoop
    /\ Cardinality(Running) < Capacity
    /\ Center!HandleJobPoll(n, Capacity - Cardinality(Running))
    /\ \/ task' = [j \in Jobs |-> IF status'[j] # status[j] THEN "received" ELSE task[j]]
       \/ UNCHANGED task
    /\ UNCHANGED <<net, life, call, token, outcome, store, confirmed, runs>>

\* do_heartbeat: the heartbeat, then the reconciliation of the running jobs, which
\* fires the cancel tokens of those the Center cancels or has settled.
Heartbeat ==
    /\ MainLoop
    /\ Center!HandleHeartbeat(n) \/ UNCHANGED cvars
    /\ \/ token' = token \cup {j \in Long : /\ task[j] = "executing"
                                            /\ Settled(j) \/ status[j] = "cancelling"}
       \/ UNCHANGED token
    /\ UNCHANGED <<net, life, task, call, outcome, store, confirmed, runs>>

---------------------------------------------------------------------------
\* execute_job.

Send(j, kind) == call' = [call EXCEPT ![j] = Request(kind, 0, "client")]

\* insert_job fails: the job is dropped and nobody tells the Center.
Receive(j) ==
    /\ task[j] = "received"
    /\ \/ /\ store' = [store EXCEPT ![j] = "claimed"]
          /\ task' = [task EXCEPT ![j] = "accepting"]
          /\ Send(j, "accepted")
       \/ /\ task' = [task EXCEPT ![j] = "none"]
          /\ UNCHANGED <<store, call>>
    /\ UNCHANGED <<cvars, net, life, token, outcome, confirmed, runs>>

\* The function returns or times out.  Its result is reported, whatever became of job.accepted.
Execute(j) ==
    /\ task[j] = "executing"
    /\ \E result \in IF j \in token THEN TERMINAL_STATUSES
                                    ELSE TERMINAL_STATUSES \ {"cancelled"} :
        outcome' = [outcome EXCEPT ![j] = result]
    /\ task' = [task EXCEPT ![j] = "finishing"]
    /\ token' = token \ {j}
    /\ Send(j, "finished")
    /\ UNCHANGED <<cvars, net, life, store, confirmed, runs>>

\* The local row is marked confirmed whether job.finished was answered or not; if it
\* cannot be written the job stays as it was.
StoreResult(j) ==
    /\ task[j] = "storing"
    /\ \/ /\ store' = [store EXCEPT ![j] = outcome[j]]
          /\ confirmed' = confirmed \cup {j}
       \/ UNCHANGED <<store, confirmed>>
    /\ task' = [task EXCEPT ![j] = "none"]
    /\ UNCHANGED <<cvars, net, life, call, token, outcome, runs>>

\* A long-running transfer renews its lease while it runs.
RenewLease(j) ==
    /\ task[j] = "executing" /\ j \in Long
    /\ Center!HandleJobLeaseRenew(j)
    /\ UNCHANGED <<tasks, net, life>>

---------------------------------------------------------------------------
\* YqpClient::send and the endpoint it talks to.

Id(j) == <<call[j].kind, j>>

\* Mutant: a result that could not be reported keeps its entry in running_jobs.
ReturnKeepsSlot(j) ==
    /\ call' = [call EXCEPT ![j] = NoCall]
    /\ IF call[j].kind = "accepted"
       THEN /\ task' = [task EXCEPT ![j] = "executing"]
            /\ store' = [store EXCEPT ![j] = "running"]
            /\ runs' = [runs EXCEPT ![j] = IF @ = 2 THEN 2 ELSE @ + 1]
       ELSE UNCHANGED <<task, store, runs>>
    /\ UNCHANGED <<token, outcome, confirmed>>

\* send() returns; execute_job logs an error and goes on, and so it does when the
\* local row cannot be updated.
Return(j) ==
    /\ call' = [call EXCEPT ![j] = NoCall]
    /\ IF call[j].kind = "accepted"
       THEN /\ task' = [task EXCEPT ![j] = "executing"]
            /\ store' = [store EXCEPT ![j] = "running"] \/ UNCHANGED store
            /\ runs' = [runs EXCEPT ![j] = IF @ = 2 THEN 2 ELSE @ + 1]
       ELSE /\ task' = [task EXCEPT ![j] = "storing"]
            /\ UNCHANGED <<store, runs>>
    /\ UNCHANGED <<token, outcome, confirmed>>

\* No answer in time, or no connection: the same envelope again, then give up.
NoAnswer(j) ==
    /\ call[j].kind # "none"
    /\ IF call[j].tries < MaxRetries
       THEN /\ call' = [call EXCEPT ![j] = Request(@.kind, @.tries + 1, "client")]
            /\ UNCHANGED <<task, token, outcome, store, confirmed, runs>>
       ELSE Return(j)
    /\ UNCHANGED <<cvars, net, life>>

\* The endpoint records the message id and commits before it calls the handler.
Arrive(j) ==
    /\ call[j].kind # "none" /\ call[j].at = "client"
    /\ Id(j) \notin seen
    /\ seen' = seen \cup {Id(j)}
    /\ pending' = pending \cup {Id(j)}
    /\ call' = [call EXCEPT ![j] = Request(@.kind, @.tries, "center")]
    /\ UNCHANGED <<cvars, life, handled, task, token, outcome, store, confirmed, runs>>

\* A retry finds its own id: 409 duplicate_message, which the client takes for done.
ArriveAgain(j) ==
    /\ call[j].kind # "none" /\ call[j].at = "client"
    /\ Id(j) \in seen
    /\ Return(j)
    /\ UNCHANGED <<cvars, net, life>>

\* Mutant: a finished job is recorded as succeeded whatever the report says.
HandleOptimistic(kind, j) ==
    \/ kind = "accepted" /\ Center!HandleJobAccepted(j) /\ handled' = handled \cup {<<kind, j>>}
    \/ kind = "finished" /\ Center!HandleJobFinished(j, "succeeded")
                         /\ handled' = handled \cup {<<kind, j>>}

\* The handler of a recorded request commits, or refuses with 409.
Handle(kind, j) ==
    \/ kind = "accepted" /\ Center!HandleJobAccepted(j) /\ handled' = handled \cup {<<kind, j>>}
    \/ kind = "finished" /\ Center!HandleJobFinished(j, outcome[j])
                         /\ handled' = handled \cup {<<kind, j>>}
    \/ \* already_terminal
       /\ kind = "finished" /\ status[j] = outcome[j]
       /\ handled' = handled \cup {<<kind, j>>} /\ UNCHANGED cvars
    \/ /\ kind = "accepted" /\ status[j] # "claimed"
       /\ UNCHANGED <<cvars, handled>>
    \/ /\ kind = "finished" /\ status[j] # outcome[j]
       /\ ~is_valid_transition(status[j], outcome[j])
       /\ UNCHANGED <<cvars, handled>>

Process(kind, j) ==
    /\ <<kind, j>> \in pending
    /\ pending' = pending \ {<<kind, j>>}
    /\ Handle(kind, j)
    /\ \/ \* the answer is lost, or the client no longer waits for it
          UNCHANGED tasks
       \/ /\ call[j].kind = kind /\ call[j].at = "center"
          /\ Return(j)
    /\ UNCHANGED <<seen, life>>

\* The handler fails after the id was recorded (database error, unreachable YCR).
HandlerFails(kind, j) ==
    /\ <<kind, j>> \in pending
    /\ pending' = pending \ {<<kind, j>>}
    /\ UNCHANGED <<cvars, tasks, life, seen, handled>>

---------------------------------------------------------------------------
\* The Center's own steps.

CenterStep ==
    /\ \/ \E j \in Jobs : \/ Center!ResolveFunction(j)
                          \/ Center!CreateJob(j)
                          \/ Center!CreateJobConflict(j)
                          \/ Center!CancelJob(j)
                          \/ Center!LeaseRunsOut(j)
       \/ Center!TimeoutScan
       \/ Center!ReleaseLocksForTerminalJobs
    /\ UNCHANGED <<tasks, net, life>>

\* Handlers in progress die with the Center.
CenterRestarts ==
    /\ Center!RestartCenter
    /\ pending' = {}
    /\ UNCHANGED <<tasks, life, seen, handled>>

TaskStep(j) ==
    \/ Receive(j)
    \/ Execute(j)
    \/ StoreResult(j)
    \/ RenewLease(j)
    \/ NoAnswer(j)
    \/ Arrive(j)
    \/ ArriveAgain(j)
    \/ \E kind \in Kinds : Process(kind, j) \/ HandlerFails(kind, j)

Next ==
    \/ Start
    \/ \E j \in Jobs : ReconcileEntry(j)
    \/ Crash
    \/ Poll
    \/ Heartbeat
    \/ \E j \in Jobs : TaskStep(j)
    \/ CenterStep
    \/ CenterRestarts

Spec == Init /\ [][Next]_vars

\* The tasks of a running daemon go on (functions have a timeout, requests too), and
\* the Center's scanners and time do.
FairSpec ==
    /\ Spec
    /\ \A j \in Jobs : /\ WF_vars(Receive(j))
                       /\ WF_vars(Execute(j))
                       /\ WF_vars(StoreResult(j))
                       /\ WF_vars(NoAnswer(j))
                       /\ WF_vars(Center!LeaseRunsOut(j) /\ UNCHANGED <<tasks, net, life>>)
    /\ WF_vars(Center!TimeoutScan /\ UNCHANGED <<tasks, net, life>>)
---------------------------------------------------------------------------
\* Properties.

\* Whatever is lost, retried, answered late or restarted, a job's side effects happen
\* at most once: it is claimed once and no crash makes the daemon start it again.
RunsOnce == \A j \in Jobs : runs[j] <= 1

\* The daemon never works on a job the Center could still give away or cancel as queued.
WorksOnDelivered == \A j \in Running : status[j] \notin {"none", "created", "queued"}

\* The node never has more jobs than its capacity, although the Center counts the
\* free slots and the daemon the running jobs.
CapacityRespected == Cardinality(Running) <= Capacity

\* The Center never records a success or failure the node did not produce.
OutcomeIsReal ==
    \A j \in Jobs : status[j] \in {"succeeded", "failed"} => outcome[j] = status[j]

\* The Center with the daemon attached behaves as the Center alone is specified to.
ImplementsCenter == Center!Spec

\* A delivered job settles at the Center although its poll answer, its node, its
\* result or the handler that took the result may be lost.
DeliveredSettles == \A j \in Jobs : status[j] = "claimed" ~> Settled(j)

\* An entry of running_jobs goes away, so the capacity it takes comes back.
SlotReturns == \A j \in Jobs : task[j] # "none" ~> task[j] = "none"

---------------------------------------------------------------------------
\* What comments and documents say and the code does not do.

\* "Store will be reconciled on restart" (daemon.rs, when job.finished fails): a
\* result the Center never took stays unconfirmed.
UnreportedStaysUnconfirmed ==
    \A j \in confirmed : store[j] = outcome[j] => <<"finished", j>> \in handled

\* "prevents concurrent conflicting writes" (models/resource_lock.py): the node never
\* executes two jobs that need the same key at once.
ConflictingWorkExcluded ==
    \A i, j \in Jobs : i # j /\ task[i] = "executing" /\ task[j] = "executing"
                         => KeysOf[i] \cap KeysOf[j] = {}
=============================================================================
