------------------------------ MODULE JobRace ------------------------------
(***************************************************************************)
(* The transactions of JobRuntime split where the code awaits.  Every      *)
(* handler reads the job row (SELECT without a lock), decides on what it   *)
(* read, and writes when it flushes and commits: an ORM UPDATE by primary  *)
(* key, without a version check.  Requests run concurrently in one event   *)
(* loop, next to the timeout scanner.  A transaction is the plan its       *)
(* handler made from what it read; Commit carries the plan out.  The       *)
(* UPDATE of a job row takes its row lock, so what is read after it (the   *)
(* invocation) is read and written in one step with it.                    *)
(***************************************************************************)
EXTENDS JobStatusMachine, FiniteSets

CONSTANTS
    Jobs, Keys, KeysOf,
    Requests,     \* request handlers that can be in progress at once
    Scanner,      \* the timeout scanner's own session
    MaxRequests   \* bound: requests begun in a behaviour

ASSUME RaceAssumption ==
    /\ KeysOf \in [Jobs -> SUBSET Keys]
    /\ Scanner \notin Requests
    /\ MaxRequests \in Nat

VARIABLES
    status,  \* Job.status as committed
    lease,   \* Job.lease_expires_at as committed
    held,    \* the HELD ResourceLock rows, as pairs of key and job
    inv,     \* Invocation.status as committed
    txn,     \* what each session is about to write
    begun    \* requests begun so far

raceVars == <<status, lease, held, inv, txn, begun>>

Sessions == Requests \cup {Scanner}

Idle == [jobs |-> {}, to |-> "keep", lease |-> "keep", lock |-> {}, unlock |-> {},
         report |-> FALSE]

InFlight(j) == status[j] \in InFlightStatuses
Settled(j)  == status[j] \in TERMINAL_STATUSES
Underway(j) == status[j] \in NON_TERMINAL_STATUSES
Expired(j)  == InFlight(j) /\ lease[j] = "expired"

Rows(S) == Keys \X S

RaceTypeOK ==
    /\ status \in [Jobs -> JobStatus \cup {"none"}]
    /\ lease \in [Jobs -> {"none", "live", "expired"}]
    /\ held \subseteq Rows(Jobs)
    /\ inv \in [Jobs -> {"none", "running"} \cup TERMINAL_STATUSES]
    /\ txn \in [Sessions -> [jobs : SUBSET Jobs, to : JobStatus \cup {"keep"},
                             lease : {"keep", "live"}, lock : SUBSET Rows(Jobs),
                             unlock : SUBSET Rows(Jobs), report : BOOLEAN]]
    /\ begun \in 0..MaxRequests

RaceInit ==
    /\ status = [j \in Jobs |-> "none"]
    /\ lease = [j \in Jobs |-> "none"]
    /\ held = {}
    /\ inv = [j \in Jobs |-> "none"]
    /\ txn = [s \in Sessions |-> Idle]
    /\ begun = 0

---------------------------------------------------------------------------
\* Reading: a session loads rows and decides.

Plan(s, plan) ==
    /\ txn[s] = Idle
    /\ txn' = [txn EXCEPT ![s] = plan]
    /\ UNCHANGED <<status, lease, held, inv>>

Request(s, plan) ==
    /\ begun < MaxRequests
    /\ begun' = begun + 1
    /\ Plan(s, plan)

\* create_job: every acquire_lock finds no row of an owner that is not terminal; the
\* stale rows it finds are released, the new ones inserted.
CreateReads(s, j) ==
    LET wanted == KeysOf[j] \X {j}
        found  == {row \in held : row[1] \in KeysOf[j]}
    IN  /\ status[j] = "none"
        /\ \A r \in Requests : j \notin txn[r].jobs
        /\ \A row \in found : Settled(row[2])
        /\ Request(s, [Idle EXCEPT !.jobs = {j}, !.to = "queued",
                                   !.lock = wanted, !.unlock = found])

PollReads(s) ==
    LET queued == {j \in Jobs : status[j] = "queued"}
    IN  /\ queued # {}
        /\ Request(s, [Idle EXCEPT !.jobs = queued, !.to = "claimed", !.lease = "live"])

AcceptReads(s, j) ==
    /\ status[j] = "claimed"
    /\ Request(s, [Idle EXCEPT !.jobs = {j}, !.to = "running"])

FinishReads(s, j, target) ==
    /\ is_valid_transition(status[j], target)
    /\ Underway(j)
    /\ Request(s, [Idle EXCEPT !.jobs = {j}, !.to = target, !.unlock = Rows({j}),
                               !.report = TRUE])

RenewReads(s, j) ==
    /\ status[j] = "running" /\ lease[j] # "expired"
    /\ Request(s, [Idle EXCEPT !.jobs = {j}, !.lease = "live"])

ReconcileReads(s, j, target) ==
    /\ Underway(j) /\ CanReconcile(status[j], target)
    /\ Request(s, [Idle EXCEPT !.jobs = {j}, !.to = target])

CancelReads(s, j) ==
    \/ /\ status[j] = "queued"
       /\ Request(s, [Idle EXCEPT !.jobs = {j}, !.to = "cancelled", !.unlock = Rows({j})])
    \/ /\ status[j] = "running"
       /\ Request(s, [Idle EXCEPT !.jobs = {j}, !.to = "cancelling"])

\* Mutant: claimed jobs are not looked for.
TimeoutReadsStarted ==
    LET expired == {j \in Jobs : Expired(j) /\ status[j] # "claimed"}
    IN  /\ expired # {}
        /\ Plan(Scanner, [Idle EXCEPT !.jobs = expired, !.to = "timeout",
                                      !.unlock = Rows(expired)])
        /\ UNCHANGED begun

TimeoutReads ==
    LET expired == {j \in Jobs : Expired(j)}
    IN  /\ expired # {}
        /\ Plan(Scanner, [Idle EXCEPT !.jobs = expired, !.to = "timeout",
                                      !.unlock = Rows(expired)])
        /\ UNCHANGED begun

---------------------------------------------------------------------------
\* Writing.

\* Mutant: the result is stored without looking at the invocation again.
ReportsAlways(j) == TRUE

\* handle_job_finished finishes the invocation unless it reads it terminal.
Reports(j) == inv[j] \notin TERMINAL_STATUSES

Commit(s) ==
    LET plan == txn[s]
        created == {j \in plan.jobs : plan.to = "queued"}
    IN  /\ plan # Idle
        /\ status' = [j \in Jobs |->
                        IF j \in plan.jobs /\ plan.to # "keep" THEN plan.to ELSE status[j]]
        /\ lease' = [j \in Jobs |->
                        IF j \in plan.jobs /\ plan.lease # "keep" THEN plan.lease ELSE lease[j]]
        /\ held' = (held \ plan.unlock) \cup plan.lock
        /\ inv' = [j \in Jobs |->
                        IF j \in created THEN "running"
                        ELSE IF j \in plan.jobs /\ plan.report /\ Reports(j) THEN plan.to
                        ELSE inv[j]]
        /\ txn' = [txn EXCEPT ![s] = Idle]
        /\ UNCHANGED begun

\* A request dies (error, disconnect, crash): its transaction is rolled back.
Abort(s) ==
    /\ txn[s] # Idle
    /\ txn' = [txn EXCEPT ![s] = Idle]
    /\ UNCHANGED <<status, lease, held, inv, begun>>

\* release_locks_for_terminal_jobs: one query and the update of the rows it found.
SweepLocks ==
    LET stale == {row \in held : Settled(row[2])}
    IN  /\ stale # {}
        /\ held' = held \ stale
        /\ UNCHANGED <<status, lease, inv, txn, begun>>

LeaseRunsOut(j) ==
    /\ InFlight(j) /\ lease[j] = "live"
    /\ lease' = [lease EXCEPT ![j] = "expired"]
    /\ UNCHANGED <<status, held, inv, txn, begun>>

Reads(s) ==
    \/ PollReads(s)
    \/ \E j \in Jobs :
        \/ CreateReads(s, j)
        \/ AcceptReads(s, j)
        \/ RenewReads(s, j)
        \/ CancelReads(s, j)
        \/ \E target \in TERMINAL_STATUSES : FinishReads(s, j, target)
        \/ \E target \in TERMINAL_STATUSES : ReconcileReads(s, j, target)

RaceNext ==
    \/ \E s \in Requests : Reads(s) \/ Abort(s)
    \/ TimeoutReads
    \/ \E s \in Sessions : Commit(s)
    \/ SweepLocks
    \/ \E j \in Jobs : LeaseRunsOut(j)

RaceSpec == RaceInit /\ [][RaceNext]_raceVars

\* Handlers come back from their awaits, the scanners loop for ever, time passes.
FairRaceSpec ==
    /\ RaceSpec
    /\ \A s \in Sessions : WF_raceVars(Commit(s))
    /\ WF_raceVars(TimeoutReads)
    /\ WF_raceVars(SweepLocks)
    /\ \A j \in Jobs : WF_raceVars(LeaseRunsOut(j))
---------------------------------------------------------------------------
\* What survives the races.

\* Whatever stale write lands last, a job that looks delivered has a lease, so the
\* timeout scanner sees it: no interleaving makes an orphan it cannot collect.
LeaseCoversDelivery == \A j \in Jobs : InFlight(j) => lease[j] # "none"

\* The outcome shown to the caller is written once even if the job's is not: the
\* invocation is read again under the row lock of the job.
InvocationWrittenOnce ==
    [][\A j \in Jobs : inv[j] \in TERMINAL_STATUSES => inv'[j] = inv[j]]_raceVars

\* A job resurrected or left behind by a stale write settles once its lease is over.
RacedJobSettles == \A j \in Jobs : Expired(j) ~> Settled(j)

---------------------------------------------------------------------------
\* What the documents say and the races break.

\* "Terminal states are immutable -- they can only be written once."
TerminalWrittenOnce ==
    [][\A j \in Jobs : Settled(j) => status'[j] = status[j]]_raceVars

\* "Raises ValueError if the resource is already locked by another active job."
LockExclusive ==
    \A a, b \in held : a[1] = b[1] /\ Underway(a[2]) /\ Underway(b[2]) => a[2] = b[2]
=============================================================================
