----------------------------- MODULE JobRuntime -----------------------------
(***************************************************************************)
(* The Center's job runtime: job rows, leases, resource locks, the         *)
(* invocation each job was created for, and node liveness.  One action per *)
(* YQP handler, API call or background scan; each is one database          *)
(* transaction and is taken as a whole here (JobRace splits the            *)
(* transactions that matter into their read and their commit).             *)
(*                                                                         *)
(* Time is abstracted: a lease is "none" (null), "live" or "expired", and  *)
(* the age of a node's last heartbeat is "none", "fresh", "late" (over     *)
(* interval*2) or "stale" (over interval*3).                               *)
(***************************************************************************)
EXTENDS JobStatusMachine, FiniteSets

CONSTANTS
    Jobs, Nodes, Keys, NoJob,
    NodeOf,        \* the node a job is routed to
    KeysOf,        \* its resource keys; {} when it needs no serialisation
    MaxSlots,      \* bound: free slots a daemon reports in one poll
    MaxRestarts    \* bound: restarts of the Center

ASSUME RuntimeAssumption ==
    /\ NodeOf \in [Jobs -> Nodes]
    /\ KeysOf \in [Jobs -> SUBSET Keys]
    /\ NoJob \notin Jobs
    /\ MaxSlots \in Nat
    /\ MaxRestarts \in Nat

VARIABLES
    admitted,  \* jobs whose node was found schedulable and whose row is not written yet
    status,    \* Job.status, "none" while there is no row
    lease,     \* Job.lease_expires_at
    held,      \* for each key, the jobs with a HELD ResourceLock row on it
    inv,       \* status of the Invocation the job was created for
    node,      \* Node.status
    beat,      \* age of Node.last_heartbeat_at
    asked,     \* history: what the caller of the first cancel was told
    restarts   \* how often the Center restarted

vars == <<admitted, status, lease, held, inv, node, beat, asked, restarts>>

\* Mutant: a job that is being cancelled is not looked for.
ExpiredStarted(j) == status[j] \in {"claimed", "running"} /\ lease[j] = "expired"

InFlight(j)   == status[j] \in InFlightStatuses
Settled(j)    == status[j] \in TERMINAL_STATUSES
Open(j)       == status[j] \in NON_TERMINAL_STATUSES
Expired(j) == InFlight(j) /\ lease[j] = "expired"
QueuedOn(n)   == {j \in Jobs : NodeOf[j] = n /\ status[j] = "queued"}

TypeOK ==
    /\ admitted \subseteq Jobs
    /\ status \in [Jobs -> JobStatus \cup {"none"}]
    /\ lease \in [Jobs -> {"none", "live", "expired"}]
    /\ held \in [Keys -> SUBSET Jobs]
    /\ inv \in [Jobs -> {"none", "running"} \cup TERMINAL_STATUSES]
    /\ node \in [Nodes -> {"provisioned", "online", "offline"}]
    /\ beat \in [Nodes -> {"none", "fresh", "late", "stale"}]
    /\ asked \in [Jobs -> {"no", "accepted", "refused"}]
    /\ restarts \in 0..MaxRestarts

Init ==
    /\ admitted = {}
    /\ status = [j \in Jobs |-> "none"]
    /\ lease = [j \in Jobs |-> "none"]
    /\ held = [k \in Keys |-> {}]
    /\ inv = [j \in Jobs |-> "none"]
    /\ node = [n \in Nodes |-> "provisioned"]
    /\ beat = [n \in Nodes |-> "none"]
    /\ asked = [j \in Jobs |-> "no"]
    /\ restarts = 0

---------------------------------------------------------------------------
\* Effects shared by several handlers.

\* transition() of every job of S to one status.
Move(S, target) == status' = [j \in Jobs |-> IF j \in S THEN target ELSE status[j]]

\* release_lock for every job of S.
release_lock(S) == held' = [k \in Keys |-> held[k] \ S]

\* Mutant: the owner of a lock counts as active only once a node has the job.
BlockersInFlight(k) == {i \in held[k] : InFlight(i)}

\* The rows acquire_lock finds held on a key by an owner that is not terminal.
Blockers(k) == {i \in held[k] : ~Settled(i)}

aggregate_invocation_status(j, target) ==
    inv' = [inv EXCEPT ![j] = IF @ \in TERMINAL_STATUSES THEN @ ELSE target]

\* compute_effective_status(node) == ONLINE.
is_node_schedulable(n) ==
    /\ node[n] # "offline"
    /\ beat[n] \in {"none", "fresh"}

---------------------------------------------------------------------------
\* Creating a job: the node is checked when the capability is resolved, the
\* row is written later, after the approval and the invocation.

ResolveFunction(j) ==
    /\ status[j] = "none" /\ j \notin admitted
    /\ is_node_schedulable(NodeOf[j])
    /\ admitted' = admitted \cup {j}
    /\ UNCHANGED <<status, lease, held, inv, node, beat, asked, restarts>>

\* Mutant: locks are taken over without looking at their owner.
CreateJobStealing(j) ==
    /\ j \in admitted
    /\ admitted' = admitted \ {j}
    /\ Move({j}, "queued")
    /\ held' = [k \in Keys |-> IF k \in KeysOf[j] THEN {j} ELSE held[k]]
    /\ inv' = [inv EXCEPT ![j] = "running"]
    /\ UNCHANGED <<lease, node, beat, asked, restarts>>

\* Rows of terminal owners are released on the way (stale_owner_terminal).
CreateJob(j) ==
    /\ j \in admitted
    /\ \A k \in KeysOf[j] : Blockers(k) = {}
    /\ admitted' = admitted \ {j}
    /\ Move({j}, "queued")
    /\ held' = [k \in Keys |-> IF k \in KeysOf[j] THEN {j} ELSE held[k]]
    /\ inv' = [inv EXCEPT ![j] = "running"]
    /\ UNCHANGED <<lease, node, beat, asked, restarts>>

\* Some key is locked: everything the call wrote since its last commit is rolled
\* back (what an approval commits on the way is Approval's subject).
CreateJobConflict(j) ==
    /\ j \in admitted
    /\ \E k \in KeysOf[j] : Blockers(k) # {}
    /\ admitted' = admitted \ {j}
    /\ UNCHANGED <<status, lease, held, inv, node, beat, asked, restarts>>

---------------------------------------------------------------------------
\* YQP handlers for jobs.

\* Mutant: a claimed job gets its lease only when it is accepted or renewed.
PollWithoutLease(n, slots) ==
    \E S \in SUBSET QueuedOn(n) :
        /\ S # {}
        /\ Cardinality(S) <= slots
        /\ Move(S, "claimed")
        /\ UNCHANGED <<admitted, lease, held, inv, node, beat, asked, restarts>>

HandleJobPoll(n, slots) ==
    \E S \in SUBSET QueuedOn(n) :
        /\ S # {}
        /\ \/ S = QueuedOn(n) /\ Cardinality(S) <= slots
           \/ Cardinality(S) = slots
        /\ Move(S, "claimed")
        /\ lease' = [j \in Jobs |-> IF j \in S THEN "live" ELSE lease[j]]
        /\ UNCHANGED <<admitted, held, inv, node, beat, asked, restarts>>

HandleJobAccepted(j) ==
    /\ status[j] = "claimed"
    /\ Move({j}, "running")
    /\ UNCHANGED <<admitted, lease, held, inv, node, beat, asked, restarts>>

HandleJobFinished(j, target) ==
    /\ Open(j)
    /\ is_valid_transition(status[j], target)
    /\ Move({j}, target)
    /\ release_lock({j})
    /\ aggregate_invocation_status(j, target)
    /\ UNCHANGED <<admitted, lease, node, beat, asked, restarts>>

\* Mutant: an expired lease can be renewed.
RenewExpired(j) ==
    /\ status[j] = "running"
    /\ lease' = [lease EXCEPT ![j] = "live"]
    /\ UNCHANGED <<admitted, status, held, inv, node, beat, asked, restarts>>

HandleJobLeaseRenew(j) ==
    /\ status[j] = "running"
    /\ lease[j] # "expired"
    /\ lease' = [lease EXCEPT ![j] = "live"]
    /\ UNCHANGED <<admitted, status, held, inv, node, beat, asked, restarts>>

\* One known_jobs entry the daemon reports as terminal while the Center's job is
\* not.  Locks and invocation are left as they are.
ReconcileToTerminal(j, target) ==
    /\ Open(j)
    /\ CanReconcile(status[j], target)
    /\ Move({j}, target)
    /\ UNCHANGED <<admitted, lease, held, inv, node, beat, asked, restarts>>

\* cancel_job, from the operations API, a transfer or job.cancel.
CancelJob(j) ==
    /\ status[j] # "none"
    /\ \/ /\ status[j] = "queued"
          /\ Move({j}, "cancelled")
          /\ release_lock({j})
          /\ asked' = [asked EXCEPT ![j] = "accepted"]
       \/ /\ status[j] = "running"
          /\ Move({j}, "cancelling")
          /\ asked' = [asked EXCEPT ![j] = "accepted"]
          /\ UNCHANGED held
       \/ \* claimed: transition() refuses claimed -> cancelling; else: cancel_job does
          /\ status[j] \notin {"queued", "running"}
          /\ asked[j] = "no"
          /\ asked' = [asked EXCEPT ![j] = "refused"]
          /\ UNCHANGED <<status, held>>
    /\ UNCHANGED <<admitted, lease, inv, node, beat, restarts>>

---------------------------------------------------------------------------
\* Background scans.

TimeoutScan ==
    LET expired == {j \in Jobs : Expired(j)}
    IN  /\ expired # {}
        /\ Move(expired, "timeout")
        /\ release_lock(expired)
        /\ UNCHANGED <<admitted, lease, inv, node, beat, asked, restarts>>

ReleaseLocksForTerminalJobs ==
    LET settled == {j \in Jobs : Settled(j)}
    IN  /\ \E k \in Keys : held[k] \cap settled # {}
        /\ release_lock(settled)
        /\ UNCHANGED <<admitted, status, lease, inv, node, beat, asked, restarts>>

MarkTimedOutNodes ==
    LET gone  == {n \in Nodes : node[n] = "online" /\ beat[n] = "stale"}
        stuck == UNION {QueuedOn(n) : n \in gone}
    IN  /\ gone # {}
        /\ node' = [n \in Nodes |-> IF n \in gone THEN "offline" ELSE node[n]]
        /\ Move(stuck, "cancelled")
        /\ release_lock(stuck)
        /\ UNCHANGED <<admitted, lease, inv, beat, asked, restarts>>

---------------------------------------------------------------------------
\* Nodes, time and the Center's restart.

HandleHello(n) ==
    /\ node[n] # "online"
    /\ node' = [node EXCEPT ![n] = "online"]
    /\ UNCHANGED <<admitted, status, lease, held, inv, beat, asked, restarts>>

HandleHeartbeat(n) ==
    /\ beat' = [beat EXCEPT ![n] = "fresh"]
    /\ node' = [node EXCEPT ![n] = IF @ = "offline" THEN "online" ELSE @]
    /\ UNCHANGED <<admitted, status, lease, held, inv, asked, restarts>>

BeatAges(n) ==
    /\ \/ beat[n] = "fresh" /\ beat' = [beat EXCEPT ![n] = "late"]
       \/ beat[n] = "late" /\ beat' = [beat EXCEPT ![n] = "stale"]
    /\ UNCHANGED <<admitted, status, lease, held, inv, node, asked, restarts>>

LeaseRunsOut(j) ==
    /\ InFlight(j) /\ lease[j] = "live"
    /\ lease' = [lease EXCEPT ![j] = "expired"]
    /\ UNCHANGED <<admitted, status, held, inv, node, beat, asked, restarts>>

\* The process dies (requests between admission and commit are lost) and the
\* next one gives expired leases a grace window before the scanner starts, unless its
\* recovery scan fails (which is only logged).
RestartCenter ==
    /\ restarts < MaxRestarts
    /\ restarts' = restarts + 1
    /\ admitted' = {}
    /\ \/ lease' = [j \in Jobs |-> IF Expired(j) THEN "live" ELSE lease[j]]
       \/ UNCHANGED lease
    /\ UNCHANGED <<status, held, inv, node, beat, asked>>

---------------------------------------------------------------------------
JobStep(j) ==
    \/ ResolveFunction(j)
    \/ CreateJob(j)
    \/ CreateJobConflict(j)
    \/ HandleJobAccepted(j)
    \/ \E target \in TERMINAL_STATUSES : HandleJobFinished(j, target)
    \/ HandleJobLeaseRenew(j)
    \/ \E target \in TERMINAL_STATUSES : ReconcileToTerminal(j, target)
    \/ CancelJob(j)
    \/ LeaseRunsOut(j)

NodeStep(n) ==
    \/ \E slots \in 1..MaxSlots : HandleJobPoll(n, slots)
    \/ HandleHello(n)
    \/ HandleHeartbeat(n)
    \/ BeatAges(n)

Next ==
    \/ \E j \in Jobs : JobStep(j)
    \/ \E n \in Nodes : NodeStep(n)
    \/ TimeoutScan
    \/ ReleaseLocksForTerminalJobs
    \/ MarkTimedOutNodes
    \/ RestartCenter

Spec == Init /\ [][Next]_vars

\* The scanners run for as long as the process does (api/app.py starts them and
\* each loops over sleep and scan, surviving its own exceptions), and time passes: a
\* node renews a lease only while its function runs, and functions have a timeout.
Scanning ==
    /\ WF_vars(TimeoutScan)
    /\ WF_vars(ReleaseLocksForTerminalJobs)
    /\ WF_vars(MarkTimedOutNodes)

FairSpec == Spec /\ Scanning /\ \A j \in Jobs : WF_vars(LeaseRunsOut(j))
---------------------------------------------------------------------------
(***************************************************************************)
(* Properties.                                                             *)
(***************************************************************************)

\* A job that was admitted has no row yet (the two steps of one request).
AdmittedHasNoRow == \A j \in admitted : status[j] = "none"

\* A job that may still run holds every key it was created with: no handler
\* releases a lock early, and no acquire_lock sweeps it away as stale.
LocksCoverJob == \A j \in Jobs : Open(j) => \A k \in KeysOf[j] : j \in held[k]

\* Two jobs that need the same resource key are never open at the same time,
\* whatever mixture of polls, results, cancels, scans and reconciliations ran
\* (the purpose of acquire_lock in create_job).
MutualExclusion ==
    \A i, j \in Jobs :
        i # j /\ Open(i) /\ Open(j) => KeysOf[i] \cap KeysOf[j] = {}

\* Every job a node may be working on has a lease: find_expired_jobs skips rows
\* with a null lease, so a job without one would never time out.
LeaseCoversDelivery == \A j \in Jobs : InFlight(j) => lease[j] # "none"

\* An invocation reports an outcome only when its job has that very outcome.
InvocationAgrees == \A j \in Jobs : inv[j] \in TERMINAL_STATUSES => status[j] = inv[j]

\* Once a caller was told its cancel was accepted, no later poll, accept, result
\* or reconciliation lets the job run on or succeed.
CancelSticks ==
    \A j \in Jobs : asked[j] = "accepted" =>
        status[j] \in {"cancelling", "cancelled", "failed", "timeout"}

\* A job only moves forward: it is handed out once, and its terminal status is
\* written once ("Terminal states are immutable", job_state_machine.py).
NeverReopened ==
    [][\A j \in Jobs :
        /\ Progress(status'[j]) >= Progress(status[j])
        /\ Settled(j) => status'[j] = status[j]]_vars

\* A delivered job whose lease ran out settles: no handler that touches leases or
\* statuses, and no restart, keeps it from the timeout scanner for ever.
ExpiredJobSettles == \A j \in Jobs : Expired(j) ~> Settled(j)

\* The abstract contract and the refinement mapping to it: a key is owned by the
\* open job among the holders of its lock rows.
PhaseOf(j) ==
    IF status[j] = "none" THEN "idle"
    ELSE IF status[j] \in {"created", "queued"} THEN "waiting"
    ELSE IF InFlight(j) THEN "working"
    ELSE "settled"

OwnerOf(k) == IF Blockers(k) = {} THEN NoJob ELSE CHOOSE j \in Blockers(k) : TRUE

Contract == INSTANCE JobContract WITH
    Outcomes <- TERMINAL_STATUSES,
    phase    <- [j \in Jobs |-> PhaseOf(j)],
    outcome  <- [j \in Jobs |-> IF Settled(j) THEN status[j] ELSE "pending"],
    owner    <- [k \in Keys |-> OwnerOf(k)]

\* The runtime implements the contract.
ImplementsContract == Contract!Spec

---------------------------------------------------------------------------
\* What a comment says and the code does not do.

\* "update Invocation when all Jobs terminal" (node_service.py): an invocation
\* whose only job has settled ends as well.
InvocationFollowsJob == \A j \in Jobs : Settled(j) ~> inv[j] \in TERMINAL_STATUSES
=============================================================================
