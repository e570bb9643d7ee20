-------------------------- MODULE JobRuntime_proofs --------------------------
(***************************************************************************)
(* Proofs about JobRuntime, for every set of jobs, nodes and keys.         *)
(***************************************************************************)
EXTENDS JobRuntime, TLAPS

\* The facts about statuses the action proofs need, so that no leaf has to
\* enumerate the transition table.
LEMMA StatusFacts ==
    /\ TERMINAL_STATUSES \subseteq JobStatus
    /\ InFlightStatuses \subseteq JobStatus
    /\ NON_TERMINAL_STATUSES \subseteq JobStatus
    /\ NON_TERMINAL_STATUSES \cap TERMINAL_STATUSES = {}
    /\ InFlightStatuses \subseteq NON_TERMINAL_STATUSES
    /\ JobStatus = NON_TERMINAL_STATUSES \cup TERMINAL_STATUSES
    /\ "none" \notin JobStatus
    /\ {"queued", "claimed", "running", "cancelling"} \subseteq NON_TERMINAL_STATUSES
    /\ {"claimed", "running", "cancelling"} = InFlightStatuses
    /\ {"cancelled", "failed", "timeout"} \subseteq TERMINAL_STATUSES
    /\ "succeeded" \in TERMINAL_STATUSES
    /\ "queued" \notin InFlightStatuses
  BY DEF TERMINAL_STATUSES, InFlightStatuses, NON_TERMINAL_STATUSES, JobStatus

\* No transition leads from cancelling to succeeded, directly or by the walk of
\* _reconcile_to_terminal.
LEMMA CancellingNeverSucceeds ==
    /\ ~is_valid_transition("cancelling", "succeeded")
    /\ ~CanReconcile("cancelling", "succeeded")
  BY DEF is_valid_transition, CanReconcile, ReconcileStage, VALID_TRANSITIONS,
         JobStatus, NON_TERMINAL_STATUSES, InFlightStatuses, TERMINAL_STATUSES

\* Type correctness of the specification.
THEOREM TypeCorrect == Spec => []TypeOK
<1>1. Init => TypeOK
  BY RuntimeAssumption DEF Init, TypeOK
<1>2. TypeOK /\ [Next]_vars => TypeOK'
  <2>. SUFFICES ASSUME TypeOK, [Next]_vars PROVE TypeOK'
    OBVIOUS
  <2>. USE RuntimeAssumption, StatusFacts
  <2>1. ASSUME NEW j \in Jobs, JobStep(j) PROVE TypeOK'
    <3>1. CASE ResolveFunction(j) \/ CreateJobConflict(j)
      BY <3>1 DEF TypeOK, ResolveFunction, CreateJobConflict
    <3>2. CASE CreateJob(j)
      BY <3>2 DEF TypeOK, CreateJob, Move
    <3>3. CASE HandleJobAccepted(j)
      BY <3>3 DEF TypeOK, HandleJobAccepted, Move
    <3>4. ASSUME NEW target \in TERMINAL_STATUSES, HandleJobFinished(j, target)
          PROVE TypeOK'
      BY <3>4 DEF TypeOK, HandleJobFinished, Move, release_lock, aggregate_invocation_status
    <3>5. CASE HandleJobLeaseRenew(j) \/ LeaseRunsOut(j)
      BY <3>5 DEF TypeOK, HandleJobLeaseRenew, LeaseRunsOut
    <3>6. ASSUME NEW target \in TERMINAL_STATUSES, ReconcileToTerminal(j, target)
          PROVE TypeOK'
      BY <3>6 DEF TypeOK, ReconcileToTerminal, Move
    <3>7. CASE CancelJob(j)
      BY <3>7 DEF TypeOK, CancelJob, Move, release_lock
    <3>. QED BY <2>1, <3>1, <3>2, <3>3, <3>4, <3>5, <3>6, <3>7 DEF JobStep
  <2>2. ASSUME NEW n \in Nodes, NodeStep(n) PROVE TypeOK'
    <3>1. ASSUME NEW slots \in 1..MaxSlots, HandleJobPoll(n, slots) PROVE TypeOK'
      BY <3>1 DEF TypeOK, HandleJobPoll, Move
    <3>2. CASE HandleHello(n) \/ HandleHeartbeat(n) \/ BeatAges(n)
      BY <3>2 DEF TypeOK, HandleHello, HandleHeartbeat, BeatAges
    <3>. QED BY <2>2, <3>1, <3>2 DEF NodeStep
  <2>3. CASE TimeoutScan
    BY <2>3 DEF TypeOK, TimeoutScan, Move, release_lock
  <2>4. CASE ReleaseLocksForTerminalJobs
    BY <2>4 DEF TypeOK, ReleaseLocksForTerminalJobs, release_lock
  <2>5. CASE MarkTimedOutNodes
    BY <2>5 DEF TypeOK, MarkTimedOutNodes, Move, release_lock
  <2>6. CASE RestartCenter
    BY <2>6 DEF TypeOK, RestartCenter
  <2>7. CASE UNCHANGED vars
    BY <2>7 DEF TypeOK, vars
  <2>. QED BY <2>1, <2>2, <2>3, <2>4, <2>5, <2>6, <2>7 DEF Next
<1>. QED BY <1>1, <1>2, PTL DEF Spec

---------------------------------------------------------------------------
\* A lock row belongs to a job that was created and that needs its key.
LockRowsExplained ==
    \A k \in Keys : \A j \in held[k] : k \in KeysOf[j] /\ status[j] # "none"

\* The inductive invariant: the properties the runs check, together.  None is
\* inductive alone: MutualExclusion needs LocksCoverJob (a new job sees the locks
\* of the open ones), InvocationAgrees needs that a settled job never moves, and
\* creating a row needs AdmittedHasNoRow.  LockRowsExplained is what the
\* refinement needs to read the owner of a key off the statuses alone.
IInv ==
    /\ TypeOK
    /\ AdmittedHasNoRow
    /\ LocksCoverJob
    /\ MutualExclusion
    /\ LeaseCoversDelivery
    /\ InvocationAgrees
    /\ CancelSticks
    /\ LockRowsExplained

\* Creating a job keeps the invariant: its keys were free of open jobs.
LEMMA CreateJobKeeps ==
    ASSUME IInv, NEW j \in Jobs, CreateJob(j)
    PROVE  /\ AdmittedHasNoRow' /\ LocksCoverJob' /\ MutualExclusion'
           /\ LeaseCoversDelivery' /\ InvocationAgrees' /\ CancelSticks'
           /\ LockRowsExplained'
<1>. USE StatusFacts, RuntimeAssumption
<1>1. status[j] = "none"
  BY DEF IInv, AdmittedHasNoRow, CreateJob
<1>2. status' = [i \in Jobs |-> IF i = j THEN "queued" ELSE status[i]]
  BY DEF CreateJob, Move
<1>3. ASSUME NEW i \in Jobs, i # j, Open(i) PROVE KeysOf[i] \cap KeysOf[j] = {}
  \* otherwise i would still hold the shared key and block the acquisition
  BY <1>3 DEF IInv, LocksCoverJob, CreateJob, Blockers, Open, Settled
<1>4. AdmittedHasNoRow'
  BY <1>2 DEF IInv, TypeOK, AdmittedHasNoRow, CreateJob
<1>5. LocksCoverJob'
  BY <1>2, <1>3 DEF IInv, TypeOK, LocksCoverJob, CreateJob, Open
<1>6. MutualExclusion'
  BY <1>2, <1>3 DEF IInv, TypeOK, MutualExclusion, CreateJob, Open
<1>7. LeaseCoversDelivery'
  BY <1>2 DEF IInv, TypeOK, LeaseCoversDelivery, CreateJob, InFlight
<1>8. InvocationAgrees'
  BY <1>1, <1>2 DEF IInv, TypeOK, InvocationAgrees, CreateJob, TERMINAL_STATUSES
<1>9. CancelSticks'
  BY <1>1, <1>2 DEF IInv, TypeOK, CancelSticks, CreateJob
<1>10. LockRowsExplained'
  BY <1>1, <1>2 DEF IInv, TypeOK, LockRowsExplained, CreateJob
<1>. QED BY <1>4, <1>5, <1>6, <1>7, <1>8, <1>9, <1>10

\* Everything IInv says beyond types, for the steps below.
Safe ==
    /\ AdmittedHasNoRow /\ LocksCoverJob /\ MutualExclusion
    /\ LeaseCoversDelivery /\ InvocationAgrees /\ CancelSticks /\ LockRowsExplained

\* Settling a set of open jobs keeps the invariant, with or without giving their
\* locks back, provided no accepted cancel turns into a success and no invocation
\* reports another outcome: what results, reconciliation and the scans share.
LEMMA SettleKeeps ==
    ASSUME IInv, NEW S \in SUBSET Jobs, NEW target \in TERMINAL_STATUSES,
           \A i \in S : Open(i),
           \A i \in S : target = "succeeded" => asked[i] # "accepted",
           Move(S, target),
           held' \in [Keys -> SUBSET Jobs],
           \A k \in Keys : held[k] \ S \subseteq held'[k] /\ held'[k] \subseteq held[k],
           \A i \in Jobs : inv'[i] \in TERMINAL_STATUSES =>
                inv'[i] = inv[i] \/ (i \in S /\ inv'[i] = target),
           UNCHANGED <<admitted, lease, asked>>
    PROVE  Safe'
<1>. USE StatusFacts, RuntimeAssumption
<1>1. \A i \in Jobs : status'[i] = IF i \in S THEN target ELSE status[i]
  BY DEF Move
<1>2. AdmittedHasNoRow'
  BY <1>1 DEF IInv, TypeOK, AdmittedHasNoRow, Open
<1>3. LocksCoverJob'
  BY <1>1 DEF IInv, TypeOK, LocksCoverJob, Open
<1>4. MutualExclusion'
  BY <1>1 DEF IInv, MutualExclusion, Open
<1>5. LeaseCoversDelivery'
  BY <1>1 DEF IInv, LeaseCoversDelivery, InFlight
<1>6. InvocationAgrees'
  BY <1>1 DEF IInv, InvocationAgrees, Open
<1>7. CancelSticks'
  BY <1>1 DEF IInv, CancelSticks, TERMINAL_STATUSES
<1>8. LockRowsExplained'
  BY <1>1 DEF IInv, TypeOK, LockRowsExplained
<1>. QED BY <1>2, <1>3, <1>4, <1>5, <1>6, <1>7, <1>8 DEF Safe

\* Moving open jobs to another open status keeps the invariant when the new
\* status is not before the queue, has a lease, and respects accepted cancels.
LEMMA AdvanceKeeps ==
    ASSUME IInv, NEW S \in SUBSET Jobs, NEW target \in InFlightStatuses,
           \A i \in S : Open(i),
           \A i \in S : target = "cancelling" \/ asked[i] # "accepted",
           \A i \in S : lease'[i] # "none",
           \A i \in Jobs \ S : lease'[i] = lease[i],
           \A i \in Jobs : asked'[i] = "accepted" =>
                asked[i] = "accepted" \/ (i \in S /\ target = "cancelling"),
           Move(S, target),
           UNCHANGED <<admitted, held, inv>>
    PROVE  Safe'
<1>. USE StatusFacts, RuntimeAssumption
<1>1. \A i \in Jobs : status'[i] = IF i \in S THEN target ELSE status[i]
  BY DEF Move
<1>2. AdmittedHasNoRow'
  BY <1>1 DEF IInv, TypeOK, AdmittedHasNoRow, Open
<1>3. LocksCoverJob'
  BY <1>1 DEF IInv, TypeOK, LocksCoverJob, Open
<1>4. MutualExclusion'
  BY <1>1 DEF IInv, MutualExclusion, Open
<1>5. LeaseCoversDelivery'
  BY <1>1 DEF IInv, LeaseCoversDelivery, InFlight
<1>6. InvocationAgrees'
  BY <1>1 DEF IInv, InvocationAgrees, Open
<1>7. CancelSticks'
  BY <1>1 DEF IInv, CancelSticks
<1>8. LockRowsExplained'
  BY <1>1 DEF IInv, TypeOK, LockRowsExplained
<1>. QED BY <1>2, <1>3, <1>4, <1>5, <1>6, <1>7, <1>8 DEF Safe

\* Steps that leave statuses and lock coverage alone.
LEMMA QuietKeeps ==
    ASSUME IInv,
           admitted' \subseteq admitted,
           UNCHANGED <<status, inv>>,
           \A j \in Jobs : lease[j] # "none" => lease'[j] # "none",
           \A j \in Jobs : asked'[j] = "accepted" => asked[j] = "accepted",
           \A j \in Jobs, k \in Keys : Open(j) /\ j \in held[k] => j \in held'[k],
           \A k \in Keys : held'[k] \subseteq held[k]
    PROVE  Safe'
  BY RuntimeAssumption
  DEF IInv, TypeOK, Safe, AdmittedHasNoRow, LocksCoverJob, MutualExclusion,
      LeaseCoversDelivery, InvocationAgrees, CancelSticks, LockRowsExplained, Open,
      InFlight

\* Every step keeps what the invariant says beyond types, one step per action.
LEMMA SafeStep == IInv /\ [Next]_vars => Safe'
<1>. SUFFICES ASSUME IInv, [Next]_vars PROVE Safe'
  OBVIOUS
<1>. USE StatusFacts, RuntimeAssumption
<1>1. ASSUME NEW j \in Jobs, JobStep(j) PROVE Safe'
  <2>1. CASE ResolveFunction(j)
    BY <2>1 DEF ResolveFunction, IInv, TypeOK, Safe, AdmittedHasNoRow, LocksCoverJob,
       MutualExclusion, LeaseCoversDelivery, InvocationAgrees, CancelSticks,
       LockRowsExplained, Open, InFlight
  <2>2. CASE CreateJob(j)
    BY <2>2, CreateJobKeeps DEF Safe
  <2>3. CASE CreateJobConflict(j)
    BY <2>3, QuietKeeps DEF CreateJobConflict
  <2>4. CASE HandleJobAccepted(j)
    <3>1. asked[j] # "accepted"
      BY <2>4 DEF IInv, CancelSticks, HandleJobAccepted
    <3>2. Open(j) /\ lease[j] # "none"
      BY <2>4 DEF IInv, LeaseCoversDelivery, HandleJobAccepted, Open, InFlight
    <3>. QED BY <2>4, <3>1, <3>2, AdvanceKeeps DEF HandleJobAccepted
  <2>5. ASSUME NEW target \in TERMINAL_STATUSES, HandleJobFinished(j, target)
        PROVE Safe'
    <3>1. target = "succeeded" => asked[j] # "accepted"
      BY <2>5, CancellingNeverSucceeds DEF IInv, CancelSticks, HandleJobFinished, Open
    <3>2. \A k \in Keys : held[k] \ {j} \subseteq held'[k] /\ held'[k] \subseteq held[k]
      BY <2>5 DEF HandleJobFinished, release_lock
    <3>3. held' \in [Keys -> SUBSET Jobs]
      BY <2>5 DEF IInv, TypeOK, HandleJobFinished, release_lock
    <3>4. \A i \in Jobs : inv'[i] = inv[i] \/ (i = j /\ inv'[i] = target)
      BY <2>5 DEF IInv, TypeOK, HandleJobFinished, aggregate_invocation_status
    <3>. QED BY <2>5, <3>1, <3>2, <3>3, <3>4, SettleKeeps DEF HandleJobFinished
  <2>6. CASE HandleJobLeaseRenew(j) \/ LeaseRunsOut(j)
    BY <2>6, QuietKeeps DEF IInv, TypeOK, HandleJobLeaseRenew, LeaseRunsOut
  <2>7. ASSUME NEW target \in TERMINAL_STATUSES, ReconcileToTerminal(j, target)
        PROVE Safe'
    <3>1. target = "succeeded" => asked[j] # "accepted"
      BY <2>7, CancellingNeverSucceeds DEF IInv, CancelSticks, ReconcileToTerminal, Open
    <3>. QED BY <2>7, <3>1, SettleKeeps DEF IInv, TypeOK, ReconcileToTerminal
  <2>8. CASE CancelJob(j)
    <3>1. CASE status[j] = "queued"
      <4>1. asked[j] # "accepted"
        BY <3>1 DEF IInv, CancelSticks
      <4>. QED \* asked changes in this step, so SettleKeeps does not apply
        BY <2>8, <3>1, <4>1 DEF CancelJob, Move, release_lock, IInv, TypeOK, Safe,
           AdmittedHasNoRow, LocksCoverJob, MutualExclusion, LeaseCoversDelivery,
           InvocationAgrees, CancelSticks, LockRowsExplained, Open, InFlight
    <3>2. CASE status[j] = "running"
      <4>1. asked[j] # "accepted"
        BY <3>2 DEF IInv, CancelSticks
      <4>2. Open(j) /\ lease[j] # "none"
        BY <3>2 DEF IInv, LeaseCoversDelivery, Open, InFlight
      <4>3. /\ Move({j}, "cancelling")
            /\ asked' = [asked EXCEPT ![j] = "accepted"]
            /\ UNCHANGED <<admitted, held, inv, lease>>
        BY <2>8, <3>2 DEF CancelJob
      <4>. QED BY <4>1, <4>2, <4>3, AdvanceKeeps DEF IInv, TypeOK
    <3>3. CASE status[j] \notin {"queued", "running"}
      BY <2>8, <3>3, QuietKeeps DEF CancelJob, IInv, TypeOK
    <3>. QED BY <3>1, <3>2, <3>3
  <2>. QED BY <1>1, <2>1, <2>2, <2>3, <2>4, <2>5, <2>6, <2>7, <2>8 DEF JobStep
<1>2. ASSUME NEW n \in Nodes, NodeStep(n) PROVE Safe'
  <2>1. ASSUME NEW slots \in 1..MaxSlots, HandleJobPoll(n, slots) PROVE Safe'
    <3>1. PICK S \in SUBSET QueuedOn(n) :
            /\ Move(S, "claimed")
            /\ lease' = [j \in Jobs |-> IF j \in S THEN "live" ELSE lease[j]]
            /\ UNCHANGED <<admitted, held, inv, asked>>
      BY <2>1 DEF HandleJobPoll
    <3>2. S \in SUBSET Jobs /\ \A i \in S : status[i] = "queued"
      BY DEF QueuedOn
    <3>3. \A i \in S : Open(i) /\ asked[i] # "accepted"
      BY <3>2 DEF IInv, CancelSticks, Open
    <3>. QED BY <3>1, <3>2, <3>3, AdvanceKeeps
  <2>2. CASE HandleHello(n) \/ HandleHeartbeat(n) \/ BeatAges(n)
    BY <2>2, QuietKeeps DEF HandleHello, HandleHeartbeat, BeatAges
  <2>. QED BY <1>2, <2>1, <2>2 DEF NodeStep
<1>3. CASE TimeoutScan
  <2>. DEFINE expired == {j \in Jobs : Expired(j)}
  <2>1. \A i \in expired : Open(i)
    BY DEF Expired, InFlight, Open
  <2>2. /\ held' \in [Keys -> SUBSET Jobs]
        /\ \A k \in Keys : held[k] \ expired \subseteq held'[k] /\ held'[k] \subseteq held[k]
    BY <1>3 DEF IInv, TypeOK, TimeoutScan, release_lock
  <2>3. Move(expired, "timeout") /\ UNCHANGED <<admitted, lease, inv, asked>>
    BY <1>3 DEF TimeoutScan
  <2>. QED BY <2>1, <2>2, <2>3, SettleKeeps
<1>4. CASE ReleaseLocksForTerminalJobs
  <2>1. /\ \A j \in Jobs, k \in Keys : Open(j) /\ j \in held[k] => j \in held'[k]
        /\ \A k \in Keys : held'[k] \subseteq held[k]
    BY <1>4 DEF ReleaseLocksForTerminalJobs, release_lock, Open, Settled
  <2>. QED BY <1>4, <2>1, QuietKeeps DEF ReleaseLocksForTerminalJobs
<1>5. CASE MarkTimedOutNodes
  <2>. DEFINE gone  == {n \in Nodes : node[n] = "online" /\ beat[n] = "stale"}
              stuck == UNION {QueuedOn(n) : n \in gone}
  <2>1. stuck \in SUBSET Jobs /\ \A i \in stuck : Open(i)
    BY DEF QueuedOn, Open
  <2>2. Move(stuck, "cancelled") /\ UNCHANGED <<admitted, lease, inv, asked>>
        /\ release_lock(stuck)
    BY <1>5 DEF MarkTimedOutNodes
  <2>3. /\ held' \in [Keys -> SUBSET Jobs]
        /\ \A k \in Keys : held[k] \ stuck \subseteq held'[k] /\ held'[k] \subseteq held[k]
    BY <2>2 DEF IInv, TypeOK, release_lock
  <2>. HIDE DEF stuck
  <2>. QED BY <2>1, <2>2, <2>3, SettleKeeps
<1>6. CASE RestartCenter
  BY <1>6, QuietKeeps DEF RestartCenter
<1>7. CASE UNCHANGED vars
  BY <1>7, QuietKeeps DEF vars
<1>. QED BY <1>1, <1>2, <1>3, <1>4, <1>5, <1>6, <1>7 DEF Next

\* The invariant holds in every reachable state.
THEOREM Invariance == Spec => []IInv
<1>1. Init => IInv
  <2>1. Init => TypeOK
    BY RuntimeAssumption DEF Init, TypeOK
  <2>. QED
    BY <2>1, RuntimeAssumption, StatusFacts
    DEF Init, IInv, AdmittedHasNoRow, LocksCoverJob, MutualExclusion, LeaseCoversDelivery,
        InvocationAgrees, CancelSticks, LockRowsExplained, Open, InFlight, TERMINAL_STATUSES
<1>2. TypeOK' /\ Safe' => IInv'
  BY DEF Safe, IInv
<1>. QED BY <1>1, <1>2, SafeStep, TypeCorrect, PTL DEF Spec

\* Two open jobs never share a resource key (acquire_lock in create_job), because
\* an open job keeps every lock it was created with.
THEOREM LocksExclude == Spec => [](MutualExclusion /\ LocksCoverJob)
<1>1. IInv => MutualExclusion /\ LocksCoverJob
  BY DEF IInv
<1>. QED BY <1>1, Invariance, PTL

\* No delivered job is out of the timeout scanner's reach.
THEOREM LeaseAlways == Spec => []LeaseCoversDelivery
<1>1. IInv => LeaseCoversDelivery
  BY DEF IInv
<1>. QED BY <1>1, Invariance, PTL

\* An invocation never reports an outcome its job does not have.
THEOREM InvocationSound == Spec => []InvocationAgrees
<1>1. IInv => InvocationAgrees
  BY DEF IInv
<1>. QED BY <1>1, Invariance, PTL

\* An accepted cancel is never undone: no later handler lets the job succeed.
THEOREM CancelFinal == Spec => []CancelSticks
<1>1. IInv => CancelSticks
  BY DEF IInv
<1>. QED BY <1>1, Invariance, PTL

---------------------------------------------------------------------------
\* What any step does to the statuses: nothing, create one row, or move a set of
\* jobs along, each of them open.
Creates(j) == status[j] = "none" /\ CreateJob(j)
Starts(S)  == (\A i \in S : status[i] = "queued") /\ Move(S, "claimed")
Carries(S, target) ==
    /\ target \in {"running", "cancelling"}
    /\ \A i \in S : InFlight(i) /\ Progress(status[i]) < Progress(target)
    /\ Move(S, target)
Settles(S, target) == (\A i \in S : Open(i)) /\ Move(S, target)

\* Every step is one of these four or leaves the statuses alone.
LEMMA StepShape ==
    ASSUME IInv, [Next]_vars
    PROVE  \/ status' = status
           \/ \E j \in Jobs : Creates(j)
           \/ \E S \in SUBSET Jobs : Starts(S)
           \/ \E S \in SUBSET Jobs, target \in InFlightStatuses : Carries(S, target)
           \/ \E S \in SUBSET Jobs, target \in TERMINAL_STATUSES : Settles(S, target)
<1>. DEFINE Shape ==
           \/ status' = status
           \/ \E j \in Jobs : Creates(j)
           \/ \E S \in SUBSET Jobs : Starts(S)
           \/ \E S \in SUBSET Jobs, target \in InFlightStatuses : Carries(S, target)
           \/ \E S \in SUBSET Jobs, target \in TERMINAL_STATUSES : Settles(S, target)
<1>. USE StatusFacts
<1>1. ASSUME NEW j \in Jobs, JobStep(j) PROVE Shape
  <2>1. CASE CreateJob(j)
    BY <2>1 DEF Creates, IInv, AdmittedHasNoRow, CreateJob
  <2>2. CASE HandleJobAccepted(j)
    <3>1. Carries({j}, "running")
      BY <2>2 DEF Carries, HandleJobAccepted, InFlight, Progress
    <3>. QED BY <3>1
  <2>3. ASSUME NEW target \in TERMINAL_STATUSES,
               HandleJobFinished(j, target) \/ ReconcileToTerminal(j, target)
        PROVE Shape
    <3>1. Settles({j}, target)
      BY <2>3 DEF Settles, HandleJobFinished, ReconcileToTerminal
    <3>. QED BY <3>1
  <2>4. CASE CancelJob(j)
    <3>1. CASE status[j] = "queued"
      <4>1. Settles({j}, "cancelled")
        BY <2>4, <3>1 DEF Settles, CancelJob, Open
      <4>. QED BY <4>1
    <3>2. CASE status[j] = "running"
      <4>1. Carries({j}, "cancelling")
        BY <2>4, <3>2 DEF Carries, CancelJob, InFlight, Progress
      <4>. QED BY <4>1
    <3>3. CASE status[j] \notin {"queued", "running"}
      BY <2>4, <3>3 DEF CancelJob
    <3>. QED BY <3>1, <3>2, <3>3
  <2>5. CASE ResolveFunction(j) \/ CreateJobConflict(j) \/ HandleJobLeaseRenew(j)
             \/ LeaseRunsOut(j)
    BY <2>5 DEF ResolveFunction, CreateJobConflict, HandleJobLeaseRenew, LeaseRunsOut
  <2>. HIDE DEF Shape
  <2>. QED BY <1>1, <2>1, <2>2, <2>3, <2>4, <2>5 DEF JobStep
<1>2. ASSUME NEW n \in Nodes, NodeStep(n) PROVE Shape
  <2>1. ASSUME NEW slots \in 1..MaxSlots, HandleJobPoll(n, slots) PROVE Shape
    <3>1. PICK S \in SUBSET QueuedOn(n) : Move(S, "claimed")
      BY <2>1 DEF HandleJobPoll
    <3>2. S \in SUBSET Jobs /\ Starts(S)
      BY <3>1 DEF QueuedOn, Starts
    <3>. QED BY <3>2
  <2>2. CASE HandleHello(n) \/ HandleHeartbeat(n) \/ BeatAges(n)
    BY <2>2 DEF HandleHello, HandleHeartbeat, BeatAges
  <2>. HIDE DEF Shape
  <2>. QED BY <1>2, <2>1, <2>2 DEF NodeStep
<1>3. CASE TimeoutScan
  <2>1. Settles({j \in Jobs : Expired(j)}, "timeout")
    BY <1>3 DEF TimeoutScan, Settles, Expired, InFlight, Open
  <2>. QED BY <2>1
<1>4. CASE MarkTimedOutNodes
  <2>. DEFINE stuck == UNION {QueuedOn(n) : n \in {n \in Nodes : node[n] = "online" /\ beat[n] = "stale"}}
  <2>1. stuck \in SUBSET Jobs /\ Settles(stuck, "cancelled")
    BY <1>4 DEF MarkTimedOutNodes, Settles, QueuedOn, Open
  <2>. QED BY <2>1
<1>5. CASE ReleaseLocksForTerminalJobs \/ RestartCenter \/ UNCHANGED vars
  BY <1>5 DEF ReleaseLocksForTerminalJobs, RestartCenter, vars
<1>. HIDE DEF Shape
<1>. QED BY <1>1, <1>2, <1>3, <1>4, <1>5 DEF Next, Shape

\* How far the four kinds of step carry a job.
LEMMA ProgressFacts ==
    /\ \A s \in JobStatus \cup {"none"} : Progress(s) \in 0..6
    /\ \A s \in TERMINAL_STATUSES : Progress(s) = 6
    /\ Progress("none") = 0 /\ Progress("queued") = 2 /\ Progress("claimed") = 3
  BY DEF Progress, JobStatus, NON_TERMINAL_STATUSES, InFlightStatuses, TERMINAL_STATUSES

\* A job only moves forward, and a terminal status is written once.
THEOREM Immutable == Spec => NeverReopened
<1>. DEFINE Forward == \A j \in Jobs :
        /\ Progress(status'[j]) >= Progress(status[j])
        /\ Settled(j) => status'[j] = status[j]
<1>1. ASSUME IInv, [Next]_vars PROVE Forward
  <2>. USE StatusFacts, ProgressFacts
  <2>0. \A j \in Jobs : status[j] \in JobStatus \cup {"none"}
    BY <1>1 DEF IInv, TypeOK
  <2>1. CASE status' = status
    BY <2>0, <2>1
  <2>2. ASSUME NEW i \in Jobs, Creates(i) PROVE Forward
    BY <2>0, <2>2 DEF Creates, CreateJob, Move, Settled
  <2>3. ASSUME NEW S \in SUBSET Jobs, Starts(S) PROVE Forward
    BY <2>0, <2>3 DEF Starts, Move, Settled
  <2>4. ASSUME NEW S \in SUBSET Jobs, NEW target \in InFlightStatuses, Carries(S, target)
        PROVE Forward
    <3>1. \A j \in Jobs : status'[j] = IF j \in S THEN target ELSE status[j]
      BY <2>4 DEF Carries, Move
    <3>2. \A j \in S : Progress(status[j]) < Progress(target) /\ ~Settled(j)
      BY <2>4 DEF Carries, Settled, InFlight
    <3>3. target \in JobStatus
      OBVIOUS
    <3>4. \A j \in Jobs : Progress(status'[j]) >= Progress(status[j])
      BY <2>0, <3>1, <3>2, <3>3
    <3>5. \A j \in Jobs : Settled(j) => status'[j] = status[j]
      BY <3>1, <3>2
    <3>. QED BY <3>4, <3>5
  <2>5. ASSUME NEW S \in SUBSET Jobs, NEW target \in TERMINAL_STATUSES, Settles(S, target)
        PROVE Forward
    BY <2>0, <2>5 DEF Settles, Move, Settled, Open
  <2>. QED BY <1>1, <2>1, <2>2, <2>3, <2>4, <2>5, StepShape
<1>2. IInv /\ [Next]_vars => [Forward]_vars
  BY <1>1
<1>. QED BY <1>2, Invariance, PTL DEF Spec, NeverReopened

---------------------------------------------------------------------------
\* The refinement of JobContract.  The owner of a key can be read off the statuses:
\* it is the one open job that needs the key.
OpenOn(k) == {i \in Jobs : Open(i) /\ k \in KeysOf[i]}

\* Under the invariant the blockers of a key are the open jobs that need it.
LEMMA BlockersAreOpen == IInv => \A k \in Keys : Blockers(k) = OpenOn(k)
  BY StatusFacts, RuntimeAssumption
  DEF IInv, TypeOK, LocksCoverJob, LockRowsExplained, Blockers, OpenOn, Open, Settled

OwnersDetermined ==
    \A k \in Keys : /\ \A i \in OpenOn(k) : OwnerOf(k) = i
                    /\ OpenOn(k) = {} => OwnerOf(k) = NoJob

\* So OwnerOf has no choice to make.
LEMMA OwnerUnique == IInv => OwnersDetermined
<1>. USE DEF OwnersDetermined
<1>. SUFFICES ASSUME IInv, NEW k \in Keys
              PROVE  /\ \A i \in OpenOn(k) : OwnerOf(k) = i
                     /\ OpenOn(k) = {} => OwnerOf(k) = NoJob
  OBVIOUS
<1>1. Blockers(k) = OpenOn(k)
  BY BlockersAreOpen
<1>2. ASSUME NEW i \in OpenOn(k), NEW j \in OpenOn(k) PROVE i = j
  BY RuntimeAssumption DEF IInv, MutualExclusion, OpenOn
<1>3. ASSUME NEW i \in OpenOn(k) PROVE OwnerOf(k) = i
  <2>1. OwnerOf(k) = CHOOSE j \in Blockers(k) : TRUE
    BY <1>1, <1>3 DEF OwnerOf
  <2>2. (CHOOSE j \in Blockers(k) : TRUE) \in Blockers(k)
    BY <1>1, <1>3
  <2>. QED BY <1>1, <1>2, <2>1, <2>2
<1>4. OpenOn(k) = {} => OwnerOf(k) = NoJob
  BY <1>1 DEF OwnerOf
<1>. QED BY <1>3, <1>4

\* When the set of open jobs is unchanged, so is every owner.
LEMMA OwnersKept ==
    ASSUME IInv, IInv', \A j \in Jobs : Open(j)' <=> Open(j)
    PROVE  \A k \in Keys : OwnerOf(k)' = OwnerOf(k)
<1>1. ASSUME NEW k \in Keys PROVE OpenOn(k)' = OpenOn(k)
  BY DEF OpenOn
<1>2. OwnersDetermined'
  BY OwnerUnique, PTL
<1>. QED BY <1>1, <1>2, OwnerUnique DEF OwnersDetermined

\* Creating a job is the contract's Submit.
LEMMA CreateSubmits ==
    ASSUME IInv, IInv', NEW j \in Jobs, Creates(j)
    PROVE  Contract!Submit(j)
<1>. USE StatusFacts, RuntimeAssumption
<1>1. \A i \in Jobs : status'[i] = IF i = j THEN "queued" ELSE status[i]
  BY DEF Creates, CreateJob, Move
<1>2. \A k \in KeysOf[j] : k \in Keys /\ Blockers(k) = {}
  BY DEF Creates, CreateJob
<1>3. \A i \in Jobs : PhaseOf(i)' = IF i = j THEN "waiting" ELSE PhaseOf(i)
  BY <1>1 DEF PhaseOf, InFlight
<1>4. \A k \in Keys : OpenOn(k)' = IF k \in KeysOf[j] THEN OpenOn(k) \cup {j} ELSE OpenOn(k)
  BY <1>1 DEF OpenOn, Open
<1>5. OwnersDetermined'
  BY OwnerUnique, PTL
<1>6. \A k \in Keys : OwnerOf(k)' = IF k \in KeysOf[j] THEN j ELSE OwnerOf(k)
  BY <1>4, <1>5, OwnerUnique DEF OwnersDetermined
<1>7. \A i \in Jobs : (IF Settled(i) THEN status[i] ELSE "pending")'
                      = IF Settled(i) THEN status[i] ELSE "pending"
  BY <1>1 DEF Settled, Creates
<1>8. PhaseOf(j) = "idle"
  BY DEF Creates, PhaseOf
<1>9. \A k \in KeysOf[j] : OwnerOf(k) = NoJob
  BY <1>2 DEF OwnerOf
<1>. QED BY <1>2, <1>3, <1>6, <1>7, <1>8, <1>9 DEF Contract!Submit

\* Claiming queued jobs is the contract's Start.
LEMMA PollStarts ==
    ASSUME IInv, IInv', NEW S \in SUBSET Jobs, Starts(S)
    PROVE  Contract!Start(S)
<1>. USE StatusFacts, RuntimeAssumption
<1>1. \A i \in Jobs : status'[i] = IF i \in S THEN "claimed" ELSE status[i]
  BY DEF Starts, Move
<1>2. \A i \in S : status[i] = "queued"
  BY DEF Starts
<1>3. \A i \in Jobs : PhaseOf(i)' = IF i \in S THEN "working" ELSE PhaseOf(i)
  BY <1>1 DEF PhaseOf, InFlight
<1>4. \A k \in Keys : OwnerOf(k)' = OwnerOf(k)
  <2>1. \A i \in Jobs : Open(i)' <=> Open(i)
    BY <1>1, <1>2 DEF Open
  <2>. QED BY <2>1, OwnersKept
<1>5. \A i \in Jobs : (IF Settled(i) THEN status[i] ELSE "pending")'
                      = IF Settled(i) THEN status[i] ELSE "pending"
  BY <1>1, <1>2 DEF Settled
<1>6. \A i \in S : PhaseOf(i) = "waiting"
  BY <1>2 DEF PhaseOf
<1>. QED BY <1>3, <1>4, <1>5, <1>6 DEF Contract!Start

\* Settling open jobs is the contract's Settle: the keys fall free even where the
\* lock rows stay behind, because the owner of a stale row blocks nobody.
LEMMA SettleSettles ==
    ASSUME IInv, IInv', NEW S \in SUBSET Jobs, NEW target \in TERMINAL_STATUSES,
           Settles(S, target)
    PROVE  Contract!Settle(S, target)
<1>. USE StatusFacts, RuntimeAssumption
<1>1. \A i \in Jobs : status'[i] = IF i \in S THEN target ELSE status[i]
  BY DEF Settles, Move
<1>2. \A i \in S : Open(i)
  BY DEF Settles
<1>3. \A i \in Jobs : PhaseOf(i)' = IF i \in S THEN "settled" ELSE PhaseOf(i)
  BY <1>1 DEF PhaseOf, InFlight, NON_TERMINAL_STATUSES
<1>4. \A k \in Keys : OpenOn(k)' = OpenOn(k) \ S
  BY <1>1 DEF OpenOn, Open
<1>5. OwnersDetermined'
  BY OwnerUnique, PTL
<1>6. \A k \in Keys : OwnerOf(k)' = IF OwnerOf(k) \in S THEN NoJob ELSE OwnerOf(k)
  <2>. SUFFICES ASSUME NEW k \in Keys
                PROVE  OwnerOf(k)' = IF OwnerOf(k) \in S THEN NoJob ELSE OwnerOf(k)
    OBVIOUS
  <2>1. CASE OpenOn(k) = {}
    BY <1>4, <1>5, <2>1, OwnerUnique DEF OwnersDetermined
  <2>2. CASE OpenOn(k) # {}
    <3>1. PICK i \in OpenOn(k) : TRUE
      BY <2>2
    <3>2. OwnerOf(k) = i /\ OpenOn(k) = {i}
      BY <3>1, OwnerUnique DEF OwnersDetermined
    <3>. QED BY <1>4, <1>5, <3>2 DEF OwnersDetermined
  <2>. QED BY <2>1, <2>2
<1>7. \A i \in Jobs : (IF Settled(i) THEN status[i] ELSE "pending")'
                      = IF i \in S THEN target ELSE IF Settled(i) THEN status[i] ELSE "pending"
  BY <1>1 DEF Settled
<1>8. \A i \in S : PhaseOf(i) \in {"waiting", "working"}
  BY <1>2 DEF PhaseOf, Open, InFlight, NON_TERMINAL_STATUSES
<1>. QED BY <1>3, <1>6, <1>7, <1>8 DEF Contract!Settle

\* The runtime implements the contract: at every step a job is submitted when its
\* keys are free, started once, settled once, or nothing visible happens.
THEOREM Refinement == Spec => ImplementsContract
<1>. USE StatusFacts, RuntimeAssumption
<1>1. Init => Contract!Init
  BY DEF Init, Contract!Init, PhaseOf, OwnerOf, Blockers, Settled, TERMINAL_STATUSES
<1>2. ASSUME IInv, IInv', [Next]_vars PROVE [Contract!Next]_(Contract!vars)
  <2>1. ASSUME \A j \in Jobs : /\ Open(j)' <=> Open(j)
                               /\ PhaseOf(j)' = PhaseOf(j)
                               /\ Settled(j) => status'[j] = status[j]
                               /\ Settled(j)' <=> Settled(j)
        PROVE UNCHANGED Contract!vars
    <3>1. \A k \in Keys : OwnerOf(k)' = OwnerOf(k)
      BY <1>2, <2>1, OwnersKept
    <3>2. \A j \in Jobs : (IF Settled(j) THEN status[j] ELSE "pending")'
                          = IF Settled(j) THEN status[j] ELSE "pending"
      BY <2>1
    <3>. QED BY <2>1, <3>1, <3>2 DEF Contract!vars
  <2>2. CASE status' = status
    BY <2>1, <2>2 DEF Open, PhaseOf, InFlight, Settled
  <2>3. ASSUME NEW j \in Jobs, Creates(j) PROVE Contract!Next
    BY <1>2, <2>3, CreateSubmits DEF Contract!Next
  <2>4. ASSUME NEW S \in SUBSET Jobs, Starts(S) PROVE Contract!Next
    BY <1>2, <2>4, PollStarts DEF Contract!Next
  <2>5. ASSUME NEW S \in SUBSET Jobs, NEW target \in InFlightStatuses, Carries(S, target)
        PROVE UNCHANGED Contract!vars
    <3>1. \A j \in Jobs : status'[j] = IF j \in S THEN target ELSE status[j]
      BY <2>5 DEF Carries, Move
    <3>2. \A j \in S : InFlight(j)
      BY <2>5 DEF Carries
    <3>. QED BY <2>1, <3>1, <3>2 DEF Open, PhaseOf, InFlight, Settled
  <2>6. ASSUME NEW S \in SUBSET Jobs, NEW target \in TERMINAL_STATUSES, Settles(S, target)
        PROVE Contract!Next
    BY <1>2, <2>6, SettleSettles DEF Contract!Next
  <2>. QED BY <1>2, <2>2, <2>3, <2>4, <2>5, <2>6, StepShape
<1>. QED BY <1>1, <1>2, Invariance, PTL DEF Spec, ImplementsContract, Contract!Spec
=============================================================================
