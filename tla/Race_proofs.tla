----------------------------- MODULE Race_proofs -----------------------------
(***************************************************************************)
(* Proofs about database sessions that overlap: JobRace, for every set of  *)
(* jobs, keys and requests, and Operation, for every set of sessions and   *)
(* every bound.  What no interleaving of unlocked reads and late commits   *)
(* can break.                                                              *)
(***************************************************************************)
EXTENDS JobRace, Operation, SequenceTheorems, WellFoundedInduction, TLAPS

---------------------------------------------------------------------------
(* JobRace.                                                                *)

\* The facts about statuses the proofs need.
LEMMA RaceStatusFacts ==
    /\ InFlightStatuses = {"claimed", "running", "cancelling"}
    /\ TERMINAL_STATUSES = {"succeeded", "failed", "cancelled", "timeout"}
    /\ JobStatus = {"created", "queued", "claimed", "running", "cancelling",
                    "succeeded", "failed", "cancelled", "timeout"}
    /\ NON_TERMINAL_STATUSES = {"created", "queued", "claimed", "running", "cancelling"}
  BY DEF InFlightStatuses, TERMINAL_STATUSES, JobStatus, NON_TERMINAL_STATUSES

\* The plans a session can hold.
Plans == [jobs : SUBSET Jobs, to : JobStatus \cup {"keep"}, lease : {"keep", "live"},
          lock : SUBSET Rows(Jobs), unlock : SUBSET Rows(Jobs), report : BOOLEAN]

\* A pending transaction never takes a job in flight without a lease: it writes the
\* lease itself, or it read the job when it had one, and leases are never cleared.
PlanLeased ==
    \A s \in Sessions :
        /\ txn[s].to = "claimed" => txn[s].lease = "live"
        /\ txn[s].to \in {"running", "cancelling"} => \A j \in txn[s].jobs : lease[j] # "none"

\* Only the session that creates a job knows it before its row exists.
PlanCreates ==
    /\ \A j \in Jobs : status[j] = "none" => inv[j] = "none"
    /\ \A s \in Sessions : \A j \in txn[s].jobs :
        txn[s].to = "queued" <=> status[j] = "none"
    /\ \A s, t \in Sessions : \A j \in txn[s].jobs \cap txn[t].jobs :
        txn[s].to = "queued" => s = t

\* Only a result that settles its job is reported to the invocation.
PlanReports == \A s \in Sessions : txn[s].report => txn[s].to \in TERMINAL_STATUSES

\* The scanner only ever settles jobs.
ScannerTimesOut == txn[Scanner] = Idle \/ txn[Scanner].to = "timeout"

RaceInv ==
    /\ RaceTypeOK
    /\ LeaseCoversDelivery
    /\ PlanLeased
    /\ PlanCreates
    /\ PlanReports
    /\ ScannerTimesOut

\* A read adds one plan to an idle session; what it must know to keep the invariant.
LEMMA PlanKeeps ==
    ASSUME RaceInv, NEW s \in Sessions, NEW plan \in Plans, Plan(s, plan),
           begun' \in 0..MaxRequests,
           plan.to = "claimed" => plan.lease = "live",
           plan.to \in {"running", "cancelling"} => \A j \in plan.jobs : lease[j] # "none",
           \A j \in plan.jobs : plan.to = "queued" <=> status[j] = "none",
           plan.to = "queued" => \A t \in Sessions : plan.jobs \cap txn[t].jobs = {},
           plan.report => plan.to \in TERMINAL_STATUSES,
           s = Scanner => plan.to = "timeout"
    PROVE  RaceInv'
<1>1. \A t \in Sessions : txn'[t] = IF t = s THEN plan ELSE txn[t]
  BY DEF Plan, RaceInv, RaceTypeOK
<1>2. UNCHANGED <<status, lease, held, inv>>
  BY DEF Plan
<1>3. RaceTypeOK'
  BY <1>2 DEF RaceInv, RaceTypeOK, Plan, Plans
<1>4. LeaseCoversDelivery'
  BY <1>2 DEF RaceInv, LeaseCoversDelivery, InFlight
<1>5. PlanLeased'
  BY <1>1, <1>2 DEF RaceInv, PlanLeased
<1>6. PlanCreates'
  <2>1. \A t \in Sessions : \A j \in txn'[t].jobs : txn'[t].to = "queued" <=> status'[j] = "none"
    BY <1>1, <1>2 DEF RaceInv, PlanCreates
  <2>2. ASSUME NEW t \in Sessions, NEW u \in Sessions, NEW j \in txn'[t].jobs \cap txn'[u].jobs,
               txn'[t].to = "queued"
        PROVE  t = u
    <3>1. CASE t = s /\ u # s
      BY <1>1, <2>2, <3>1
    <3>2. CASE t # s /\ u = s
      \* j has no row, so the new plan must be creating it too
      <4>1. status[j] = "none"
        BY <1>1, <2>2, <3>2 DEF RaceInv, PlanCreates
      <4>2. plan.to = "queued"
        BY <1>1, <2>2, <3>2, <4>1
      <4>. QED BY <1>1, <2>2, <3>2, <4>2
    <3>3. CASE t # s /\ u # s
      BY <1>1, <2>2, <3>3 DEF RaceInv, PlanCreates
    <3>. QED BY <3>1, <3>2, <3>3
  <2>. QED BY <1>2, <2>1, <2>2 DEF RaceInv, PlanCreates
<1>7. PlanReports'
  BY <1>1 DEF RaceInv, PlanReports
<1>8. ScannerTimesOut'
  BY <1>1 DEF RaceInv, ScannerTimesOut, Sessions
<1>. QED BY <1>3, <1>4, <1>5, <1>6, <1>7, <1>8 DEF RaceInv

\* Carrying out a plan keeps the invariant.
LEMMA CommitKeeps == ASSUME RaceInv, NEW s \in Sessions, Commit(s) PROVE RaceInv'
<1>. DEFINE plan == txn[s]
<1>. USE RaceStatusFacts
<1>0. plan \in Plans /\ Idle \in Plans
  BY DEF RaceInv, RaceTypeOK, Plans, Idle, Rows
<1>1. /\ \A j \in Jobs : status'[j] = IF j \in plan.jobs /\ plan.to # "keep" THEN plan.to ELSE status[j]
      /\ \A j \in Jobs : lease'[j] = IF j \in plan.jobs /\ plan.lease # "keep" THEN plan.lease ELSE lease[j]
      /\ \A t \in Sessions : txn'[t] = IF t = s THEN Idle ELSE txn[t]
  BY DEF Commit, RaceInv, RaceTypeOK
<1>2. RaceTypeOK'
  <2>1. status' \in [Jobs -> JobStatus \cup {"none"}]
    BY <1>0 DEF Commit, RaceInv, RaceTypeOK, Plans
  <2>2. lease' \in [Jobs -> {"none", "live", "expired"}]
    BY <1>0 DEF Commit, RaceInv, RaceTypeOK, Plans
  <2>3. held' \subseteq Rows(Jobs)
    BY <1>0 DEF Commit, RaceInv, RaceTypeOK, Plans
  <2>4. inv' \in [Jobs -> {"none", "running"} \cup TERMINAL_STATUSES]
    BY DEF Commit, RaceInv, RaceTypeOK, PlanReports
  <2>5. txn' \in [Sessions -> Plans] /\ begun' \in 0..MaxRequests
    BY <1>0 DEF Commit, RaceInv, RaceTypeOK, Plans
  <2>. QED BY <2>1, <2>2, <2>3, <2>4, <2>5 DEF RaceTypeOK, Plans
<1>3. LeaseCoversDelivery'
  BY <1>0, <1>1 DEF RaceInv, LeaseCoversDelivery, PlanLeased, InFlight, Plans
<1>4. PlanLeased'
  <2>1. ASSUME NEW t \in Sessions, t # s, txn[t].to \in {"running", "cancelling"},
               NEW j \in txn[t].jobs
        PROVE  lease'[j] # "none"
    <3>1. j \in Jobs /\ lease[j] # "none"
      BY <2>1 DEF RaceInv, RaceTypeOK, PlanLeased
    <3>. QED BY <1>0, <1>1, <3>1 DEF Plans
  <2>. QED BY <1>1, <2>1 DEF RaceInv, PlanLeased, Idle
<1>5. PlanCreates'
  <2>1. ASSUME NEW j \in Jobs, status'[j] = "none" PROVE inv'[j] = "none"
    <3>1. status[j] = "none" /\ (j \notin plan.jobs \/ plan.to = "keep")
      BY <1>0, <1>1, <2>1 DEF Plans
    <3>2. j \notin plan.jobs
      BY <3>1 DEF RaceInv, PlanCreates
    <3>. QED BY <3>1, <3>2 DEF Commit, RaceInv, PlanCreates
  <2>2. ASSUME NEW t \in Sessions, t # s, NEW j \in txn[t].jobs
        PROVE  txn[t].to = "queued" <=> status'[j] = "none"
    <3>1. j \in Jobs
      BY DEF RaceInv, RaceTypeOK
    <3>2. CASE j \in plan.jobs /\ plan.to # "keep"
      \* two sessions know j, so neither is creating it
      BY <1>0, <1>1, <2>2, <3>1, <3>2 DEF RaceInv, PlanCreates, Plans
    <3>3. CASE ~(j \in plan.jobs /\ plan.to # "keep")
      BY <1>1, <3>1, <3>3 DEF RaceInv, PlanCreates
    <3>. QED BY <3>2, <3>3
  <2>3. \A t \in Sessions : \A j \in txn'[t].jobs : txn'[t].to = "queued" <=> status'[j] = "none"
    BY <1>1, <2>2 DEF Idle
  <2>4. \A t, u \in Sessions : \A j \in txn'[t].jobs \cap txn'[u].jobs :
            txn'[t].to = "queued" => t = u
    BY <1>1 DEF RaceInv, PlanCreates, Idle
  <2>. QED BY <2>1, <2>3, <2>4 DEF PlanCreates
<1>6. PlanReports'
  BY <1>1 DEF RaceInv, PlanReports, Idle
<1>7. ScannerTimesOut'
  BY <1>1 DEF RaceInv, ScannerTimesOut, Sessions
<1>. QED BY <1>2, <1>3, <1>4, <1>5, <1>6, <1>7 DEF RaceInv

\* Steps that only drop a plan, a lock row or the remaining time of a lease.
LEMMA DropKeeps ==
    ASSUME RaceInv,
           UNCHANGED <<status, inv, begun>>,
           held' \subseteq held,
           lease' \in [Jobs -> {"none", "live", "expired"}],
           \A j \in Jobs : lease[j] # "none" => lease'[j] # "none",
           txn' \in [Sessions -> Plans],
           \A s \in Sessions : txn'[s] = txn[s] \/ txn'[s] = Idle
    PROVE  RaceInv'
<1>. USE RaceStatusFacts
<1>1. RaceTypeOK'
  BY DEF RaceInv, RaceTypeOK, Plans
<1>2. LeaseCoversDelivery'
  BY DEF RaceInv, LeaseCoversDelivery, InFlight
<1>3. PlanLeased'
  BY DEF RaceInv, PlanLeased, Idle, RaceTypeOK
<1>4. PlanCreates'
  BY DEF RaceInv, PlanCreates, Idle
<1>5. PlanReports'
  BY DEF RaceInv, PlanReports, Idle
<1>6. ScannerTimesOut'
  BY DEF RaceInv, ScannerTimesOut, Sessions
<1>. QED BY <1>1, <1>2, <1>3, <1>4, <1>5, <1>6 DEF RaceInv

\* Every step keeps the invariant: reads by PlanKeeps, writes by CommitKeeps.
LEMMA RaceStep == RaceInv /\ [RaceNext]_raceVars => RaceInv'
<1>. SUFFICES ASSUME RaceInv, [RaceNext]_raceVars PROVE RaceInv'
  OBVIOUS
<1>. USE RaceStatusFacts, RaceAssumption
<1>0. Idle \in Plans /\ txn \in [Sessions -> Plans]
  BY DEF RaceInv, RaceTypeOK, Plans, Idle, Rows
<1>1. ASSUME NEW s \in Requests, Reads(s) PROVE RaceInv'
  <2>. s \in Sessions /\ s # Scanner
    BY DEF Sessions
  <2>0. ASSUME NEW plan, Request(s, plan) PROVE Plan(s, plan) /\ begun' \in 0..MaxRequests
    BY <2>0 DEF Request, RaceInv, RaceTypeOK
  <2>1. CASE PollReads(s)
    <3>. DEFINE plan == [Idle EXCEPT !.jobs = {j \in Jobs : status[j] = "queued"},
                                     !.to = "claimed", !.lease = "live"]
    <3>1. Request(s, plan)
      BY <2>1 DEF PollReads
    <3>2. plan \in Plans
      BY DEF Idle, Plans, Rows
    <3>. QED BY <2>0, <3>1, <3>2, PlanKeeps DEF Idle
  <2>2. ASSUME NEW j \in Jobs, CreateReads(s, j) PROVE RaceInv'
    <3>. DEFINE wanted == KeysOf[j] \X {j}
                found  == {row \in held : row[1] \in KeysOf[j]}
                plan   == [Idle EXCEPT !.jobs = {j}, !.to = "queued",
                                       !.lock = wanted, !.unlock = found]
    <3>1. Request(s, plan) /\ status[j] = "none" /\ \A r \in Requests : j \notin txn[r].jobs
      BY <2>2 DEF CreateReads
    <3>2. wanted \subseteq Rows(Jobs) /\ found \subseteq Rows(Jobs)
      BY DEF RaceInv, RaceTypeOK, Rows
    <3>3. plan \in Plans
      BY <3>2 DEF Idle, Plans
    <3>4. j \notin txn[Scanner].jobs
      \* the scanner never creates, and j has no row to be read
      BY <3>1 DEF RaceInv, PlanCreates, ScannerTimesOut, Sessions, Idle
    <3>5. \A t \in Sessions : plan.jobs \cap txn[t].jobs = {}
      BY <3>1, <3>4 DEF Sessions, Idle
    <3>. HIDE DEF wanted, found
    <3>. QED BY <2>0, <3>1, <3>3, <3>5, PlanKeeps DEF Idle
  <2>3. ASSUME NEW j \in Jobs, AcceptReads(s, j) PROVE RaceInv'
    <3>. DEFINE plan == [Idle EXCEPT !.jobs = {j}, !.to = "running"]
    <3>1. Request(s, plan) /\ status[j] = "claimed" /\ lease[j] # "none"
      BY <2>3 DEF AcceptReads, RaceInv, LeaseCoversDelivery, InFlight
    <3>2. plan \in Plans
      BY DEF Idle, Plans, Rows
    <3>. QED BY <2>0, <3>1, <3>2, PlanKeeps DEF Idle
  <2>4. ASSUME NEW j \in Jobs, RenewReads(s, j) PROVE RaceInv'
    <3>. DEFINE plan == [Idle EXCEPT !.jobs = {j}, !.lease = "live"]
    <3>1. Request(s, plan) /\ status[j] = "running"
      BY <2>4 DEF RenewReads
    <3>2. plan \in Plans
      BY DEF Idle, Plans, Rows
    <3>. QED BY <2>0, <3>1, <3>2, PlanKeeps DEF Idle
  <2>5. ASSUME NEW j \in Jobs, CancelReads(s, j) PROVE RaceInv'
    <3>. DEFINE drop == [Idle EXCEPT !.jobs = {j}, !.to = "cancelled", !.unlock = Rows({j})]
                stop == [Idle EXCEPT !.jobs = {j}, !.to = "cancelling"]
    <3>1. drop \in Plans /\ stop \in Plans
      BY DEF Idle, Plans, Rows
    <3>2. CASE status[j] = "queued" /\ Request(s, drop)
      BY <2>0, <3>1, <3>2, PlanKeeps DEF Idle
    <3>3. CASE status[j] = "running" /\ Request(s, stop)
      <4>1. lease[j] # "none"
        BY <3>3 DEF RaceInv, LeaseCoversDelivery, InFlight
      <4>. QED BY <2>0, <3>1, <3>3, <4>1, PlanKeeps DEF Idle
    <3>. QED BY <2>5, <3>2, <3>3 DEF CancelReads
  <2>6. ASSUME NEW j \in Jobs, NEW target \in TERMINAL_STATUSES, FinishReads(s, j, target)
        PROVE  RaceInv'
    <3>. DEFINE plan == [Idle EXCEPT !.jobs = {j}, !.to = target, !.unlock = Rows({j}),
                                     !.report = TRUE]
    <3>1. Request(s, plan) /\ status[j] # "none"
      BY <2>6 DEF FinishReads, Underway
    <3>2. plan \in Plans
      BY DEF Idle, Plans, Rows
    <3>. QED BY <2>0, <3>1, <3>2, PlanKeeps DEF Idle
  <2>7. ASSUME NEW j \in Jobs, NEW target \in TERMINAL_STATUSES, ReconcileReads(s, j, target)
        PROVE  RaceInv'
    <3>. DEFINE plan == [Idle EXCEPT !.jobs = {j}, !.to = target]
    <3>1. Request(s, plan) /\ status[j] # "none"
      BY <2>7 DEF ReconcileReads, Underway
    <3>2. plan \in Plans
      BY DEF Idle, Plans, Rows
    <3>. QED BY <2>0, <3>1, <3>2, PlanKeeps DEF Idle
  <2>. QED BY <1>1, <2>1, <2>2, <2>3, <2>4, <2>5, <2>6, <2>7 DEF Reads
<1>2. CASE TimeoutReads
  <2>. DEFINE expired == {j \in Jobs : Expired(j)}
              plan == [Idle EXCEPT !.jobs = expired, !.to = "timeout", !.unlock = Rows(expired)]
  <2>1. Plan(Scanner, plan) /\ begun' \in 0..MaxRequests /\ Scanner \in Sessions
    BY <1>2 DEF TimeoutReads, Sessions, RaceInv, RaceTypeOK
  <2>2. plan \in Plans
    BY DEF Idle, Plans, Rows
  <2>3. \A j \in expired : status[j] # "none"
    BY DEF Expired, InFlight
  <2>. HIDE DEF expired
  <2>. QED BY <2>1, <2>2, <2>3, PlanKeeps DEF Idle
<1>3. ASSUME NEW s \in Sessions, Commit(s) PROVE RaceInv'
  BY <1>3, CommitKeeps
<1>4. ASSUME NEW s \in Requests, Abort(s) PROVE RaceInv'
  BY <1>0, <1>4, DropKeeps DEF Abort, Sessions, RaceInv, RaceTypeOK
<1>5. CASE SweepLocks
  BY <1>0, <1>5, DropKeeps DEF SweepLocks, RaceInv, RaceTypeOK
<1>6. ASSUME NEW j \in Jobs, LeaseRunsOut(j) PROVE RaceInv'
  BY <1>0, <1>6, DropKeeps DEF LeaseRunsOut, RaceInv, RaceTypeOK
<1>7. CASE UNCHANGED raceVars
  BY <1>0, <1>7, DropKeeps DEF raceVars, RaceInv, RaceTypeOK
<1>. QED BY <1>1, <1>2, <1>3, <1>4, <1>5, <1>6, <1>7 DEF RaceNext

\* The invariant holds in every reachable state.
THEOREM RaceInvariance == RaceSpec => []RaceInv
<1>1. RaceInit => RaceInv
  BY RaceAssumption, RaceStatusFacts
  DEF RaceInit, RaceInv, RaceTypeOK, LeaseCoversDelivery, PlanLeased, PlanCreates, PlanReports,
      ScannerTimesOut, InFlight, Idle, Rows, Sessions
<1>. QED BY <1>1, RaceStep, PTL DEF RaceSpec

\* No interleaving of handlers and scanner leaves a delivered job without a lease.
THEOREM RacedLeaseAlways == RaceSpec => [](RaceTypeOK /\ LeaseCoversDelivery)
<1>1. RaceInv => RaceTypeOK /\ LeaseCoversDelivery
  BY DEF RaceInv
<1>. QED BY <1>1, RaceInvariance, PTL

\* The outcome of an invocation is written once, whichever transactions race.
THEOREM OutcomeOnce == RaceSpec => InvocationWrittenOnce
<1>. DEFINE Kept == \A j \in Jobs : inv[j] \in TERMINAL_STATUSES => inv'[j] = inv[j]
<1>1. ASSUME RaceInv, NEW s \in Sessions, Commit(s) PROVE Kept
  BY <1>1, RaceStatusFacts DEF RaceInv, RaceTypeOK, PlanCreates, Commit, Reports
<1>2. ASSUME RaceNext, ~(\E s \in Sessions : Commit(s)) PROVE UNCHANGED inv
  BY <1>2 DEF RaceNext, Reads, PollReads, CreateReads, AcceptReads, RenewReads, CancelReads,
     FinishReads, ReconcileReads, Request, Plan, Abort, TimeoutReads, SweepLocks, LeaseRunsOut
<1>3. RaceInv /\ [RaceNext]_raceVars => [Kept]_raceVars
  BY <1>1, <1>2
<1>. QED BY <1>3, RaceInvariance, PTL DEF RaceSpec, InvocationWrittenOnce
---------------------------------------------------------------------------
(* Operation.                                                              *)

LEMMA Proj == \A s \in JobStatus : operation_status_from_job(s) \in OpStatus
  BY DEF operation_status_from_job, JobStatus, NON_TERMINAL_STATUSES, InFlightStatuses,
         TERMINAL_STATUSES, OpStatus

LEMMA ProjCancelled ==
    \A s \in JobStatus : CancelledJob(s) \in JobStatus
                         /\ operation_status_from_job(CancelledJob(s)) \in OpStatus
  BY DEF operation_status_from_job, CancelledJob, JobStatus, NON_TERMINAL_STATUSES,
         InFlightStatuses, TERMINAL_STATUSES, OpStatus

(***************************************************************************)
(* The number of the last event.  No event's number is beyond the length   *)
(* of the log, so the numbers have a greatest one.                         *)
(***************************************************************************)
Holders == {"writing", "cancelling", "reporting"}
Seen == Holders \cup {"adding"}
Steps == {"idle", "asked", "cancel", "projected", "ordered", "stuck"} \cup Seen

SeqBound ==
    /\ \A i \in DOMAIN log : log[i].seq <= Len(log)
    /\ \A s \in DbSessions : doing[s] \in Seen => read[s].seq <= Len(log)

\* A bounded set of numbers has a greatest one.
LEMMA MaxOf ==
    ASSUME NEW n \in Nat, NEW S, S \subseteq 0..n, S # {}
    PROVE  Max(S) \in S /\ \A x \in S : x <= Max(S)
<1>0. \A x \in S : x \in 0..n /\ n - x \in Nat
  OBVIOUS
<1>1. PICK gap \in {n - x : x \in S} : \A h \in {n - x : x \in S} : ~(<<h, gap>> \in OpToRel(<, Nat))
  <2>1. {n - x : x \in S} \subseteq Nat
    BY <1>0
  <2>2. {n - x : x \in S} # {}
    OBVIOUS
  <2> QED
    BY <2>1, <2>2, NatLessThanWellFounded, WFMin, Zenon
<1>2. PICK m \in S : gap = n - m
  OBVIOUS
<1>3. ASSUME NEW x \in S PROVE x <= m
  <2>1. n - x \in Nat /\ n - m \in Nat /\ x \in 0..n /\ m \in 0..n
    BY <1>0
  <2>2. ~(n - x < n - m)
    BY <1>1, <1>2, <2>1 DEF OpToRel
  <2> QED
    BY <2>1, <2>2
<1>4. \E k \in S : \A x \in S : k >= x
  BY <1>3
<1>5. Max(S) \in S /\ \A x \in S : Max(S) >= x
  BY <1>4 DEF Max
<1> QED
  BY <1>0, <1>5

LEMMA LastSeqIs ==
    ASSUME TypeOK, SeqBound
    PROVE  /\ LastSeq \in Nat /\ LastSeq <= Len(log)
           /\ \A i \in DOMAIN log : log[i].seq <= LastSeq
           /\ (\A i \in DOMAIN log : log[i].seq = i) => LastSeq = Len(log)
<1> DEFINE S == {0} \cup {log[i].seq : i \in DOMAIN log}
<1>1. log \in Seq(Event) /\ Len(log) \in Nat /\ DOMAIN log = 1..Len(log)
      /\ \A i \in DOMAIN log : log[i].seq \in Nat
  <2>1. log \in Seq(Event)
    BY DEF TypeOK
  <2>2. \A e \in Event : e.seq \in Nat
    BY DEF Event
  <2> QED
    BY <2>1, <2>2
<1>2. S \subseteq 0..Len(log) /\ S # {} /\ \A i \in DOMAIN log : log[i].seq \in S
  BY <1>1 DEF SeqBound
<1>3. LastSeq = Max(S)
  BY DEF LastSeq
<1> HIDE DEF S
<1>4. LastSeq \in S /\ \A x \in S : x <= LastSeq
  BY <1>1, <1>2, <1>3, MaxOf
<1>5. LastSeq \in Nat /\ LastSeq <= Len(log) /\ \A i \in DOMAIN log : log[i].seq <= LastSeq
  BY <1>1, <1>2, <1>4
<1>6. ASSUME \A i \in DOMAIN log : log[i].seq = i PROVE LastSeq = Len(log)
  <2>1. CASE Len(log) = 0
    BY <1>5, <2>1
  <2>2. CASE Len(log) # 0
    <3>1. Len(log) \in DOMAIN log
      BY <1>1, <2>2
    <3> QED
      BY <1>1, <1>5, <1>6, <3>1
  <2> QED
    BY <2>1, <2>2
<1> QED
  BY <1>5, <1>6

(***************************************************************************)
(* Types.                                                                  *)
(***************************************************************************)
LEMMA InitTyped == Init => TypeOK
<1> SUFFICES ASSUME Init PROVE TypeOK
  OBVIOUS
<1> USE DEF Init
<1>1. job \in JobStatus /\ op \in OpStatus \cup {"none"}
  BY DEF JobStatus, NON_TERMINAL_STATUSES, OpStatus
<1>2. log \in Seq(Event) /\ notes \in Seq(TERMINAL_STATUSES)
  OBVIOUS
<1>3. stuck \in BOOLEAN /\ alone \in BOOLEAN
  BY Zenon
<1>4. doing \in [DbSessions -> Steps] /\ read \in [DbSessions -> Loaded]
  BY DEF Steps, Nothing, Loaded, JobStatus, NON_TERMINAL_STATUSES
<1>5. cancels \in 0..MaxCancels
  BY OperationAssumption
<1> QED
  BY <1>1, <1>2, <1>3, <1>4, <1>5, Zenon DEF TypeOK, Steps, Seen, Holders

\* An event of the log, and the log with it.
LEMMA Appended ==
    ASSUME TypeOK, NEW t, t \in OpStatus \cup {"created", "cancel", "stuck"},
           NEW s \in OpStatus, NEW n \in Nat
    PROVE  /\ Append(log, [type |-> t, status |-> s, seq |-> n]) \in Seq(Event)
           /\ Len(Append(log, [type |-> t, status |-> s, seq |-> n])) = Len(log) + 1
<1>1. [type |-> t, status |-> s, seq |-> n] \in Event
  BY DEF Event
<1> QED
  BY <1>1 DEF TypeOK

\* Enqueueing keeps the notifications' type, whatever was loaded of them.
LEMMA EnqueuedTyped ==
    ASSUME TypeOK, NEW s \in DbSessions, NEW st \in OpStatus
    PROVE  Enqueued(s, st) \in Seq(TERMINAL_STATUSES)
<1>1. notes \in Seq(TERMINAL_STATUSES) /\ read[s].notes \in Nat
  BY DEF TypeOK, Loaded
<1>2. CASE st \notin TERMINAL_STATUSES
  BY <1>1, <1>2 DEF Enqueued
<1>3. CASE st \in TERMINAL_STATUSES /\ read[s].notes = 0
  BY <1>1, <1>3 DEF Enqueued
<1>4. CASE st \in TERMINAL_STATUSES /\ read[s].notes # 0 /\ 1 \in 1..Len(notes)
  <2>1. [notes EXCEPT ![1] = st] \in Seq(TERMINAL_STATUSES)
    BY <1>1, <1>4, ExceptSeq
  <2> QED
    BY <2>1, <1>4 DEF Enqueued
<1>5. CASE st \in TERMINAL_STATUSES /\ read[s].notes # 0 /\ 1 \notin 1..Len(notes)
  <2>1. [notes EXCEPT ![1] = st] = notes
    BY <1>1, <1>5
  <2> QED
    BY <2>1, <1>1, <1>5 DEF Enqueued
<1> QED
  BY <1>2, <1>3, <1>4, <1>5

\* One notification at most stays so, and an end leaves one.
LEMMA EnqueuedOnce ==
    ASSUME TypeOK, Len(notes) <= 1, NEW s \in DbSessions, NEW st \in OpStatus,
           read[s].notes = Len(notes)
    PROVE  /\ Len(Enqueued(s, st)) <= 1 /\ Len(Enqueued(s, st)) >= Len(notes)
           /\ st \in TERMINAL_STATUSES => Len(Enqueued(s, st)) = 1
<1>1. notes \in Seq(TERMINAL_STATUSES) /\ read[s].notes \in Nat /\ Len(notes) \in Nat
  BY DEF TypeOK, Loaded
<1>0. Len(notes) = 0 \/ Len(notes) = 1
  <2> DEFINE n == Len(notes)
  <2>1. n \in Nat /\ n <= 1
    BY <1>1
  <2> HIDE DEF n
  <2>2. n = 0 \/ n = 1
    BY <2>1
  <2> QED
    BY <2>2 DEF n
<1>2. CASE st \notin TERMINAL_STATUSES
  BY <1>1, <1>2 DEF Enqueued
<1>3. CASE st \in TERMINAL_STATUSES /\ read[s].notes = 0
  <2>0. notes = <<>>
    BY <1>1, <1>3, EmptySeq
  <2>1. Len(Append(notes, st)) = 1
    BY <2>0
  <2> QED
    BY <2>0, <2>1, <1>1, <1>3 DEF Enqueued
<1>4. CASE st \in TERMINAL_STATUSES /\ read[s].notes # 0
  <2>1. Len(notes) = 1
    BY <1>0, <1>4
  <2>2. Len([notes EXCEPT ![1] = st]) = Len(notes)
    BY <1>1, <1>4, <2>1, ExceptSeq
  <2> QED
    BY <2>1, <2>2, <1>1, <1>4 DEF Enqueued
<1> QED
  BY <1>2, <1>3, <1>4

\* Opening a session changes what it is doing and the operation it has read.
LEMMA OpenTyped ==
    ASSUME TypeOK, NEW s \in DbSessions, NEW what \in Steps, Open(s, what)
    PROVE  /\ doing' \in [DbSessions -> Steps]
           /\ read' \in [DbSessions -> Loaded]
           /\ alone' \in BOOLEAN
<1> USE DEF Open, TypeOK, Steps, Seen, Holders
<1>1. doing' \in [DbSessions -> Steps]
  OBVIOUS
<1>2. read' \in [DbSessions -> Loaded]
  BY DEF Loaded
<1>3. alone' \in BOOLEAN
  BY Zenon
<1> QED
  BY <1>1, <1>2, <1>3

LEMMA CloseTyped ==
    ASSUME TypeOK, NEW s \in DbSessions, Close(s)
    PROVE  doing' \in [DbSessions -> Steps] /\ read' \in [DbSessions -> Loaded]
<1>1. Nothing \in Loaded
  BY DEF Nothing, Loaded, JobStatus, NON_TERMINAL_STATUSES
<1> QED
  BY <1>1 DEF Close, TypeOK, Steps, Seen, Holders

LEMMA LoadTyped ==
    ASSUME TypeOK, NEW s \in DbSessions, NEW what \in Steps, Load(s, what)
    PROVE  doing' \in [DbSessions -> Steps] /\ read' \in [DbSessions -> Loaded]
<1>1. job \in JobStatus /\ read \in [DbSessions -> Loaded] /\ doing \in [DbSessions -> Steps]
  BY DEF TypeOK, Steps, Seen, Holders
<1>2. [read[s] EXCEPT !.job = job] \in Loaded
  BY <1>1 DEF Loaded
<1> QED
  BY <1>1, <1>2 DEF Load, Loaded

LEMMA LookUpTyped ==
    ASSUME TypeOK, SeqBound, NEW s \in DbSessions, NEW what \in Steps, LookUp(s, what)
    PROVE  doing' \in [DbSessions -> Steps] /\ read' \in [DbSessions -> Loaded]
<1>1. notes \in Seq(TERMINAL_STATUSES) /\ read \in [DbSessions -> Loaded]
      /\ doing \in [DbSessions -> Steps]
  BY DEF TypeOK, Steps, Seen, Holders
<1>2. LastSeq \in Nat /\ Len(notes) \in Nat
  BY <1>1, LastSeqIs
<1>3. [read[s] EXCEPT !.seq = LastSeq, !.notes = Len(notes)] \in Loaded
  BY <1>1, <1>2 DEF Loaded
<1> QED
  BY <1>1, <1>2, <1>3 DEF LookUp, Loaded

\* Every event appended from what a session has loaded keeps the log's type.
LEMMA AppendEventTyped ==
    ASSUME TypeOK, NEW s \in DbSessions, NEW t \in OpStatus \cup {"cancel", "stuck"},
           NEW st \in OpStatus, append_event(s, t, st)
    PROVE  log' \in Seq(Event) /\ notes' \in Seq(TERMINAL_STATUSES)
           /\ Len(log') = Len(log) + 1
<1>1. read[s].seq + 1 \in Nat
  BY DEF TypeOK, Loaded
<1> QED
  BY <1>1, Appended, EnqueuedTyped DEF append_event

\* A session has loaded an operation that exists.
ReadKnown == \A s \in DbSessions : doing[s] # "idle" => read[s].op # "none"

\* Every step keeps the types, given what sessions have loaded.
LEMMA TypedStep == TypeOK /\ ReadKnown /\ SeqBound /\ [Next]_vars => TypeOK'
<1> SUFFICES ASSUME TypeOK, ReadKnown, SeqBound, [Next]_vars PROVE TypeOK'
  OBVIOUS
<1> USE DEF Steps, Seen, Holders
<1>1. CASE create_for_job
  <2>1. "created" \in OpStatus \cup {"created", "cancel", "stuck"} /\ "queued" \in OpStatus
        /\ Len(log) + 1 \in Nat
    BY DEF OpStatus, TypeOK
  <2>2. log' \in Seq(Event)
    BY <1>1, <2>1, Appended DEF create_for_job
  <2> QED
    BY <1>1, <2>1, <2>2 DEF create_for_job, TypeOK
<1>2. CASE JobMoves
  BY <1>2 DEF JobMoves, TypeOK
<1>3. ASSUME NEW s \in DbSessions, StatusRequest(s) \/ SyncActiveOperations(s) PROVE TypeOK'
  <2>1. Open(s, "asked") /\ UNCHANGED cancels
    BY <1>3 DEF StatusRequest, SyncActiveOperations
  <2> QED
    BY <2>1, OpenTyped, Zenon DEF Open, TypeOK
<1>4. ASSUME NEW s \in DbSessions, CancelRequest(s) PROVE TypeOK'
  <2>1. cancels' \in 0..MaxCancels /\ Open(s, "cancel")
    BY <1>4, OperationAssumption DEF CancelRequest, TypeOK
  <2> QED
    BY <2>1, OpenTyped, Zenon DEF Open, TypeOK
<1>5. ASSUME NEW s \in DbSessions, FindStuck(s) PROVE TypeOK'
  BY <1>5, OpenTyped, Zenon DEF FindStuck, Open, TypeOK
<1>6. ASSUME NEW s \in DbSessions, Project(s) \/ CancelJob(s) PROVE TypeOK'
  <2>1. UNCHANGED <<job, op, log, notes, stuck, cancels, alone>>
        /\ (Close(s) \/ \E what \in Steps : Load(s, what))
    BY <1>6 DEF Project, CancelJob
  <2>2. read' \in [DbSessions -> Loaded] /\ doing' \in [DbSessions -> Steps]
    BY <2>1, LoadTyped, CloseTyped
  <2> QED
    BY <2>1, <2>2 DEF TypeOK
<1>7. ASSUME NEW s \in DbSessions, FlushStatus(s) \/ FlushCancel(s) \/ FlushStuck(s) PROVE TypeOK'
  <2>1. UNCHANGED <<job, op, log, notes, stuck, cancels, alone>>
        /\ \E what \in Steps : LookUp(s, what)
    BY <1>7 DEF FlushStatus, FlushCancel, FlushStuck, Flush
  <2>2. read' \in [DbSessions -> Loaded] /\ doing' \in [DbSessions -> Steps]
    BY <2>1, LookUpTyped
  <2> QED
    BY <2>1, <2>2 DEF TypeOK
<1>8. ASSUME NEW s \in DbSessions, CommitStatus(s) PROVE TypeOK'
  <2>1. operation_status_from_job(read[s].job) \in OpStatus
    BY Proj DEF TypeOK, Loaded
  <2>2. log' \in Seq(Event) /\ notes' \in Seq(TERMINAL_STATUSES)
    BY <1>8, <2>1, AppendEventTyped DEF CommitStatus
  <2>3. doing' \in [DbSessions -> Steps] /\ read' \in [DbSessions -> Loaded]
    BY <1>8, CloseTyped DEF CommitStatus
  <2> QED
    BY <1>8, <2>1, <2>2, <2>3 DEF CommitStatus, TypeOK
<1>9. ASSUME NEW s \in DbSessions, CommitCancel(s) PROVE TypeOK'
  <2> DEFINE target == CancelledJob(read[s].job)
             new == operation_status_from_job(target)
  <2>1. target \in JobStatus /\ new \in OpStatus
    BY ProjCancelled DEF TypeOK, Loaded
  <2>2. log' \in Seq(Event) /\ notes' \in Seq(TERMINAL_STATUSES)
    BY <1>9, <2>1, AppendEventTyped DEF CommitCancel
  <2>3. doing' \in [DbSessions -> Steps] /\ read' \in [DbSessions -> Loaded]
    BY <1>9, CloseTyped DEF CommitCancel
  <2> QED
    BY <1>9, <2>1, <2>2, <2>3 DEF CommitCancel, TypeOK
<1>10. ASSUME NEW s \in DbSessions, ReportStuck(s) PROVE TypeOK'
  <2>1. read[s].op \in OpStatus
    BY <1>10 DEF ReportStuck, ReadKnown, TypeOK, Loaded
  <2>2. log' \in Seq(Event) /\ notes' \in Seq(TERMINAL_STATUSES)
    BY <1>10, <2>1, AppendEventTyped DEF ReportStuck
  <2>3. doing' \in [DbSessions -> Steps] /\ read' \in [DbSessions -> Loaded]
    BY <1>10, CloseTyped DEF ReportStuck
  <2> QED
    BY <2>2, <2>3, <1>10 DEF ReportStuck, TypeOK
<1>11. CASE UNCHANGED vars
  BY <1>11 DEF vars, TypeOK
<1> QED
  BY <1>1, <1>2, <1>3, <1>4, <1>5, <1>6, <1>7, <1>8, <1>9, <1>10, <1>11 DEF Next, Step

(***************************************************************************)
(* An end is noted once, and events are numbered upwards.  What a session  *)
(* that holds the row has seen of the log and of the notifications stays   *)
(* true until it commits, but for cancels of what is over; and a session   *)
(* that adds such a cancel has seen the notification of the end.           *)
(***************************************************************************)
\* Nothing is written before the operation is made.
NoRow ==
    op = "none" => log = <<>> /\ notes = <<>> /\ \A s \in DbSessions : doing[s] = "idle"

\* A cancel request that goes on has loaded a job that can be cancelled or is over.
OrderedFrom ==
    /\ job # "created"
    /\ \A s \in DbSessions : read[s].job # "created"
    /\ \A s \in DbSessions :
        doing[s] \in {"ordered", "cancelling", "adding"} => read[s].job \notin {"claimed", "cancelling"}

EndSeen ==
    \A s \in DbSessions :
        doing[s] # "idle" /\ read[s].op \in TERMINAL_STATUSES => Len(notes) = 1

RowHeld == \A s, r \in DbSessions : doing[s] \in Holders /\ doing[r] \in Holders => s = r

HolderSees ==
    \A s \in DbSessions : doing[s] \in Holders =>
        /\ read[s].notes = Len(notes)
        /\ \A i \in DOMAIN log : ~LateCancel(log[i]) => log[i].seq <= read[s].seq

AddsLate ==
    \A s \in DbSessions : doing[s] = "adding" =>
        /\ read[s].notes = 1 /\ Len(notes) = 1
        /\ read[s].job \in TERMINAL_STATUSES /\ read[s].op = read[s].job

Rises(l) ==
    \A i, k \in DOMAIN l :
        i < k /\ ~LateCancel(l[i]) /\ ~LateCancel(l[k]) => l[i].seq < l[k].seq

OnceNoted == Len(notes) <= 1 /\ (op \in TERMINAL_STATUSES => Len(notes) = 1)

SInv ==
    /\ ReadKnown /\ SeqBound /\ NoRow /\ OrderedFrom /\ EndSeen
    /\ RowHeld /\ HolderSees /\ AddsLate /\ Rises(log) /\ OnceNoted

IInv == TypeOK /\ SInv

\* Statuses and jobs, for the provers.
LEMMA StatusFacts ==
    /\ TERMINAL_STATUSES = {"succeeded", "failed", "cancelled", "timeout"}
    /\ OpStatus = {"queued", "running", "succeeded", "failed", "cancelled", "timeout"}
    /\ JobStatus = {"created", "queued", "claimed", "running", "cancelling",
                    "succeeded", "failed", "cancelled", "timeout"}
  BY DEF TERMINAL_STATUSES, OpStatus, JobStatus, NON_TERMINAL_STATUSES, InFlightStatuses

\* What is loaded, of every session.
LEMMA ReadTyped ==
    ASSUME TypeOK, NEW s \in DbSessions
    PROVE  /\ read[s].op \in OpStatus \cup {"none"} /\ read[s].job \in JobStatus
           /\ read[s].seq \in Nat /\ read[s].notes \in Nat
           /\ doing[s] \in Steps
  BY DEF TypeOK, Loaded, Steps, Seen, Holders

LEMMA LogFacts ==
    ASSUME TypeOK
    PROVE  /\ log \in Seq(Event) /\ Len(log) \in Nat /\ DOMAIN log = 1..Len(log)
           /\ \A i \in DOMAIN log : log[i] \in Event /\ log[i].seq \in Nat
           /\ notes \in Seq(TERMINAL_STATUSES) /\ Len(notes) \in Nat
<1>1. log \in Seq(Event) /\ notes \in Seq(TERMINAL_STATUSES)
  BY DEF TypeOK
<1>2. \A e \in Event : e.seq \in Nat
  BY DEF Event
<1> QED
  BY <1>1, <1>2

\* A job that moves goes on.
LEMMA MovesOn ==
    ASSUME NEW s \in JobStatus, NEW t \in JobStatus, is_valid_transition(s, t)
    PROVE  s \notin TERMINAL_STATUSES /\ t # "created"
  BY DEF is_valid_transition, VALID_TRANSITIONS, TERMINAL_STATUSES

\* What one event more makes of the log.
LEMMA LogGrows ==
    ASSUME TypeOK, NEW s \in DbSessions, NEW t \in OpStatus \cup {"cancel", "stuck"},
           NEW st \in OpStatus, append_event(s, t, st)
    PROVE  /\ Len(log') = Len(log) + 1 /\ DOMAIN log' = 1..(Len(log) + 1)
           /\ log'[Len(log) + 1] = [type |-> t, status |-> st, seq |-> read[s].seq + 1]
           /\ log'[Len(log) + 1].seq = read[s].seq + 1
           /\ log'[Len(log) + 1].type = t /\ log'[Len(log) + 1].status = st
           /\ \A i \in 1..Len(log) : log'[i] = log[i]
<1> DEFINE e == [type |-> t, status |-> st, seq |-> read[s].seq + 1]
<1>1. e \in Event
  BY ReadTyped DEF Event
<1>2. log' = Append(log, e)
  BY DEF append_event
<1>3. log \in Seq(Event)
  BY DEF TypeOK
<1> HIDE DEF e
<1>4. /\ Append(log, e) \in Seq(Event) /\ Len(Append(log, e)) = Len(log) + 1
      /\ \A i \in 1..Len(log) : Append(log, e)[i] = log[i]
      /\ Append(log, e)[Len(log) + 1] = e
  BY <1>1, <1>3, AppendProperties
<1>5. DOMAIN Append(log, e) = 1..(Len(log) + 1)
  BY <1>4
<1> QED
  BY <1>2, <1>4, <1>5 DEF e

\* Numbers stay within the log as it grows.
LEMMA BoundGrows ==
    ASSUME TypeOK, SeqBound, NEW s \in DbSessions, doing[s] \in Seen, Close(s),
           NEW t \in OpStatus \cup {"cancel", "stuck"}, NEW st \in OpStatus, append_event(s, t, st)
    PROVE  SeqBound'
<1> DEFINE n == Len(log)
<1>1. /\ n \in Nat /\ Len(log') = n + 1 /\ DOMAIN log' = 1..(n + 1) /\ DOMAIN log = 1..n
      /\ log'[n + 1].seq = read[s].seq + 1 /\ \A i \in 1..n : log'[i] = log[i]
      /\ \A i \in 1..n : log[i].seq \in Nat
  <2>1. /\ Len(log') = n + 1 /\ DOMAIN log' = 1..(n + 1)
        /\ log'[n + 1].seq = read[s].seq + 1 /\ \A i \in 1..n : log'[i] = log[i]
        /\ log'[n + 1].type = t /\ log'[n + 1].status = st
    BY LogGrows, Zenon
  <2>2. n \in Nat /\ DOMAIN log = 1..n /\ \A i \in 1..n : log[i].seq \in Nat
    BY LogFacts, Zenon
  <2> QED
    BY <2>1, <2>2
<1>2. read[s].seq <= n /\ read[s].seq \in Nat /\ \A i \in 1..n : log[i].seq <= n
  BY <1>1, ReadTyped DEF SeqBound
<1>3. ASSUME NEW r \in DbSessions, doing'[r] \in Seen PROVE read'[r].seq <= n + 1
  <2>1. r # s
    BY <1>3 DEF Close, TypeOK, Seen, Holders
  <2>2. doing'[r] = doing[r] /\ read'[r] = read[r]
    BY <2>1 DEF Close, TypeOK
  <2>3. read[r].seq <= n /\ read[r].seq \in Nat
    BY <1>3, <2>2, ReadTyped DEF SeqBound
  <2> HIDE DEF n
  <2> QED
    BY <1>1, <2>2, <2>3
<1>4. ASSUME NEW i \in 1..(n + 1) PROVE log'[i].seq <= n + 1
  <2> HIDE DEF n
  <2>1. CASE i = n + 1
    BY <1>1, <1>2, <2>1
  <2>2. CASE i \in 1..n
    BY <1>1, <1>2, <2>2
  <2> QED
    BY <1>1, <1>4, <2>1, <2>2
<1> QED
  BY <1>1, <1>3, <1>4 DEF SeqBound

\* Numbers go on upwards, when the new event is a late cancel or beyond what counts.
LEMMA RisesOn ==
    ASSUME TypeOK, Rises(log), NEW s \in DbSessions, NEW t \in OpStatus \cup {"cancel", "stuck"},
           NEW st \in OpStatus, append_event(s, t, st),
           \/ t = "cancel" /\ st \in TERMINAL_STATUSES
           \/ \A i \in DOMAIN log : ~LateCancel(log[i]) => log[i].seq <= read[s].seq
    PROVE  Rises(log')
<1> DEFINE n == Len(log)
<1>1. /\ n \in Nat /\ DOMAIN log' = 1..(n + 1) /\ DOMAIN log = 1..n
      /\ log'[n + 1].seq = read[s].seq + 1 /\ \A i \in 1..n : log'[i] = log[i]
      /\ log'[n + 1].type = t /\ log'[n + 1].status = st
      /\ \A i \in 1..n : log[i].seq \in Nat
  <2>1. /\ Len(log') = n + 1 /\ DOMAIN log' = 1..(n + 1)
        /\ log'[n + 1].seq = read[s].seq + 1 /\ \A i \in 1..n : log'[i] = log[i]
        /\ log'[n + 1].type = t /\ log'[n + 1].status = st
    BY LogGrows, Zenon
  <2>2. n \in Nat /\ DOMAIN log = 1..n /\ \A i \in 1..n : log[i].seq \in Nat
    BY LogFacts, Zenon
  <2> QED
    BY <2>1, <2>2
<1>2. read[s].seq \in Nat
  BY ReadTyped
<1>3. \A i, k \in 1..n :
        i < k /\ ~LateCancel(log[i]) /\ ~LateCancel(log[k]) => log[i].seq < log[k].seq
  BY <1>1 DEF Rises
<1> HIDE DEF n
<1>4. ASSUME NEW i \in 1..(n + 1), NEW k \in 1..(n + 1), i < k, ~LateCancel(log'[i]), ~LateCancel(log'[k])
      PROVE  log'[i].seq < log'[k].seq
  <2>1. i \in 1..n /\ (k \in 1..n \/ k = n + 1)
    BY <1>1, <1>4
  <2>2. CASE k \in 1..n
    BY <1>1, <1>3, <1>4, <2>1, <2>2
  <2>3. CASE k = n + 1
    <3>1. ~(t = "cancel" /\ st \in TERMINAL_STATUSES)
      BY <1>1, <1>4, <2>3 DEF LateCancel
    <3>2. log[i].seq <= read[s].seq
      BY <1>1, <1>4, <2>1, <3>1
    <3> QED
      BY <1>1, <1>2, <2>1, <2>3, <3>2
  <2> QED
    BY <2>1, <2>2, <2>3
<1> QED
  BY <1>1, <1>4 DEF Rises

\* What a session has done to its own state, and that it left the others'.
LEMMA OpenIs ==
    ASSUME TypeOK, NEW s \in DbSessions, NEW what, Open(s, what)
    PROVE  /\ doing'[s] = what /\ read'[s].op = op /\ read'[s].job = read[s].job
           /\ read'[s].seq = read[s].seq /\ read'[s].notes = read[s].notes
           /\ \A r \in DbSessions : r # s => doing'[r] = doing[r] /\ read'[r] = read[r]
  BY DEF Open, TypeOK, Loaded

LEMMA CloseIs ==
    ASSUME TypeOK, NEW s \in DbSessions, Close(s)
    PROVE  /\ doing'[s] = "idle" /\ read'[s].job = "queued"
           /\ \A r \in DbSessions : r # s => doing'[r] = doing[r] /\ read'[r] = read[r]
  BY DEF Close, TypeOK, Loaded, Nothing

LEMMA LoadIs ==
    ASSUME TypeOK, NEW s \in DbSessions, NEW what, Load(s, what)
    PROVE  /\ doing'[s] = what /\ read'[s].op = read[s].op /\ read'[s].job = job
           /\ read'[s].seq = read[s].seq /\ read'[s].notes = read[s].notes
           /\ \A r \in DbSessions : r # s => doing'[r] = doing[r] /\ read'[r] = read[r]
  BY DEF Load, TypeOK, Loaded

LEMMA LookUpIs ==
    ASSUME TypeOK, NEW s \in DbSessions, NEW what, LookUp(s, what)
    PROVE  /\ doing'[s] = what /\ read'[s].op = read[s].op /\ read'[s].job = read[s].job
           /\ read'[s].seq = LastSeq /\ read'[s].notes = Len(notes)
           /\ \A r \in DbSessions : r # s => doing'[r] = doing[r] /\ read'[r] = read[r]
  BY DEF LookUp, TypeOK, Loaded

LEMMA OpenKeeps ==
    ASSUME IInv, NEW s \in DbSessions, NEW what \in {"asked", "cancel", "stuck"}, Open(s, what)
    PROVE  SInv'
<1>1. TypeOK /\ SInv /\ UNCHANGED <<job, op, log, notes>> /\ op # "none"
  BY DEF IInv, Open
<1>2. /\ doing'[s] = what /\ read'[s].op = op /\ read'[s].job = read[s].job
      /\ \A r \in DbSessions : r # s => doing'[r] = doing[r] /\ read'[r] = read[r]
  BY <1>1, OpenIs
<1> USE <1>1 DEF SInv
<1>3. ReadKnown' /\ SeqBound'
  BY <1>2 DEF ReadKnown, SeqBound, Seen, Holders
<1>4. NoRow' /\ OrderedFrom'
  BY <1>2 DEF NoRow, OrderedFrom
<1>5. EndSeen'
  BY <1>2 DEF EndSeen, OnceNoted
<1>6. RowHeld' /\ HolderSees' /\ AddsLate'
  BY <1>2 DEF RowHeld, HolderSees, AddsLate, Holders
<1>7. Rises(log') /\ OnceNoted'
  BY DEF OnceNoted
<1> QED
  BY <1>3, <1>4, <1>5, <1>6, <1>7

LEMMA CloseKeeps ==
    ASSUME IInv, NEW s \in DbSessions, doing[s] # "idle", Close(s), UNCHANGED <<job, op, log, notes>>
    PROVE  SInv'
<1>1. TypeOK /\ SInv
  BY DEF IInv
<1>2. /\ doing'[s] = "idle" /\ read'[s].job = "queued"
      /\ \A r \in DbSessions : r # s => doing'[r] = doing[r] /\ read'[r] = read[r]
  BY <1>1, CloseIs
<1> USE <1>1 DEF SInv
<1>3. ReadKnown' /\ SeqBound'
  BY <1>2 DEF ReadKnown, SeqBound, Seen, Holders
<1>4. NoRow' /\ OrderedFrom'
  BY <1>2 DEF NoRow, OrderedFrom
<1>5. EndSeen'
  BY <1>2 DEF EndSeen
<1>6. RowHeld' /\ HolderSees' /\ AddsLate'
  BY <1>2 DEF RowHeld, HolderSees, AddsLate, Holders
<1>7. Rises(log') /\ OnceNoted'
  BY DEF OnceNoted
<1> QED
  BY <1>3, <1>4, <1>5, <1>6, <1>7

LEMMA LoadKeeps ==
    ASSUME IInv, NEW s \in DbSessions, doing[s] # "idle", NEW what \in {"projected", "ordered"},
           what = "ordered" => job \notin {"claimed", "cancelling"},
           Load(s, what), UNCHANGED <<job, op, log, notes>>
    PROVE  SInv'
<1>1. TypeOK /\ SInv
  BY DEF IInv
<1>2. /\ doing'[s] = what /\ read'[s].op = read[s].op /\ read'[s].job = job
      /\ \A r \in DbSessions : r # s => doing'[r] = doing[r] /\ read'[r] = read[r]
  BY <1>1, LoadIs
<1> USE <1>1 DEF SInv
<1>3. ReadKnown' /\ SeqBound'
  BY <1>2 DEF ReadKnown, SeqBound, Seen, Holders
<1>4. NoRow' /\ OrderedFrom'
  BY <1>2 DEF NoRow, OrderedFrom
<1>5. EndSeen'
  BY <1>2 DEF EndSeen
<1>6. RowHeld' /\ HolderSees' /\ AddsLate'
  BY <1>2 DEF RowHeld, HolderSees, AddsLate, Holders
<1>7. Rises(log') /\ OnceNoted'
  BY DEF OnceNoted
<1> QED
  BY <1>3, <1>4, <1>5, <1>6, <1>7

LEMMA LookUpKeeps ==
    ASSUME IInv, NEW s \in DbSessions, NEW what \in Seen, LookUp(s, what),
           UNCHANGED <<job, op, log, notes>>, doing[s] # "idle",
           what \in Holders => RowIsFree,
           what \in {"cancelling", "adding"} => doing[s] = "ordered",
           what = "adding" => read[s].job \in TERMINAL_STATUSES /\ read[s].op = read[s].job
    PROVE  SInv'
<1>1. TypeOK /\ SInv
  BY DEF IInv
<1>2. /\ doing'[s] = what /\ read'[s].op = read[s].op /\ read'[s].job = read[s].job
      /\ read'[s].seq = LastSeq /\ read'[s].notes = Len(notes)
      /\ \A r \in DbSessions : r # s => doing'[r] = doing[r] /\ read'[r] = read[r]
  BY <1>1, LookUpIs
<1>0. LastSeq <= Len(log) /\ \A i \in DOMAIN log : log[i].seq <= LastSeq
  BY <1>1, LastSeqIs DEF SInv
<1> USE <1>1 DEF SInv
<1>3. ReadKnown' /\ SeqBound'
  BY <1>0, <1>2 DEF ReadKnown, SeqBound, Seen, Holders
<1>4. NoRow' /\ OrderedFrom'
  BY <1>2 DEF NoRow, OrderedFrom, Seen, Holders
<1>5. EndSeen'
  BY <1>2 DEF EndSeen
<1>6. RowHeld'
  BY <1>2 DEF RowHeld, RowIsFree, Holders
<1>7. HolderSees'
  BY <1>0, <1>2 DEF HolderSees
<1>8. AddsLate'
  BY <1>2 DEF AddsLate, EndSeen
<1>9. Rises(log') /\ OnceNoted'
  BY DEF OnceNoted
<1> QED
  BY <1>3, <1>4, <1>5, <1>6, <1>7, <1>8, <1>9

\* The session that holds the row commits.
LEMMA HolderCommits ==
    ASSUME IInv, NEW s \in DbSessions, doing[s] \in Holders, Close(s),
           NEW t \in OpStatus \cup {"cancel", "stuck"}, NEW st \in OpStatus, append_event(s, t, st),
           op' = op \/ op' = st, job' # "created"
    PROVE  SInv'
<1>1. TypeOK /\ SInv
  BY DEF IInv
<1>2. /\ doing'[s] = "idle" /\ read'[s].job = "queued"
      /\ \A r \in DbSessions : r # s => doing'[r] = doing[r] /\ read'[r] = read[r]
  BY <1>1, CloseIs
<1>3. doing[s] # "idle" /\ doing[s] \in Seen
  BY DEF Holders, Seen
<1>4. op # "none" /\ op' # "none"
  BY <1>1, <1>3, StatusFacts DEF SInv, NoRow
<1>5. /\ Len(notes') <= 1 /\ Len(notes') >= Len(notes) /\ Len(notes) \in Nat /\ Len(notes') \in Nat
      /\ st \in TERMINAL_STATUSES => Len(notes') = 1
  <2>1. read[s].notes = Len(notes) /\ Len(notes) <= 1
    BY <1>1 DEF SInv, HolderSees, OnceNoted
  <2>2. notes' = Enqueued(s, st)
    BY DEF append_event
  <2>3. Enqueued(s, st) \in Seq(TERMINAL_STATUSES)
    BY <1>1, EnqueuedTyped
  <2> QED
    BY <1>1, <2>1, <2>2, <2>3, EnqueuedOnce, LogFacts
<1>6. Len(notes) = 1 => Len(notes') = 1
  BY <1>5
<1>7. ReadKnown' /\ NoRow' /\ OrderedFrom'
  BY <1>1, <1>2, <1>4 DEF SInv, ReadKnown, NoRow, OrderedFrom
<1>8. SeqBound'
  BY <1>1, <1>3, BoundGrows DEF SInv
<1>9. EndSeen' /\ AddsLate'
  BY <1>1, <1>2, <1>6 DEF SInv, EndSeen, AddsLate
<1>10. RowHeld' /\ HolderSees'
  BY <1>1, <1>2 DEF SInv, RowHeld, HolderSees, Holders
<1>11. Rises(log')
  BY <1>1, RisesOn DEF SInv, HolderSees
<1>12. OnceNoted'
  BY <1>1, <1>5, <1>6 DEF SInv, OnceNoted
<1> QED
  BY <1>7, <1>8, <1>9, <1>10, <1>11, <1>12 DEF SInv

\* A cancel of what is over commits, beside whoever holds the row.
LEMMA LateCommits ==
    ASSUME IInv, NEW s \in DbSessions, doing[s] = "adding", Close(s), UNCHANGED <<job, op>>,
           NEW st \in TERMINAL_STATUSES, append_event(s, "cancel", st)
    PROVE  SInv'
<1>1. TypeOK /\ SInv /\ st \in OpStatus
  BY StatusFacts DEF IInv
<1>2. /\ doing'[s] = "idle" /\ read'[s].job = "queued"
      /\ \A r \in DbSessions : r # s => doing'[r] = doing[r] /\ read'[r] = read[r]
  BY <1>1, CloseIs
<1>3. doing[s] # "idle" /\ doing[s] \in Seen
  BY DEF Holders, Seen
<1>4. op # "none"
  BY <1>1, <1>3 DEF SInv, NoRow
<1>5. Len(notes') = Len(notes)
  <2>1. read[s].notes = 1 /\ Len(notes) = 1
    BY <1>1 DEF SInv, AddsLate
  <2>2. notes' = [notes EXCEPT ![1] = st]
    BY <2>1 DEF append_event, Enqueued
  <2>3. notes \in Seq(TERMINAL_STATUSES)
    BY <1>1, LogFacts
  <2> QED
    BY <2>1, <2>2, <2>3, ExceptSeq
<1>6. /\ Len(log) \in Nat /\ DOMAIN log = 1..Len(log) /\ DOMAIN log' = 1..(Len(log) + 1)
      /\ LateCancel(log'[Len(log) + 1]) /\ \A i \in 1..Len(log) : log'[i] = log[i]
  <2>1. /\ DOMAIN log' = 1..(Len(log) + 1) /\ \A i \in 1..Len(log) : log'[i] = log[i]
        /\ log'[Len(log) + 1].type = "cancel" /\ log'[Len(log) + 1].status = st
    BY <1>1, LogGrows, Zenon
  <2>2. Len(log) \in Nat /\ DOMAIN log = 1..Len(log)
    BY <1>1, LogFacts, Zenon
  <2> QED
    BY <2>1, <2>2 DEF LateCancel
<1>7. ReadKnown' /\ NoRow' /\ OrderedFrom'
  BY <1>1, <1>2, <1>4 DEF SInv, ReadKnown, NoRow, OrderedFrom
<1>8. SeqBound'
  BY <1>1, <1>3, BoundGrows DEF SInv
<1>9. EndSeen' /\ AddsLate'
  BY <1>1, <1>2, <1>5 DEF SInv, EndSeen, AddsLate
<1>10. RowHeld'
  BY <1>1, <1>2 DEF SInv, RowHeld, Holders
<1>11. HolderSees'
  <2>1. ASSUME NEW r \in DbSessions, doing'[r] \in Holders
        PROVE  /\ read'[r].notes = Len(notes')
               /\ \A i \in DOMAIN log' : ~LateCancel(log'[i]) => log'[i].seq <= read'[r].seq
    <3>1. r # s /\ doing[r] \in Holders /\ read'[r] = read[r]
      BY <1>2, <2>1 DEF Holders
    <3>2. /\ read[r].notes = Len(notes)
          /\ \A i \in 1..Len(log) : ~LateCancel(log[i]) => log[i].seq <= read[r].seq
      BY <1>1, <1>6, <3>1 DEF SInv, HolderSees
    <3>3. \A i \in DOMAIN log' : i \in 1..Len(log) \/ i = Len(log) + 1
      BY <1>6
    <3> QED
      BY <1>5, <1>6, <3>1, <3>2, <3>3
  <2> QED
    BY <2>1 DEF HolderSees
<1>12. Rises(log')
  BY <1>1, RisesOn DEF SInv
<1>13. OnceNoted'
  BY <1>1, <1>5 DEF SInv, OnceNoted
<1> QED
  BY <1>7, <1>8, <1>9, <1>10, <1>11, <1>12, <1>13 DEF SInv

LEMMA NotedStep == IInv /\ [Next]_vars => IInv'
<1> SUFFICES ASSUME IInv, [Next]_vars PROVE SInv'
  BY TypedStep DEF IInv, SInv
<1>1. TypeOK /\ SInv
  BY DEF IInv
<1>2. CASE create_for_job
  <2> DEFINE e == [type |-> "created", status |-> "queued", seq |-> Len(log) + 1]
  <2>1. log = <<>> /\ notes = <<>> /\ \A s \in DbSessions : doing[s] = "idle"
    BY <1>1, <1>2 DEF create_for_job, SInv, NoRow
  <2>2. log' = <<e>> /\ e.seq = 1 /\ UNCHANGED <<job, notes, doing, read>> /\ op' = "queued"
    BY <1>2, <2>1 DEF create_for_job
  <2>3. DOMAIN log' = {1} /\ Len(log') = 1 /\ log'[1].seq = 1 /\ Len(notes') = 0
    BY <2>1, <2>2
  <2>4. ReadKnown' /\ NoRow' /\ EndSeen' /\ RowHeld' /\ HolderSees' /\ AddsLate'
    BY <2>1, <2>2 DEF ReadKnown, NoRow, EndSeen, RowHeld, HolderSees, AddsLate, Holders
  <2>5. OrderedFrom'
    BY <1>1, <2>2 DEF SInv, OrderedFrom
  <2>6. SeqBound' /\ Rises(log')
    BY <2>1, <2>2, <2>3 DEF SeqBound, Rises, Seen, Holders
  <2>7. OnceNoted'
    BY <2>2, <2>3 DEF OnceNoted, TERMINAL_STATUSES
  <2> QED
    BY <2>4, <2>5, <2>6, <2>7 DEF SInv
<1>3. CASE JobMoves
  <2>1. UNCHANGED <<op, log, notes, doing, read>> /\ job' # "created"
    BY <1>1, <1>3, MovesOn DEF JobMoves, TypeOK
  <2> QED
    BY <1>1, <2>1 DEF SInv, ReadKnown, SeqBound, NoRow, OrderedFrom, EndSeen, RowHeld,
       HolderSees, AddsLate, OnceNoted
<1>4. CASE UNCHANGED vars
  BY <1>1, <1>4 DEF vars, SInv, ReadKnown, SeqBound, NoRow, OrderedFrom, EndSeen, RowHeld,
     HolderSees, AddsLate, OnceNoted
<1>5. ASSUME NEW s \in DbSessions,
             StatusRequest(s) \/ CancelRequest(s) \/ SyncActiveOperations(s) \/ FindStuck(s)
      PROVE  SInv'
  BY <1>5, OpenKeeps DEF StatusRequest, CancelRequest, SyncActiveOperations, FindStuck
<1>6. ASSUME NEW s \in DbSessions, Project(s) \/ CancelJob(s) PROVE SInv'
  <2>1. UNCHANGED <<job, op, log, notes>> /\ doing[s] # "idle"
    BY <1>6 DEF Project, CancelJob
  <2>2. \/ Close(s) \/ Load(s, "projected")
        \/ Load(s, "ordered") /\ job \notin {"claimed", "cancelling"}
    BY <1>6 DEF Project, CancelJob
  <2> QED
    BY <2>1, <2>2, CloseKeeps, LoadKeeps
<1>7. ASSUME NEW s \in DbSessions, FlushStatus(s) \/ FlushStuck(s) PROVE SInv'
  <2>1. UNCHANGED <<job, op, log, notes>> /\ doing[s] # "idle" /\ RowIsFree
        /\ \E what \in {"writing", "reporting"} : LookUp(s, what)
    BY <1>7 DEF FlushStatus, FlushStuck, Flush
  <2> QED
    BY <2>1, LookUpKeeps DEF Seen, Holders
<1>8. ASSUME NEW s \in DbSessions, FlushCancel(s) PROVE SInv'
  <2> DEFINE target == CancelledJob(read[s].job)
  <2>1. UNCHANGED <<job, op, log, notes>> /\ doing[s] = "ordered"
    BY <1>8 DEF FlushCancel
  <2>2. CASE RowIsFree /\ LookUp(s, "cancelling")
    BY <2>1, <2>2, LookUpKeeps DEF Seen, Holders
  <2>3. CASE target = read[s].job /\ operation_status_from_job(target) = read[s].op
             /\ LookUp(s, "adding")
    <3>1. read[s].job \in JobStatus /\ read[s].job \notin {"created", "claimed", "cancelling"}
      BY <1>1, <2>1, ReadTyped DEF SInv, OrderedFrom
    <3>2. read[s].job \in TERMINAL_STATUSES
      BY <2>3, <3>1, StatusFacts DEF CancelledJob
    <3>3. read[s].op = read[s].job
      BY <2>3, <3>2, StatusFacts DEF operation_status_from_job
    <3> QED
      BY <2>1, <2>3, <3>2, <3>3, LookUpKeeps DEF Seen, Holders
  <2> QED
    BY <1>8, <2>2, <2>3 DEF FlushCancel, Flush
<1>9. ASSUME NEW s \in DbSessions, CommitStatus(s) PROVE SInv'
  <2>1. operation_status_from_job(read[s].job) \in OpStatus /\ job # "created"
    BY <1>1, ReadTyped, Proj DEF SInv, OrderedFrom
  <2>2. doing[s] \in Holders
    BY <1>9 DEF CommitStatus, Holders
  <2> QED
    BY <1>9, <2>1, <2>2, HolderCommits DEF CommitStatus
<1>10. ASSUME NEW s \in DbSessions, CommitCancel(s) PROVE SInv'
  <2> DEFINE target == CancelledJob(read[s].job)
             new == operation_status_from_job(target)
  <2>1. target \in JobStatus /\ new \in OpStatus /\ read[s].job # "created" /\ job # "created"
        /\ read[s].job \in JobStatus
    BY <1>1, ReadTyped, ProjCancelled DEF SInv, OrderedFrom
  <2>2. target # "created"
    BY <2>1 DEF CancelledJob
  <2>3. Close(s) /\ append_event(s, "cancel", new)
    BY <1>10 DEF CommitCancel
  <2>4. CASE doing[s] = "cancelling"
    <3>1. op' = op \/ op' = new
      BY <1>10 DEF CommitCancel
    <3>2. job' # "created"
      BY <1>10, <2>1, <2>2 DEF CommitCancel
    <3>3. doing[s] \in Holders
      BY <2>4 DEF Holders
    <3> HIDE DEF new, target
    <3> QED
      BY <2>1, <2>3, <3>1, <3>2, <3>3, HolderCommits
  <2>5. CASE doing[s] = "adding"
    <3>1. read[s].job \in TERMINAL_STATUSES /\ read[s].op = read[s].job
      BY <1>1, <2>5 DEF SInv, AddsLate
    <3>2. target = read[s].job /\ new = read[s].job
      BY <3>1, StatusFacts DEF CancelledJob, operation_status_from_job
    <3>3. UNCHANGED <<job, op>>
      BY <1>10, <3>1, <3>2 DEF CommitCancel
    <3> HIDE DEF new, target
    <3> QED
      BY <2>3, <2>5, <3>1, <3>2, <3>3, LateCommits
  <2> QED
    BY <1>10, <2>4, <2>5 DEF CommitCancel
<1>11. ASSUME NEW s \in DbSessions, ReportStuck(s) PROVE SInv'
  <2>1. doing[s] = "reporting" /\ Close(s) /\ append_event(s, "stuck", read[s].op)
        /\ UNCHANGED <<job, op>>
    BY <1>11 DEF ReportStuck
  <2>2. read[s].op \in OpStatus /\ job # "created" /\ doing[s] \in Holders
    BY <1>1, <2>1, ReadTyped DEF SInv, ReadKnown, OrderedFrom, Holders
  <2> QED
    BY <2>1, <2>2, HolderCommits
<1> QED
  BY <1>2, <1>3, <1>4, <1>5, <1>6, <1>7, <1>8, <1>9, <1>10, <1>11 DEF Next, Step

LEMMA InitNoted == Init => IInv
<1> SUFFICES ASSUME Init PROVE IInv
  OBVIOUS
<1>1. TypeOK
  BY InitTyped
<1>2. ReadKnown /\ NoRow /\ OrderedFrom /\ EndSeen /\ RowHeld /\ HolderSees /\ AddsLate
  BY DEF Init, ReadKnown, NoRow, OrderedFrom, EndSeen, RowHeld, HolderSees, AddsLate, Holders, Nothing
<1>3. SeqBound /\ Rises(log) /\ OnceNoted
  BY DEF Init, SeqBound, Rises, OnceNoted, Seen, Holders, TERMINAL_STATUSES
<1> QED
  BY <1>1, <1>2, <1>3 DEF IInv, SInv

LEMMA Invariant == Spec => []IInv
  BY InitNoted, NotedStep, PTL DEF Spec

\* Every variable keeps its type.
THEOREM TypeCorrect == Spec => []TypeOK
<1>1. IInv => TypeOK
  BY DEF IInv
<1> QED
  BY <1>1, Invariant, PTL

\* However many sessions project the job at once, an operation that stands as ended has
\* a notification, and none ever has two.
THEOREM Noted == Spec => []NotedOnce
<1>1. ASSUME IInv PROVE NotedOnce
  <2>1. Len(notes) <= 1 /\ (op \in TERMINAL_STATUSES => Len(notes) = 1)
    BY <1>1 DEF IInv, SInv, OnceNoted
  <2>2. notes = <<>> => Len(notes) = 0
    OBVIOUS
  <2> QED
    BY <2>1, <2>2 DEF NotedOnce
<1> QED
  BY <1>1, Invariant, PTL

(***************************************************************************)
(* Sessions one at a time.  What the one open session has loaded is still  *)
(* true of the operation, its log and its notifications; the job may have  *)
(* moved on, but only forwards and never out of an end.                    *)
(***************************************************************************)
Stage(s) == Rank(operation_status_from_job(s))

OneOpen == \A s, r \in DbSessions : doing[s] # "idle" /\ doing[r] # "idle" => s = r

JobAhead ==
    op # "none" => Rank(op) <= Stage(job) /\ (op \in TERMINAL_STATUSES => job = op)

FreshRow == \A s \in DbSessions : doing[s] # "idle" => read[s].op = op

\* A session that has loaded the job.
Loads == {"projected", "ordered", "writing", "cancelling", "adding"}

FreshLoad ==
    \A s \in DbSessions : doing[s] \in Loads =>
        /\ Rank(op) <= Stage(read[s].job) /\ (op \in TERMINAL_STATUSES => read[s].job = op)
        /\ Stage(read[s].job) <= Stage(job)
        /\ read[s].job \in TERMINAL_STATUSES => job = read[s].job

FreshLook ==
    \A s \in DbSessions : doing[s] \in Seen =>
        read[s].seq = Len(log) /\ read[s].notes = Len(notes)

\* What LogTellsTheLife says of sessions that take turns.
Numbered(l) == \A i \in DOMAIN l : l[i].seq = i
Ordered(l) == \A i, k \in DOMAIN l : i < k => Rank(l[i].status) <= Rank(l[k].status)
Last(l, o) == l # <<>> => l[Len(l)].status = o
NotedAs(n, o) == n = IF o \in TERMINAL_STATUSES THEN <<o>> ELSE <<>>

AloneInv ==
    /\ OneOpen /\ JobAhead /\ FreshRow /\ FreshLoad /\ FreshLook
    /\ Numbered(log) /\ Ordered(log) /\ Last(log, op) /\ NotedAs(notes, op)

AInv == IInv /\ (alone => AloneInv)

\* A job that moves brings its operation forwards, and an end is for good.
LEMMA JobGoesForwards ==
    ASSUME NEW s \in JobStatus, NEW t \in JobStatus, is_valid_transition(s, t)
    PROVE  Stage(s) <= Stage(t) /\ s \notin TERMINAL_STATUSES /\ t # "created"
  BY DEF is_valid_transition, VALID_TRANSITIONS, Stage, Rank, operation_status_from_job,
         TERMINAL_STATUSES

LEMMA RankTyped == \A s : Rank(s) \in 1..3
  BY DEF Rank

\* An end projects to itself, and is the only thing that projects to an end.
LEMMA EndProjects ==
    \A s \in JobStatus :
        /\ s \in TERMINAL_STATUSES => operation_status_from_job(s) = s
        /\ operation_status_from_job(s) \in TERMINAL_STATUSES => s \in TERMINAL_STATUSES
  BY DEF operation_status_from_job, TERMINAL_STATUSES, JobStatus

LEMMA CancelledForwards ==
    \A s \in JobStatus :
        /\ Stage(s) <= Stage(CancelledJob(s))
        /\ s \in TERMINAL_STATUSES => CancelledJob(s) = s
        /\ CancelledJob(s) \in JobStatus
  BY DEF CancelledJob, Stage, Rank, operation_status_from_job, TERMINAL_STATUSES, JobStatus,
         NON_TERMINAL_STATUSES, InFlightStatuses

\* An event with the next number and a status that does not go back keeps the log in order.
LEMMA AppendTells ==
    ASSUME TypeOK, NEW e \in Event, Numbered(log), Ordered(log), Last(log, op),
           e.seq = Len(log) + 1, log # <<>> => Rank(op) <= Rank(e.status)
    PROVE  /\ Numbered(Append(log, e)) /\ Ordered(Append(log, e))
           /\ Last(Append(log, e), e.status)
<1> DEFINE l == Append(log, e)
           n == Len(log)
<1>1. log \in Seq(Event) /\ n \in Nat /\ DOMAIN log = 1..n
  BY DEF TypeOK
<1>2. /\ l \in Seq(Event) /\ Len(l) = n + 1 /\ l[n + 1] = e
      /\ \A i \in 1..n : l[i] = log[i]
  BY <1>1, AppendProperties
<1>3. DOMAIN l = 1..(n + 1)
  BY <1>2
<1>4. Numbered(l)
  BY <1>1, <1>2, <1>3 DEF Numbered
<1>5. Last(l, e.status)
  BY <1>1, <1>2 DEF Last
<1>6. ASSUME NEW i \in 1..(n + 1), NEW k \in 1..(n + 1), i < k
      PROVE  Rank(l[i].status) <= Rank(l[k].status)
  <2>1. i \in 1..n
    BY <1>1, <1>6
  <2>2. CASE k \in 1..n
    BY <1>1, <1>2, <1>6, <2>1, <2>2 DEF Ordered
  <2>3. CASE k = n + 1
    <3>1. log # <<>> /\ n \in 1..n /\ log[n].status = op
      BY <1>1, <2>1 DEF Last
    <3>2. Rank(log[i].status) <= Rank(log[n].status)
      <4>1. CASE i = n
        BY <4>1, RankTyped
      <4>2. CASE i # n
        <5>1. i < n
          <6>1. n \in Nat
            BY <1>1
          <6> HIDE DEF n
          <6> QED
            BY <6>1, <2>1, <4>2
        <5>2. i \in DOMAIN log /\ n \in DOMAIN log
          BY <1>1, <2>1, <3>1, Zenon
        <5> HIDE DEF n
        <5> QED
          BY <5>1, <5>2 DEF Ordered
      <4> QED
        BY <4>1, <4>2
    <3> QED
      BY <1>2, <2>1, <2>3, <3>1, <3>2, RankTyped
  <2> QED
    BY <1>1, <1>6, <2>2, <2>3
<1> QED
  BY <1>3, <1>4, <1>5, <1>6 DEF Ordered


\* What the event of a projection carries, and that the notification follows.
LEMMA ProjectionTells ==
    ASSUME AInv, alone, NEW s \in DbSessions, doing[s] \in Loads, doing[s] \in Seen,
           NEW j \in JobStatus,
           Stage(read[s].job) <= Stage(j), NEW t \in OpStatus \cup {"cancel"},
           read[s].job \in TERMINAL_STATUSES => j = read[s].job,
           append_event(s, t, operation_status_from_job(j))
    PROVE  LET new == operation_status_from_job(j)
           IN  /\ Numbered(log') /\ Ordered(log') /\ Last(log', new) /\ NotedAs(notes', new)
               /\ log' # <<>>
<1> DEFINE new == operation_status_from_job(j)
           e == [type |-> t, status |-> new, seq |-> read[s].seq + 1]
<1>1. TypeOK /\ AloneInv /\ new \in OpStatus
  BY Proj DEF AInv, IInv
<1>2. /\ read[s].seq = Len(log) /\ read[s].notes = Len(notes)
      /\ Rank(op) <= Stage(read[s].job) /\ (op \in TERMINAL_STATUSES => read[s].job = op)
  BY <1>1 DEF AloneInv, FreshLoad, FreshLook
<1>3. Len(log) \in Nat /\ e \in Event /\ e.seq = Len(log) + 1 /\ e.status = new
  BY <1>1, <1>2 DEF TypeOK, Event
<1>4. Rank(op) <= Rank(new)
  BY <1>2, RankTyped DEF Stage
<1>5. Numbered(Append(log, e)) /\ Ordered(Append(log, e)) /\ Last(Append(log, e), new)
  BY <1>1, <1>3, <1>4, AppendTells DEF AloneInv
<1>6. notes = IF op \in TERMINAL_STATUSES THEN <<op>> ELSE <<>>
  BY <1>1 DEF AloneInv, NotedAs
<1>7. op \in TERMINAL_STATUSES => new = op
  BY <1>2, EndProjects
<1>8. NotedAs(Enqueued(s, new), new)
  <2>1. CASE op \in TERMINAL_STATUSES
    <3>1. notes = <<op>> /\ read[s].notes = 1
      BY <1>2, <1>6, <2>1
    <3>2. [notes EXCEPT ![1] = new] = <<op>>
      BY <1>7, <2>1, <3>1
    <3> QED
      BY <1>7, <2>1, <3>1, <3>2 DEF Enqueued, NotedAs
  <2>2. CASE op \notin TERMINAL_STATUSES
    <3>1. notes = <<>> /\ read[s].notes = 0
      BY <1>2, <1>6, <2>2
    <3>2. Append(notes, new) = <<new>>
      BY <3>1
    <3> QED
      BY <2>2, <3>1, <3>2 DEF Enqueued, NotedAs
  <2> QED
    BY <2>1, <2>2
<1>9. log' = Append(log, e) /\ notes' = Enqueued(s, new)
  BY DEF append_event
<1>10. log' # <<>>
  BY <1>1, <1>3, <1>9, AppendProperties DEF TypeOK
<1> QED
  BY <1>5, <1>8, <1>9, <1>10

\* A step that closes the open session leaves none.
LEMMA ClosesAll ==
    ASSUME TypeOK, OneOpen, NEW s \in DbSessions, doing[s] # "idle", Close(s)
    PROVE  /\ \A r \in DbSessions : doing'[r] = "idle"
           /\ OneOpen' /\ FreshRow' /\ FreshLoad' /\ FreshLook'
<1>1. \A r \in DbSessions : doing'[r] = "idle"
  BY DEF OneOpen, Close, TypeOK
<1> QED
  BY <1>1 DEF OneOpen, FreshRow, FreshLoad, FreshLook, Loads, Seen, Holders

LEMMA AloneStep == AInv /\ [Next]_vars => AInv'
<1> SUFFICES ASSUME AInv, [Next]_vars, alone' PROVE AloneInv'
  BY NotedStep DEF AInv
<1>1. TypeOK /\ TypeOK' /\ SInv /\ SInv'
  BY NotedStep DEF AInv, IInv
<1>2. alone
  BY DEF Next, vars, create_for_job, JobMoves, StatusRequest, CancelRequest,
         SyncActiveOperations, FindStuck, Step, Project, CommitStatus, CancelJob, CommitCancel,
         ReportStuck, FlushStatus, FlushCancel, FlushStuck, Open
<1>3. AloneInv
  BY <1>2 DEF AInv
<1>4. \A t \in DbSessions : read[t].job \in JobStatus
  BY <1>1 DEF TypeOK, Loaded
<1>5. CASE create_for_job
  <2> DEFINE e == [type |-> "created", status |-> "queued", seq |-> Len(log) + 1]
  <2>1. op = "none" /\ log = <<>> /\ notes = <<>> /\ \A s \in DbSessions : doing[s] = "idle"
    BY <1>1, <1>5 DEF create_for_job, SInv, NoRow
  <2>2. e \in Event /\ e.seq = Len(log) + 1 /\ e.status = "queued" /\ log' = Append(log, e)
    BY <1>5, <2>1 DEF create_for_job, Event, OpStatus
  <2>3. Numbered(log') /\ Ordered(log') /\ Last(log', op')
    BY <1>1, <1>3, <1>5, <2>1, <2>2, AppendTells DEF AloneInv, create_for_job
  <2>4. OneOpen' /\ FreshRow' /\ FreshLoad' /\ FreshLook'
    BY <1>5, <2>1 DEF create_for_job, OneOpen, FreshRow, FreshLoad, FreshLook, Loads, Seen, Holders
  <2>5. JobAhead'
    BY <1>5, RankTyped DEF create_for_job, JobAhead, Stage, Rank, TERMINAL_STATUSES
  <2>6. NotedAs(notes', op')
    BY <1>5, <2>1 DEF create_for_job, NotedAs, TERMINAL_STATUSES
  <2> QED
    BY <2>3, <2>4, <2>5, <2>6 DEF AloneInv
<1>6. CASE JobMoves
  <2>1. PICK t \in JobStatus : is_valid_transition(job, t) /\ job' = t
    BY <1>6 DEF JobMoves
  <2>2. Stage(job) <= Stage(job') /\ job \notin TERMINAL_STATUSES
    BY <1>1, <2>1, JobGoesForwards DEF TypeOK
  <2>3. UNCHANGED <<op, log, notes, doing, read>>
    BY <1>6 DEF JobMoves
  <2>4. JobAhead'
    BY <1>3, <2>2, <2>3, RankTyped DEF AloneInv, JobAhead, Stage
  <2>5. FreshLoad'
    BY <1>3, <2>2, <2>3, RankTyped DEF AloneInv, FreshLoad, Stage
  <2> QED
    BY <1>3, <2>3, <2>4, <2>5 DEF AloneInv, OneOpen, FreshRow, FreshLook
<1>7. ASSUME NEW s \in DbSessions, NEW what \in {"asked", "cancel", "stuck"}, Open(s, what)
      PROVE  AloneInv'
  <2>1. UNCHANGED <<job, op, log, notes>> /\ \A r \in DbSessions : doing[r] = "idle"
    BY <1>7 DEF Open
  <2>2. /\ doing'[s] = what /\ read'[s].op = op
        /\ \A r \in DbSessions : r # s => doing'[r] = "idle"
    BY <1>1, <1>7, <2>1, OpenIs
  <2>3. OneOpen' /\ FreshRow' /\ FreshLoad' /\ FreshLook'
    BY <2>1, <2>2 DEF OneOpen, FreshRow, FreshLoad, FreshLook, Loads, Seen, Holders
  <2> QED
    BY <1>3, <2>1, <2>3 DEF AloneInv, JobAhead
<1>8. ASSUME NEW s \in DbSessions, NEW what \in {"projected", "ordered"}, doing[s] # "idle",
             Load(s, what), UNCHANGED <<job, op, log, notes>>
      PROVE  AloneInv'
  <2>1. op # "none" /\ \A r \in DbSessions : r # s => doing[r] = "idle"
    BY <1>1, <1>3, <1>8 DEF AloneInv, OneOpen, SInv, NoRow
  <2>2. /\ doing'[s] = what /\ read'[s].op = read[s].op /\ read'[s].job = job
        /\ \A r \in DbSessions : r # s => doing'[r] = "idle"
    BY <1>1, <1>8, <2>1, LoadIs
  <2>3. OneOpen' /\ FreshRow' /\ FreshLook'
    BY <1>3, <1>8, <2>2 DEF AloneInv, OneOpen, FreshRow, FreshLook, Seen, Holders
  <2>4. FreshLoad'
    BY <1>3, <1>8, <2>1, <2>2, RankTyped DEF FreshLoad, Loads, AloneInv, JobAhead, Stage
  <2> QED
    BY <1>3, <1>8, <2>3, <2>4 DEF AloneInv, JobAhead
<1>9. ASSUME NEW s \in DbSessions, NEW what \in Seen, doing[s] # "idle", LookUp(s, what),
             what \in Loads => doing[s] \in Loads, UNCHANGED <<job, op, log, notes>>
      PROVE  AloneInv'
  <2>1. \A r \in DbSessions : r # s => doing[r] = "idle"
    BY <1>3, <1>9 DEF AloneInv, OneOpen
  <2>2. /\ doing'[s] = what /\ read'[s].op = read[s].op /\ read'[s].job = read[s].job
        /\ read'[s].seq = LastSeq /\ read'[s].notes = Len(notes)
        /\ \A r \in DbSessions : r # s => doing'[r] = "idle"
    BY <1>1, <1>9, <2>1, LookUpIs
  <2>3. LastSeq = Len(log)
    BY <1>1, <1>3, LastSeqIs DEF AloneInv, SInv, Numbered
  <2>4. OneOpen' /\ FreshRow'
    BY <1>3, <1>9, <2>2 DEF AloneInv, OneOpen, FreshRow
  <2>5. FreshLook'
    BY <1>9, <2>2, <2>3 DEF FreshLook, Seen, Holders
  <2>6. FreshLoad'
    BY <1>3, <1>9, <2>2 DEF AloneInv, FreshLoad, Loads
  <2> QED
    BY <1>3, <1>9, <2>4, <2>5, <2>6 DEF AloneInv, JobAhead
<1>10. ASSUME NEW s \in DbSessions, doing[s] # "idle", Close(s), UNCHANGED <<job, op, log, notes>>
       PROVE  AloneInv'
  BY <1>1, <1>3, <1>10, ClosesAll DEF AloneInv, JobAhead
<1>11. ASSUME NEW s \in DbSessions, CommitStatus(s) PROVE AloneInv'
  <2> DEFINE new == operation_status_from_job(read[s].job)
  <2>1. doing[s] = "writing" /\ Close(s) /\ UNCHANGED job /\ op' = new /\ append_event(s, new, new)
    BY <1>11 DEF CommitStatus
  <2>2. Numbered(log') /\ Ordered(log') /\ Last(log', new) /\ NotedAs(notes', new)
    BY <1>2, <1>4, <2>1, ProjectionTells, RankTyped, Proj DEF Loads, Seen, Holders, Stage
  <2>3. Rank(new) <= Stage(job) /\ (new \in TERMINAL_STATUSES => job = new)
    BY <1>3, <1>4, <2>1, EndProjects DEF AloneInv, FreshLoad, Loads, Stage
  <2>4. JobAhead'
    BY <2>1, <2>3 DEF JobAhead, Stage
  <2>5. OneOpen' /\ FreshRow' /\ FreshLoad' /\ FreshLook'
    BY <1>1, <1>3, <2>1, ClosesAll DEF AloneInv
  <2> QED
    BY <2>1, <2>2, <2>4, <2>5 DEF AloneInv
<1>12. ASSUME NEW s \in DbSessions, CommitCancel(s) PROVE AloneInv'
  <2> DEFINE target == CancelledJob(read[s].job)
             new == operation_status_from_job(target)
  <2>1. /\ doing[s] \in {"cancelling", "adding"} /\ Close(s)
        /\ job' = IF target = read[s].job THEN job ELSE target
        /\ op' = IF new = read[s].op THEN op ELSE new
        /\ append_event(s, "cancel", new)
    BY <1>12 DEF CommitCancel
  <2>2. /\ target \in JobStatus /\ Stage(read[s].job) <= Stage(target)
        /\ read[s].job \in TERMINAL_STATUSES => target = read[s].job
    BY <1>4, CancelledForwards
  <2>3. Numbered(log') /\ Ordered(log') /\ Last(log', new) /\ NotedAs(notes', new)
    BY <1>2, <2>1, <2>2, ProjectionTells DEF Loads, Seen, Holders
  <2>4. op' = new
    BY <1>3, <2>1 DEF AloneInv, FreshRow
  <2>5. JobAhead'
    <3>1. CASE target = read[s].job
      BY <1>3, <2>1, <2>2, <2>4, <3>1, EndProjects
         DEF AloneInv, FreshLoad, Loads, JobAhead, Stage
    <3>2. CASE target # read[s].job
      BY <2>1, <2>2, <2>4, <3>2, EndProjects, RankTyped DEF JobAhead, Stage
    <3> QED
      BY <3>1, <3>2
  <2>6. OneOpen' /\ FreshRow' /\ FreshLoad' /\ FreshLook'
    BY <1>1, <1>3, <2>1, ClosesAll DEF AloneInv
  <2> QED
    BY <2>3, <2>4, <2>5, <2>6 DEF AloneInv
<1>13. ASSUME NEW s \in DbSessions, ReportStuck(s) PROVE AloneInv'
  <2> DEFINE e == [type |-> "stuck", status |-> read[s].op, seq |-> read[s].seq + 1]
  <2>1. /\ doing[s] = "reporting" /\ Close(s) /\ UNCHANGED <<job, op>>
        /\ log' = Append(log, e) /\ notes' = Enqueued(s, read[s].op)
    BY <1>13 DEF ReportStuck, append_event
  <2>2. read[s].op = op /\ op \in OpStatus /\ read[s].seq = Len(log) /\ read[s].notes = Len(notes)
    BY <1>1, <1>3, <2>1, StatusFacts
       DEF AloneInv, FreshRow, FreshLook, Seen, Holders, SInv, NoRow, TypeOK
  <2>3. e \in Event /\ e.seq = Len(log) + 1 /\ e.status = op
    BY <1>1, <2>2, LogFacts DEF Event
  <2>4. Numbered(log') /\ Ordered(log') /\ Last(log', op')
    BY <1>1, <1>3, <2>1, <2>3, AppendTells, RankTyped DEF AloneInv
  <2>5. OneOpen' /\ FreshRow' /\ FreshLoad' /\ FreshLook'
    BY <1>1, <1>3, <2>1, ClosesAll DEF AloneInv
  <2>6. NotedAs(notes', op')
    <3>1. notes = IF op \in TERMINAL_STATUSES THEN <<op>> ELSE <<>>
      BY <1>3 DEF AloneInv, NotedAs
    <3>2. CASE op \in TERMINAL_STATUSES
      <4>1. notes = <<op>> /\ read[s].notes = 1
        BY <2>2, <3>1, <3>2
      <4>2. [notes EXCEPT ![1] = op] = <<op>>
        BY <4>1
      <4> QED
        BY <2>1, <2>2, <3>2, <4>1, <4>2 DEF Enqueued, NotedAs
    <3>3. CASE op \notin TERMINAL_STATUSES
      BY <2>1, <2>2, <3>1, <3>3 DEF Enqueued, NotedAs
    <3> QED
      BY <3>2, <3>3
  <2> QED
    BY <1>3, <2>1, <2>4, <2>5, <2>6 DEF AloneInv, JobAhead
<1>14. CASE UNCHANGED vars
  BY <1>3, <1>14 DEF vars, AloneInv, OneOpen, JobAhead, FreshRow, FreshLoad, FreshLook
<1>15. ASSUME NEW s \in DbSessions, Project(s) \/ CancelJob(s) PROVE AloneInv'
  <2>1. doing[s] # "idle" /\ UNCHANGED <<job, op, log, notes>>
        /\ (Close(s) \/ Load(s, "projected") \/ Load(s, "ordered"))
    BY <1>15 DEF Project, CancelJob
  <2> QED
    BY <1>8, <1>10, <2>1
<1>16. ASSUME NEW s \in DbSessions, FlushStatus(s) \/ FlushCancel(s) \/ FlushStuck(s)
       PROVE  AloneInv'
  <2>1. /\ UNCHANGED <<job, op, log, notes>> /\ doing[s] # "idle"
        /\ \/ LookUp(s, "reporting")
           \/ doing[s] \in Loads /\ \E what \in {"writing", "cancelling", "adding"} : LookUp(s, what)
    BY <1>16 DEF FlushStatus, FlushCancel, FlushStuck, Flush, Loads
  <2> QED
    BY <1>9, <2>1 DEF Loads, Seen, Holders
<1>17. ASSUME NEW s \in DbSessions,
              StatusRequest(s) \/ CancelRequest(s) \/ SyncActiveOperations(s) \/ FindStuck(s)
       PROVE  AloneInv'
  BY <1>7, <1>17 DEF StatusRequest, CancelRequest, SyncActiveOperations, FindStuck
<1> QED
  BY <1>5, <1>6, <1>11, <1>12, <1>13, <1>14, <1>15, <1>16, <1>17 DEF Next, Step

LEMMA InitAlone == Init => AInv
<1> SUFFICES ASSUME Init PROVE AInv
  OBVIOUS
<1>1. IInv
  BY InitNoted
<1>2. OneOpen /\ JobAhead /\ FreshRow /\ FreshLoad /\ FreshLook
  BY DEF Init, OneOpen, JobAhead, FreshRow, FreshLoad, FreshLook, Loads, Seen, Holders
<1>3. Numbered(log) /\ Ordered(log) /\ Last(log, op) /\ NotedAs(notes, op)
  BY DEF Init, Numbered, Ordered, Last, NotedAs, TERMINAL_STATUSES
<1> QED
  BY <1>1, <1>2, <1>3 DEF AInv, AloneInv

\* Events are numbered upwards in the order of their commits, but for a cancel of what is
\* over; as long as sessions take turns, the log tells the life of the operation: numbered
\* without a gap, never going back, and ending where the row stands.
THEOREM LogTrue == Spec => []LogTellsTheLife
<1>1. AInv => LogTellsTheLife
  BY DEF AInv, IInv, SInv, Rises, AloneInv, Numbered, Ordered, Last, NotedAs, LogTellsTheLife
<1> QED
  BY <1>1, InitAlone, AloneStep, PTL DEF Spec

(***************************************************************************)
(* After operation.cancelled.  The job it was appended for is cancelling   *)
(* or over without success, and so is every copy of it a session may still *)
(* project.                                                                *)
(***************************************************************************)
Doomed == {"cancelling", "cancelled", "failed", "timeout"}

CancelLogged(l) == \E i \in DOMAIN l : l[i].type = "cancel" /\ l[i].status # "succeeded"

CancelKept ==
    CancelLogged(log) =>
        job \in Doomed /\ \A s \in DbSessions : doing[s] \in Loads => read[s].job \in Doomed

CInv == AInv /\ (alone => CancelKept)

\* The event that is appended is the only one that can be new.
LEMMA LoggedBefore ==
    ASSUME TypeOK, NEW e \in Event, CancelLogged(Append(log, e))
    PROVE  CancelLogged(log) \/ (e.type = "cancel" /\ e.status # "succeeded")
<1>1. log \in Seq(Event) /\ DOMAIN log = 1..Len(log) /\ Len(log) \in Nat
  BY DEF TypeOK
<1>2. /\ DOMAIN Append(log, e) = 1..(Len(log) + 1)
      /\ Append(log, e)[Len(log) + 1] = e
      /\ \A i \in 1..Len(log) : Append(log, e)[i] = log[i]
  BY <1>1, AppendProperties
<1>3. PICK i \in 1..(Len(log) + 1) :
        Append(log, e)[i].type = "cancel" /\ Append(log, e)[i].status # "succeeded"
  BY <1>2 DEF CancelLogged
<1>4. i \in 1..Len(log) \/ i = Len(log) + 1
  BY <1>1, <1>3
<1> QED
  BY <1>1, <1>2, <1>3, <1>4 DEF CancelLogged

\* Of what a cancel makes of a job that can be cancelled or is over.
LEMMA CancelDooms ==
    \A s \in JobStatus : s \notin {"created", "claimed", "cancelling"} =>
        (operation_status_from_job(CancelledJob(s)) # "succeeded" => CancelledJob(s) \in Doomed)
  BY DEF JobStatus, NON_TERMINAL_STATUSES, InFlightStatuses, TERMINAL_STATUSES, CancelledJob,
         operation_status_from_job, Doomed

LEMMA DoomedStays ==
    ASSUME NEW s \in Doomed, NEW t \in JobStatus, is_valid_transition(s, t)
    PROVE  t \in Doomed
  BY DEF Doomed, is_valid_transition, VALID_TRANSITIONS

LEMMA CancelStep == CInv /\ [Next]_vars => CInv'
<1> SUFFICES ASSUME CInv, [Next]_vars, alone' PROVE CancelKept'
  BY AloneStep DEF CInv, AInv
<1>1. TypeOK /\ SInv
  BY DEF CInv, AInv, IInv
<1>2. alone
  BY DEF Next, vars, create_for_job, JobMoves, StatusRequest, CancelRequest,
         SyncActiveOperations, FindStuck, Step, Project, CommitStatus, CancelJob, CommitCancel,
         ReportStuck, FlushStatus, FlushCancel, FlushStuck, Open
<1>3. AloneInv /\ CancelKept
  BY <1>2 DEF CInv, AInv
<1>4. CASE create_for_job
  <2> DEFINE e == [type |-> "created", status |-> "queued", seq |-> Len(log) + 1]
  <2>1. e \in Event /\ e.type = "created" /\ log' = Append(log, e)
    BY <1>1, <1>4 DEF create_for_job, Event, OpStatus, TypeOK
  <2>2. UNCHANGED <<job, doing, read>>
    BY <1>4 DEF create_for_job
  <2> QED
    BY <1>1, <1>3, <2>1, <2>2, LoggedBefore DEF CancelKept
<1>5. CASE JobMoves
  BY <1>1, <1>3, <1>5, DoomedStays DEF JobMoves, CancelKept
<1>6. ASSUME NEW s \in DbSessions, NEW what \in {"asked", "cancel", "stuck"}, Open(s, what)
      PROVE  CancelKept'
  <2>1. UNCHANGED <<job, log>>
    BY <1>6 DEF Open
  <2> QED
    BY <1>1, <1>3, <1>6, <2>1, OpenIs DEF CancelKept, Loads
<1>7. ASSUME NEW s \in DbSessions, Project(s) \/ CancelJob(s) PROVE CancelKept'
  <2>1. UNCHANGED <<job, log>>
    BY <1>7 DEF Project, CancelJob
  <2>2. CASE Load(s, "projected") \/ Load(s, "ordered")
    BY <1>1, <1>3, <2>1, <2>2, LoadIs DEF CancelKept, Loads
  <2>3. CASE Close(s)
    BY <1>1, <1>3, <2>1, <2>3, CloseIs DEF CancelKept, Loads
  <2> QED
    BY <1>7, <2>2, <2>3 DEF Project, CancelJob
<1>8. ASSUME NEW s \in DbSessions, FlushStatus(s) \/ FlushCancel(s) \/ FlushStuck(s)
      PROVE  CancelKept'
  <2>1. /\ UNCHANGED <<job, log>>
        /\ \/ LookUp(s, "reporting")
           \/ doing[s] \in Loads /\ \E what \in {"writing", "cancelling", "adding"} : LookUp(s, what)
    BY <1>8 DEF FlushStatus, FlushCancel, FlushStuck, Flush, Loads
  <2>2. CASE LookUp(s, "reporting")
    BY <1>1, <1>3, <2>1, <2>2, LookUpIs DEF CancelKept, Loads
  <2>3. ASSUME NEW what, doing[s] \in Loads, LookUp(s, what) PROVE CancelKept'
    BY <1>1, <1>3, <2>1, <2>3, LookUpIs DEF CancelKept
  <2> QED
    BY <2>1, <2>2, <2>3
<1>9. ASSUME NEW s \in DbSessions, doing[s] # "idle", Close(s) PROVE \A r \in DbSessions : doing'[r] = "idle"
  BY <1>1, <1>3, <1>9, ClosesAll DEF AloneInv
<1>10. ASSUME NEW s \in DbSessions, CommitStatus(s) PROVE CancelKept'
  <2> DEFINE new == operation_status_from_job(read[s].job)
             e == [type |-> new, status |-> new, seq |-> read[s].seq + 1]
  <2>1. Close(s) /\ UNCHANGED job /\ doing[s] # "idle" /\ log' = Append(log, e)
    BY <1>10 DEF CommitStatus, append_event
  <2>2. e \in Event /\ e.type # "cancel"
    BY <1>1, Proj DEF Event, TypeOK, Loaded, OpStatus, TERMINAL_STATUSES
  <2>3. CancelLogged(log') => CancelLogged(log)
    BY <1>1, <2>1, <2>2, LoggedBefore
  <2> QED
    BY <1>3, <1>9, <2>1, <2>3 DEF CancelKept, Loads
<1>11. ASSUME NEW s \in DbSessions, CommitCancel(s) PROVE CancelKept'
  <2> DEFINE target == CancelledJob(read[s].job)
             new == operation_status_from_job(target)
             e == [type |-> "cancel", status |-> new, seq |-> read[s].seq + 1]
  <2>1. Close(s) /\ doing[s] \in {"cancelling", "adding"} /\ read[s].job \in JobStatus
        /\ read[s].job \notin {"created", "claimed", "cancelling"}
    BY <1>1, <1>11 DEF CommitCancel, SInv, OrderedFrom, TypeOK, Loaded
  <2>2. /\ job' = IF target = read[s].job THEN job ELSE target
        /\ append_event(s, "cancel", new)
    BY <1>11 DEF CommitCancel
  <2>3. e \in Event /\ log' = Append(log, e)
    BY <1>1, <2>1, <2>2, ProjCancelled DEF append_event, Event, TypeOK, Loaded
  <2>4. SUFFICES ASSUME CancelLogged(log') PROVE job' \in Doomed
    BY <1>9, <2>1 DEF CancelKept, Loads
  <2>5. target = read[s].job => read[s].job \in TERMINAL_STATUSES /\ job = read[s].job
    BY <1>3, <2>1 DEF AloneInv, FreshLoad, Loads, CancelledJob, JobStatus,
       NON_TERMINAL_STATUSES, InFlightStatuses, TERMINAL_STATUSES
  <2>6. target \in Doomed
    <3>1. CASE CancelLogged(log)
      BY <1>3, <2>1, <3>1 DEF CancelKept, Loads, CancelledJob, Doomed
    <3>2. CASE new # "succeeded"
      BY <2>1, <3>2, CancelDooms
    <3> QED
      BY <1>1, <2>3, <2>4, <3>1, <3>2, LoggedBefore
  <2> QED
    BY <2>2, <2>5, <2>6
<1>12. ASSUME NEW s \in DbSessions, ReportStuck(s) PROVE CancelKept'
  <2> DEFINE e == [type |-> "stuck", status |-> read[s].op, seq |-> read[s].seq + 1]
  <2>1. doing[s] # "idle" /\ Close(s) /\ UNCHANGED job /\ log' = Append(log, e)
    BY <1>12 DEF ReportStuck, append_event
  <2>2. e \in Event /\ e.type = "stuck"
    BY <1>1, <2>1, ReadTyped DEF Event, SInv, ReadKnown
  <2> QED
    BY <1>1, <1>3, <1>9, <2>1, <2>2, LoggedBefore DEF CancelKept, Loads
<1>13. CASE UNCHANGED vars
  BY <1>3, <1>13 DEF vars, CancelKept
<1>14. ASSUME NEW s \in DbSessions,
              StatusRequest(s) \/ CancelRequest(s) \/ SyncActiveOperations(s) \/ FindStuck(s)
       PROVE  CancelKept'
  BY <1>6, <1>14 DEF StatusRequest, CancelRequest, SyncActiveOperations, FindStuck
<1> QED
  BY <1>4, <1>5, <1>7, <1>8, <1>10, <1>11, <1>12, <1>13, <1>14 DEF Next, Step

LEMMA InitCancel == Init => CInv
  BY InitAlone DEF CInv, Init, CancelKept, CancelLogged

\* As long as sessions take turns, an operation whose log says it was cancelled before it
\* had succeeded never comes to have succeeded.
THEOREM CancelledTrue == Spec => []CancelledMeansNoSuccess
<1>1. CInv => CancelledMeansNoSuccess
  <2> SUFFICES ASSUME CInv, alone, CancelLogged(log) PROVE op # "succeeded"
    BY DEF CancelLogged, CancelledMeansNoSuccess
  <2> QED
    BY DEF CInv, AInv, AloneInv, JobAhead, CancelKept, Doomed, TERMINAL_STATUSES
<1> QED
  BY <1>1, InitCancel, CancelStep, PTL DEF Spec
=============================================================================
