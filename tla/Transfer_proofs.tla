--------------------------- MODULE Transfer_proofs ---------------------------
(***************************************************************************)
(* Proofs about file transfers: the session and its requests at the Center *)
(* (Transfer), for every number of attempts, and the attempts at a node    *)
(* (CrocNode), for every set of jobs and every bound.                      *)
(***************************************************************************)
EXTENDS Transfer, CrocNode, FiniteSetTheorems, TLAPS

---------------------------------------------------------------------------
(* The Center.                                                             *)

LEMMA TransferStatuses ==
    /\ NON_TERMINAL_STATUSES = {"created", "queued", "claimed", "running", "cancelling"}
    /\ TERMINAL_STATUSES = {"succeeded", "failed", "cancelled", "timeout"}
    /\ JobStatus = NON_TERMINAL_STATUSES \cup TERMINAL_STATUSES
  BY DEF NON_TERMINAL_STATUSES, TERMINAL_STATUSES, InFlightStatuses, JobStatus

\* A job that moves was not over, and none comes into being by moving.
LEMMA MovesFromLive ==
    ASSUME NEW s \in JobStatus \cup {"none"}, NEW t \in JobStatus, is_valid_transition(s, t)
    PROVE  s \in NON_TERMINAL_STATUSES
  BY TransferStatuses DEF is_valid_transition, VALID_TRANSITIONS

\* Cancelling changes statuses only of jobs that are live, to statuses of live or ended jobs.
LEMMA CancelledTyped ==
    ASSUME NEW jobs \in [Sides \X Attempts -> JobStatus \cup {"none"}], NEW S
    PROVE  /\ Cancelled(jobs, S) \in [Sides \X Attempts -> JobStatus \cup {"none"}]
           /\ \A j \in Sides \X Attempts :
                /\ Cancelled(jobs, S)[j] \in NON_TERMINAL_STATUSES => jobs[j] \in NON_TERMINAL_STATUSES
                /\ jobs[j] = "none" => Cancelled(jobs, S)[j] = "none"
  BY TransferStatuses DEF Cancelled, CancelledStatus

LEMMA RefreshTyped ==
    ASSUME NEW jobs, NEW s \in SessionStatus
    PROVE  RefreshedStatus(jobs, s) \subseteq SessionStatus
  BY TransferStatuses DEF RefreshedStatus, FailureStatuses, SessionStatus

LEMMA OperationTyped ==
    ASSUME NEW s
    PROVE  operation_status_from_transfer(s) \in {"queued", "running"} \cup TERMINAL_STATUSES
  BY DEF operation_status_from_transfer

LEMMA TransferTypedInit == Init => TypeOK
<1> SUFFICES ASSUME Init PROVE TypeOK
  OBVIOUS
<1>1. /\ ref \in [Sides -> 0..MaxAttempts]
      /\ job \in [Sides \X Attempts -> JobStatus \cup {"none"}]
  BY TransferAssumption DEF Init, Sides, Attempts
<1>2. /\ step \in [Attempts -> InProgress \cup {"idle", "done", "stopped", "gone"}]
      /\ seen \in [Attempts -> {"nothing", "over", "unready", "ready"}]
  BY DEF Init
<1>3. attempt \in 0..MaxAttempts /\ op \in {"none", "queued", "running"} \cup TERMINAL_STATUSES
  BY TransferAssumption DEF Init
<1>. QED BY <1>1, <1>2, <1>3 DEF Init, TypeOK

\* A request that returns.
LEMMA ReturnTyped ==
    ASSUME TypeOK, NEW a \in Attempts, NEW end \in {"failed", "running"}, Return(a, end)
    PROVE  /\ status' \in SessionStatus
           /\ op' \in {"none", "queued", "running"} \cup TERMINAL_STATUSES
           /\ step' \in [Attempts -> InProgress \cup {"idle", "done", "stopped", "gone"}]
<1>1. step' \in [Attempts -> InProgress \cup {"idle", "done", "stopped", "gone"}]
  BY DEF Return, Goes, TypeOK
<1>2. status' \in SessionStatus
  BY TransferStatuses DEF Return, SessionStatus
<1>3. op' \in {"none", "queued", "running"} \cup TERMINAL_STATUSES
  BY OperationTyped DEF Return, TypeOK
<1>. QED BY <1>1, <1>2, <1>3

\* Jobs that are asked to stop.
LEMMA CancelJobsTyped ==
    ASSUME TypeOK, NEW S \in SUBSET (Sides \X Attempts), CancelJobs(S)
    PROVE  job' \in [Sides \X Attempts -> JobStatus \cup {"none"}]
  BY CancelledTyped DEF CancelJobs, TypeOK

\* Every step keeps the types.
LEMMA TransferTypedStep == TypeOK /\ [Next]_vars => TypeOK'
<1> SUFFICES ASSUME TypeOK, [Next]_vars PROVE TypeOK'
  OBVIOUS
<1> USE TransferAssumption DEF TypeOK, Attempts, Sides
<1>0. \A s \in SessionStatus : s \in SessionStatus \cup {"none"}
  OBVIOUS
<1>1. ASSUME NEW skip \in BOOLEAN, create(skip) PROVE TypeOK'
  BY <1>1 DEF create, Goes, InProgress, SessionStatus
<1>2. ASSUME NEW a \in Attempts, resume(a) PROVE TypeOK'
  BY <1>2 DEF resume, NextAttempt, Goes, InProgress, SessionStatus
<1>3. ASSUME NEW a \in Attempts, RequestStep(a) PROVE TypeOK'
  <2>0. <<"send", a>> \in Sides \X Attempts /\ <<"receive", a>> \in Sides \X Attempts
    OBVIOUS
  <2>1. CASE InvokeSend(a)
    <3>1. job' \in [Sides \X Attempts -> JobStatus \cup {"none"}]
      BY <2>0, <2>1, TransferStatuses DEF InvokeSend
    <3>2. CASE Return(a, "failed")
      BY <2>1, <3>1, <3>2, ReturnTyped DEF InvokeSend
    <3>3. CASE Goes(a, "sent") /\ UNCHANGED <<status, op>>
      BY <2>1, <3>1, <3>3 DEF InvokeSend, Goes, InProgress
    <3>. QED BY <2>1, <3>2, <3>3 DEF InvokeSend
  <2>2. CASE CommitSend(a)
    BY <2>2 DEF CommitSend, Goes, InProgress, SessionStatus
  <2>3. CASE wait_for_job_start(a)
    BY <2>3, ReturnTyped DEF wait_for_job_start, Goes, InProgress
  <2>4. CASE wait_for_sender_ready(a)
    BY <2>4 DEF wait_for_sender_ready, Goes, InProgress
  <2>5. CASE GiveUp(a)
    <3>1. PICK S \in SUBSET (Sides \X Attempts) : CancelJobs(S)
      BY <2>0, <2>5 DEF GiveUp
    <3>. QED BY <2>5, <3>1, ReturnTyped, CancelJobsTyped DEF GiveUp
  <2>6. CASE InvokeReceive(a)
    <3>1. CASE CancelJobs({<<"send", a>>}) /\ Return(a, "failed")
      BY <2>0, <2>6, <3>1, ReturnTyped, CancelJobsTyped DEF InvokeReceive
    <3>2. CASE /\ job' = [job EXCEPT ![<<"receive", a>>] = "queued"]
               /\ Goes(a, "received") /\ UNCHANGED <<status, op>>
      <4>1. job' \in [Sides \X Attempts -> JobStatus \cup {"none"}]
        BY <2>0, <3>2, TransferStatuses
      <4>. QED BY <2>6, <3>2, <4>1 DEF InvokeReceive, Goes, InProgress
    <3>. QED BY <2>6, <3>1, <3>2 DEF InvokeReceive
  <2>7. CASE CommitReceive(a)
    <3>1. ref' \in [Sides -> 0..MaxAttempts]
      BY <2>7 DEF CommitReceive
    <3>2. Return(a, "running") /\ UNCHANGED <<asked, preflights, skipped, attempt, job, ready, resumable, seen, alone>>
      BY <2>7 DEF CommitReceive
    <3>. QED BY <3>1, <3>2, ReturnTyped
  <2>. QED BY <1>3, <2>1, <2>2, <2>3, <2>4, <2>5, <2>6, <2>7 DEF RequestStep
<1>4. ASSUME NEW a \in Attempts, RequestLost(a) PROVE TypeOK'
  BY <1>4 DEF RequestLost, Goes
<1>5. ASSUME NEW a \in Attempts, SenderReady(a) PROVE TypeOK'
  BY <1>5 DEF SenderReady
<1>6. CASE cancel_transfer_create_inflight
  <2>1. 1 \in Attempts
    BY SMTT(30)
  <2>2. PICK S \in SUBSET (Sides \X Attempts) : CancelJobs(S)
    BY <1>6, <2>1, SMTT(30) DEF cancel_transfer_create_inflight
  <2>. QED BY <1>6, <2>1, <2>2, CancelJobsTyped, TransferStatuses
       DEF cancel_transfer_create_inflight, Goes, SessionStatus
<1>7. ASSUME NEW synced \in BOOLEAN, RefreshSession(synced) PROVE TypeOK'
  <2>1. status' \in SessionStatus
    BY <1>7, RefreshTyped DEF RefreshSession
  <2>2. Peers \subseteq Sides \X Attempts
    BY DEF Peers, Referenced
  <2>. QED BY <1>7, <2>1, <2>2, CancelledTyped, OperationTyped DEF RefreshSession, CancelJobs, Project
<1>8. ASSUME NEW synced \in BOOLEAN, cancel(synced) PROVE TypeOK'
  <2>1. status' \in SessionStatus
    BY <1>8, RefreshTyped, TransferStatuses DEF cancel, SessionStatus
  <2>2. Referenced \subseteq Sides \X Attempts
    BY DEF Referenced
  <2>. QED BY <1>8, <2>1, <2>2, CancelledTyped, OperationTyped DEF cancel, CancelJobs, Project
<1>9. ASSUME NEW j \in Sides \X Attempts, JobMoves(j) PROVE TypeOK'
  BY <1>9 DEF JobMoves, NodeStep
<1>10. CASE UNCHANGED vars
  BY <1>10 DEF vars
<1>11. ASSUME NEW i \in Intents, preflight(i) PROVE TypeOK'
  <2>1. PICK w \in Probes, out \in BOOLEAN :
            preflights' = preflights \cup
                {[intent |-> i, saw |-> w, allowed |-> _transfer_preflight_failures(i, w) = {},
                  expired |-> out]}
    BY <1>11 DEF preflight
  <2>2. (_transfer_preflight_failures(i, w) = {}) \in BOOLEAN
    BY Zenon
  <2>3. \A ok \in BOOLEAN : [intent |-> i, saw |-> w, allowed |-> ok, expired |-> out] \in Preflights
    BY DEF Preflights
  <2>4. preflights' \subseteq Preflights
    BY <2>1, <2>2, <2>3
  <2>. QED BY <1>11, <2>4 DEF preflight
<1>12. ASSUME NEW p \in preflights, Expire(p) PROVE TypeOK'
  <2>1. PICK i \in Intents, w \in Probes, ok \in BOOLEAN, out \in BOOLEAN :
            p = [intent |-> i, saw |-> w, allowed |-> ok, expired |-> out]
    BY DEF Preflights
  <2>2. [p EXCEPT !.expired = TRUE] \in Preflights
    BY <2>1 DEF Preflights
  <2>. QED BY <1>12, <2>2 DEF Expire
<1>. QED BY <1>1, <1>2, <1>3, <1>4, <1>5, <1>6, <1>7, <1>8, <1>9, <1>10, <1>11, <1>12
     DEF Next, SyncActiveOperation

\* The transfer's state keeps its types.
THEOREM TransferTypeCorrect == Spec => []TypeOK
  BY TransferTypedInit, TransferTypedStep, PTL DEF Spec

---------------------------------------------------------------------------
(* No job out of the session's reach.                                      *)

\* Attempts are made one after the other, and a session that exists has one.
Numbered ==
    /\ \A a \in Attempts : step[a] = "idle" <=> a > attempt
    /\ status = "none" <=> attempt = 0

\* A request makes its jobs in order: until it has, there are none.
NotMadeYet ==
    \A a \in Attempts :
        /\ step[a] \in {"idle", "sending"} => job[<<"send", a>>] = "none"
        /\ step[a] \in {"idle", "sending", "sent", "starting", "waiting", "checked", "stopped"} =>
              job[<<"receive", a>>] = "none"

\* A request that has told the session of its sender is named by it.
SenderNamed ==
    alone => \A a \in Attempts :
        step[a] \in {"starting", "waiting", "checked", "received"} => ref["send"] = a

\* One request is in progress, and the jobs of others are over, or were lost with theirs.
OneRequest ==
    alone => \A a, b \in Attempts :
        step[a] \in InProgress /\ a # b =>
            /\ step[b] \notin InProgress
            /\ \A d \in Sides : Live(<<d, b>>) => step[b] = "gone"

TransferInv ==
    /\ TypeOK
    /\ Numbered
    /\ NotMadeYet
    /\ SenderNamed
    /\ OneRequest
    /\ EveryJobReachable

\* A step in which jobs only move, and requests stay where they are.
LEMMA JobsMoveOnly ==
    ASSUME TransferInv, TypeOK',
           UNCHANGED <<attempt, ref, step, alone>>,
           status # "none" => status' # "none", status = "none" => UNCHANGED status,
           \A j \in Sides \X Attempts : Live(j)' => Live(j),
           \A j \in Sides \X Attempts : job[j] = "none" => job'[j] = "none"
    PROVE  TransferInv'
<1>1. Numbered'
  BY DEF TransferInv, Numbered
<1>2. NotMadeYet'
  BY DEF TransferInv, NotMadeYet, Sides
<1>3. SenderNamed'
  BY DEF TransferInv, SenderNamed
<1>4. OneRequest'
  BY DEF TransferInv, OneRequest
<1>5. EveryJobReachable'
  BY DEF TransferInv, EveryJobReachable, Referenced
<1>. QED BY <1>1, <1>2, <1>3, <1>4, <1>5 DEF TransferInv

\* Asking jobs to stop makes none.
LEMMA CancelJobsMove ==
    ASSUME TypeOK, NEW S, CancelJobs(S)
    PROVE  /\ \A j \in Sides \X Attempts : Live(j)' => Live(j)
           /\ \A j \in Sides \X Attempts : job[j] = "none" => job'[j] = "none"
<1>1. job' = Cancelled(job, S) /\ job \in [Sides \X Attempts -> JobStatus \cup {"none"}]
  BY DEF CancelJobs, TypeOK
<1>. QED BY <1>1, CancelledTyped DEF Live

\* A request that ends: what it made and is live is named.
LEMMA RequestEnds ==
    ASSUME TransferInv, TypeOK', NEW a \in Attempts, NEW end \in {"done", "stopped", "gone"},
           step[a] \in InProgress, Goes(a, end),
           UNCHANGED <<attempt, alone>>, status' # "none",
           \A j \in Sides \X Attempts : Live(j)' => Live(j),
           \A j \in Sides \X Attempts : job[j] = "none" => job'[j] = "none",
           end = "stopped" => job[<<"receive", a>>] = "none",
           alone /\ end # "gone" => \A d \in Sides : Live(<<d, a>>) => ref'[d] = a
    PROVE  TransferInv'
<1>. USE DEF InProgress
<1>1. \A b \in Attempts : step'[b] = IF b = a THEN end ELSE step[b]
  BY DEF Goes, TransferInv, TypeOK
<1>2. Numbered'
  BY <1>1 DEF TransferInv, Numbered, Attempts
<1>3. NotMadeYet'
  <2>. SUFFICES ASSUME NEW b \in Attempts
                PROVE  /\ step'[b] \in {"idle", "sending"} => job'[<<"send", b>>] = "none"
                       /\ step'[b] \in {"idle", "sending", "sent", "starting", "waiting", "checked",
                                        "stopped"} => job'[<<"receive", b>>] = "none"
    BY DEF NotMadeYet
  <2>. QED BY <1>1 DEF TransferInv, NotMadeYet, Sides
<1>4. SenderNamed'
  <2>. SUFFICES ASSUME alone, NEW b \in Attempts,
                       step'[b] \in {"starting", "waiting", "checked", "received"}
                PROVE  ref'["send"] = b
    BY DEF SenderNamed
  <2>1. b # a /\ step[b] \in InProgress
    BY <1>1
  <2>. QED BY <2>1 DEF TransferInv, OneRequest
<1>5. OneRequest'
  BY <1>1 DEF TransferInv, OneRequest
<1>6. EveryJobReachable'
  <2>. SUFFICES ASSUME alone, NEW d \in Sides, NEW b \in Attempts, Live(<<d, b>>)',
                       step'[b] \notin InProgress \cup {"gone"}
                PROVE  ref'[d] = b
    BY DEF EveryJobReachable, Referenced, Attempts
  <2>1. Live(<<d, b>>)
    OBVIOUS
  <2>2. CASE b = a
    BY <1>1, <2>1, <2>2
  <2>3. CASE b # a
    BY <1>1, <2>1, <2>3 DEF TransferInv, OneRequest
  <2>. QED BY <2>2, <2>3
<1>. QED BY <1>2, <1>3, <1>4, <1>5, <1>6 DEF TransferInv

\* A request that goes on: it makes a job of its own, or names one.
LEMMA RequestGoesOn ==
    ASSUME TransferInv, TypeOK', NEW a \in Attempts, NEW next \in InProgress \ {"sending"},
           step[a] \in InProgress, Goes(a, next),
           UNCHANGED <<attempt, alone>>, status' # "none",
           \A d \in Sides, b \in Attempts \ {a} : job'[<<d, b>>] = job[<<d, b>>],
           next # "received" => job'[<<"receive", a>>] = "none",
           next # "sent" /\ alone => ref'["send"] = a
    PROVE  TransferInv'
<1>. USE DEF InProgress
<1>1. \A b \in Attempts : step'[b] = IF b = a THEN next ELSE step[b]
  BY DEF Goes, TransferInv, TypeOK
<1>2. Numbered'
  BY <1>1 DEF TransferInv, Numbered, Attempts
<1>3. NotMadeYet'
  BY <1>1 DEF TransferInv, NotMadeYet, Sides
<1>4. SenderNamed'
  BY <1>1 DEF TransferInv, SenderNamed, OneRequest
<1>5. OneRequest'
  BY <1>1 DEF TransferInv, OneRequest, Live
<1>6. EveryJobReachable'
  \* every other live job was lost with its request
  BY <1>1 DEF TransferInv, OneRequest, EveryJobReachable, Referenced, Live
<1>. QED BY <1>2, <1>3, <1>4, <1>5, <1>6 DEF TransferInv

\* An attempt begins when nothing that counts is live.
LEMMA AttemptBegins ==
    ASSUME TransferInv, TypeOK', NEW a \in Attempts,
           a = attempt + 1, attempt' = a, status' # "none", Goes(a, "sending"),
           UNCHANGED <<ref, job>>,
           alone' => /\ alone
                     /\ \A b \in Attempts : step[b] \notin InProgress
                     /\ \A j \in Referenced : ~Live(j)
    PROVE  TransferInv'
<1>. USE DEF InProgress
<1>0. attempt \in Nat /\ step[a] = "idle"
  BY DEF TransferInv, TypeOK, Numbered, Attempts
<1>1. \A b \in Attempts : step'[b] = IF b = a THEN "sending" ELSE step[b]
  BY DEF Goes, TransferInv, TypeOK
<1>2. Numbered'
  BY <1>0, <1>1 DEF TransferInv, Numbered, Attempts
<1>3. NotMadeYet'
  BY <1>0, <1>1 DEF TransferInv, NotMadeYet, Sides
<1>4. SenderNamed'
  BY <1>1 DEF TransferInv, SenderNamed
<1>5. OneRequest'
  <2>. SUFFICES ASSUME alone', NEW b \in Attempts, b # a
                PROVE  /\ step'[b] \notin InProgress
                       /\ \A d \in Sides : Live(<<d, b>>)' => step'[b] = "gone"
    BY <1>1 DEF OneRequest
  <2>. QED BY <1>1 DEF TransferInv, EveryJobReachable, Live
<1>6. EveryJobReachable'
  BY <1>0, <1>1 DEF TransferInv, EveryJobReachable, Referenced, Live
<1>. QED BY <1>2, <1>3, <1>4, <1>5, <1>6 DEF TransferInv

LEMMA TransferInvStep == TransferInv /\ [Next]_vars => TransferInv'
<1> SUFFICES ASSUME TransferInv, [Next]_vars PROVE TransferInv'
  OBVIOUS
<1>0. TypeOK /\ TypeOK'
  BY TransferTypedStep DEF TransferInv
<1>1. ASSUME NEW skip \in BOOLEAN, create(skip) PROVE TransferInv'
  <2>1. 1 \in Attempts /\ attempt = 0
    BY <1>1, TransferAssumption DEF create, TransferInv, Numbered, Attempts
  <2>2. \A b \in Attempts : step[b] = "idle"
    BY <2>1 DEF TransferInv, Numbered, Attempts
  <2>3. \A j \in Referenced : ~Live(j)
    <3>1. \A d \in Sides, b \in Attempts : job[<<d, b>>] = "none"
      BY <2>2 DEF TransferInv, NotMadeYet, Sides
    <3>2. \A j \in Referenced : \E d \in Sides, b \in Attempts : j = <<d, b>>
      BY <1>0 DEF Referenced, TypeOK, Attempts
    <3>. QED BY <3>1, <3>2, TransferStatuses DEF Live
  <2>. QED BY <1>0, <1>1, <2>1, <2>2, <2>3, AttemptBegins DEF create, InProgress
<1>2. ASSUME NEW a \in Attempts, resume(a) PROVE TransferInv'
  <2>1. \A j \in Referenced : ~Live(j)
    BY <1>2, TransferStatuses DEF resume, Live, Ended
  <2>. QED BY <1>0, <1>2, <2>1, AttemptBegins DEF resume, NextAttempt
<1>3. ASSUME NEW a \in Attempts, RequestStep(a) PROVE TransferInv'
  <2>0. /\ <<"send", a>> \in Sides \X Attempts /\ <<"receive", a>> \in Sides \X Attempts
        /\ attempt # 0 \/ step[a] = "idle"
    BY DEF Sides, TransferInv, Numbered, Attempts, TypeOK
  <2>1. CASE InvokeSend(a)
    <3>1. job[<<"send", a>>] = "none" /\ job[<<"receive", a>>] = "none"
      BY <2>1 DEF InvokeSend, TransferInv, NotMadeYet
    <3>2. CASE Return(a, "failed") /\ UNCHANGED job
      BY <1>0, <2>1, <3>1, <3>2, RequestEnds, TransferStatuses
      DEF InvokeSend, Return, InProgress, Live, Sides
    <3>3. CASE /\ job' = [job EXCEPT ![<<"send", a>>] = "queued"] /\ Goes(a, "sent")
               /\ UNCHANGED <<status, op>>
      <4>1. job'[<<"receive", a>>] = "none"
            /\ \A d \in Sides, b \in Attempts \ {a} : job'[<<d, b>>] = job[<<d, b>>]
        BY <1>0, <3>1, <3>3 DEF TypeOK
      <4>2. status # "none"
        BY <2>0, <2>1 DEF InvokeSend, TransferInv, Numbered
      <4>. QED BY <1>0, <2>1, <3>3, <4>1, <4>2, RequestGoesOn DEF InvokeSend, InProgress
    <3>. QED BY <2>1, <3>2, <3>3 DEF InvokeSend
  <2>2. CASE CommitSend(a)
    <3>1. ref'["send"] = a /\ job[<<"receive", a>>] = "none"
      BY <1>0, <2>2 DEF CommitSend, TypeOK, Sides, TransferInv, NotMadeYet
    <3>. QED BY <1>0, <2>2, <3>1, RequestGoesOn DEF CommitSend, InProgress
  <2>3. CASE wait_for_job_start(a)
    <3>1. job[<<"receive", a>>] = "none" /\ (alone => ref["send"] = a) /\ status # "none"
      BY <2>0, <2>3 DEF wait_for_job_start, TransferInv, NotMadeYet, SenderNamed, Numbered
    <3>2. CASE Return(a, "failed")
      BY <1>0, <2>3, <3>1, <3>2, RequestEnds, TransferStatuses
      DEF wait_for_job_start, Return, InProgress, Live, Sides
    <3>3. CASE Goes(a, "waiting") /\ UNCHANGED <<status, op>>
      BY <1>0, <2>3, <3>1, <3>3, RequestGoesOn DEF wait_for_job_start, InProgress
    <3>. QED BY <2>3, <3>2, <3>3 DEF wait_for_job_start
  <2>4. CASE wait_for_sender_ready(a)
    <3>1. job[<<"receive", a>>] = "none" /\ (alone => ref["send"] = a) /\ status # "none"
      BY <2>0, <2>4 DEF wait_for_sender_ready, TransferInv, NotMadeYet, SenderNamed, Numbered
    <3>. QED BY <1>0, <2>4, <3>1, RequestGoesOn DEF wait_for_sender_ready, InProgress
  <2>5. CASE GiveUp(a)
    <3>1. job[<<"receive", a>>] = "none" /\ (alone => ref["send"] = a)
      BY <2>5 DEF GiveUp, TransferInv, NotMadeYet, SenderNamed
    <3>. QED BY <1>0, <2>5, <3>1, RequestEnds, CancelJobsMove, TransferStatuses
         DEF GiveUp, Return, InProgress, Live, Sides
  <2>6. CASE InvokeReceive(a)
    <3>1. job[<<"receive", a>>] = "none" /\ (alone => ref["send"] = a) /\ status # "none"
      BY <2>0, <2>6 DEF InvokeReceive, TransferInv, NotMadeYet, SenderNamed, Numbered
    <3>2. CASE CancelJobs({<<"send", a>>}) /\ Return(a, "failed")
      BY <1>0, <2>6, <3>1, <3>2, RequestEnds, CancelJobsMove, TransferStatuses
      DEF InvokeReceive, Return, InProgress, Live, Sides
    <3>3. CASE /\ job' = [job EXCEPT ![<<"receive", a>>] = "queued"] /\ Goes(a, "received")
               /\ UNCHANGED <<status, op>>
      <4>1. \A d \in Sides, b \in Attempts \ {a} : job'[<<d, b>>] = job[<<d, b>>]
        BY <1>0, <3>3 DEF TypeOK
      <4>. QED BY <1>0, <2>6, <3>1, <3>3, <4>1, RequestGoesOn DEF InvokeReceive, InProgress
    <3>. QED BY <2>6, <3>2, <3>3 DEF InvokeReceive
  <2>7. CASE CommitReceive(a)
    <3>1. alone => \A d \in Sides : ref'[d] = a
      BY <1>0, <2>7 DEF CommitReceive, TransferInv, SenderNamed, TypeOK, Sides
    <3>. QED BY <1>0, <2>7, <3>1, RequestEnds DEF CommitReceive, Return, InProgress, Live
  <2>. QED BY <1>3, <2>1, <2>2, <2>3, <2>4, <2>5, <2>6, <2>7 DEF RequestStep
<1>4. ASSUME NEW a \in Attempts, RequestLost(a) PROVE TransferInv'
  <2>1. status # "none"
    BY <1>4 DEF RequestLost, TransferInv, Numbered, InProgress, Attempts
  <2>. QED BY <1>0, <1>4, <2>1, RequestEnds DEF RequestLost, Live
<1>5. ASSUME NEW a \in Attempts, SenderReady(a) PROVE TransferInv'
  BY <1>0, <1>5, JobsMoveOnly DEF SenderReady, Live
<1>6. CASE cancel_transfer_create_inflight
  <2>1. 1 \in Attempts
    BY TransferAssumption DEF Attempts
  <2>2. job[<<"receive", 1>>] = "none" /\ (alone => ref["send"] = 1)
    BY <1>6, <2>1 DEF cancel_transfer_create_inflight, TransferInv, NotMadeYet, SenderNamed
  <2>. QED BY <1>0, <1>6, <2>1, <2>2, RequestEnds, CancelJobsMove, TransferStatuses
       DEF cancel_transfer_create_inflight, InProgress, Live, Sides
<1>7. ASSUME NEW synced \in BOOLEAN, RefreshSession(synced) PROVE TransferInv'
  <2>1. status' # "none" /\ status # "none"
    BY <1>0, <1>7, RefreshTyped, TransferStatuses DEF RefreshSession, TypeOK, SessionStatus
  <2>. QED BY <1>0, <1>7, <2>1, JobsMoveOnly, CancelJobsMove DEF RefreshSession
<1>8. ASSUME NEW synced \in BOOLEAN, cancel(synced) PROVE TransferInv'
  <2>1. status' # "none" /\ status # "none"
    BY <1>8, RefreshTyped, TransferStatuses DEF cancel, SessionStatus
  <2>. QED BY <1>0, <1>8, <2>1, JobsMoveOnly, CancelJobsMove DEF cancel
<1>9. ASSUME NEW j \in Sides \X Attempts, JobMoves(j) PROVE TransferInv'
  <2>1. PICK s \in JobStatus : NodeStep(j, s)
    BY <1>9 DEF JobMoves
  <2>2. Live(j)
    BY <1>0, <2>1, MovesFromLive DEF NodeStep, Live, TypeOK
  <2>. QED BY <1>0, <2>1, <2>2, JobsMoveOnly, TransferStatuses DEF NodeStep, Live, TypeOK
<1>10. CASE UNCHANGED vars
  BY <1>0, <1>10, JobsMoveOnly DEF vars, Live
<1>11. ASSUME NEW i \in Intents, preflight(i) PROVE TransferInv'
  BY <1>0, <1>11, JobsMoveOnly DEF preflight, Live
<1>12. ASSUME NEW p \in preflights, Expire(p) PROVE TransferInv'
  BY <1>0, <1>12, JobsMoveOnly DEF Expire, Live
<1>. QED BY <1>1, <1>2, <1>3, <1>4, <1>5, <1>6, <1>7, <1>8, <1>9, <1>10, <1>11, <1>12
     DEF Next, SyncActiveOperation

LEMMA TransferInvInit == Init => TransferInv
  BY TransferTypedInit, TransferStatuses
  DEF Init, TransferInv, Numbered, NotMadeYet, SenderNamed, OneRequest, EveryJobReachable, Live,
      InProgress, Attempts, Sides

\* Whoever refreshes, cancels and resumes a transfer while its request makes the jobs: no
\* live job is out of the session's reach, unless requests overlap or are lost.
THEOREM JobsReachable == Spec => []EveryJobReachable
<1>1. TransferInv => EveryJobReachable
  BY DEF TransferInv
<1>. QED BY <1>1, TransferInvInit, TransferInvStep, PTL DEF Spec

---------------------------------------------------------------------------
(* What a transfer is created on.                                          *)

\* Looking stage by stage misses nothing: no failure is left only when all is as needed.
LEMMA NoFailureIsReady ==
    ASSUME NEW i \in Intents, NEW p \in Probes
    PROVE  _transfer_preflight_failures(i, p) = {} <=> Ready(i, p)
<1> DEFINE open == {n \in Needed(i) : n[3] \notin p[n[1]][n[2]]}
<1>1. \A q \in Inquiries : Unanswered(p, q) = {} <=> \A e \in Ends : "answered" \in p[e][q]
  BY DEF Unanswered
<1>2. open = {} <=> \A n \in Needed(i) : n[3] \in p[n[1]][n[2]]
  OBVIOUS
<1>3. Ready(i, p) <=>
        /\ Unanswered(p, "stat") = {} /\ Unanswered(p, "status") = {}
        /\ open = {} /\ ~InTheWay(i, p)
  BY <1>1, <1>2 DEF Ready, Inquiries
<1>4. _transfer_preflight_failures(i, p) =
        IF Unanswered(p, "stat") # {} THEN Unanswered(p, "stat")
        ELSE IF Unanswered(p, "status") # {} THEN Unanswered(p, "status")
        ELSE open \cup (IF InTheWay(i, p) THEN {<<"target", "stat", "not_exists">>} ELSE {})
  BY DEF _transfer_preflight_failures
<1> HIDE DEF open
<1>. QED BY <1>3, <1>4

\* The rows tell what was seen, for as long as they are kept.
RowsTell == \A p \in preflights : p.allowed <=> Ready(p.intent, p.saw)

LEMMA RowsTellStep == TypeOK /\ RowsTell /\ [Next]_vars => RowsTell'
<1> SUFFICES ASSUME TypeOK, RowsTell, [Next]_vars PROVE RowsTell'
  OBVIOUS
<1>1. ASSUME NEW i \in Intents, preflight(i) PROVE RowsTell'
  <2>1. PICK w \in Probes, out \in BOOLEAN :
            preflights' = preflights \cup
                {[intent |-> i, saw |-> w, allowed |-> _transfer_preflight_failures(i, w) = {},
                  expired |-> out]}
    BY <1>1 DEF preflight
  <2> DEFINE row == [intent |-> i, saw |-> w, allowed |-> _transfer_preflight_failures(i, w) = {},
                     expired |-> out]
  <2>2. row.allowed <=> Ready(row.intent, row.saw)
    <3>1. row.intent = i /\ row.saw = w /\ row.allowed = (_transfer_preflight_failures(i, w) = {})
      OBVIOUS
    <3>. QED BY <3>1, NoFailureIsReady, Zenon
  <2>3. preflights' = preflights \cup {row}
    BY <2>1
  <2> HIDE DEF row
  <2>. QED BY <2>2, <2>3 DEF RowsTell
<1>2. ASSUME NEW p \in preflights, Expire(p) PROVE RowsTell'
  <2>1. PICK i \in Intents, w \in Probes, ok \in BOOLEAN, out \in BOOLEAN :
            p = [intent |-> i, saw |-> w, allowed |-> ok, expired |-> out]
    BY DEF TypeOK, Preflights
  <2>2. LET q == [p EXCEPT !.expired = TRUE]
        IN  q.allowed = p.allowed /\ q.intent = p.intent /\ q.saw = p.saw
    BY <2>1
  <2>. QED BY <1>2, <2>2 DEF Expire, RowsTell
<1>3. ASSUME UNCHANGED preflights PROVE RowsTell'
  BY <1>3 DEF RowsTell
<1>4. CASE \/ (\E skip \in BOOLEAN : create(skip)) \/ cancel_transfer_create_inflight \/ UNCHANGED vars
           \/ \E a \in Attempts : resume(a) \/ RequestStep(a) \/ RequestLost(a) \/ SenderReady(a)
           \/ \E synced \in BOOLEAN : RefreshSession(synced) \/ cancel(synced)
           \/ \E j \in Sides \X Attempts : JobMoves(j)
  BY <1>3, <1>4
  DEF RowsTell, create, cancel_transfer_create_inflight, vars, resume, NextAttempt, RequestStep, InvokeSend,
      CommitSend, wait_for_job_start, wait_for_sender_ready, GiveUp, InvokeReceive, CommitReceive,
      RequestLost, SenderReady, RefreshSession, cancel, JobMoves, NodeStep
<1>. QED BY <1>1, <1>2, <1>4 DEF Next, SyncActiveOperation

\* A preflight that has run out, failed, or was made for something else creates no transfer but
\* one marked as created without, and what an allowed one saw was enough.
THEOREM LookedAtFirst == Spec => CreatedOnFacts
<1>1. Init => TypeOK /\ RowsTell
  BY TransferTypedInit DEF Init, RowsTell
<1>2. TransferInv /\ RowsTell /\ [Next]_vars =>
        [status = "none" /\ status' # "none" =>
            skipped' \/ \E p \in preflights :
                ~p.expired /\ p.intent = asked /\ Ready(asked, p.saw)]_vars
  <2> SUFFICES ASSUME TransferInv, RowsTell, Next, status = "none", status' # "none"
               PROVE  skipped' \/ \E p \in preflights :
                        ~p.expired /\ p.intent = asked /\ Ready(asked, p.saw)
    BY DEF vars
  <2>1. attempt = 0 /\ \A a \in Attempts : step[a] = "idle"
    BY DEF TransferInv, TypeOK, Numbered, Attempts
  <2>2. ASSUME NEW skip \in BOOLEAN, create(skip)
        PROVE  skipped' \/ \E p \in preflights :
                 ~p.expired /\ p.intent = asked /\ Ready(asked, p.saw)
    BY <2>2 DEF create, _verify_preflight, RowsTell
  <2>3. ASSUME NEW a \in Attempts PROVE ~resume(a) /\ ~RequestStep(a) /\ ~RequestLost(a)
    BY <2>1 DEF resume, NextAttempt, RequestStep, InvokeSend, CommitSend, wait_for_job_start,
       wait_for_sender_ready, GiveUp, InvokeReceive, CommitReceive, RequestLost, InProgress
  <2>4. ~cancel_transfer_create_inflight
    <3>1. 1 \in Attempts
      BY TransferAssumption DEF Attempts
    <3>. QED BY <2>1, <3>1 DEF cancel_transfer_create_inflight
  <2>5. \A synced \in BOOLEAN : ~RefreshSession(synced) /\ ~cancel(synced)
    BY DEF RefreshSession, cancel
  <2>6. /\ \A i \in Intents : ~preflight(i)
        /\ \A p \in preflights : ~Expire(p)
        /\ \A a \in Attempts : ~SenderReady(a)
        /\ \A j \in Sides \X Attempts : ~JobMoves(j)
    BY DEF preflight, Expire, SenderReady, JobMoves, NodeStep
  <2>. QED BY <2>2, <2>3, <2>4, <2>5, <2>6 DEF Next, SyncActiveOperation
<1>3. TransferInv => TypeOK
  BY DEF TransferInv
<1>. QED BY <1>1, <1>2, <1>3, TransferInvInit, TransferInvStep, RowsTellStep, PTL
     DEF Spec, CreatedOnFacts

---------------------------------------------------------------------------
(* A node.                                                                 *)

LEMMA SetupKinds ==
    ASSUME CrocTypeOK
    PROVE  /\ setup.platform \in {"linux", "windows"}
           /\ setup.check # "none" => Receiving
  BY SetupsAssumption DEF CrocTypeOK, AllSetups, Receiving

LEMMA CrocTypedInit == CrocInit => CrocTypeOK
  BY BoundsAssumption
  DEF CrocInit, CrocTypeOK, NoEntry, Content, LedgerStatuses, Stages, TerminalStatuses, Excuses

\* A task that goes on to another stage, or returns.
LEMMA TaskTyped ==
    ASSUME CrocTypeOK, NEW j \in Jobs
    PROVE  /\ \A stage \in Stages : TaskGoes(j, stage) => task' \in [Jobs -> Stages]
           /\ \A res \in {"succeeded", "failed", "cancelled", "refused", "lost"} :
                TaskReturns(j, res) =>
                    /\ task' \in [Jobs -> Stages]
                    /\ result' \in [Jobs -> {"none", "succeeded", "failed", "cancelled", "refused",
                                             "lost"}]
  BY DEF CrocTypeOK, TaskGoes, TaskReturns, Stages

LEMMA StatusTyped ==
    ASSUME CrocTypeOK, NEW s \in LedgerStatuses, UpdateStatus(s)
    PROVE  ledger' \in [attempt : 0..MaxNumber, status : LedgerStatuses]
  BY DEF CrocTypeOK, UpdateStatus

LEMMA MoveTyped == CrocTypeOK /\ MoveReceived => place' \in Content /\ entry' \in Content
  BY DEF CrocTypeOK, MoveReceived, Content, disk

LEMMA LedgerTyped ==
    ASSUME CrocTypeOK, NEW j \in Jobs, NEW s \in LedgerStatuses, UNCHANGED number, UpdateLedger(j, s)
    PROVE  ledger' \in [attempt : 0..MaxNumber, status : LedgerStatuses]
  BY DEF CrocTypeOK, UpdateLedger

LEMMA CrocTypedStep == CrocTypeOK /\ [CrocNext]_crocVars => CrocTypeOK'
<1> SUFFICES ASSUME CrocTypeOK, [CrocNext]_crocVars PROVE CrocTypeOK'
  OBVIOUS
<1> USE DEF CrocTypeOK
<1>0. /\ {"none", "created", "starting", "running", "exited", "broke", "stopped", "verified",
          "cancelled", "over", "looking", "replacing", "inserting"} \subseteq Stages
      /\ {"none", "created", "running", "torn", "succeeded", "failed", "cancelled", "interrupted"}
          \subseteq LedgerStatuses
      /\ {"none", "other", "partial", "whole"} = Content
      /\ Excuses = {"raced", "stolen", "torn", "forgotten"}
      /\ Alive = {"alive", "full"}
  BY DEF Stages, Preparing, LedgerStatuses, TerminalStatuses, Content, Excuses, Alive
<1>1. ASSUME NEW j \in Jobs, NEW n \in Numbers, LinuxExecute(j, n) PROVE CrocTypeOK'
  BY <1>0, <1>1, TaskTyped DEF LinuxExecute, ClearTarget, counters, Numbers
<1>2. ASSUME NEW j \in Jobs, NEW n \in Numbers, WinExecute(j, n) PROVE CrocTypeOK'
  <2>1. /\ number' \in [Jobs -> 0..MaxNumber] /\ number'[j] \in 0..MaxNumber
        /\ place' \in Content
    BY <1>0, <1>2 DEF WinExecute, ClearTarget, Numbers
  <2>2. ledger' \in [attempt : 0..MaxNumber, status : LedgerStatuses]
    BY <1>0, <1>2, <2>1 DEF WinExecute, UpdateLedger
  <2>. QED BY <1>0, <1>2, <2>1, <2>2, TaskTyped DEF WinExecute, counters
<1>3. ASSUME NEW j \in Jobs, PrepareLookup(j) PROVE CrocTypeOK'
  BY <1>0, <1>3, TaskTyped DEF PrepareLookup, disk, counters
<1>4. ASSUME NEW j \in Jobs, PrepareDelete(j) PROVE CrocTypeOK'
  BY <1>0, <1>4, BoundsAssumption, TaskTyped DEF PrepareDelete, NoEntry, disk, counters
<1>5. ASSUME NEW j \in Jobs, PrepareInsert(j) PROVE CrocTypeOK'
  BY <1>0, <1>5, TaskTyped DEF PrepareInsert, disk, counters
<1>6. ASSUME NEW j \in Jobs, LinuxBegin(j) PROVE CrocTypeOK'
  BY <1>0, <1>6, TaskTyped, StatusTyped DEF LinuxBegin, disk, counters
<1>7. ASSUME NEW j \in Jobs, RunYqCroc(j) PROVE CrocTypeOK'
  BY <1>0, <1>7, TaskTyped DEF RunYqCroc, disk, counters
<1>8. ASSUME NEW j \in Jobs, MonitorChild(j) PROVE CrocTypeOK'
  BY <1>0, <1>8, TaskTyped DEF MonitorChild, disk, counters
<1>9. ASSUME NEW j \in Jobs, FinalizeAndVerify(j) PROVE CrocTypeOK'
  BY <1>0, <1>9, TaskTyped, MoveTyped DEF FinalizeAndVerify, counters
<1>10. ASSUME NEW j \in Jobs, RecordEnd(j) PROVE CrocTypeOK'
  BY <1>0, <1>10, TaskTyped, StatusTyped DEF RecordEnd, disk, counters
<1>11. ASSUME NEW j \in Jobs, RunBlocking(j) PROVE CrocTypeOK'
  BY <1>0, <1>11, TaskTyped DEF RunBlocking, disk, counters
<1>12. ASSUME NEW j \in Jobs, WatchProcess(j) PROVE CrocTypeOK'
  BY <1>0, <1>12, TaskTyped DEF WatchProcess, disk, counters
<1>13. ASSUME NEW j \in Jobs, TerminateProcess(j) PROVE CrocTypeOK'
  BY <1>0, <1>13, TaskTyped DEF TerminateProcess, disk, counters
<1>14. ASSUME NEW j \in Jobs, WinEnd(j) PROVE CrocTypeOK'
  <2>1. ledger' \in [attempt : 0..MaxNumber, status : LedgerStatuses]
    BY <1>0, <1>14, LedgerTyped DEF WinEnd
  <2>2. /\ place' \in Content /\ entry' \in Content
    BY <1>14, MoveTyped DEF WinEnd, disk
  <2>. QED BY <1>0, <1>14, <2>1, <2>2, TaskTyped DEF WinEnd, counters
<1>15. ASSUME NEW j \in Jobs, ProcessStep(j) PROVE CrocTypeOK'
  BY <1>0, <1>15 DEF ProcessStep, Puts, disk, counters
<1>16. ASSUME NEW j \in Jobs, CancelTask(j) PROVE CrocTypeOK'
  BY <1>16 DEF CancelTask, disk, counters
<1>17. CASE Reconcile
  <2>1. ledger' \in [attempt : 0..MaxNumber, status : LedgerStatuses]
    BY <1>0, <1>17, StatusTyped DEF Reconcile
  <2>2. reconciles' \in 0..MaxReconciles /\ excuse' \subseteq Excuses
    BY <1>0, <1>17, BoundsAssumption DEF Reconcile
  <2>. QED BY <1>17, <2>1, <2>2 DEF Reconcile, disk
<1>18. CASE Crash
  <2>1. ledger' \in [attempt : 0..MaxNumber, status : LedgerStatuses]
    BY <1>0, <1>18, BoundsAssumption DEF Crash
  <2>2. crashes' \in 0..MaxCrashes
    BY <1>18, BoundsAssumption DEF Crash
  <2>4. excuse' \subseteq Excuses
    <3>1. excuse' \subseteq excuse \cup {"forgotten", "torn"}
      BY <1>18 DEF Crash
    <3>. QED BY <1>0, <3>1
  <2>3. /\ task' \in [Jobs -> Stages]
        /\ result' \in [Jobs -> {"none", "succeeded", "failed", "cancelled", "refused", "lost"}]
    BY <1>0, <1>18 DEF Crash, Working
  <2>. QED BY <1>18, <2>1, <2>2, <2>3, <2>4 DEF Crash, disk
<1>19. CASE UNCHANGED crocVars
  BY <1>19 DEF crocVars, disk, counters
<1>. QED BY <1>1, <1>2, <1>3, <1>4, <1>5, <1>6, <1>7, <1>8, <1>9, <1>10, <1>11, <1>12, <1>13,
            <1>14, <1>15, <1>16, <1>17, <1>18, <1>19 DEF CrocNext, LinuxStep, WinStep

\* The node's state keeps its types.
THEOREM CrocTypeCorrect == CrocSpec => []CrocTypeOK
  BY CrocTypedInit, CrocTypedStep, PTL DEF CrocSpec

---------------------------------------------------------------------------
(* The ledger tells the attempts of a node apart.                          *)

\* Jobs whose attempt was admitted to the ledger, now or before.
Entered(j) == proc[j] # "none" \/ task[j] \in Underway \/ result[j] = "succeeded"

\* A process is started by a running task and seen to end before the end is recorded.
ProcessesHaveTasks ==
    \A j \in Jobs :
        /\ task[j] \in {"none", "created", "starting"} \cup Preparing => proc[j] = "none"
        /\ task[j] \in {"exited", "broke", "stopped", "verified", "cancelled"} => proc[j] \notin Alive
        /\ task[j] = "exited" => proc[j] # "none"
        /\ task[j] # "none" => number[j] \in Numbers
        /\ result[j] # "none" => task[j] = "over"
        /\ Windows => task[j] \notin {"created", "broke", "verified"} \cup Preparing

\* Only a torn entry, or none, is of no attempt.
EntryIsReal ==
    /\ ledger.status = "torn" => Windows /\ "torn" \in excuse
    /\ ledger.status = "none" => ledger = NoEntry
    /\ ledger.attempt = 0 => ledger.status \in {"none", "torn"}

Undisturbed == excuse \cap {"raced", "torn", "forgotten"} = {}

\* One task at a time is about to replace or insert the row.
OnePrepares ==
    Undisturbed => \A j, k \in Jobs :
        task[j] \in {"replacing", "inserting"} /\ task[k] \in {"replacing", "inserting"} => j = k

\* What it is about to insert is newer than all that came before.
PreparedIsNewer ==
    Undisturbed => \A j \in Jobs :
        /\ task[j] = "replacing" => ledger # NoEntry /\ ledger.attempt < number[j]
        /\ task[j] = "inserting" =>
              ledger = NoEntry /\ \A k \in Jobs : Entered(k) => number[k] < number[j]

\* The ledger holds the newest attempt, unless its row is just being replaced.
LedgerIsNewest ==
    Undisturbed => \A j \in Jobs : Entered(j) =>
        IF ledger = NoEntry THEN \E k \in Jobs : task[k] = "inserting" ELSE number[j] <= ledger.attempt

NumbersDiffer ==
    Undisturbed => \A j, k \in Jobs : Entered(j) /\ Entered(k) /\ number[j] = number[k] => j = k

\* Nothing calls an attempt on Windows interrupted, so the task that runs owns the file.
WinWritesItsOwn ==
    Undisturbed /\ Windows => \A j \in Jobs :
        task[j] \in Underway => ledger = [attempt |-> number[j], status |-> "running"]

LedgerInv ==
    /\ CrocTypeOK
    /\ ProcessesHaveTasks
    /\ EntryIsReal
    /\ OnePrepares
    /\ PreparedIsNewer
    /\ LedgerIsNewest
    /\ NumbersDiffer
    /\ WinWritesItsOwn

LEMMA StageKinds ==
    /\ Preparing = {"looking", "replacing", "inserting"}
    /\ Underway = {"created", "starting", "running", "exited", "broke", "stopped", "verified",
                   "cancelled"}
    /\ Alive = {"alive", "full"}
    /\ TerminalStatuses = {"succeeded", "failed", "cancelled", "interrupted"}
  BY DEF Preparing, Underway, Stages, Alive, TerminalStatuses

\* What happened stays so.
LEMMA HistoryGrows ==
    ASSUME CrocTypeOK, [CrocNext]_crocVars
    PROVE  /\ excuse \subseteq excuse'
           /\ UNCHANGED setup
  BY StageKinds
  DEF CrocTypeOK, CrocNext, LinuxStep, WinStep, LinuxExecute, WinExecute, PrepareLookup, PrepareDelete,
      PrepareInsert, LinuxBegin, RunYqCroc, MonitorChild, FinalizeAndVerify, RecordEnd, RunBlocking,
      WatchProcess, TerminateProcess, WinEnd, ProcessStep, CancelTask, Reconcile, Crash, crocVars

LEMMA EntryStep == CrocTypeOK /\ EntryIsReal /\ ProcessesHaveTasks /\ [CrocNext]_crocVars => EntryIsReal'
<1> SUFFICES ASSUME CrocTypeOK, EntryIsReal, ProcessesHaveTasks, [CrocNext]_crocVars
             PROVE  EntryIsReal'
  OBVIOUS
<1>0. excuse \subseteq excuse' /\ UNCHANGED setup
  BY HistoryGrows
<1>1. CASE UNCHANGED ledger
  BY <1>0, <1>1 DEF EntryIsReal, Windows
<1>2. CASE ledger' = NoEntry
  BY <1>2 DEF EntryIsReal, NoEntry
<1>3. ASSUME NEW s \in {"running", "succeeded", "failed", "interrupted"}, UpdateStatus(s), Linux
      PROVE  EntryIsReal'
  <2>1. CASE ledger = NoEntry
    BY <1>3, <1>1, <2>1 DEF UpdateStatus
  <2>2. CASE ledger # NoEntry
    <3>1. ledger'.status = s /\ ledger'.attempt = ledger.attempt
      BY <1>3, <2>2 DEF UpdateStatus, CrocTypeOK
    <3>2. ledger.attempt # 0
      BY <1>3, <2>2 DEF EntryIsReal, Linux, Windows
    <3>. QED BY <1>3, <3>1, <3>2 DEF EntryIsReal
  <2>. QED BY <2>1, <2>2
<1>4. ASSUME NEW n \in Numbers, NEW s \in {"created", "running", "succeeded", "failed", "cancelled"},
             ledger' = [attempt |-> n, status |-> s]
      PROVE  EntryIsReal'
  BY <1>4 DEF EntryIsReal, NoEntry, Numbers
<1>5. CASE Crash
  BY <1>0, <1>1, <1>5, StageKinds DEF Crash, EntryIsReal, Windows
<1>6. ASSUME NEW j \in Jobs, NEW n \in Numbers, WinExecute(j, n) PROVE EntryIsReal'
  BY <1>1, <1>4, <1>6 DEF WinExecute, UpdateLedger, CrocTypeOK
<1>7. ASSUME NEW j \in Jobs, WinEnd(j) PROVE EntryIsReal'
  BY <1>4, <1>7 DEF WinEnd, UpdateLedger, ProcessesHaveTasks
<1>8. ASSUME NEW j \in Jobs, PrepareInsert(j) PROVE EntryIsReal'
  BY <1>1, <1>4, <1>8 DEF PrepareInsert, ProcessesHaveTasks
<1>9. ASSUME NEW j \in Jobs, LinuxBegin(j) PROVE EntryIsReal'
  BY <1>3, <1>9, SetupKinds DEF LinuxBegin, ProcessesHaveTasks, Linux, Windows
<1>. QED BY <1>1, <1>2, <1>3, <1>5, <1>6, <1>7, <1>8, <1>9
     DEF CrocNext, LinuxStep, WinStep, LinuxExecute, PrepareLookup, PrepareDelete,
         RunYqCroc, MonitorChild, FinalizeAndVerify, RecordEnd, RunBlocking, WatchProcess,
         TerminateProcess, ProcessStep, CancelTask, Reconcile, crocVars

\* A step of one job's task or process: the others keep their parts of ProcessesHaveTasks.
LEMMA OneTaskStep ==
    ASSUME CrocTypeOK, ProcessesHaveTasks, [CrocNext]_crocVars, NEW j \in Jobs,
           \A k \in Jobs \ {j} : /\ task'[k] = task[k] /\ proc'[k] = proc[k] /\ number'[k] = number[k]
                                 /\ result'[k] = result[k],
           task'[j] \in {"none", "created", "starting"} \cup Preparing => proc'[j] = "none",
           task'[j] \in {"exited", "broke", "stopped", "verified", "cancelled"} => proc'[j] \notin Alive,
           task'[j] = "exited" => proc'[j] # "none",
           task'[j] # "none" => number'[j] \in Numbers,
           result'[j] # "none" => task'[j] = "over",
           Windows => task'[j] \notin {"created", "broke", "verified"} \cup Preparing
    PROVE  ProcessesHaveTasks'
<1>1. UNCHANGED setup
  BY HistoryGrows
<1>. QED BY <1>1 DEF ProcessesHaveTasks, Windows

LEMMA TasksStep ==
    CrocTypeOK /\ ProcessesHaveTasks /\ [CrocNext]_crocVars => ProcessesHaveTasks'
<1> SUFFICES ASSUME CrocTypeOK, ProcessesHaveTasks, [CrocNext]_crocVars PROVE ProcessesHaveTasks'
  OBVIOUS
<1>. USE StageKinds, SetupKinds, HistoryGrows
     DEF CrocTypeOK, ProcessesHaveTasks, TaskGoes, TaskReturns, Linux, Windows
<1>1. ASSUME NEW j \in Jobs, NEW n \in Numbers, LinuxExecute(j, n) PROVE ProcessesHaveTasks'
  BY <1>1, OneTaskStep DEF LinuxExecute
<1>2. ASSUME NEW j \in Jobs, NEW n \in Numbers, WinExecute(j, n) PROVE ProcessesHaveTasks'
  BY <1>2, OneTaskStep DEF WinExecute
<1>3. ASSUME NEW j \in Jobs, PrepareLookup(j) PROVE ProcessesHaveTasks'
  BY <1>3, OneTaskStep DEF PrepareLookup
<1>4. ASSUME NEW j \in Jobs, PrepareDelete(j) PROVE ProcessesHaveTasks'
  BY <1>4, OneTaskStep DEF PrepareDelete
<1>5. ASSUME NEW j \in Jobs, PrepareInsert(j) PROVE ProcessesHaveTasks'
  BY <1>5, OneTaskStep DEF PrepareInsert
<1>6. ASSUME NEW j \in Jobs, LinuxBegin(j) PROVE ProcessesHaveTasks'
  BY <1>6, OneTaskStep DEF LinuxBegin
<1>7. ASSUME NEW j \in Jobs, RunYqCroc(j) PROVE ProcessesHaveTasks'
  BY <1>7, OneTaskStep DEF RunYqCroc
<1>8. ASSUME NEW j \in Jobs, MonitorChild(j) PROVE ProcessesHaveTasks'
  BY <1>8, OneTaskStep DEF MonitorChild
<1>9. ASSUME NEW j \in Jobs, FinalizeAndVerify(j) PROVE ProcessesHaveTasks'
  <2>1. /\ task[j] \in {"exited", "broke"} /\ Linux /\ UNCHANGED <<number, proc>>
        /\ \/ task' = [task EXCEPT ![j] = "verified"] /\ result' = result
           \/ task' = [task EXCEPT ![j] = "over"] /\ result' = [result EXCEPT ![j] = "failed"]
           \/ task' = [task EXCEPT ![j] = "stopped"] /\ result' = result
    BY <1>9, Zenon DEF FinalizeAndVerify
  <2>. QED BY <2>1, OneTaskStep
<1>10. ASSUME NEW j \in Jobs, RecordEnd(j) PROVE ProcessesHaveTasks'
  BY <1>10, OneTaskStep DEF RecordEnd
<1>11. ASSUME NEW j \in Jobs, RunBlocking(j) PROVE ProcessesHaveTasks'
  BY <1>11, OneTaskStep DEF RunBlocking
<1>12. ASSUME NEW j \in Jobs, WatchProcess(j) PROVE ProcessesHaveTasks'
  BY <1>12, OneTaskStep DEF WatchProcess
<1>13. ASSUME NEW j \in Jobs, TerminateProcess(j) PROVE ProcessesHaveTasks'
  BY <1>13, OneTaskStep DEF TerminateProcess
<1>14. ASSUME NEW j \in Jobs, WinEnd(j) PROVE ProcessesHaveTasks'
  <2>1. \E res \in {"succeeded", "failed", "cancelled"} :
          TaskReturns(j, res) /\ task[j] # "none" /\ UNCHANGED <<number, proc>>
    BY <1>14 DEF WinEnd
  <2>. QED BY <2>1, OneTaskStep
<1>15. ASSUME NEW j \in Jobs, ProcessStep(j) PROVE ProcessesHaveTasks'
  <2>1. UNCHANGED <<task, number, result>> /\ proc[j] \in Alive
        /\ \E p \in {"alive", "full", "ok", "bad"} : proc' = [proc EXCEPT ![j] = p]
    BY <1>15 DEF ProcessStep
  <2>. QED BY <2>1, OneTaskStep
<1>16. ASSUME NEW j \in Jobs, CancelTask(j) PROVE ProcessesHaveTasks'
  BY <1>16, OneTaskStep DEF CancelTask
<1>17. CASE UNCHANGED <<task, proc, number, result>>
  BY <1>17
<1>18. CASE Crash
  BY <1>18 DEF Crash, Working
<1>. QED BY <1>1, <1>2, <1>3, <1>4, <1>5, <1>6, <1>7, <1>8, <1>9, <1>10, <1>11, <1>12, <1>13,
            <1>14, <1>15, <1>16, <1>17, <1>18 DEF CrocNext, LinuxStep, WinStep, Reconcile, crocVars

\* A step in which no job enters the ledger and no task comes to replace or insert its row.
LEMMA OrderKept ==
    ASSUME LedgerInv, CrocTypeOK', ProcessesHaveTasks', EntryIsReal',
           excuse \subseteq excuse',
           \A k \in Jobs : Entered(k)' => Entered(k),
           \A k \in Jobs : Entered(k) \/ task[k] \in Preparing => number'[k] = number[k],
           \A k \in Jobs : task'[k] \in {"replacing", "inserting"} => task'[k] = task[k],
           \A k \in Jobs : task[k] = "inserting" => task'[k] = "inserting",
           Undisturbed => (ledger = NoEntry <=> ledger' = NoEntry) /\ ledger'.attempt = ledger.attempt,
           WinWritesItsOwn'
    PROVE  LedgerInv'
<1>. USE StageKinds
<1>0. Undisturbed' => Undisturbed
  BY DEF Undisturbed
<1>1. OnePrepares'
  BY <1>0 DEF LedgerInv, OnePrepares
<1>2. PreparedIsNewer'
  BY <1>0 DEF LedgerInv, PreparedIsNewer
<1>3. LedgerIsNewest'
  BY <1>0 DEF LedgerInv, LedgerIsNewest
<1>4. NumbersDiffer'
  BY <1>0 DEF LedgerInv, NumbersDiffer
<1>. QED BY <1>1, <1>2, <1>3, <1>4 DEF LedgerInv

\* Nothing is said of a ledger that was disturbed.
LEMMA DisturbedStep ==
    ASSUME CrocTypeOK', ProcessesHaveTasks', EntryIsReal', ~Undisturbed'
    PROVE  LedgerInv'
  BY DEF LedgerInv, OnePrepares, PreparedIsNewer, LedgerIsNewest, NumbersDiffer, WinWritesItsOwn

\* A step of a Linux daemon, or one that leaves the ledger and the tasks underway as they are.
LEMMA WinOwnKept ==
    ASSUME LedgerInv, UNCHANGED setup, excuse \subseteq excuse',
           Linux \/ (UNCHANGED <<ledger, number>>
                     /\ \A k \in Jobs : task'[k] \in Underway => task[k] \in Underway)
    PROVE  WinWritesItsOwn'
  BY SetupKinds DEF LedgerInv, WinWritesItsOwn, Undisturbed, Linux, Windows

LEMMA LedgerInvStep == LedgerInv /\ [CrocNext]_crocVars => LedgerInv'
<1> SUFFICES ASSUME LedgerInv, [CrocNext]_crocVars PROVE LedgerInv'
  OBVIOUS
<1>0. /\ CrocTypeOK /\ CrocTypeOK' /\ ProcessesHaveTasks /\ ProcessesHaveTasks'
      /\ EntryIsReal /\ EntryIsReal'
      /\ excuse \subseteq excuse' /\ UNCHANGED setup
      /\ Linux <=> ~Windows
  BY CrocTypedStep, TasksStep, EntryStep, HistoryGrows, SetupKinds
  DEF LedgerInv, Linux, Windows
<1>. USE StageKinds DEF Entered, TaskGoes, TaskReturns
\* The status of the row changes, its attempt does not.
<1>a. ASSUME NEW s \in {"running", "succeeded", "failed", "interrupted"}, UpdateStatus(s)
      PROVE  (ledger = NoEntry <=> ledger' = NoEntry) /\ ledger'.attempt = ledger.attempt
  BY <1>0, <1>a DEF UpdateStatus, CrocTypeOK, NoEntry
<1>1. ASSUME NEW j \in Jobs, NEW n \in Numbers, LinuxExecute(j, n) PROVE LedgerInv'
  <2>1. WinWritesItsOwn'
    BY <1>0, <1>1, WinOwnKept DEF LinuxExecute
  <2>. QED BY <1>0, <1>1, <2>1, OrderKept DEF LinuxExecute, CrocTypeOK, ProcessesHaveTasks
<1>2. ASSUME NEW j \in Jobs, NEW n \in Numbers, WinExecute(j, n) PROVE LedgerInv'
  <2>1. /\ \A k \in Jobs \ {j} : task'[k] = task[k] /\ number'[k] = number[k] /\ proc'[k] = proc[k]
        /\ task[j] = "none" /\ ~Entered(j) /\ number'[j] = n /\ Windows /\ UNCHANGED excuse
        /\ \A k \in Jobs : task[k] \notin Preparing
        /\ \A k \in Jobs \ {j} : result'[k] = result[k]
    BY <1>0, <1>2 DEF WinExecute, CrocTypeOK, ProcessesHaveTasks
  <2>2. CASE TaskReturns(j, "refused") /\ UNCHANGED ledger
    <3>1. WinWritesItsOwn'
      BY <1>0, <2>1, <2>2 DEF LedgerInv, WinWritesItsOwn, CrocTypeOK, Undisturbed, Windows
    <3>. QED BY <1>0, <1>2, <2>1, <2>2, <3>1, OrderKept DEF WinExecute, CrocTypeOK
  <2>3. CASE /\ PrepareLedger(n) /\ ledger' = [attempt |-> n, status |-> "running"]
             /\ TaskGoes(j, "starting") /\ UNCHANGED result
    <3>. SUFFICES ASSUME Undisturbed' PROVE LedgerInv'
      BY <1>0, DisturbedStep
    <3>0. Undisturbed /\ ledger.status # "torn"
      BY <1>0, <2>1 DEF Undisturbed, EntryIsReal
    <3>1. \A k \in Jobs \ {j} : Entered(k) => number[k] < n
      <4>1. CASE ledger = NoEntry
        BY <2>1, <3>0, <4>1 DEF LedgerInv, LedgerIsNewest
      <4>2. CASE ledger # NoEntry
        <5>1. ledger.attempt < n
          BY <1>0, <2>3, <3>0, <4>2 DEF PrepareLedger, Admits, EntryIsReal
        <5>. QED BY <1>0, <3>0, <4>2, <5>1 DEF LedgerInv, LedgerIsNewest, CrocTypeOK, Numbers
      <4>. QED BY <4>1, <4>2
    <3>2. \A k \in Jobs \ {j} : task[k] \notin Underway
      BY <1>0, <2>1, <2>3, <3>0
      DEF PrepareLedger, Admits, EntryIsReal, NoEntry, LedgerInv, WinWritesItsOwn
    <3>3. \A k \in Jobs : task'[k] \notin Preparing
      BY <1>0, <2>1, <2>3 DEF CrocTypeOK
    <3>4. \A k \in Jobs \ {j} : Entered(k)' => Entered(k)
      BY <2>1
    <3>5. OnePrepares' /\ PreparedIsNewer'
      BY <3>3 DEF OnePrepares, PreparedIsNewer
    <3>6. LedgerIsNewest'
      BY <1>0, <2>1, <2>3, <3>1, <3>4 DEF LedgerIsNewest, NoEntry, Numbers, CrocTypeOK
    <3>7. NumbersDiffer'
      BY <1>0, <2>1, <3>0, <3>1, <3>4 DEF LedgerInv, NumbersDiffer, Numbers, CrocTypeOK
    <3>8. WinWritesItsOwn'
      BY <1>0, <2>1, <2>3, <3>2 DEF WinWritesItsOwn, CrocTypeOK
    <3>. QED BY <1>0, <3>5, <3>6, <3>7, <3>8 DEF LedgerInv
  <2>. QED BY <1>0, <1>2, <2>1, <2>2, <2>3 DEF WinExecute, UpdateLedger
<1>3. ASSUME NEW j \in Jobs, PrepareLookup(j) PROVE LedgerInv'
  <2>. SUFFICES ASSUME Undisturbed' PROVE LedgerInv'
    BY <1>0, DisturbedStep
  <2>1. /\ task[j] = "looking" /\ UNCHANGED <<ledger, number, proc, excuse>> /\ Undisturbed
        /\ \A k \in Jobs \ {j} : task[k] \notin Preparing /\ task'[k] = task[k]
                                 /\ result'[k] = result[k]
    BY <1>0, <1>3 DEF PrepareLookup, Undisturbed, CrocTypeOK
  <2>2. WinWritesItsOwn'
    BY <1>0, <2>1, WinOwnKept DEF ProcessesHaveTasks
  <2>3. \A k \in Jobs : Entered(k)' => Entered(k)
    BY <1>0, <1>3, <2>1 DEF PrepareLookup, CrocTypeOK
  <2>4. CASE ledger = NoEntry /\ TaskGoes(j, "inserting")
    <3>1. \A k \in Jobs : ~Entered(k)
      BY <2>1, <2>4 DEF LedgerInv, LedgerIsNewest
    <3>2. OnePrepares' /\ PreparedIsNewer' /\ LedgerIsNewest' /\ NumbersDiffer'
      BY <1>0, <2>1, <2>3, <2>4, <3>1
      DEF OnePrepares, PreparedIsNewer, LedgerIsNewest, NumbersDiffer, CrocTypeOK
    <3>. QED BY <1>0, <2>2, <3>2 DEF LedgerInv
  <2>5. CASE Admits(number[j]) /\ TaskGoes(j, "replacing")
    <3>1. ledger # NoEntry /\ ledger.attempt < number[j]
      BY <2>5 DEF Admits, NoEntry
    <3>2. OnePrepares' /\ PreparedIsNewer'
      BY <1>0, <2>1, <2>5, <3>1 DEF OnePrepares, PreparedIsNewer, CrocTypeOK
    <3>3. LedgerIsNewest' /\ NumbersDiffer'
      BY <1>0, <2>1, <2>3, <3>1 DEF LedgerInv, LedgerIsNewest, NumbersDiffer
    <3>. QED BY <1>0, <2>2, <3>2, <3>3 DEF LedgerInv
  <2>6. CASE TaskReturns(j, "refused")
    BY <1>0, <2>1, <2>2, <2>3, <2>6, OrderKept DEF CrocTypeOK
  <2>. QED BY <1>3, <2>4, <2>5, <2>6 DEF PrepareLookup
<1>4. ASSUME NEW j \in Jobs, PrepareDelete(j) PROVE LedgerInv'
  <2>. SUFFICES ASSUME Undisturbed' PROVE LedgerInv'
    BY <1>0, DisturbedStep
  <2>1. /\ task[j] = "replacing" /\ UNCHANGED <<number, proc, result, excuse>> /\ Undisturbed
        /\ task' = [task EXCEPT ![j] = "inserting"] /\ ledger' = NoEntry
    BY <1>0, <1>4 DEF PrepareDelete, Undisturbed
  <2>2. \A k \in Jobs \ {j} : task[k] \notin {"replacing", "inserting"}
    BY <2>1 DEF LedgerInv, OnePrepares
  <2>3. \A k \in Jobs : Entered(k)' => Entered(k)
    BY <1>0, <2>1 DEF CrocTypeOK
  <2>4. \A k \in Jobs : Entered(k) => number[k] < number[j]
    BY <1>0, <2>1 DEF LedgerInv, PreparedIsNewer, LedgerIsNewest, CrocTypeOK
  <2>5. WinWritesItsOwn'
    BY <1>0, <2>1, WinOwnKept DEF ProcessesHaveTasks
  <2>6. OnePrepares' /\ PreparedIsNewer' /\ LedgerIsNewest'
    BY <1>0, <2>1, <2>2, <2>3, <2>4 DEF OnePrepares, PreparedIsNewer, LedgerIsNewest, CrocTypeOK
  <2>7. NumbersDiffer'
    BY <2>1, <2>3 DEF LedgerInv, NumbersDiffer
  <2>. QED BY <1>0, <2>5, <2>6, <2>7 DEF LedgerInv
<1>5. ASSUME NEW j \in Jobs, PrepareInsert(j) PROVE LedgerInv'
  <2>. SUFFICES ASSUME Undisturbed' PROVE LedgerInv'
    BY <1>0, DisturbedStep
  <2>0. /\ task[j] = "inserting" /\ UNCHANGED <<number, proc, excuse>> /\ Undisturbed
        /\ ledger = NoEntry
        /\ \A k \in Jobs : Entered(k) => number[k] < number[j]
    BY <1>0, <1>5 DEF PrepareInsert, Undisturbed, LedgerInv, PreparedIsNewer
  <2>1. /\ task' = [task EXCEPT ![j] = "created"] /\ UNCHANGED result
        /\ ledger' = [attempt |-> number[j], status |-> "created"]
    BY <1>5, <2>0 DEF PrepareInsert
  <2>2. \A k \in Jobs \ {j} : task'[k] \notin {"replacing", "inserting"}
    BY <1>0, <2>0, <2>1 DEF LedgerInv, OnePrepares, CrocTypeOK
  <2>3. \A k \in Jobs \ {j} : Entered(k)' => Entered(k)
    BY <1>0, <2>0, <2>1 DEF CrocTypeOK
  <2>4. WinWritesItsOwn'
    BY <1>0, <2>0, WinOwnKept DEF ProcessesHaveTasks
  <2>5. number[j] \in Nat \ {0} /\ \A k \in Jobs : number[k] \in Nat
    BY <1>0, <2>0 DEF ProcessesHaveTasks, CrocTypeOK, Numbers
  <2>6. OnePrepares' /\ PreparedIsNewer'
    BY <1>0, <2>1, <2>2 DEF OnePrepares, PreparedIsNewer, CrocTypeOK
  <2>7. LedgerIsNewest'
    BY <1>0, <2>0, <2>1, <2>3, <2>5 DEF LedgerIsNewest, NoEntry
  <2>8. NumbersDiffer'
    BY <1>0, <2>0, <2>3, <2>5 DEF LedgerInv, NumbersDiffer
  <2>. QED BY <1>0, <2>4, <2>6, <2>7, <2>8 DEF LedgerInv
<1>6. ASSUME NEW j \in Jobs, LinuxBegin(j) PROVE LedgerInv'
  <2>1. WinWritesItsOwn'
    BY <1>0, <1>6, WinOwnKept DEF LinuxBegin, ProcessesHaveTasks
  <2>. QED BY <1>0, <1>6, <1>a, <2>1, OrderKept DEF LinuxBegin, CrocTypeOK
<1>7. ASSUME NEW j \in Jobs, RunYqCroc(j) PROVE LedgerInv'
  <2>1. WinWritesItsOwn'
    BY <1>0, <1>7, WinOwnKept DEF RunYqCroc
  <2>. QED BY <1>0, <1>7, <2>1, OrderKept DEF RunYqCroc, CrocTypeOK
<1>8. ASSUME NEW j \in Jobs, MonitorChild(j) PROVE LedgerInv'
  <2>1. WinWritesItsOwn'
    BY <1>0, <1>8, WinOwnKept DEF MonitorChild
  <2>. QED BY <1>0, <1>8, <2>1, OrderKept DEF MonitorChild, CrocTypeOK
<1>9. ASSUME NEW j \in Jobs, FinalizeAndVerify(j) PROVE LedgerInv'
  <2>1. WinWritesItsOwn'
    BY <1>0, <1>9, WinOwnKept DEF FinalizeAndVerify
  <2>. QED BY <1>0, <1>9, <2>1, OrderKept DEF FinalizeAndVerify, CrocTypeOK
<1>10. ASSUME NEW j \in Jobs, RecordEnd(j) PROVE LedgerInv'
  <2>1. WinWritesItsOwn'
    BY <1>0, <1>10, WinOwnKept DEF RecordEnd
  <2>. QED BY <1>0, <1>10, <1>a, <2>1, OrderKept DEF RecordEnd, CrocTypeOK
<1>11. ASSUME NEW j \in Jobs, RunBlocking(j) PROVE LedgerInv'
  <2>1. WinWritesItsOwn'
    BY <1>0, <1>11, WinOwnKept DEF RunBlocking, CrocTypeOK
  <2>. QED BY <1>0, <1>11, <2>1, OrderKept DEF RunBlocking, CrocTypeOK
<1>12. ASSUME NEW j \in Jobs, WatchProcess(j) PROVE LedgerInv'
  <2>1. WinWritesItsOwn'
    BY <1>0, <1>12, WinOwnKept DEF WatchProcess, CrocTypeOK
  <2>. QED BY <1>0, <1>12, <2>1, OrderKept DEF WatchProcess, CrocTypeOK
<1>13. ASSUME NEW j \in Jobs, TerminateProcess(j) PROVE LedgerInv'
  <2>1. WinWritesItsOwn'
    BY <1>0, <1>13, WinOwnKept DEF TerminateProcess, CrocTypeOK
  <2>. QED BY <1>0, <1>13, <2>1, OrderKept DEF TerminateProcess, CrocTypeOK
<1>14. ASSUME NEW j \in Jobs, WinEnd(j) PROVE LedgerInv'
  <2>. SUFFICES ASSUME Undisturbed' PROVE LedgerInv'
    BY <1>0, DisturbedStep
  <2>1. /\ Windows /\ UNCHANGED <<number, proc, excuse>> /\ Undisturbed /\ task[j] \in Underway
        /\ \E s \in {"succeeded", "failed", "cancelled"} :
              TaskReturns(j, s) /\ ledger' = [attempt |-> number[j], status |-> s]
    BY <1>0, <1>14 DEF WinEnd, UpdateLedger, Undisturbed
  <2>2. ledger = [attempt |-> number[j], status |-> "running"]
    BY <2>1 DEF LedgerInv, WinWritesItsOwn
  <2>3. \A k \in Jobs \ {j} : task[k] \notin Underway
    BY <1>0, <2>1, <2>2 DEF LedgerInv, WinWritesItsOwn, NumbersDiffer
  <2>4. WinWritesItsOwn'
    BY <1>0, <2>1, <2>3 DEF WinWritesItsOwn, CrocTypeOK
  <2>5. \A k \in Jobs : Entered(k)' => Entered(k)
    BY <1>0, <2>1 DEF CrocTypeOK
  <2>. QED BY <1>0, <2>1, <2>2, <2>4, <2>5, OrderKept DEF NoEntry, CrocTypeOK, ProcessesHaveTasks
<1>15. ASSUME NEW j \in Jobs, ProcessStep(j) PROVE LedgerInv'
  <2>1. WinWritesItsOwn'
    BY <1>0, <1>15, WinOwnKept DEF ProcessStep
  <2>. QED BY <1>0, <1>15, <2>1, OrderKept DEF ProcessStep, CrocTypeOK
<1>16. CASE UNCHANGED <<ledger, number, task, proc, result>>
  <2>1. WinWritesItsOwn'
    BY <1>0, <1>16, WinOwnKept
  <2>. QED BY <1>0, <1>16, <2>1, OrderKept
<1>17. CASE Reconcile
  <2>1. WinWritesItsOwn'
    BY <1>0, <1>17, WinOwnKept DEF Reconcile
  <2>. QED BY <1>0, <1>17, <1>a, <2>1, OrderKept DEF Reconcile
<1>18. CASE Crash
  <2>. SUFFICES ASSUME Undisturbed' PROVE LedgerInv'
    BY <1>0, DisturbedStep
  <2>1. /\ UNCHANGED <<ledger, number, proc>> /\ Undisturbed
        /\ ledger = NoEntry => \A k \in Jobs : proc[k] = "none" /\ result[k] # "succeeded"
    BY <1>0, <1>18 DEF Crash, Undisturbed
  <2>2. \A k \in Jobs : /\ task'[k] \in {"none", "over"}
                        /\ Entered(k)' => proc[k] # "none" \/ result[k] = "succeeded"
    BY <1>0, <1>18 DEF Crash, Working, CrocTypeOK
  <2>3. OnePrepares' /\ PreparedIsNewer' /\ WinWritesItsOwn'
    BY <1>0, <2>2 DEF OnePrepares, PreparedIsNewer, WinWritesItsOwn
  <2>4. NumbersDiffer'
    BY <2>1, <2>2 DEF LedgerInv, NumbersDiffer
  <2>5. ledger = NoEntry => \A k \in Jobs : ~Entered(k)'
    BY <2>1, <2>2
  <2>6. LedgerIsNewest'
    BY <2>1, <2>2, <2>5 DEF LedgerInv, LedgerIsNewest
  <2>. QED BY <1>0, <2>3, <2>4, <2>6 DEF LedgerInv
<1>. QED BY <1>1, <1>2, <1>3, <1>4, <1>5, <1>6, <1>7, <1>8, <1>9, <1>10, <1>11, <1>12, <1>13,
            <1>14, <1>15, <1>16, <1>17, <1>18 DEF CrocNext, LinuxStep, WinStep, CancelTask, crocVars

LEMMA LedgerInvInit == CrocInit => LedgerInv
  BY CrocTypedInit, StageKinds
  DEF CrocInit, LedgerInv, ProcessesHaveTasks, EntryIsReal, OnePrepares,
      PreparedIsNewer, LedgerIsNewest, NumbersDiffer, WinWritesItsOwn, Entered, NoEntry

\* A transfer's attempt number is given to one process, however often its job is repeated and
\* whenever the daemon dies, unless the ledger was raced, torn or forgotten.
THEOREM AttemptsRunOnce == CrocSpec => []AttemptRunsOnce
<1>1. LedgerInv => AttemptRunsOnce
  BY DEF LedgerInv, NumbersDiffer, AttemptRunsOnce, Entered, Undisturbed
<1>. QED BY <1>1, LedgerInvInit, LedgerInvStep, PTL DEF CrocSpec

---------------------------------------------------------------------------
(* What was delivered stays.                                               *)

\* Jobs with a task or a process at work on the transfer.
Works(j) == task[j] \in Underway \/ proc[j] \in Alive

\* The ledger is of the attempt at work; a row is replaced only when none is.
LedgerTellsWhoWorks ==
    excuse = {} => \A j \in Jobs :
        /\ Works(j) => ledger.attempt = number[j] /\ ledger.status \in {"created", "running"}
        /\ task[j] = "replacing" => ledger.status \in TerminalStatuses

VerifiedIsWhole ==
    excuse = {} /\ setup.check = "hash" /\ setup.mode # "overwrite" =>
        \A j \in Jobs : task[j] = "verified" => Received = "whole"

DeliveryInv ==
    /\ LedgerInv
    /\ LedgerTellsWhoWorks
    /\ VerifiedIsWhole
    /\ DeliveredStays

LEMMA WorksAlone ==
    ASSUME LedgerInv, LedgerTellsWhoWorks, excuse = {}
    PROVE  \A j, k \in Jobs : Works(j) /\ Works(k) => j = k
<1>1. \A j \in Jobs : Works(j) => Entered(j)
  BY StageKinds DEF Works, Entered, LedgerInv, CrocTypeOK
<1>2. Undisturbed
  BY DEF Undisturbed
<1>. QED BY <1>1, <1>2 DEF LedgerInv, LedgerTellsWhoWorks, NumbersDiffer

\* A step that leaves the ledger alone and in which no job begins to work.
LEMMA WorkersKept ==
    ASSUME LedgerInv, LedgerTellsWhoWorks, excuse \subseteq excuse', UNCHANGED ledger,
           \A k \in Jobs : Works(k)' => Works(k) /\ number'[k] = number[k],
           \A k \in Jobs : task'[k] = "replacing" => task[k] = "replacing"
    PROVE  LedgerTellsWhoWorks'
  BY DEF LedgerTellsWhoWorks

LEMMA WorkersStep ==
    ASSUME LedgerInv, LedgerTellsWhoWorks, [CrocNext]_crocVars
    PROVE  LedgerTellsWhoWorks'
<1>0. /\ CrocTypeOK /\ CrocTypeOK' /\ ProcessesHaveTasks /\ ProcessesHaveTasks' /\ EntryIsReal
      /\ excuse \subseteq excuse' /\ UNCHANGED setup
      /\ Linux <=> ~Windows
  BY CrocTypedStep, TasksStep, EntryStep, HistoryGrows, SetupKinds DEF LedgerInv, Linux, Windows
<1>. SUFFICES ASSUME excuse' = {} PROVE LedgerTellsWhoWorks'
  BY DEF LedgerTellsWhoWorks
<1>. USE StageKinds DEF Works, TaskGoes, TaskReturns
<1>a. excuse = {} /\ Undisturbed
  BY <1>0 DEF Undisturbed
<1>b. \A j, k \in Jobs : Works(j) /\ Works(k) => j = k
  BY <1>a, WorksAlone
<1>c. \A j \in Jobs : Works(j) => ledger.attempt = number[j] /\ ledger.status \in {"created", "running"}
  BY <1>a DEF LedgerTellsWhoWorks
<1>d. (\E j \in Jobs : Works(j)) => \A k \in Jobs : task[k] # "replacing"
  BY <1>a DEF LedgerTellsWhoWorks
<1>1. ASSUME NEW j \in Jobs, NEW n \in Numbers, LinuxExecute(j, n) PROVE LedgerTellsWhoWorks'
  BY <1>0, <1>1, WorkersKept DEF LinuxExecute, CrocTypeOK, ProcessesHaveTasks
<1>2. ASSUME NEW j \in Jobs, NEW n \in Numbers, WinExecute(j, n) PROVE LedgerTellsWhoWorks'
  <2>1. CASE TaskReturns(j, "refused") /\ UNCHANGED ledger
    BY <1>0, <1>2, <2>1, WorkersKept DEF WinExecute, CrocTypeOK, ProcessesHaveTasks
  <2>2. CASE /\ PrepareLedger(n) /\ UpdateLedger(j, "running") /\ TaskGoes(j, "starting")
    <3>1. ledger.status # "torn"
      BY <1>0, <1>a DEF EntryIsReal
    <3>2. \A k \in Jobs : ~Works(k)
      BY <1>c, <2>2, <3>1 DEF PrepareLedger, Admits
    <3>3. \A k \in Jobs : task'[k] # "replacing"
      BY <1>0, <1>2 DEF ProcessesHaveTasks, WinExecute, Windows
    <3>4. \A k \in Jobs \ {j} : ~Works(k)'
      BY <1>0, <1>2, <2>2, <3>2 DEF WinExecute, CrocTypeOK
    <3>. QED BY <2>2, <3>3, <3>4 DEF LedgerTellsWhoWorks, UpdateLedger
  <2>. QED BY <1>2, <2>1, <2>2 DEF WinExecute
<1>3. ASSUME NEW j \in Jobs, PrepareLookup(j) PROVE LedgerTellsWhoWorks'
  <2>1. UNCHANGED <<ledger, number, proc>> /\ \A k \in Jobs : Works(k)' => Works(k)
    BY <1>0, <1>3 DEF PrepareLookup, CrocTypeOK
  <2>2. \A k \in Jobs : task'[k] = "replacing" => task[k] = "replacing" \/ Admits(number[j])
    BY <1>0, <1>3 DEF PrepareLookup, CrocTypeOK
  <2>. QED BY <1>a, <1>c, <2>1, <2>2 DEF LedgerTellsWhoWorks, Admits
<1>4. ASSUME NEW j \in Jobs, PrepareDelete(j) PROVE LedgerTellsWhoWorks'
  <2>1. \A k \in Jobs : ~Works(k)'
    BY <1>0, <1>4, <1>d DEF PrepareDelete, CrocTypeOK
  <2>2. \A k \in Jobs : task'[k] # "replacing"
    BY <1>0, <1>4, <1>a DEF PrepareDelete, LedgerInv, OnePrepares, CrocTypeOK
  <2>. QED BY <2>1, <2>2 DEF LedgerTellsWhoWorks
<1>5. ASSUME NEW j \in Jobs, PrepareInsert(j) PROVE LedgerTellsWhoWorks'
  <2>0. task[j] = "inserting" /\ ledger = NoEntry /\ UNCHANGED <<number, proc>>
    BY <1>5, <1>a DEF PrepareInsert, LedgerInv, PreparedIsNewer
  <2>1. ledger' = [attempt |-> number[j], status |-> "created"] /\ task' = [task EXCEPT ![j] = "created"]
    BY <1>5, <2>0 DEF PrepareInsert
  <2>2. \A k \in Jobs \ {j} : task'[k] # "replacing"
    BY <1>0, <1>a, <2>0, <2>1 DEF LedgerInv, OnePrepares, CrocTypeOK
  <2>3. \A k \in Jobs : ~Works(k)
    BY <1>c, <2>0 DEF NoEntry
  <2>4. \A k \in Jobs \ {j} : ~Works(k)'
    BY <1>0, <2>0, <2>1, <2>3 DEF CrocTypeOK
  <2>. QED BY <1>0, <2>0, <2>1, <2>2, <2>4 DEF LedgerTellsWhoWorks, CrocTypeOK
<1>6. ASSUME NEW j \in Jobs, LinuxBegin(j) PROVE LedgerTellsWhoWorks'
  <2>1. Works(j) /\ UNCHANGED <<number, proc>> /\ task' = [task EXCEPT ![j] = "starting"]
    BY <1>6 DEF LinuxBegin
  <2>2. ledger'.attempt = ledger.attempt /\ ledger'.status = "running"
    BY <1>0, <1>6, <1>c, <2>1 DEF LinuxBegin, UpdateStatus, NoEntry, CrocTypeOK
  <2>3. \A k \in Jobs : task'[k] # "replacing" /\ (Works(k)' => Works(k))
    BY <1>0, <1>d, <2>1 DEF CrocTypeOK
  <2>. QED BY <1>c, <2>1, <2>2, <2>3 DEF LedgerTellsWhoWorks
<1>7. ASSUME NEW j \in Jobs, RunYqCroc(j) PROVE LedgerTellsWhoWorks'
  BY <1>0, <1>7, WorkersKept DEF RunYqCroc, CrocTypeOK
<1>8. ASSUME NEW j \in Jobs, MonitorChild(j) PROVE LedgerTellsWhoWorks'
  BY <1>0, <1>8, WorkersKept DEF MonitorChild, CrocTypeOK
<1>9. ASSUME NEW j \in Jobs, FinalizeAndVerify(j) PROVE LedgerTellsWhoWorks'
  BY <1>0, <1>9, WorkersKept DEF FinalizeAndVerify, CrocTypeOK
<1>10. ASSUME NEW j \in Jobs, RecordEnd(j) \/ WinEnd(j) PROVE LedgerTellsWhoWorks'
  <2>1. Works(j) /\ task'[j] = "over" /\ proc'[j] \notin Alive
    BY <1>0, <1>10 DEF RecordEnd, WinEnd, ProcessesHaveTasks, CrocTypeOK
  <2>2. \A k \in Jobs \ {j} : ~Works(k) /\ task[k] # "replacing" /\ task'[k] = task[k]
    BY <1>0, <1>10, <1>b, <1>d, <2>1 DEF RecordEnd, WinEnd, CrocTypeOK
  <2>3. UNCHANGED proc
    BY <1>10 DEF RecordEnd, WinEnd
  <2>4. \A k \in Jobs : ~Works(k)' /\ task'[k] # "replacing"
    BY <2>1, <2>2, <2>3 DEF Works
  <2>. QED BY <2>4 DEF LedgerTellsWhoWorks
<1>11. ASSUME NEW j \in Jobs, RunBlocking(j) PROVE LedgerTellsWhoWorks'
  BY <1>0, <1>11, WorkersKept DEF RunBlocking, CrocTypeOK
<1>12. ASSUME NEW j \in Jobs, WatchProcess(j) PROVE LedgerTellsWhoWorks'
  BY <1>0, <1>12, WorkersKept DEF WatchProcess, CrocTypeOK
<1>13. ASSUME NEW j \in Jobs, TerminateProcess(j) PROVE LedgerTellsWhoWorks'
  BY <1>0, <1>13, WorkersKept DEF TerminateProcess, CrocTypeOK
<1>14. ASSUME NEW j \in Jobs, ProcessStep(j) PROVE LedgerTellsWhoWorks'
  BY <1>0, <1>14, WorkersKept DEF ProcessStep, CrocTypeOK
<1>15. CASE UNCHANGED <<ledger, number, task, proc>>
  BY <1>0, <1>15, WorkersKept
<1>16. CASE Reconcile
  <2>1. \A k \in Jobs : ~Works(k)'
    BY <1>16 DEF Reconcile
  <2>2. ledger # NoEntry /\ ledger' = [ledger EXCEPT !.status = "interrupted"]
    BY <1>16 DEF Reconcile, UpdateStatus, NoEntry
  <2>3. ledger'.status = "interrupted"
    BY <1>0, <2>2 DEF CrocTypeOK
  <2>. QED BY <2>1, <2>3 DEF LedgerTellsWhoWorks
<1>17. CASE Crash
  <2>1. UNCHANGED <<ledger, number, proc>>
    BY <1>17 DEF Crash
  <2>2. \A k \in Jobs : task'[k] \in {"none", "over"} /\ (Works(k)' => Works(k))
    BY <1>0, <1>17, <2>1 DEF Crash, Working, CrocTypeOK
  <2>. QED BY <1>0, <2>1, <2>2, WorkersKept
<1>. QED BY <1>1, <1>2, <1>3, <1>4, <1>5, <1>6, <1>7, <1>8, <1>9, <1>10, <1>11, <1>12, <1>13,
            <1>14, <1>15, <1>16, <1>17 DEF CrocNext, LinuxStep, WinStep, CancelTask, crocVars

\* What passes the check of a job's hash is what it expects.
LEMMA CheckedIsWhole ==
    setup.check = "hash" /\ MoveReceived /\ TRUE \in Verified /\ UNCHANGED setup => Received' = "whole"
  BY DEF MoveReceived, Verified, Received, disk

\* Nobody at work, nobody touches what was received.
LEMMA DiskRests ==
    ASSUME LedgerInv, [CrocNext]_crocVars, setup.mode # "overwrite", \A j \in Jobs : ~Works(j)
    PROVE  UNCHANGED <<place, entry>>
<1>. USE StageKinds DEF Works, disk
<1>1. ASSUME NEW j \in Jobs, NEW n \in Numbers, LinuxExecute(j, n) \/ WinExecute(j, n)
      PROVE  UNCHANGED <<place, entry>>
  BY <1>1 DEF LinuxExecute, WinExecute, ClearTarget
<1>. QED BY <1>1
     DEF CrocNext, LinuxStep, WinStep, PrepareLookup, PrepareDelete, PrepareInsert, LinuxBegin,
         RunYqCroc, MonitorChild, FinalizeAndVerify, RecordEnd, RunBlocking, WatchProcess,
         TerminateProcess, WinEnd, ProcessStep, CancelTask, Reconcile, Crash, crocVars

\* A process of the job at work writes; nobody else does, and not after its task saw it end.
LEMMA DiskOfWorker ==
    ASSUME LedgerInv, LedgerTellsWhoWorks, excuse = {}, [CrocNext]_crocVars,
           setup.mode # "overwrite", NEW j \in Jobs, task[j] = "verified"
    PROVE  UNCHANGED <<place, entry>>
<1>. USE StageKinds DEF disk
<1>0. \A k \in Jobs : Works(k) => k = j /\ proc[j] \notin Alive
  BY WorksAlone DEF Works, LedgerInv, ProcessesHaveTasks
<1>1. ASSUME NEW k \in Jobs, NEW n \in Numbers, LinuxExecute(k, n) \/ WinExecute(k, n)
      PROVE  UNCHANGED <<place, entry>>
  BY <1>1 DEF LinuxExecute, WinExecute, ClearTarget
<1>2. ASSUME NEW k \in Jobs, ProcessStep(k) PROVE FALSE
  BY <1>0, <1>2 DEF ProcessStep, Works
<1>3. ASSUME NEW k \in Jobs, FinalizeAndVerify(k) PROVE FALSE
  BY <1>0, <1>3 DEF FinalizeAndVerify, Works
<1>4. ASSUME NEW k \in Jobs, WinEnd(k) PROVE UNCHANGED <<place, entry>>
  BY <1>0, <1>4 DEF WinEnd, Works
<1>. QED BY <1>1, <1>2, <1>3, <1>4
     DEF CrocNext, LinuxStep, WinStep, PrepareLookup, PrepareDelete, PrepareInsert, LinuxBegin,
         RunYqCroc, MonitorChild, RecordEnd, RunBlocking, WatchProcess, TerminateProcess, CancelTask,
         Reconcile, Crash, crocVars

LEMMA VerifiedStep ==
    ASSUME DeliveryInv, [CrocNext]_crocVars
    PROVE  VerifiedIsWhole'
<1>0. excuse \subseteq excuse' /\ UNCHANGED setup /\ CrocTypeOK
  BY HistoryGrows DEF DeliveryInv, LedgerInv
<1>. SUFFICES ASSUME excuse' = {}, excuse = {}, setup.check = "hash", setup.mode # "overwrite",
                     NEW j \in Jobs, task'[j] = "verified"
              PROVE  Received' = "whole"
  BY <1>0 DEF VerifiedIsWhole
<1>1. CASE task[j] = "verified"
  BY <1>0, <1>1, DiskOfWorker DEF DeliveryInv, VerifiedIsWhole, Received
<1>2. CASE task[j] # "verified"
  <2>. HIDE DEF MoveReceived, Verified
  <2>a. task \in [Jobs -> Stages]
    BY <1>0 DEF CrocTypeOK
  <2>b. ASSUME NEW k \in Jobs, NEW stage, stage # "verified", task' = [task EXCEPT ![k] = stage]
        PROVE  FALSE
    BY <1>2, <2>a, <2>b
  <2>c. ASSUME UNCHANGED task PROVE FALSE
    BY <1>2, <2>c
  <2>d. ASSUME NEW k \in Jobs, NEW n \in Numbers, LinuxExecute(k, n) \/ WinExecute(k, n) PROVE FALSE
    BY <2>b, <2>d DEF LinuxExecute, WinExecute, TaskGoes, TaskReturns
  <2>e. ASSUME NEW k \in Jobs, LinuxStep(k), ~FinalizeAndVerify(k) PROVE FALSE
    BY <2>b, <2>e DEF LinuxStep, PrepareLookup, PrepareDelete, PrepareInsert, LinuxBegin, RunYqCroc,
       MonitorChild, RecordEnd, TaskGoes, TaskReturns
  <2>f. ASSUME NEW k \in Jobs, WinStep(k) PROVE FALSE
    BY <2>b, <2>f DEF WinStep, RunBlocking, WatchProcess, TerminateProcess, WinEnd, TaskGoes, TaskReturns
  <2>g. ASSUME Crash PROVE FALSE
    BY <1>2, <2>a, <2>g DEF Crash
  <2>1. \E k \in Jobs : FinalizeAndVerify(k) /\ task'[j] # task[j]
    BY <1>2, <2>c, <2>d, <2>e, <2>f, <2>g
    DEF CrocNext, ProcessStep, CancelTask, Reconcile, crocVars
  <2>2. PICK k \in Jobs : FinalizeAndVerify(k) /\ task'[j] # task[j]
    BY <2>1
  <2>3. MoveReceived /\ TRUE \in Verified
    BY <1>0, <2>2 DEF FinalizeAndVerify, TaskGoes, TaskReturns, CrocTypeOK
  <2>. QED BY <1>0, <2>3, CheckedIsWhole
<1>. QED BY <1>1, <1>2

\* The steps after which a job has succeeded.
LEMMA Successes ==
    ASSUME CrocTypeOK, [CrocNext]_crocVars, NEW j \in Jobs, result[j] # "succeeded",
           result'[j] = "succeeded"
    PROVE  RecordEnd(j) \/ WinEnd(j)
<1>. USE DEF CrocTypeOK, TaskReturns
<1>1. ASSUME NEW k \in Jobs, RecordEnd(k) PROVE RecordEnd(j)
  <2>1. k = j
    BY <1>1 DEF RecordEnd
  <2>. QED BY <1>1, <2>1
<1>2. ASSUME NEW k \in Jobs, WinEnd(k) PROVE WinEnd(j)
  <2>1. k = j
    BY <1>2 DEF WinEnd
  <2>. QED BY <1>2, <2>1
<1>3. ASSUME NEW k \in Jobs, NEW n \in Numbers, LinuxExecute(k, n) \/ WinExecute(k, n) PROVE FALSE
  BY <1>3 DEF LinuxExecute, WinExecute
<1>4. ASSUME NEW k \in Jobs,
             PrepareLookup(k) \/ PrepareInsert(k) \/ FinalizeAndVerify(k)
      PROVE  FALSE
  BY <1>4 DEF PrepareLookup, PrepareInsert, FinalizeAndVerify
<1>5. ASSUME Crash PROVE FALSE
  BY <1>5 DEF Crash
<1>. QED BY <1>1, <1>2, <1>3, <1>4, <1>5
     DEF CrocNext, LinuxStep, WinStep, PrepareDelete, LinuxBegin, RunYqCroc, MonitorChild, RunBlocking,
         WatchProcess, TerminateProcess, ProcessStep, CancelTask, Reconcile, crocVars

\* The steps after which the ledger says that an attempt succeeded.
LEMMA Recorded ==
    ASSUME CrocTypeOK, [CrocNext]_crocVars, ledger'.status = "succeeded", ledger' # ledger
    PROVE  \E k \in Jobs : (RecordEnd(k) \/ WinEnd(k)) /\ task[k] \in Underway
<1>. USE StageKinds
<1>1. \A s \in {"running", "interrupted"} : UpdateStatus(s) => FALSE
  BY DEF UpdateStatus, CrocTypeOK, NoEntry
<1>2. ASSUME NEW k \in Jobs, NEW n \in Numbers, WinExecute(k, n) PROVE FALSE
  BY <1>2 DEF WinExecute, UpdateLedger
<1>3. ASSUME NEW k \in Jobs, PrepareDelete(k) \/ PrepareInsert(k) PROVE FALSE
  BY <1>3 DEF PrepareDelete, PrepareInsert, NoEntry
<1>4. ASSUME Crash PROVE FALSE
  BY <1>4 DEF Crash
<1>. QED BY <1>1, <1>2, <1>3, <1>4
     DEF CrocNext, LinuxStep, WinStep, LinuxExecute, PrepareLookup, LinuxBegin, RunYqCroc,
         MonitorChild, FinalizeAndVerify, RecordEnd, RunBlocking, WatchProcess, TerminateProcess,
         WinEnd, ProcessStep, CancelTask, Reconcile, crocVars

LEMMA DeliveredStep ==
    ASSUME DeliveryInv, [CrocNext]_crocVars
    PROVE  DeliveredStays'
<1>0. /\ CrocTypeOK /\ ProcessesHaveTasks /\ LedgerInv /\ LedgerTellsWhoWorks
      /\ excuse \subseteq excuse' /\ UNCHANGED setup
  BY HistoryGrows DEF DeliveryInv, LedgerInv
<1>. SUFFICES ASSUME excuse' = {}, excuse = {}, setup.check = "hash", setup.mode # "overwrite",
                     NEW j \in Jobs, result'[j] = "succeeded",
                     ledger' = [attempt |-> number'[j], status |-> "succeeded"]
              PROVE  Received' = "whole"
  BY <1>0 DEF DeliveredStays
<1>. USE StageKinds
<1>1. CASE result[j] = "succeeded"
  <2>1. task[j] = "over" /\ Entered(j)
    BY <1>1, <1>0 DEF ProcessesHaveTasks, Entered
  <2>2. number'[j] = number[j]
    BY <1>0, <2>1
    DEF CrocNext, LinuxStep, WinStep, LinuxExecute, WinExecute, PrepareLookup, PrepareDelete,
        PrepareInsert, LinuxBegin, RunYqCroc, MonitorChild, FinalizeAndVerify, RecordEnd, RunBlocking,
        WatchProcess, TerminateProcess, WinEnd, ProcessStep, CancelTask, Reconcile, Crash, crocVars,
        CrocTypeOK
  <2>3. CASE ledger' = ledger
    <3>1. \A k \in Jobs : ~Works(k)
      BY <1>0, <2>3 DEF LedgerTellsWhoWorks
    <3>. QED BY <1>0, <1>1, <2>2, <2>3, <3>1, DiskRests DEF DeliveryInv, DeliveredStays, Received
  <2>4. CASE ledger' # ledger
    <3>1. PICK k \in Jobs : (RecordEnd(k) \/ WinEnd(k)) /\ task[k] \in Underway
      BY <1>0, <2>4, Recorded
    <3>2. ledger.attempt = number[k] /\ ledger # NoEntry /\ Entered(k)
      BY <1>0, <3>1 DEF LedgerTellsWhoWorks, Works, NoEntry, Entered
    <3>3. ledger'.attempt = number[k]
      BY <1>0, <3>1, <3>2 DEF RecordEnd, WinEnd, UpdateStatus, UpdateLedger, CrocTypeOK
    <3>4. number[j] = number[k]
      BY <2>2, <3>3
    <3>5. j = k
      BY <1>0, <2>1, <3>2, <3>4 DEF LedgerInv, NumbersDiffer, Undisturbed
    <3>. QED BY <2>1, <3>1, <3>5
  <2>. QED BY <2>3, <2>4
<1>2. CASE result[j] # "succeeded"
  <2>0. Receiving
    BY <1>0, SetupKinds
  <2>1. CASE RecordEnd(j)
    <3>1. task[j] = "verified" /\ UNCHANGED <<place, entry>>
      BY <1>0, <2>0, <2>1, <1>2 DEF RecordEnd, TaskReturns, disk, CrocTypeOK
    <3>. QED BY <1>0, <3>1 DEF DeliveryInv, VerifiedIsWhole, Received
  <2>2. CASE WinEnd(j)
    <3>1. MoveReceived /\ TRUE \in Verified
      BY <1>0, <2>0, <2>2, <1>2 DEF WinEnd, TaskReturns, CrocTypeOK
    <3>. QED BY <1>0, <3>1, CheckedIsWhole
  <2>. QED BY <1>0, <1>2, <2>1, <2>2, Successes
<1>. QED BY <1>1, <1>2

\* What a checked attempt delivered stays whole for as long as the ledger says that it succeeded,
\* while nothing has gone wrong with the ledger.
THEOREM WholeStays == CrocSpec => []DeliveredStays
<1>1. CrocInit => DeliveryInv
  BY LedgerInvInit, StageKinds
  DEF CrocInit, DeliveryInv, LedgerTellsWhoWorks, VerifiedIsWhole, DeliveredStays, Works
<1>2. DeliveryInv /\ [CrocNext]_crocVars => DeliveryInv'
  BY LedgerInvStep, WorkersStep, VerifiedStep, DeliveredStep DEF DeliveryInv
<1>3. DeliveryInv => DeliveredStays
  BY DEF DeliveryInv
<1>. QED BY <1>1, <1>2, <1>3, PTL DEF CrocSpec

\* Two processes never work on the same transfer at once, not even one that outlived its daemon,
\* while nothing has gone wrong with the ledger.
THEOREM ProcessesTakeTurns == CrocSpec => []OneAtATime
<1>1. CrocInit => LedgerInv /\ LedgerTellsWhoWorks
  BY LedgerInvInit, StageKinds DEF CrocInit, LedgerTellsWhoWorks, Works
<1>2. LedgerInv /\ LedgerTellsWhoWorks /\ [CrocNext]_crocVars => (LedgerInv /\ LedgerTellsWhoWorks)'
  BY LedgerInvStep, WorkersStep
<1>3. LedgerInv /\ LedgerTellsWhoWorks => OneAtATime
  <2>. SUFFICES ASSUME LedgerInv, LedgerTellsWhoWorks, excuse = {}
                PROVE  Cardinality({j \in Jobs : proc[j] \in Alive}) <= 1
    BY DEF OneAtATime
  <2>1. \A j, k \in Jobs : proc[j] \in Alive /\ proc[k] \in Alive => j = k
    BY WorksAlone DEF Works
  <2>2. CASE {j \in Jobs : proc[j] \in Alive} = {}
    BY <2>2, FS_EmptySet
  <2>3. ASSUME NEW j \in Jobs, proc[j] \in Alive
        PROVE  Cardinality({k \in Jobs : proc[k] \in Alive}) <= 1
    <3>1. {k \in Jobs : proc[k] \in Alive} = {j}
      BY <2>1, <2>3
    <3>. QED BY <3>1, FS_Singleton
  <2>. QED BY <2>2, <2>3
<1>. QED BY <1>1, <1>2, <1>3, PTL DEF CrocSpec
=============================================================================
