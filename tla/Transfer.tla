------------------------------ MODULE Transfer ------------------------------
(***************************************************************************)
(* One transfer session: a file moved from a source node to a target node  *)
(* by two jobs, a sender and a receiver, with one attempt per create or    *)
(* resume request (application/transfer.py).  The request that makes an    *)
(* attempt runs for minutes: it commits the session, creates the sender in *)
(* a database session of its own, waits for it to be ready, then creates   *)
(* the receiver.  Meanwhile the nodes move the jobs, status and cancel     *)
(* requests and the operation scanner rewrite the session from its jobs,   *)
(* and the request itself can be cancelled or die with the Center.         *)
(*                                                                         *)
(* Where the request of an attempt is:                                     *)
(*   "sending"   attempt committed, sender not created                     *)
(*   "sent"      sender created, session not told                          *)
(*   "starting"  waiting for the sender to leave the queue (create only)   *)
(*   "waiting"   waiting for the sender to be ready                        *)
(*   "checked"   has read the sender for the last time                     *)
(*   "received"  receiver created, session not told                        *)
(*   "done"      returned to its caller                                    *)
(*   "stopped"   cancelled while it waited, and cleaned up after itself    *)
(*   "gone"      cancelled elsewhere, or lost with the Center              *)
(***************************************************************************)
EXTENDS JobStatusMachine, FiniteSets, TransferPreflight

CONSTANTS
    MaxAttempts,    \* bound: attempts of the session
    MaxPreflights   \* bound: preflights before the session

ASSUME TransferAssumption == MaxAttempts \in Nat \ {0} /\ MaxPreflights \in Nat

Attempts == 1..MaxAttempts
Sides == {"send", "receive"}
InProgress == {"sending", "sent", "starting", "waiting", "checked", "received"}

VARIABLES
    asked,      \* what the session is to do: its columns that stay
    preflights, \* the rows of TransferPreflight a session may still be made from
    skipped,    \* its metadata's skip_preflight, FALSE while there is no row
    status,     \* TransferSession.status, "none" while there is no row
    attempt,    \* TransferSession.attempt
    ref,        \* the attempt whose job source_job_id, target_job_id names, 0 for null
    job,        \* status of each attempt's jobs, "none" while there is no row
    ready,      \* attempts whose sender has reported sender_ready
    resumable,  \* jobs (side, attempt) that reported resumable = true
    step,       \* where the request of each attempt is, "idle" before it
    seen,       \* what that request read last: the sender is over, not ready, or ready
    op,         \* status of the session's Operation, "none" while there is no row
    alone       \* history: no two requests were ever in progress together

vars == <<asked, preflights, skipped, status, attempt, ref, job, ready, resumable, step, seen, op, alone>>

SessionStatus == {"created", "sending", "queued", "running", "interrupted"} \cup TERMINAL_STATUSES

Preflights == [intent : Intents, saw : Probes, allowed : BOOLEAN, expired : BOOLEAN]

TypeOK ==
    /\ asked \in Intents /\ preflights \subseteq Preflights /\ skipped \in BOOLEAN
    /\ status \in SessionStatus \cup {"none"}
    /\ attempt \in 0..MaxAttempts
    /\ ref \in [Sides -> 0..MaxAttempts]
    /\ job \in [Sides \X Attempts -> JobStatus \cup {"none"}]
    /\ ready \subseteq Attempts
    /\ resumable \subseteq Sides \X Attempts
    /\ step \in [Attempts -> InProgress \cup {"idle", "done", "stopped", "gone"}]
    /\ seen \in [Attempts -> {"nothing", "over", "unready", "ready"}]
    /\ op \in {"none", "queued", "running"} \cup TERMINAL_STATUSES
    /\ alone \in BOOLEAN

Init ==
    /\ asked \in Intents /\ preflights = {} /\ skipped = FALSE
    /\ status = "none" /\ op = "none"
    /\ attempt = 0
    /\ ref = [d \in Sides |-> 0]
    /\ job = [j \in Sides \X Attempts |-> "none"]
    /\ ready = {} /\ resumable = {}
    /\ step = [a \in Attempts |-> "idle"]
    /\ seen = [a \in Attempts |-> "nothing"]
    /\ alone = TRUE

Live(j) == job[j] \in NON_TERMINAL_STATUSES
Ended(j) == job[j] \in TERMINAL_STATUSES
Referenced == {<<d, ref[d]>> : d \in {e \in Sides : ref[e] # 0}}

operation_status_from_transfer(s) ==
    IF s \in {"created", "queued"} THEN "queued"
    ELSE IF s \in TERMINAL_STATUSES THEN s
    ELSE "running"

CancelledStatus(s) ==
    IF s = "queued" THEN "cancelled" ELSE IF s = "running" THEN "cancelling" ELSE s

\* cancel_job on each job of S; any other status refuses, and the refusal is ignored.
Cancelled(jobs, S) ==
    [j \in DOMAIN jobs |-> IF j \in S THEN CancelledStatus(jobs[j]) ELSE jobs[j]]

CancelJobs(S) == job' = Cancelled(job, S)

\* The statuses of the two jobs, when the session names both.
Pair(jobs) == {jobs[j] : j \in Referenced}
NamesBoth == \A d \in Sides : ref[d] # 0

\* _select_transfer_failure_job ranks error texts: either failed job may be chosen.
FailureStatuses(jobs, verdict) ==
    {IF j \in resumable THEN "interrupted" ELSE verdict :
        j \in {i \in Referenced : jobs[i] \in {"failed", "timeout"}}}

\* Mutant: a job that timed out is not looked for.
RefreshNoTimeout(jobs, s) ==
    LET pair == Pair(jobs)
    IN  IF ~NamesBoth THEN {s}
        ELSE IF "failed" \in pair THEN FailureStatuses(jobs, "failed")
        ELSE IF "cancelled" \in pair THEN {"cancelled"}
        ELSE IF pair = {"succeeded"} THEN {"succeeded"}
        ELSE IF pair \cap {"running", "claimed"} # {} THEN {"running"}
        ELSE IF pair \cap {"queued", "created"} # {} THEN {"queued"}
        ELSE {s}

\* The statuses _refresh_status_from_jobs can write over s.
RefreshedStatus(jobs, s) ==
    LET pair == Pair(jobs)
    IN  IF ~NamesBoth THEN {s}
        ELSE IF "failed" \in pair THEN FailureStatuses(jobs, "failed")
        ELSE IF "timeout" \in pair THEN FailureStatuses(jobs, "timeout")
        ELSE IF "cancelled" \in pair THEN {"cancelled"}
        ELSE IF pair = {"succeeded"} THEN {"succeeded"}
        ELSE IF pair \cap {"running", "claimed"} # {} THEN {"running"}
        ELSE IF pair \cap {"queued", "created"} # {} THEN {"queued"}
        ELSE {s}

\* The jobs _refresh_status_from_jobs asks to cancel.
Peers == IF NamesBoth /\ Pair(job) \cap {"failed", "timeout", "cancelled"} # {}
         THEN Referenced ELSE {}

---------------------------------------------------------------------------
\* The request of an attempt.

Goes(a, next) == step' = [step EXCEPT ![a] = next]

\* The file and the nodes are looked at one after the other; the time the row is good for
\* runs from before.  Without every slot, or a target that can be had, no row is made.
preflight(i) ==
    /\ status = "none" /\ Cardinality(preflights) < MaxPreflights
    /\ Complete(i) /\ _normalize_transfer_target(i)
    /\ \E p \in Probes, expired \in BOOLEAN :
        preflights' = preflights \cup
            {[intent |-> i, saw |-> p, allowed |-> _transfer_preflight_failures(i, p) = {},
              expired |-> expired]}
    /\ UNCHANGED <<asked, skipped, status, attempt, ref, job, ready, resumable, step, seen, op, alone>>

Expire(p) ==
    /\ status = "none" /\ ~p.expired
    /\ preflights' = (preflights \ {p}) \cup {[p EXCEPT !.expired = TRUE]}
    /\ UNCHANGED <<asked, skipped, status, attempt, ref, job, ready, resumable, step, seen, op, alone>>

\* A request that gives a reason may skip it, whatever was looked at before.
_verify_preflight(skip) ==
    \/ skip
    \/ \E p \in preflights : ~p.expired /\ p.intent = asked /\ p.allowed

create(skip) ==
    /\ status = "none"
    /\ asked.apart /\ Complete(asked) /\ _normalize_transfer_target(asked)
    /\ _verify_preflight(skip)
    /\ status' = "created"
    /\ attempt' = 1 /\ skipped' = skip /\ preflights' = {}
    /\ Goes(1, "sending")
    /\ UNCHANGED <<asked, ref, job, ready, resumable, seen, op, alone>>

NextAttempt(a) ==
    /\ a = attempt + 1 /\ attempt # 0
    /\ attempt' = a
    /\ status' = "created"
    /\ Goes(a, "sending")
    /\ alone' = (alone /\ \A b \in Attempts : step[b] \notin InProgress)
    /\ UNCHANGED <<asked, preflights, skipped, ref, job, ready, resumable, seen, op>>

\* Refreshes first; the new attempt keeps the references to the old jobs.
resume(a) ==
    /\ "interrupted" \in RefreshedStatus(job, status)
    /\ Referenced \cap resumable # {}
    /\ \A j \in Referenced : Ended(j)
    /\ NextAttempt(a)

\* create_for_transfer when the request returns: an operation is made only once.
Return(a, result) ==
    /\ Goes(a, "done")
    /\ status' = result
    /\ op' = IF op = "none" THEN operation_status_from_transfer(result) ELSE op

\* The key node:<id>:transfer is held by every live job of that side.
LockFree(d) == \A a \in Attempts : ~Live(<<d, a>>)

InvokeSend(a) ==
    /\ step[a] = "sending"
    /\ \/ /\ LockFree("send")
          /\ job' = [job EXCEPT ![<<"send", a>>] = "queued"]
          /\ Goes(a, "sent")
          /\ UNCHANGED <<status, op>>
       \/ /\ Return(a, "failed")
          /\ UNCHANGED job
    /\ UNCHANGED <<asked, preflights, skipped, attempt, ref, ready, resumable, seen, alone>>

\* Mutant: the sender is not written to the session.
CommitSendUnnamed(a) ==
    /\ step[a] = "sent"
    /\ status' = "sending"
    /\ Goes(a, IF a = 1 THEN "starting" ELSE "waiting")
    /\ UNCHANGED <<asked, preflights, skipped, attempt, ref, job, ready, resumable, seen, op, alone>>

\* Only create waits for the sender to start.
CommitSend(a) ==
    /\ step[a] = "sent"
    /\ ref' = [ref EXCEPT !["send"] = a]
    /\ status' = "sending"
    /\ Goes(a, IF a = 1 THEN "starting" ELSE "waiting")
    /\ UNCHANGED <<asked, preflights, skipped, attempt, job, ready, resumable, seen, op, alone>>

wait_for_job_start(a) ==
    /\ step[a] = "starting"
    /\ IF Ended(<<"send", a>>)
       THEN Return(a, "failed")
       ELSE Goes(a, "waiting") /\ UNCHANGED <<status, op>>
    /\ UNCHANGED <<asked, preflights, skipped, attempt, ref, job, ready, resumable, seen, alone>>

\* Returns when the sender is ready or over, or at the deadline.
wait_for_sender_ready(a) ==
    /\ step[a] = "waiting"
    /\ Goes(a, "checked")
    /\ seen' = [seen EXCEPT ![a] = IF Ended(<<"send", a>>) THEN "over"
                                   ELSE IF a \in ready THEN "ready" ELSE "unready"]
    /\ UNCHANGED <<asked, preflights, skipped, status, attempt, ref, job, ready, resumable, op, alone>>

\* The sender ended, or is not ready at the deadline: it is cancelled.
GiveUp(a) ==
    /\ step[a] = "checked" /\ seen[a] # "ready"
    /\ CancelJobs(IF seen[a] = "over" THEN {} ELSE {<<"send", a>>})
    /\ Return(a, "failed")
    /\ UNCHANGED <<asked, preflights, skipped, attempt, ref, ready, resumable, seen, alone>>

InvokeReceive(a) ==
    /\ step[a] = "checked" /\ seen[a] = "ready"
    /\ \/ /\ LockFree("receive")
          /\ job' = [job EXCEPT ![<<"receive", a>>] = "queued"]
          /\ Goes(a, "received")
          /\ UNCHANGED <<status, op>>
       \/ /\ CancelJobs({<<"send", a>>})
          /\ Return(a, "failed")
    /\ UNCHANGED <<asked, preflights, skipped, attempt, ref, ready, resumable, seen, alone>>

CommitReceive(a) ==
    /\ step[a] = "received"
    /\ ref' = [ref EXCEPT !["receive"] = a]
    /\ Return(a, "running")
    /\ UNCHANGED <<asked, preflights, skipped, attempt, job, ready, resumable, seen, alone>>

\* The request is cancelled while create waits.
cancel_transfer_create_inflight ==
    /\ step[1] \in {"starting", "waiting"}
    /\ CancelJobs({<<"send", 1>>})
    /\ status' = "cancelled"
    /\ Goes(1, "stopped")
    /\ UNCHANGED <<asked, preflights, skipped, attempt, ref, ready, resumable, seen, op, alone>>

\* The request is cancelled anywhere else, or the Center dies: nothing is undone.
RequestLost(a) ==
    /\ step[a] \in InProgress
    /\ Goes(a, "gone")
    /\ UNCHANGED <<asked, preflights, skipped, status, attempt, ref, job, ready, resumable, seen, op, alone>>

---------------------------------------------------------------------------
\* Requests about the session and its operation.

\* The operation is projected again when the request came through it.
Project(synced) ==
    /\ synced => op # "none"
    /\ op' = IF synced THEN operation_status_from_transfer(status') ELSE op

\* transfer.status, or operation.status (synced).
RefreshSession(synced) ==
    /\ status # "none"
    /\ status' \in RefreshedStatus(job, status)
    /\ CancelJobs(Peers)
    /\ Project(synced)
    /\ UNCHANGED <<asked, preflights, skipped, attempt, ref, ready, resumable, step, seen, alone>>

\* The operation scanner projects the operations that are not over.
SyncActiveOperation == op \notin TERMINAL_STATUSES /\ RefreshSession(TRUE)

\* transfer.cancel, or operation.cancel (synced): ends with a refresh.
cancel(synced) ==
    /\ status # "none"
    /\ status' \in RefreshedStatus(Cancelled(job, Referenced), "cancelled")
    /\ CancelJobs(Referenced)
    /\ Project(synced)
    /\ UNCHANGED <<asked, preflights, skipped, attempt, ref, ready, resumable, step, seen, alone>>

---------------------------------------------------------------------------
\* The nodes: a job moves along the state machine; only cancel_job cancels it.

NodeStep(j, s) ==
    /\ is_valid_transition(job[j], s)
    /\ <<job[j], s>> \notin {<<"queued", "cancelled">>, <<"running", "cancelling">>}
    /\ job' = [job EXCEPT ![j] = s]
    /\ \/ UNCHANGED resumable
       \/ s \in {"failed", "timeout"} /\ resumable' = resumable \cup {j}
    /\ UNCHANGED <<asked, preflights, skipped, status, attempt, ref, ready, step, seen, op, alone>>

SenderReady(a) ==
    /\ job[<<"send", a>>] \in {"running", "cancelling"}
    /\ a \notin ready
    /\ ready' = ready \cup {a}
    /\ UNCHANGED <<asked, preflights, skipped, status, attempt, ref, job, resumable, step, seen, op, alone>>

---------------------------------------------------------------------------
RequestStep(a) ==
    \/ InvokeSend(a) \/ CommitSend(a) \/ wait_for_job_start(a) \/ wait_for_sender_ready(a)
    \/ GiveUp(a) \/ InvokeReceive(a) \/ CommitReceive(a)

JobMoves(j) == \E s \in JobStatus : NodeStep(j, s)

Next ==
    \/ \E skip \in BOOLEAN : create(skip)
    \/ \E i \in Intents : preflight(i)
    \/ \E p \in preflights : Expire(p)
    \/ \E a \in Attempts : resume(a) \/ RequestStep(a) \/ RequestLost(a) \/ SenderReady(a)
    \/ cancel_transfer_create_inflight
    \/ SyncActiveOperation
    \/ \E synced \in BOOLEAN : RefreshSession(synced) \/ cancel(synced)
    \/ \E j \in Sides \X Attempts : JobMoves(j)

Spec == Init /\ [][Next]_vars

\* Requests run to their end, the operation scanner comes round, and the nodes and
\* the lease scanner bring every job to an end.
FairSpec ==
    /\ Spec
    /\ \A a \in Attempts : WF_vars(RequestStep(a))
    /\ WF_vars(SyncActiveOperation)
    /\ \A j \in Sides \X Attempts : WF_vars(JobMoves(j))

---------------------------------------------------------------------------
\* Properties.

\* A transfer that does not say of itself that nothing was looked at was looked at: for the same
\* intent, within its time, by answers of both nodes that leave nothing open.
CreatedOnFacts ==
    [][status = "none" /\ status' # "none" =>
        skipped' \/ \E p \in preflights :
            ~p.expired /\ p.intent = asked /\ Ready(asked, p.saw)]_vars

Lost == \E a \in Attempts : step[a] = "gone"
Quiet == \A a \in Attempts : step[a] \notin InProgress

\* Until the request that made it ends, a job may be known only to that request;
\* after that the session names every live job, so that a cancel or a refresh can
\* reach it.  Only a request that was lost leaves one behind.
EveryJobReachable ==
    alone => \A j \in Sides \X Attempts :
        Live(j) /\ step[j[2]] \notin InProgress \cup {"gone"} =>
            j \in Referenced

\* An operation that is not over ends, or its session comes to wait for a resume,
\* unless a request was lost: then the session may name one job and never be refreshed.
OperationSettles ==
    op \in {"queued", "running"}
        ~> (op \in TERMINAL_STATUSES \/ status = "interrupted" \/ Lost)

=============================================================================
