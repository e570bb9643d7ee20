------------------------------ MODULE Approval ------------------------------
(***************************************************************************)
(* One approval: the human gate of an L2 write operation.  Administrators  *)
(* approve, deny or approve-and-run it, executions consume it, a scanner   *)
(* expires it.  Every handler loads the row, decides on the copy it holds  *)
(* in its session and writes the status by primary key, without looking    *)
(* at the row again; consume_approval commits before the job exists.       *)
(*                                                                         *)
(* What a handler in progress is about to do:                              *)
(*   "approve", "approve-run", "deny", "expire"  decided, not committed    *)
(*   "granted"   approve-and-run: approved, not verified                   *)
(*   "verified"  the approval was found valid, the invocation inserted     *)
(*   "consumed"  the approval is consumed, the job not created             *)
(***************************************************************************)
EXTENDS Naturals, FiniteSets

CONSTANTS
    Requests,     \* handlers that can be in progress at once
    MaxRequests   \* bound: requests begun in a behaviour

ASSUME ApprovalAssumption == MaxRequests \in Nat

VARIABLES
    status,    \* ApprovalRequest.status as committed, "none" while there is no row
    overdue,   \* expires_at has passed
    doing,     \* what each handler is about to do, "idle" when there is none
    jobs,      \* jobs created with this approval
    stranded,  \* invocations left running without a job
    alone,     \* history: no two handlers were ever in progress together
    granted,   \* history: an approval was committed
    refused,   \* history: a denial was committed
    begun

vars == <<status, overdue, doing, jobs, stranded, alone, granted, refused, begun>>

Decisions == {"approve", "approve-run", "deny"}
FinalStatuses == {"denied", "expired", "consumed"}
Quiet == \A r \in Requests : doing[r] = "idle"

TypeOK ==
    /\ status \in {"none", "pending", "approved"} \cup FinalStatuses
    /\ overdue \in BOOLEAN /\ alone \in BOOLEAN
    /\ granted \in BOOLEAN /\ refused \in BOOLEAN
    /\ doing \in [Requests -> Decisions \cup {"idle", "expire", "granted", "verified", "consumed"}]
    /\ begun \in 0..MaxRequests
    /\ jobs \in 0..MaxRequests
    /\ stranded \in 0..MaxRequests

Init ==
    /\ status = "none"
    /\ overdue = FALSE
    /\ doing = [r \in Requests |-> "idle"]
    /\ jobs = 0 /\ stranded = 0 /\ begun = 0
    /\ alone = TRUE /\ granted = FALSE /\ refused = FALSE

create_approval ==
    /\ status = "none"
    /\ status' = "pending"
    /\ UNCHANGED <<overdue, doing, jobs, stranded, alone, granted, refused, begun>>

Begin(r, stage) ==
    /\ doing[r] = "idle"
    /\ begun < MaxRequests
    /\ begun' = begun + 1
    /\ alone' = (alone /\ Quiet)
    /\ doing' = [doing EXCEPT ![r] = stage]

\* An endpoint loads the row and finds it pending.  Denying (which cancelling the
\* approval's operation does too) does not look at the expiry.
Decide(r, decision) ==
    /\ status = "pending"
    /\ Begin(r, IF overdue /\ decision # "deny" THEN "expire" ELSE decision)
    /\ UNCHANGED <<status, overdue, jobs, stranded, granted, refused>>

\* An execution with an approval_id: verify_approval on the row it loads.
Verify(r) ==
    /\ status = "approved" /\ ~overdue
    /\ Begin(r, "verified")
    /\ UNCHANGED <<status, overdue, jobs, stranded, granted, refused>>

\* approve-and-run verifies the copy its own session approved.
VerifyOwn(r) ==
    /\ doing[r] = "granted" /\ ~overdue
    /\ doing' = [doing EXCEPT ![r] = "verified"]
    /\ UNCHANGED <<status, overdue, jobs, stranded, alone, granted, refused, begun>>

\* approve_approval, deny_approval: the UPDATE and its commit.
CommitDecision(r) ==
    /\ doing[r] \in {"approve", "approve-run", "deny", "expire"}
    /\ status' = IF doing[r] = "deny" THEN "denied"
                 ELSE IF doing[r] = "expire" THEN "expired"
                 ELSE "approved"
    /\ granted' = (granted \/ doing[r] \in {"approve", "approve-run"})
    /\ refused' = (refused \/ doing[r] = "deny")
    /\ doing' = [doing EXCEPT ![r] = IF @ = "approve-run" THEN "granted" ELSE "idle"]
    /\ UNCHANGED <<overdue, jobs, stranded, alone, begun>>

\* consume_approval commits, and with it the running invocation.
Consume(r) ==
    /\ doing[r] = "verified"
    /\ status' = "consumed"
    /\ doing' = [doing EXCEPT ![r] = "consumed"]
    /\ UNCHANGED <<overdue, jobs, stranded, alone, granted, refused, begun>>

\* create_job, which a resource lock can refuse; then only the lock rows and the job
\* are rolled back.
CreateJob(r) ==
    /\ doing[r] = "consumed"
    /\ doing' = [doing EXCEPT ![r] = "idle"]
    /\ \/ jobs' = jobs + 1 /\ UNCHANGED stranded
       \/ stranded' = stranded + 1 /\ UNCHANGED jobs
    /\ UNCHANGED <<status, overdue, alone, granted, refused, begun>>

\* The request dies or is refused on the way (the node is gone, the TTL is over).
Abort(r) ==
    /\ doing[r] # "idle"
    /\ doing' = [doing EXCEPT ![r] = "idle"]
    /\ stranded' = IF doing[r] = "consumed" THEN stranded + 1 ELSE stranded
    /\ UNCHANGED <<status, overdue, jobs, alone, granted, refused, begun>>

\* _scan_expired_approvals: one UPDATE of the pending rows.
ScanExpired ==
    /\ status = "pending" /\ overdue
    /\ status' = "expired"
    /\ UNCHANGED <<overdue, doing, jobs, stranded, alone, granted, refused, begun>>

TimePasses ==
    /\ status # "none" /\ ~overdue
    /\ overdue' = TRUE
    /\ UNCHANGED <<status, doing, jobs, stranded, alone, granted, refused, begun>>

Next ==
    \/ create_approval
    \/ \E r \in Requests :
        \/ \E decision \in Decisions : Decide(r, decision)
        \/ Verify(r)
        \/ VerifyOwn(r)
        \/ CommitDecision(r)
        \/ Consume(r)
        \/ CreateJob(r)
        \/ Abort(r)
    \/ ScanExpired
    \/ TimePasses

Spec == Init /\ [][Next]_vars
---------------------------------------------------------------------------
\* Properties.

\* No interleaving of handlers consumes an approval, or runs a job with it, that no
\* administrator's committed approval stands behind (verify_approval).
JobsAreGranted ==
    (jobs > 0 \/ \E r \in Requests : doing[r] \in {"granted", "verified", "consumed"}) => granted

\* Once the status is final and no handler holds an older copy of the row, it stays,
\* and no further job is created: every handler's guard refuses a final status.
FinalOnceQuiet ==
    [][Quiet /\ status \in FinalStatuses => Quiet' /\ status' = status /\ jobs' = jobs]_vars

\* As long as requests come one at a time an approval runs at most one job: Consume
\* marks it before the job exists.
UsedOnce == alone => jobs <= 1

\* As long as requests come one at a time a denied approval runs no job, and an
\* approval that was used is never denied.
DeniedNeverRuns == alone /\ refused => jobs = 0

=============================================================================
