----------------------------- MODULE Operation -----------------------------
(***************************************************************************)
(* The operation of a job: the row a user or an Agent waits on, its event  *)
(* log and the notification that tells the Agent it ended                  *)
(* (services/operation_service.py, operation_scanner.py).  The operation   *)
(* has no life of its own: every status request, every cancel and every    *)
(* round of the scanner loads the row, loads the job, and writes what the  *)
(* job's status projects to.  Each does so in a database session of its    *)
(* own and commits at the end, so what one has read another may have       *)
(* changed.  What a session changed of the row is flushed before it looks  *)
(* for the last event and the notification, and the row is its own from    *)
(* then to its commit; a cancel that changes nothing takes no such turn.   *)
(* The scanner is one loop with one session; the requests share the rest.  *)
(*                                                                         *)
(* What a session is doing:                                                *)
(*   "asked", "cancel"       the operation is loaded                       *)
(*   "projected", "ordered"  the job is loaded too                         *)
(*   "stuck"                 the scanner found the operation not moving    *)
(*   "writing", "cancelling", "reporting"   the change is flushed, the     *)
(*                           last event and the notifications are loaded   *)
(*   "adding"                they are loaded, and nothing is to change     *)
(***************************************************************************)
EXTENDS JobStatusMachine, Sequences, FiniteSets, FiniteSetsExt

CONSTANTS
    DbSessions,  \* database sessions that can be open at once, numbered, 0 the scanner's
    Ends,        \* bound: how the job may end
    MaxCancels,  \* bound: cancel requests in a behaviour
    Slow         \* whether the operation may go an hour without an update

ASSUME OperationAssumption ==
    DbSessions \subseteq Nat /\ Ends \subseteq TERMINAL_STATUSES /\ MaxCancels \in Nat /\ Slow \in BOOLEAN

VARIABLES
    job,      \* Job.status
    op,       \* Operation.status, "none" while there is no row
    log,      \* operation_events in the order they were committed
    notes,    \* operation_status of each agent_operation_notifications row
    stuck,    \* metadata.stuck_reported_at is set
    doing,    \* what each session is doing
    read,     \* what it has loaded: operation, job, max(seq), notifications
    cancels,
    alone     \* history: no two sessions were ever open together

vars == <<job, op, log, notes, stuck, doing, read, cancels, alone>>

OpStatus == {"queued", "running"} \cup TERMINAL_STATUSES
Loaded == [op : OpStatus \cup {"none"}, job : JobStatus, seq : Nat, notes : Nat]
Event == [type : OpStatus \cup {"created", "cancel", "stuck"}, status : OpStatus, seq : Nat]

TypeOK ==
    /\ job \in JobStatus
    /\ op \in OpStatus \cup {"none"}
    /\ log \in Seq(Event)
    /\ notes \in Seq(TERMINAL_STATUSES)
    /\ stuck \in BOOLEAN /\ alone \in BOOLEAN
    /\ doing \in [DbSessions -> {"idle", "asked", "cancel", "projected", "ordered", "stuck",
                              "writing", "cancelling", "reporting", "adding"}]
    /\ read \in [DbSessions -> Loaded]
    /\ cancels \in 0..MaxCancels

Nothing == [op |-> "none", job |-> "queued", seq |-> 0, notes |-> 0]

\* The job is committed before its operation is made.
Init ==
    /\ job = "queued" /\ op = "none"
    /\ log = <<>> /\ notes = <<>>
    /\ stuck = FALSE /\ alone = TRUE
    /\ doing = [s \in DbSessions |-> "idle"]
    /\ read = [s \in DbSessions |-> Nothing]
    /\ cancels = 0

operation_status_from_job(s) ==
    IF s \in {"created", "queued"} THEN "queued"
    ELSE IF s \in TERMINAL_STATUSES THEN s
    ELSE "running"

\* From the copy the creating request holds, whatever the job does meanwhile.
create_for_job ==
    /\ op = "none"
    /\ op' = "queued"
    /\ log' = Append(log, [type |-> "created", status |-> "queued", seq |-> Len(log) + 1])
    /\ UNCHANGED <<job, notes, stuck, doing, read, cancels, alone>>

ScannerSession == 0
RequestSessions == DbSessions \ {ScannerSession}

\* The pool hands a request the first session that is not in use.
FirstFree(s) == \A r \in RequestSessions : r < s => doing[r] # "idle"

Open(s, what) ==
    /\ op # "none" /\ doing[s] = "idle"
    /\ doing' = [doing EXCEPT ![s] = what]
    /\ read' = [read EXCEPT ![s].op = op]
    /\ alone' = (alone /\ \A r \in DbSessions : doing[r] = "idle")
    /\ UNCHANGED <<job, op, log, notes, stuck>>

Close(s) ==
    /\ doing' = [doing EXCEPT ![s] = "idle"]
    /\ read' = [read EXCEPT ![s] = Nothing]

StatusRequest(s) == s \in RequestSessions /\ FirstFree(s) /\ Open(s, "asked") /\ UNCHANGED cancels

CancelRequest(s) ==
    /\ cancels < MaxCancels
    /\ s \in RequestSessions /\ FirstFree(s)
    /\ Open(s, "cancel")
    /\ cancels' = cancels + 1

\* Mutant: only the operations of jobs that wait are looked at.
SyncQueuedOperations(s) ==
    s = ScannerSession /\ op = "queued" /\ Open(s, "asked") /\ UNCHANGED cancels

\* The scanner reads the operations that are not over every ten seconds.
SyncActiveOperations(s) ==
    s = ScannerSession /\ op \notin TERMINAL_STATUSES /\ Open(s, "asked") /\ UNCHANGED cancels

Load(s, what) ==
    /\ doing' = [doing EXCEPT ![s] = what]
    /\ read' = [read EXCEPT ![s].job = job]

\* status(): with nothing new to write the session is done.
Project(s) ==
    /\ doing[s] = "asked"
    /\ IF operation_status_from_job(job) = read[s].op THEN Close(s) ELSE Load(s, "projected")
    /\ UNCHANGED <<job, op, log, notes, stuck, cancels, alone>>

\* A job that is claimed or already cancelling refuses and the request fails.
CancelJob(s) ==
    /\ doing[s] = "cancel"
    /\ \/ job \notin {"claimed", "cancelling"} /\ Load(s, "ordered")
       \/ job \in {"claimed", "cancelling"} /\ Close(s)
    /\ UNCHANGED <<job, op, log, notes, stuck, cancels, alone>>

CancelledJob(s) ==
    IF s = "queued" THEN "cancelled" ELSE IF s = "running" THEN "cancelling" ELSE s

\* Mutant: nobody waits for the row.
AnyTime == TRUE

\* A flushed UPDATE keeps the operation's row to its session.
RowIsFree == \A s \in DbSessions : doing[s] \notin {"writing", "cancelling", "reporting"}

\* So does the one of a cancel with the job's row.
JobIsFree ==
    \A s \in DbSessions : doing[s] = "cancelling" => CancelledJob(read[s].job) = read[s].job

LastSeq == Max({0} \cup {log[i].seq : i \in DOMAIN log})

\* append_event and enqueue_terminal_event look for what is there.
LookUp(s, what) ==
    /\ doing' = [doing EXCEPT ![s] = what]
    /\ read' = [read EXCEPT ![s].seq = LastSeq, ![s].notes = Len(notes)]

\* The query flushes the change first, which waits for the row.
Flush(s, what) == RowIsFree /\ LookUp(s, what)

\* An event is due when the status is not the one this session loaded.
FlushStatus(s) ==
    /\ doing[s] = "projected"
    /\ Flush(s, "writing")
    /\ UNCHANGED <<job, op, log, notes, stuck, cancels, alone>>

\* cancel() writes the job, projects it, and appends operation.cancelled whatever it is;
\* with nothing to write there is nothing to wait for.
FlushCancel(s) ==
    /\ doing[s] = "ordered"
    /\ LET target == CancelledJob(read[s].job)
       IN  IF target = read[s].job /\ operation_status_from_job(target) = read[s].op
           THEN LookUp(s, "adding")
           ELSE Flush(s, "cancelling")
    /\ UNCHANGED <<job, op, log, notes, stuck, cancels, alone>>

\* One notification is inserted or brought up to date; the query would raise on two.
Enqueued(s, status) ==
    IF status \notin TERMINAL_STATUSES THEN notes
    ELSE IF read[s].notes = 0 THEN Append(notes, status)
    ELSE [notes EXCEPT ![1] = status]

\* Mutant: the number of the last event is used again.
append_event_again(s, type, status) ==
    /\ log' = Append(log, [type |-> type, status |-> status, seq |-> read[s].seq])
    /\ notes' = Enqueued(s, status)

append_event(s, type, status) ==
    /\ log' = Append(log, [type |-> type, status |-> status, seq |-> read[s].seq + 1])
    /\ notes' = Enqueued(s, status)

CommitStatus(s) ==
    LET new == operation_status_from_job(read[s].job)
    IN  /\ doing[s] = "writing"
        /\ op' = new
        /\ append_event(s, new, new)
        /\ Close(s)
        /\ UNCHANGED <<job, stuck, cancels, alone>>

\* Only what the session changed is in its UPDATE.
CommitCancel(s) ==
    LET target == CancelledJob(read[s].job)
        new == operation_status_from_job(target)
    IN  /\ doing[s] \in {"cancelling", "adding"}
        /\ job' = IF target = read[s].job THEN job ELSE target
        /\ op' = IF new = read[s].op THEN op ELSE new
        /\ append_event(s, "cancel", new)
        /\ Close(s)
        /\ UNCHANGED <<stuck, cancels, alone>>

\* _handle_stale_operations, for an operation not updated for an hour.
FindStuck(s) ==
    /\ s = ScannerSession /\ Slow /\ ~stuck
    /\ op \in {"queued", "running"}
    /\ Open(s, "stuck")
    /\ UNCHANGED cancels

FlushStuck(s) ==
    /\ doing[s] = "stuck"
    /\ Flush(s, "reporting")
    /\ UNCHANGED <<job, op, log, notes, stuck, cancels, alone>>

ReportStuck(s) ==
    /\ doing[s] = "reporting"
    /\ stuck' = TRUE
    /\ append_event(s, "stuck", read[s].op)
    /\ Close(s)
    /\ UNCHANGED <<job, op, cancels, alone>>

\* The node, the lease scanner and the liveness scanner, which cancels the queued jobs of
\* a node that is gone, move the job; a running one is cancelled by CommitCancel only.
JobMoves ==
    /\ JobIsFree
    /\ \E s \in JobStatus :
        /\ is_valid_transition(job, s)
        /\ <<job, s>> # <<"running", "cancelling">>
        /\ s \in TERMINAL_STATUSES => s \in Ends
        /\ job' = s
    /\ UNCHANGED <<op, log, notes, stuck, doing, read, cancels, alone>>

Step(s) ==
    \/ Project(s) \/ FlushStatus(s) \/ CommitStatus(s)
    \/ CancelJob(s) \/ FlushCancel(s) \/ CommitCancel(s)
    \/ FlushStuck(s) \/ ReportStuck(s)

Next ==
    \/ create_for_job \/ JobMoves
    \/ \E s \in DbSessions :
        StatusRequest(s) \/ CancelRequest(s) \/ SyncActiveOperations(s) \/ FindStuck(s) \/ Step(s)

Spec == Init /\ [][Next]_vars

\* Sessions run to their end, the scanner comes round, and the job ends.
FairSpec ==
    /\ Spec
    /\ WF_vars(JobMoves)
    /\ \A s \in DbSessions : WF_vars(Step(s))
    /\ \A s \in DbSessions : WF_vars(SyncActiveOperations(s))

---------------------------------------------------------------------------
\* Properties.

\* However sessions overlap, an operation that stands as ended has one notification, so a
\* waiting Agent can learn that it ended, and no operation ever has two: no constraint of
\* the table says so, and a second one would make every later end of it raise.
NotedOnce ==
    /\ Len(notes) <= 1
    /\ op \in TERMINAL_STATUSES => notes # <<>>

Rank(status) == IF status = "queued" THEN 1 ELSE IF status = "running" THEN 2 ELSE 3

\* operation.cancelled of what is over, for which no session waits its turn.
LateCancel(event) == event.type = "cancel" /\ event.status \in TERMINAL_STATUSES

\* However sessions overlap, events are numbered upwards in the order of their commits, but
\* for a cancel of what is over.  With one session at a time they are numbered without a
\* gap, their statuses never go back, the last one is the status of the row, and the
\* notification of an end says how it ended.
LogTellsTheLife ==
    /\ \A i, k \in DOMAIN log :
          i < k /\ ~LateCancel(log[i]) /\ ~LateCancel(log[k]) => log[i].seq < log[k].seq
    /\ alone =>
        /\ \A i \in DOMAIN log : log[i].seq = i
        /\ \A i, k \in DOMAIN log : i < k => Rank(log[i].status) <= Rank(log[k].status)
        /\ log # <<>> => log[Len(log)].status = op
        /\ notes = IF op \in TERMINAL_STATUSES THEN <<op>> ELSE <<>>

\* With one session at a time, once operation.cancelled is in the log of a job that
\* was running, the operation never comes to have succeeded.
CancelledMeansNoSuccess ==
    alone /\ (\E i \in DOMAIN log : log[i].type = "cancel" /\ log[i].status # "succeeded")
        => op # "succeeded"

\* The operation of a job ends for good: a stale session that writes running over the
\* end is repaired by the scanner.
OperationSettles == <>[](op \in TERMINAL_STATUSES \cup {"none"})
=============================================================================
