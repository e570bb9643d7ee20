-------------------------- MODULE JobStatusMachine --------------------------
(***************************************************************************)
(* The status of a Job and the transitions the centralised state machine   *)
(* allows (services/job_state_machine.py).  Pure operators, no variables:  *)
(* every module about jobs is built on them.                               *)
(***************************************************************************)
EXTENDS Naturals

TERMINAL_STATUSES == {"succeeded", "failed", "cancelled", "timeout"}

\* Delivered to a node and not finished: the statuses the lease scanner looks at.
InFlightStatuses == {"claimed", "running", "cancelling"}

NON_TERMINAL_STATUSES == {"created", "queued"} \cup InFlightStatuses

JobStatus == NON_TERMINAL_STATUSES \cup TERMINAL_STATUSES

\* Mutant: a cancelling job may still succeed.
CancelMayLose ==
    {<<"created", "queued">>,
     <<"queued", "claimed">>, <<"queued", "cancelled">>,
     <<"claimed", "running">>, <<"claimed", "timeout">>,
     <<"running", "succeeded">>, <<"running", "failed">>,
     <<"running", "cancelling">>, <<"running", "timeout">>,
     <<"cancelling", "succeeded">>,
     <<"cancelling", "cancelled">>, <<"cancelling", "failed">>, <<"cancelling", "timeout">>}

VALID_TRANSITIONS ==
    {<<"created", "queued">>,
     <<"queued", "claimed">>, <<"queued", "cancelled">>,
     <<"claimed", "running">>, <<"claimed", "timeout">>,
     <<"running", "succeeded">>, <<"running", "failed">>,
     <<"running", "cancelling">>, <<"running", "timeout">>,
     <<"cancelling", "cancelled">>, <<"cancelling", "failed">>, <<"cancelling", "timeout">>}

is_valid_transition(current, target) == <<current, target>> \in VALID_TRANSITIONS

(***************************************************************************)
(* _reconcile_to_terminal walks a job along legal transitions towards the  *)
(* terminal status a daemon reports: the status it stands in just before   *)
(* the last transition, and whether that last transition is legal.         *)
(***************************************************************************)
ReconcileStage(s, target) ==
    LET claimed == IF s \in {"created", "queued"} THEN "claimed" ELSE s
        started == IF claimed = "claimed" /\ target # "timeout" THEN "running" ELSE claimed
    IN  IF target = "cancelled" /\ started = "running" THEN "cancelling" ELSE started

CanReconcile(s, target) == is_valid_transition(ReconcileStage(s, target), target)

\* How far a job has come; a legal life of a job never lowers it.
Progress(s) ==
    IF s = "none" THEN 0
    ELSE IF s = "created" THEN 1
    ELSE IF s = "queued" THEN 2
    ELSE IF s = "claimed" THEN 3
    ELSE IF s = "running" THEN 4
    ELSE IF s = "cancelling" THEN 5
    ELSE 6
=============================================================================
