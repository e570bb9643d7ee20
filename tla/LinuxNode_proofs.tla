-------------------------- MODULE LinuxNode_proofs --------------------------
(***************************************************************************)
(* Proofs about LinuxNode, for every finite set of jobs, every capacity    *)
(* and every bound on retries, restarts and crashes.                       *)
(***************************************************************************)
EXTENDS LinuxNode, FiniteSetTheorems, TLAPS

\* Statuses of a job no node knows of yet.
Waiting == {"none", "created", "queued"}

\* A request in progress belongs to the stage of execute_job that sends it.
CallsMatchTasks ==
    \A j \in Jobs : /\ call[j].kind = "accepted" => task[j] = "accepting"
                    /\ call[j].kind = "finished" => task[j] = "finishing"

\* A result is sent, recorded and stored only once there is one.
ResultsExist ==
    \A j \in Jobs :
        (task[j] \in {"finishing", "storing"} \/ call[j].kind = "finished"
            \/ <<"finished", j>> \in seen)
            => outcome[j] \in TERMINAL_STATUSES

\* Nothing has happened at the node to a job that was not delivered.
UntouchedWhileWaiting ==
    \A j \in Jobs : status[j] \in Waiting =>
        task[j] = "none" /\ runs[j] = 0 /\ outcome[j] = "none"

\* A job is not executed before job.accepted was sent, and has no result before the
\* execution ends.
FreshUntilExecuted ==
    \A j \in Jobs :
        /\ task[j] \in {"received", "accepting"} => runs[j] = 0
        /\ task[j] \in {"received", "accepting", "executing"} => outcome[j] = "none"

CenterTyped ==
    /\ status \in [Jobs -> JobStatus \cup {"none"}]
    /\ admitted \subseteq Jobs
    /\ \A j \in admitted : status[j] = "none"

\* The inductive invariant.  RunsOnce needs that the entries of running_jobs come
\* only from jobs that were still queued; OutcomeIsReal needs that a result is there
\* before the Center can record the message that carries it.
IInv ==
    /\ TypeOK
    /\ CenterTyped
    /\ CallsMatchTasks
    /\ ResultsExist
    /\ UntouchedWhileWaiting
    /\ FreshUntilExecuted
    /\ RunsOnce
    /\ OutcomeIsReal

\* What a step of the Center that delivers nothing does to the statuses.
Settling ==
    /\ CenterTyped'
    /\ \A j \in Jobs : status'[j] \in Waiting => status[j] \in Waiting
    /\ \A j \in Jobs : status'[j] \in {"succeeded", "failed"} =>
                            status'[j] = status[j] \/ status'[j] = outcome[j]

LEMMA StatusFacts ==
    /\ TERMINAL_STATUSES \subseteq JobStatus
    /\ {"queued", "claimed", "running", "cancelling", "cancelled", "timeout"} \subseteq JobStatus
    /\ TERMINAL_STATUSES \cap Waiting = {}
    /\ "none" \notin TERMINAL_STATUSES
    /\ {"succeeded", "failed", "cancelled", "timeout"} = TERMINAL_STATUSES
  BY DEF TERMINAL_STATUSES, JobStatus, NON_TERMINAL_STATUSES, InFlightStatuses, Waiting

\* The Center's own steps.
LEMMA CenterSettles ==
    ASSUME IInv, CenterStep \/ Center!RestartCenter
    PROVE  Settling
<1>. USE StatusFacts DEF IInv, CenterTyped
<1>1. ASSUME NEW j \in Jobs, Center!ResolveFunction(j) PROVE Settling
  BY <1>1 DEF Center!ResolveFunction, Settling
<1>2. ASSUME NEW j \in Jobs, Center!CreateJob(j) PROVE Settling
  BY <1>2 DEF Center!CreateJob, Center!Move, Settling, Waiting
<1>3. ASSUME NEW j \in Jobs, Center!CreateJobConflict(j) \/ Center!LeaseRunsOut(j)
      PROVE Settling
  BY <1>3 DEF Center!CreateJobConflict, Center!LeaseRunsOut, Settling
<1>4. ASSUME NEW j \in Jobs, Center!CancelJob(j) PROVE Settling
  BY <1>4 DEF Center!CancelJob, Center!Move, Settling, Waiting
<1>5. CASE Center!TimeoutScan
  BY <1>5 DEF Center!TimeoutScan, Center!Move, Center!Expired, Center!InFlight,
              Center!InFlightStatuses, Settling, Waiting
<1>6. CASE Center!ReleaseLocksForTerminalJobs \/ Center!RestartCenter
  BY <1>6 DEF Center!ReleaseLocksForTerminalJobs, Center!RestartCenter, Settling
<1>. QED BY <1>1, <1>2, <1>3, <1>4, <1>5, <1>6 DEF CenterStep

\* The handlers a message or the daemon's loop reaches, apart from the poll.
LEMMA HandlersSettle ==
    ASSUME IInv, NEW j \in Jobs, NEW kind \in Kinds,
           \/ Center!HandleHello(n) \/ Center!HandleHeartbeat(n) \/ Center!HandleJobLeaseRenew(j)
           \/ Handle(kind, j) /\ (kind = "finished" => outcome[j] \in TERMINAL_STATUSES)
           \/ UNCHANGED cvars
    PROVE  Settling
<1>. USE StatusFacts DEF IInv, CenterTyped
<1>1. CASE Center!HandleHello(n) \/ Center!HandleHeartbeat(n) \/ Center!HandleJobLeaseRenew(j)
  BY <1>1 DEF Center!HandleHello, Center!HandleHeartbeat, Center!HandleJobLeaseRenew, Settling
<1>2. CASE UNCHANGED cvars
  BY <1>2 DEF cvars, Settling
<1>3. CASE Center!HandleJobAccepted(j)
  BY <1>3 DEF Center!HandleJobAccepted, Center!Move, Settling, Waiting
<1>4. CASE outcome[j] \in TERMINAL_STATUSES /\ Center!HandleJobFinished(j, outcome[j])
  <2>1. status[j] # "none"
    BY <1>4 DEF Center!HandleJobFinished, Center!Open, Center!NON_TERMINAL_STATUSES,
                Center!InFlightStatuses
  <2>. QED BY <1>4, <2>1 DEF Center!HandleJobFinished, Center!Move, Settling
<1>. QED BY <1>1, <1>2, <1>3, <1>4 DEF Handle, cvars

---------------------------------------------------------------------------
\* The daemon's own steps, and the network's, on what the proof of the refinement
\* and the type invariant need.
Shape == TypeOK /\ ResultsExist

LEMMA CallFacts ==
    /\ \A kind \in Kinds \cup {"none"}, tries \in 0..MaxRetries, at \in {"client", "center"} :
        Request(kind, tries, at) \in Calls /\ Request(kind, tries, at).kind = kind
    /\ NoCall \in Calls /\ NoCall.kind = "none"
    /\ \A c \in Calls : c.kind \in Kinds \cup {"none"} /\ c.tries \in 0..MaxRetries
    /\ "none" \notin Kinds /\ Kinds = {"accepted", "finished"}
  BY NodeAssumption DEF NoCall, Calls, Kinds, Request

\* send() returning to execute_job.
LEMMA ReturnShape ==
    ASSUME Shape, NEW j \in Jobs, call[j].kind # "none", Return(j)
    PROVE  /\ task' \in [Jobs -> Stages]
           /\ call' \in [Jobs -> Calls]
           /\ token' = token /\ outcome' = outcome /\ confirmed' = confirmed
           /\ store' \in [Jobs -> {"none", "claimed", "running"} \cup TERMINAL_STATUSES]
           /\ runs' \in [Jobs -> 0..2]
           /\ \A i \in Jobs :
                (task'[i] \in {"finishing", "storing"} \/ call'[i].kind = "finished")
                => (task[i] \in {"finishing", "storing"} \/ call[i].kind = "finished")
<1>. USE CallFacts DEF Shape, TypeOK
<1>1. call' = [call EXCEPT ![j] = NoCall] /\ NoCall.kind = "none"
  BY DEF Return
<1>2. CASE call[j].kind = "accepted"
  BY <1>1, <1>2 DEF Return, Stages
<1>3. CASE call[j].kind # "accepted"
  <2>1. call[j].kind = "finished"
    BY <1>3 DEF Kinds, Calls
  <2>. QED BY <1>1, <1>3, <2>1 DEF Return, Stages
<1>. QED BY <1>2, <1>3

LEMMA TaskShape ==
    ASSUME Shape, NEW j \in Jobs, TaskStep(j)
    PROVE  Shape'
<1>. USE NodeAssumption, StatusFacts, CallFacts DEF Shape, TypeOK
<1>1. CASE Receive(j)
  <2>1. store' \in [Jobs -> {"none", "claimed", "running"} \cup TERMINAL_STATUSES]
    BY <1>1 DEF Receive
  <2>2. task' \in [Jobs -> Stages]
    BY <1>1 DEF Receive, Stages
  <2>3. call' \in [Jobs -> Calls]
    BY <1>1, Request("accepted", 0, "client") \in Calls DEF Receive, Send
  <2>4. \A i \in Jobs : /\ task'[i] \in {"finishing", "storing"} => task'[i] = task[i]
                        /\ call'[i].kind = "finished" => call'[i] = call[i]
    BY <1>1 DEF Receive, Send
  <2>. QED BY <1>1, <2>1, <2>2, <2>3, <2>4 DEF Receive, ResultsExist, net, life
<1>2. CASE Execute(j)
  BY <1>2 DEF Execute, Send, Stages, ResultsExist, net, life
<1>3. CASE StoreResult(j)
  BY <1>3 DEF StoreResult, Stages, ResultsExist, net, life
<1>4. CASE RenewLease(j)
  BY <1>4 DEF RenewLease, ResultsExist, net, life, tasks
<1>5. CASE NoAnswer(j)
  <2>1. CASE call[j].tries < MaxRetries
    <3>1. call[j] \in Calls /\ call[j].tries + 1 \in 0..MaxRetries
      BY <2>1
    <3>2. call' = [call EXCEPT ![j] = Request(call[j].kind, call[j].tries + 1, "client")]
      BY <1>5, <2>1 DEF NoAnswer
    <3>3. call' \in [Jobs -> Calls] /\ \A i \in Jobs : call'[i].kind = call[i].kind
      BY <3>1, <3>2
    <3>. QED BY <1>5, <2>1, <3>3 DEF NoAnswer, ResultsExist, net, life
  <2>2. CASE ~(call[j].tries < MaxRetries)
    <3>1. Return(j) /\ call[j].kind # "none" /\ UNCHANGED <<net, life>>
      BY <1>5, <2>2 DEF NoAnswer
    <3>. QED BY <3>1, ReturnShape DEF net, life, ResultsExist
  <2>. QED BY <2>1, <2>2
<1>6. CASE Arrive(j)
  BY <1>6 DEF Arrive, Id, Ids, ResultsExist, life
<1>7. CASE ArriveAgain(j)
  <2>1. Return(j) /\ call[j].kind # "none" /\ UNCHANGED <<net, life>>
    BY <1>7 DEF ArriveAgain
  <2>. QED BY <2>1, ReturnShape DEF net, life, ResultsExist
<1>8. ASSUME NEW kind \in Kinds, Process(kind, j) PROVE Shape'
  <2>1. /\ pending' \subseteq seen /\ handled' \subseteq seen
        /\ UNCHANGED <<seen, life>>
    BY <1>8 DEF Process, Handle
  <2>2. CASE UNCHANGED tasks
    BY <2>1, <2>2 DEF tasks, life, ResultsExist
  <2>3. CASE call[j].kind = kind /\ Return(j)
    <3>1. call[j].kind # "none"
      BY <2>3 DEF Kinds
    <3>. QED BY <2>1, <2>3, <3>1, ReturnShape DEF life, ResultsExist
  <2>. QED BY <1>8, <2>2, <2>3 DEF Process
<1>9. ASSUME NEW kind \in Kinds, HandlerFails(kind, j) PROVE Shape'
  BY <1>9 DEF HandlerFails, tasks, life, ResultsExist
<1>. QED BY <1>1, <1>2, <1>3, <1>4, <1>5, <1>6, <1>7, <1>8, <1>9 DEF TaskStep

LEMMA ShapeStep == Shape /\ [Next]_vars => Shape'
<1>. SUFFICES ASSUME Shape, [Next]_vars PROVE Shape'
  OBVIOUS
<1>. USE NodeAssumption, StatusFacts, CallFacts DEF Shape, TypeOK
<1>1. CASE Start
  BY <1>1 DEF Start, tasks, net, ResultsExist
<1>2. ASSUME NEW j \in Jobs, ReconcileEntry(j) PROVE Shape'
  BY <1>2 DEF ReconcileEntry, net, ResultsExist
<1>3. CASE Crash
  <2>1. crashes' \in 0..MaxCrashes
    BY <1>3 DEF Crash
  <2>2. \A j \in Jobs : call'[j] = NoCall /\ task'[j] = "none"
    BY <1>3 DEF Crash
  <2>3. call' \in [Jobs -> Calls] /\ task' \in [Jobs -> Stages]
    BY <1>3 DEF Crash, Stages
  <2>. QED BY <1>3, <2>1, <2>2, <2>3 DEF Crash, net, ResultsExist
<1>4. CASE Poll
  <2>1. \A j \in Jobs : task'[j] # task[j] => status[j] = "queued" /\ task'[j] = "received"
    BY <1>4 DEF Poll, Center!HandleJobPoll, Center!Move, Center!QueuedOn
  <2>2. task' \in [Jobs -> Stages]
    BY <1>4 DEF Poll, Stages
  <2>3. UNCHANGED <<net, life, call, token, outcome, store, confirmed, runs>>
    BY <1>4 DEF Poll
  <2>. QED BY <2>1, <2>2, <2>3 DEF net, life, ResultsExist
<1>5. CASE Heartbeat
  BY <1>5 DEF Heartbeat, net, life, ResultsExist
<1>6. CASE CenterStep
  BY <1>6 DEF CenterStep, tasks, net, life, ResultsExist
<1>7. CASE CenterRestarts
  BY <1>7 DEF CenterRestarts, tasks, life, ResultsExist
<1>8. CASE UNCHANGED vars
  BY <1>8 DEF vars, tasks, net, life, ResultsExist
<1>. QED BY <1>1, <1>2, <1>3, <1>4, <1>5, <1>6, <1>7, <1>8, TaskShape DEF Next

LEMMA ShapeInit == Init => Shape
<1>. SUFFICES ASSUME Init PROVE Shape
  OBVIOUS
<1>1. call \in [Jobs -> Calls] /\ \A j \in Jobs : call[j].kind = "none"
  BY CallFacts DEF Init
<1>2. task \in [Jobs -> Stages] /\ \A j \in Jobs : task[j] = "none"
  BY DEF Init, Stages
<1>3. /\ crashes \in 0..MaxCrashes
      /\ runs \in [Jobs -> 0..2]
      /\ outcome \in [Jobs -> {"none"} \cup TERMINAL_STATUSES]
      /\ store \in [Jobs -> {"none", "claimed", "running"} \cup TERMINAL_STATUSES]
  BY NodeAssumption DEF Init
<1>4. TypeOK
  BY <1>1, <1>2, <1>3 DEF Init, TypeOK
<1>. QED BY <1>1, <1>2, <1>4 DEF Init, Shape, ResultsExist

LEMMA ShapeAlways == Spec => []Shape
<1>. QED BY ShapeInit, ShapeStep, PTL DEF Spec

\* Type correctness of the specification.
THEOREM TypeCorrect == Spec => []TypeOK
<1>1. Shape => TypeOK
  BY DEF Shape
<1>. QED BY <1>1, ShapeAlways, PTL

---------------------------------------------------------------------------
\* The refinement.

\* A handler that takes a message is a step of the Center, or changes nothing of it.
LEMMA HandleIsCenterStep ==
    ASSUME Shape, NEW j \in Jobs, NEW kind \in Kinds, <<kind, j>> \in pending,
           Handle(kind, j)
    PROVE  Center!Next \/ UNCHANGED cvars
<1>1. CASE Center!HandleJobAccepted(j)
  BY <1>1 DEF Center!Next, Center!JobStep
<1>2. CASE kind = "finished" /\ Center!HandleJobFinished(j, outcome[j])
  <2>1. outcome[j] \in TERMINAL_STATUSES
    BY <1>2 DEF Shape, TypeOK, ResultsExist
  <2>2. TERMINAL_STATUSES = Center!TERMINAL_STATUSES
    BY DEF TERMINAL_STATUSES, Center!TERMINAL_STATUSES
  <2>. QED BY <1>2, <2>1, <2>2 DEF Center!Next, Center!JobStep
<1>. QED BY <1>1, <1>2 DEF Handle

\* The poll asks for as many jobs as the daemon has free slots, so it is one of the
\* polls the Center's specification allows.
LEMMA PollIsCenterStep == Poll => Center!Next
<1>. SUFFICES ASSUME Poll PROVE Center!Next
  OBVIOUS
<1>1. IsFiniteSet(Running)
  BY NodeAssumption, FS_Subset DEF Running
<1>2. Cardinality(Running) \in Nat
  BY <1>1, FS_CardinalityType
<1>3. Capacity - Cardinality(Running) \in 1..Capacity
  BY <1>2, NodeAssumption DEF Poll
<1>4. Center!HandleJobPoll(n, Capacity - Cardinality(Running))
  BY DEF Poll
<1>. QED BY <1>3, <1>4 DEF Center!Next, Center!NodeStep

\* The Center with a daemon that crashes, repeats messages and loses answers behaves
\* as the Center alone is specified to: no message order, duplicate or late handler
\* takes it out of JobRuntime, whose theorems therefore hold of it.
THEOREM Composition == Spec => ImplementsCenter
<1>1. Init => Center!Init
  BY DEF Init
<1>2. Shape /\ [Next]_vars => [Center!Next]_(Center!vars)
  <2>. SUFFICES ASSUME Shape, [Next]_vars PROVE Center!Next \/ UNCHANGED cvars
    BY DEF Center!vars, cvars
  <2>1. CASE Start
    BY <2>1 DEF Start, Center!Next, Center!NodeStep
  <2>2. ASSUME NEW j \in Jobs, ReconcileEntry(j) PROVE UNCHANGED cvars
    BY <2>2 DEF ReconcileEntry
  <2>3. CASE Crash
    BY <2>3 DEF Crash
  <2>4. CASE Poll
    BY <2>4, PollIsCenterStep
  <2>5. CASE Heartbeat
    BY <2>5 DEF Heartbeat, Center!Next, Center!NodeStep
  <2>6. ASSUME NEW j \in Jobs, TaskStep(j) PROVE Center!Next \/ UNCHANGED cvars
    <3>1. CASE RenewLease(j)
      BY <3>1 DEF RenewLease, Center!Next, Center!JobStep
    <3>2. ASSUME NEW kind \in Kinds, Process(kind, j) PROVE Center!Next \/ UNCHANGED cvars
      BY <3>2, HandleIsCenterStep DEF Process
    <3>3. CASE Receive(j) \/ Execute(j) \/ StoreResult(j)
      BY <3>3 DEF Receive, Execute, StoreResult
    <3>4. CASE NoAnswer(j) \/ Arrive(j) \/ ArriveAgain(j)
      BY <3>4 DEF NoAnswer, Arrive, ArriveAgain
    <3>5. ASSUME NEW kind \in Kinds, HandlerFails(kind, j) PROVE UNCHANGED cvars
      BY <3>5 DEF HandlerFails
    <3>. QED BY <2>6, <3>1, <3>2, <3>3, <3>4, <3>5 DEF TaskStep
  <2>7. CASE CenterStep
    BY <2>7 DEF CenterStep, Center!Next, Center!JobStep
  <2>8. CASE CenterRestarts
    BY <2>8 DEF CenterRestarts, Center!Next
  <2>9. CASE UNCHANGED vars
    BY <2>9 DEF vars, cvars
  <2>. QED BY <2>1, <2>2, <2>3, <2>4, <2>5, <2>6, <2>7, <2>8, <2>9 DEF Next
<1>. QED BY <1>1, <1>2, ShapeAlways, PTL DEF Spec, ImplementsCenter, Center!Spec

---------------------------------------------------------------------------
\* The inductive invariant.

\* A step that settles statuses and touches no task keeps the invariant.
LEMMA SettlingKeeps ==
    ASSUME IInv, Settling, UNCHANGED <<task, call, outcome, runs>>, Shape'
    PROVE  IInv'
<1>1. CallsMatchTasks'
  BY DEF IInv, CallsMatchTasks
<1>2. UntouchedWhileWaiting' /\ FreshUntilExecuted' /\ RunsOnce'
  BY DEF IInv, UntouchedWhileWaiting, FreshUntilExecuted, RunsOnce, Settling
<1>3. OutcomeIsReal'
  BY DEF IInv, OutcomeIsReal, Settling
<1>. QED BY <1>1, <1>2, <1>3 DEF IInv, Settling, Shape

\* So does one that settles statuses and lets send() return.
LEMMA ReturnKeeps ==
    ASSUME IInv, Settling, NEW j \in Jobs, call[j].kind # "none", Return(j), Shape'
    PROVE  IInv'
<1>. USE CallFacts DEF IInv, TypeOK, Return
<1>1. call[j].kind \in {"accepted", "finished"}
  OBVIOUS
<1>2. task[j] = IF call[j].kind = "accepted" THEN "accepting" ELSE "finishing"
  BY <1>1 DEF CallsMatchTasks
<1>3. \A i \in Jobs : i # j => task'[i] = task[i] /\ runs'[i] = runs[i] /\ call'[i] = call[i]
  OBVIOUS
<1>4. call'[j].kind = "none" /\ task'[j] \in {"executing", "storing"}
  OBVIOUS
<1>5. runs'[j] = IF call[j].kind = "accepted" THEN 1 ELSE runs[j]
  BY <1>2 DEF FreshUntilExecuted
<1>6. CallsMatchTasks'
  BY <1>3, <1>4 DEF CallsMatchTasks
<1>7. UntouchedWhileWaiting'
  <2>1. status[j] \notin Waiting
    BY <1>2 DEF UntouchedWhileWaiting
  <2>. QED BY <1>3, <2>1 DEF UntouchedWhileWaiting, Settling
<1>8. FreshUntilExecuted'
  BY <1>2, <1>3, <1>4 DEF FreshUntilExecuted
<1>9. RunsOnce'
  BY <1>3, <1>5 DEF RunsOnce
<1>10. OutcomeIsReal'
  BY DEF OutcomeIsReal, Settling
<1>. QED BY <1>6, <1>7, <1>8, <1>9, <1>10 DEF Settling, Shape

\* The poll: only queued jobs enter running_jobs, and nothing happened to them yet.
LEMMA PollKeeps ==
    ASSUME IInv, Poll, Shape'
    PROVE  IInv'
<1>. USE StatusFacts DEF IInv, TypeOK, CenterTyped
<1>1. PICK S \in SUBSET Center!QueuedOn(n) :
        /\ status' = [j \in Jobs |-> IF j \in S THEN "claimed" ELSE status[j]]
        /\ admitted' = admitted
  BY DEF Poll, Center!HandleJobPoll, Center!Move
<1>2. \A j \in S : j \in Jobs /\ status[j] = "queued"
  BY DEF Center!QueuedOn
<1>3. \A j \in Jobs : task'[j] # task[j] => task'[j] = "received" /\ status[j] = "queued"
  BY <1>1, <1>2 DEF Poll
<1>4. UNCHANGED <<call, outcome, runs>>
  BY DEF Poll
<1>5. CenterTyped'
  BY <1>1, <1>2
<1>6. CallsMatchTasks'
  BY <1>3, <1>4 DEF CallsMatchTasks, UntouchedWhileWaiting, Waiting
<1>7. UntouchedWhileWaiting'
  <2>. SUFFICES ASSUME NEW j \in Jobs, status'[j] \in Waiting
                PROVE  task'[j] = "none" /\ runs'[j] = 0 /\ outcome'[j] = "none"
    BY DEF UntouchedWhileWaiting
  <2>1. j \notin S /\ status'[j] = status[j]
    BY <1>1 DEF Waiting
  <2>2. task'[j] = task[j]
    BY <2>1 DEF Poll
  <2>. QED BY <1>4, <2>1, <2>2 DEF UntouchedWhileWaiting
<1>8. FreshUntilExecuted' /\ RunsOnce'
  BY <1>3, <1>4 DEF FreshUntilExecuted, RunsOnce, UntouchedWhileWaiting, Waiting
<1>9. OutcomeIsReal'
  BY <1>1, <1>4 DEF OutcomeIsReal
<1>. QED BY <1>5, <1>6, <1>7, <1>8, <1>9 DEF Shape

\* The stages of execute_job.
LEMMA StagesKeep ==
    ASSUME IInv, Shape', NEW j \in Jobs, Receive(j) \/ Execute(j) \/ StoreResult(j)
    PROVE  IInv'
<1>. USE CallFacts, StatusFacts DEF IInv, TypeOK
<1>1. UNCHANGED cvars /\ \A i \in Jobs : i # j => /\ task'[i] = task[i] /\ call'[i] = call[i]
                                                 /\ outcome'[i] = outcome[i]
  BY DEF Receive, Execute, StoreResult, Send
<1>2. UNCHANGED runs /\ task[j] # "none" /\ task'[j] # "received"
  BY DEF Receive, Execute, StoreResult
<1>3. task'[j] = "accepting" => task[j] = "received"
  BY DEF Receive, Execute, StoreResult
<1>4. outcome'[j] # outcome[j] => task[j] = "executing" /\ task'[j] = "finishing"
  BY DEF Receive, Execute, StoreResult
<1>5. CallsMatchTasks'
  <2>1. CASE Receive(j)
    BY <1>1, <2>1 DEF CallsMatchTasks, Receive, Send, Request
  <2>2. CASE Execute(j)
    BY <1>1, <2>2 DEF CallsMatchTasks, Execute, Send, Request
  <2>3. CASE StoreResult(j)
    BY <1>1, <2>3 DEF CallsMatchTasks, StoreResult
  <2>. QED BY <2>1, <2>2, <2>3
<1>6. UntouchedWhileWaiting'
  BY <1>1, <1>2 DEF UntouchedWhileWaiting, cvars
<1>7. FreshUntilExecuted'
  <2>1. task'[j] # "executing"
    BY DEF Receive, Execute, StoreResult
  <2>. QED BY <1>1, <1>2, <1>3, <1>4, <2>1 DEF FreshUntilExecuted
<1>8. OutcomeIsReal'
  BY <1>1, <1>4 DEF OutcomeIsReal, FreshUntilExecuted, cvars
<1>9. RunsOnce' /\ CenterTyped'
  BY <1>1, <1>2 DEF RunsOnce, CenterTyped, cvars
<1>. QED BY <1>5, <1>6, <1>7, <1>8, <1>9 DEF Shape

LEMMA IInvStep == IInv /\ [Next]_vars => IInv'
<1>. SUFFICES ASSUME IInv, [Next]_vars PROVE IInv'
  OBVIOUS
<1>1. Shape'
  BY ShapeStep DEF IInv, Shape
<1>. DEFINE SameTasks == UNCHANGED <<task, call, outcome, runs>>
<1>11. "accepted" \in Kinds
  BY DEF Kinds
<1>12. ASSUME UNCHANGED cvars PROVE Settling
  BY <1>12 DEF IInv, CenterTyped, Settling, cvars
<1>2. CASE Start
  <2>1. Center!HandleHello(n) \/ UNCHANGED cvars
    BY <1>2 DEF Start
  <2>2. Settling
    BY <1>12, <2>1 DEF IInv, CenterTyped, Settling, Center!HandleHello
  <2>. QED BY <1>1, <1>2, <2>2, SettlingKeeps DEF Start, tasks
<1>3. ASSUME NEW j \in Jobs, ReconcileEntry(j) PROVE IInv'
  <2>1. UNCHANGED cvars /\ UNCHANGED <<task, call, outcome, runs>>
    BY <1>3 DEF ReconcileEntry
  <2>. QED BY <1>1, <1>12, <2>1, SettlingKeeps
<1>4. CASE Crash
  <2>1. UNCHANGED <<cvars, outcome, runs>> /\ \A j \in Jobs : task'[j] = "none"
                                            /\ call'[j].kind = "none"
    BY <1>4, CallFacts DEF Crash
  <2>. QED BY <1>1, <2>1 DEF IInv, CenterTyped, CallsMatchTasks, UntouchedWhileWaiting,
                             FreshUntilExecuted, RunsOnce, OutcomeIsReal, Shape, cvars
<1>5. CASE Poll
  BY <1>1, <1>5, PollKeeps
<1>6. CASE Heartbeat
  <2>1. Center!HandleHeartbeat(n) \/ UNCHANGED cvars
    BY <1>6 DEF Heartbeat
  <2>2. Settling
    BY <1>12, <2>1 DEF IInv, CenterTyped, Settling, Center!HandleHeartbeat
  <2>. QED BY <1>1, <1>6, <2>2, SettlingKeeps DEF Heartbeat
<1>7. ASSUME NEW j \in Jobs, TaskStep(j) PROVE IInv'
  <2>1. CASE Receive(j) \/ Execute(j) \/ StoreResult(j)
    BY <1>1, <2>1, StagesKeep
  <2>2. CASE RenewLease(j)
    <3>1. Settling
      BY <2>2, <1>11, HandlersSettle DEF RenewLease
    <3>. QED BY <1>1, <2>2, <3>1, SettlingKeeps DEF RenewLease, tasks
  <2>3. CASE NoAnswer(j)
    <3>1. CASE call[j].tries < MaxRetries
      <4>1. UNCHANGED <<cvars, task, outcome, runs>>
            /\ call' = [call EXCEPT ![j] = Request(call[j].kind, call[j].tries + 1, "client")]
        BY <2>3, <3>1 DEF NoAnswer
      <4>2. \A i \in Jobs : call'[i].kind = call[i].kind
        BY <4>1 DEF IInv, TypeOK, Request
      <4>. QED BY <1>1, <4>1, <4>2 DEF IInv, CenterTyped, CallsMatchTasks,
               UntouchedWhileWaiting, FreshUntilExecuted, RunsOnce, OutcomeIsReal, Shape, cvars
    <3>2. CASE ~(call[j].tries < MaxRetries)
      <4>1. Return(j) /\ call[j].kind # "none" /\ UNCHANGED cvars
        BY <2>3, <3>2 DEF NoAnswer
      <4>. QED BY <1>1, <1>12, <4>1, ReturnKeeps
    <3>. QED BY <3>1, <3>2
  <2>4. CASE Arrive(j)
    <3>1. UNCHANGED <<cvars, task, outcome, runs>>
          /\ call' = [call EXCEPT ![j] = Request(call[j].kind, call[j].tries, "center")]
      BY <2>4 DEF Arrive
    <3>2. \A i \in Jobs : call'[i].kind = call[i].kind
      BY <3>1 DEF IInv, TypeOK, Request
    <3>. QED BY <1>1, <3>1, <3>2 DEF IInv, CenterTyped, CallsMatchTasks,
             UntouchedWhileWaiting, FreshUntilExecuted, RunsOnce, OutcomeIsReal, Shape, cvars
  <2>5. CASE ArriveAgain(j)
    BY <1>1, <1>12, <2>5, ReturnKeeps DEF ArriveAgain
  <2>6. ASSUME NEW kind \in Kinds, Process(kind, j) PROVE IInv'
    <3>1. kind = "finished" => outcome[j] \in TERMINAL_STATUSES
      BY <2>6 DEF Process, IInv, TypeOK, ResultsExist
    <3>2. Settling
      BY <2>6, <3>1, HandlersSettle DEF Process
    <3>3. CASE UNCHANGED tasks
      BY <1>1, <3>2, <3>3, SettlingKeeps DEF tasks
    <3>4. CASE call[j].kind = kind /\ Return(j)
      BY <1>1, <3>2, <3>4, CallFacts, ReturnKeeps
    <3>. QED BY <2>6, <3>3, <3>4 DEF Process
  <2>7. ASSUME NEW kind \in Kinds, HandlerFails(kind, j) PROVE IInv'
    BY <1>1, <1>12, <2>7, SettlingKeeps DEF HandlerFails, tasks
  <2>. QED BY <1>7, <2>1, <2>2, <2>3, <2>4, <2>5, <2>6, <2>7 DEF TaskStep
<1>8. CASE CenterStep
  BY <1>1, <1>8, CenterSettles, SettlingKeeps DEF CenterStep, tasks
<1>9. CASE CenterRestarts
  BY <1>1, <1>9, CenterSettles, SettlingKeeps DEF CenterRestarts, tasks
<1>10. CASE UNCHANGED vars
  BY <1>1, <1>12, <1>10, SettlingKeeps DEF vars, tasks
<1>. QED BY <1>2, <1>3, <1>4, <1>5, <1>6, <1>7, <1>8, <1>9, <1>10 DEF Next

THEOREM Invariance == Spec => []IInv
<1>1. Init => IInv
  <2>1. Init => Shape
    BY ShapeInit
  <2>. QED BY <2>1, StatusFacts, CallFacts
           DEF Init, Center!Init, IInv, Shape, CenterTyped, CallsMatchTasks,
               UntouchedWhileWaiting, FreshUntilExecuted, RunsOnce, OutcomeIsReal
<1>. QED BY <1>1, IInvStep, PTL DEF Spec

\* No loss, retry, crash or restart makes a daemon execute a job twice.
THEOREM ExecutedOnce == Spec => []RunsOnce
<1>1. IInv => RunsOnce
  BY DEF IInv
<1>. QED BY <1>1, Invariance, PTL

\* The Center never records a success or a failure the node did not produce.
THEOREM OutcomesAreReal == Spec => []OutcomeIsReal
<1>1. IInv => OutcomeIsReal
  BY DEF IInv
<1>. QED BY <1>1, Invariance, PTL

\* Every entry of running_jobs is a job the Center has delivered.
THEOREM WorkIsDelivered == Spec => []WorksOnDelivered
<1>1. IInv => WorksOnDelivered
  BY DEF IInv, WorksOnDelivered, UntouchedWhileWaiting, Running, Waiting
<1>. QED BY <1>1, Invariance, PTL

\* The Cardinality the instance of JobRuntime brings along.
LEMMA SameCardinality == ASSUME NEW S PROVE Center!Cardinality(S) = Cardinality(S)
  BY DEF Center!Cardinality, Cardinality

\* The node never has more jobs than its capacity: a poll adds at most the free slots
\* the daemon counted, and no other step adds an entry.
THEOREM CapacityKept == Spec => []CapacityRespected
<1>1. Init => CapacityRespected
  <2>1. Init => Running = {}
    BY DEF Init, Running
  <2>. QED BY <2>1, FS_EmptySet, NodeAssumption DEF CapacityRespected
<1>2. ASSUME IInv, CapacityRespected, [Next]_vars PROVE CapacityRespected'
  <2>1. IsFiniteSet(Running) /\ Cardinality(Running) \in Nat
    BY NodeAssumption, FS_Subset, FS_CardinalityType DEF Running
  <2>2. ASSUME Running' \subseteq Running PROVE CapacityRespected'
    <3>1. Cardinality(Running') <= Cardinality(Running) /\ Cardinality(Running') \in Nat
      BY <2>1, <2>2, FS_Subset, FS_CardinalityType
    <3>. QED BY <1>2, <2>1, <3>1, NodeAssumption DEF CapacityRespected
  <2>3. CASE Poll
    <3>1. PICK S \in SUBSET Center!QueuedOn(n) :
            /\ \/ Cardinality(S) <= Capacity - Cardinality(Running)
               \/ Cardinality(S) = Capacity - Cardinality(Running)
            /\ status' = [j \in Jobs |-> IF j \in S THEN "claimed" ELSE status[j]]
      BY <2>3, SameCardinality DEF Poll, Center!HandleJobPoll, Center!Move
    <3>2. S \subseteq Jobs /\ IsFiniteSet(S) /\ Cardinality(S) \in Nat
      BY NodeAssumption, FS_Subset, FS_CardinalityType DEF Center!QueuedOn
    <3>3. Running' \subseteq Running \cup S
      BY <1>2, <2>3, <3>1 DEF Poll, Running, IInv, CenterTyped, TypeOK
    <3>4. IsFiniteSet(Running \cup S)
          /\ Cardinality(Running \cup S) <= Cardinality(Running) + Cardinality(S)
      <4>1. Cardinality(Running \cap S) \in Nat
        BY <2>1, FS_Subset, FS_CardinalityType
      <4>2. IsFiniteSet(Running \cup S)
            /\ Cardinality(Running \cup S)
                 = Cardinality(Running) + Cardinality(S) - Cardinality(Running \cap S)
        BY <2>1, <3>2, FS_Union, Zenon
      <4>. QED BY <2>1, <3>2, <4>1, <4>2
    <3>5. Cardinality(Running') <= Cardinality(Running \cup S)
          /\ Cardinality(Running') \in Nat /\ Cardinality(Running \cup S) \in Nat
      BY <3>3, <3>4, FS_Subset, FS_CardinalityType
    <3>. QED BY <2>1, <3>1, <3>2, <3>4, <3>5, NodeAssumption DEF CapacityRespected
  <2>4. CASE Start \/ Crash \/ Heartbeat \/ CenterStep \/ CenterRestarts \/ UNCHANGED vars
    BY <2>2, <2>4 DEF Start, Crash, Heartbeat, CenterStep, CenterRestarts, vars, tasks, Running
  <2>5. ASSUME NEW j \in Jobs, ReconcileEntry(j) PROVE CapacityRespected'
    BY <2>2, <2>5 DEF ReconcileEntry, Running
  <2>6. ASSUME NEW j \in Jobs, TaskStep(j) PROVE CapacityRespected'
    <3>1. ASSUME task' = task PROVE CapacityRespected'
      BY <2>2, <3>1 DEF Running
    <3>2. CASE Receive(j) \/ Execute(j) \/ StoreResult(j)
      BY <1>2, <2>2, <3>2 DEF Receive, Execute, StoreResult, Running, IInv, TypeOK
    <3>3. ASSUME Return(j), call[j].kind # "none" PROVE CapacityRespected'
      <4>1. task[j] # "none"
        BY <1>2, <3>3, CallFacts DEF IInv, TypeOK, CallsMatchTasks
      <4>. QED BY <1>2, <2>2, <3>3, <4>1 DEF Return, Running, IInv, TypeOK
    <3>4. CASE NoAnswer(j) \/ ArriveAgain(j)
      BY <3>1, <3>3, <3>4 DEF NoAnswer, ArriveAgain
    <3>5. ASSUME NEW kind \in Kinds, Process(kind, j) PROVE CapacityRespected'
      BY <3>1, <3>3, <3>5, CallFacts DEF Process, tasks
    <3>6. CASE RenewLease(j) \/ Arrive(j) \/ \E kind \in Kinds : HandlerFails(kind, j)
      BY <3>1, <3>6 DEF RenewLease, Arrive, HandlerFails, tasks
    <3>. QED BY <2>6, <3>2, <3>4, <3>5, <3>6 DEF TaskStep
  <2>. QED BY <1>2, <2>3, <2>4, <2>5, <2>6 DEF Next
<1>. QED BY <1>1, <1>2, Invariance, PTL DEF Spec
=============================================================================
