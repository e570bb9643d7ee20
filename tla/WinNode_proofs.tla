--------------------------- MODULE WinNode_proofs ---------------------------
(***************************************************************************)
(* Proofs about WinNode, for every finite set of jobs, every capacity and  *)
(* every bound on losses, restarts and crashes.                            *)
(***************************************************************************)
EXTENDS WinNode, FiniteSetTheorems, TLAPS

\* Statuses of a job no node knows of yet.
Waiting == {"none", "created", "queued"}

\* The stages before the function ended, and those after it.
Before == {"accepting", "starting", "executing"}
After  == {"result", "finishing", "event", "reporting"}

CenterTyped ==
    /\ status \in [Jobs -> JobStatus \cup {"none"}]
    /\ admitted \subseteq Jobs
    /\ \A j \in admitted : status[j] = "none"

\* A task has no outcome before the function ended, and one from then on.
StagesFit ==
    \A j \in Jobs :
        /\ stage[j] \in {"accepting", "starting"} => runs[j] = 0
        /\ stage[j] \in Before => truth[j] = "none" /\ local[j] = "running"
        /\ stage[j] \in After => local[j] \in TERMINAL_STATUSES

\* Nothing has happened at the daemon to a job that was not delivered.
UntouchedWhileWaiting ==
    \A j \in Jobs : status[j] \in Waiting =>
        stage[j] = "none" /\ runs[j] = 0 /\ truth[j] = "none" /\ j \notin listed

\* Wherever a success is remembered, the function returned.
SuccessesReal ==
    /\ \A j \in Jobs : "succeeded" \in {local[j], stored[j], known[j]} => truth[j] = "succeeded"
    /\ \A m \in pending : m.kind = "finished" =>
           /\ m.result \in TERMINAL_STATUSES
           /\ m.result = "succeeded" => truth[m.job] = "succeeded"

\* A job that left self.jobs is settled, or was lost in a crash.
UnlistedSettled ==
    \A j \in Jobs \ listed : \/ local[j] = "none" /\ stage[j] = "none"
                             \/ local[j] \in TERMINAL_STATUSES /\ Settled(j)

\* What is marked reported, or about to be, is settled.
ReportedSettled == \A j \in reported \cup closing : Settled(j)

\* Only a running daemon has a reconciliation in progress.
KnownWhileUp == (\E j \in Jobs : known[j] # "none") => up

\* The inductive invariant.  RunsOnce needs that a job enters self.jobs only while it
\* is queued; SuccessIsReal that no success is remembered anywhere (in memory, in the
\* store, in a reconciliation or in a request that is still under way) before the
\* function returned; ForgottenIsSettled that settled jobs stay settled while the
\* daemon acts on answers that are old.
IInv ==
    /\ TypeOK
    /\ CenterTyped
    /\ StagesFit
    /\ UntouchedWhileWaiting
    /\ SuccessesReal
    /\ UnlistedSettled
    /\ ReportedSettled
    /\ KnownWhileUp
    /\ RunsOnce
    /\ SuccessIsReal

\* What a step of the Center that delivers nothing does to the statuses.
Settling ==
    /\ CenterTyped'
    /\ \A j \in Jobs : status'[j] \in Waiting => status[j] \in Waiting
    /\ \A j \in Jobs : Settled(j) => status'[j] = status[j]
    /\ \A j \in Jobs : status'[j] = "succeeded" =>
                            status[j] = "succeeded" \/ truth[j] = "succeeded"

LEMMA StatusFacts ==
    /\ TERMINAL_STATUSES \subseteq JobStatus
    /\ {"queued", "claimed", "running", "cancelling", "cancelled", "timeout"} \subseteq JobStatus
    /\ TERMINAL_STATUSES \cap Waiting = {}
    /\ "none" \notin TERMINAL_STATUSES /\ "running" \notin TERMINAL_STATUSES
    /\ "claimed" \notin TERMINAL_STATUSES /\ "cancelling" \notin TERMINAL_STATUSES
    /\ {"succeeded", "failed", "cancelled", "timeout"} = TERMINAL_STATUSES
    /\ TERMINAL_STATUSES = Center!TERMINAL_STATUSES
  BY DEF TERMINAL_STATUSES, Center!TERMINAL_STATUSES, JobStatus, NON_TERMINAL_STATUSES,
         InFlightStatuses, Waiting

\* The Center's own steps.
LEMMA CenterSettles ==
    ASSUME IInv, CenterStep \/ Center!RestartCenter
    PROVE  Settling
<1>. USE StatusFacts DEF IInv, CenterTyped, Settled
<1>1. ASSUME NEW j \in Jobs, Center!ResolveFunction(j) PROVE Settling
  BY <1>1 DEF Center!ResolveFunction, Settling
<1>2. ASSUME NEW j \in Jobs, Center!CreateJob(j) PROVE Settling
  BY <1>2 DEF Center!CreateJob, Center!Move, Settling, Waiting
<1>3. ASSUME NEW j \in Jobs, Center!CreateJobConflict(j) \/ Center!LeaseRunsOut(j)
      PROVE Settling
  BY <1>3 DEF Center!CreateJobConflict, Center!LeaseRunsOut, Settling
<1>4. ASSUME NEW j \in Jobs, Center!CancelJob(j) PROVE Settling
  BY <1>4 DEF Center!CancelJob, Center!Move, Settling, Waiting
<1>5. CASE Center!TimeoutScan
  BY <1>5 DEF Center!TimeoutScan, Center!Move, Center!Expired, Center!InFlight,
              Center!InFlightStatuses, Settling, Waiting
<1>6. CASE Center!ReleaseLocksForTerminalJobs \/ Center!RestartCenter
  BY <1>6 DEF Center!ReleaseLocksForTerminalJobs, Center!RestartCenter, Settling
<1>. QED BY <1>1, <1>2, <1>3, <1>4, <1>5, <1>6 DEF CenterStep

\* The handlers the daemon calls outside a job's task.
LEMMA NodeSettles ==
    ASSUME IInv,
           \/ Center!HandleHello(n) \/ Center!HandleHeartbeat(n)
           \/ \E j \in Jobs : Center!HandleJobLeaseRenew(j)
           \/ UNCHANGED cvars
    PROVE  Settling
  BY DEF IInv, CenterTyped, Settled, Settling, cvars,
         Center!HandleHello, Center!HandleHeartbeat, Center!HandleJobLeaseRenew

\* A job that goes to a status its daemon truthfully reports.
LEMMA ReportSettles ==
    ASSUME IInv, NEW j \in Jobs, NEW target \in TERMINAL_STATUSES,
           Center!HandleJobFinished(j, target) \/ Center!ReconcileToTerminal(j, target),
           target = "succeeded" => truth[j] = "succeeded"
    PROVE  Settling /\ Settled(j)'
<1>. USE StatusFacts DEF IInv, CenterTyped, Settled
<1>1. Center!Open(j) /\ admitted' = admitted
      /\ status' = [i \in Jobs |-> IF i \in {j} THEN target ELSE status[i]]
  BY DEF Center!HandleJobFinished, Center!ReconcileToTerminal, Center!Move
<1>2. status[j] # "none" /\ status[j] \notin TERMINAL_STATUSES
  BY <1>1 DEF Center!Open, Center!NON_TERMINAL_STATUSES, Center!InFlightStatuses
<1>. QED BY <1>1, <1>2 DEF Settling

\* A message says what the daemon knows.
Truthful(m) ==
    m.kind = "finished" => /\ m.result \in TERMINAL_STATUSES
                           /\ m.result = "succeeded" => truth[m.job] = "succeeded"

LEMMA MessageSettles ==
    ASSUME IInv, NEW m \in Messages, Truthful(m), Handled(m) \/ Refused(m)
    PROVE  Settling /\ (Handled(m) /\ m.kind = "finished" => Settled(m.job)')
<1>. USE StatusFacts DEF Truthful
<1>1. m.job \in Jobs
  BY DEF Messages
<1>2. CASE m.kind = "accepted" /\ Center!HandleJobAccepted(m.job)
  BY <1>1, <1>2 DEF IInv, CenterTyped, Settled, Settling, Waiting, Center!HandleJobAccepted,
                    Center!Move
<1>3. CASE m.kind = "finished" /\ Center!HandleJobFinished(m.job, m.result)
  BY <1>1, <1>3, ReportSettles
<1>4. CASE UNCHANGED cvars
  BY <1>1, <1>4, NodeSettles DEF Handled, Settled, Center!HandleJobFinished, Center!Open,
     Center!Move, Center!NON_TERMINAL_STATUSES, Center!InFlightStatuses, IInv, CenterTyped, cvars
<1>. QED BY <1>2, <1>3, <1>4 DEF Handled, Refused

\* What the daemon says of a job is what it knows.
LEMMA MessageTruthful ==
    ASSUME IInv, NEW j \in Jobs, Asking(j)
    PROVE  Message(j) \in Messages /\ Truthful(Message(j)) /\ Message(j).job = j
           /\ (Message(j).kind = "accepted" <=> stage[j] = "accepting")
           /\ Message(j).kind \in Kinds
<1>. USE StatusFacts DEF Asking, Message, Kinds
<1>1. CASE stage[j] = "accepting"
  BY <1>1 DEF IInv, StagesFit, Before, Messages, Truthful
<1>2. CASE stage[j] # "accepting"
  <2>1. local[j] \in TERMINAL_STATUSES
    BY <1>2 DEF IInv, StagesFit, After
  <2>. QED BY <1>2, <2>1 DEF IInv, SuccessesReal, Messages, Truthful
<1>. QED BY <1>1, <1>2

---------------------------------------------------------------------------
\* Most steps are orderly: a task goes on, fails or ends, nothing enters or leaves
\* self.jobs, and what is stored, known or sent was known before.
Advances(j) ==
    \/ /\ local'[j] = local[j]
       /\ \/ stage'[j] \in {stage[j], "none"}
          \/ stage[j] = "accepting" /\ stage'[j] = "starting"
          \/ stage[j] \in After /\ stage'[j] \in After
    \/ /\ local[j] \in TERMINAL_STATUSES /\ local'[j] = "failed"
       /\ stage[j] \in After /\ stage'[j] \in After

Orderly ==
    /\ Settling
    /\ UNCHANGED <<listed, truth, runs>>
    /\ \A j \in Jobs : Advances(j)
    /\ \A j \in Jobs : stored'[j] \in {stored[j], local[j]}
    /\ \A j \in Jobs : known'[j] \in {known[j], "none", local[j], stored[j]}
    /\ \A j \in Jobs : known'[j] # "none" => up'
    /\ \A j \in reported' \cup closing' : j \in reported \cup closing \/ Settled(j)'
    /\ \A m \in pending' : m \in pending \/ Truthful(m)

LEMMA OrderlyKeeps ==
    ASSUME IInv, Orderly, TypeOK'
    PROVE  IInv'
<1>. USE StatusFacts DEF IInv, Orderly
<1>1. StagesFit'
  BY DEF StagesFit, Advances, Before, After
<1>2. UntouchedWhileWaiting'
  BY DEF UntouchedWhileWaiting, Advances, Settling, After
<1>3. SuccessesReal'
  <2>1. \A j \in Jobs : local'[j] = "succeeded" => local[j] = "succeeded"
    BY DEF Advances
  <2>2. \A m \in pending : m.kind = "finished" =>
            /\ m.result \in TERMINAL_STATUSES
            /\ m.result = "succeeded" => truth[m.job] = "succeeded"
    BY DEF SuccessesReal
  <2>. QED BY <2>1, <2>2 DEF SuccessesReal, Truthful
<1>4. UnlistedSettled'
  <2>. SUFFICES ASSUME NEW j \in Jobs \ listed
                PROVE  \/ local'[j] = "none" /\ stage'[j] = "none"
                       \/ local'[j] \in TERMINAL_STATUSES /\ Settled(j)'
    BY DEF UnlistedSettled
  <2>1. CASE local[j] = "none" /\ stage[j] = "none"
    BY <2>1 DEF Advances, After
  <2>2. CASE local[j] \in TERMINAL_STATUSES /\ Settled(j)
    BY <2>2 DEF Advances, Settled, Settling
  <2>. QED BY <2>1, <2>2 DEF UnlistedSettled
<1>5. ReportedSettled'
  BY DEF ReportedSettled, Settled, Settling, TypeOK
<1>6. KnownWhileUp' /\ RunsOnce' /\ CenterTyped'
  BY DEF KnownWhileUp, RunsOnce, Settling
<1>7. SuccessIsReal'
  BY DEF SuccessIsReal, Settling
<1>. QED BY <1>1, <1>2, <1>3, <1>4, <1>5, <1>6, <1>7

\* The exception of a failed send.
LEMMA RaiseFacts ==
    ASSUME IInv, NEW j \in Jobs, stage[j] \notin {"none", "executing"}, Raise(j)
    PROVE  /\ local' \in [Jobs -> {"none", "running"} \cup TERMINAL_STATUSES]
           /\ stage' \in [Jobs -> Stages]
           /\ renewing' \subseteq {i \in Jobs : stage'[i] # "none"}
           /\ \A i \in Jobs : Advances(i)
<1>. USE StatusFacts DEF IInv, TypeOK, Raise, Stages
<1>1. CASE stage[j] \in InTry
  <2>1. stage[j] \in After /\ local[j] \in TERMINAL_STATUSES
    BY <1>1 DEF InTry, After, StagesFit
  <2>. QED BY <1>1, <2>1 DEF Advances, After
<1>2. CASE stage[j] \notin InTry
  BY <1>2 DEF Advances
<1>. QED BY <1>1, <1>2

LEMMA MarkFacts ==
    ASSUME TypeOK, NEW S \in SUBSET Jobs, MarkReported(S), stored' = stored
    PROVE  /\ reported' \subseteq reported \cup S
           /\ reported' \subseteq {j \in Jobs : stored'[j] # "none"}
  BY DEF TypeOK, MarkReported

LEMMA LoseFacts ==
    ASSUME TypeOK, NEW m \in SUBSET Messages, Lose(m)
    PROVE  pending' = pending \cup m /\ pending' \subseteq Messages
           /\ losses' \in 0..MaxLosses
  BY WinAssumption DEF TypeOK, Lose

\* The steps of execute_job that await an answer.
LEMMA AskingKeeps ==
    ASSUME IInv, NEW j \in Jobs, Answered(j) \/ Unanswered(j)
    PROVE  IInv'
<1>. DEFINE m == Message(j)
<1>1. Asking(j) /\ m \in Messages /\ Truthful(m) /\ m.job = j
      /\ (m.kind = "accepted" <=> stage[j] = "accepting") /\ m.kind \in Kinds
  BY MessageTruthful DEF Answered, Unanswered
<1>2. stage[j] \notin {"none", "executing"}
  BY <1>1 DEF Asking
<1>. HIDE DEF m
<1>3. CASE Answered(j)
  <2>1. Handled(m)
    BY <1>3 DEF Answered, m
  <2>2. Settling /\ (m.kind = "finished" => Settled(j)')
    BY <1>1, <2>1, MessageSettles
  <2>3. UNCHANGED <<talk, life, listed, local, stored, truth, runs, pending, losses>>
    BY <1>3 DEF Answered
  <2>4. CASE stage[j] = "accepting"
    <3>1. stage' = [stage EXCEPT ![j] = "starting"] /\ UNCHANGED <<renewing, reported>>
      BY <1>3, <2>4 DEF Answered
    <3>2. \A i \in Jobs : Advances(i)
      BY <2>3, <2>4, <3>1 DEF Advances, IInv, TypeOK
    <3>3. TypeOK'
      BY <2>3, <2>4, <3>1 DEF IInv, TypeOK, Stages, talk, life
    <3>. QED BY <2>2, <2>3, <3>1, <3>2, <3>3, OrderlyKeeps
             DEF Orderly, talk, life, IInv, KnownWhileUp
  <2>5. CASE stage[j] # "accepting"
    <3>1. stage' = [stage EXCEPT ![j] = "none"] /\ renewing' = renewing \ {j}
          /\ MarkReported({j})
      BY <1>3, <2>5 DEF Answered
    <3>2. \A i \in Jobs : Advances(i)
      BY <2>3, <3>1 DEF Advances, IInv, TypeOK
    <3>3. reported' \subseteq reported \cup {j}
          /\ reported' \subseteq {i \in Jobs : stored'[i] # "none"}
      BY <2>3, <3>1, MarkFacts DEF IInv
    <3>4. TypeOK'
      BY <2>3, <3>1, <3>3 DEF IInv, TypeOK, Stages, talk, life
    <3>5. Settled(j)'
      BY <1>1, <2>2, <2>5 DEF Kinds
    <3>. QED BY <2>2, <2>3, <3>2, <3>3, <3>4, <3>5, OrderlyKeeps
             DEF Orderly, talk, life, IInv, KnownWhileUp
  <2>. QED BY <2>4, <2>5
<1>4. CASE Unanswered(j)
  <2>1. /\ \/ Refused(m) /\ UNCHANGED <<pending, losses>>
           \/ Lose({m}) /\ UNCHANGED cvars
        /\ Raise(j)
        /\ UNCHANGED <<talk, life, listed, stored, reported, truth, runs>>
    BY <1>4 DEF Unanswered, m
  <2>2. Settling
    BY <1>1, <2>1, MessageSettles, NodeSettles
  <2>3. pending' \subseteq pending \cup {m} /\ pending' \subseteq Messages
        /\ losses' \in 0..MaxLosses
    BY <1>1, <2>1, LoseFacts DEF IInv, TypeOK
  <2>4. /\ local' \in [Jobs -> {"none", "running"} \cup TERMINAL_STATUSES]
        /\ stage' \in [Jobs -> Stages]
        /\ renewing' \subseteq {i \in Jobs : stage'[i] # "none"}
        /\ \A i \in Jobs : Advances(i)
    BY <1>2, <2>1, RaiseFacts
  <2>5. TypeOK'
    BY <2>1, <2>3, <2>4 DEF IInv, TypeOK, talk, life
  <2>. QED BY <1>1, <2>1, <2>2, <2>3, <2>4, <2>5, OrderlyKeeps
           DEF Orderly, talk, life, IInv, KnownWhileUp
<1>. QED BY <1>3, <1>4

\* The events, the function itself, its lease loop.
LEMMA EventKeeps ==
    ASSUME IInv, NEW j \in Jobs, EventSent(j) \/ EventFails(j)
    PROVE  IInv'
<1>1. UNCHANGED cvars /\ Settling
  BY NodeSettles DEF EventSent, EventFails
<1>2. CASE EventFails(j)
  <2>1. Raise(j) /\ stage[j] \notin {"none", "executing"} /\ Lose({})
        /\ UNCHANGED <<talk, life, listed, stored, reported, truth, runs>>
    BY <1>2 DEF EventFails
  <2>2. pending' = pending /\ pending' \subseteq Messages /\ losses' \in 0..MaxLosses
    BY <2>1, LoseFacts DEF IInv
  <2>3. /\ local' \in [Jobs -> {"none", "running"} \cup TERMINAL_STATUSES]
        /\ stage' \in [Jobs -> Stages]
        /\ renewing' \subseteq {i \in Jobs : stage'[i] # "none"}
        /\ \A i \in Jobs : Advances(i)
    BY <2>1, RaiseFacts
  <2>4. TypeOK'
    BY <2>1, <2>2, <2>3 DEF IInv, TypeOK, talk, life
  <2>. QED BY <1>1, <2>1, <2>2, <2>3, <2>4, OrderlyKeeps
           DEF Orderly, talk, life, IInv, KnownWhileUp
<1>3. CASE EventSent(j) /\ stage[j] = "starting"
  <2>1. /\ stage' = [stage EXCEPT ![j] = "executing"]
        /\ renewing' = renewing \cup {j}
        /\ runs' = [runs EXCEPT ![j] = IF @ = 2 THEN 2 ELSE @ + 1]
        /\ UNCHANGED <<cvars, talk, life, listed, local, stored, reported, truth, pending, losses>>
    BY <1>3 DEF EventSent
  <2>2. runs[j] = 0 /\ truth[j] = "none" /\ local[j] = "running"
    BY <1>3 DEF IInv, StagesFit, Before
  <2>3. runs' = [runs EXCEPT ![j] = 1]
    BY <2>1, <2>2 DEF IInv, TypeOK
  <2>4. TypeOK'
    BY <2>1, <2>3 DEF IInv, TypeOK, Stages, talk, life
  <2>5. StagesFit' /\ RunsOnce'
    BY <2>1, <2>2, <2>3 DEF IInv, TypeOK, StagesFit, RunsOnce, Before, After
  <2>6. UntouchedWhileWaiting'
    BY <1>3, <2>1, <2>3 DEF IInv, TypeOK, UntouchedWhileWaiting, cvars
  <2>7. UnlistedSettled'
    BY <1>3, <2>1, <2>2, StatusFacts DEF IInv, TypeOK, UnlistedSettled, Settled, cvars
  <2>8. ReportedSettled' /\ KnownWhileUp' /\ CenterTyped' /\ SuccessIsReal'
    BY <2>1 DEF IInv, ReportedSettled, KnownWhileUp, CenterTyped, SuccessIsReal, Settled,
                cvars, talk, life
  <2>9. SuccessesReal'
    BY <2>1 DEF IInv, SuccessesReal, talk
  <2>. QED BY <2>4, <2>5, <2>6, <2>7, <2>8, <2>9 DEF IInv
<1>4. CASE EventSent(j) /\ stage[j] # "starting"
  <2>1. /\ stage[j] \in {"result", "event"}
        /\ stage' = [stage EXCEPT ![j] = IF @ = "result" THEN "finishing" ELSE "reporting"]
        /\ Store(j)
        /\ UNCHANGED <<cvars, talk, life, listed, local, renewing, reported, truth, runs,
                       pending, losses>>
    BY <1>4 DEF EventSent
  <2>2. local[j] \in TERMINAL_STATUSES
    BY <2>1 DEF IInv, StagesFit, After
  <2>3. /\ stored' \in [Jobs -> {"none"} \cup TERMINAL_STATUSES]
        /\ \A i \in Jobs : stored'[i] \in {stored[i], local[i]}
        /\ \A i \in Jobs : stored[i] # "none" => stored'[i] # "none"
    BY <2>1, <2>2, StatusFacts DEF IInv, TypeOK, Store
  <2>4. \A i \in Jobs : Advances(i)
    BY <2>1 DEF IInv, TypeOK, Advances, After
  <2>5. TypeOK'
    BY <2>1, <2>3 DEF IInv, TypeOK, Stages, talk, life
  <2>. QED BY <1>1, <2>1, <2>3, <2>4, <2>5, OrderlyKeeps
           DEF Orderly, talk, life, IInv, KnownWhileUp
<1>. QED BY <1>2, <1>3, <1>4 DEF EventSent

LEMMA ExecuteKeeps ==
    ASSUME IInv, NEW j \in Jobs, Execute(j)
    PROVE  IInv'
<1>. USE StatusFacts DEF IInv, TypeOK
<1>1. PICK result \in {"succeeded", "failed", "timeout"} :
        /\ truth' = [truth EXCEPT ![j] = result]
        /\ local' = [local EXCEPT ![j] = result]
        /\ stage' = [stage EXCEPT ![j] = IF result = "succeeded" THEN "result" ELSE "event"]
  BY DEF Execute
<1>2. stage[j] = "executing" /\ UNCHANGED <<cvars, talk, life, listed, renewing, stored,
                                            reported, runs, pending, losses>>
  BY DEF Execute
<1>3. truth[j] = "none" /\ local[j] = "running"
  BY <1>2 DEF StagesFit, Before
<1>4. TypeOK'
  BY <1>1, <1>2 DEF Stages, talk, life
<1>5. StagesFit'
  BY <1>1, <1>2 DEF StagesFit, Before, After
<1>6. UntouchedWhileWaiting'
  BY <1>1, <1>2 DEF UntouchedWhileWaiting, cvars
<1>7. SuccessesReal'
  <2>1. "succeeded" \notin {stored[j], known[j]}
        /\ \A m \in pending : m.kind = "finished" /\ m.job = j => m.result # "succeeded"
    BY <1>3 DEF SuccessesReal
  <2>2. \A i \in Jobs : "succeeded" \in {local'[i], stored'[i], known'[i]}
                            => truth'[i] = "succeeded"
    BY <1>1, <1>2, <2>1 DEF SuccessesReal, talk
  <2>3. \A m \in pending : m.job \in Jobs
    BY DEF Messages
  <2>4. \A m \in pending : m.kind = "finished" =>
           /\ m.result \in TERMINAL_STATUSES
           /\ m.result = "succeeded" => truth'[m.job] = "succeeded"
    BY <1>1, <2>1, <2>3 DEF SuccessesReal
  <2>. QED BY <1>2, <2>2, <2>4 DEF SuccessesReal
<1>8. UnlistedSettled'
  BY <1>1, <1>2, <1>3 DEF UnlistedSettled, Settled, cvars
<1>9. ReportedSettled' /\ KnownWhileUp' /\ CenterTyped' /\ RunsOnce'
  BY <1>2 DEF ReportedSettled, KnownWhileUp, CenterTyped, RunsOnce, Settled, cvars, talk, life
<1>10. SuccessIsReal'
  BY <1>1, <1>2, <1>3 DEF SuccessIsReal, cvars
<1>. QED BY <1>4, <1>5, <1>6, <1>7, <1>8, <1>9, <1>10

\* Steps that leave every task alone.
LEMMA QuietKeeps ==
    ASSUME IInv, Settling, UNCHANGED <<listed, local, stage, truth, runs, stored, reported, talk>>,
           up => up', pending' \subseteq pending, TypeOK'
    PROVE  IInv'
  BY OrderlyKeeps DEF Orderly, Advances, talk, IInv, KnownWhileUp

LEMMA RenewKeeps ==
    ASSUME IInv, NEW j \in Jobs, RenewLease(j)
    PROVE  IInv'
<1>1. Center!HandleJobLeaseRenew(j) \/ UNCHANGED cvars
  BY DEF RenewLease
<1>2. Settling
  BY <1>1, NodeSettles
<1>3. pending' = pending /\ losses' \in 0..MaxLosses /\ renewing' \subseteq renewing
  <2>1. CASE UNCHANGED <<renewing, losses, pending>>
    BY <2>1 DEF IInv, TypeOK
  <2>2. CASE Lose({}) /\ renewing' = renewing \ {j}
    <3>1. TypeOK
      BY DEF IInv
    <3>. QED BY <2>2, <3>1, LoseFacts
  <2>. QED BY <2>1, <2>2 DEF RenewLease
<1>4. UNCHANGED <<talk, life, listed, local, stage, stored, reported, truth, runs>>
  BY DEF RenewLease
<1>5. TypeOK'
  BY <1>3, <1>4 DEF IInv, TypeOK, talk, life
<1>. QED BY <1>2, <1>3, <1>4, <1>5, QuietKeeps DEF life

\* A request nobody waits for.
LEMMA LateKeeps ==
    ASSUME IInv, NEW m \in pending, Late(m)
    PROVE  IInv'
<1>1. m \in Messages /\ Truthful(m)
  BY DEF IInv, TypeOK, SuccessesReal, Truthful
<1>2. Settling
  BY <1>1, MessageSettles DEF Late
<1>3. TypeOK'
  BY DEF Late, IInv, TypeOK, tasks, talk, life
<1>. QED BY <1>2, <1>3, QuietKeeps DEF Late, tasks, life

---------------------------------------------------------------------------
\* The poll: only queued jobs enter self.jobs, and nothing happened to them yet.
LEMMA PollKeeps ==
    ASSUME IInv, Poll
    PROVE  IInv'
<1>. USE StatusFacts DEF IInv, TypeOK, CenterTyped
<1>1. PICK S \in SUBSET Center!QueuedOn(n) :
        /\ status' = [j \in Jobs |-> IF j \in S THEN "claimed" ELSE status[j]]
        /\ admitted' = admitted
  BY DEF Poll, Center!HandleJobPoll, Center!Move
<1>2. S \subseteq Jobs /\ \A j \in S : status[j] = "queued"
  BY DEF Center!QueuedOn
<1>3. \A j \in S : /\ j \notin listed /\ stage[j] = "none" /\ runs[j] = 0 /\ truth[j] = "none"
                   /\ status'[j] # status[j] /\ ~Settled(j)
  BY <1>1, <1>2 DEF UntouchedWhileWaiting, Waiting, Settled
<1>4. CenterTyped'
  BY <1>1, <1>2
<1>5. /\ \A j \in Jobs : status'[j] \in Waiting => status[j] \in Waiting
      /\ \A j \in Jobs : Settled(j) => status'[j] = status[j]
      /\ \A j \in Jobs : status'[j] = "succeeded" => status[j] = "succeeded"
  BY <1>1, <1>3 DEF Waiting
<1>6. UNCHANGED <<talk, life, renewing, stored, reported, truth, runs>>
  BY DEF Poll
<1>7. CASE Lose({}) /\ UNCHANGED <<listed, local, stage>>
  <2>1. pending' = pending /\ losses' \in 0..MaxLosses
    BY <1>7, LoseFacts
  <2>2. TypeOK'
    BY <1>6, <1>7, <2>1 DEF talk, life
  <2>3. Settling
    BY <1>4, <1>5 DEF Settling
  <2>. QED BY <1>6, <1>7, <2>1, <2>2, <2>3, QuietKeeps DEF life
<1>8. CASE LET new == {j \in Jobs : status'[j] # status[j]} \ listed
           IN  /\ listed' = listed \cup new
               /\ local' = [j \in Jobs |-> IF j \in new THEN "running" ELSE local[j]]
               /\ stage' = [j \in Jobs |-> IF j \in new THEN "accepting" ELSE stage[j]]
               /\ UNCHANGED <<losses, pending>>
  <2>1. {j \in Jobs : status'[j] # status[j]} \ listed = S
    BY <1>1, <1>2, <1>3
  <2>2. /\ listed' = listed \cup S
        /\ local' = [j \in Jobs |-> IF j \in S THEN "running" ELSE local[j]]
        /\ stage' = [j \in Jobs |-> IF j \in S THEN "accepting" ELSE stage[j]]
        /\ UNCHANGED <<losses, pending>>
    BY <1>8, <2>1
  <2>3. TypeOK'
    BY <1>2, <1>6, <2>2 DEF Stages, talk, life
  <2>4. StagesFit'
    BY <1>2, <1>3, <1>6, <2>2 DEF StagesFit, Before, After
  <2>5. UntouchedWhileWaiting'
    BY <1>1, <1>6, <2>2 DEF UntouchedWhileWaiting, Waiting
  <2>6. SuccessesReal'
    BY <1>6, <2>2 DEF SuccessesReal, talk
  <2>7. UnlistedSettled'
    BY <1>5, <2>2 DEF UnlistedSettled, Settled
  <2>8. ReportedSettled' /\ KnownWhileUp' /\ RunsOnce' /\ SuccessIsReal'
    BY <1>5, <1>6 DEF ReportedSettled, KnownWhileUp, RunsOnce, SuccessIsReal, Settled, talk, life
  <2>. QED BY <1>4, <2>3, <2>4, <2>5, <2>6, <2>7, <2>8
<1>. QED BY <1>7, <1>8 DEF Poll

---------------------------------------------------------------------------
\* The connection.

LEMMA StartKeeps == ASSUME IInv, Start PROVE IInv'
<1>1. Settling
  BY NodeSettles DEF Start
<1>2. TypeOK'
  BY DEF Start, IInv, TypeOK, tasks, talk
<1>. QED BY <1>1, <1>2, QuietKeeps DEF Start, tasks

LEMMA CrashKeeps == ASSUME IInv, Crash PROVE IInv'
<1>. USE StatusFacts DEF IInv, TypeOK
<1>1. /\ \A j \in Jobs : local'[j] = "none" /\ stage'[j] = "none" /\ known'[j] = "none"
      /\ listed' = {} /\ renewing' = {} /\ todo' = {} /\ closing' = {} /\ cancelling' = {}
      /\ UNCHANGED <<cvars, stored, reported, truth, runs, pending, losses>>
  BY DEF Crash
<1>2. TypeOK'
  <2>1. crashes' \in 0..MaxCrashes
    BY WinAssumption DEF Crash
  <2>2. up' = FALSE /\ connected' = FALSE
    BY DEF Crash
  <2>3. /\ local' \in [Jobs -> {"none", "running"} \cup TERMINAL_STATUSES]
        /\ known' \in [Jobs -> {"none", "running"} \cup TERMINAL_STATUSES]
        /\ stage' \in [Jobs -> Stages]
    BY DEF Crash, Stages
  <2>. QED BY <1>1, <2>1, <2>2, <2>3
<1>3. StagesFit' /\ UntouchedWhileWaiting' /\ UnlistedSettled'
  BY <1>1 DEF StagesFit, UntouchedWhileWaiting, UnlistedSettled, Before, After, cvars
<1>4. SuccessesReal'
  BY <1>1 DEF SuccessesReal
<1>5. ReportedSettled' /\ KnownWhileUp' /\ CenterTyped' /\ RunsOnce' /\ SuccessIsReal'
  BY <1>1 DEF ReportedSettled, KnownWhileUp, CenterTyped, RunsOnce, SuccessIsReal, Settled, cvars
<1>. QED BY <1>2, <1>3, <1>4, <1>5

LEMMA HeartbeatKeeps == ASSUME IInv, Heartbeat PROVE IInv'
<1>1. Settling
  BY NodeSettles DEF Heartbeat
<1>2. UNCHANGED <<tasks, talk, up, crashes>>
  BY DEF Heartbeat
<1>3. pending' = pending /\ losses' \in 0..MaxLosses
  <2>1. TypeOK
    BY DEF IInv
  <2>2. CASE Lose({})
    BY <2>1, <2>2, LoseFacts
  <2>3. CASE UNCHANGED <<losses, pending>>
    BY <2>1, <2>3 DEF TypeOK
  <2>. QED BY <2>2, <2>3 DEF Heartbeat
<1>4. TypeOK'
  <2>1. connected' \in BOOLEAN /\ (connected' => up')
    <3>1. CASE connected' = connected
      BY <1>2, <3>1 DEF IInv, TypeOK
    <3>2. CASE connected' = FALSE
      BY <3>2
    <3>. QED BY <3>1, <3>2 DEF Heartbeat
  <2>. QED BY <1>2, <1>3, <2>1 DEF IInv, TypeOK, tasks, talk
<1>. QED BY <1>1, <1>2, <1>3, <1>4, QuietKeeps DEF tasks

\* The bootstrap asks only about what the daemon remembers.
LEMMA BootstrapKeeps == ASSUME IInv, Bootstrap PROVE IInv'
<1>. USE StatusFacts DEF IInv
<1>1. Settling
  BY NodeSettles DEF Bootstrap
<1>2. /\ UNCHANGED <<tasks, up, crashes, closing, cancelling, pending, losses>>
      /\ known' = [j \in Jobs |-> Known(j)]
      /\ todo' = {j \in Jobs : Known(j) # "none"}
      /\ up
  BY DEF Bootstrap
<1>3. \A j \in Jobs : /\ Known(j) \in {"none", local[j], stored[j]}
                      /\ Known(j) \in {"none", "running"} \cup TERMINAL_STATUSES
  BY DEF Known, TypeOK
<1>4. known' \in [Jobs -> {"none", "running"} \cup TERMINAL_STATUSES] /\ todo' \subseteq Jobs
      /\ \A j \in Jobs : known'[j] \in {known[j], "none", local[j], stored[j]}
  BY <1>2, <1>3
<1>5. connected' \in BOOLEAN /\ (connected' => up')
  BY <1>2 DEF Bootstrap, TypeOK
<1>6. TypeOK'
  BY <1>2, <1>4, <1>5 DEF TypeOK, tasks
<1>. QED BY <1>1, <1>2, <1>4, <1>6, OrderlyKeeps DEF Orderly, Advances, tasks

\* A reconciliation that is given up.
LEMMA UnaskedKeeps ==
    ASSUME IInv, Unasked, UNCHANGED <<cvars, tasks, life, pending>>, losses' \in 0..MaxLosses
    PROVE  IInv'
<1>1. Settling
  BY NodeSettles
<1>2. TypeOK'
  BY DEF IInv, TypeOK, Unasked, tasks, life
<1>3. \A j \in Jobs : known'[j] = "none"
  BY DEF Unasked
<1>. QED BY <1>1, <1>2, <1>3, OrderlyKeeps DEF Orderly, Advances, tasks, Unasked

LEMMA EntryKeeps ==
    ASSUME IInv, NEW j \in Jobs, Entry(j)
    PROVE  IInv'
<1>. USE DEF IInv
<1>1. UNCHANGED <<tasks, life, known, pending, losses>> /\ todo' = todo \ {j}
  BY DEF Entry
<1>2. CASE /\ known[j] \in TERMINAL_STATUSES
           /\ \/ Settled(j) /\ UNCHANGED cvars
              \/ Center!ReconcileToTerminal(j, known[j])
           /\ closing' = closing \cup {j}
           /\ UNCHANGED cancelling
  <2>1. Settling /\ Settled(j)'
    <3>1. CASE Settled(j) /\ UNCHANGED cvars
      BY <3>1, NodeSettles DEF Settled, cvars
    <3>2. CASE Center!ReconcileToTerminal(j, known[j])
      <4>1. known[j] = "succeeded" => truth[j] = "succeeded"
        BY DEF SuccessesReal
      <4>. QED BY <1>2, <3>2, <4>1, ReportSettles
    <3>. QED BY <1>2, <3>1, <3>2
  <2>2. TypeOK'
    BY <1>1, <1>2 DEF TypeOK, tasks, life
  <2>. QED BY <1>1, <1>2, <2>1, <2>2, OrderlyKeeps
           DEF Orderly, Advances, tasks, life, KnownWhileUp
<1>3. CASE /\ cancelling' \in {cancelling, cancelling \cup {j}}
           /\ UNCHANGED <<cvars, closing>>
  <2>1. Settling
    BY <1>3, NodeSettles
  <2>2. TypeOK'
    BY <1>1, <1>3 DEF TypeOK, tasks, life
  <2>. QED BY <1>1, <1>3, <2>1, <2>2, OrderlyKeeps
           DEF Orderly, Advances, tasks, life, KnownWhileUp
<1>. QED BY <1>2, <1>3 DEF Entry

\* The answers are applied to jobs that may have gone on meanwhile.
LEMMA ReconciledKeeps == ASSUME IInv, Reconciled PROVE IInv'
<1>. USE StatusFacts DEF IInv
<1>. DEFINE stopped == {j \in cancelling : stage[j] # "none"}
<1>1. /\ MarkReported(closing)
      /\ listed' = listed \ {j \in closing : local[j] # "running"}
      /\ local' = [j \in Jobs |-> IF j \in stopped /\ stage[j] \in InTry
                                  THEN "cancelled" ELSE local[j]]
      /\ truth' = [j \in Jobs |-> IF j \in stopped /\ stage[j] = "executing"
                                  THEN "cancelled" ELSE truth[j]]
      /\ stage' = [j \in Jobs |-> IF j \notin stopped THEN stage[j]
                                  ELSE IF stage[j] \in InTry THEN "event" ELSE "none"]
      /\ renewing' = renewing \ {j \in stopped : stage[j] \notin InTry}
      /\ pending' = pending \cup {Message(j) : j \in {i \in stopped : Asking(i)}}
      /\ Unasked /\ connected' = TRUE
      /\ UNCHANGED <<cvars, up, crashes, stored, runs, losses>>
      /\ \E j \in Jobs : known[j] # "none"
  BY DEF Reconciled
<1>. HIDE DEF stopped
<1>2. stopped \subseteq Jobs /\ closing \subseteq Jobs /\ \A j \in stopped : stage[j] # "none"
  BY DEF TypeOK, stopped
<1>3. up /\ connected' = TRUE /\ up' = up
  BY <1>1 DEF KnownWhileUp
<1>4. /\ reported' \subseteq reported \cup closing
      /\ reported' \subseteq {j \in Jobs : stored'[j] # "none"}
  BY <1>1, <1>2, MarkFacts
<1>5. \A j \in stopped : Asking(j) => Message(j) \in Messages /\ Truthful(Message(j))
                                      /\ Message(j).job = j
  BY <1>2, MessageTruthful
<1>6. \A j \in Jobs : known'[j] = "none"
  BY <1>1 DEF Unasked
<1>7. TypeOK'
  <2>1. /\ listed' \subseteq Jobs
        /\ local' \in [Jobs -> {"none", "running"} \cup TERMINAL_STATUSES]
        /\ truth' \in [Jobs -> {"none"} \cup TERMINAL_STATUSES]
    BY <1>1 DEF TypeOK
  <2>2. stage' \in [Jobs -> Stages]
    BY <1>1 DEF TypeOK, Stages
  <2>3. renewing' \subseteq {j \in Jobs : stage'[j] # "none"}
    BY <1>1 DEF TypeOK
  <2>4. pending' \subseteq Messages
    BY <1>1, <1>5 DEF TypeOK
  <2>5. /\ known' \in [Jobs -> {"none", "running"} \cup TERMINAL_STATUSES]
        /\ todo' \subseteq Jobs /\ closing' \subseteq Jobs /\ cancelling' \subseteq Jobs
    BY <1>1 DEF Unasked
  <2>6. up' \in BOOLEAN /\ connected' \in BOOLEAN /\ (connected' => up')
    BY <1>3
  <2>. QED BY <1>1, <1>4, <2>1, <2>2, <2>3, <2>4, <2>5, <2>6 DEF TypeOK
<1>8. StagesFit'
  BY <1>1 DEF StagesFit, Before, After, InTry
<1>9. UntouchedWhileWaiting'
  BY <1>1, <1>2 DEF UntouchedWhileWaiting, cvars
<1>10. SuccessesReal'
  <2>1. \A j \in Jobs : truth[j] = "succeeded" => truth'[j] = "succeeded"
    BY <1>1 DEF StagesFit, Before
  <2>2. \A j \in Jobs : "succeeded" \in {local'[j], stored'[j], known'[j]}
                            => truth'[j] = "succeeded"
    BY <1>1, <1>6, <2>1 DEF SuccessesReal
  <2>3. \A m \in pending' : m \in Messages /\ Truthful(m)
    BY <1>1, <1>5 DEF SuccessesReal, Truthful, TypeOK
  <2>4. \A m \in pending' : m.job \in Jobs
    BY <2>3 DEF Messages
  <2>5. \A m \in pending' : m.kind = "finished" =>
           /\ m.result \in TERMINAL_STATUSES
           /\ m.result = "succeeded" => truth'[m.job] = "succeeded"
    BY <2>1, <2>3, <2>4 DEF Truthful
  <2>. QED BY <2>2, <2>5 DEF SuccessesReal
<1>11. UnlistedSettled'
  <2>. SUFFICES ASSUME NEW j \in Jobs \ listed'
                PROVE  \/ local'[j] = "none" /\ stage'[j] = "none"
                       \/ local'[j] \in TERMINAL_STATUSES /\ Settled(j)'
    BY DEF UnlistedSettled
  <2>1. Settled(j)' = Settled(j)
    BY <1>1 DEF Settled, cvars
  <2>2. CASE j \in listed
    <3>1. Settled(j) /\ local[j] # "running"
      BY <1>1, <2>2 DEF ReportedSettled
    <3>2. CASE local[j] = "none"
      <4>1. stage[j] = "none"
        BY <3>2 DEF StagesFit, TypeOK, Stages, Before, After
      <4>. QED BY <1>1, <1>2, <3>2, <4>1
    <3>3. CASE local[j] \in TERMINAL_STATUSES
      BY <1>1, <2>1, <3>1, <3>3
    <3>. QED BY <3>1, <3>2, <3>3 DEF TypeOK
  <2>3. CASE j \notin listed
    <3>1. CASE local[j] = "none" /\ stage[j] = "none"
      BY <1>1, <1>2, <3>1
    <3>2. CASE local[j] \in TERMINAL_STATUSES /\ Settled(j)
      BY <1>1, <2>1, <3>2
    <3>. QED BY <2>3, <3>1, <3>2 DEF UnlistedSettled
  <2>. QED BY <2>2, <2>3
<1>12. ReportedSettled'
  BY <1>1, <1>2, <1>4 DEF ReportedSettled, Settled, Unasked, cvars
<1>13. KnownWhileUp' /\ CenterTyped' /\ RunsOnce'
  BY <1>1, <1>6 DEF KnownWhileUp, CenterTyped, RunsOnce, cvars
<1>14. SuccessIsReal'
  BY <1>1 DEF SuccessIsReal, StagesFit, Before, cvars
<1>. QED BY <1>7, <1>8, <1>9, <1>10, <1>11, <1>12, <1>13, <1>14

---------------------------------------------------------------------------
LEMMA IInvStep == IInv /\ [Next]_vars => IInv'
<1>. SUFFICES ASSUME IInv, [Next]_vars PROVE IInv'
  OBVIOUS
<1>1. CASE Poll
  BY <1>1, PollKeeps
<1>2. ASSUME NEW j \in Jobs, TaskStep(j) PROVE IInv'
  BY <1>2, AskingKeeps, EventKeeps, ExecuteKeeps, RenewKeeps DEF TaskStep
<1>3. ASSUME NEW m \in pending, Late(m) PROVE IInv'
  BY <1>3, LateKeeps
<1>4. CASE Start \/ Crash \/ Heartbeat
  BY <1>4, StartKeeps, CrashKeeps, HeartbeatKeeps
<1>5. CASE Bootstrap \/ Reconciled
  BY <1>5, BootstrapKeeps, ReconciledKeeps
<1>6. CASE BootstrapFails
  <2>1. losses' \in 0..MaxLosses /\ pending' = pending
    <3>1. TypeOK
      BY DEF IInv
    <3>. QED BY <1>6, <3>1, LoseFacts DEF BootstrapFails
  <2>. QED BY <1>6, <2>1, UnaskedKeeps DEF BootstrapFails
<1>7. ASSUME NEW j \in Jobs, Entry(j) \/ EntryRefused(j) PROVE IInv'
  <2>1. CASE EntryRefused(j)
    BY <2>1, UnaskedKeeps DEF EntryRefused, IInv, TypeOK
  <2>. QED BY <1>7, <2>1, EntryKeeps
<1>8. CASE CenterStep
  <2>1. TypeOK'
    BY <1>8 DEF CenterStep, IInv, TypeOK, tasks, talk, life
  <2>. QED BY <1>8, <2>1, CenterSettles, QuietKeeps DEF CenterStep, tasks, life
<1>9. CASE CenterRestarts
  <2>1. TypeOK'
    BY <1>9 DEF CenterRestarts, IInv, TypeOK, tasks, talk, life
  <2>. QED BY <1>9, <2>1, CenterSettles, QuietKeeps DEF CenterRestarts, tasks, life
<1>10. CASE UNCHANGED vars
  <2>1. TypeOK'
    BY <1>10 DEF vars, IInv, TypeOK, tasks, talk, life
  <2>2. Settling
    BY <1>10, NodeSettles DEF vars
  <2>. QED BY <1>10, <2>1, <2>2, QuietKeeps DEF vars, tasks, life
<1>. QED BY <1>1, <1>2, <1>3, <1>4, <1>5, <1>6, <1>7, <1>8, <1>9, <1>10 DEF Next

LEMMA IInvInit == Init => IInv
<1>. SUFFICES ASSUME Init PROVE IInv
  OBVIOUS
<1>. USE StatusFacts DEF Init
<1>1. TypeOK
  <2>1. stage \in [Jobs -> Stages]
    BY DEF Stages
  <2>2. crashes \in 0..MaxCrashes /\ losses \in 0..MaxLosses
    BY WinAssumption
  <2>3. /\ local \in [Jobs -> {"none", "running"} \cup TERMINAL_STATUSES]
        /\ known \in [Jobs -> {"none", "running"} \cup TERMINAL_STATUSES]
        /\ stored \in [Jobs -> {"none"} \cup TERMINAL_STATUSES]
        /\ truth \in [Jobs -> {"none"} \cup TERMINAL_STATUSES]
        /\ runs \in [Jobs -> 0..2]
    OBVIOUS
  <2>4. up = FALSE /\ connected = FALSE
    OBVIOUS
  <2>. QED BY <2>1, <2>2, <2>3, <2>4 DEF TypeOK
<1>2. \A j \in Jobs : status[j] = "none"
  BY DEF Center!Init
<1>3. CenterTyped
  BY DEF Center!Init, CenterTyped
<1>4. StagesFit /\ UntouchedWhileWaiting /\ SuccessesReal /\ UnlistedSettled
  BY DEF StagesFit, UntouchedWhileWaiting, SuccessesReal, UnlistedSettled, Before, After
<1>5. ReportedSettled /\ KnownWhileUp /\ RunsOnce /\ SuccessIsReal
  BY <1>2 DEF ReportedSettled, KnownWhileUp, RunsOnce, SuccessIsReal
<1>. QED BY <1>1, <1>3, <1>4, <1>5 DEF IInv

THEOREM Invariance == Spec => []IInv
<1>. QED BY IInvInit, IInvStep, PTL DEF Spec

\* Type correctness of the specification.
THEOREM TypeCorrect == Spec => []TypeOK
<1>1. IInv => TypeOK
  BY DEF IInv
<1>. QED BY <1>1, Invariance, PTL

\* No lost or late request, crash or reconciliation makes the daemon execute a job twice.
THEOREM ExecutedOnce == Spec => []RunsOnce
<1>1. IInv => RunsOnce
  BY DEF IInv
<1>. QED BY <1>1, Invariance, PTL

\* The Center records a success only of a job whose function returned.
THEOREM SuccessesAreReal == Spec => []SuccessIsReal
<1>1. IInv => SuccessIsReal
  BY DEF IInv
<1>. QED BY <1>1, Invariance, PTL

\* The daemon forgets only results of jobs the Center has settled.
THEOREM NothingForgotten == Spec => []ForgottenIsSettled
<1>1. IInv => ForgottenIsSettled
  BY StatusFacts DEF IInv, ForgottenIsSettled, ReportedSettled, UnlistedSettled
<1>. QED BY <1>1, Invariance, PTL

---------------------------------------------------------------------------
\* The refinement.

\* A message that is taken is a step of the Center, or changes nothing of it.
LEMMA HandledIsCenterStep ==
    ASSUME NEW m \in Messages, Truthful(m), Handled(m) \/ Refused(m)
    PROVE  Center!Next \/ UNCHANGED cvars
<1>1. m.job \in Jobs
  BY DEF Messages
<1>2. CASE Center!HandleJobAccepted(m.job)
  BY <1>1, <1>2 DEF Center!Next, Center!JobStep
<1>3. CASE m.kind = "finished" /\ Center!HandleJobFinished(m.job, m.result)
  <2>1. m.result \in Center!TERMINAL_STATUSES
    BY <1>3, StatusFacts DEF Truthful
  <2>. QED BY <1>1, <1>3, <2>1 DEF Center!Next, Center!JobStep
<1>. QED BY <1>2, <1>3 DEF Handled, Refused

\* The daemon asks for no more jobs than it could ever run, although it subtracts the
\* running ones twice.
LEMMA PollIsCenterStep == TypeOK /\ Poll => Center!Next
<1>. SUFFICES ASSUME TypeOK, Poll PROVE Center!Next
  OBVIOUS
<1>1. IsFiniteSet(Running)
  BY WinAssumption, FS_Subset DEF Running, TypeOK
<1>2. Cardinality(Running) \in Nat
  BY <1>1, FS_CardinalityType
<1>3. AvailableSlots \in 1..MaxConcurrent
  BY <1>2, WinAssumption DEF Poll, AvailableSlots, Free
<1>4. Center!HandleJobPoll(n, AvailableSlots)
  BY DEF Poll
<1>. QED BY <1>3, <1>4 DEF Center!Next, Center!NodeStep

\* The Center with a daemon that loses requests, sends late ones and crashes behaves as
\* the Center alone is specified to, so the theorems about JobRuntime hold of it.
THEOREM Composition == Spec => ImplementsCenter
<1>1. Init => Center!Init
  BY DEF Init
<1>2. IInv /\ [Next]_vars => [Center!Next]_(Center!vars)
  <2>. SUFFICES ASSUME IInv, [Next]_vars PROVE Center!Next \/ UNCHANGED cvars
    BY DEF Center!vars, cvars
  <2>1. CASE Poll
    BY <2>1, PollIsCenterStep DEF IInv
  <2>2. ASSUME NEW j \in Jobs, TaskStep(j) PROVE Center!Next \/ UNCHANGED cvars
    <3>1. CASE Answered(j) \/ Unanswered(j)
      <4>1. Message(j) \in Messages /\ Truthful(Message(j))
        BY <3>1, MessageTruthful DEF Answered, Unanswered
      <4>. QED BY <3>1, <4>1, HandledIsCenterStep DEF Answered, Unanswered
    <3>2. CASE RenewLease(j)
      BY <3>2 DEF RenewLease, Center!Next, Center!JobStep
    <3>3. CASE EventSent(j) \/ EventFails(j) \/ Execute(j)
      BY <3>3 DEF EventSent, EventFails, Execute
    <3>. QED BY <2>2, <3>1, <3>2, <3>3 DEF TaskStep
  <2>3. ASSUME NEW m \in pending, Late(m) PROVE Center!Next \/ UNCHANGED cvars
    <3>1. m \in Messages /\ Truthful(m)
      BY DEF IInv, TypeOK, SuccessesReal, Truthful
    <3>. QED BY <2>3, <3>1, HandledIsCenterStep DEF Late
  <2>4. CASE Start \/ Crash \/ BootstrapFails \/ Reconciled
    BY <2>4 DEF Start, Crash, BootstrapFails, Reconciled
  <2>5. CASE Heartbeat \/ Bootstrap
    BY <2>5 DEF Heartbeat, Bootstrap, Center!Next, Center!NodeStep
  <2>6. ASSUME NEW j \in Jobs, Entry(j) \/ EntryRefused(j) PROVE Center!Next \/ UNCHANGED cvars
    <3>1. CASE known[j] \in TERMINAL_STATUSES /\ Center!ReconcileToTerminal(j, known[j])
      BY <3>1, StatusFacts DEF Center!Next, Center!JobStep
    <3>. QED BY <2>6, <3>1 DEF Entry, EntryRefused
  <2>7. CASE CenterStep
    BY <2>7 DEF CenterStep, Center!Next, Center!JobStep
  <2>8. CASE CenterRestarts
    BY <2>8 DEF CenterRestarts, Center!Next
  <2>9. CASE UNCHANGED vars
    BY <2>9 DEF vars, cvars
  <2>. QED BY <2>1, <2>2, <2>3, <2>4, <2>5, <2>6, <2>7, <2>8, <2>9 DEF Next
<1>. QED BY <1>1, <1>2, Invariance, PTL DEF Spec, ImplementsCenter, Center!Spec
=============================================================================
