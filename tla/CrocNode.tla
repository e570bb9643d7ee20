------------------------------ MODULE CrocNode ------------------------------
(***************************************************************************)
(* One end of a file transfer: how a node daemon, Linux or Windows, runs   *)
(* the attempts of one transfer.  Jobs arrive with an attempt number, the  *)
(* ledger of the node decides whether the attempt may start, a yq-croc     *)
(* process does the work, and the task that started it watches it, checks  *)
(* what was received and writes the end into the ledger.  The daemon can   *)
(* die at any moment; its processes live on.                               *)
(***************************************************************************)
EXTENDS Naturals, FiniteSets

CONSTANTS Setups,         \* the platforms and the kinds of transfer considered
          Jobs,           \* jobs for this transfer that reach the node
          MaxNumber,    \* bound: attempt numbers used
          MaxCrashes,     \* bound: crashes of the daemon
          MaxReconciles   \* bound: calls of linux.transfer.croc.reconcile

ResumeModes == {"resume", "overwrite", "fail_if_exists"}

Checks == {"none", "size", "hash"}

\* named: the job names a target_path.  check: what it says to expect there; with a hash comes a size.
AllSetups ==
    [platform : {"linux", "windows"}, role : {"sender"}, mode : {"resume"}, named : {FALSE},
     check : {"none"}]
    \cup [platform : {"linux", "windows"}, role : {"receiver"}, mode : ResumeModes,
          named : BOOLEAN, check : Checks]

ASSUME SetupsAssumption == Setups \subseteq AllSetups
ASSUME BoundsAssumption ==
    MaxNumber \in Nat /\ MaxCrashes \in Nat /\ MaxReconciles \in Nat

VARIABLES
    setup,       \* the platform, and what the jobs of the transfer ask for
    ledger,      \* the row, or the file, of the transfer in the node's ledger
    place,       \* what is at target_path
    entry,       \* what the newest other entry of output_dir is
    number,      \* per job: its attempt number, 0 before it arrives
    task,        \* per job: where its task in the daemon stands
    proc,        \* per job: its yq-croc process
    result,      \* per job: what the task returned
    told,        \* jobs whose cancellation the daemon has been told of
    crashes, reconciles,   \* counters of the bounds
    excuse       \* history: what has gone wrong with the ledger (see Excuses)

disk == <<place, entry>>
counters == <<crashes, reconciles>>
crocVars == <<setup, ledger, place, entry, number, task, proc, result, told, crashes, reconciles,
          excuse>>

Numbers == 1..MaxNumber
Content == {"none", "other", "partial", "whole"}
TerminalStatuses == {"succeeded", "failed", "cancelled", "interrupted"}
LedgerStatuses == {"none", "created", "running", "torn"} \cup TerminalStatuses
Preparing == {"looking", "replacing", "inserting"}
Stages == {"none", "created", "starting", "running", "exited", "broke", "stopped", "verified",
           "cancelled", "over"} \cup Preparing
Alive == {"alive", "full"}
\* The stages of a task whose attempt was admitted and has not ended.
Underway == Stages \ (Preparing \cup {"none", "over"})
\* raced: two tasks prepared the ledger at once.  stolen: an attempt was called interrupted while
\* its task or its process was at work.  torn: the daemon died while it wrote a ledger file.
\* forgotten: it died when the row of an earlier attempt was deleted and the next not inserted.
Excuses == {"raced", "stolen", "torn", "forgotten"}

NoEntry == [attempt |-> 0, status |-> "none"]
Linux == setup.platform = "linux"
Windows == setup.platform = "windows"
Receiving == setup.role = "receiver"
Working == {j \in Jobs : task[j] \notin {"none", "over"}}

CrocInit ==
    /\ setup \in Setups
    /\ ledger = NoEntry
    /\ place \in (IF Receiving /\ setup.named THEN {"none", "other"} ELSE {"none"})
    /\ entry \in (IF Receiving THEN {"none", "other"} ELSE {"none"})
    /\ number = [j \in Jobs |-> 0]
    /\ task = [j \in Jobs |-> "none"]
    /\ proc = [j \in Jobs |-> "none"]
    /\ result = [j \in Jobs |-> "none"]
    /\ told = {}
    /\ crashes = 0 /\ reconciles = 0
    /\ excuse = {}

CrocTypeOK ==
    /\ setup \in Setups
    /\ ledger \in [attempt : 0..MaxNumber, status : LedgerStatuses]
    /\ place \in Content /\ entry \in Content
    /\ number \in [Jobs -> 0..MaxNumber]
    /\ task \in [Jobs -> Stages]
    /\ proc \in [Jobs -> {"none", "ok", "bad", "dead"} \cup Alive]
    /\ result \in [Jobs -> {"none", "succeeded", "failed", "cancelled", "refused", "lost"}]
    /\ told \subseteq Jobs
    /\ crashes \in 0..MaxCrashes /\ reconciles \in 0..MaxReconciles
    /\ excuse \subseteq Excuses

----------------------------------------------------------------------------
(* What both daemons do with the job's input.                              *)

TaskGoes(j, stage) == task' = [task EXCEPT ![j] = stage]

TaskReturns(j, res) ==
    /\ TaskGoes(j, "over")
    /\ result' = [result EXCEPT ![j] = res]

\* fail_if_exists refuses a target, or without a target a directory, that is not empty.
TargetExists ==
    /\ Receiving /\ setup.mode = "fail_if_exists"
    /\ IF setup.named THEN place # "none" ELSE entry # "none"

\* overwrite removes what is at target_path before the ledger is asked.
ClearTarget ==
    place' = IF Receiving /\ setup.mode = "overwrite" /\ setup.named THEN "none" ELSE place

Received == IF setup.named THEN place ELSE entry

\* The received path is target_path if something is there, or else the newest entry of the
\* directory, which is moved to target_path.
MoveReceived ==
    IF setup.named /\ place = "none" /\ entry # "none"
      THEN place' = entry /\ entry' = "none"
      ELSE UNCHANGED disk

\* What checking what is there afterwards may say.  A hash tells the file; a size fits other files
\* too, is not compared for a directory, and not on Windows.
Verified ==
    LET content == IF setup.named /\ place = "none" THEN entry ELSE Received
    IN  IF content = "none" THEN {FALSE}
        ELSE IF setup.check = "hash" THEN {content = "whole"}
        ELSE IF setup.check = "size" /\ Linux /\ content # "whole" THEN BOOLEAN
        ELSE {TRUE}

\* Mutant: the attempt that ended may be made again.
AdmitsAgain(n) == ledger.attempt <= n /\ ledger.status \in TerminalStatuses

\* An existing entry lets a newer attempt in once its own attempt has ended.
Admits(n) == ledger.attempt < n /\ ledger.status \in TerminalStatuses

----------------------------------------------------------------------------
(* The Linux daemon: an SQLite row, written by single statements; tasks    *)
(* run in parallel.                                                        *)

\* UPDATE ... WHERE transfer_id: whatever attempt the row is of, if there is one.
UpdateStatus(status) ==
    ledger' = IF ledger = NoEntry THEN ledger ELSE [ledger EXCEPT !.status = status]

\* A capability that is disabled, an input or a source that will not do, a target that exists.
LinuxExecute(j, n) ==
    /\ Linux /\ task[j] = "none"
    /\ number' = [number EXCEPT ![j] = n]
    /\ \/ TaskReturns(j, "refused") /\ UNCHANGED place
       \/ ~TargetExists /\ TaskGoes(j, "looking") /\ ClearTarget /\ UNCHANGED result
    /\ UNCHANGED <<setup, ledger, entry, proc, told, counters, excuse>>

PrepareLookup(j) ==
    /\ task[j] = "looking"
    /\ \/ ledger = NoEntry /\ TaskGoes(j, "inserting") /\ UNCHANGED result
       \/ Admits(number[j]) /\ TaskGoes(j, "replacing") /\ UNCHANGED result
       \/ ledger # NoEntry /\ ~Admits(number[j]) /\ TaskReturns(j, "refused")
    /\ excuse' = IF \E k \in Jobs \ {j} : task[k] \in Preparing
                   THEN excuse \cup {"raced"} ELSE excuse
    /\ UNCHANGED <<setup, ledger, disk, number, proc, told, counters>>

PrepareDelete(j) ==
    /\ task[j] = "replacing"
    /\ ledger' = NoEntry
    /\ TaskGoes(j, "inserting")
    /\ UNCHANGED <<setup, disk, number, proc, result, told, counters, excuse>>

\* transfer_id is unique, so the later of two inserts fails.
PrepareInsert(j) ==
    /\ task[j] = "inserting"
    /\ IF ledger = NoEntry
         THEN /\ ledger' = [attempt |-> number[j], status |-> "created"]
              /\ TaskGoes(j, "created") /\ UNCHANGED result
         ELSE TaskReturns(j, "refused") /\ UNCHANGED ledger
    /\ UNCHANGED <<setup, disk, number, proc, told, counters, excuse>>

LinuxBegin(j) ==
    /\ task[j] = "created"
    /\ UpdateStatus("running")
    /\ TaskGoes(j, "starting")
    /\ UNCHANGED <<setup, disk, number, proc, result, told, counters, excuse>>

\* The probe of the binary, the request file or the spawn can fail; some of these errors count as
\* an execution that failed, the others end the attempt at once.
RunYqCroc(j) ==
    /\ Linux /\ task[j] = "starting"
    /\ \/ TaskGoes(j, "running") /\ proc' = [proc EXCEPT ![j] = "alive"]
       \/ \E stage \in {"broke", "stopped"} : TaskGoes(j, stage) /\ UNCHANGED proc
    /\ UNCHANGED <<setup, ledger, disk, number, result, told, counters, excuse>>

\* Twice a second: a cancellation first, then the exit, then the deadline.  A child that is killed
\* has been waited for.
MonitorChild(j) ==
    /\ Linux /\ task[j] = "running"
    /\ \/ j \in told /\ TaskGoes(j, "cancelled") /\ proc' = [proc EXCEPT ![j] = "dead"]
       \/ j \notin told /\ proc[j] = "ok" /\ TaskGoes(j, "exited") /\ UNCHANGED proc
       \/ j \notin told /\ proc[j] = "bad" /\ TaskGoes(j, "broke") /\ UNCHANGED proc
       \/ /\ j \notin told /\ proc[j] \in Alive
          /\ TaskGoes(j, "stopped") /\ proc' = [proc EXCEPT ![j] = "dead"]
    /\ UNCHANGED <<setup, ledger, disk, number, result, told, counters, excuse>>

\* What was received is moved and checked after a good exit, and, if the job says what to expect,
\* after a bad one too.  A check that fails after a good exit returns without a word to the ledger.
FinalizeAndVerify(j) ==
    /\ Linux /\ Receiving
    /\ task[j] = "exited" \/ (task[j] = "broke" /\ setup.check # "none")
    /\ MoveReceived
    /\ \/ TRUE \in Verified /\ TaskGoes(j, "verified") /\ UNCHANGED result
       \/ FALSE \in Verified /\ task[j] = "exited" /\ TaskReturns(j, "failed")
       \/ FALSE \in Verified /\ task[j] = "broke" /\ TaskGoes(j, "stopped") /\ UNCHANGED result
    /\ UNCHANGED <<setup, ledger, number, proc, told, counters, excuse>>

\* Mutant: an attempt that was cancelled is not recorded.
RecordEndUnlessCancelled(j) ==
    /\ Linux
    /\ \/ /\ task[j] = "verified" \/ (task[j] = "exited" /\ ~Receiving)
          /\ UpdateStatus("succeeded") /\ TaskReturns(j, "succeeded")
       \/ /\ task[j] = "stopped" \/ (task[j] = "broke" /\ setup.check = "none")
          /\ UpdateStatus("failed") /\ TaskReturns(j, "failed")
       \/ task[j] = "cancelled" /\ TaskReturns(j, "cancelled") /\ UNCHANGED ledger
    /\ UNCHANGED <<setup, disk, number, proc, told, counters, excuse>>

\* The end of the attempt in the ledger; a cancelled one is recorded as failed.
RecordEnd(j) ==
    /\ Linux
    /\ \/ /\ task[j] = "verified" \/ (task[j] = "exited" /\ ~Receiving)
          /\ UpdateStatus("succeeded") /\ TaskReturns(j, "succeeded")
       \/ /\ task[j] = "stopped" \/ (task[j] = "broke" /\ setup.check = "none")
          /\ UpdateStatus("failed") /\ TaskReturns(j, "failed")
       \/ task[j] = "cancelled" /\ UpdateStatus("failed") /\ TaskReturns(j, "cancelled")
    /\ UNCHANGED <<setup, disk, number, proc, told, counters, excuse>>

\* Every running entry is called interrupted: no pid was ever written that could be alive.
Reconcile ==
    /\ Linux /\ ledger.status = "running" /\ reconciles < MaxReconciles
    /\ UpdateStatus("interrupted")
    /\ reconciles' = reconciles + 1
    /\ excuse' = IF \E j \in Jobs : proc[j] \in Alive \/ task[j] \in Underway
                   THEN excuse \cup {"stolen"} ELSE excuse
    /\ UNCHANGED <<setup, disk, number, task, proc, result, told, crashes>>

----------------------------------------------------------------------------
(* The Windows daemon: a JSON file per transfer; tasks take turns on one   *)
(* event loop, so everything up to an await is one step.                   *)

\* The status, and with it the attempt of the task that writes it.
UpdateLedger(j, status) == ledger' = [attempt |-> number'[j], status |-> status]

\* A file that cannot be read counts as none.
PrepareLedger(n) == ledger.status \in {"none", "torn"} \/ Admits(n)

WinExecute(j, n) ==
    /\ Windows /\ task[j] = "none"
    /\ number' = [number EXCEPT ![j] = n]
    /\ \/ TaskReturns(j, "refused") /\ UNCHANGED <<place, ledger>>
       \/ ~TargetExists /\ ~PrepareLedger(n) /\ ClearTarget /\ TaskReturns(j, "refused")
          /\ UNCHANGED ledger
       \/ /\ ~TargetExists /\ PrepareLedger(n) /\ ClearTarget
          /\ UpdateLedger(j, "running")
          /\ TaskGoes(j, "starting") /\ UNCHANGED result
    /\ UNCHANGED <<setup, entry, proc, told, counters, excuse>>

\* In a thread: the binary, the request file, the process.
RunBlocking(j) ==
    /\ Windows /\ task[j] = "starting"
    /\ \/ TaskGoes(j, "running") /\ proc' = [proc EXCEPT ![j] = "alive"]
       \/ TaskGoes(j, "stopped") /\ UNCHANGED proc
    /\ UNCHANGED <<setup, ledger, disk, number, result, told, counters, excuse>>

WatchProcess(j) ==
    /\ Windows /\ task[j] = "running"
    /\ \/ proc[j] = "ok" /\ TaskGoes(j, "exited") /\ UNCHANGED proc
       \/ proc[j] = "bad" /\ TaskGoes(j, "stopped") /\ UNCHANGED proc
       \/ proc[j] \in Alive /\ TaskGoes(j, "stopped") /\ proc' = [proc EXCEPT ![j] = "dead"]
    /\ UNCHANGED <<setup, ledger, disk, number, result, told, counters, excuse>>

\* Mutant: the task ends, its process goes on.
TerminateNothing(j) ==
    /\ Windows /\ j \in told
    /\ task[j] \in {"starting", "running", "exited", "stopped"}
    /\ TaskGoes(j, "cancelled")
    /\ UNCHANGED <<setup, ledger, disk, number, proc, result, told, counters, excuse>>

\* A cancellation reaches the task at its await, whatever the thread is doing; the process, even
\* one that is only being started, is terminated and waited for.
TerminateProcess(j) ==
    /\ Windows /\ j \in told
    /\ task[j] \in {"starting", "running", "exited", "stopped"}
    /\ TaskGoes(j, "cancelled")
    /\ \/ proc' = [proc EXCEPT ![j] = IF @ \in Alive THEN "dead" ELSE @]
       \/ task[j] = "starting" /\ proc' = [proc EXCEPT ![j] = "dead"]
    /\ UNCHANGED <<setup, ledger, disk, number, result, told, counters, excuse>>

WinEnd(j) ==
    /\ Windows
    /\ UNCHANGED <<setup, number, proc, told, counters, excuse>>
    /\ \/ /\ task[j] = "exited" /\ ~Receiving
          /\ UpdateLedger(j, "succeeded") /\ TaskReturns(j, "succeeded") /\ UNCHANGED disk
       \/ /\ task[j] = "exited" /\ Receiving /\ MoveReceived
          /\ \/ TRUE \in Verified /\ UpdateLedger(j, "succeeded") /\ TaskReturns(j, "succeeded")
             \/ FALSE \in Verified /\ UpdateLedger(j, "failed") /\ TaskReturns(j, "failed")
       \/ /\ task[j] = "stopped"
          /\ UpdateLedger(j, "failed") /\ TaskReturns(j, "failed") /\ UNCHANGED disk
       \/ /\ task[j] = "cancelled"
          /\ UpdateLedger(j, "cancelled") /\ TaskReturns(j, "cancelled") /\ UNCHANGED disk

----------------------------------------------------------------------------
(* The process, the Center's cancel, and the death of the daemon.          *)

\* A receiver's process writes to target_path, or under a name of its own into the directory.
Puts(content) ==
    \/ ~Receiving /\ UNCHANGED disk
    \/ Receiving /\ setup.named /\ place' = content /\ UNCHANGED entry
    \/ Receiving /\ entry' = content /\ UNCHANGED place

ProcessStep(j) ==
    /\ \/ proc[j] = "alive" /\ Receiving /\ Puts("partial") /\ UNCHANGED proc
       \/ proc[j] = "alive" /\ Puts("whole") /\ proc' = [proc EXCEPT ![j] = "full"]
       \/ proc[j] = "full" /\ UNCHANGED disk /\ proc' = [proc EXCEPT ![j] = "ok"]
       \/ proc[j] \in Alive /\ UNCHANGED disk /\ proc' = [proc EXCEPT ![j] = "bad"]
    /\ UNCHANGED <<setup, ledger, number, task, result, told, counters, excuse>>

CancelTask(j) ==
    /\ j \in Working /\ j \notin told
    /\ told' = told \cup {j}
    /\ UNCHANGED <<setup, ledger, disk, number, task, proc, result, counters, excuse>>

\* The daemon dies and starts again: tasks are gone, processes and files stay.  On Windows it may
\* die while a ledger file is being written.
Crash ==
    /\ Working # {} /\ crashes < MaxCrashes
    /\ crashes' = crashes + 1
    /\ task' = [j \in Jobs |-> IF j \in Working THEN "over" ELSE task[j]]
    /\ result' = [j \in Jobs |-> IF j \in Working THEN "lost" ELSE result[j]]
    /\ \/ /\ UNCHANGED ledger
          /\ excuse' = IF ledger = NoEntry /\ \E j \in Jobs : proc[j] # "none" \/ result[j] = "succeeded"
                         THEN excuse \cup {"forgotten"} ELSE excuse
       \/ /\ Windows
          /\ \E j \in Working : task[j] \in {"starting", "exited", "stopped", "cancelled"}
          /\ ledger' = [attempt |-> 0, status |-> "torn"]
          /\ excuse' = excuse \cup {"torn"}
    /\ UNCHANGED <<setup, disk, number, proc, told, reconciles>>

LinuxStep(j) ==
    \/ PrepareLookup(j) \/ PrepareDelete(j) \/ PrepareInsert(j) \/ LinuxBegin(j)
    \/ RunYqCroc(j) \/ MonitorChild(j) \/ FinalizeAndVerify(j) \/ RecordEnd(j)

WinStep(j) == RunBlocking(j) \/ WatchProcess(j) \/ TerminateProcess(j) \/ WinEnd(j)

CrocNext ==
    \/ \E j \in Jobs :
         \/ \E n \in Numbers : LinuxExecute(j, n) \/ WinExecute(j, n)
         \/ LinuxStep(j) \/ WinStep(j) \/ ProcessStep(j) \/ CancelTask(j)
    \/ Reconcile \/ Crash

\* A task that has started goes on as long as its daemon lives; the deadline ends its process.
Fairness == \A j \in Jobs : WF_crocVars(LinuxStep(j)) /\ WF_crocVars(WinStep(j))

CrocSpec == CrocInit /\ [][CrocNext]_crocVars /\ Fairness

----------------------------------------------------------------------------
(* Properties.                                                             *)

\* "Transfers are idempotent per transfer_id + Center-assigned attempt" (transfer_ledger.rs:5): no
\* attempt number is given to two processes, however often its job is repeated and whenever the
\* daemon dies, unless two tasks prepared the ledger at once, its file was torn, or the daemon died
\* between the deletion of one attempt's row and the insertion of the next.
AttemptRunsOnce ==
    excuse \cap {"raced", "torn", "forgotten"} = {} =>
        \A j, k \in Jobs :
            number[j] = number[k] /\ proc[j] # "none" /\ proc[k] # "none" => j = k

\* Two attempts never work on the same files at the same time, not even beside a process that
\* outlived its daemon, as long as nothing happened to the ledger.
OneAtATime ==
    excuse = {} => Cardinality({j \in Jobs : proc[j] \in Alive}) <= 1

\* What an attempt checked by its hash delivered stays whole for as long as the ledger says that this
\* attempt succeeded: no leftover process, no refused or repeated job touches it.  Jobs that overwrite are
\* left to RepeatIsHarmless.
DeliveredStays ==
    \A j \in Jobs :
        /\ result[j] = "succeeded" /\ setup.check = "hash" /\ excuse = {}
        /\ setup.mode # "overwrite"
        /\ ledger = [attempt |-> number[j], status |-> "succeeded"]
        => Received = "whole"

\* The same of every mode.  The code violates it: a job that overwrites removes the file before
\* the ledger refuses it (transfer_ledger.rs:5 calls transfers idempotent per attempt).
RepeatIsHarmless ==
    \A j \in Jobs :
        /\ result[j] = "succeeded" /\ setup.check = "hash" /\ excuse = {}
        /\ ledger = [attempt |-> number[j], status |-> "succeeded"]
        => Received = "whole"

\* An attempt never stays running in the ledger: it ends there too, unless the daemon died under
\* it, or, on Linux, what it received did not pass the check after a good exit (FinalizeAndVerify).
RunningEnds ==
    ledger.status \in {"created", "running"} ~>
        \/ ledger.status \notin {"created", "running"}
        \/ crashes > 0
        \/ Linux /\ \E j \in Jobs : result[j] = "failed" /\ proc[j] = "ok"

\* The contract for Linux nodes (docs/linux-node-development-contract.md:526) without the second
\* exception.  The code violates it.
FailureIsRecorded ==
    ledger.status \in {"created", "running"} ~>
        ledger.status \notin {"created", "running"} \/ crashes > 0

\* An entry of the directory that the transfer did not write is never moved to target_path.  The
\* code violates it: the newest entry is taken whatever it is.
OthersStay == [][entry = "other" => entry' # "none"]_crocVars
============================================================================
