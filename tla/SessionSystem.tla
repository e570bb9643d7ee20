---------------------------- MODULE SessionSystem ----------------------------
(***************************************************************************)
(* Three parts of an agent session: its memory (SessionMemory), the path   *)
(* of a capability call to a job (CapabilityCall, with the approval it may *)
(* need), and what the Center knows of one run (RunState).  They meet in a *)
(* round of tool calls, where the result of one is a value to the others;  *)
(* no action of one reads a variable of another.  Interleaving them would  *)
(* multiply states and add no behaviour of any, so a behaviour takes the   *)
(* steps of one of them.                                                   *)
(***************************************************************************)
EXTENDS CapabilityCall, Sequences

CONSTANTS
    Streams, Sources, Matches, Bindable, Makers, Effect, Batches, Search,
    Keep, Load, Recent, Limit, Remembered, MaxTurns, MaxSteps,
    Tools, Repairable, Plain, CodeOf, MaxToolCalls, MaxBatch, MaxIterations, MaxRaises

\* An error is none of the words for the other outcomes of a call, and has a code.
ASSUME RunAssumption ==
    /\ MaxToolCalls \in Nat
    /\ DOMAIN CodeOf = Repairable \cup Plain
    /\ DOMAIN CodeOf
          \cap {"none", "running", "succeeded", "waiting_approval", "waiting_operation"} = {}

\* A batch is a sequence of capabilities or searches; whatever can be a candidate has a rank.
ASSUME MemoryAssumption ==
    /\ Keep \in Nat /\ Load \in Nat /\ Recent \in Nat /\ Limit \in Nat /\ Remembered \in Nat
    /\ \A batch \in Batches : batch \in Seq(Sources \cup {Search})
    /\ IsFiniteSet(Matches)
    /\ LET takers == {Bindable[i] : i \in DOMAIN Bindable}
       IN  /\ Bindable \in Seq(takers)
           /\ \A x \in Sources \cup Matches \cup takers : Effect[x] \in Nat

VARIABLES
    rows, now, refs, facts, artifact, stream, turns, waiting, truncated,
    row, plan, stage, steps, toolCall, next, approval, op, working, missed, lost, raises,
    part   \* the part that takes steps

memoryVars == <<rows, now, refs, facts, artifact, stream, turns, waiting, truncated>>

runVars == <<row, plan, stage, steps, toolCall, next, approval, op, working, missed, lost, raises>>

Memory == INSTANCE SessionMemory

Run == INSTANCE RunState WITH call <- toolCall, doing <- working, MaxCalls <- MaxToolCalls,
    MaxSteps <- MaxIterations

SystemInit ==
    /\ Memory!Init
    /\ CallInit
    /\ Run!Init
    /\ part \in {"memory", "call", "run"}
    /\ part # "call" => listed = "allow"

SystemNext ==
    /\ \/ part = "memory" /\ Memory!Next /\ UNCHANGED <<allVars, runVars>>
       \/ part = "call" /\ CallNext /\ UNCHANGED <<memoryVars, runVars>>
       \/ part = "run" /\ Run!Next /\ UNCHANGED <<allVars, memoryVars>>
    /\ UNCHANGED part

systemVars == <<allVars, memoryVars, runVars, part>>

SystemSpec == SystemInit /\ [][SystemNext]_systemVars
---------------------------------------------------------------------------
\* Properties of the memory.

\* Whatever turns of a session save and trim at the same time, the messages sent to the
\* provider are a valid conversation: every answer follows its call.  As long as every turn
\* loaded the whole table.
PacketIsWhole == Memory!PacketIsWhole

\* What any call of the conversation found can be invoked in this turn and later ones,
\* as long as the conversation has not found more than the working set holds; once artifacts
\* order the candidates, as long as no more can be candidates.
FoundCanBeInvoked == Memory!FoundCanBeInvoked

\* Properties of the run.

\* A run does not end with its own answer while an error a corrected call may repair
\* stands.
AnswerIsRepaired == Run!AnswerIsRepaired

\* What the run's task state calls pending is, and what it waits for is pending in it.
PendingIsOpen == Run!PendingIsOpen
=============================================================================
