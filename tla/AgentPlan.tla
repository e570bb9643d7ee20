----------------------------- MODULE AgentPlan -----------------------------
(***************************************************************************)
(* The steps the Agent draws up for a maintenance plan: look, repair when  *)
(* something is wrong, look again (agent/agent_service.py; the same steps  *)
(* are made in agent/agent_stream.py).  The provider only says what is     *)
(* wanted and which calls it would make; the functions are chosen here.    *)
(***************************************************************************)
EXTENDS Naturals, Sequences

CONSTANTS
    available,   \* names of the functions of the node, in the order they are listed
    tool,        \* of each name: effect, family, and what the name says it is for
    answers,     \* calls the provider may propose: sequences of names
    NoFunction   \* a name no function has

Words == {"status", "looks", "undoes"}

ASSUME ToolAssumption ==
    /\ available \in Seq(DOMAIN tool)
    /\ NoFunction \notin DOMAIN tool
    /\ \A f \in DOMAIN tool :
        /\ tool[f].effect \in {"read", "write", "destructive"}
        /\ tool[f].words \subseteq Words
        /\ tool[f].urgency \in Nat     \* place of its verb: ensure, repair, restart, set, start, other
        /\ tool[f].place \in Nat       \* place of its name in the alphabet
    /\ \A f, g \in DOMAIN tool : tool[f].place = tool[g].place => f = g

\* A provider may name functions there are not.
Names == STRING

ASSUME AnswersAssumption == answers \subseteq Seq(Names)

Available == {available[i] : i \in DOMAIN available}

\* A provider that fails or does not answer in time has proposed nothing.
_infer_plan_seed_calls == answers \cup {<<>>}

Readers == {f \in Available : tool[f].effect = "read"}
Writers == {f \in Available : tool[f].effect \in {"write", "destructive"}}
Family(f) == {g \in Available : tool[g].family = tool[f].family}

\* The first of S by rank, then by name.
Foremost(S, rank) ==
    CHOOSE f \in S : \A g \in S :
        \/ rank[f] < rank[g]
        \/ rank[f] = rank[g] /\ tool[f].place <= tool[g].place

Alike == [f \in DOMAIN tool |-> 0]
StatusFirst == [f \in DOMAIN tool |-> IF "status" \in tool[f].words THEN 0 ELSE 1]
Urgency == [f \in DOMAIN tool |-> tool[f].urgency]

Proposed(seeds, S) == {i \in DOMAIN seeds : seeds[i] \in S}

\* The call that was proposed first, of those that name a member of S.
FirstProposed(seeds, S) ==
    seeds[CHOOSE i \in Proposed(seeds, S) : \A j \in Proposed(seeds, S) : i <= j]

\* Without a function that reads, the first one listed.
_select_check_function(seeds) ==
    LET looking == {f \in Readers : "looks" \in tool[f].words} IN
    IF Proposed(seeds, Readers) # {} THEN FirstProposed(seeds, Readers)
    ELSE IF looking # {} THEN Foremost(looking, StatusFirst)
    ELSE IF Readers # {} THEN Foremost(Readers, Alike)
    ELSE IF available # <<>> THEN available[1] ELSE NoFunction

_select_repair_function(looked, seeds) ==
    LET related == IF looked \in Available THEN Writers \cap Family(looked) ELSE {} IN
    IF Proposed(seeds, Writers) # {} THEN FirstProposed(seeds, Writers)
    ELSE IF related # {} THEN Foremost(related, Urgency)
    ELSE IF Writers # {} THEN Foremost(Writers, Urgency)
    ELSE NoFunction

_select_rollback_function(looked) ==
    LET undoing == {f \in Writers \cap Family(looked) : "undoes" \in tool[f].words} IN
    IF undoing # {} THEN Foremost(undoing, Alike) ELSE NoFunction

\* NoFunction asks for a review by hand.
_build_rollback_hint(looked) == _select_rollback_function(looked)

Check(looked) ==
    [kind |-> "check", function |-> looked, condition |-> "always", depends_on |-> {},
     requires_approval |-> FALSE, continue_on_failure |-> FALSE, rollback_hint |-> NoFunction]

Repair(looked, repair) ==
    [kind |-> "repair", function |-> repair, condition |-> "if_previous_unhealthy",
     depends_on |-> {1}, requires_approval |-> TRUE, continue_on_failure |-> FALSE,
     rollback_hint |-> _build_rollback_hint(looked)]

\* It names the step it depends on as if there always were a repair.
Verify(looked) ==
    [kind |-> "verify", function |-> looked, condition |-> "after_repair", depends_on |-> {2},
     requires_approval |-> FALSE, continue_on_failure |-> FALSE, rollback_hint |-> NoFunction]

\* No steps when a function is not available: there is no plan then.
agent_plan(intent, seeds) ==
    LET looked == _select_check_function(seeds)
        repair == _select_repair_function(looked, seeds)
    IN  IF looked \notin Available THEN <<>>
        ELSE IF intent = "readonly_check" THEN <<Check(looked)>>
        ELSE IF repair = NoFunction THEN <<Check(looked), Verify(looked)>>
        ELSE <<Check(looked), Repair(looked, repair), Verify(looked)>>

\* What the provider may say is wanted; anything else fails the request.
Intents == {"readonly_check", "check_and_fix"}

AgentPlans == {agent_plan(intent, seeds) : intent \in Intents, seeds \in _infer_plan_seed_calls} \ {<<>>}
=============================================================================
