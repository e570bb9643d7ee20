---------------------------- MODULE SessionMemory ----------------------------
(***************************************************************************)
(* The memory of one agent session.  A turn loads the conversation, builds *)
(* a context packet from it before every model call, and saves what is new *)
(* when it ends; every save trims the table to the newest Keep messages.   *)
(* YCR keeps, beside the conversation, one reference per tool call (what   *)
(* the call found) and the session's capability facts; the packet's        *)
(* working set is read from both, and decides what capability.invoke may   *)
(* call in that step.  A save reads the table, decides, and commits later; *)
(* turns of one session overlap.                                           *)
(*                                                                         *)
(* Stages of a turn:                                                       *)
(*   "opening"   the history is loaded, the user's message not committed   *)
(*   "building"  about to ask YCR for the packet                           *)
(*   "asking"    the packet is built, the provider has not answered        *)
(*   "closing"   the history is being saved                                *)
(***************************************************************************)
EXTENDS Naturals, Sequences, FiniteSets, FiniteSetsExt, SequencesExt

CONSTANTS
    Streams,     \* turns that can run at once, numbered; a new turn takes the first free
    Sources,     \* capability sources the registry knows
    Matches,     \* sources the registry finds for the turn's objective
    Bindable,    \* the registry's list of sources that take an artifact as input
    Makers,      \* sources whose result is an artifact
    Effect,      \* of each source: the rank of the inputs it misses and of its effect
    Batches,     \* sequences of tool calls one answer may hold
    Search,      \* the discovery capability
    Keep,        \* keep_last of _trim_history (40)
    Load,        \* limit of _load_session_history (50)
    Recent,      \* RECENT_HISTORY_MESSAGES (10)
    Limit,       \* WORKING_SET_LIMIT (12)
    Remembered,  \* SESSION_STATE_LIMIT_PER_TYPE (8)
    MaxTurns,    \* bound: turns begun in a behaviour
    MaxSteps     \* max_steps of a turn

VARIABLES
    rows,    \* agent_messages: [msg, at], `at' orders created_at
    now,     \* the last created_at given out
    refs,    \* YcrContextRef of each tool call: the sources its result names
    facts,   \* capability facts of YcrSessionState, most recently seen first
    artifact,  \* YcrSessionState has a fact about an artifact
    stream,  \* the turn in progress of each stream
    turns,   \* turns begun
    waiting, \* operations turns wait for, to be reported
    truncated  \* a turn has loaded less than the whole table

memory == <<rows, now, refs, facts, artifact, stream, turns, waiting, truncated>>

Idle == [stage |-> "idle", hist |-> <<>>, add |-> {}, drop |-> {},
         allow |-> {}, step |-> 0, turn |-> 0]

\* A message; an assistant message with calls is followed by one tool message per call.
Message(id, role, calls) == [id |-> id, role |-> role, calls |-> calls]

Init ==
    /\ rows = {} /\ now = 0
    /\ refs = <<>> /\ facts = <<>> /\ artifact = FALSE
    /\ stream = [s \in Streams |-> Idle]
    /\ turns = 0 /\ waiting = 0 /\ truncated = FALSE
---------------------------------------------------------------------------
\* The table of messages.

Ids == {r.msg.id : r \in rows}

\* _load_session_history: the newest Load rows, oldest first.
History ==
    LET newest == {r \in rows : Cardinality({q \in rows : q.at > r.at}) < Load}
        Nth(i) == CHOOSE r \in newest : Cardinality({q \in newest : q.at < r.at}) = i - 1
    IN  [i \in 1..Cardinality(newest) |-> Nth(i).msg]

\* Mutant: the answers of a deleted call stay.
TrimPrefix(table) == {r \in table : Cardinality({q \in table : q.at > r.at}) >= Keep}

\* _trim_history: all but the newest Keep rows, and the answers of the calls that go.
Trim(table) ==
    LET prefix == {r \in table : Cardinality({q \in table : q.at > r.at}) >= Keep}
        orphaned == UNION {p.msg.calls : p \in {q \in prefix : q.msg.role = "assistant"}}
    IN  prefix \cup {r \in table : r.msg.role = "tool" /\ r.msg.calls \subseteq orphaned}

\* _save_session_history: a row, with a time of its own, for every message that is not in
\* the table.  The prompt as the model saw it and system messages are not saved.
Unsaved(messages) == {i \in DOMAIN messages : /\ messages[i].role \notin {"prompt", "system"}
                                              /\ messages[i].id \notin Ids}
NewRows(messages) == {[msg |-> messages[i], at |-> now + i] : i \in Unsaved(messages)}

\* The save's reads and inserts; its commit is a step of its own.
Save(s, turn, stage, messages) ==
    LET add == NewRows(messages)
    IN  /\ now' = now + Len(messages)
        /\ stream' = [stream EXCEPT ![s] = [turn EXCEPT
               !.stage = stage, !.add = add, !.drop = Trim(rows \cup add)]]

\* The commit.  A message another turn saved meanwhile violates the unique id and
\* takes the whole save with it.  The trim has seen the table of before or of now.
CommitSave(s) ==
    /\ stream[s].stage \in {"opening", "closing"}
    /\ \/ /\ \E r \in stream[s].add : r.msg.id \in Ids
          /\ stream' = [stream EXCEPT ![s] = Idle]
          /\ UNCHANGED rows
       \/ /\ \A r \in stream[s].add : r.msg.id \notin Ids
          /\ \E drop \in {stream[s].drop, Trim(rows \cup stream[s].add)} :
                rows' = (rows \cup stream[s].add) \ drop
          /\ stream' = [stream EXCEPT ![s] =
                IF @.stage = "opening"
                THEN [@ EXCEPT !.stage = "building", !.add = {}, !.drop = {}]
                ELSE Idle]
    /\ UNCHANGED <<now, refs, facts, artifact, turns, waiting, truncated>>
---------------------------------------------------------------------------
\* The context packet.

\* _compact_messages: the last Recent messages, from a message that is no answer;
\* those before become a summary.
Compact(history) ==
    IF Len(history) <= Recent THEN history
    ELSE LET first == Max({i \in 1..(Len(history) - Recent + 1) :
                               i = 1 \/ history[i].role # "tool"})
         IN  SubSeq(history, first, Len(history))

\* The elements of a finite set in an order, which is the set of its pairs.
Ordered(S, order) ==
    LET Nth(k) == CHOOSE x \in S : Cardinality({y \in S : <<y, x>> \in order}) = k - 1
    IN  [k \in 1..Cardinality(S) |-> Nth(k)]

\* The lists of a sequence of lists, one after the other.
Joined(lists) ==
    LET places == UNION {{i} \X (DOMAIN lists[i]) : i \in DOMAIN lists}
        order == {p \in places \X places :
                     \/ p[1][1] < p[2][1]
                     \/ p[1][1] = p[2][1] /\ p[1][2] < p[2][2]}
    IN  [k \in 1..Cardinality(places) |->
            LET place == Ordered(places, order)[k] IN lists[place[1]][place[2]]]

\* The first of each.
Distinct(seq) ==
    LET firsts == {i \in DOMAIN seq : \A j \in 1..(i - 1) : seq[j] # seq[i]}
        order == {p \in firsts \X firsts : p[1] < p[2]}
    IN  [k \in 1..Cardinality(firsts) |-> seq[Ordered(firsts, order)[k]]]

Take(seq, n) == SubSeq(seq, 1, Min({n, Len(seq)}))

\* The sources named by the references of a history's answers, oldest first.
FoundIn(history) ==
    Distinct(Joined([i \in DOMAIN history |->
        IF history[i].role = "tool" THEN refs[CHOOSE c \in history[i].calls : TRUE] ELSE <<>>]))

\* _bootstrap_working_set_from_intent: what the registry finds for the objective.  It is
\* not asked when every entry has its input schema.
Hits == {<<>>} \cup {<<m>> : m \in Matches}

\* The sources the session's artifacts can be bound to.
Bound == IF artifact THEN Bindable ELSE <<>>

\* Mutant: only the recent window is looked at.
WorkingSetRecent(history, hits) ==
    Take(Distinct(FoundIn(Compact(history)) \o hits \o Bound), Limit)

\* The working set: what the whole history found, then what the registry finds for
\* the objective, then what it offers for the session's artifacts.
WorkingSet(history, hits) == Take(Distinct(FoundIn(history) \o hits \o Bound), Limit)

\* _session_candidate_sort_key: what has an artifact bound to it first, then by what it
\* misses and by effect.
Prioritised(candidates, bound) ==
    LET places == DOMAIN candidates
        Sooner(x, y) ==
            \/ x \in bound /\ y \notin bound
            \/ (x \in bound <=> y \in bound) /\ Effect[x] < Effect[y]
        order == {p \in places \X places :
                     \/ Sooner(candidates[p[1]], candidates[p[2]])
                     \/ ~Sooner(candidates[p[2]], candidates[p[1]]) /\ p[1] < p[2]}
    IN  [k \in places |-> candidates[Ordered(places, order)[k]]]

\* What an artifact was bound to: what the artifacts brought into the working set.
NewlyBound(history, hits) ==
    (ToSet(Bound) \cap ToSet(WorkingSet(history, hits))) \ ToSet(FoundIn(history) \o hits)

\* _capability_candidates: the working set, then the session's facts; all of them are
\* ordered when one has an artifact bound to it, and cut again.
Candidates(history, hits) ==
    LET bound == NewlyBound(history, hits)
        known == Distinct(WorkingSet(history, hits) \o Take(facts, Remembered))
    IN  Take(IF bound = {} THEN known ELSE Prioritised(known, bound), Limit)

\* _tool_discovery_strategy.
Strategy(candidates) ==
    IF candidates = <<>> THEN "bootstrap_discovery" ELSE "reuse_working_set"

\* The allowlist: with a working set only the candidates and the discovery fallbacks,
\* without one anything.
Allowed(history, hits) ==
    LET candidates == Candidates(history, hits)
    IN  {Search} \cup IF Strategy(candidates) = "reuse_working_set"
                      THEN ToSet(candidates) ELSE Sources
---------------------------------------------------------------------------
\* A turn.

\* The id of the next message of a turn.
NextId(turn) == <<turn.turn, Len(turn.hist)>>

\* Block 2 of agent_invoke_stream.  A turn that reports the end of an operation (the
\* operation reporter begins it) saves no user message.
Begin(s, report) ==
    /\ stream[s].stage = "idle" /\ \A t \in Streams : t < s => stream[t].stage # "idle"
    /\ turns < MaxTurns
    /\ turns' = turns + 1
    /\ truncated' = (truncated \/ Cardinality(rows) > Load)
    /\ LET user == <<turns + 1, 0>>
           turn == [Idle EXCEPT !.turn = turns + 1,
                                !.hist = Append(History, Message(user, "prompt", {}))]
       IN  IF report
           THEN /\ waiting > 0
                /\ waiting' = waiting - 1
                /\ stream' = [stream EXCEPT ![s] = [turn EXCEPT !.stage = "building"]]
                /\ UNCHANGED now
           ELSE /\ Save(s, turn, "opening", <<Message(user, "user", {})>>)
                /\ UNCHANGED waiting
    /\ UNCHANGED <<rows, refs, facts, artifact>>

\* build_agent_context_packet, which needs the reference of every answer.
BuildTurn(s) ==
    /\ stream[s].stage = "building"
    /\ stream[s].step < MaxSteps
    /\ \A i \in DOMAIN stream[s].hist :
          stream[s].hist[i].role = "tool" => stream[s].hist[i].calls \subseteq DOMAIN refs
    /\ \E hits \in Hits :
          stream' = [stream EXCEPT ![s].stage = "asking",
                                   ![s].step = @ + 1,
                                   ![s].allow = Allowed(stream[s].hist, hits)]
    /\ UNCHANGED <<rows, now, refs, facts, artifact, turns, waiting, truncated>>

\* What a call may come to: one outside the working set is refused, a search names a
\* source, a capability runs or leaves an operation to wait for.
Outcome(found, waits, made) == [found |-> found, waits |-> waits, made |-> made]

Outcomes(s, of) ==
    IF of \notin stream[s].allow THEN {Outcome(<<>>, FALSE, FALSE)}
    ELSE IF of = Search THEN {Outcome(<<hit>>, FALSE, FALSE) : hit \in Sources}
    ELSE {Outcome(<<>>, FALSE, of \in Makers), Outcome(<<>>, TRUE, FALSE)}

\* upsert_ref: the reference of each call, with what its result names.
RefsWith(results) ==
    [c \in DOMAIN refs \cup DOMAIN results |->
        IF c \in DOMAIN results THEN results[c].found ELSE refs[c]]

\* ingest_tool_observation_state: what was seen last comes first.
FactsWith(results, order) ==
    Distinct(Joined([i \in 1..(Len(order) + 1) |->
        IF i > Len(order) THEN facts ELSE results[order[Len(order) + 1 - i]].found]))

\* _upsert_artifact_fact.
ArtifactWith(results) == artifact \/ \E c \in DOMAIN results : results[c].made

\* store_tool_observation, one transaction per call.
Store(results, order) ==
    /\ refs' = RefsWith(results)
    /\ facts' = FactsWith(results, order)
    /\ artifact' = ArtifactWith(results)

\* The provider answers with tool calls, they run (ToolRound has their schedule), and
\* their answers join the history in the order of the calls.  The turn goes on, or
\* stops to wait for an operation.
Round(s, batch) ==
    /\ stream[s].stage = "asking"
    /\ LET turn == stream[s]
           order == [i \in DOMAIN batch |-> <<turn.turn, Len(turn.hist), i>>]
           answer == Message(NextId(turn), "assistant", ToSet(order))
           answers == [i \in DOMAIN batch |->
                          Message(<<turn.turn, Len(turn.hist) + i>>, "tool", {order[i]})]
           after == [turn EXCEPT !.hist = Append(@, answer) \o answers]
       IN  \E outcome \in [DOMAIN batch -> UNION {Outcomes(s, batch[i]) : i \in DOMAIN batch}] :
               /\ \A i \in DOMAIN batch : outcome[i] \in Outcomes(s, batch[i])
               /\ Store([c \in ToSet(order) |-> outcome[c[3]]], order)
               /\ IF \E i \in DOMAIN batch : outcome[i].waits
                  THEN Save(s, after, "closing", after.hist) /\ waiting' = waiting + 1
                  ELSE /\ stream' = [stream EXCEPT ![s] = [after EXCEPT !.stage = "building"]]
                       /\ UNCHANGED <<now, waiting>>
    /\ UNCHANGED <<rows, turns, truncated>>

\* The provider answers with a final text; the turn ends and saves what it holds.
AnswerFinal(s) ==
    /\ stream[s].stage = "asking"
    /\ Save(s, stream[s], "closing",
            Append(stream[s].hist, Message(NextId(stream[s]), "assistant", {})))
    /\ UNCHANGED <<rows, refs, facts, artifact, turns, waiting, truncated>>

\* YCR, the provider or its limits fail it, or the client is gone: nothing is
\* saved beyond what was committed.
Fail(s) ==
    /\ stream[s].stage # "idle"
    /\ stream' = [stream EXCEPT ![s] = Idle]
    /\ UNCHANGED <<rows, now, refs, facts, artifact, turns, waiting, truncated>>

Next ==
    \E s \in Streams :
        \/ \E report \in BOOLEAN : Begin(s, report)
        \/ CommitSave(s)
        \/ BuildTurn(s)
        \/ \E batch \in Batches : Round(s, batch)
        \/ AnswerFinal(s)
        \/ Fail(s)

Spec == Init /\ [][Next]_memory
---------------------------------------------------------------------------
\* Properties.

TypeOK ==
    /\ now \in Nat /\ turns \in 0..MaxTurns
    /\ \A r \in rows : r.at \in 1..now
    /\ \A s \in Streams : stream[s].step \in 0..MaxSteps

\* An answer follows its call, with nothing but other answers between, and every call
\* has its answer.
Whole(packet) ==
    \A i \in DOMAIN packet :
        /\ packet[i].role = "tool" =>
              \E j \in 1..(i - 1) :
                  /\ packet[j].role = "assistant" /\ packet[i].calls \subseteq packet[j].calls
                  /\ \A k \in (j + 1)..(i - 1) : packet[k].role = "tool"
        /\ packet[i].role = "assistant" =>
              \A c \in packet[i].calls :
                  \E j \in (i + 1)..Len(packet) :
                      packet[j].calls = {c} /\ \A k \in (i + 1)..j : packet[k].role = "tool"

\* Whatever turns of the session save and trim at the same time, the messages sent to
\* the provider are a valid conversation ("Never orphan tool messages", _trim_history),
\* as long as every turn loaded the whole table: one that loads answers without their call
\* saves them again once they are trimmed.
PacketIsWhole ==
    \A s \in Streams :
        stream[s].stage = "asking" /\ ~truncated => Whole(Compact(stream[s].hist))

\* What any call of the conversation found can be invoked, in this turn and later ones,
\* after the window has left the call behind and the search has failed, as long as the
\* conversation has not found more than the working set holds; once artifacts order the
\* candidates, as long as no more can be candidates.
FoundCanBeInvoked ==
    \A s \in Streams :
        LET found == UNION {ToSet(refs[c]) : c \in UNION
                {stream[s].hist[i].calls : i \in {j \in DOMAIN stream[s].hist :
                                                     stream[s].hist[j].role = "tool"}}}
            known == IF artifact THEN found \cup ToSet(facts) \cup ToSet(Bindable) \cup Matches
                     ELSE found
        IN  stream[s].stage = "asking" /\ Cardinality(known) <= Limit
                => found \subseteq stream[s].allow
=============================================================================
