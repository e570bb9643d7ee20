--------------------------- MODULE CapabilityCall ---------------------------
(***************************************************************************)
(* From a tool call to a job: the way a call of a node capability takes    *)
(* through preflight, resolution, policy, approval and job creation.  A    *)
(* node reports its capabilities again while calls are in flight: its own  *)
(* row says what the policy makes of running the capability there, and the *)
(* definition, which all nodes share, says what the last reporter said.    *)
(* The preflight and capability.invoke look at the definition; the         *)
(* decision to ask a human is made on the node's row.                      *)
(*                                                                         *)
(* The approval a call needs is the one Approval models; here its handlers *)
(* run with what they resolved.                                            *)
(***************************************************************************)
EXTENDS Approval

CONSTANTS
    Nodes,       \* nodes that offer the capability
    Calls,       \* tool calls in flight
    Any,         \* no target node
    MaxReports   \* bound: registrations and connection losses

VARIABLES
    offer,   \* what the policy makes of each node's own row, "none" while it has none
    listed,  \* what it makes of the shared definition
    up,      \* the nodes that can be given a job
    call,    \* each call in flight: its stage, node, decision, and whether its input fits
    asked,   \* the node the approval was asked for, Any while there is none
    run,     \* what each approval handler resolved: node and decision
    made,    \* jobs created
    reports

callVars == <<offer, listed, up, call, asked, run, made, reports>>
allVars == <<vars, callVars>>

Policies == {"allow", "ask", "deny"}
Work(stage, node, policy) ==
    [stage |-> stage, node |-> node, policy |-> policy, fits |-> TRUE]
NoCall == Work("idle", Any, "allow")
Job(node, policy, approved) == [node |-> node, policy |-> policy, approved |-> approved]

CallInit ==
    /\ Init
    /\ \E decision \in Policies : offer = [n \in Nodes |-> decision] /\ listed = decision
    /\ up = Nodes
    /\ call = [c \in Calls |-> NoCall]
    /\ asked = Any
    /\ run = [r \in Requests |-> NoCall]
    /\ made = {}
    /\ reports = 0
---------------------------------------------------------------------------
\* Nodes.

\* node.register: the node's row and the shared definition take the reported risk.
Report(n, decision) ==
    /\ reports < MaxReports
    /\ reports' = reports + 1
    /\ offer' = [offer EXCEPT ![n] = decision]
    /\ listed' = decision
    /\ UNCHANGED <<vars, up, call, asked, run, made>>

\* A registration without the capability: the node's rows become inactive, the shared
\* definition stays as it was.
Withdraw(n) ==
    /\ reports < MaxReports
    /\ reports' = reports + 1
    /\ offer' = [offer EXCEPT ![n] = "none"]
    /\ UNCHANGED <<vars, listed, up, call, asked, run, made>>

\* The node's heartbeats stop, or come again.
Lose(n) ==
    /\ reports < MaxReports
    /\ reports' = reports + 1
    /\ up' = IF n \in up THEN up \ {n} ELSE up \cup {n}
    /\ UNCHANGED <<vars, offer, listed, call, asked, run, made>>
---------------------------------------------------------------------------
\* A call without an approval.

EndCall(c) == call' = [call EXCEPT ![c] = NoCall]

\* The active sources a reference matches: everybody's, or those of the node it names.
Matching(target) == {n \in Nodes : offer[n] # "none" /\ target \in {Any, n}}

\* capability.invoke runs on exactly one source: a reference that matches several, on
\* nodes that are up or not, is refused as ambiguous.
resolve_capability_invoke_target(target) ==
    {n \in Matching(target) : Matching(target) = {n}}

\* The preflight of the tool round resolves the target and stops what the policy denies on
\* the definition; a target it cannot resolve is left for the runtime to refuse.  What the
\* model filled in may lack a required slot, or be a value the schema does not allow.
Preflight(c, target) ==
    /\ call[c].stage = "idle"
    /\ resolve_capability_invoke_target(target) = {} \/ listed # "deny"
    /\ \E fits \in BOOLEAN :
          call' = [call EXCEPT ![c] = [Work("checked", target, "allow") EXCEPT !.fits = fits]]
    /\ UNCHANGED <<vars, offer, listed, up, asked, run, made, reports>>

\* Mutant: the runtime decides on the definition, as the preflight does.
PolicyOfDefinition(n) == listed

\* The policy decision of the runtime: on the row of the node that was resolved.
PolicyAt(n) == offer[n]

\* What is wrong with the input for the schema of the target, if anything.
_validate_invoked_tool_input(c) == ~call[c].fits

\* capability.invoke resolves the target again, looks at the input and denies what the
\* definition denies; resolve_function wants the node schedulable.
Resolved(c) ==
    IF listed = "deny" \/ _validate_invoked_tool_input(c) THEN {}
    ELSE resolve_capability_invoke_target(call[c].node) \cap up

\* Nothing resolves, or the policy denies the node's row: the call fails.
Refuse(c) ==
    /\ call[c].stage = "checked"
    /\ \/ Resolved(c) = {}
       \/ \E n \in Resolved(c) : PolicyAt(n) = "deny"
    /\ EndCall(c)
    /\ UNCHANGED <<vars, offer, listed, up, asked, run, made, reports>>

\* _create_approval_result: the call's answer says that it waits for the approval.
AskApproval(c) ==
    /\ call[c].stage = "checked"
    /\ \E n \in Resolved(c) :
          /\ PolicyAt(n) = "ask"
          /\ create_approval
          /\ asked' = n
    /\ EndCall(c)
    /\ UNCHANGED <<offer, listed, up, run, made, reports>>

\* The policy allows it: the invocation is inserted and started.
Start(c) ==
    /\ call[c].stage = "checked"
    /\ \E n \in Resolved(c) :
          /\ PolicyAt(n) = "allow"
          /\ call' = [call EXCEPT ![c] = Work("started", n, offer[n])]
    /\ UNCHANGED <<vars, offer, listed, up, asked, run, made, reports>>

\* create_job and the commit, or a lock conflict that rolls both rows back.
Dispatch(c) ==
    /\ call[c].stage = "started"
    /\ made' \in {made, made \cup {Job(call[c].node, call[c].policy, FALSE)}}
    /\ EndCall(c)
    /\ UNCHANGED <<vars, offer, listed, up, asked, run, reports>>
---------------------------------------------------------------------------
\* An execution with an approval.

\* verify_approval: the execution is for what was approved.
SameRequest(n) == n = asked

\* Someone presents the approval for a call on a node.
Present(r, n) ==
    /\ n \in resolve_capability_invoke_target(n) \cap up /\ listed # "deny"
    /\ SameRequest(n)
    /\ Verify(r)
    /\ run' = [run EXCEPT ![r] = Work("verified", n, offer[n])]
    /\ UNCHANGED <<offer, listed, up, call, asked, made, reports>>

\* approve-and-run executes what the approval's row says, without a look at the policy.
RunApproved(r) ==
    /\ asked \in up /\ offer[asked] # "none"
    /\ VerifyOwn(r)
    /\ run' = [run EXCEPT ![r] = Work("verified", asked, offer[asked])]
    /\ UNCHANGED <<offer, listed, up, call, asked, made, reports>>

\* create_job of an approved execution.
DispatchApproved(r) ==
    /\ CreateJob(r)
    /\ made' = IF jobs' > jobs
               THEN made \cup {Job(run[r].node, run[r].policy, TRUE)} ELSE made
    /\ run' = [run EXCEPT ![r] = NoCall]
    /\ UNCHANGED <<offer, listed, up, call, asked, reports>>

AbortApproved(r) ==
    /\ Abort(r)
    /\ run' = [run EXCEPT ![r] = NoCall]
    /\ UNCHANGED <<offer, listed, up, call, asked, made, reports>>

\* The steps of Approval that resolve nothing.
Handle ==
    /\ \/ \E r \in Requests :
             \/ \E decision \in Decisions : Decide(r, decision)
             \/ CommitDecision(r)
             \/ Consume(r)
       \/ ScanExpired
       \/ TimePasses
    /\ UNCHANGED callVars

CallNext ==
    \/ \E n \in Nodes :
        \/ \E decision \in Policies : Report(n, decision)
        \/ Withdraw(n)
        \/ Lose(n)
    \/ \E c \in Calls :
        \/ \E target \in Nodes \cup {Any} : Preflight(c, target)
        \/ Refuse(c)
        \/ AskApproval(c)
        \/ Start(c)
        \/ Dispatch(c)
    \/ \E r \in Requests :
        \/ \E n \in Nodes : Present(r, n)
        \/ RunApproved(r)
        \/ DispatchApproved(r)
        \/ AbortApproved(r)
    \/ Handle

CallSpec == CallInit /\ [][CallNext]_allVars
---------------------------------------------------------------------------
\* Properties.

\* No registration, loss or administrator between the steps of a call, and no overlap of
\* approval handlers, brings a job the policy would not have let run there by itself,
\* unless it was made with an approval; and a job made with an approval has a committed
\* decision behind it that was about its node (_execute_node_job).
GatedJobsAreGranted ==
    \A job \in made :
        /\ job.policy # "allow" => job.approved
        /\ job.approved => granted /\ job.node = asked
=============================================================================
