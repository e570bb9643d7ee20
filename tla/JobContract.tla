----------------------------- MODULE JobContract -----------------------------
(***************************************************************************)
(* What the Center promises about jobs and resource keys, with no lease,   *)
(* no lock row and no node in it: a job is submitted once, when every key  *)
(* it needs is free, is handed out at most once, and settles once; it owns *)
(* its keys from submission until it settles.  JobRuntime implements it.   *)
(***************************************************************************)
EXTENDS Naturals

CONSTANTS Jobs, Keys, KeysOf, NoJob, Outcomes

VARIABLES phase, outcome, owner

vars == <<phase, outcome, owner>>

Phases == {"idle", "waiting", "working", "settled"}

TypeOK ==
    /\ phase \in [Jobs -> Phases]
    /\ outcome \in [Jobs -> Outcomes \cup {"pending"}]
    /\ owner \in [Keys -> Jobs \cup {NoJob}]

Init ==
    /\ phase = [j \in Jobs |-> "idle"]
    /\ outcome = [j \in Jobs |-> "pending"]
    /\ owner = [k \in Keys |-> NoJob]

Submit(j) ==
    /\ phase[j] = "idle"
    /\ \A k \in KeysOf[j] : owner[k] = NoJob
    /\ phase' = [phase EXCEPT ![j] = "waiting"]
    /\ owner' = [k \in Keys |-> IF k \in KeysOf[j] THEN j ELSE owner[k]]
    /\ UNCHANGED outcome

\* A poll hands out several waiting jobs at once; none is handed out twice.
Start(S) ==
    /\ \A j \in S : phase[j] = "waiting"
    /\ phase' = [j \in Jobs |-> IF j \in S THEN "working" ELSE phase[j]]
    /\ UNCHANGED <<outcome, owner>>

\* A scan settles several jobs at once; each gives its keys back.
Settle(S, result) ==
    /\ \A j \in S : phase[j] \in {"waiting", "working"}
    /\ phase' = [j \in Jobs |-> IF j \in S THEN "settled" ELSE phase[j]]
    /\ outcome' = [j \in Jobs |-> IF j \in S THEN result ELSE outcome[j]]
    /\ owner' = [k \in Keys |-> IF owner[k] \in S THEN NoJob ELSE owner[k]]

Next ==
    \/ \E j \in Jobs : Submit(j)
    \/ \E S \in SUBSET Jobs : Start(S)
    \/ \E S \in SUBSET Jobs, result \in Outcomes : Settle(S, result)

Spec == Init /\ [][Next]_vars
=============================================================================
