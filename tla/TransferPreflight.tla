-------------------------- MODULE TransferPreflight --------------------------
(***************************************************************************)
(* What a preflight of a transfer asks the two nodes, and when it allows   *)
(* the transfer (application/transfer.py, transfer_helpers.py).            *)
(***************************************************************************)
EXTENDS Naturals

CONSTANTS
    Intents,   \* what a transfer may be asked to do; two that differ have different hashes
    Probes     \* what the nodes may answer: of each end and inquiry, the facts that hold

Ends == {"source", "target"}
Inquiries == {"stat", "status"}
Routes == {"auto", "relay_only", "relay_pool", "local_first", "local_only", "direct_ip"}

\* "answered" is in the answer to an inquiry that succeeded.
Facts ==
    {"answered", "found", "readable", "parent", "writable", "room",
     "yq-croc", "installed", "executable", "outbound", "relay", "send", "receive"}

ASSUME PreflightAssumption ==
    /\ \A i \in Intents :
        /\ i.slots \in BOOLEAN      \* nodes, a path, a mode, the address of a direct route
        /\ i.target \subseteq {"directory", "path"}
        /\ i.renamed \in BOOLEAN    \* the path does not end in the source's name
        /\ i.mode \in {"resume", "overwrite", "fail_if_exists"}
        /\ i.route \in Routes
        /\ i.apart \in BOOLEAN      \* the two nodes differ
    /\ Probes \subseteq [Ends -> [Inquiries -> SUBSET Facts]]

Complete(i) == i.slots /\ i.target # {}

\* A file can only land under its own name.
_normalize_transfer_target(i) == "directory" \in i.target \/ ~i.renamed

_route_requires_relay(i) == i.route \in {"auto", "relay_only", "relay_pool", "local_first"}

Unanswered(p, inquiry) ==
    {<<e, inquiry, "answered">> : e \in {d \in Ends : "answered" \notin p[d][inquiry]}}

Needed(i) ==
    {<<"source", "stat", f>> : f \in {"found", "readable"}}
    \cup {<<"target", "stat", f>> : f \in {"parent", "writable", "room"}}
    \cup Ends \X {"status"} \X {"yq-croc", "installed", "executable", "outbound"}
    \cup {<<"source", "status", "send">>, <<"target", "status", "receive">>}
    \cup (IF _route_requires_relay(i) THEN Ends \X {"status"} \X {"relay"} ELSE {})

\* What was looked for at the target is the directory, not the file.
InTheWay(i, p) == "path" \in i.target /\ i.mode = "fail_if_exists" /\ "found" \in p["target"]["stat"]

\* Facts are compared only when every inquiry was answered.
_transfer_preflight_failures(i, p) ==
    IF Unanswered(p, "stat") # {} THEN Unanswered(p, "stat")
    ELSE IF Unanswered(p, "status") # {} THEN Unanswered(p, "status")
    ELSE {n \in Needed(i) : n[3] \notin p[n[1]][n[2]]}
         \cup (IF InTheWay(i, p) THEN {<<"target", "stat", "not_exists">>} ELSE {})

\* A transfer can be made: both ends answer, everything is there and nothing in the way.
Ready(i, p) ==
    /\ \A e \in Ends, q \in Inquiries : "answered" \in p[e][q]
    /\ \A n \in Needed(i) : n[3] \in p[n[1]][n[2]]
    /\ ~InTheWay(i, p)
=============================================================================
