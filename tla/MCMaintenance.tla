--------------------------- MODULE MCMaintenance ---------------------------
\* Small instances of Maintenance: the plans the Agent makes for a node, and one that was
\* asked for step by step: a check, a repair that needs an approval and runs when the
\* check finds a fault, and a verification, of which the check and the verification may
\* fail.
EXTENDS Maintenance, TLC

Tool(effect, family, words, urgency, place) ==
    [effect |-> effect, family |-> family, words |-> words, urgency |-> urgency, place |-> place]

\* Two families of functions, of which only one has a function that looks.
Tools ==
    [status  |-> Tool("read", "service", {"status", "looks"}, 5, 5),
     restart |-> Tool("write", "service", {}, 2, 3),
     ensure  |-> Tool("write", "service", {"undoes"}, 0, 1),
     wipe    |-> Tool("destructive", "disk", {}, 5, 6),
     list    |-> Tool("read", "disk", {}, 5, 2)]

Listed == <<"wipe", "list", "restart", "status", "ensure">>
ReadersListed == <<"list", "status">>
Proposals == {<<"restart", "list">>, <<"unknown", "wipe">>}

Row(kind, function, condition, depends_on, requires_approval, continue_on_failure) ==
    [kind |-> kind, function |-> function, condition |-> condition, depends_on |-> depends_on,
     requires_approval |-> requires_approval, continue_on_failure |-> continue_on_failure,
     rollback_hint |-> NoFunction]

AskedFor ==
    {<<Row("check", "status", "always", {}, FALSE, TRUE),
       Row("repair", "restart", "if_previous_unhealthy", {1}, TRUE, FALSE),
       Row("verify", "status", "always", {2}, FALSE, TRUE)>>}
=============================================================================
