----------------------------- MODULE MCToolRound -----------------------------
EXTENDS ToolRound
CONSTANT k
Node(risk, effect, policy, timeout, keys) ==
    [kind |-> "node", risk |-> risk, effect |-> effect, policy |-> policy, timeout |-> timeout,
     keys |-> keys]
Center(kind, risk, effect) ==
    [kind |-> kind, risk |-> risk, effect |-> effect, policy |-> "allow_parallel", timeout |-> 30,
     keys |-> {}]
look   == Node("safe", "read", "allow_parallel", 30, {k})
peek   == Node("safe", "read", "allow_parallel", 30, {})
scan   == Node("safe", "read", "allow_parallel", 90, {k})
tune   == Node("maintenance", "read", "allow_parallel", 30, {k})
repair == Node("maintenance", "read", "serialize", 45, {k})
write  == Node("safe", "write", "allow_parallel", 30, {k})
list   == Center("meta", "safe", "read")
copy   == Center("transfer", "maintenance", "external")
MCTools == {look, peek, scan, tune, repair, write, list, copy}
\* Answers in which calls meet over k, wait together, or are more than may run at once.
MCPlans == <<{<<tune>>, <<write, copy>>},
             {<<peek, list, look>>, <<tune, look>>, <<look, look>>, <<repair, tune>>, <<scan, write>>,
              <<scan, look>>}>>
=============================================================================
