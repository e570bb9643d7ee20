----------------------------- MODULE MCCrocNode -----------------------------
EXTENDS CrocNode
Receiver(platform, mode, named, check) ==
    [platform |-> platform, role |-> "receiver", mode |-> mode, named |-> named, check |-> check]
\* Senders, and of the receivers every mode, with and without a name, and every check.
MCSetups ==
    {s \in AllSetups : s.role = "sender"}
    \cup {Receiver("linux", "resume", TRUE, "hash"), Receiver("linux", "fail_if_exists", TRUE, "hash"),
          Receiver("linux", "resume", TRUE, "size"), Receiver("linux", "overwrite", FALSE, "none"),
          Receiver("windows", "resume", TRUE, "hash"), Receiver("windows", "fail_if_exists", FALSE, "hash"),
          Receiver("windows", "overwrite", TRUE, "size")}
=============================================================================
