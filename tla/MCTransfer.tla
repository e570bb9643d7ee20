----------------------------- MODULE MCTransfer -----------------------------
\* Small instances of Transfer: what may be asked for, and what nodes may answer.
EXTENDS Transfer, TLC

Intent(slots, target, renamed, mode, route, apart) ==
    [slots |-> slots, target |-> target, renamed |-> renamed, mode |-> mode, route |-> route,
     apart |-> apart]

Asked ==
    {Intent(TRUE, {"directory"}, FALSE, "resume", "auto", TRUE),
     Intent(TRUE, {"directory", "path"}, TRUE, "fail_if_exists", "local_only", TRUE),
     Intent(TRUE, {"path"}, TRUE, "overwrite", "local_only", TRUE),
     Intent(FALSE, {"path"}, FALSE, "resume", "auto", TRUE),
     Intent(TRUE, {"path"}, FALSE, "resume", "auto", FALSE)}

Answer(file, place, more) ==
    LET able == {"answered", "yq-croc", "installed", "executable", "outbound"} \cup more
    IN  [source |-> [stat |-> file, status |-> able \cup {"send"}],
         target |-> [stat |-> place, status |-> able \cup {"receive"}]]

\* All is well; the directory exists and no relay is reached; the target does not answer.
Answers ==
    LET file == {"answered", "found", "readable"}
        directory == {"answered", "parent", "writable", "room"}
    IN  {Answer(file, directory, {"relay"}), Answer(file, directory \cup {"found"}, {}),
         Answer(file, {}, {"relay"})}
=============================================================================
