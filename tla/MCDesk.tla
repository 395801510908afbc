------------------------------- MODULE MCDesk -------------------------------
(***************************************************************************)
(* A current file, two old ones and none; one value of each kind to        *)
(* change; a machine of each platform; a folder of copies that holds one   *)
(* of another machine, finished or not; two files on two sides, one of     *)
(* which only one side has, and a snapshot of another machine.             *)
(***************************************************************************)
EXTENDS Desk

Current == [terminate |-> FALSE, names |-> {"codex"}, roots |-> {"sessions"}, seconds |-> 5, minutes |-> None,
            mappings |-> {}, handoff |-> FALSE, login |-> FALSE, copies |-> {}, periodic |-> {"every"}]
\* Written by an older version: every command refuses it, and it counts in minutes.
Older == [Current EXCEPT !.terminate = TRUE, !.names = {"old"}, !.roots = {"sessions", "agents"},
                         !.seconds = None, !.minutes = 1, !.login = TRUE]
\* Changed by hand since: both periods, one of them shorter than the loader takes.
Short == [Current EXCEPT !.names = None, !.seconds = 1, !.minutes = Odd]
Both == [Current EXCEPT !.minutes = 1]

FewEdits == {
    [op |-> "set", key |-> "seconds", value |-> 4],
    [op |-> "set", key |-> "handoff", value |-> TRUE],
    [op |-> "set", key |-> "login", value |-> TRUE],
    [op |-> "set", key |-> "copies", value |-> {"signin", "every"}],
    [op |-> "set", key |-> "periodic", value |-> {"signin"}],
    [op |-> "remove", key |-> "names", value |-> None],
    [op |-> "rule", key |-> "mappings", value |-> "rule"],
    [op |-> "unrule", key |-> "mappings", value |-> "rule"]}

Quiet == [kind \in {"edit", "console", "read", "type", "mishap", "write", "signin", "move"} |-> 0]
Machine(name, foreign, shared) == [system |-> name, foreign |-> foreign, legacy |-> shared]
Linux == Machine("linux", {}, None)
Begin(files, budget, machines) == {[file |-> f, left |-> budget, machine |-> m] : f \in files, m \in machines}
DeskStarts ==
    Begin({None}, Quiet, {Linux}) \cup
    Begin({None, Current, Older, Short, Both},
          [Quiet EXCEPT !["edit"] = 1, !["console"] = 2, !["mishap"] = 1], {Linux}) \cup
    Begin({Older}, [Quiet EXCEPT !["edit"] = 1, !["read"] = 2, !["type"] = 1], {Linux}) \cup
    Begin({Current}, [Quiet EXCEPT !["console"] = 1, !["read"] = 1, !["write"] = 1], {Machine("windows", {"job"}, None)}) \cup
    Begin({Current}, [Quiet EXCEPT !["console"] = 1, !["write"] = 2, !["mishap"] = 1], {Machine("windows", {"handoff"}, "other")}) \cup
    Begin({Current}, [Quiet EXCEPT !["console"] = 1, !["write"] = 2, !["mishap"] = 1, !["signin"] = 1],
          {Linux, Machine("macos", {}, None), Machine("windows", {"job"}, "me")})

NoCopies == [kind \in {"codex", "tool", "clock", "gone", "copy", "mishap"} |-> 0]
CopyBudget == {NoCopies,
               [NoCopies EXCEPT !["codex"] = 1, !["tool"] = 1, !["gone"] = 1, !["copy"] = 2, !["mishap"] = 1],
               [NoCopies EXCEPT !["codex"] = 1, !["clock"] = 2, !["copy"] = 3, !["mishap"] = 1]}
Shared == {{}, {[mine |-> FALSE, stamp |-> 1, partial |-> FALSE], [mine |-> FALSE, stamp |-> 2, partial |-> TRUE]}}

TwoTrees == [local |-> [a |-> 1, b |-> Missing], cloud |-> [a |-> 2, b |-> 3]]
Peers == [a |-> Saved("local", 5), b |-> Saved("cloud", 6)]
NoBackups == [kind \in {"sync", "restore", "edit", "peer", "mishap"} |-> 0]
Backup(archive, budget) == [packed |-> archive, spare |-> budget]
Twice == [NoBackups EXCEPT !["sync"] = 2, !["restore"] = 1, !["mishap"] = 1]
Kept == {Backup(FALSE, NoBackups), Backup(FALSE, Twice), Backup(TRUE, Twice),
         Backup(FALSE, [NoBackups EXCEPT !["sync"] = 1, !["restore"] = 1, !["peer"] = 3]),
         Backup(FALSE, [NoBackups EXCEPT !["sync"] = 1, !["edit"] = 1, !["mishap"] = 2])}
=============================================================================
