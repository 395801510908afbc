--------------------------- MODULE MCProjectLists ---------------------------
(* Two machines of different systems; one or two projects carried so far.    *)
EXTENDS ProjectLists

CONSTANTS c1, c2

TwoMachines == {1, 2}
Systems == [machine |-> [m \in TwoMachines |-> IF m = 1 THEN "windows" ELSE "linux"],
            dir |-> [d \in {"D", "E", "opt"} |-> IF d = "opt" THEN "linux" ELSE "windows"]]
At(d, n) == [dir |-> d, name |-> n]
Written == c1 :> At("D", "x") @@ c2 :> At("E", "x")
NoRules == [m \in TwoMachines |-> {}]
Empty == [projects |-> [i \in {} |-> None], order |-> <<>>, pinned |-> {},
          binding |-> [c \in Chats |-> None], out |-> {}, sections |-> [s \in {} |-> {}]]
Two == [Empty EXCEPT !.projects = 1 :> At("D", "x") @@ 2 :> At("E", "x"), !.order = <<1, 2>>,
                     !.binding[c2] = 2]
Answerable == {At("opt", "x")}
Touched == [m \in TwoMachines |-> IF m = 1 THEN {1, c2} ELSE {2, 3, c2}]
Fresh == {[m \in TwoMachines |-> IF m = 1 THEN Two ELSE Empty]}
HomeDisks == [m \in TwoMachines |-> IF m = 1 THEN {At("D", "x"), At("E", "x")} ELSE {}]
=============================================================================
