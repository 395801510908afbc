---------------------------- MODULE MCCodexState ----------------------------
(***************************************************************************)
(* One project at its old folder, a second one elsewhere; two chats below  *)
(* the old folder, and one a person put in the first project, whose own    *)
(* folder is the other machine's name of the second; a mapping that sends  *)
(* the old folder to the new one, and that folder to the second project.   *)
(***************************************************************************)
EXTENDS CodexState, TLC

TwoProjects == [root |-> (1 :> "old" @@ 2 :> "other"), bind |-> [c \in Chats |-> IF c = "c" THEN 1 ELSE None], rest |-> 0]
Homes == [c \in Chats |-> IF c = "c" THEN "there" ELSE "old"]
OldIsNew == ("old" :> "new" @@ "new" :> None @@ "other" :> None @@ "there" :> "other")
=============================================================================
