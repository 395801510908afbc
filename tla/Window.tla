------------------------------- MODULE Window -------------------------------
(***************************************************************************)
(* The window on a machine where Codex runs: its pages and their jobs, and *)
(* the job that asks Codex to quit before a sync.  The pages see of a job  *)
(* only that it waits, that it wrote or that it was refused, and the job   *)
(* asks nothing of the pages.                                              *)
(***************************************************************************)
EXTENDS CodexClosing, Pages

windowVars == <<closingVars, pagesVars>>

\* Bound: a behaviour exercises the pages, or the job and Codex around it.
PagesOnly == scope.rows # {}

WindowInit == ClosingInit /\ PagesInit /\ (PagesOnly <=> procs = {})
WindowNext ==
    \/ ~PagesOnly /\ ClosingNext /\ UNCHANGED pagesVars
    \/ PagesOnly /\ PagesNext /\ UNCHANGED closingVars

WindowSpec == WindowInit /\ [][WindowNext]_windowVars
=============================================================================
