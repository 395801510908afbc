-------------------------------- MODULE Desk --------------------------------
(***************************************************************************)
(* What surrounds the synchronisation on one machine: its settings and     *)
(* everyone who writes them, the tasks the operating system starts, the    *)
(* copies of the Codex state that one of those tasks makes, and the        *)
(* backups that every operation leaves.  Copies and backups ask nothing of *)
(* the others but to be started, by a task or by hand.                     *)
(***************************************************************************)
EXTENDS Automation, StateBackup, Backups

settingVars == <<automationVars, wrote, left>>
deskVars == <<settingVars, copyVars, backupVars>>

\* Bound: a behaviour exercises the settings and their tasks, the copies, or the backups.
Idle(allowed) == \A kind \in DOMAIN allowed : allowed[kind] = 0
OneAtATime ==
    /\ Cardinality({part \in {"settings", "copies", "backups"} :
                      ~Idle(CASE part = "settings" -> left [] part = "copies" -> have [] OTHER -> spare)}) = 1
    /\ Idle(have) => folder = {}

DeskInit == AutomationInit /\ CopiesInit /\ BackupsInit /\ OneAtATime
DeskNext ==
    \/ AutomationNext /\ UNCHANGED <<copyVars, backupVars>>
    \/ CopiesNext /\ UNCHANGED <<settingVars, backupVars>>
    \/ BackupsNext /\ UNCHANGED <<settingVars, copyVars>>

DeskSpec == DeskInit /\ [][DeskNext]_deskVars
=============================================================================
