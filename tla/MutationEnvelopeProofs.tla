---------------------- MODULE MutationEnvelopeProofs ----------------------
(***************************************************************************)
(* What the mutation envelope guarantees for every set of machines,        *)
(* processes, files and operations, and every bound: first whether or not  *)
(* the person keeps recover away from runs in flight, then, when recover   *)
(* is run only on journals no live process works on, that the envelope     *)
(* implements AtomicMutation and that every commit phase that stopped      *)
(* half-way can still be rolled back.                                      *)
(***************************************************************************)
EXTENDS MutationEnvelope, TLAPS

Ready == {"stage", "backup", "stamp", "backedup"}
Waiting == {"commitgate", "commit"}

\* Whoever is inside a mutation holds the lock of its machine.
LockHeld == \A p \in Procs : pc[p] \in Locked => lock[MachineOf[p]] = p

\* A run works on a journal of its own machine, which exists.
OwnJournal ==
    \A p \in Procs : pc[p] \in Running =>
        /\ owner[op[p]] = MachineOf[p]
        /\ journal[op[p]] # "ABSENT"

\* No two runs share an operation.
OneRunPerJournal ==
    \A p, q \in Procs :
        pc[p] \in Running /\ pc[q] \in Running /\ op[p] = op[q] => p = q

\* What a run remembers of its journal follows from where it stands.
Remembers ==
    \A p \in Procs :
        /\ pc[p] \in Ready => mem[p] = "PREPARED"
        /\ pc[p] \in Waiting => mem[p] = "BACKED_UP"
        /\ pc[p] \in InCommit => mem[p] = "COMMITTING"
        /\ pc[p] = "prune" => mem[p] = "COMMITTED"
        /\ pc[p] = "fail" => mem[p] \in {"PREPARED", "BACKED_UP", "COMMITTING"}

\* A journal that does not exist yet has no history.
FreshOps ==
    \A o \in Ops : journal[o] = "ABSENT" =>
        /\ applied[o] = {}
        /\ owner[o] = None
        /\ closedBy[o] = "nobody"

\* A run that has not entered its commit phase has replaced nothing.
NothingYet ==
    \A p \in Procs :
        pc[p] \in Running /\ mem[p] \in BEFORE_COMMIT => applied[op[p]] = {}

\* begin closed a journal only when its run was over.
AbandonedIsOver ==
    \A p \in Procs : pc[p] \in Running => closedBy[op[p]] # "begin"

\* A run in its commit phase: its journal says so, or a person closed it.
CommitIsOpen ==
    \A p \in Procs : pc[p] \in InCommit \union {"fail"} /\ mem[p] = "COMMITTING" =>
        /\ journal[op[p]] \notin BEFORE_COMMIT \union {"COMMITTED"}
        /\ \/ op[p] \in OpenJournals
           \/ closedBy[op[p]] \in {"resume", "rollback"}

\* The plan of a run is the one its journal hashes; in the commit phase each
\* action has taken effect or is still to do.
PlanSplit ==
    \A p \in Procs :
        /\ pc[p] \in Running => planned[op[p]] = plan[p]
        /\ pc[p] \in InCommit => applied[op[p]] \union todo[p] = plan[p]
        /\ pc[p] = "done" => todo[p] = {}

Inv ==
    /\ LockHeld /\ OwnJournal /\ OneRunPerJournal /\ Remembers /\ FreshOps
    /\ NothingYet /\ AbandonedIsOver /\ CommitIsOpen /\ PlanSplit
    /\ EvidenceBeforeReplace /\ HalfAppliedBlocks /\ CommittedIsComplete

-----------------------------------------------------------------------------
\* Every variable keeps its type: in particular no replace is attempted more
\* often than MaxTries allows.
THEOREM TypeInvariant == Spec => []TypeOK
<1>1. Init => TypeOK
  BY EnvelopeAssumption DEF Init, TypeOK, PCs, States, Running, Guarded
<1>2. TypeOK /\ [Next]_vars => TypeOK'
  <2> SUFFICES ASSUME TypeOK, [Next]_vars PROVE TypeOK'
    OBVIOUS
  <2> USE EnvelopeAssumption
      DEF TypeOK, shared, process, history, Go, Leave, PCs, States, Spend,
          Running, Guarded
  <2>1. ASSUME NEW p \in Procs, CloseAbandoned(p) PROVE TypeOK'
    BY <2>1 DEF CloseAbandoned, Abandoned
  <2>2. ASSUME NEW p \in Procs, ScanClear(p) PROVE TypeOK'
    BY <2>2 DEF ScanClear
  <2>3. ASSUME NEW p \in Procs, ScanBlocked(p) PROVE TypeOK'
    BY <2>3 DEF ScanBlocked
  <2>4. ASSUME NEW p \in Procs, OpenJournal(p) PROVE TypeOK'
    BY <2>4 DEF OpenJournal
  <2>5. ASSUME NEW p \in Procs, BeginRefused(p) PROVE TypeOK'
    BY <2>5 DEF BeginRefused
  <2>6. ASSUME NEW p \in Procs, Stage(p) PROVE TypeOK'
    BY <2>6 DEF Stage
  <2>7. ASSUME NEW p \in Procs, BackupFile(p) PROVE TypeOK'
    <3>1. PICK a \in todo[p] : BackupFile(p)!2!(a)
      BY <2>7 DEF BackupFile
    <3>2. /\ a \in Action
          /\ data[Root(p, a.side)][a.file] \in Stored
      BY <3>1 DEF Action, Root, Roots, Sides
    <3>3. snap' \in [Ops -> SUBSET Entry]
      <4>1. CASE data[Root(p, a.side)][a.file] = Absent
        BY <3>1, <4>1 DEF NeedsBackup
      <4>2. CASE data[Root(p, a.side)][a.file] # Absent
        <5>1. [file |-> a.file, side |-> a.side,
               was |-> data[Root(p, a.side)][a.file]] \in Entry
          BY <3>2, <4>2 DEF Entry, Action, Stored
        <5> QED
          BY <3>1, <4>2, <5>1 DEF NeedsBackup
      <4> QED
        BY <4>1, <4>2
    <3> QED
      BY <2>7, <3>1, <3>3 DEF BackupFile
  <2>8. ASSUME NEW p \in Procs, BackupDone(p) PROVE TypeOK'
    BY <2>8 DEF BackupDone
  <2>9. ASSUME NEW p \in Procs, Finalize(p) PROVE TypeOK'
    BY <2>9 DEF Finalize
  <2>10. ASSUME NEW p \in Procs, AfterBackupHook(p) PROVE TypeOK'
    BY <2>10 DEF AfterBackupHook, Transition
  <2>11. ASSUME NEW p \in Procs, PreCommitGate(p) PROVE TypeOK'
    BY <2>11 DEF PreCommitGate
  <2>12. ASSUME NEW p \in Procs, PreCommit(p) PROVE TypeOK'
    BY <2>12 DEF PreCommit, Transition
  <2>13. ASSUME NEW p \in Procs, ReplaceGate(p) PROVE TypeOK'
    BY <2>13 DEF ReplaceGate
  <2>14. ASSUME NEW p \in Procs, Replace(p) PROVE TypeOK'
    <3>1. PICK a \in Due(p) : Replace(p)!2!(a)
      BY <2>14 DEF Replace
    <3>2. a \in Action /\ a \in todo[p]
      BY <3>1 DEF Due
    <3>3. /\ a.file \in Files /\ a.to \in Stored /\ a.side \in Sides
          /\ Root(p, a.side) \in Roots
      BY <3>2 DEF Action, Root, Roots
    <3>4. data' \in [Roots -> [Files -> Stored]]
      BY <3>1, <3>3
    <3>5. overwrote' \in [Ops -> SUBSET Entry]
      <4>1. CASE data[Root(p, a.side)][a.file] = Absent
        BY <3>1, <4>1
      <4>2. CASE data[Root(p, a.side)][a.file] # Absent
        <5>1. [file |-> a.file, side |-> a.side,
               was |-> data[Root(p, a.side)][a.file]] \in Entry
          BY <3>3, <4>2 DEF Entry, Stored
        <5>2. overwrote[op[p]] \union
                {[file |-> a.file, side |-> a.side,
                  was |-> data[Root(p, a.side)][a.file]]} \in SUBSET Entry
          BY <2>14, <5>1 DEF Replace
        <5> QED
          BY <3>1, <4>2, <5>2
      <4> QED
        BY <4>1, <4>2
    <3>6. disturbed' \subseteq Ops \X Files
      BY <3>1, <3>3 DEF Disturb, Exposed, AfterBackup
    <3>7. applied' \in [Ops -> SUBSET Action]
      <4>1. applied[op[p]] \union {a} \in SUBSET Action
        BY <2>14, <3>2 DEF Replace
      <4> QED
        BY <3>1, <4>1
    <3> QED
      BY <2>14, <3>4, <3>5, <3>6, <3>7 DEF Replace
  <2>15. ASSUME NEW p \in Procs, ReplaceLocked(p) PROVE TypeOK'
    BY <2>15 DEF ReplaceLocked, MayRetry
  <2>16. ASSUME NEW p \in Procs, Verify(p) PROVE TypeOK'
    BY <2>16 DEF Verify
  <2>17. ASSUME NEW p \in Procs, AllReplaced(p) PROVE TypeOK'
    BY <2>17 DEF AllReplaced
  <2>18. ASSUME NEW p \in Procs, Commit(p) PROVE TypeOK'
    BY <2>18 DEF Commit, Transition
  <2>19. ASSUME NEW p \in Procs, Prune(p) PROVE TypeOK'
    BY <2>19 DEF Prune
  <2>20. ASSUME NEW p \in Procs, Raise(p) PROVE TypeOK'
    BY <2>20 DEF Raise
  <2>21. ASSUME NEW p \in Procs, Fail(p) PROVE TypeOK'
    <3>1. journal' \in [Ops -> States \union {"ABSENT"}]
      BY <2>21 DEF Fail, FailureState
    <3>2. closedBy' \in
             [Ops -> {"nobody", "run", "begin", "resume", "rollback"}]
      BY <2>21 DEF Fail, FailureState
    <3> QED
      BY <2>21, <3>1, <3>2 DEF Fail
  <2>22. ASSUME NEW p \in Procs, FailUnrecorded(p) PROVE TypeOK'
    BY <2>22 DEF FailUnrecorded
  <2>23. ASSUME NEW p \in Procs, RollbackLock(p) PROVE TypeOK'
    BY <2>23 DEF RollbackLock
  <2>24. ASSUME NEW p \in Procs, RollbackRefused(p) PROVE TypeOK'
    BY <2>24 DEF RollbackRefused
  <2>25. ASSUME NEW p \in Procs, Acknowledge(p) PROVE TypeOK'
    BY <2>25 DEF Acknowledge
  <2>26. ASSUME NEW p \in Procs, ResumeClose(p) PROVE TypeOK'
    <3>1. journal' \in [Ops -> States \union {"ABSENT"}]
      BY <2>26 DEF ResumeClose
    <3>2. closedBy' \in
             [Ops -> {"nobody", "run", "begin", "resume", "rollback"}]
      BY <2>26 DEF ResumeClose
    <3> QED
      BY <2>26, <3>1, <3>2 DEF ResumeClose
  <2>27. ASSUME NEW p \in Procs, RollbackClose(p) PROVE TypeOK'
    BY <2>27 DEF RollbackClose
  <2>28. ASSUME NEW p \in Procs, RecoverRefused(p) PROVE TypeOK'
    BY <2>28 DEF RecoverRefused
  <2>29. ASSUME NEW p \in Procs, Start(p) PROVE TypeOK'
    BY <2>29 DEF Start
  <2>30. ASSUME NEW p \in Procs, Crash(p) PROVE TypeOK'
    BY <2>30 DEF Crash
  <2>31. ASSUME NEW p \in Procs, NEW o \in Ops, LoadToClose(p, o) PROVE TypeOK'
    BY <2>31 DEF LoadToClose, Recoverable, OpenJournals, TERMINAL
  <2>32. ASSUME NEW p \in Procs, NEW o \in Ops, PlanRollback(p, o) PROVE TypeOK'
    <3> DEFINE Back ==
          {[file |-> e.file, side |-> e.side, to |-> e.was] : e \in snap[o]}
    <3>1. Back \subseteq Action
      BY DEF Entry, Action, Stored
    <3>2. plan' = [plan EXCEPT ![p] = Back]
      BY <2>32 DEF PlanRollback
    <3> HIDE DEF Back
    <3>3. plan' \in [Procs -> SUBSET Action]
      BY <3>1, <3>2
    <3>4. /\ op' = [op EXCEPT ![p] = o]
          /\ mem' = [mem EXCEPT ![p] = journal[o]]
          /\ pc' = [pc EXCEPT ![p] = "rollback"]
          /\ UNCHANGED <<codex, data, shared, lock, todo, tries, source,
                         history, used>>
      BY <2>32 DEF PlanRollback
    <3>5. journal[o] \in States
      BY <2>32 DEF PlanRollback, Recoverable, OpenJournals
    <3> QED
      BY <3>3, <3>4, <3>5
  <2>33. ASSUME NEW m \in Machines, StartCodex(m) PROVE TypeOK'
    BY <2>33 DEF StartCodex
  <2>34. ASSUME NEW m \in Machines, StopCodex(m) PROVE TypeOK'
    BY <2>34 DEF StopCodex
  <2>35. ASSUME NEW root \in Roots, NEW f \in Files, Edit(root, f) PROVE TypeOK'
    BY <2>35 DEF Edit, Disturb, Exposed, AfterBackup
  <2>36. CASE UNCHANGED vars
    BY <2>36 DEF vars
  <2> QED
    BY <2>1, <2>2, <2>3, <2>4, <2>5, <2>6, <2>7, <2>8, <2>9, <2>10, <2>11, <2>12, <2>13, <2>14, <2>15, <2>16, <2>17, <2>18, <2>19, <2>20, <2>21, <2>22, <2>23, <2>24, <2>25, <2>26, <2>27, <2>28, <2>29, <2>30, <2>31, <2>32, <2>33, <2>34, <2>35, <2>36
       DEF Next, Step, Person, Environment, Begin, Execute, Failure, Recover
<1> QED
  BY <1>1, <1>2, PTL DEF Spec

-----------------------------------------------------------------------------
\* A run that found nothing left to replace has applied its whole plan.
LEMMA DoneApplied ==
  ASSUME PlanSplit, NEW p \in Procs, pc[p] = "done"
  PROVE  /\ planned[op[p]] = plan[p]
         /\ applied[op[p]] \union todo[p] = plan[p]
         /\ todo[p] = {}
BY DEF PlanSplit, Running, Guarded, InCommit

\* One step of any process, of Codex or of the cloud client preserves Inv; the
\* delicate ones are CloseAbandoned, which may only meet journals whose run is
\* over, Commit and Fail.
LEMMA InvInductive == TypeOK /\ Inv /\ [Next]_vars => Inv'
<1> SUFFICES ASSUME TypeOK, Inv, [Next]_vars PROVE Inv'
  OBVIOUS
<1> USE EnvelopeAssumption
    DEF TypeOK, Inv, LockHeld, OwnJournal, OneRunPerJournal, Remembers,
        FreshOps, NothingYet, AbandonedIsOver, CommitIsOpen, PlanSplit,
        EvidenceBeforeReplace, HalfAppliedBlocks, CommittedIsComplete,
        shared, process, history, Go, Leave, PCs, States, TERMINAL,
        BEFORE_COMMIT, Ready, Waiting, InCommit, Locked, Running, Guarded,
        OpenJournals, Partial
<1>1. ASSUME NEW p \in Procs, CloseAbandoned(p) PROVE Inv'
  <2>1. PICK o \in Abandoned(MachineOf[p]) :
          /\ journal' = [journal EXCEPT ![o] = "FAILED"]
          /\ closedBy' = [closedBy EXCEPT ![o] = "begin"]
    BY <1>1 DEF CloseAbandoned
  <2>2. /\ o \in Ops /\ owner[o] = MachineOf[p] /\ journal[o] \in BEFORE_COMMIT
        /\ applied[o] = {}
    BY <2>1 DEF Abandoned
  \* The lock of this machine is p's, and p works on no operation yet.
  <2>3. \A q \in Procs : pc[q] \in Running => op[q] # o
    <3> SUFFICES ASSUME NEW q \in Procs, pc[q] \in Running, op[q] = o
                 PROVE FALSE
      OBVIOUS
    <3>1. lock[MachineOf[p]] = p /\ pc[p] = "begin"
      BY <1>1 DEF CloseAbandoned
    <3>2. lock[MachineOf[q]] = q
      OBVIOUS
    <3>3. MachineOf[q] = MachineOf[p]
      BY <2>2
    <3> QED
      BY <3>1, <3>2, <3>3
  <2>4. /\ pc[p] = "begin"
        /\ UNCHANGED <<data, owner, planned, lock, process, applied>>
    BY <1>1 DEF CloseAbandoned
  <2>5. LockHeld' /\ OwnJournal' /\ OneRunPerJournal' /\ Remembers'
    BY <2>1, <2>2, <2>4
  <2>6. FreshOps' /\ NothingYet' /\ PlanSplit'
    BY <2>1, <2>2, <2>4
  <2>7. AbandonedIsOver' /\ CommitIsOpen'
    BY <2>1, <2>2, <2>3, <2>4
  <2>8. EvidenceBeforeReplace' /\ HalfAppliedBlocks' /\ CommittedIsComplete'
    BY <2>1, <2>2, <2>4
  <2> QED
    BY <2>5, <2>6, <2>7, <2>8
<1>2. ASSUME NEW p \in Procs, ScanClear(p) PROVE Inv'
  BY <1>2 DEF ScanClear
<1>3. ASSUME NEW p \in Procs, ScanBlocked(p) PROVE Inv'
  BY <1>3 DEF ScanBlocked
<1>4. ASSUME NEW p \in Procs, OpenJournal(p) PROVE Inv'
  BY <1>4 DEF OpenJournal
<1>5. ASSUME NEW p \in Procs, BeginRefused(p) PROVE Inv'
  BY <1>5 DEF BeginRefused
<1>6. ASSUME NEW p \in Procs, Stage(p) PROVE Inv'
  BY <1>6 DEF Stage
<1>7. ASSUME NEW p \in Procs, BackupFile(p) PROVE Inv'
  BY <1>7 DEF BackupFile
<1>8. ASSUME NEW p \in Procs, BackupDone(p) PROVE Inv'
  BY <1>8 DEF BackupDone
<1>9. ASSUME NEW p \in Procs, Finalize(p) PROVE Inv'
  BY <1>9 DEF Finalize
<1>10. ASSUME NEW p \in Procs, AfterBackupHook(p) PROVE Inv'
  BY <1>10 DEF AfterBackupHook, Transition
<1>11. ASSUME NEW p \in Procs, PreCommitGate(p) PROVE Inv'
  BY <1>11 DEF PreCommitGate
<1>12. ASSUME NEW p \in Procs, PreCommit(p) PROVE Inv'
  BY <1>12 DEF PreCommit, Transition
<1>13. ASSUME NEW p \in Procs, ReplaceGate(p) PROVE Inv'
  BY <1>13 DEF ReplaceGate
<1>14. ASSUME NEW p \in Procs, Replace(p) PROVE Inv'
  BY <1>14 DEF Replace, Due
<1>15. ASSUME NEW p \in Procs, ReplaceLocked(p) PROVE Inv'
  BY <1>15 DEF ReplaceLocked
<1>16. ASSUME NEW p \in Procs, Verify(p) PROVE Inv'
  <2>1. /\ pc[p] = "verify" /\ pc' = [pc EXCEPT ![p] = "gate"]
        /\ \E a \in todo[p] \intersect applied[op[p]] :
               todo' = [todo EXCEPT ![p] = @ \ {a}]
        /\ UNCHANGED <<journal, owner, planned, lock, op, mem, plan, applied,
                       closedBy>>
    BY <1>16 DEF Verify
  <2>2. LockHeld' /\ OwnJournal' /\ OneRunPerJournal' /\ Remembers'
    BY <2>1
  <2>3. FreshOps' /\ NothingYet' /\ AbandonedIsOver' /\ CommitIsOpen'
    BY <2>1
  <2>4. PlanSplit'
    BY <2>1
  <2>5. EvidenceBeforeReplace' /\ HalfAppliedBlocks' /\ CommittedIsComplete'
    BY <2>1
  <2> QED
    BY <2>2, <2>3, <2>4, <2>5
<1>17. ASSUME NEW p \in Procs, AllReplaced(p) PROVE Inv'
  BY <1>17 DEF AllReplaced, NothingLeft
<1>18. ASSUME NEW p \in Procs, Commit(p) PROVE Inv'
  <2>1. LockHeld' /\ OwnJournal' /\ OneRunPerJournal' /\ Remembers'
    BY <1>18 DEF Commit, Transition
  <2>2. FreshOps' /\ NothingYet' /\ AbandonedIsOver' /\ PlanSplit'
    BY <1>18 DEF Commit, Transition
  <2>3. CommitIsOpen'
    BY <1>18 DEF Commit, Transition
  <2>4. EvidenceBeforeReplace'
    BY <1>18 DEF Commit, Transition
  <2>5. applied[op[p]] = planned[op[p]]
    <3>1. pc[p] = "done"
      BY <1>18 DEF Commit, Transition
    <3>2. /\ planned[op[p]] = plan[p]
          /\ applied[op[p]] \union todo[p] = plan[p]
          /\ todo[p] = {}
      BY <3>1, DoneApplied
    <3> QED
      BY <3>2
  <2>6. HalfAppliedBlocks' /\ CommittedIsComplete'
    <3>1. /\ journal' = [journal EXCEPT ![op[p]] = "COMMITTED"]
          /\ closedBy' = [closedBy EXCEPT ![op[p]] = "run"]
          /\ UNCHANGED <<applied, planned>>
      BY <1>18 DEF Commit, Transition
    <3> QED
      BY <2>5, <3>1
  <2> QED
    BY <2>1, <2>2, <2>3, <2>4, <2>6
<1>19. ASSUME NEW p \in Procs, Prune(p) PROVE Inv'
  BY <1>19 DEF Prune
<1>20. ASSUME NEW p \in Procs, Raise(p) PROVE Inv'
  BY <1>20 DEF Raise
<1>21. ASSUME NEW p \in Procs, Fail(p) PROVE Inv'
  <2>1. LockHeld' /\ OwnJournal' /\ OneRunPerJournal' /\ Remembers'
    BY <1>21 DEF Fail, FailureState
  <2>2. FreshOps' /\ NothingYet' /\ AbandonedIsOver' /\ PlanSplit'
    BY <1>21 DEF Fail, FailureState
  <2>3. CommitIsOpen'
    BY <1>21 DEF Fail, FailureState
  <2>4. EvidenceBeforeReplace'
    BY <1>21 DEF Fail, FailureState
  <2>5. HalfAppliedBlocks'
    BY <1>21 DEF Fail, FailureState
  <2>6. CommittedIsComplete'
    BY <1>21 DEF Fail, FailureState
  <2> QED
    BY <2>1, <2>2, <2>3, <2>4, <2>5, <2>6
<1>22. ASSUME NEW p \in Procs, FailUnrecorded(p) PROVE Inv'
  BY <1>22 DEF FailUnrecorded
<1>23. ASSUME NEW p \in Procs, RollbackLock(p) PROVE Inv'
  BY <1>23 DEF RollbackLock, LockFree
<1>24. ASSUME NEW p \in Procs, RollbackRefused(p) PROVE Inv'
  BY <1>24 DEF RollbackRefused
<1>25. ASSUME NEW p \in Procs, Acknowledge(p) PROVE Inv'
  BY <1>25 DEF Acknowledge
<1>26. ASSUME NEW p \in Procs, ResumeClose(p) PROVE Inv'
  BY <1>26 DEF ResumeClose
<1>27. ASSUME NEW p \in Procs, RollbackClose(p) PROVE Inv'
  BY <1>27 DEF RollbackClose
<1>28. ASSUME NEW p \in Procs, RecoverRefused(p) PROVE Inv'
  BY <1>28 DEF RecoverRefused
<1>29. ASSUME NEW p \in Procs, Start(p) PROVE Inv'
  BY <1>29 DEF Start, LockFree
<1>30. ASSUME NEW p \in Procs, Crash(p) PROVE Inv'
  BY <1>30 DEF Crash
<1>31. ASSUME NEW p \in Procs, NEW o \in Ops, LoadToClose(p, o) PROVE Inv'
  BY <1>31 DEF LoadToClose
<1>32. ASSUME NEW p \in Procs, NEW o \in Ops, PlanRollback(p, o) PROVE Inv'
  BY <1>32 DEF PlanRollback
<1>33. ASSUME NEW m \in Machines, StartCodex(m) PROVE Inv'
  BY <1>33 DEF StartCodex
<1>34. ASSUME NEW m \in Machines, StopCodex(m) PROVE Inv'
  BY <1>34 DEF StopCodex
<1>35. ASSUME NEW root \in Roots, NEW f \in Files, Edit(root, f) PROVE Inv'
  BY <1>35 DEF Edit
<1>36. CASE UNCHANGED vars
  BY <1>36 DEF vars
<1> QED
  BY <1>1, <1>2, <1>3, <1>4, <1>5, <1>6, <1>7, <1>8, <1>9, <1>10, <1>11, <1>12, <1>13, <1>14, <1>15, <1>16, <1>17, <1>18, <1>19, <1>20, <1>21, <1>22, <1>23, <1>24, <1>25, <1>26, <1>27, <1>28, <1>29, <1>30, <1>31, <1>32, <1>33, <1>34, <1>35, <1>36
     DEF Next, Step, Person, Environment, Begin, Execute, Failure, Recover

-----------------------------------------------------------------------------
\* Inv holds in every reachable state: it holds initially, where every process
\* is idle and no journal exists, and InvInductive carries it over every step.
LEMMA Invariance == Spec => []Inv
<1>1. Init => Inv
  BY DEF Init, Inv, LockHeld, OwnJournal, OneRunPerJournal, Remembers,
         FreshOps, NothingYet, AbandonedIsOver, CommitIsOpen, PlanSplit,
         EvidenceBeforeReplace, HalfAppliedBlocks, CommittedIsComplete,
         Ready, Waiting, InCommit, Locked, Running, Guarded, PCs,
         BEFORE_COMMIT, Partial
<1> QED
  BY <1>1, TypeInvariant, InvInductive, PTL DEF Spec

-----------------------------------------------------------------------------
\* While Codex runs, its machine has at most one replace behind it and none
\* under way, or none behind it and at most one under way.
GateFirst ==
    \A m \in Machines : codex[m] =>
        \/ since[m] = 0
        \/ since[m] = 1 /\ \A p \in Procs : MachineOf[p] = m => pc[p] # "replace"

\* A replace begins only past its gate, and the lock keeps every other process
\* of the machine out of its replaces.
LEMMA GateInductive == TypeOK /\ Inv /\ GateFirst /\ [Next]_vars => GateFirst'
<1> SUFFICES ASSUME TypeOK, Inv, GateFirst, [Next]_vars PROVE GateFirst'
  OBVIOUS
<1> USE EnvelopeAssumption DEF GateFirst, Go, Leave, shared, process, history
<1>1. ASSUME NEW p \in Procs, Replace(p) PROVE GateFirst'
  <2>1. /\ pc[p] = "replace" /\ MachineOf[p] \in Machines
        /\ since' = [since EXCEPT ![MachineOf[p]] = @ + 1]
        /\ pc' = [pc EXCEPT ![p] = "verify"] /\ UNCHANGED codex
    BY <1>1 DEF Replace
  <2>2. \A q \in Procs : MachineOf[q] = MachineOf[p] /\ q # p => pc[q] # "replace"
    BY <2>1 DEF Inv, LockHeld, Locked, PCs
  <2>3. codex[MachineOf[p]] => since[MachineOf[p]] = 0
    BY <2>1
  <2> QED
    BY <2>1, <2>2, <2>3 DEF TypeOK
<1>2. ASSUME NEW p \in Procs, ReplaceGate(p) PROVE GateFirst'
  BY <1>2 DEF ReplaceGate, FinalGate, TypeOK
<1>3. ASSUME NEW p \in Procs,
             \/ CloseAbandoned(p) \/ ScanClear(p) \/ ScanBlocked(p)
             \/ OpenJournal(p) \/ BeginRefused(p) \/ Stage(p)
             \/ BackupFile(p) \/ BackupDone(p) \/ Finalize(p)
             \/ AfterBackupHook(p) \/ PreCommitGate(p)
             \/ PreCommit(p) \/ ReplaceLocked(p) \/ Verify(p)
             \/ AllReplaced(p) \/ Commit(p) \/ Prune(p) \/ Raise(p)
             \/ Fail(p) \/ FailUnrecorded(p) \/ RollbackLock(p)
             \/ RollbackRefused(p) \/ Acknowledge(p)
             \/ ResumeClose(p) \/ RollbackClose(p)
             \/ RecoverRefused(p) \/ Start(p) \/ Crash(p)
      PROVE GateFirst'
  <2>1. UNCHANGED <<codex, since>>
    BY <1>3 DEF CloseAbandoned, ScanClear, ScanBlocked, OpenJournal, BeginRefused,
         Stage, BackupFile, BackupDone, Finalize, AfterBackupHook,
         PreCommitGate, PreCommit, ReplaceLocked, Verify,
         AllReplaced, Commit, Prune, Raise, Fail, FailUnrecorded,
         RollbackLock, RollbackRefused, Acknowledge, ResumeClose,
         RollbackClose, RecoverRefused, Start, Crash, Transition
  <2>2. \A q \in Procs : pc'[q] = "replace" => pc[q] = "replace"
    BY <1>3 DEF TypeOK, CloseAbandoned, ScanClear, ScanBlocked, OpenJournal,
         BeginRefused, Stage, BackupFile, BackupDone,
         Finalize, AfterBackupHook, PreCommitGate,
         PreCommit, ReplaceLocked, Verify, AllReplaced,
         Commit, Prune, Raise, Fail, FailUnrecorded,
         RollbackLock, RollbackRefused, Acknowledge,
         ResumeClose, RollbackClose, RecoverRefused,
         Start, Crash, Transition
  <2> QED
    BY <2>1, <2>2
<1>4. ASSUME NEW p \in Procs, NEW o \in Ops,
             LoadToClose(p, o) \/ PlanRollback(p, o)
      PROVE GateFirst'
  BY <1>4 DEF LoadToClose, PlanRollback, TypeOK
<1>5. ASSUME NEW m \in Machines, StartCodex(m) PROVE GateFirst'
  BY <1>5 DEF StartCodex, TypeOK
<1>6. ASSUME NEW m \in Machines, StopCodex(m) PROVE GateFirst'
  BY <1>6 DEF StopCodex, TypeOK
<1>7. ASSUME NEW root \in Roots, NEW f \in Files, Edit(root, f) PROVE GateFirst'
  BY <1>7 DEF Edit
<1>8. CASE UNCHANGED vars
  BY <1>8 DEF vars
<1> QED
  BY <1>1, <1>2, <1>3, <1>4, <1>5, <1>6, <1>7, <1>8
     DEF Next, Step, Person, Environment, Begin, Execute, Failure, Recover

\* The gate is proven before every replace and every retry (sync_engine,
\* fs_replace): a Codex that starts meets at most the one replace under way.
THEOREM GateHolds == Spec => []OneReplaceAfterCodexStarts
<1>1. Init => GateFirst
  BY DEF Init, GateFirst
<1>2. TypeOK /\ GateFirst => OneReplaceAfterCodexStarts
  BY DEF TypeOK, GateFirst, OneReplaceAfterCodexStarts
<1> QED
  BY <1>1, <1>2, TypeInvariant, Invariance, GateInductive, PTL DEF Spec

\* Two processes of one machine are never inside a mutation of its Codex
\* folder together (operation_lock): the lock names one of them.
THEOREM MutualExclusion == Spec => []OneMutationPerCodexFolder
<1>1. Inv => OneMutationPerCodexFolder
  BY DEF Inv, LockHeld, OneMutationPerCodexFolder
<1> QED
  BY <1>1, Invariance, PTL

\* The evidence recovery rests on: a journal that never entered its commit
\* phase, and one begin closed as abandoned, replaced nothing.
THEOREM JournalIsEvidence == Spec => []EvidenceBeforeReplace
<1>1. Inv => EvidenceBeforeReplace
  BY DEF Inv
<1> QED
  BY <1>1, Invariance, PTL

\* A half-applied plan keeps its journal open until a person resumes it or
\* rolls it back; no failure, crash or later run closes it.
THEOREM HalfAppliedStaysOpen == Spec => []HalfAppliedBlocks
<1>1. Inv => HalfAppliedBlocks
  BY DEF Inv
<1> QED
  BY <1>1, Invariance, PTL

\* COMMITTED means that every action of the plan took effect.
THEOREM CommittedMeansApplied == Spec => []CommittedIsComplete
<1>1. Inv => CommittedIsComplete
  BY DEF Inv
<1> QED
  BY <1>1, Invariance, PTL

-----------------------------------------------------------------------------
(***************************************************************************)
(* With recover run only on journals no live process works on.             *)
(***************************************************************************)

Aside == {"resume", "rollback", "closing"}

\* A run and its journal agree.
RunsKnow == \A p \in Procs : pc[p] \in Running => journal[op[p]] = mem[p]

\* Who recovers an operation is alone with it; a journal it read before its
\* commit phase may be closed by begin meanwhile.
RecoverersKnow ==
    \A p \in Procs : pc[p] \in Aside =>
        /\ op[p] \in Ops /\ mem[p] \in States \ TERMINAL
        /\ \/ journal[op[p]] = mem[p]
           \/ mem[p] \in BEFORE_COMMIT /\ journal[op[p]] = "FAILED"
RecoverersApart ==
    \A p, q \in Procs :
        pc[p] \in Aside /\ pc[q] \in Running \union Aside /\ op[q] = op[p] => q = p

\* An open journal was closed by nobody.
OpenIsNobodys ==
    \A o \in Ops : journal[o] \notin TERMINAL => closedBy[o] = "nobody"

AloneInv == RunsKnow /\ RecoverersKnow /\ RecoverersApart /\ OpenIsNobodys

-----------------------------------------------------------------------------
\* One step preserves AloneInv: recover takes only what nobody works on, and
\* begin closes only journals whose run is over.
LEMMA AloneInductive ==
  ASSUME RecoverAlone PROVE TypeOK /\ Inv /\ AloneInv /\ [Next]_vars => AloneInv'
<1> SUFFICES ASSUME TypeOK, Inv, AloneInv, [Next]_vars PROVE AloneInv'
  OBVIOUS
<1> USE EnvelopeAssumption, RecoverAlone
    DEF TypeOK, Inv, OwnJournal, OneRunPerJournal, Remembers,
        AloneInv, RunsKnow, RecoverersKnow, RecoverersApart, OpenIsNobodys,
        shared, process, history, Go, Leave, PCs, States, TERMINAL,
        BEFORE_COMMIT, Ready, Waiting, InCommit, Running, Guarded, Aside,
        OpenJournals
<1>1. ASSUME NEW p \in Procs, CloseAbandoned(p) PROVE AloneInv'
  <2>1. PICK o \in Abandoned(MachineOf[p]) :
          /\ journal' = [journal EXCEPT ![o] = "FAILED"]
          /\ closedBy' = [closedBy EXCEPT ![o] = "begin"]
    BY <1>1 DEF CloseAbandoned
  <2>2. o \in Ops /\ owner[o] = MachineOf[p] /\ journal[o] \in BEFORE_COMMIT
    BY <2>1 DEF Abandoned
  <2>3. \A q \in Procs : pc[q] \in Running => op[q] # o
    <3> SUFFICES ASSUME NEW q \in Procs, pc[q] \in Running, op[q] = o
                 PROVE FALSE
      OBVIOUS
    <3>1. MachineOf[q] = MachineOf[p]
      BY <2>2
    <3>2. pc[p] = "begin" /\ pc[p] \in Locked /\ pc[q] \in Locked
      BY <1>1 DEF CloseAbandoned, Locked
    <3>3. lock[MachineOf[p]] = p /\ lock[MachineOf[q]] = q
      BY <3>2 DEF LockHeld
    <3> QED
      BY <3>1, <3>2, <3>3
  <2>4. UNCHANGED <<process, owner>>
    BY <1>1 DEF CloseAbandoned
  <2> QED
    BY <2>1, <2>2, <2>3, <2>4
<1>2. ASSUME NEW p \in Procs, ScanClear(p) PROVE AloneInv'
  BY <1>2 DEF ScanClear
<1>3. ASSUME NEW p \in Procs, ScanBlocked(p) PROVE AloneInv'
  BY <1>3 DEF ScanBlocked
<1>4. ASSUME NEW p \in Procs, OpenJournal(p) PROVE AloneInv'
  <2>1. PICK o \in Ops :
          /\ journal[o] = "ABSENT"
          /\ journal' = [journal EXCEPT ![o] = "PREPARED"]
          /\ op' = [op EXCEPT ![p] = o]
    BY <1>4 DEF OpenJournal
  <2>2. /\ pc[p] = "open" /\ pc' = [pc EXCEPT ![p] = "stage"]
        /\ mem' = [mem EXCEPT ![p] = "PREPARED"] /\ UNCHANGED closedBy
    BY <1>4 DEF OpenJournal
  <2>3. \A q \in Procs : pc[q] \in Running \union Aside => op[q] # o
    <3>1. \A q \in Procs : pc[q] \in Running => op[q] # o
      BY <2>1
    <3>2. \A q \in Procs : pc[q] \in Aside => journal[op[q]] # "ABSENT"
      OBVIOUS
    <3> QED
      BY <2>1, <3>1, <3>2
  <2>4. RunsKnow' /\ RecoverersKnow'
    BY <2>1, <2>2, <2>3
  <2>5. RecoverersApart' /\ OpenIsNobodys'
    BY <2>1, <2>2, <2>3
  <2> QED
    BY <2>4, <2>5
<1>5. ASSUME NEW p \in Procs, BeginRefused(p) PROVE AloneInv'
  BY <1>5 DEF BeginRefused
<1>6. ASSUME NEW p \in Procs, Stage(p) PROVE AloneInv'
  BY <1>6 DEF Stage
<1>7. ASSUME NEW p \in Procs, BackupFile(p) PROVE AloneInv'
  BY <1>7 DEF BackupFile
<1>8. ASSUME NEW p \in Procs, BackupDone(p) PROVE AloneInv'
  BY <1>8 DEF BackupDone
<1>9. ASSUME NEW p \in Procs, Finalize(p) PROVE AloneInv'
  BY <1>9 DEF Finalize
<1>10. ASSUME NEW p \in Procs, AfterBackupHook(p) PROVE AloneInv'
  BY <1>10 DEF AfterBackupHook, Transition
<1>11. ASSUME NEW p \in Procs, PreCommitGate(p) PROVE AloneInv'
  BY <1>11 DEF PreCommitGate
<1>12. ASSUME NEW p \in Procs, PreCommit(p) PROVE AloneInv'
  BY <1>12 DEF PreCommit, Transition
<1>13. ASSUME NEW p \in Procs, ReplaceGate(p) PROVE AloneInv'
  BY <1>13 DEF ReplaceGate
<1>14. ASSUME NEW p \in Procs, Replace(p) PROVE AloneInv'
  BY <1>14 DEF Replace
<1>15. ASSUME NEW p \in Procs, ReplaceLocked(p) PROVE AloneInv'
  BY <1>15 DEF ReplaceLocked
<1>16. ASSUME NEW p \in Procs, Verify(p) PROVE AloneInv'
  BY <1>16 DEF Verify
<1>17. ASSUME NEW p \in Procs, AllReplaced(p) PROVE AloneInv'
  BY <1>17 DEF AllReplaced
<1>18. ASSUME NEW p \in Procs, Commit(p) PROVE AloneInv'
  BY <1>18 DEF Commit, Transition
<1>19. ASSUME NEW p \in Procs, Prune(p) PROVE AloneInv'
  BY <1>19 DEF Prune
<1>20. ASSUME NEW p \in Procs, Raise(p) PROVE AloneInv'
  BY <1>20 DEF Raise
<1>21. ASSUME NEW p \in Procs, Fail(p) PROVE AloneInv'
  BY <1>21 DEF Fail, FailureState
<1>22. ASSUME NEW p \in Procs, FailUnrecorded(p) PROVE AloneInv'
  BY <1>22 DEF FailUnrecorded
<1>23. ASSUME NEW p \in Procs, RollbackLock(p) PROVE AloneInv'
  BY <1>23 DEF RollbackLock
<1>24. ASSUME NEW p \in Procs, RollbackRefused(p) PROVE AloneInv'
  BY <1>24 DEF RollbackRefused
<1>25. ASSUME NEW p \in Procs, Acknowledge(p) PROVE AloneInv'
  <2>1. /\ pc[p] \in Aside /\ mem[p] = "COMMITTING"
        /\ journal' = [journal EXCEPT ![op[p]] = "RECOVERY_REQUIRED"]
        /\ mem' = [mem EXCEPT ![p] = "RECOVERY_REQUIRED"]
        /\ UNCHANGED <<pc, op, closedBy>>
    BY <1>25 DEF Acknowledge
  <2>2. op[p] \in Ops /\ journal[op[p]] = "COMMITTING"
    BY <2>1
  <2>3. \A q \in Procs \ {p} : pc[q] \in Running \union Aside => op[q] # op[p]
    BY <2>1
  <2>4. RunsKnow' /\ RecoverersKnow'
    BY <2>1, <2>2, <2>3
  <2>5. RecoverersApart' /\ OpenIsNobodys'
    BY <2>1, <2>2
  <2> QED
    BY <2>4, <2>5
<1>26. ASSUME NEW p \in Procs, ResumeClose(p) PROVE AloneInv'
  BY <1>26 DEF ResumeClose
<1>27. ASSUME NEW p \in Procs, RollbackClose(p) PROVE AloneInv'
  BY <1>27 DEF RollbackClose
<1>28. ASSUME NEW p \in Procs, RecoverRefused(p) PROVE AloneInv'
  BY <1>28 DEF RecoverRefused
<1>29. ASSUME NEW p \in Procs, Start(p) PROVE AloneInv'
  BY <1>29 DEF Start
<1>30. ASSUME NEW p \in Procs, Crash(p) PROVE AloneInv'
  BY <1>30 DEF Crash
<1>31. ASSUME NEW p \in Procs, NEW o \in Ops, LoadToClose(p, o) PROVE AloneInv'
  BY <1>31 DEF LoadToClose, Recoverable, InFlight
<1>32. ASSUME NEW p \in Procs, NEW o \in Ops, PlanRollback(p, o) PROVE AloneInv'
  BY <1>32 DEF PlanRollback, Recoverable, InFlight
<1>33. ASSUME NEW m \in Machines, StartCodex(m) PROVE AloneInv'
  BY <1>33 DEF StartCodex
<1>34. ASSUME NEW m \in Machines, StopCodex(m) PROVE AloneInv'
  BY <1>34 DEF StopCodex
<1>35. ASSUME NEW root \in Roots, NEW f \in Files, Edit(root, f) PROVE AloneInv'
  BY <1>35 DEF Edit
<1>36. CASE UNCHANGED vars
  BY <1>36 DEF vars
<1> QED
  BY <1>1, <1>2, <1>3, <1>4, <1>5, <1>6, <1>7, <1>8, <1>9, <1>10, <1>11, <1>12, <1>13, <1>14, <1>15, <1>16, <1>17, <1>18, <1>19, <1>20, <1>21, <1>22, <1>23, <1>24, <1>25, <1>26, <1>27, <1>28, <1>29, <1>30, <1>31, <1>32, <1>33, <1>34, <1>35, <1>36
     DEF Next, Step, Person, Environment, Begin, Execute, Failure, Recover

\* When recover runs alone, the invariant of the envelope and what that adds hold throughout.
LEMMA AloneInvariance ==
  ASSUME RecoverAlone PROVE Spec => [](TypeOK /\ Inv /\ AloneInv)
<1>1. Init => AloneInv
  BY DEF Init, AloneInv, RunsKnow, RecoverersKnow, RecoverersApart,
         OpenIsNobodys, Running, Guarded, Aside
<1>2. TypeOK /\ Inv /\ AloneInv /\ [Next]_vars => AloneInv'
  BY AloneInductive
<1> QED
  BY <1>1, <1>2, TypeInvariant, Invariance, PTL DEF Spec

-----------------------------------------------------------------------------
\* The abstract state is made of the journals, their plans and what took effect.
LEMMA Stutters ==
  ASSUME UNCHANGED <<journal, planned, applied, closedBy>>
  PROVE  UNCHANGED Promise!atomicVars
BY DEF Promise!atomicVars, Standing, ClosedByPerson

\* A journal that goes from one open state to another is the same to a caller.
LEMMA StaysOpen ==
  ASSUME TypeOK, NEW o \in Ops, NEW s \in States \ TERMINAL,
         journal[o] \in States \ TERMINAL,
         journal' = [journal EXCEPT ![o] = s],
         UNCHANGED <<planned, applied, closedBy>>
  PROVE  UNCHANGED Promise!atomicVars
BY DEF Promise!atomicVars, Standing, ClosedByPerson, TypeOK, States, TERMINAL

\* Nothing took effect, and the journal is closed by the code.
LEMMA CodeCloses ==
  ASSUME TypeOK, NEW o \in Ops, journal[o] \in States \ TERMINAL,
         applied[o] = {}, closedBy[o] = "nobody",
         NEW who \in {"run", "begin"},
         journal' = [journal EXCEPT ![o] = "FAILED"],
         closedBy' = [closedBy EXCEPT ![o] = who],
         UNCHANGED <<planned, applied>>
  PROVE  Promise!Abandon(o)
BY DEF Promise!Abandon, Promise!Becomes, Standing, ClosedByPerson, TypeOK,
       States, TERMINAL

\* A person closes it, whatever took effect.
LEMMA PersonCloses ==
  ASSUME TypeOK, NEW o \in Ops,
         journal[o] \in (States \ TERMINAL) \union {"FAILED"},
         NEW who \in {"resume", "rollback"},
         journal' = [journal EXCEPT ![o] = "FAILED"],
         closedBy' = [closedBy EXCEPT ![o] = who],
         UNCHANGED <<planned, applied>>
  PROVE  Promise!EndByPerson(o)
BY DEF Promise!EndByPerson, Promise!Becomes, Standing, ClosedByPerson, TypeOK,
       States, TERMINAL

\* Every step of the envelope is a step of AtomicMutation or a stutter.
LEMMA StepSimulates ==
  ASSUME RecoverAlone
  PROVE  TypeOK /\ Inv /\ AloneInv /\ [Next]_vars
             => [Promise!AtomicNext]_(Promise!atomicVars)
<1> SUFFICES ASSUME TypeOK, Inv, AloneInv, [Next]_vars
             PROVE  Promise!AtomicNext \/ UNCHANGED Promise!atomicVars
  OBVIOUS
<1> DEFINE Simulated == Promise!AtomicNext \/ UNCHANGED Promise!atomicVars
<1>1. ASSUME NEW p \in Procs, CloseAbandoned(p) PROVE Simulated
  <2>1. PICK o \in Abandoned(MachineOf[p]) :
          /\ journal' = [journal EXCEPT ![o] = "FAILED"]
          /\ closedBy' = [closedBy EXCEPT ![o] = "begin"]
    BY <1>1 DEF CloseAbandoned
  <2>2. o \in Ops /\ journal[o] \in States \ TERMINAL /\ applied[o] = {}
    BY <2>1 DEF Abandoned, Inv, EvidenceBeforeReplace, BEFORE_COMMIT, States,
               TERMINAL
  <2>3. closedBy[o] = "nobody"
    BY <2>2 DEF AloneInv, OpenIsNobodys
  <2>4. Promise!Abandon(o)
    BY <1>1, <2>1, <2>2, <2>3, CodeCloses DEF CloseAbandoned
  <2> QED
    BY <2>2, <2>4 DEF Promise!AtomicNext
<1>2. ASSUME NEW p \in Procs, OpenJournal(p) PROVE Simulated
  <2>1. PICK o \in Ops :
          /\ journal[o] = "ABSENT"
          /\ journal' = [journal EXCEPT ![o] = "PREPARED"]
          /\ planned' = [planned EXCEPT ![o] = plan[p]]
    BY <1>2 DEF OpenJournal
  <2>2. UNCHANGED <<applied, closedBy>> /\ plan[p] \subseteq Action
    BY <1>2 DEF OpenJournal, history, TypeOK
  <2>3. Promise!Open(o)
    BY <2>1, <2>2 DEF Promise!Open, Promise!Becomes, Standing, ClosedByPerson, TypeOK
  <2> QED
    BY <2>3 DEF Promise!AtomicNext
<1>3. ASSUME NEW p \in Procs,
             \E s \in States \ TERMINAL :
                 /\ pc[p] \in Running \union Aside /\ op[p] \in Ops
                 /\ journal[op[p]] \in States \ TERMINAL
                 /\ journal' = [journal EXCEPT ![op[p]] = s]
                 /\ UNCHANGED <<planned, applied, closedBy>>
      PROVE Simulated
  BY <1>3, StaysOpen
<1>4. ASSUME NEW p \in Procs, AfterBackupHook(p) PROVE Simulated
  <2>1. pc[p] = "backedup" /\ pc[p] \in Running
    BY <1>4 DEF AfterBackupHook, Transition, Running, Guarded
  <2>2. op[p] \in Ops /\ journal[op[p]] \in States \ TERMINAL
    BY <2>1 DEF TypeOK, AloneInv, RunsKnow, Inv, Remembers, Ready, States, TERMINAL
  <2> QED
    BY <1>3, <1>4, <2>1, <2>2 DEF AfterBackupHook, Transition, States, TERMINAL
<1>5. ASSUME NEW p \in Procs, PreCommit(p) PROVE Simulated
  <2>1. pc[p] = "commit" /\ pc[p] \in Running
    BY <1>5 DEF PreCommit, Transition, Running, Guarded
  <2>2. op[p] \in Ops /\ journal[op[p]] \in States \ TERMINAL
    BY <2>1 DEF TypeOK, AloneInv, RunsKnow, Inv, Remembers, Waiting, States, TERMINAL
  <2> QED
    BY <1>3, <1>5, <2>1, <2>2 DEF PreCommit, Transition, States, TERMINAL
<1>6. ASSUME NEW p \in Procs, Replace(p) PROVE Simulated
  <2>1. /\ pc[p] = "replace" /\ pc[p] \in Running /\ pc[p] \in InCommit
        /\ op[p] \in Ops
    BY <1>6 DEF Replace, Running, Guarded, InCommit, TypeOK
  <2>2. PICK a \in Due(p) : applied' = [applied EXCEPT ![op[p]] = @ \union {a}]
    BY <1>6 DEF Replace
  <2>3. journal[op[p]] = "COMMITTING"
    BY <2>1 DEF AloneInv, RunsKnow, Inv, Remembers
  <2>4. /\ planned[op[p]] = plan[p] /\ applied[op[p]] \union todo[p] = plan[p]
        /\ todo[p] \subseteq Action /\ planned[op[p]] \subseteq Action
    BY <2>1 DEF Inv, PlanSplit, TypeOK
  <2>5. a \in planned[op[p]] /\ a \in Action
        /\ \A b \in todo[p] : Rank(a) <= Rank(b)
    BY <2>2, <2>4 DEF Due
  <2>6. \A b \in planned[op[p]] : Rank(b) < Rank(a) => b \in applied[op[p]]
    BY <2>4, <2>5 DEF Rank
  <2>7. UNCHANGED <<journal, planned, closedBy>>
    BY <1>6 DEF Replace, shared
  <2>8. CASE a \in applied[op[p]]
    BY <2>1, <2>2, <2>7, <2>8, Stutters DEF TypeOK
  <2>9. CASE a \notin applied[op[p]]
    <3>1. Promise!TakeEffect(op[p], a)
      BY <2>1, <2>2, <2>3, <2>4, <2>5, <2>6, <2>7
         DEF Promise!TakeEffect, Promise!atomicVars, Standing, ClosedByPerson
    <3> QED
      BY <2>1, <2>5, <2>9, <3>1 DEF Promise!AtomicNext
  <2> QED
    BY <2>8, <2>9
<1>7. ASSUME NEW p \in Procs, Commit(p) PROVE Simulated
  <2>1. pc[p] = "done" /\ pc[p] \in Running /\ pc[p] \in InCommit /\ op[p] \in Ops
    BY <1>7 DEF Commit, Transition, Running, Guarded, InCommit, TypeOK
  <2>2. journal[op[p]] = "COMMITTING" /\ closedBy[op[p]] = "nobody"
    BY <2>1 DEF AloneInv, RunsKnow, OpenIsNobodys, Inv, Remembers, TERMINAL
  <2>3. applied[op[p]] = planned[op[p]]
    <3>1. /\ planned[op[p]] = plan[p]
          /\ applied[op[p]] \union todo[p] = plan[p]
          /\ todo[p] = {}
      BY <2>1, DoneApplied DEF Inv
    <3> QED
      BY <3>1
  <2>4. /\ journal' = [journal EXCEPT ![op[p]] = "COMMITTED"]
        /\ closedBy' = [closedBy EXCEPT ![op[p]] = "run"]
        /\ UNCHANGED <<planned, applied>>
    BY <1>7 DEF Commit, Transition
  <2>5. Promise!Complete(op[p])
    BY <2>1, <2>2, <2>3, <2>4
       DEF Promise!Complete, Promise!Becomes, Standing, ClosedByPerson, TypeOK
  <2> QED
    BY <2>1, <2>5 DEF Promise!AtomicNext
<1>8. ASSUME NEW p \in Procs, Fail(p) PROVE Simulated
  <2>1. pc[p] = "fail" /\ pc[p] \in Running /\ op[p] \in Ops
    BY <1>8 DEF Fail, Running, TypeOK
  <2>2. /\ mem[p] \in {"PREPARED", "BACKED_UP", "COMMITTING"}
        /\ journal[op[p]] = mem[p]
    BY <2>1 DEF AloneInv, RunsKnow, Inv, Remembers
  <2>3. UNCHANGED <<planned, applied>>
    BY <1>8 DEF Fail
  <2>4. CASE mem[p] = "COMMITTING"
    <3>1. journal' = [journal EXCEPT ![op[p]] = "RECOVERY_REQUIRED"]
          /\ UNCHANGED closedBy
      BY <1>8, <2>4 DEF Fail, FailureState
    <3> QED
      BY <1>3, <2>1, <2>2, <2>3, <3>1 DEF States, TERMINAL
  <2>5. CASE mem[p] # "COMMITTING"
    <3>1. /\ journal' = [journal EXCEPT ![op[p]] = "FAILED"]
          /\ closedBy' = [closedBy EXCEPT ![op[p]] = "run"]
      BY <1>8, <2>5 DEF Fail, FailureState
    <3>2. applied[op[p]] = {} /\ closedBy[op[p]] = "nobody"
      BY <2>1, <2>2, <2>5
         DEF Inv, NothingYet, BEFORE_COMMIT, AloneInv, OpenIsNobodys, TERMINAL
    <3>3. journal[op[p]] \in States \ TERMINAL
      BY <2>2, <2>5 DEF States, TERMINAL
    <3>4. Promise!Abandon(op[p])
      BY <2>1, <2>3, <3>1, <3>2, <3>3, CodeCloses
    <3> QED
      BY <2>1, <3>4 DEF Promise!AtomicNext
  <2> QED
    BY <2>4, <2>5
<1>9. ASSUME NEW p \in Procs, Acknowledge(p) PROVE Simulated
  <2>1. pc[p] \in Aside /\ mem[p] = "COMMITTING"
    BY <1>9 DEF Acknowledge, Aside
  <2>2. op[p] \in Ops /\ journal[op[p]] = "COMMITTING"
    BY <2>1 DEF AloneInv, RecoverersKnow, BEFORE_COMMIT
  <2>3. /\ journal' = [journal EXCEPT ![op[p]] = "RECOVERY_REQUIRED"]
        /\ UNCHANGED <<planned, applied, closedBy>>
    BY <1>9 DEF Acknowledge, history
  <2> QED
    BY <2>2, <2>3, StaysOpen DEF States, TERMINAL
<1>10. ASSUME NEW p \in Procs, ResumeClose(p) \/ RollbackClose(p) PROVE Simulated
  <2>1. pc[p] \in Aside
    BY <1>10 DEF ResumeClose, RollbackClose, Aside
  <2>2. /\ op[p] \in Ops
        /\ journal[op[p]] \in (States \ TERMINAL) \union {"FAILED"}
    BY <2>1 DEF AloneInv, RecoverersKnow
  <2>3. /\ journal' = [journal EXCEPT ![op[p]] = "FAILED"]
        /\ \E who \in {"resume", "rollback"} :
               closedBy' = [closedBy EXCEPT ![op[p]] = who]
        /\ UNCHANGED <<planned, applied>>
    BY <1>10 DEF ResumeClose, RollbackClose
  <2>4. Promise!EndByPerson(op[p])
    BY <2>2, <2>3, PersonCloses
  <2> QED
    BY <2>2, <2>4 DEF Promise!AtomicNext
\* Nothing else touches a journal, its plan or what took effect.
<1>11. ASSUME NEW p \in Procs,
              \/ ScanClear(p) \/ ScanBlocked(p) \/ BeginRefused(p)
              \/ Stage(p) \/ BackupFile(p) \/ BackupDone(p)
              \/ Finalize(p) \/ PreCommitGate(p) \/ ReplaceGate(p)
              \/ ReplaceLocked(p) \/ Verify(p) \/ AllReplaced(p)
              \/ Prune(p) \/ Raise(p) \/ FailUnrecorded(p)
              \/ RollbackLock(p) \/ RollbackRefused(p)
              \/ RecoverRefused(p) \/ Start(p) \/ Crash(p)
       PROVE Simulated
  BY <1>11, Stutters
     DEF ScanClear, ScanBlocked, BeginRefused, Stage, BackupFile, BackupDone,
         Finalize, PreCommitGate, ReplaceGate, ReplaceLocked,
         Verify, AllReplaced, Prune, Raise, FailUnrecorded,
         RollbackLock, RollbackRefused, RecoverRefused, Start,
         Crash, shared, history
<1>12. ASSUME NEW p \in Procs, NEW o \in Ops,
              LoadToClose(p, o) \/ PlanRollback(p, o)
       PROVE Simulated
  BY <1>12, Stutters DEF LoadToClose, PlanRollback, shared, history
<1>13. CASE Environment
  BY <1>13, Stutters DEF Environment, StartCodex, StopCodex, Edit, shared, history
<1>14. CASE UNCHANGED vars
  BY <1>14, Stutters DEF vars, shared, history
<1> QED
  BY <1>1, <1>2, <1>4, <1>5, <1>6, <1>7, <1>8, <1>9, <1>10, <1>11, <1>12,
     <1>13, <1>14
     DEF Next, Step, Person, Begin, Execute, Failure, Recover

\* The envelope keeps its promise: to its caller an operation is all of its
\* plan in order, nothing of it, or a person's decision (mutation_journal,
\* recovery), whoever is killed, refused or disturbed meanwhile.
THEOREM EnvelopeIsAtomic == ASSUME RecoverAlone PROVE Spec => MutationIsAtomic
<1>1. Init => Promise!AtomicInit
  BY DEF Init, Promise!AtomicInit, Standing, ClosedByPerson
<1>2. TypeOK /\ Inv /\ AloneInv /\ [Next]_vars
          => [Promise!AtomicNext]_(Promise!atomicVars)
  BY StepSimulates
<1> QED
  BY <1>1, <1>2, AloneInvariance, PTL
     DEF Spec, MutationIsAtomic, Promise!AtomicSpec

-----------------------------------------------------------------------------
\* What a rollback of o needs of the entries o overwrote.
Kept(o) ==
    \A e \in overwrote[o] :
        \/ o \in stamped /\ e \in snap[o]
        \/ <<o, e.file>> \in disturbed

\* What action a of p would overwrite now is in the snapshot of p's operation.
Old(p, a) == data[Root(p, a.side)][a.file]
Held(p, a) ==
    \/ Old(p, a) = Absent
    \/ [file |-> a.file, side |-> a.side, was |-> Old(p, a)] \in snap[op[p]]
    \/ <<op[p], a.file>> \in disturbed

\* The actions of p that are backed up and have not taken effect.
Backed(p) ==
    IF pc[p] = "backup" THEN plan[p] \ todo[p]
    ELSE IF pc[p] \in AfterBackup THEN plan[p] \ applied[op[p]] ELSE {}

BackedHeld == \A p \in Procs : \A a \in Backed(p) : Held(p, a)

Stamping == {"backedup", "commitgate", "commit", "gate", "replace", "verify"}

NamedOnce ==
    /\ \A p \in Procs : OncePerPath(plan[p])
    /\ \A o \in Ops : OncePerPath(snap[o])

\* A snapshot begins empty and grows by the actions the run is done with.
SnapGrows ==
    /\ \A o \in Ops : journal[o] = "ABSENT" => snap[o] = {}
    /\ \A p \in Procs :
        /\ pc[p] = "stage" => snap[op[p]] = {}
        /\ pc[p] = "backup" =>
               /\ todo[p] \subseteq plan[p]
               /\ \A e \in snap[op[p]] : \E a \in plan[p] \ todo[p] :
                      a.file = e.file /\ a.side = e.side
        /\ pc[p] \in Stamping /\ snap[op[p]] # {} => op[p] \in stamped

\* An action is replaced once: between the gate and the replace, nothing that
\* took effect is still to do; to be verified is at most the last one.
ReplacedOnce ==
    \A p \in Procs :
        /\ pc[p] \in {"gate", "replace"} => todo[p] \intersect applied[op[p]] = {}
        /\ pc[p] = "verify" =>
               \A a, b \in todo[p] \intersect applied[op[p]] : a = b

NothingOverwritten == \A o \in Ops : applied[o] = {} => overwrote[o] = {}

RollbackInv ==
    /\ NamedOnce /\ SnapGrows /\ ReplacedOnce /\ NothingOverwritten
    /\ BackedHeld /\ RollbackStaysPossible

\* Plans and snapshots go on naming each path once: a snapshot grows by actions
\* not in it yet, and a rollback's plan is a snapshot read backwards.
LEMMA NamedOnceStep ==
  TypeOK /\ NamedOnce /\ SnapGrows /\ [Next]_vars => NamedOnce'
<1> SUFFICES ASSUME TypeOK, NamedOnce, SnapGrows, [Next]_vars PROVE NamedOnce'
  OBVIOUS
<1>e. OncePerPath({})
  BY DEF OncePerPath
<1> DEFINE PlansStand == \A q \in Procs : plan'[q] \in {plan[q], {}}
<1>1. ASSUME PlansStand, UNCHANGED snap PROVE NamedOnce'
  BY <1>1, <1>e DEF NamedOnce
<1>2. ASSUME NEW p \in Procs, BackupFile(p) PROVE NamedOnce'
  <2>1. PICK a \in todo[p] : BackupFile(p)!2!(a)
    BY <1>2 DEF BackupFile
  <2> DEFINE e == [file |-> a.file, side |-> a.side,
                   was |-> data[Root(p, a.side)][a.file]]
  <2>2. /\ pc[p] = "backup" /\ UNCHANGED plan /\ op[p] \in Ops
        /\ a \in plan[p]
    BY <1>2, <2>1 DEF BackupFile, process, TypeOK, Running, Guarded, SnapGrows
  <2>3. \A b \in plan[p] : b.file = a.file /\ b.side = a.side => b = a
    BY <2>2 DEF NamedOnce, OncePerPath
  <2>4. \A x \in snap[op[p]] : ~(x.file = a.file /\ x.side = a.side)
    BY <2>1, <2>2, <2>3 DEF SnapGrows
  <2>5. /\ e.file = a.file /\ e.side = a.side
        /\ snap' = [snap EXCEPT ![op[p]] = @ \union {e}] \/ snap' = snap
    BY <2>1
  <2> HIDE DEF e
  <2>6. OncePerPath(snap[op[p]] \union {e})
    BY <2>2, <2>4, <2>5 DEF NamedOnce, OncePerPath
  <2> QED
    BY <2>2, <2>5, <2>6 DEF NamedOnce, TypeOK
<1>3. ASSUME NEW p \in Procs, NEW o \in Ops, PlanRollback(p, o) PROVE NamedOnce'
  <2> DEFINE Back ==
        {[file |-> e.file, side |-> e.side, to |-> e.was] : e \in snap[o]}
  <2>1. OncePerPath(Back)
    <3> SUFFICES ASSUME NEW a \in Back, NEW b \in Back,
                        a.file = b.file, a.side = b.side
                 PROVE  a = b
      BY DEF OncePerPath
    <3>1. PICK x \in snap[o] : a = [file |-> x.file, side |-> x.side, to |-> x.was]
      OBVIOUS
    <3>2. PICK y \in snap[o] : b = [file |-> y.file, side |-> y.side, to |-> y.was]
      OBVIOUS
    <3>3. x.file = y.file /\ x.side = y.side
      BY <3>1, <3>2
    <3>4. x = y
      BY <3>3 DEF NamedOnce, OncePerPath
    <3> QED
      BY <3>1, <3>2, <3>4
  <2>2. plan' = [plan EXCEPT ![p] = Back] /\ UNCHANGED snap
    BY <1>3 DEF PlanRollback, shared
  <2> HIDE DEF Back
  <2> QED
    BY <2>1, <2>2 DEF NamedOnce, TypeOK
<1>4. ASSUME NEW p \in Procs, Start(p) PROVE NamedOnce'
  BY <1>4, EnvelopeAssumption, PlansAssumption DEF Start, shared, NamedOnce, TypeOK
<1>5. ASSUME NEW p \in Procs, Prune(p) PROVE NamedOnce'
  BY <1>5, <1>e DEF Prune, Leave, NamedOnce, TypeOK
<1>6. ASSUME NEW p \in Procs,
             CloseAbandoned(p) \/ ScanClear(p) \/ ScanBlocked(p) \/
             OpenJournal(p) \/ BeginRefused(p) \/ Stage(p) \/ BackupDone(p) \/
             Finalize(p) \/ AfterBackupHook(p) \/ PreCommitGate(p) \/
             PreCommit(p) \/ ReplaceGate(p) \/ Replace(p) \/ ReplaceLocked(p)
             \/ Verify(p) \/ AllReplaced(p) \/ Commit(p) \/ Raise(p) \/
             Fail(p) \/ FailUnrecorded(p) \/ RollbackLock(p) \/
             RollbackRefused(p) \/ Acknowledge(p) \/ ResumeClose(p) \/
             RollbackClose(p) \/ RecoverRefused(p) \/ Crash(p)
      PROVE  NamedOnce'
  <2>1. PlansStand /\ UNCHANGED snap
    BY <1>6
       DEF CloseAbandoned, ScanClear, ScanBlocked, OpenJournal, BeginRefused,
           Stage, BackupDone, Finalize, AfterBackupHook, PreCommitGate,
           PreCommit, ReplaceGate, Replace, ReplaceLocked, Verify,
           AllReplaced, Commit, Raise, Fail, FailUnrecorded, RollbackLock,
           RollbackRefused, Acknowledge, ResumeClose, RollbackClose,
           RecoverRefused, Crash, Transition, Leave, shared, process, TypeOK
  <2> QED
    BY <1>1, <2>1
<1>7. ASSUME NEW p \in Procs, NEW o \in Ops, LoadToClose(p, o) PROVE NamedOnce'
  BY <1>7 DEF LoadToClose, shared, NamedOnce
<1>8. CASE Environment \/ UNCHANGED vars
  BY <1>8 DEF Environment, StartCodex, StopCodex, Edit, vars, shared, process,
              NamedOnce
<1> QED
  BY <1>2, <1>3, <1>4, <1>5, <1>6, <1>7, <1>8
     DEF Next, Step, Person, Begin, Execute, Failure, Recover

\* What is overwritten is replaced.
LEMMA NothingOverwrittenStep ==
  TypeOK /\ NothingOverwritten /\ [Next]_vars => NothingOverwritten'
<1> SUFFICES ASSUME TypeOK, NothingOverwritten, [Next]_vars
             PROVE  NothingOverwritten'
  OBVIOUS
<1>1. ASSUME NEW p \in Procs, Replace(p) PROVE NothingOverwritten'
  <2>1. PICK a \in Due(p) : Replace(p)!2!(a)
    BY <1>1 DEF Replace
  <2>2. op[p] \in Ops /\ applied'[op[p]] # {}
    BY <1>1, <2>1 DEF Replace, TypeOK, Running, Guarded
  <2>3. \A o \in Ops \ {op[p]} :
          applied'[o] = applied[o] /\ overwrote'[o] = overwrote[o]
    BY <2>1 DEF TypeOK
  <2> QED
    BY <2>2, <2>3 DEF NothingOverwritten
<1>2. UNCHANGED <<applied, overwrote>> => NothingOverwritten'
  BY DEF NothingOverwritten
<1>3. ASSUME NEW p \in Procs,
             CloseAbandoned(p) \/ ScanClear(p) \/ ScanBlocked(p) \/
             OpenJournal(p) \/ BeginRefused(p) \/ Stage(p) \/ BackupFile(p) \/
             BackupDone(p) \/ Finalize(p) \/ AfterBackupHook(p) \/
             PreCommitGate(p) \/ PreCommit(p) \/ ReplaceGate(p) \/
             ReplaceLocked(p) \/ Verify(p) \/ AllReplaced(p) \/ Commit(p) \/
             Prune(p) \/ Raise(p) \/ Fail(p) \/ FailUnrecorded(p) \/
             RollbackLock(p) \/ RollbackRefused(p) \/ Acknowledge(p) \/
             ResumeClose(p) \/ RollbackClose(p) \/ RecoverRefused(p) \/
             Start(p) \/ Crash(p)
      PROVE  NothingOverwritten'
  BY <1>2, <1>3
     DEF CloseAbandoned, ScanClear, ScanBlocked, OpenJournal, BeginRefused,
         Stage, BackupFile, BackupDone, Finalize, AfterBackupHook,
         PreCommitGate, PreCommit, ReplaceGate, ReplaceLocked, Verify,
         AllReplaced, Commit, Prune, Raise, Fail, FailUnrecorded,
         RollbackLock, RollbackRefused, Acknowledge, ResumeClose,
         RollbackClose, RecoverRefused, Start, Crash, Transition, history
<1>4. ASSUME NEW p \in Procs, NEW o \in Ops, LoadToClose(p, o) \/ PlanRollback(p, o)
      PROVE  NothingOverwritten'
  BY <1>2, <1>4 DEF LoadToClose, PlanRollback, history
<1>5. CASE Environment \/ UNCHANGED vars
  BY <1>2, <1>5 DEF Environment, StartCodex, StopCodex, Edit, vars, history
<1> QED
  BY <1>1, <1>3, <1>4, <1>5
     DEF Next, Step, Person, Begin, Execute, Failure, Recover

\* One step preserves RollbackInv.  What p is about to overwrite changes only
\* under somebody else's hands, which disturbs p's operation, and its snapshot is
\* no other run's to prune.
LEMMA RollbackInductive ==
  ASSUME RecoverAlone
  PROVE  TypeOK /\ Inv /\ AloneInv /\ RollbackInv /\ [Next]_vars => RollbackInv'
<1> SUFFICES ASSUME TypeOK, Inv, AloneInv, RollbackInv, [Next]_vars
             PROVE  RollbackInv'
  OBVIOUS
<1>n. NamedOnce'
  BY NamedOnceStep DEF RollbackInv
<1>o. NothingOverwritten'
  BY NothingOverwrittenStep DEF RollbackInv
<1> DEFINE Rest == SnapGrows /\ ReplacedOnce /\ BackedHeld /\ RollbackStaysPossible
<1> USE EnvelopeAssumption, RecoverAlone
    DEF TypeOK, RollbackInv, shared, process, history, Go, Leave, PCs, States,
        Running, Guarded, AfterBackup, Stamping, Aside, SnapGrows,
        ReplacedOnce, BackedHeld
<1>1. ASSUME NEW p \in Procs, CloseAbandoned(p) PROVE Rest'
  <2>1. ReplacedOnce'
    BY <1>1 DEF CloseAbandoned
  <2>2. SnapGrows'
    BY <1>1 DEF CloseAbandoned, Inv, OwnJournal, OneRunPerJournal
  <2>3. BackedHeld'
    BY <1>1 DEF CloseAbandoned, Backed, Held, Old
  <2>4. RollbackStaysPossible'
    BY <1>1 DEF CloseAbandoned, RollbackStaysPossible, PastCommit
  <2> QED BY <2>1, <2>2, <2>3, <2>4
<1>2. ASSUME NEW p \in Procs, ScanClear(p) PROVE Rest'
  <2>1. ReplacedOnce'
    BY <1>2 DEF ScanClear
  <2>2. SnapGrows'
    BY <1>2 DEF ScanClear, Inv, OwnJournal, OneRunPerJournal
  <2>3. BackedHeld'
    BY <1>2 DEF ScanClear, Backed, Held, Old
  <2>4. RollbackStaysPossible'
    BY <1>2 DEF ScanClear, RollbackStaysPossible, PastCommit
  <2> QED BY <2>1, <2>2, <2>3, <2>4
<1>3. ASSUME NEW p \in Procs, ScanBlocked(p) PROVE Rest'
  <2>1. ReplacedOnce'
    BY <1>3 DEF ScanBlocked
  <2>2. SnapGrows'
    BY <1>3 DEF ScanBlocked, Inv, OwnJournal, OneRunPerJournal
  <2>3. BackedHeld'
    BY <1>3 DEF ScanBlocked, Backed, Held, Old
  <2>4. RollbackStaysPossible'
    BY <1>3 DEF ScanBlocked, RollbackStaysPossible, PastCommit
  <2> QED BY <2>1, <2>2, <2>3, <2>4
<1>4. ASSUME NEW p \in Procs, OpenJournal(p) PROVE Rest'
  <2>1. ReplacedOnce'
    BY <1>4 DEF OpenJournal
  <2>2. SnapGrows'
    BY <1>4 DEF OpenJournal, Inv, OwnJournal, OneRunPerJournal
  <2>3. BackedHeld'
    BY <1>4 DEF OpenJournal, Backed, Held, Old
  <2>4. RollbackStaysPossible'
    BY <1>4 DEF OpenJournal, RollbackStaysPossible, PastCommit
  <2> QED BY <2>1, <2>2, <2>3, <2>4
<1>5. ASSUME NEW p \in Procs, BeginRefused(p) PROVE Rest'
  <2>1. ReplacedOnce'
    BY <1>5 DEF BeginRefused
  <2>2. SnapGrows'
    BY <1>5 DEF BeginRefused, Inv, OwnJournal, OneRunPerJournal
  <2>3. BackedHeld'
    BY <1>5 DEF BeginRefused, Backed, Held, Old
  <2>4. RollbackStaysPossible'
    BY <1>5 DEF BeginRefused, RollbackStaysPossible, PastCommit
  <2> QED BY <2>1, <2>2, <2>3, <2>4
<1>6. ASSUME NEW p \in Procs, Stage(p) PROVE Rest'
  <2>1. ReplacedOnce'
    BY <1>6 DEF Stage, Inv, NothingYet, PlanSplit
  <2>2. SnapGrows'
    BY <1>6 DEF Stage, Inv, OwnJournal, OneRunPerJournal
  <2>3. BackedHeld'
    BY <1>6 DEF Stage, Backed, Held, Old
  <2>4. RollbackStaysPossible'
    BY <1>6 DEF Stage, RollbackStaysPossible, PastCommit
  <2> QED BY <2>1, <2>2, <2>3, <2>4
<1>7. ASSUME NEW p \in Procs, BackupFile(p) PROVE Rest'
  <2>1. PICK a \in todo[p] : BackupFile(p)!2!(a)
    BY <1>7 DEF BackupFile
  <2> DEFINE e == [file |-> a.file, side |-> a.side, was |-> Old(p, a)]
  <2>2. /\ pc[p] = "backup" /\ op[p] \in Ops /\ a \in plan[p]
        /\ todo' = [todo EXCEPT ![p] = @ \ {a}]
        /\ UNCHANGED <<data, journal, pc, op, plan, applied, overwrote,
                       disturbed, stamped>>
        /\ Old(p, a) = Absent \/ snap' = [snap EXCEPT ![op[p]] = @ \union {e}]
        /\ Old(p, a) # Absent \/ snap' = snap
    BY <1>7, <2>1 DEF BackupFile, NeedsBackup, Old
  <2>3. \A q \in Procs \ {p} : pc[q] \in Running => op[q] # op[p]
    BY <2>2 DEF Inv, OneRunPerJournal
  <2>4. SnapGrows'
    BY <1>7 DEF BackupFile, Inv, OwnJournal, OneRunPerJournal
  <2>5. ReplacedOnce'
    BY <2>2
  <2>6. \A o \in Ops : snap[o] \subseteq snap'[o]
    <3> HIDE DEF e
    <3> QED
      BY <2>2
  <2>7. BackedHeld'
    <3> SUFFICES ASSUME NEW q \in Procs, NEW b \in Backed(q)'
                 PROVE  Held(q, b)'
      OBVIOUS
    <3>1. Old(q, b)' = Old(q, b) /\ op'[q] = op[q] /\ UNCHANGED disturbed
      BY <2>2 DEF Old, Root
    <3>2. op[q] \in Ops
      BY <2>2 DEF Backed
    <3>3. CASE b \in Backed(q)
      BY <2>6, <3>1, <3>2, <3>3 DEF Held
    <3>4. CASE b \notin Backed(q)
      <4>1. q = p /\ b = a
        BY <2>2, <3>4 DEF Backed
      <4>2. Old(p, a) # Absent => e \in snap'[op[p]]
        <5> HIDE DEF e
        <5> QED
          BY <2>2
      <4> QED
        BY <3>1, <4>1, <4>2 DEF Held
    <3> QED
      BY <3>3, <3>4
  <2>8. RollbackStaysPossible'
    BY <2>2, <2>6 DEF RollbackStaysPossible
  <2> QED
    BY <2>4, <2>5, <2>7, <2>8
<1>8. ASSUME NEW p \in Procs, BackupDone(p) PROVE Rest'
  <2>1. ReplacedOnce'
    BY <1>8 DEF BackupDone
  <2>2. SnapGrows'
    BY <1>8 DEF BackupDone, Inv, OwnJournal, OneRunPerJournal
  <2>3. BackedHeld'
    BY <1>8 DEF BackupDone, Backed, Held, Old
  <2>4. RollbackStaysPossible'
    BY <1>8 DEF BackupDone, RollbackStaysPossible, PastCommit
  <2> QED BY <2>1, <2>2, <2>3, <2>4
<1>9. ASSUME NEW p \in Procs, Finalize(p) PROVE Rest'
  <2>1. ReplacedOnce'
    BY <1>9 DEF Finalize
  <2>2. SnapGrows'
    BY <1>9 DEF Finalize, Inv, OwnJournal, OneRunPerJournal
  <2>3. BackedHeld'
    BY <1>9 DEF Finalize, Backed, Held, Old
  <2>4. RollbackStaysPossible'
    BY <1>9 DEF Finalize, RollbackStaysPossible, PastCommit
  <2> QED BY <2>1, <2>2, <2>3, <2>4
<1>10. ASSUME NEW p \in Procs, AfterBackupHook(p) PROVE Rest'
  <2>1. ReplacedOnce'
    BY <1>10 DEF AfterBackupHook, Transition
  <2>2. SnapGrows'
    BY <1>10 DEF AfterBackupHook, Transition, Inv, OwnJournal, OneRunPerJournal
  <2>3. BackedHeld'
    BY <1>10 DEF AfterBackupHook, Transition, Backed, Held, Old
  <2>4. RollbackStaysPossible'
    BY <1>10 DEF AfterBackupHook, Transition, RollbackStaysPossible, PastCommit
  <2> QED BY <2>1, <2>2, <2>3, <2>4
<1>11. ASSUME NEW p \in Procs, PreCommitGate(p) PROVE Rest'
  <2>1. ReplacedOnce'
    BY <1>11 DEF PreCommitGate
  <2>2. SnapGrows'
    BY <1>11 DEF PreCommitGate, Inv, OwnJournal, OneRunPerJournal
  <2>3. BackedHeld'
    BY <1>11 DEF PreCommitGate, Backed, Held, Old
  <2>4. RollbackStaysPossible'
    BY <1>11 DEF PreCommitGate, RollbackStaysPossible, PastCommit
  <2> QED BY <2>1, <2>2, <2>3, <2>4
<1>12. ASSUME NEW p \in Procs, PreCommit(p) PROVE Rest'
  <2>1. /\ pc[p] = "commit" /\ op[p] \in Ops /\ applied[op[p]] = {}
        /\ todo' = [todo EXCEPT ![p] = plan[p]]
        /\ UNCHANGED <<applied, overwrote, snap, stamped, data, plan, op, disturbed>>
        /\ pc' = [pc EXCEPT ![p] = "gate"]
        /\ journal' = [journal EXCEPT ![op[p]] = "COMMITTING"]
    BY <1>12 DEF PreCommit, Transition, Inv, NothingYet, Remembers, Waiting,
                 BEFORE_COMMIT
  <2>2. SnapGrows'
    BY <1>12, <2>1 DEF PreCommit, Transition
  <2>3. ReplacedOnce'
    BY <2>1
  <2>4. BackedHeld'
    BY <2>1 DEF Backed, Held, Old
  <2>5. RollbackStaysPossible'
    <3>1. overwrote[op[p]] = {}
      BY <2>1 DEF NothingOverwritten
    <3>2. \A o \in Ops : journal'[o] \in PastCommit =>
            o = op[p] \/ journal[o] \in PastCommit
      BY <2>1
    <3> QED
      BY <2>1, <3>1, <3>2 DEF RollbackStaysPossible
  <2> QED
    BY <2>1, <2>2, <2>3, <2>4, <2>5
<1>13. ASSUME NEW p \in Procs, ReplaceGate(p) PROVE Rest'
  <2>1. ReplacedOnce'
    BY <1>13 DEF ReplaceGate
  <2>2. SnapGrows'
    BY <1>13 DEF ReplaceGate, Inv, OwnJournal, OneRunPerJournal
  <2>3. BackedHeld'
    BY <1>13 DEF ReplaceGate, Backed, Held, Old
  <2>4. RollbackStaysPossible'
    BY <1>13 DEF ReplaceGate, RollbackStaysPossible, PastCommit
  <2> QED BY <2>1, <2>2, <2>3, <2>4
<1>14. ASSUME NEW p \in Procs, Replace(p) PROVE Rest'
  <2>1. PICK a \in Due(p) : Replace(p)!2!(a)
    BY <1>14 DEF Replace
  <2> DEFINE e == [file |-> a.file, side |-> a.side, was |-> Old(p, a)]
  <2>2. /\ pc[p] = "replace" /\ op[p] \in Ops /\ a \in todo[p]
        /\ a \in plan[p] \ applied[op[p]] /\ a \in Action
        /\ todo[p] \intersect applied[op[p]] = {}
        /\ pc' = [pc EXCEPT ![p] = "verify"]
        /\ UNCHANGED <<journal, snap, stamped, op, plan, todo>>
    BY <1>14, <2>1 DEF Replace, Due, Inv, PlanSplit, InCommit
  <2>3. /\ applied' = [applied EXCEPT ![op[p]] = @ \union {a}]
        /\ data' = [data EXCEPT ![Root(p, a.side)][a.file] = a.to]
        /\ disturbed' = disturbed \union
             {<<op[q], a.file>> : q \in {r \in Procs \ {p} :
                                           Exposed(r, Root(p, a.side), a.file)}}
        /\ Old(p, a) = Absent \/ overwrote' = [overwrote EXCEPT ![op[p]] = @ \union {e}]
        /\ Old(p, a) # Absent \/ overwrote' = overwrote
    BY <2>1 DEF Disturb, Old
  <2>4. Held(p, a)
    BY <2>2 DEF Backed
  <2>6. SnapGrows'
    BY <2>2
  <2>7. ReplacedOnce'
    BY <2>2, <2>3 DEF Inv, OneRunPerJournal
  <2>8. BackedHeld'
    <3> SUFFICES ASSUME NEW q \in Procs, NEW b \in Backed(q)'
                 PROVE  Held(q, b)'
      OBVIOUS
    <3>1. b \in Backed(q) /\ b \in plan[q] /\ b \in Action
      BY <2>2, <2>3 DEF Backed
    <3>2. Held(q, b) /\ Root(q, b.side) \in Roots /\ b.file \in Files
      BY <3>1 DEF Action, Root, Roots
    <3>3. disturbed \subseteq disturbed' /\ op'[q] = op[q] /\ UNCHANGED snap
      BY <2>2, <2>3
    <3>4. CASE data'[Root(q, b.side)][b.file] = data[Root(q, b.side)][b.file]
      <4>1. Old(q, b)' = Old(q, b)
        BY <3>4 DEF Old, Root
      <4> QED
        BY <3>2, <3>3, <4>1 DEF Held
    <3>5. CASE data'[Root(q, b.side)][b.file] # data[Root(q, b.side)][b.file]
      <4>1. Root(q, b.side) = Root(p, a.side) /\ b.file = a.file
        BY <2>2, <2>3, <3>2, <3>5 DEF Action, Root, Roots
      <4>2. q # p
        <5> SUFFICES ASSUME q = p PROVE FALSE
          OBVIOUS
        <5>1. b.side = a.side
          BY <2>2, <3>1, <4>1 DEF Root, Action, Sides
        <5>2. b = a
          BY <2>2, <3>1, <4>1, <5>1 DEF NamedOnce, OncePerPath
        <5>3. a \notin Backed(p)'
          BY <2>2, <2>3 DEF Backed
        <5> QED
          BY <5>2, <5>3
      <4>3. Exposed(q, Root(p, a.side), a.file)
        BY <3>1, <4>1 DEF Exposed, Backed
      <4>4. <<op[q], b.file>> \in disturbed'
        BY <2>3, <4>1, <4>2, <4>3
      <4> QED
        BY <3>3, <4>4 DEF Held
    <3> QED
      BY <3>4, <3>5
  <2>9. RollbackStaysPossible'
    <3> SUFFICES ASSUME NEW o \in Ops, journal[o] \in PastCommit,
                        NEW x \in overwrote'[o]
                 PROVE  (o \in stamped /\ x \in snap[o]) \/ <<o, x.file>> \in disturbed'
      BY <2>2 DEF RollbackStaysPossible
    <3>1. CASE x \in overwrote[o]
      BY <2>3, <3>1 DEF RollbackStaysPossible
    <3>2. CASE x \notin overwrote[o]
      <4>1. o = op[p] /\ x = e /\ Old(p, a) # Absent
        BY <2>2, <2>3, <3>2
      <4>2. e \in snap[o] \/ <<o, a.file>> \in disturbed
        BY <2>4, <4>1 DEF Held
      <4>3. e.file = a.file
        OBVIOUS
      <4>4. snap[o] # {} => o \in stamped
        BY <2>2, <4>1
      <4> HIDE DEF e
      <4> QED
        BY <2>3, <4>1, <4>2, <4>3, <4>4
    <3> QED
      BY <3>1, <3>2
  <2> QED
    BY <2>6, <2>7, <2>8, <2>9
<1>15. ASSUME NEW p \in Procs, ReplaceLocked(p) PROVE Rest'
  <2>1. ReplacedOnce'
    BY <1>15 DEF ReplaceLocked
  <2>2. SnapGrows'
    BY <1>15 DEF ReplaceLocked, Inv, OwnJournal, OneRunPerJournal
  <2>3. BackedHeld'
    BY <1>15 DEF ReplaceLocked, Backed, Held, Old
  <2>4. RollbackStaysPossible'
    BY <1>15 DEF ReplaceLocked, RollbackStaysPossible, PastCommit
  <2> QED BY <2>1, <2>2, <2>3, <2>4
<1>16. ASSUME NEW p \in Procs, Verify(p) PROVE Rest'
  <2>1. ReplacedOnce'
    BY <1>16 DEF Verify, Inv, NothingYet, PlanSplit
  <2>2. SnapGrows'
    BY <1>16 DEF Verify, Inv, OwnJournal, OneRunPerJournal
  <2>3. BackedHeld'
    BY <1>16 DEF Verify, Backed, Held, Old
  <2>4. RollbackStaysPossible'
    BY <1>16 DEF Verify, RollbackStaysPossible, PastCommit
  <2> QED BY <2>1, <2>2, <2>3, <2>4
<1>17. ASSUME NEW p \in Procs, AllReplaced(p) PROVE Rest'
  <2>1. ReplacedOnce'
    BY <1>17 DEF AllReplaced, NothingLeft
  <2>2. SnapGrows'
    BY <1>17 DEF AllReplaced, NothingLeft, Inv, OwnJournal, OneRunPerJournal
  <2>3. BackedHeld'
    BY <1>17 DEF AllReplaced, NothingLeft, Backed, Held, Old
  <2>4. RollbackStaysPossible'
    BY <1>17 DEF AllReplaced, NothingLeft, RollbackStaysPossible, PastCommit
  <2> QED BY <2>1, <2>2, <2>3, <2>4
<1>18. ASSUME NEW p \in Procs, Commit(p) PROVE Rest'
  <2>1. ReplacedOnce'
    BY <1>18 DEF Commit, Transition
  <2>2. SnapGrows'
    BY <1>18 DEF Commit, Transition, Inv, OwnJournal, OneRunPerJournal
  <2>3. BackedHeld'
    BY <1>18 DEF Commit, Transition, Backed, Held, Old
  <2>4. RollbackStaysPossible'
    BY <1>18 DEF Commit, Transition, RollbackStaysPossible, PastCommit
  <2> QED BY <2>1, <2>2, <2>3, <2>4
<1>19. ASSUME NEW p \in Procs, Prune(p) PROVE Rest'
  <2>1. PICK old \in SUBSET Ops :
          /\ \A o \in old : o \notin OpenJournals
          /\ snap' = [o \in Ops |-> IF o \in old THEN {} ELSE snap[o]]
          /\ stamped' = stamped \ old
    BY <1>19 DEF Prune
  <2>2. UNCHANGED <<data, journal, applied, overwrote, disturbed>>
    BY <1>19 DEF Prune
  <2>3. /\ pc' = [pc EXCEPT ![p] = "idle"] /\ plan' = [plan EXCEPT ![p] = {}]
        /\ \A q \in Procs \ {p} : op'[q] = op[q] /\ todo'[q] = todo[q]
    BY <1>19 DEF Prune
  <2>4. SnapGrows'
    <3>1. \A o \in Ops : snap'[o] \in {snap[o], {}}
      BY <2>1
    <3>2. \A o \in Ops : snap'[o] # {} /\ o \in stamped => o \in stamped'
      BY <2>1
    <3>3. \A q \in Procs : pc'[q] # "idle" =>
            /\ q # p /\ pc'[q] = pc[q] /\ op'[q] = op[q]
            /\ todo'[q] = todo[q] /\ plan'[q] = plan[q]
      BY <2>3
    <3>4. \A o \in Ops : journal'[o] = "ABSENT" => snap'[o] = {}
      BY <2>2, <3>1
    <3>5. ASSUME NEW q \in Procs, pc'[q] # "idle", pc[q] \in Running
          PROVE  /\ op'[q] \in Ops /\ op'[q] = op[q] /\ pc'[q] = pc[q]
                 /\ snap'[op'[q]] \subseteq snap[op[q]]
      BY <3>1, <3>3, <3>5
    <3>6. ASSUME NEW q \in Procs
          PROVE  /\ pc'[q] = "stage" => snap'[op'[q]] = {}
                 /\ pc'[q] \in Stamping /\ snap'[op'[q]] # {}
                        => op'[q] \in stamped'
      BY <3>1, <3>2, <3>3, <3>5
    <3>7. ASSUME NEW q \in Procs, pc'[q] = "backup"
          PROVE  /\ todo'[q] \subseteq plan'[q]
                 /\ \A e \in snap'[op'[q]] : \E a \in plan'[q] \ todo'[q] :
                        a.file = e.file /\ a.side = e.side
      BY <3>3, <3>5, <3>7
    <3> QED
      BY <3>4, <3>6, <3>7
  <2>5. ReplacedOnce'
    BY <2>2, <2>3
  \* A run past its backup has an open journal, which Prune leaves alone.
  <2>6. BackedHeld'
    <3> SUFFICES ASSUME NEW q \in Procs, NEW b \in Backed(q)'
                 PROVE  Held(q, b)'
      OBVIOUS
    <3>1. q # p /\ b \in Backed(q) /\ pc[q] \in {"backup"} \union AfterBackup
      BY <2>2, <2>3 DEF Backed
    <3>2. op[q] \in Ops /\ op[q] \in OpenJournals
      BY <3>1 DEF AloneInv, RunsKnow, Inv, Remembers, Ready, Waiting, InCommit,
                  OpenJournals, TERMINAL
    <3>3. snap'[op[q]] = snap[op[q]]
      BY <2>1, <3>2
    <3>4. Old(q, b)' = Old(q, b) /\ op'[q] = op[q]
      BY <2>2, <2>3, <3>1 DEF Old, Root
    <3> QED
      BY <2>2, <3>1, <3>3, <3>4 DEF Held
  <2>7. RollbackStaysPossible'
    <3>1. \A o \in Ops : journal[o] \in PastCommit => o \in OpenJournals
      BY DEF PastCommit, OpenJournals, TERMINAL
    <3> QED
      BY <2>1, <2>2, <3>1 DEF RollbackStaysPossible
  <2> QED
    BY <2>4, <2>5, <2>6, <2>7
<1>20. ASSUME NEW p \in Procs, Raise(p) PROVE Rest'
  <2>1. ReplacedOnce'
    BY <1>20 DEF Raise
  <2>2. SnapGrows'
    BY <1>20 DEF Raise, Inv, OwnJournal, OneRunPerJournal
  <2>3. BackedHeld'
    BY <1>20 DEF Raise, Backed, Held, Old
  <2>4. RollbackStaysPossible'
    BY <1>20 DEF Raise, RollbackStaysPossible, PastCommit
  <2> QED BY <2>1, <2>2, <2>3, <2>4
<1>21. ASSUME NEW p \in Procs, Fail(p) PROVE Rest'
  <2>1. ReplacedOnce' /\ BackedHeld'
    BY <1>21 DEF Fail, FailureState, Backed, Held, Old
  <2>2. SnapGrows'
    BY <1>21 DEF Fail, FailureState, Inv, OwnJournal, OneRunPerJournal
  <2>4. journal[op[p]] = mem[p]
    BY <1>21 DEF Fail, AloneInv, RunsKnow
  <2>5. RollbackStaysPossible'
    BY <1>21, <2>4 DEF Fail, FailureState, RollbackStaysPossible, PastCommit
  <2> QED BY <2>1, <2>2, <2>5
<1>22. ASSUME NEW p \in Procs, FailUnrecorded(p) PROVE Rest'
  <2>1. ReplacedOnce'
    BY <1>22 DEF FailUnrecorded
  <2>2. SnapGrows'
    BY <1>22 DEF FailUnrecorded, Inv, OwnJournal, OneRunPerJournal
  <2>3. BackedHeld'
    BY <1>22 DEF FailUnrecorded, Backed, Held, Old
  <2>4. RollbackStaysPossible'
    BY <1>22 DEF FailUnrecorded, RollbackStaysPossible, PastCommit
  <2> QED BY <2>1, <2>2, <2>3, <2>4
<1>23. ASSUME NEW p \in Procs, RollbackLock(p) PROVE Rest'
  <2>1. ReplacedOnce'
    BY <1>23 DEF RollbackLock
  <2>2. SnapGrows'
    BY <1>23 DEF RollbackLock, Inv, OwnJournal, OneRunPerJournal
  <2>3. BackedHeld'
    BY <1>23 DEF RollbackLock, Backed, Held, Old
  <2>4. RollbackStaysPossible'
    BY <1>23 DEF RollbackLock, RollbackStaysPossible, PastCommit
  <2> QED BY <2>1, <2>2, <2>3, <2>4
<1>24. ASSUME NEW p \in Procs, RollbackRefused(p) PROVE Rest'
  <2>1. ReplacedOnce'
    BY <1>24 DEF RollbackRefused
  <2>2. SnapGrows'
    BY <1>24 DEF RollbackRefused, Inv, OwnJournal, OneRunPerJournal
  <2>3. BackedHeld'
    BY <1>24 DEF RollbackRefused, Backed, Held, Old
  <2>4. RollbackStaysPossible'
    BY <1>24 DEF RollbackRefused, RollbackStaysPossible, PastCommit
  <2> QED BY <2>1, <2>2, <2>3, <2>4
<1>25. ASSUME NEW p \in Procs, Acknowledge(p) PROVE Rest'
  <2>1. ReplacedOnce' /\ BackedHeld'
    BY <1>25 DEF Acknowledge, Backed, Held, Old
  <2>2. SnapGrows'
    BY <1>25 DEF Acknowledge, Inv, OwnJournal, OneRunPerJournal
  <2>4. op[p] \in Ops /\ journal[op[p]] = "COMMITTING"
    BY <1>25 DEF Acknowledge, AloneInv, RecoverersKnow, BEFORE_COMMIT
  <2>5. RollbackStaysPossible'
    BY <1>25, <2>4 DEF Acknowledge, RollbackStaysPossible, PastCommit
  <2> QED BY <2>1, <2>2, <2>5
<1>26. ASSUME NEW p \in Procs, ResumeClose(p) PROVE Rest'
  <2>1. ReplacedOnce'
    BY <1>26 DEF ResumeClose
  <2>2. SnapGrows'
    BY <1>26 DEF ResumeClose, Inv, OwnJournal, OneRunPerJournal
  <2>3. BackedHeld'
    BY <1>26 DEF ResumeClose, Backed, Held, Old
  <2>4. RollbackStaysPossible'
    BY <1>26 DEF ResumeClose, RollbackStaysPossible, PastCommit
  <2> QED BY <2>1, <2>2, <2>3, <2>4
<1>27. ASSUME NEW p \in Procs, RollbackClose(p) PROVE Rest'
  <2>1. ReplacedOnce'
    BY <1>27 DEF RollbackClose
  <2>2. SnapGrows'
    BY <1>27 DEF RollbackClose, Inv, OwnJournal, OneRunPerJournal
  <2>3. BackedHeld'
    BY <1>27 DEF RollbackClose, Backed, Held, Old
  <2>4. RollbackStaysPossible'
    BY <1>27 DEF RollbackClose, RollbackStaysPossible, PastCommit
  <2> QED BY <2>1, <2>2, <2>3, <2>4
<1>28. ASSUME NEW p \in Procs, RecoverRefused(p) PROVE Rest'
  <2>1. ReplacedOnce'
    BY <1>28 DEF RecoverRefused
  <2>2. SnapGrows'
    BY <1>28 DEF RecoverRefused, Inv, OwnJournal, OneRunPerJournal
  <2>3. BackedHeld'
    BY <1>28 DEF RecoverRefused, Backed, Held, Old
  <2>4. RollbackStaysPossible'
    BY <1>28 DEF RecoverRefused, RollbackStaysPossible, PastCommit
  <2> QED BY <2>1, <2>2, <2>3, <2>4
<1>29. ASSUME NEW p \in Procs, Start(p) PROVE Rest'
  <2>1. ReplacedOnce'
    BY <1>29 DEF Start
  <2>2. SnapGrows'
    BY <1>29 DEF Start, Inv, OwnJournal, OneRunPerJournal
  <2>3. BackedHeld'
    BY <1>29 DEF Start, Backed, Held, Old
  <2>4. RollbackStaysPossible'
    BY <1>29 DEF Start, RollbackStaysPossible, PastCommit
  <2> QED BY <2>1, <2>2, <2>3, <2>4
<1>30. ASSUME NEW p \in Procs, Crash(p) PROVE Rest'
  <2>1. ReplacedOnce'
    BY <1>30 DEF Crash
  <2>2. SnapGrows'
    BY <1>30 DEF Crash, Inv, OwnJournal, OneRunPerJournal
  <2>3. BackedHeld'
    BY <1>30 DEF Crash, Backed, Held, Old
  <2>4. RollbackStaysPossible'
    BY <1>30 DEF Crash, RollbackStaysPossible, PastCommit
  <2> QED BY <2>1, <2>2, <2>3, <2>4
<1>31. ASSUME NEW p \in Procs, NEW o \in Ops, LoadToClose(p, o) PROVE Rest'
  <2>1. ReplacedOnce' /\ SnapGrows'
    BY <1>31 DEF LoadToClose, Recoverable
  <2>2. BackedHeld'
    BY <1>31 DEF LoadToClose, Recoverable, Backed, Held, Old
  <2>3. RollbackStaysPossible'
    BY <1>31 DEF LoadToClose, RollbackStaysPossible
  <2> QED BY <2>1, <2>2, <2>3
<1>32. ASSUME NEW p \in Procs, NEW o \in Ops, PlanRollback(p, o) PROVE Rest'
  <2>1. ReplacedOnce' /\ SnapGrows'
    BY <1>32 DEF PlanRollback, Recoverable
  <2>2. BackedHeld'
    BY <1>32 DEF PlanRollback, Recoverable, Backed, Held, Old
  <2>3. RollbackStaysPossible'
    BY <1>32 DEF PlanRollback, RollbackStaysPossible
  <2> QED BY <2>1, <2>2, <2>3
<1>33. ASSUME NEW m \in Machines, StartCodex(m) PROVE Rest'
  BY <1>33 DEF StartCodex, Backed, Held, Old, Root, RollbackStaysPossible
<1>34. ASSUME NEW m \in Machines, StopCodex(m) PROVE Rest'
  BY <1>34 DEF StopCodex, Backed, Held, Old, Root, RollbackStaysPossible
<1>35. ASSUME NEW root \in Roots, NEW f \in Files, Edit(root, f)
     PROVE  Rest'
  <2>1. PICK v \in Stored : data' = [data EXCEPT ![root][f] = v]
    BY <1>35 DEF Edit
  <2>2. disturbed' = disturbed \union
          {<<op[q], f>> : q \in {r \in Procs \ {None} : Exposed(r, root, f)}}
    BY <1>35 DEF Edit, Disturb
  <2>3. UNCHANGED <<journal, snap, stamped, pc, op, plan, todo, applied, overwrote>>
    BY <1>35 DEF Edit
  <2>4. ReplacedOnce' /\ SnapGrows'
    BY <2>3
  <2>5. RollbackStaysPossible'
    BY <2>2, <2>3 DEF RollbackStaysPossible
  <2>6. BackedHeld'
    <3> SUFFICES ASSUME NEW q \in Procs, NEW b \in Backed(q)
                 PROVE  Held(q, b)'
      BY <2>3 DEF Backed
    <3>1. b \in plan[q] /\ b \in Action /\ Held(q, b)
      BY DEF Backed
    <3>2. Root(q, b.side) \in Roots /\ b.file \in Files /\ q # None
      BY <3>1 DEF Action, Root, Roots
    <3>3. CASE data'[Root(q, b.side)][b.file] = data[Root(q, b.side)][b.file]
      <4>1. Old(q, b)' = Old(q, b)
        BY <3>3 DEF Old, Root
      <4> QED
        BY <2>2, <2>3, <3>1, <4>1 DEF Held
    <3>4. CASE data'[Root(q, b.side)][b.file] # data[Root(q, b.side)][b.file]
      <4>1. Root(q, b.side) = root /\ b.file = f
        BY <2>1, <3>2, <3>4
      <4>2. Exposed(q, root, f)
        BY <3>1, <4>1 DEF Exposed, Backed
      <4>3. <<op[q], b.file>> \in disturbed'
        BY <2>2, <3>2, <4>1, <4>2
      <4> QED
        BY <2>3, <4>3 DEF Held
    <3> QED
      BY <3>3, <3>4
  <2> QED
    BY <2>4, <2>5, <2>6
<1>36. ASSUME UNCHANGED vars PROVE Rest'
  <2>1. SnapGrows' /\ ReplacedOnce'
    BY <1>36 DEF vars
  <2>2. BackedHeld'
    BY <1>36 DEF vars, Backed, Held, Old
  <2>3. RollbackStaysPossible'
    BY <1>36 DEF vars, RollbackStaysPossible
  <2> QED BY <2>1, <2>2, <2>3
<1> QED
  BY <1>n, <1>o, <1>1, <1>2, <1>3, <1>4, <1>5, <1>6, <1>7, <1>8, <1>9, <1>10,
     <1>11, <1>12, <1>13, <1>14, <1>15, <1>16, <1>17, <1>18, <1>19, <1>20,
     <1>21, <1>22, <1>23, <1>24, <1>25, <1>26, <1>27, <1>28, <1>29, <1>30,
     <1>31, <1>32, <1>33, <1>34, <1>35, <1>36
     DEF Next, Step, Person, Environment, Begin, Execute, Failure, Recover

\* RollbackInv holds in every reachable state, with the invariants of the
\* envelope and of recoverers who are alone with what they recover.
LEMMA RollbackInvariance == ASSUME RecoverAlone PROVE Spec => []RollbackInv
<1>1. Init => RollbackInv
  BY DEF Init, RollbackInv, NamedOnce, OncePerPath, SnapGrows, ReplacedOnce,
         NothingOverwritten, BackedHeld, Backed, AfterBackup, Stamping,
         RollbackStaysPossible, PastCommit
<1>2. TypeOK /\ Inv /\ AloneInv /\ RollbackInv /\ [Next]_vars => RollbackInv'
  BY RollbackInductive
<1> QED
  BY <1>1, <1>2, AloneInvariance, PTL DEF Spec

\* recover rollback can undo a commit phase that stopped half-way: while its
\* journal is open, every version it overwrote lies in its snapshot, under a
\* committed manifest, unless somebody else changed that file after the backup
\* (backup.BackupManager.finalize and prune, sync_engine).
THEOREM RollbackIsKeptPossible ==
  ASSUME RecoverAlone PROVE Spec => []RollbackStaysPossible
<1>1. RollbackInv => RollbackStaysPossible
  BY DEF RollbackInv
<1> QED
  BY <1>1, RollbackInvariance, PTL
===========================================================================
