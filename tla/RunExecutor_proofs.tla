------------------------ MODULE RunExecutor_proofs ------------------------
(***************************************************************************)
(* Proofs about RunExecutor for every set of runs and every bound.  The      *)
(* argument: TypeOK is inductive; with it the lock invariant is inductive;   *)
(* and with TypeOK the invariant RunInv, which says for each control point   *)
(* of a run what is published, stored and still late, is inductive.  The     *)
(* other theorems are consequences of RunInv.                                *)
(***************************************************************************)
EXTENDS RunExecutor, TLAPS

\* The tuples of UNCHANGED and the vocabulary are expanded in every proof.
USE DEF taskVars, dbVars, pubVars, daemonVars
USE DEF Terminal, Outcomes, Writes, StorePC, Orchestrating, LivePC, PCs

----------------------------------------------------------------------------
(* Types *)

\* The initial state is well typed.
LEMMA TypeInit == Init => TypeOK
  <1> SUFFICES ASSUME Init PROVE TypeOK
    OBVIOUS
  <1>1. locked \in BOOLEAN /\ client \in BOOLEAN
    BY Zenon DEF Init
  <1> QED
    BY <1>1 DEF Init, TypeOK

\* A step that serves one run preserves the types.
LEMMA TypeRunStep ==
    ASSUME TypeOK, NEW r \in Runs,
           StoreStep(r) \/ RunStep(r) \/ ClientStep(r)
    PROVE  TypeOK'
  <1>1. CASE AcquireLock(r)
    BY <1>1 DEF TypeOK, AcquireLock
  <1>2. CASE StoreCommit(r)
    BY <1>2 DEF TypeOK, StoreCommit, Commit, Write, derive_from_status
  <1>3. CASE StoreFail(r)
    BY <1>3 DEF TypeOK, StoreFail
  <1>4. CASE \E w \in Writes : LateCommit(r, w)
    BY <1>4 DEF TypeOK, LateCommit, Commit
  <1>5. CASE \E w \in Writes : LateFail(r, w)
    BY <1>5 DEF TypeOK, LateFail
  <1>6. CASE SubmitCreates(r)
    BY <1>6 DEF TypeOK, SubmitCreates, Goto, Returned, Publish
  <1>7. CASE SubmitRefused(r)
    BY <1>7 DEF TypeOK, SubmitRefused, Goto, Returned
  <1>8. CASE Start(r)
    BY <1>8 DEF TypeOK, Start, Goto
  <1>9. CASE Emit(r)
    BY <1>9 DEF TypeOK, Emit, Goto, NextSeq
  <1>10. CASE EmitAppended(r)
    BY <1>10 DEF TypeOK, EmitAppended, Goto, Returned
  <1>11. CASE EmitAudited(r)
    BY <1>11 DEF TypeOK, EmitAudited, Goto
  <1>12. CASE OrchestrateReturns(r)
    BY <1>12 DEF TypeOK, OrchestrateReturns, Goto
  <1>13. CASE StatusWritten(r)
    BY <1>13 DEF TypeOK, StatusWritten, Goto, Returned, Publish
  <1>14. CASE MetricsWritten(r)
    BY <1>14 DEF TypeOK, MetricsWritten, Goto, Returned
  <1>15. CASE OutcomeWritten(r)
    BY <1>15 DEF TypeOK, OutcomeWritten, Goto, Returned, Publish
  <1>16. CASE StoreRaises(r)
    BY <1>16 DEF TypeOK, StoreRaises, Throw, Goto, Handler, Write,
       derive_from_status
  <1>17. CASE OrchestrateRaises(r, "errored")
    BY <1>17 DEF TypeOK, OrchestrateRaises, Throw, Goto, Handler
  <1>18. CASE OrchestrateRaises(r, "aborted")
    BY <1>18 DEF TypeOK, OrchestrateRaises, Throw, Goto, Handler
  <1>19. CASE RunTimeout(r)
    BY <1>19 DEF TypeOK, RunTimeout
  <1>20. CASE Deliver(r)
    BY <1>20 DEF TypeOK, Deliver, Throw, Goto, Handler, Write,
       derive_from_status
  <1>21. CASE Submit(r)
    BY <1>21 DEF TypeOK, Submit, Goto
  <1>22. CASE Cancel(r)
    BY <1>22 DEF TypeOK, Cancel, CancelAll, Live
  <1>23. CASE DropHandler(r)
    BY <1>23 DEF TypeOK, DropHandler
  <1>24. CASE \E o \in {"success", "failure"} : Feedback(r, o)
    BY <1>24 DEF TypeOK, Feedback
  <1> QED
    BY <1>1, <1>2, <1>3, <1>4, <1>5, <1>6, <1>7, <1>8, <1>9, <1>10,
       <1>11, <1>12, <1>13, <1>14, <1>15, <1>16, <1>17, <1>18, <1>19,
       <1>20, <1>21, <1>22, <1>23, <1>24, Zenon DEF StoreStep, RunStep,
       ClientStep

\* A step of the daemon preserves the types.
LEMMA TypeDaemonStep ==
    ASSUME TypeOK, DaemonStep
    PROVE  TypeOK'
  <1>1. CASE CancelActive
    BY <1>1 DEF TypeOK, CancelActive, CancelAll, LiveRuns, Live
  <1>2. CASE Connect
    BY <1>2 DEF TypeOK, Connect
  <1>3. CASE Disconnect
    BY <1>3 DEF TypeOK, Disconnect
  <1>4. CASE Shutdown
    BY <1>4 DEF TypeOK, Shutdown, CancelAll, LiveRuns, Live
  <1>5. CASE Close
    BY <1>5 DEF TypeOK, Close, CancelAll, LiveRuns, Live
  <1>6. CASE CloseTimeout
    BY <1>6 DEF TypeOK, CloseTimeout, CancelAll, LiveRuns, Live
  <1>7. CASE Teardown
    BY <1>7 DEF TypeOK, Teardown, CancelAll, LiveRuns, Live
  <1>8. CASE Exit
    BY <1>8 DEF TypeOK, Exit
  <1>9. CASE Crash
    <2>1. locked' \in BOOLEAN /\ client' \in BOOLEAN
      BY <1>9, Zenon DEF Crash
    <2> QED
      BY <1>9, <2>1 DEF TypeOK, Crash, Live
  <1>10. CASE Restart
    BY <1>10 DEF TypeOK, Restart
  <1> QED
    BY <1>1, <1>2, <1>3, <1>4, <1>5, <1>6, <1>7, <1>8, <1>9, <1>10 DEF
       DaemonStep

\* In every behaviour of the executor the variables keep their types, a run
\* awaits the store exactly at the control points that call it, and exceptions
\* are scheduled only for coroutines that still run.
THEOREM TypeCorrect == Spec => []TypeOK
  <1>1. TypeOK /\ [Next]_vars => TypeOK'
    <2> SUFFICES ASSUME TypeOK, [Next]_vars PROVE TypeOK'
      OBVIOUS
    <2>1. CASE \E r \in Runs : StoreStep(r) \/ RunStep(r) \/ ClientStep(r)
      BY <2>1, TypeRunStep
    <2>2. CASE DaemonStep
      BY <2>2, TypeDaemonStep
    <2>3. CASE UNCHANGED vars
      BY <2>3 DEF TypeOK, vars
    <2> QED
      BY <2>1, <2>2, <2>3 DEF Next
  <1> QED
    BY TypeInit, <1>1, PTL DEF Spec

----------------------------------------------------------------------------
(* The lock of RunStore *)

\* Leaving a control point gives the lock back if the run holds it.
LEMMA LockGoto ==
    ASSUME TypeOK, StoreLockHeldByOne, NEW r \in Runs, NEW p, Goto(r, p)
    PROVE  StoreLockHeldByOne'
  <1>1. \A s \in Runs : Holding(s)' <=> Holding(s) /\ s # r
    BY DEF TypeOK, Goto, Holding
  <1>2. locked' <=> locked /\ ~Holding(r)
    BY Zenon DEF Goto
  <1> QED
    BY <1>1, <1>2, Zenon DEF StoreLockHeldByOne

\* A step that serves one run preserves the lock invariant: it enters the
\* critical section only when the lock is free and gives it back on leaving.
LEMMA LockRunStep ==
    ASSUME TypeOK, StoreLockHeldByOne, NEW r \in Runs,
           StoreStep(r) \/ RunStep(r) \/ ClientStep(r)
    PROVE  StoreLockHeldByOne'
  <1>1. CASE AcquireLock(r)
    BY <1>1 DEF TypeOK, StoreLockHeldByOne, Holding, AcquireLock
  <1>2. CASE StoreCommit(r)
    BY <1>2 DEF TypeOK, StoreLockHeldByOne, Holding, StoreCommit,
       Commit, Write, derive_from_status
  <1>3. CASE StoreFail(r)
    BY <1>3 DEF TypeOK, StoreLockHeldByOne, Holding, StoreFail
  <1>4. CASE \E w \in Writes : LateCommit(r, w)
    BY <1>4 DEF TypeOK, StoreLockHeldByOne, Holding, LateCommit, Commit
  <1>5. CASE \E w \in Writes : LateFail(r, w)
    BY <1>5 DEF TypeOK, StoreLockHeldByOne, Holding, LateFail
  <1>6. CASE SubmitCreates(r)
    BY <1>6, LockGoto DEF SubmitCreates
  <1>7. CASE SubmitRefused(r)
    BY <1>7, LockGoto DEF SubmitRefused
  <1>8. CASE Start(r)
    BY <1>8, LockGoto DEF Start
  <1>9. CASE Emit(r)
    BY <1>9, LockGoto DEF Emit
  <1>10. CASE EmitAppended(r)
    BY <1>10, LockGoto DEF EmitAppended
  <1>11. CASE EmitAudited(r)
    BY <1>11, LockGoto DEF EmitAudited
  <1>12. CASE OrchestrateReturns(r)
    BY <1>12, LockGoto DEF OrchestrateReturns
  <1>13. CASE StatusWritten(r)
    BY <1>13, LockGoto DEF StatusWritten
  <1>14. CASE MetricsWritten(r)
    BY <1>14, LockGoto DEF MetricsWritten
  <1>15. CASE OutcomeWritten(r)
    BY <1>15, LockGoto DEF OutcomeWritten
  <1>16. CASE StoreRaises(r)
    BY <1>16, LockGoto DEF StoreRaises, Throw
  <1>17. CASE OrchestrateRaises(r, "errored")
    BY <1>17, LockGoto DEF OrchestrateRaises, Throw
  <1>18. CASE OrchestrateRaises(r, "aborted")
    BY <1>18, LockGoto DEF OrchestrateRaises, Throw
  <1>19. CASE RunTimeout(r)
    BY <1>19 DEF TypeOK, StoreLockHeldByOne, Holding, RunTimeout
  <1>20. CASE Deliver(r)
    BY <1>20, LockGoto DEF Deliver, Throw
  <1>21. CASE Submit(r)
    BY <1>21, LockGoto DEF Submit
  <1>22. CASE Cancel(r)
    BY <1>22 DEF TypeOK, StoreLockHeldByOne, Holding, Cancel, CancelAll,
       Live
  <1>23. CASE DropHandler(r)
    BY <1>23 DEF TypeOK, StoreLockHeldByOne, Holding, DropHandler
  <1>24. CASE \E o \in {"success", "failure"} : Feedback(r, o)
    BY <1>24 DEF TypeOK, StoreLockHeldByOne, Holding, Feedback
  <1> QED
    BY <1>1, <1>2, <1>3, <1>4, <1>5, <1>6, <1>7, <1>8, <1>9, <1>10,
       <1>11, <1>12, <1>13, <1>14, <1>15, <1>16, <1>17, <1>18, <1>19,
       <1>20, <1>21, <1>22, <1>23, <1>24, Zenon DEF StoreStep, RunStep,
       ClientStep

\* A step of the daemon leaves the lock alone, a crash forgets it.
LEMMA LockDaemonStep ==
    ASSUME TypeOK, StoreLockHeldByOne, DaemonStep
    PROVE  StoreLockHeldByOne'
  <1>1. CASE CancelActive
    BY <1>1 DEF TypeOK, StoreLockHeldByOne, Holding, CancelActive,
       CancelAll, LiveRuns, Live
  <1>2. CASE Connect
    BY <1>2 DEF TypeOK, StoreLockHeldByOne, Holding, Connect
  <1>3. CASE Disconnect
    BY <1>3 DEF TypeOK, StoreLockHeldByOne, Holding, Disconnect
  <1>4. CASE Shutdown
    BY <1>4 DEF TypeOK, StoreLockHeldByOne, Holding, Shutdown,
       CancelAll, LiveRuns, Live
  <1>5. CASE Close
    BY <1>5 DEF TypeOK, StoreLockHeldByOne, Holding, Close, CancelAll,
       LiveRuns, Live
  <1>6. CASE CloseTimeout
    BY <1>6 DEF TypeOK, StoreLockHeldByOne, Holding, CloseTimeout,
       CancelAll, LiveRuns, Live
  <1>7. CASE Teardown
    BY <1>7 DEF TypeOK, StoreLockHeldByOne, Holding, Teardown,
       CancelAll, LiveRuns, Live
  <1>8. CASE Exit
    BY <1>8 DEF TypeOK, StoreLockHeldByOne, Holding, Exit
  <1>9. CASE Crash
    BY <1>9 DEF TypeOK, StoreLockHeldByOne, Holding, Crash, Live
  <1>10. CASE Restart
    BY <1>10 DEF TypeOK, StoreLockHeldByOne, Holding, Restart
  <1> QED
    BY <1>1, <1>2, <1>3, <1>4, <1>5, <1>6, <1>7, <1>8, <1>9, <1>10 DEF
       DaemonStep

\* RunStore._lock is mutual exclusion and is never leaked, for any number of
\* runs and however store calls are cancelled, time out or fail.
THEOREM LockCorrect == Spec => []StoreLockHeldByOne
  <1>1. Init => StoreLockHeldByOne
    BY DEF Init, StoreLockHeldByOne, Holding
  <1>2. TypeOK /\ StoreLockHeldByOne /\ [Next]_vars => StoreLockHeldByOne'
    <2> SUFFICES ASSUME TypeOK, StoreLockHeldByOne, [Next]_vars
                 PROVE  StoreLockHeldByOne'
      OBVIOUS
    <2>1. CASE \E r \in Runs : StoreStep(r) \/ RunStep(r) \/ ClientStep(r)
      BY <2>1, LockRunStep
    <2>2. CASE DaemonStep
      BY <2>2, LockDaemonStep
    <2>3. CASE UNCHANGED vars
      BY <2>3 DEF StoreLockHeldByOne, Holding, vars
    <2> QED
      BY <2>1, <2>2, <2>3 DEF Next
  <1> QED
    BY <1>1, <1>2, TypeCorrect, PTL DEF Spec

----------------------------------------------------------------------------
(* What holds of a run at each control point *)

USE DEF LateInv, VerdictInv, StartInv, OutcomeInv, EventsInv, Undecided, NextSeq,
        derive_from_status

\* A step that serves one run preserves RunInv: the other runs do not change.
LEMMA RunInvRunStep ==
    ASSUME TypeOK, RunInv, NEW r \in Runs,
           StoreStep(r) \/ RunStep(r) \/ ClientStep(r)
    PROVE  RunInv'
  <1>1. CASE AcquireLock(r)
    BY <1>1 DEF TypeOK, RunInv, AcquireLock
  <1>2. CASE StoreCommit(r)
    BY <1>2 DEF TypeOK, RunInv, StoreCommit, Commit, Write
  <1>3. CASE StoreFail(r)
    BY <1>3 DEF TypeOK, RunInv, StoreFail
  <1>4. CASE \E w \in Writes : LateCommit(r, w)
    BY <1>4 DEF TypeOK, RunInv, LateCommit, Commit
  <1>5. CASE \E w \in Writes : LateFail(r, w)
    BY <1>5 DEF TypeOK, RunInv, LateFail
  <1>6. CASE SubmitCreates(r)
    BY <1>6 DEF TypeOK, RunInv, SubmitCreates, Goto, Returned, Publish
  <1>7. CASE SubmitRefused(r)
    BY <1>7 DEF TypeOK, RunInv, SubmitRefused, Goto, Returned
  <1>8. CASE Start(r)
    BY <1>8 DEF TypeOK, RunInv, Start, Goto
  <1>9. CASE Emit(r)
    BY <1>9 DEF TypeOK, RunInv, Emit, Goto
  <1>10. CASE EmitAppended(r)
    BY <1>10 DEF TypeOK, RunInv, EmitAppended, Goto, Returned
  <1>11. CASE EmitAudited(r)
    BY <1>11 DEF TypeOK, RunInv, EmitAudited, Goto
  <1>12. CASE OrchestrateReturns(r)
    BY <1>12 DEF TypeOK, RunInv, OrchestrateReturns, Goto
  <1>13. CASE StatusWritten(r)
    BY <1>13 DEF TypeOK, RunInv, StatusWritten, Goto, Returned, Publish
  <1>14. CASE MetricsWritten(r)
    BY <1>14 DEF TypeOK, RunInv, MetricsWritten, Goto, Returned
  <1>15. CASE OutcomeWritten(r)
    BY <1>15 DEF TypeOK, RunInv, OutcomeWritten, Goto, Returned, Publish
  <1>16. CASE StoreRaises(r)
    BY <1>16 DEF TypeOK, RunInv, StoreRaises, Throw, Goto, Handler,
       Write
  <1>17. CASE OrchestrateRaises(r, "errored")
    BY <1>17 DEF TypeOK, RunInv, OrchestrateRaises, Throw, Goto, Handler
  <1>18. CASE OrchestrateRaises(r, "aborted")
    BY <1>18 DEF TypeOK, RunInv, OrchestrateRaises, Throw, Goto, Handler
  <1>19. CASE RunTimeout(r)
    BY <1>19 DEF TypeOK, RunInv, RunTimeout
  <1>20. CASE Deliver(r)
    BY <1>20 DEF TypeOK, RunInv, Deliver, Throw, Goto, Handler, Write
  <1>21. CASE Submit(r)
    BY <1>21 DEF TypeOK, RunInv, Submit, Goto
  <1>22. CASE Cancel(r)
    BY <1>22 DEF TypeOK, RunInv, Cancel, CancelAll, Live
  <1>23. CASE DropHandler(r)
    BY <1>23 DEF TypeOK, RunInv, DropHandler
  <1>24. CASE \E o \in {"success", "failure"} : Feedback(r, o)
    BY <1>24 DEF TypeOK, RunInv, Feedback
  <1> QED
    BY <1>1, <1>2, <1>3, <1>4, <1>5, <1>6, <1>7, <1>8, <1>9, <1>10,
       <1>11, <1>12, <1>13, <1>14, <1>15, <1>16, <1>17, <1>18, <1>19,
       <1>20, <1>21, <1>22, <1>23, <1>24, Zenon DEF StoreStep, RunStep,
       ClientStep

\* A step of the daemon preserves RunInv; a crash leaves no late write.
LEMMA RunInvDaemonStep ==
    ASSUME TypeOK, RunInv, DaemonStep
    PROVE  RunInv'
  <1>1. CASE CancelActive
    BY <1>1 DEF TypeOK, RunInv, CancelActive, CancelAll, LiveRuns, Live
  <1>2. CASE Connect
    BY <1>2 DEF TypeOK, RunInv, Connect
  <1>3. CASE Disconnect
    BY <1>3 DEF TypeOK, RunInv, Disconnect
  <1>4. CASE Shutdown
    BY <1>4 DEF TypeOK, RunInv, Shutdown, CancelAll, LiveRuns, Live
  <1>5. CASE Close
    BY <1>5 DEF TypeOK, RunInv, Close, CancelAll, LiveRuns, Live
  <1>6. CASE CloseTimeout
    BY <1>6 DEF TypeOK, RunInv, CloseTimeout, CancelAll, LiveRuns, Live
  <1>7. CASE Teardown
    BY <1>7 DEF TypeOK, RunInv, Teardown, CancelAll, LiveRuns, Live
  <1>8. CASE Exit
    BY <1>8 DEF TypeOK, RunInv, Exit
  <1>9. CASE Crash
    BY <1>9 DEF TypeOK, RunInv, Crash, Live
  <1>10. CASE Restart
    BY <1>10 DEF TypeOK, RunInv, Restart
  <1> QED
    BY <1>1, <1>2, <1>3, <1>4, <1>5, <1>6, <1>7, <1>8, <1>9, <1>10 DEF
       DaemonStep

\* RunInv holds in every behaviour.
THEOREM RunsCorrect == Spec => []RunInv
  <1>1. Init => RunInv
    BY DEF Init, RunInv
  <1>2. TypeOK /\ RunInv /\ [Next]_vars => RunInv'
    <2> SUFFICES ASSUME TypeOK, RunInv, [Next]_vars
                 PROVE  RunInv'
      OBVIOUS
    <2>1. CASE \E r \in Runs : StoreStep(r) \/ RunStep(r) \/ ClientStep(r)
      BY <2>1, RunInvRunStep
    <2>2. CASE DaemonStep
      BY <2>2, RunInvDaemonStep
    <2>3. CASE UNCHANGED vars
      BY <2>3 DEF RunInv, vars
    <2> QED
      BY <2>1, <2>2, <2>3 DEF Next
  <1> QED
    BY <1>1, <1>2, TypeCorrect, PTL DEF Spec

----------------------------------------------------------------------------
(* Consequences *)

\* A published verdict is the stored one, for ever if it is "completed".
THEOREM VerdictCorrect == Spec => []VerdictIsStored
  <1>1. RunInv => VerdictIsStored
    BY DEF RunInv, VerdictIsStored
  <1> QED
    BY <1>1, RunsCorrect, PTL

\* A run is never announced with two verdicts.
THEOREM OneVerdictCorrect == Spec => []OneVerdict
  <1>1. RunInv => OneVerdict
    BY DEF RunInv, OneVerdict
  <1> QED
    BY <1>1, RunsCorrect, PTL

\* run_finished is published only after the outcome is in the database.
THEOREM FinishedCorrect == Spec => []FinishedHasOutcome
  <1>1. RunInv => FinishedHasOutcome
    BY DEF RunInv, FinishedHasOutcome
  <1> QED
    BY <1>1, RunsCorrect, PTL

\* The stored events of a run are numbered without a gap, for any number of
\* events and wherever the task is interrupted.
THEOREM EventsCorrect == Spec => []StoredEventsHaveNoGap
  <1>1. RunInv => StoredEventsHaveNoGap
    BY DEF RunInv, StoredEventsHaveNoGap
  <1> QED
    BY <1>1, RunsCorrect, PTL

\* What has been published has been stored: emit publishes last.
THEOREM PublishedCorrect == Spec => []PublishedEventsAreStored
  <1>1. RunInv => PublishedEventsAreStored
    BY DEF RunInv, PublishedEventsAreStored
  <1> QED
    BY <1>1, RunsCorrect, PTL

\* Which steps write the status and the outcome of a run: a thread, awaited or
\* late, and for the outcome also feedback.
LEMMA WhoWrites ==
    ASSUME Next
    PROVE  \/ UNCHANGED <<row, outcome>>
           \/ \E r \in Runs : StoreCommit(r)
           \/ \E r \in Runs, w \in Writes : LateCommit(r, w)
           \/ \E r \in Runs, o \in {"success", "failure"} : Feedback(r, o)
  <1>1. CASE \E r \in Runs : StoreStep(r)
    BY <1>1 DEF StoreStep, AcquireLock, StoreFail, LateFail
  <1>2. CASE \E r \in Runs : RunStep(r)
    BY <1>2 DEF RunStep, SubmitCreates, SubmitRefused, Start, Emit,
       EmitAppended, EmitAudited, OrchestrateReturns, StatusWritten,
       MetricsWritten, OutcomeWritten, StoreRaises, OrchestrateRaises,
       RunTimeout, Deliver, Throw
  <1>3. CASE \E r \in Runs : ClientStep(r)
    BY <1>3 DEF ClientStep, Submit, Cancel, DropHandler
  <1>4. CASE DaemonStep
    BY <1>4 DEF DaemonStep, CancelActive, Connect, Disconnect, Shutdown,
       Close, CloseTimeout, Teardown, Exit, Crash, Restart
  <1> QED
    BY <1>1, <1>2, <1>3, <1>4 DEF Next

\* No write takes a run that has ended back to running: the only write of
\* "running" is that of _submit, and a late one belongs to a refused run.
THEOREM EndedCorrect == Spec => EndedRunStaysEnded
  <1>1. TypeOK /\ RunInv /\ [Next]_vars =>
          [\A r \in Runs : row[r] \in Terminal => row'[r] \in Terminal]_vars
    <2> SUFFICES ASSUME TypeOK, RunInv, Next,
                        NEW s \in Runs, row[s] \in Terminal
                 PROVE  row'[s] \in Terminal
      OBVIOUS
    <2>1. CASE UNCHANGED <<row, outcome>>
      BY <2>1
    <2>2. CASE \E r \in Runs : StoreCommit(r)
      BY <2>2 DEF TypeOK, RunInv, StoreCommit, Commit, Write
    <2>3. CASE \E r \in Runs, w \in Writes : LateCommit(r, w)
      BY <2>3 DEF TypeOK, RunInv, LateCommit, Commit
    <2>4. CASE \E r \in Runs, o \in {"success", "failure"} : Feedback(r, o)
      BY <2>4 DEF Feedback
    <2> QED
      BY <2>1, <2>2, <2>3, <2>4, WhoWrites
  <1> QED
    BY <1>1, TypeCorrect, RunsCorrect, PTL DEF Spec, EndedRunStaysEnded

\* After run_finished only explicit feedback changes the outcome: the finally
\* block has no outcome write left, not even a late one.
THEOREM OutcomeCorrect == Spec => OutcomeSettled
  <1>1. TypeOK /\ RunInv /\ [Next]_vars =>
          [\A r \in Runs : "finished" \in pub[r] /\ outcome'[r] # outcome[r]
                            => source'[r] = "explicit"]_vars
    <2> SUFFICES ASSUME TypeOK, RunInv, Next, NEW s \in Runs,
                        "finished" \in pub[s], outcome'[s] # outcome[s]
                 PROVE  source'[s] = "explicit"
      OBVIOUS
    <2>1. CASE UNCHANGED <<row, outcome>>
      BY <2>1
    <2>2. CASE \E r \in Runs : StoreCommit(r)
      BY <2>2 DEF TypeOK, RunInv, StoreCommit, Commit, Write
    <2>3. CASE \E r \in Runs, w \in Writes : LateCommit(r, w)
      BY <2>3 DEF TypeOK, RunInv, LateCommit, Commit
    <2>4. CASE \E r \in Runs, o \in {"success", "failure"} : Feedback(r, o)
      BY <2>4 DEF TypeOK, Feedback
    <2> QED
      BY <2>1, <2>2, <2>3, <2>4, WhoWrites
  <1> QED
    BY <1>1, TypeCorrect, RunsCorrect, PTL DEF Spec, OutcomeSettled
----------------------------------------------------------------------------
(* The executor implements RunLife *)

\* What the other modules see is a function of pc, row, pub and final.
LEMMA SameLife ==
    ASSUME UNCHANGED <<pc, row, pub, final>>
    PROVE  UNCHANGED Life!lifeVars
  BY DEF Life!lifeVars, LifeOf, VerdictOf, ToldOf

\* A step of a run that leaves its row and the bus alone and does not cross a
\* boundary between the phases of the task is invisible.
LEMMA InsidePhase ==
    ASSUME TypeOK, NEW r \in Runs, NEW p \in PCs,
           pc' = [pc EXCEPT ![r] = p], UNCHANGED <<row, pub>>,
           LifeOf(r)' = LifeOf(r),
           \A s \in Runs : s # r => final'[s] = final[s],
           final'[r] = final[r] \/ pub[r] \subseteq {"started"}
    PROVE  UNCHANGED Life!lifeVars
  <1>1. \A s \in Runs : LifeOf(s)' = LifeOf(s)
    BY DEF TypeOK, LifeOf
  <1>2. \A s \in Runs : VerdictOf(s)' = VerdictOf(s) /\ ToldOf(s)' = ToldOf(s)
    BY DEF TypeOK, VerdictOf, ToldOf
  <1> QED
    BY <1>1, <1>2 DEF Life!lifeVars

\* A commit of the thread that the run awaits is the insertion or a status write.
LEMMA CommitIsALifeStep ==
    ASSUME TypeOK, RunInv, NEW r \in Runs, StoreCommit(r)
    PROVE  Life!LifeNext \/ UNCHANGED Life!lifeVars
  <1>1. /\ UNCHANGED <<pc, pub, final>>
        /\ op[r] = "call"
        /\ pc[r] \in StorePC
    BY DEF StoreCommit, TypeOK
  <1>2. /\ UNCHANGED [s \in Runs |-> LifeOf(s)]
        /\ UNCHANGED [s \in Runs |-> VerdictOf(s)]
        /\ UNCHANGED [s \in Runs |-> ToldOf(s)]
    BY <1>1 DEF LifeOf, VerdictOf, ToldOf
  <1>3. CASE pc[r] = "insert"
    <2>1. row' = [row EXCEPT ![r] = "running"] /\ row[r] \in {"absent", "running"}
      BY <1>3 DEF StoreCommit, Commit, Write, TypeOK, RunInv
    <2>2. LifeOf(r) = "none"
      BY <1>3 DEF RunInv, LifeOf
    <2>3. CASE row[r] = "absent"
      BY <1>2, <2>1, <2>2, <2>3 DEF Life!LifeNext, Life!QuietStep, Life!InsertRun
    <2>4. CASE row[r] = "running"
      BY <1>2, <2>1, <2>4 DEF Life!lifeVars, TypeOK
    <2> QED
      BY <2>1, <2>3, <2>4
  <1>4. CASE pc[r] \in {"complete", "handle"}
    <2>1. row' = [row EXCEPT ![r] = final[r]] /\ final[r] \in Terminal
      BY <1>4 DEF StoreCommit, Commit, Write, TypeOK
    <2>2. LifeOf(r) # "none" /\ VerdictOf(r) = "none"
      BY <1>4 DEF RunInv, LifeOf, VerdictOf
    <2>3. Life!WriteStatus(r)
      BY <1>2, <2>1, <2>2 DEF Life!WriteStatus, Life!Terminal
    <2> QED
      BY <2>3 DEF Life!LifeNext, Life!QuietStep
  <1>5. CASE pc[r] \in {"append", "metrics", "outcome"}
    <2>1. UNCHANGED row
      BY <1>5 DEF StoreCommit, Commit, Write, TypeOK
    <2> QED
      BY <1>1, <2>1, SameLife
  <1> QED
    BY <1>1, <1>3, <1>4, <1>5

\* So is a commit of an abandoned thread; its run has begun if it writes a status.
LEMMA LateCommitIsALifeStep ==
    ASSUME TypeOK, RunInv, NEW r \in Runs, NEW w \in Writes, LateCommit(r, w)
    PROVE  Life!LifeNext \/ UNCHANGED Life!lifeVars
  <1>1. UNCHANGED <<pc, pub, final>> /\ w \in late[r]
    BY DEF LateCommit
  <1>2. /\ UNCHANGED [s \in Runs |-> LifeOf(s)]
        /\ UNCHANGED [s \in Runs |-> VerdictOf(s)]
        /\ UNCHANGED [s \in Runs |-> ToldOf(s)]
    BY <1>1 DEF LifeOf, VerdictOf, ToldOf
  <1>3. CASE w = "insert"
    <2>1. row' = [row EXCEPT ![r] = "running"] /\ row[r] \in {"absent", "running"}
      BY <1>1, <1>3 DEF LateCommit, Commit, TypeOK, RunInv
    <2>2. LifeOf(r) = "none"
      BY <1>1, <1>3 DEF RunInv, LifeOf
    <2>3. CASE row[r] = "absent"
      BY <1>2, <2>1, <2>2, <2>3 DEF Life!LifeNext, Life!QuietStep, Life!InsertRun
    <2>4. CASE row[r] = "running"
      BY <1>2, <2>1, <2>4 DEF Life!lifeVars, TypeOK
    <2> QED
      BY <2>1, <2>3, <2>4
  <1>4. CASE w \in Terminal
    <2>1. row' = [row EXCEPT ![r] = w]
      BY <1>4 DEF LateCommit, Commit
    <2>2. "started" \in pub[r]
      BY <1>1, <1>4 DEF RunInv, TypeOK
    <2>3. LifeOf(r) # "none"
      BY <2>2 DEF LifeOf
    <2>4. VerdictOf(r) = "none" \/ w = "completed"
      BY <1>1, <1>4 DEF RunInv, VerdictOf
    <2>5. Life!WriteStatus(r)
      BY <1>2, <1>4, <2>1, <2>3, <2>4 DEF Life!WriteStatus, Life!Terminal
    <2> QED
      BY <2>5 DEF Life!LifeNext, Life!QuietStep
  <1>5. CASE w \notin {"insert"} \cup Terminal
    <2>1. UNCHANGED row
      BY <1>5 DEF LateCommit, Commit
    <2> QED
      BY <1>1, <2>1, SameLife
  <1> QED
    BY <1>3, <1>4, <1>5

\* An exception takes the task to its handler, into its finally block or out of it.
LEMMA ThrowIsALifeStep ==
    ASSUME TypeOK, RunInv, NEW r \in Runs, NEW status \in Terminal,
           Throw(r, status), pc[r] \in LivePC \cup {"insert"}
    PROVE  Life!LifeNext \/ UNCHANGED Life!lifeVars
  <1>1. /\ pc' = [pc EXCEPT ![r] = Handler(pc[r])]
        /\ UNCHANGED <<row, pub>>
    BY DEF Throw, Goto
  <1>2. CASE pc[r] \in {"insert", "complete"} \cup Orchestrating
    <2>1. LifeOf(r)' = LifeOf(r)
      BY <1>1, <1>2 DEF TypeOK, RunInv, LifeOf, Handler
    <2>2. pub[r] \subseteq {"started"}
      BY <1>2 DEF TypeOK, RunInv
    <2>3. \A s \in Runs : s # r => final'[s] = final[s]
      BY DEF Throw, TypeOK
    <2> QED
      BY <1>1, <1>2, <2>1, <2>2, <2>3, InsidePhase DEF Handler
  <1>3. CASE pc[r] \in {"created", "handle", "metrics", "outcome"}
    <2>1. UNCHANGED final
      BY <1>3 DEF Throw, Handler
    <2>2. /\ UNCHANGED [s \in Runs |-> VerdictOf(s)]
          /\ UNCHANGED [s \in Runs |-> ToldOf(s)]
      BY <1>1, <2>1 DEF VerdictOf, ToldOf
    <2>3. "started" \in pub[r]
      BY <1>3 DEF RunInv
    <2>4. \A s \in Runs : s # r => LifeOf(s)' = LifeOf(s)
      BY <1>1 DEF LifeOf, TypeOK
    <2>5. CASE pc[r] = "handle"
      <3>1. LifeOf(r) = "working"
        BY <2>3, <2>5 DEF LifeOf
      <3>2. pc'[r] = "metrics"
        BY <1>1, <2>5 DEF Handler, TypeOK
      <3>3. LifeOf(r)' = "closing"
        BY <1>1, <2>3, <3>2 DEF LifeOf
      <3>4. [s \in Runs |-> LifeOf(s)]' = [[s \in Runs |-> LifeOf(s)] EXCEPT ![r] = "closing"]
        BY <3>3, <2>4
      <3> QED
        BY <1>1, <2>2, <3>1, <3>4 DEF Life!LifeNext, Life!QuietStep, Life!CutShort
    <2>6. CASE pc[r] # "handle"
      <3>1. LifeOf(r) \in {"working", "closing"}
        BY <1>3, <2>3, <2>6 DEF LifeOf
      <3>2. pc'[r] = "done"
        BY <1>1, <1>3, <2>6 DEF Handler, TypeOK
      <3>3. LifeOf(r)' = "over"
        BY <1>1, <2>3, <3>2 DEF LifeOf
      <3>4. [s \in Runs |-> LifeOf(s)]' = [[s \in Runs |-> LifeOf(s)] EXCEPT ![r] = "over"]
        BY <3>3, <2>4
      <3> QED
        BY <1>1, <2>2, <3>1, <3>4 DEF Life!LifeNext, Life!QuietStep, Life!LeaveTask
    <2> QED
      BY <2>5, <2>6
  <1> QED
    BY <1>2, <1>3

\* Every step of a run is a step of its life, or invisible.
LEMMA LifeRunStep ==
    ASSUME TypeOK, RunInv, NEW r \in Runs,
           StoreStep(r) \/ RunStep(r) \/ ClientStep(r)
    PROVE  Life!LifeNext \/ UNCHANGED Life!lifeVars
  <1>1. CASE AcquireLock(r) \/ StoreFail(r) \/ \E w \in Writes : LateFail(r, w)
    BY <1>1, SameLife DEF AcquireLock, StoreFail, LateFail
  <1>2. CASE StoreCommit(r)
    BY <1>2, CommitIsALifeStep
  <1>3. CASE \E w \in Writes : LateCommit(r, w)
    BY <1>3, LateCommitIsALifeStep
  <1>4. CASE SubmitCreates(r)
    <2>1. /\ pc[r] = "insert" /\ op[r] = "ok"
          /\ pc' = [pc EXCEPT ![r] = "created"]
          /\ pub' = [pub EXCEPT ![r] = @ \cup {"started"}]
          /\ UNCHANGED <<row, final>>
      BY <1>4 DEF SubmitCreates, Returned, Goto, Publish
    <2>2. "started" \notin pub[r] /\ row[r] = "running" /\ "started" \in pub'[r]
      BY <2>1 DEF RunInv, TypeOK
    <2>3. LifeOf(r) = "none" /\ LifeOf(r)' = "working"
      BY <2>1, <2>2 DEF LifeOf, TypeOK
    <2>4. \A s \in Runs : s # r => LifeOf(s)' = LifeOf(s)
      BY <2>1 DEF LifeOf, TypeOK
    <2>5. \A s \in Runs : VerdictOf(s)' = VerdictOf(s) /\ ToldOf(s)' = ToldOf(s)
      BY <2>1 DEF VerdictOf, ToldOf, TypeOK
    <2>6. [s \in Runs |-> LifeOf(s)]' = [[s \in Runs |-> LifeOf(s)] EXCEPT ![r] = "working"]
      BY <2>3, <2>4
    <2> QED
      BY <2>1, <2>2, <2>3, <2>5, <2>6 DEF Life!LifeNext, Life!CreateTask
  <1>5. CASE SubmitRefused(r) \/ Submit(r)
    <2>1. PICK p \in {"refused", "insert"} : pc' = [pc EXCEPT ![r] = p]
      BY <1>5 DEF SubmitRefused, Submit, Goto
    <2>2. "started" \notin pub[r] /\ UNCHANGED <<row, pub, final>>
      BY <1>5 DEF SubmitRefused, Submit, Returned, RunInv
    <2>3. LifeOf(r)' = LifeOf(r)
      BY <2>2 DEF LifeOf
    <2> QED
      BY <2>1, <2>2, <2>3, InsidePhase
  <1>6. CASE Start(r)
    <2>1. pc' = [pc EXCEPT ![r] = "orch"] /\ pc[r] = "created"
      BY <1>6 DEF Start, Goto
    <2>2. UNCHANGED <<row, pub>> /\ \A s \in Runs : s # r => final'[s] = final[s]
      BY <1>6 DEF Start, TypeOK
    <2>3. LifeOf(r)' = LifeOf(r) /\ pub[r] \subseteq {"started"}
      BY <2>1, <2>2 DEF LifeOf, TypeOK, RunInv
    <2> QED
      BY <2>1, <2>2, <2>3, InsidePhase
  <1>7. CASE Emit(r) \/ EmitAppended(r) \/ EmitAudited(r)
    <2>1. PICK p \in Orchestrating : pc' = [pc EXCEPT ![r] = p]
      BY <1>7 DEF Emit, EmitAppended, EmitAudited, Goto
    <2>2. pc[r] \in Orchestrating /\ UNCHANGED <<row, pub, final>>
      BY <1>7 DEF Emit, EmitAppended, EmitAudited, Returned
    <2>3. LifeOf(r)' = LifeOf(r)
      BY <2>1, <2>2 DEF LifeOf, TypeOK
    <2> QED
      BY <2>1, <2>2, <2>3, InsidePhase
  <1>8. CASE OrchestrateReturns(r)
    <2>1. pc' = [pc EXCEPT ![r] = "complete"] /\ pc[r] = "orch"
      BY <1>8 DEF OrchestrateReturns, Goto
    <2>2. UNCHANGED <<row, pub>> /\ \A s \in Runs : s # r => final'[s] = final[s]
      BY <1>8 DEF OrchestrateReturns, TypeOK
    <2>3. LifeOf(r)' = LifeOf(r) /\ pub[r] \subseteq {"started"}
      BY <2>1, <2>2 DEF LifeOf, TypeOK, RunInv
    <2> QED
      BY <2>1, <2>2, <2>3, InsidePhase
  <1>9. CASE StatusWritten(r)
    <2>1. /\ pc[r] \in {"complete", "handle"} /\ op[r] = "ok"
          /\ pc' = [pc EXCEPT ![r] = "metrics"]
          /\ pub' = [pub EXCEPT ![r] = @ \cup {final[r]}]
          /\ UNCHANGED <<row, final>>
      BY <1>9 DEF StatusWritten, Returned, Goto, Publish
    <2>2. final[r] \in Terminal /\ row[r] \in {final[r], "completed"}
      BY <2>1 DEF RunInv, TypeOK
    <2>3. "started" \in pub[r] /\ "finished" \notin pub[r]
      BY <2>1 DEF RunInv
    <2>4. /\ pub'[r] = pub[r] \cup {final[r]} /\ \A s \in Runs : s # r => pub'[s] = pub[s]
          /\ pc'[r] = "metrics"
      BY <2>1 DEF TypeOK
    <2>5. LifeOf(r) = "working" /\ LifeOf(r)' = "closing"
      BY <2>1, <2>3, <2>4 DEF LifeOf
    <2>6. \A s \in Runs : s # r => LifeOf(s)' = LifeOf(s) /\ VerdictOf(s)' = VerdictOf(s)
      BY <2>1, <2>4 DEF LifeOf, VerdictOf, TypeOK
    <2>7. VerdictOf(r)' = final[r]
      BY <2>1, <2>2, <2>4 DEF VerdictOf
    <2>8. \A s \in Runs : ToldOf(s)' = ToldOf(s)
      BY <2>1, <2>2, <2>3, <2>4 DEF ToldOf
    <2>9. [s \in Runs |-> LifeOf(s)]' = [[s \in Runs |-> LifeOf(s)] EXCEPT ![r] = "closing"]
      BY <2>5, <2>6
    <2>10. [s \in Runs |-> VerdictOf(s)]'
              = [[s \in Runs |-> VerdictOf(s)] EXCEPT ![r] = final[r]]
      BY <2>6, <2>7
    <2> QED
      BY <2>1, <2>2, <2>5, <2>8, <2>9, <2>10
         DEF Life!LifeNext, Life!PublishVerdict, Life!Terminal
  <1>10. CASE MetricsWritten(r)
    <2>1. /\ pc' = [pc EXCEPT ![r] = "outcome"] /\ pc[r] = "metrics"
          /\ UNCHANGED <<row, pub, final>>
      BY <1>10 DEF MetricsWritten, Returned, Goto
    <2>2. LifeOf(r)' = LifeOf(r)
      BY <2>1 DEF LifeOf, TypeOK
    <2> QED
      BY <2>1, <2>2, InsidePhase
  <1>11. CASE OutcomeWritten(r)
    <2>1. /\ pc[r] = "outcome"
          /\ pc' = [pc EXCEPT ![r] = "done"]
          /\ pub' = [pub EXCEPT ![r] = @ \cup {"finished"}]
          /\ UNCHANGED <<row, final>>
      BY <1>11 DEF OutcomeWritten, Returned, Goto, Publish
    <2>2. /\ final[r] \in Terminal
          /\ final[r] = VerdictOf(r) \/ (VerdictOf(r) = "none" /\ final[r] # "completed")
      BY <2>1 DEF RunInv, TypeOK, VerdictOf
    <2>3. /\ pub'[r] = pub[r] \cup {"finished"} /\ \A s \in Runs : s # r => pub'[s] = pub[s]
          /\ pc'[r] = "done"
      BY <2>1 DEF TypeOK
    <2>4. "started" \in pub[r]
      BY <2>1 DEF RunInv
    <2>5. LifeOf(r) = "closing" /\ LifeOf(r)' = "over"
      BY <2>1, <2>3, <2>4 DEF LifeOf
    <2>6. \A s \in Runs : s # r => LifeOf(s)' = LifeOf(s) /\ ToldOf(s)' = ToldOf(s)
      BY <2>1, <2>3 DEF LifeOf, ToldOf, TypeOK
    <2>7. ToldOf(r)' = final[r]
      BY <2>1, <2>3 DEF ToldOf
    <2>8. \A s \in Runs : VerdictOf(s)' = VerdictOf(s)
      BY <2>1, <2>3 DEF VerdictOf
    <2>9. [s \in Runs |-> LifeOf(s)]' = [[s \in Runs |-> LifeOf(s)] EXCEPT ![r] = "over"]
      BY <2>5, <2>6
    <2>10. [s \in Runs |-> ToldOf(s)]' = [[s \in Runs |-> ToldOf(s)] EXCEPT ![r] = final[r]]
      BY <2>6, <2>7
    <2> QED
      BY <2>1, <2>2, <2>5, <2>8, <2>9, <2>10
         DEF Life!LifeNext, Life!PublishFinished, Life!Terminal
  <1>12. CASE StoreRaises(r)
    BY <1>12, ThrowIsALifeStep DEF StoreRaises, TypeOK
  <1>13. CASE OrchestrateRaises(r, "errored") \/ OrchestrateRaises(r, "aborted")
    BY <1>13, ThrowIsALifeStep DEF OrchestrateRaises
  <1>14. CASE Deliver(r)
    BY <1>14, ThrowIsALifeStep DEF Deliver, TypeOK
  <1>15. CASE RunTimeout(r) \/ Cancel(r) \/ DropHandler(r)
    BY <1>15, SameLife DEF RunTimeout, Cancel, DropHandler
  <1>16. CASE \E o \in {"success", "failure"} : Feedback(r, o)
    BY <1>16, SameLife DEF Feedback
  <1> QED
    BY <1>1, <1>2, <1>3, <1>4, <1>5, <1>6, <1>7, <1>8, <1>9, <1>10, <1>11, <1>12,
       <1>13, <1>14, <1>15, <1>16, Zenon DEF StoreStep, RunStep, ClientStep

\* The daemon's steps are invisible, but for the kill of its process.
LEMMA LifeDaemonStep ==
    ASSUME TypeOK, RunInv, DaemonStep
    PROVE  Life!LifeNext \/ UNCHANGED Life!lifeVars
  <1>1. CASE Crash
    <2>1. /\ pc' = [r \in Runs |-> IF Live(r) \/ pc[r] = "insert" THEN "lost" ELSE pc[r]]
          /\ UNCHANGED <<row, pub, final>>
      BY <1>1 DEF Crash
    <2>2. ASSUME NEW r \in Runs
          PROVE  LifeOf(r)' = IF LifeOf(r) = "none" THEN "none" ELSE "over"
      <3>1. CASE "started" \notin pub[r]
        BY <2>1, <3>1 DEF LifeOf
      <3>2. CASE "started" \in pub[r]
        <4>1. pc'[r] \in {"done", "lost"}
          BY <2>1, <3>2 DEF Live, TypeOK, RunInv
        <4> QED
          BY <2>1, <3>2, <4>1 DEF LifeOf
      <3> QED
        BY <3>1, <3>2
    <2>3. /\ UNCHANGED [s \in Runs |-> VerdictOf(s)]
          /\ UNCHANGED [s \in Runs |-> ToldOf(s)]
      BY <2>1 DEF VerdictOf, ToldOf
    <2>4. Life!KillProcess
      BY <2>1, <2>2, <2>3 DEF Life!KillProcess
    <2> QED
      BY <2>4 DEF Life!LifeNext
  <1>2. CASE ~Crash
    BY <1>2, SameLife DEF DaemonStep, CancelActive, Connect, Disconnect, Shutdown,
       Close, CloseTimeout, Teardown, Exit, Restart
  <1> QED
    BY <1>1, <1>2

\* RunExecutor implements RunLife: whatever is checked or proved of the learning
\* consumer and of the front-ends against RunLife holds beside this executor.
THEOREM LifeCycleCorrect == Spec => LifeCycle
  <1>1. Init => Life!LifeInit
    BY DEF Init, Life!LifeInit, LifeOf, VerdictOf, ToldOf
  <1>2. TypeOK /\ RunInv /\ [Next]_vars => [Life!LifeNext]_(Life!lifeVars)
    <2> SUFFICES ASSUME TypeOK, RunInv, [Next]_vars
                 PROVE  Life!LifeNext \/ UNCHANGED Life!lifeVars
      OBVIOUS
    <2>1. CASE \E r \in Runs : StoreStep(r) \/ RunStep(r) \/ ClientStep(r)
      BY <2>1, LifeRunStep
    <2>2. CASE DaemonStep
      BY <2>2, LifeDaemonStep
    <2>3. CASE UNCHANGED vars
      BY <2>3, SameLife DEF vars
    <2> QED
      BY <2>1, <2>2, <2>3 DEF Next
  <1> QED
    BY <1>1, <1>2, TypeCorrect, RunsCorrect, PTL DEF Spec, LifeCycle, Life!LifeSpec
============================================================================
