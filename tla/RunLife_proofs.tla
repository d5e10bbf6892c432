--------------------------- MODULE RunLife_proofs ---------------------------
(***************************************************************************)
(* What RunLife promises to the modules that have it as their environment.   *)
(* RunExecutor keeps these promises: LifeCycleCorrect in RunExecutor_proofs.  *)
(***************************************************************************)
EXTENDS RunLife, TLAPS

LifeTypes ==
    /\ life \in [Runs -> {"none", "working", "closing", "over"}]
    /\ status \in [Runs -> {"absent", "running"} \cup Terminal]
    /\ verdict \in [Runs -> {"none"} \cup Terminal]
    /\ told \in [Runs -> {"none"} \cup Terminal]

\* No run has been submitted.
LEMMA LifeInitially == LifeInit => LifeTypes /\ LifeInv
  BY DEF LifeInit, LifeTypes, LifeInv, Terminal

\* Every step of a run keeps the types and LifeInv: a verdict is published from the
\* row, and only an abandoned "completed" can change the row behind it.
LEMMA LifeKept ==
  ASSUME LifeTypes, LifeInv, LifeNext \/ UNCHANGED lifeVars
  PROVE  LifeTypes' /\ LifeInv'
<1> USE DEF LifeTypes, LifeInv, Terminal
<1>1. ASSUME NEW r \in Runs, InsertRun(r) \/ CreateTask(r) PROVE LifeTypes' /\ LifeInv'
  BY <1>1 DEF InsertRun, CreateTask
<1>2. ASSUME NEW r \in Runs, WriteStatus(r) PROVE LifeTypes' /\ LifeInv'
  BY <1>2 DEF WriteStatus
<1>3. ASSUME NEW r \in Runs, PublishVerdict(r) PROVE LifeTypes' /\ LifeInv'
  BY <1>3 DEF PublishVerdict
<1>4. ASSUME NEW r \in Runs, PublishFinished(r) PROVE LifeTypes' /\ LifeInv'
  BY <1>4 DEF PublishFinished
<1>5. ASSUME NEW r \in Runs, CutShort(r) \/ LeaveTask(r) PROVE LifeTypes' /\ LifeInv'
  BY <1>5 DEF CutShort, LeaveTask
<1>6. CASE KillProcess
  BY <1>6 DEF KillProcess
<1>7. CASE UNCHANGED lifeVars
  BY <1>7 DEF lifeVars
<1> QED BY <1>1, <1>2, <1>3, <1>4, <1>5, <1>6, <1>7 DEF LifeNext, QuietStep

\* What has been said of a run stays said, and its row follows: an ended row stays
\* ended, and behind a verdict it can only become "completed".
LEMMA LifeSettles ==
  ASSUME LifeTypes, LifeInv, LifeNext \/ UNCHANGED lifeVars, NEW r \in Runs
  PROVE  /\ life[r] # "none" => life'[r] # "none"
         /\ status[r] # "absent" => status'[r] # "absent"
         /\ status[r] \in Terminal => status'[r] \in Terminal
         /\ verdict[r] # "none" => /\ verdict'[r] = verdict[r]
                                   /\ status'[r] \in {status[r], "completed"}
         /\ told[r] # "none" => told'[r] = told[r] /\ verdict'[r] = verdict[r]
<1> USE DEF LifeTypes, LifeInv, Terminal
<1> DEFINE Goal == /\ life[r] # "none" => life'[r] # "none"
                   /\ status[r] # "absent" => status'[r] # "absent"
                   /\ status[r] \in Terminal => status'[r] \in Terminal
                   /\ verdict[r] # "none" => /\ verdict'[r] = verdict[r]
                                             /\ status'[r] \in {status[r], "completed"}
                   /\ told[r] # "none" => told'[r] = told[r] /\ verdict'[r] = verdict[r]
<1>1. ASSUME NEW q \in Runs, QuietStep(q) \/ CreateTask(q) PROVE Goal
  BY <1>1 DEF QuietStep, InsertRun, WriteStatus, CutShort, LeaveTask, CreateTask
<1>2. ASSUME NEW q \in Runs, PublishVerdict(q) PROVE Goal
  BY <1>2 DEF PublishVerdict
<1>3. ASSUME NEW q \in Runs, PublishFinished(q) PROVE Goal
  BY <1>3 DEF PublishFinished
<1>4. CASE KillProcess
  BY <1>4 DEF KillProcess
<1>5. CASE UNCHANGED lifeVars
  BY <1>5 DEF lifeVars
<1> QED BY <1>1, <1>2, <1>3, <1>4, <1>5 DEF LifeNext

\* Of every run: the stored row agrees with the published verdict, but for an
\* abandoned "completed", and run_finished repeats the verdict if there was one.
THEOREM LifeCorrect == LifeSpec => []LifeInv
<1>1. LifeTypes /\ LifeInv /\ [LifeNext]_lifeVars => LifeTypes' /\ LifeInv'
  BY LifeKept
<1> QED BY LifeInitially, <1>1, PTL DEF LifeSpec
=============================================================================
