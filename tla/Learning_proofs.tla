--------------------------- MODULE Learning_proofs ---------------------------
(***************************************************************************)
(* What the daemon learns, for every set of runs, every size of the semaphore   *)
(* and any items and clients of the inbox.  An episode is right because its row  *)
(* is written from a record that was read after run_finished: that no handler     *)
(* exists before is the chain from PublishFinished through the inbox to Dispatch.  *)
(* The order of approve carries the proofs about proposals: whoever is about to     *)
(* store "approved", a handler or the thread of one that gave up, has appended the  *)
(* entry before, and only a torn file loses entries.                                 *)
(***************************************************************************)
EXTENDS Learning, Proposals, RunLife_proofs

Points == {"none", "waiting", "ingest", "embed", "episode", "bare_episode",
           "vec", "reflect", "lesson", "done"}
Read == {"none", "absent", "running"} \cup Terminal
RunMessages == [kind : {"run_started", "run_finished"}, run : Runs]

LearningTypes ==
    /\ cached \in [Runs -> Read]
    /\ inbox \in Seq(RunMessages)
    /\ handler \in [Runs -> Points]
    /\ rec \in [Runs -> Read]
    /\ DOMAIN episodes = Runs

\* run_finished is only in the inbox of the consumer if it was published.
AnnouncedWereTold ==
    \A i \in DOMAIN inbox : inbox[i].kind = "run_finished" => told[inbox[i].run] # "none"

\* A background task exists only for a run whose run_finished was published.
HandledWereTold == \A r \in Runs : handler[r] # "none" => told[r] # "none"

\* What the row of a run with a verdict has said, is saying, or will yet be made to
\* say by a record in the cache.
Tellable(r) == {verdict[r]} \cup Records(r)

\* Between get_run and insert_episode the task holds one of these.
RecordIsHeld ==
    \A r \in Runs : handler[r] \in {"embed", "episode", "bare_episode"} /\ verdict[r] # "none"
        => rec[r] \in Tellable(r)

LearningInv ==
    /\ LifeTypes /\ LifeInv
    /\ LearningTypes
    /\ AnnouncedWereTold
    /\ HandledWereTold
    /\ RecordIsHeld
    /\ EpisodeTellsTheEnd

\* The daemon starts with nothing remembered.
LEMMA LearningInitially == lInit => LearningInv
<1> SUFFICES ASSUME lInit PROVE LearningInv
  OBVIOUS
<1>1. LifeTypes /\ LifeInv
  BY LifeInitially DEF lInit
<1>2. LearningTypes
  BY DEF lInit, LearningTypes, Points, Read
<1>3. AnnouncedWereTold /\ HandledWereTold /\ RecordIsHeld /\ EpisodeTellsTheEnd
  BY DEF lInit, AnnouncedWereTold, HandledWereTold, RecordIsHeld, EpisodeTellsTheEnd
<1> QED BY <1>1, <1>2, <1>3 DEF LearningInv

\* A step of a run's background task leaves the runs and the inbox alone; it takes
\* the record from get_run and the episode from the record.
LEMMA HandlerStep ==
  ASSUME LearningInv, NEW r \in Runs, Handle(r)
  PROVE  /\ UNCHANGED <<lifeVars, cached, inbox>>
         /\ handler[r] # "none"
         /\ handler' \in [Runs -> Points] /\ rec' \in [Runs -> Read]
         /\ DOMAIN episodes' = Runs
         /\ \A q \in Runs \ {r} : /\ handler'[q] = handler[q]
                                  /\ rec'[q] = rec[q]
                                  /\ episodes'[q] = episodes[q]
         /\ handler'[r] \in {"embed", "episode", "bare_episode"} =>
              \/ rec'[r] \in Records(r)
              \/ handler[r] \in {"embed", "episode", "bare_episode"} /\ rec'[r] = rec[r]
         /\ episodes'[r] # episodes[r] =>
              /\ handler[r] \in {"episode", "bare_episode"}
              /\ episodes'[r] = EpisodeOutcome(rec[r])
<1> USE DEF At, Go, Forget, Points, daemonVars, memVars, LearningInv, LearningTypes
<1>1. CASE Enter(r)
  BY <1>1 DEF Enter
<1>2. CASE ReadRun(r)
  <2>1. Records(r) \subseteq Read
    BY DEF Records, Read, LifeTypes
  <2> QED BY <1>2, <2>1 DEF ReadRun
<1>3. CASE Embed(r)
  BY <1>3 DEF Embed
<1>4. CASE InsertEpisode(r)
  BY <1>4 DEF InsertEpisode, Read
<1>5. CASE InsertVec(r)
  BY <1>5 DEF InsertVec
<1>6. CASE Reflect(r)
  BY <1>6 DEF Reflect
<1>7. CASE InsertLesson(r)
  BY <1>7 DEF InsertLesson
<1>8. CASE HandlerFails(r)
  BY <1>8 DEF HandlerFails, InSemaphore, Read
<1> QED BY <1>1, <1>2, <1>3, <1>4, <1>5, <1>6, <1>7, <1>8 DEF Handle

\* The chain survives any step of the runs and the cache under which the handlers
\* stand still: what has been told stays told, and a late write or a cached copy
\* only adds what the record may turn out to be.
LEMMA RunsMayGoOn ==
  ASSUME LearningInv, LifeNext \/ UNCHANGED lifeVars,
         \A r \in Runs : cached'[r] = cached[r]
                           \/ (cached[r] = "none" /\ UNCHANGED lifeVars),
         UNCHANGED <<handler, rec, episodes>>
  PROVE  HandledWereTold' /\ RecordIsHeld' /\ EpisodeTellsTheEnd'
<1> USE DEF LearningInv, LifeTypes, LifeInv, Terminal
<1>1. HandledWereTold'
  BY LifeSettles DEF HandledWereTold
<1>2. ASSUME NEW r \in Runs, told[r] # "none", verdict'[r] # "none"
      PROVE  verdict[r] # "none" /\ Tellable(r) \subseteq Tellable(r)'
  <2>1. /\ verdict'[r] = verdict[r] /\ verdict[r] # "none"
        /\ status'[r] \in {status[r], "completed"}
        /\ status[r] \in {verdict[r], "completed"}
    BY <1>2, LifeSettles
  <2>2. {status[r]} \subseteq {verdict[r], status'[r]}
    BY <2>1
  <2>3. {cached[r]} \ {"none"} \subseteq {cached'[r]} \ {"none"}
    OBVIOUS
  <2> QED BY <2>1, <2>2, <2>3 DEF Tellable, Records
<1>3. RecordIsHeld'
  BY <1>2 DEF RecordIsHeld, HandledWereTold
<1>4. EpisodeTellsTheEnd'
  <2> SUFFICES ASSUME NEW r \in Runs, episodes[r] # "none"
               PROVE  /\ told'[r] # "none"
                      /\ verdict'[r] # "none" =>
                           \E s \in Tellable(r)' : episodes[r] = EpisodeOutcome(s)
    BY DEF EpisodeTellsTheEnd, Tellable
  <2>1. told[r] # "none" /\ told'[r] # "none"
    BY LifeSettles DEF EpisodeTellsTheEnd
  <2>2. ASSUME verdict'[r] # "none"
        PROVE  \E s \in Tellable(r)' : episodes[r] = EpisodeOutcome(s)
    <3>1. verdict[r] # "none" /\ Tellable(r) \subseteq Tellable(r)'
      BY <1>2, <2>1, <2>2
    <3>2. PICK s \in Tellable(r) : episodes[r] = EpisodeOutcome(s)
      BY <3>1 DEF EpisodeTellsTheEnd, Tellable
    <3> QED BY <3>1, <3>2
  <2> QED BY <2>1, <2>2
<1> QED BY <1>1, <1>3, <1>4

\* What the episodes tell is kept by a step that leaves the runs alone and only
\* removes rows or ends handlers.
LEMMA ForgettingIsSafe ==
  ASSUME LearningInv, UNCHANGED <<status, verdict, told, cached>>,
         \A r \in Runs : /\ handler'[r] = handler[r] \/ (handler[r] # "none" /\ handler'[r] = "done")
                         /\ handler'[r] # "none" => handler'[r] = "done" \/ rec'[r] = rec[r]
                         /\ episodes'[r] = episodes[r] \/ episodes'[r] = "none"
  PROVE  HandledWereTold' /\ RecordIsHeld' /\ EpisodeTellsTheEnd'
  BY DEF LearningInv, HandledWereTold, RecordIsHeld, EpisodeTellsTheEnd, Records, Tellable

\* Messages are dropped from the inbox, or one about this run is appended to it,
\* run_finished only when it is published.
LEMMA InboxStep ==
  ASSUME LearningInv, LifeNext \/ UNCHANGED lifeVars,
         NEW r \in Runs, NEW kind \in {"run_started", "run_finished"},
         inbox' \in {inbox, <<>>, Append(inbox, Message(kind, r))},
         kind = "run_finished" => told'[r] # "none"
  PROVE  inbox' \in Seq(RunMessages) /\ AnnouncedWereTold'
<1> DEFINE m == Message(kind, r)
<1>1. m \in RunMessages /\ m.kind = kind /\ m.run = r
  BY DEF Message, RunMessages
<1>2. inbox \in Seq(RunMessages)
  BY DEF LearningInv, LearningTypes
<1>3. inbox' \in {inbox, <<>>, Append(inbox, m)}
  OBVIOUS
<1> HIDE DEF m
<1>4. inbox' \in Seq(RunMessages)
  <2>1. Append(inbox, m) \in Seq(RunMessages) /\ <<>> \in Seq(RunMessages)
    BY <1>1, <1>2
  <2> QED BY <1>2, <1>3, <2>1, Zenon
<1>5. ASSUME NEW i \in DOMAIN inbox', inbox'[i].kind = "run_finished"
      PROVE  told'[inbox'[i].run] # "none"
  <2>1. (i \in DOMAIN inbox /\ inbox'[i] = inbox[i]) \/ inbox'[i] = m
    BY <1>2, <1>3, <1>5
  <2>2. CASE i \in DOMAIN inbox /\ inbox'[i] = inbox[i]
    <3>1. inbox[i] \in RunMessages
      BY <1>2, <2>2
    <3>2. inbox[i].run \in Runs
      BY <3>1 DEF RunMessages
    <3>3. told[inbox[i].run] # "none"
      BY <1>5, <2>2 DEF LearningInv, AnnouncedWereTold
    <3> QED BY <2>2, <3>2, <3>3, LifeSettles DEF LearningInv
  <2>3. CASE inbox'[i] = m
    BY <1>1, <1>5, <2>3
  <2> QED BY <2>1, <2>2, <2>3
<1> QED BY <1>4, <1>5 DEF AnnouncedWereTold

\* Every step keeps the chain from run_finished to the episode.
LEMMA LearningStep ==
  ASSUME LearningInv, [lNext]_lVars
  PROVE  LearningInv'
<1> USE DEF daemonVars, memVars
<1> DEFINE Chain == /\ LearningTypes' /\ AnnouncedWereTold' /\ HandledWereTold'
                    /\ RecordIsHeld' /\ EpisodeTellsTheEnd'
<1>a. ASSUME UNCHANGED <<cached, handler, rec, episodes>>, inbox' \in Seq(RunMessages)
      PROVE  LearningTypes'
  BY <1>a DEF LearningInv, LearningTypes
<1>b. ASSUME UNCHANGED <<told, inbox>> PROVE AnnouncedWereTold' /\ inbox' \in Seq(RunMessages)
  BY <1>b DEF LearningInv, LearningTypes, AnnouncedWereTold
<1>1. ASSUME NEW r \in Runs, LifeStep(r)
      PROVE  (LifeNext \/ UNCHANGED lifeVars) /\ Chain
  <2>1. UNCHANGED <<cached, handler, rec, episodes>>
    BY <1>1 DEF LifeStep
  <2>2. LifeNext
    BY <1>1 DEF LifeStep, LifeNext
  <2>3. inbox' \in Seq(RunMessages) /\ AnnouncedWereTold'
    <3>1. CASE UNCHANGED inbox
      BY <2>2, <3>1, InboxStep
    <3>2. CASE CreateTask(r) /\ Announce("run_started", r)
      BY <2>2, <3>2, InboxStep DEF Announce
    <3>3. CASE PublishFinished(r) /\ Announce("run_finished", r)
      <4>1. told'[r] # "none"
        BY <3>3 DEF PublishFinished, Terminal, LearningInv, LifeTypes
      <4> QED BY <2>2, <3>3, <4>1, InboxStep DEF Announce
    <3> QED BY <1>1, <3>1, <3>2, <3>3 DEF LifeStep
  <2> QED BY <2>1, <2>2, <2>3, <1>a, RunsMayGoOn
<1>2. ASSUME NEW r \in Runs, CacheOldRecord(r)
      PROVE  (LifeNext \/ UNCHANGED lifeVars) /\ Chain
  <2>1. UNCHANGED <<lifeVars, inbox, handler, rec, episodes>>
    BY <1>2 DEF CacheOldRecord
  <2>2. cached' = [cached EXCEPT ![r] = status[r]] /\ cached[r] = "none"
    BY <1>2 DEF CacheOldRecord
  <2>3. status[r] \in Read
    BY DEF LearningInv, LifeTypes, Read
  <2>4. LearningTypes'
    BY <2>1, <2>2, <2>3 DEF LearningInv, LearningTypes
  <2>5. AnnouncedWereTold'
    BY <2>1, <1>b DEF lifeVars
  <2>6. \A q \in Runs : cached'[q] = cached[q] \/ (cached[q] = "none" /\ UNCHANGED lifeVars)
    BY <2>1, <2>2 DEF LearningInv, LearningTypes
  <2> QED BY <2>1, <2>4, <2>5, <2>6, RunsMayGoOn
<1>3. ASSUME NEW r \in Runs, Handle(r)
      PROVE  (LifeNext \/ UNCHANGED lifeVars) /\ Chain
  <2>1. /\ UNCHANGED <<lifeVars, cached, inbox>>
        /\ handler' \in [Runs -> Points] /\ rec' \in [Runs -> Read]
        /\ DOMAIN episodes' = Runs
    BY <1>3, HandlerStep
  <2>2. UNCHANGED <<status, verdict, told>>
    BY <2>1 DEF lifeVars
  <2>3. LearningTypes' /\ AnnouncedWereTold'
    BY <2>1, <2>2, <1>b DEF LearningInv, LearningTypes
  <2>4. \A q \in Runs : Tellable(q)' = Tellable(q) /\ Records(q) \subseteq Tellable(q)
    BY <2>1, <2>2 DEF Tellable, Records
  <2>5. told[r] # "none" /\ HandledWereTold'
    BY <1>3, <2>2, HandlerStep DEF LearningInv, HandledWereTold
  <2>6. RecordIsHeld'
    BY <1>3, <2>2, <2>4, HandlerStep DEF LearningInv, RecordIsHeld
  <2>7. EpisodeTellsTheEnd'
    <3> SUFFICES ASSUME NEW q \in Runs, episodes'[q] # "none"
                 PROVE  /\ told[q] # "none"
                        /\ verdict[q] # "none" =>
                             \E s \in Tellable(q) : episodes'[q] = EpisodeOutcome(s)
      BY <2>2, <2>4 DEF EpisodeTellsTheEnd, Tellable
    <3>1. CASE episodes'[q] = episodes[q]
      BY <3>1 DEF LearningInv, EpisodeTellsTheEnd, Tellable
    <3>2. CASE episodes'[q] # episodes[q]
      <4>1. /\ q = r
            /\ handler[r] \in {"episode", "bare_episode"}
            /\ episodes'[r] = EpisodeOutcome(rec[r])
        BY <1>3, <3>2, HandlerStep
      <4>2. verdict[r] # "none" => rec[r] \in Tellable(r)
        BY <4>1 DEF LearningInv, RecordIsHeld
      <4> QED BY <2>5, <4>1, <4>2
    <3> QED BY <3>1, <3>2
  <2> QED BY <2>1, <2>3, <2>5, <2>6, <2>7
<1>4. ASSUME Dispatch PROVE (LifeNext \/ UNCHANGED lifeVars) /\ Chain
  <2>1. UNCHANGED <<lifeVars, cached, rec, episodes>> /\ inbox # <<>> /\ inbox' = Tail(inbox)
    BY <1>4 DEF Dispatch
  <2>2. inbox \in Seq(RunMessages)
    BY DEF LearningInv, LearningTypes
  <2>3. /\ Head(inbox) \in RunMessages
        /\ inbox' \in Seq(RunMessages)
        /\ 1 \in DOMAIN inbox /\ Head(inbox) = inbox[1]
        /\ \A i \in DOMAIN inbox' : i + 1 \in DOMAIN inbox /\ inbox'[i] = inbox[i + 1]
    BY <2>1, <2>2
  <2>4. UNCHANGED <<status, verdict, told>>
    BY <2>1 DEF lifeVars
  <2>5. AnnouncedWereTold'
    BY <2>3, <2>4 DEF LearningInv, AnnouncedWereTold
  <2>6. Head(inbox).run \in Runs
    BY <2>3 DEF RunMessages
  <2>7. Head(inbox).kind = "run_finished" => told[Head(inbox).run] # "none"
    BY <2>3 DEF LearningInv, AnnouncedWereTold
  <2>8. handler' = handler \/ ( /\ Head(inbox).kind = "run_finished"
                                /\ handler' = [handler EXCEPT ![Head(inbox).run] = "waiting"])
    BY <1>4 DEF Dispatch
  <2>9. LearningTypes'
    BY <2>1, <2>3, <2>6, <2>8 DEF LearningInv, LearningTypes, Points
  <2>10. \A q \in Runs : handler'[q] = handler[q] \/ (handler'[q] = "waiting" /\ told[q] # "none")
    BY <2>6, <2>7, <2>8 DEF LearningInv, LearningTypes
  <2>11. HandledWereTold'
    BY <2>4, <2>10 DEF LearningInv, HandledWereTold
  <2>12. RecordIsHeld' /\ EpisodeTellsTheEnd'
    BY <2>1, <2>4, <2>10
       DEF LearningInv, RecordIsHeld, EpisodeTellsTheEnd, Tellable, Records
  <2> QED BY <2>1, <2>5, <2>9, <2>11, <2>12
<1>5. ASSUME CloseConsumer PROVE (LifeNext \/ UNCHANGED lifeVars) /\ Chain
  <2>1. UNCHANGED <<lifeVars, cached, handler, rec, episodes>> /\ inbox' = <<>>
    BY <1>5 DEF CloseConsumer
  <2>2. LearningTypes' /\ AnnouncedWereTold'
    BY <2>1, <1>a DEF AnnouncedWereTold
  <2> QED BY <2>1, <2>2, RunsMayGoOn
<1>6. ASSUME Exit PROVE (LifeNext \/ UNCHANGED lifeVars) /\ Chain
  <2>1. KillProcess /\ inbox' = <<>> /\ UNCHANGED <<cached, episodes>>
    BY <1>6 DEF Exit
  <2>2. UNCHANGED <<status, verdict, told>>
    BY <2>1 DEF KillProcess
  <2>3. /\ handler' = [r \in Runs |-> IF handler[r] = "none" THEN "none" ELSE "done"]
        /\ rec' = [r \in Runs |-> "none"]
    BY <1>6 DEF Exit
  <2>4. LearningTypes' /\ AnnouncedWereTold'
    BY <2>1, <2>3 DEF LearningInv, LearningTypes, AnnouncedWereTold, Points, Read
  <2>5. HandledWereTold' /\ RecordIsHeld' /\ EpisodeTellsTheEnd'
    BY <2>1, <2>2, <2>3, ForgettingIsSafe
  <2> QED BY <2>1, <2>4, <2>5 DEF LifeNext
<1>7. ASSUME Prune PROVE (LifeNext \/ UNCHANGED lifeVars) /\ Chain
  <2>1. UNCHANGED <<lifeVars, cached, inbox, handler, rec>>
    BY <1>7 DEF Prune
  <2>2. episodes' = [r \in Runs |-> IF r \in idleE THEN "none" ELSE episodes[r]]
    BY <1>7 DEF Prune
  <2>3. UNCHANGED <<status, verdict, told>>
    BY <2>1 DEF lifeVars
  <2>4. LearningTypes' /\ AnnouncedWereTold'
    BY <2>1, <2>2, <2>3, <1>b DEF LearningInv, LearningTypes
  <2>5. HandledWereTold' /\ RecordIsHeld' /\ EpisodeTellsTheEnd'
    BY <2>1, <2>2, <2>3, ForgettingIsSafe
  <2> QED BY <2>1, <2>4, <2>5
<1>8. ASSUME UNCHANGED <<daemonVars, handler, rec, episodes>>
      PROVE  (LifeNext \/ UNCHANGED lifeVars) /\ Chain
  <2>1. UNCHANGED <<lifeVars, cached, inbox>>
    BY <1>8
  <2>2. UNCHANGED told
    BY <2>1 DEF lifeVars
  <2>3. LearningTypes' /\ AnnouncedWereTold'
    BY <1>8, <2>1, <2>2, <1>a, <1>b
  <2> QED BY <1>8, <2>1, <2>3, RunsMayGoOn
<1>9. ASSUME NEW r \in Runs, Decay(r) PROVE UNCHANGED <<daemonVars, handler, rec, episodes>>
  BY <1>9 DEF Decay
<1>10. ASSUME NEW f \in BOOLEAN, Recall(f)
       PROVE UNCHANGED <<daemonVars, handler, rec, episodes>>
  BY <1>10 DEF Recall
<1>11. ASSUME NEW x \in recalled.rows, TouchEpisode(x)
       PROVE UNCHANGED <<daemonVars, handler, rec, episodes>>
  BY <1>11 DEF TouchEpisode
<1>12. ASSUME RecallReturns \/ UNCHANGED lVars
       PROVE UNCHANGED <<daemonVars, handler, rec, episodes>>
  BY <1>12 DEF RecallReturns, lVars, learningVars
<1> HIDE DEF Chain
<1>13. (LifeNext \/ UNCHANGED lifeVars) /\ Chain
  BY <1>1, <1>2, <1>3, <1>4, <1>5, <1>6, <1>7, <1>8, <1>9, <1>10, <1>11, <1>12 DEF lNext
<1>14. LifeTypes' /\ LifeInv'
  BY <1>13, LifeKept DEF LearningInv
<1> QED BY <1>13, <1>14 DEF LearningInv, Chain

\* There is an episode only of a run whose run_finished was published, and it tells
\* the published verdict, or what a late write or an outdated record of the cache
\* made of it; of a run without a verdict nothing is claimed.
THEOREM EpisodesCorrect == lSpec => []EpisodeTellsTheEnd
<1>1. LearningInv => EpisodeTellsTheEnd
  BY DEF LearningInv
<1> QED BY LearningInitially, LearningStep, <1>1, PTL DEF lSpec

----------------------------------------------------------------------------
(* The inbox of proposals *)

Statuses == {"none", "proposed", "approved", "rejected"}
Requests == [at : {"list", "update", "reload"}, act : {"approve", "reject"}, item : Items]

ProposalTypes ==
    /\ batch \subseteq Apps /\ misses \subseteq Apps
    /\ decided \in [Items -> Statuses]
    /\ learned \in Seq(Rules)
    /\ op \in [Clients -> {Idle} \cup Requests]
    /\ lateUpdates \subseteq Items \X {"approved", "rejected"}

\* The entry is there, or the file was torn.
InFile(i) ==
    /\ i \in Apps => "allow" \in torn \/ i \in allow
    /\ i \in Rules => "learned" \in torn \/ \E k \in DOMAIN learned : learned[k] = i

ApprovedAreInFile   == \A i \in Items : decided[i] = "approved" => InFile(i)
UpdatesAreInFile    ==
    \A d \in Clients :
        op[d] \in Requests /\ op[d].at = "update" /\ op[d].act = "approve" => InFile(op[d].item)
LateOnesAreInFile   == \A w \in lateUpdates : w[2] = "approved" => InFile(w[1])

ProposalInv ==
    /\ ProposalTypes
    /\ ApprovedAreInFile
    /\ UpdatesAreInFile
    /\ LateOnesAreInFile

USE ItemsAssumption

\* At first there are no items, no requests and no files.
LEMMA ProposalInit == pInit => ProposalInv
<1> SUFFICES ASSUME pInit PROVE ProposalInv
  OBVIOUS
<1>1. ProposalTypes
  BY DEF pInit, ProposalTypes, Statuses
<1>2. Idle \notin Requests
  BY DEF Idle, Requests
<1>3. ApprovedAreInFile /\ UpdatesAreInFile /\ LateOnesAreInFile
  BY <1>2 DEF pInit, ApprovedAreInFile, UpdatesAreInFile, LateOnesAreInFile
<1> QED BY <1>1, <1>3 DEF ProposalInv

\* A request that is not idle.
LEMMA RequestsHaveFields ==
  ASSUME ProposalTypes, NEW d \in Clients, op[d].at # "idle"
  PROVE  op[d] \in Requests
  BY DEF ProposalTypes, Idle

\* The steps that touch neither the files nor the requests: they may only turn
\* "none" into "proposed".
LEMMA MinersPropose ==
  ASSUME ProposalInv, UNCHANGED <<fileVars, op, lateUpdates>>,
         batch' \subseteq Apps, misses' \subseteq Apps,
         decided' \in [Items -> Statuses],
         \A i \in Items : decided'[i] = decided[i] \/ decided'[i] = "proposed"
  PROVE  ProposalInv'
  BY DEF ProposalInv, ProposalTypes, ApprovedAreInFile, UpdatesAreInFile,
         LateOnesAreInFile, InFile, fileVars

\* The steps of the gate, the miners, the reloads and the user's editor.
LEMMA MinerStep ==
  ASSUME ProposalInv,
         \/ \E a \in Apps : Deny(a) \/ Upsert(a) \/ UpsertFails(a)
         \/ \E S \in SUBSET Rules : MineRules(S)
         \/ Mine \/ ReloadRequested \/ EditRules
  PROVE  ProposalInv'
<1>1. ASSUME NEW a \in Apps, Deny(a) \/ UpsertFails(a) PROVE ProposalInv'
  BY <1>1, MinersPropose DEF Deny, UpsertFails, ProposalInv, ProposalTypes
<1>2. ASSUME NEW a \in Apps, Upsert(a) PROVE ProposalInv'
  BY <1>2, MinersPropose DEF Upsert, ProposalInv, ProposalTypes, Items, Statuses
<1>3. ASSUME NEW S \in SUBSET Rules, MineRules(S) PROVE ProposalInv'
  BY <1>3, MinersPropose DEF MineRules, minerVars, ProposalInv, ProposalTypes, Statuses
<1>4. CASE Mine \/ ReloadRequested \/ EditRules
  BY <1>4, MinersPropose DEF Mine, ReloadRequested, EditRules, minerVars, ProposalInv,
                             ProposalTypes
<1> QED BY <1>1, <1>2, <1>3, <1>4

\* A request begins, is answered, or goes on to the reload.
LEMMA RequestStep ==
  ASSUME ProposalInv, NEW d \in Clients,
         \/ \E act \in {"approve", "reject"}, i \in Items : Ask(d, act, i)
         \/ NotFound(d) \/ ReloadAfterApprove(d)
  PROVE  ProposalInv'
<1>1. UNCHANGED <<minerVars, decided, fileVars, lateUpdates>>
  BY DEF Ask, NotFound, ReloadAfterApprove
<1>2. op' = [op EXCEPT ![d] = Idle]
      \/ \E r \in Requests : op' = [op EXCEPT ![d] = r] /\ (r.at = "update" => r.act = "reject")
  BY DEF Ask, NotFound, ReloadAfterApprove, Reply, Requests
<1>3. ProposalTypes'
  BY <1>1, <1>2 DEF ProposalInv, ProposalTypes, minerVars, fileVars
<1>4. UpdatesAreInFile'
  BY <1>1, <1>2 DEF ProposalInv, ProposalTypes, UpdatesAreInFile, InFile, fileVars, Idle
<1> QED BY <1>1, <1>3, <1>4 DEF ProposalInv, ApprovedAreInFile, LateOnesAreInFile, InFile,
                                fileVars

\* Appending puts the item's entry into its file, and takes none out.
LEMMA AppendStep ==
  ASSUME ProposalInv, NEW d \in Clients, AppendEntry(d)
  PROVE  ProposalInv'
<1>0. PICK i : i = op[d].item
  OBVIOUS
<1>1. op[d] \in Requests /\ i \in Items
  BY <1>0, RequestsHaveFields DEF AppendEntry, ProposalInv, Requests
<1>2. UNCHANGED <<minerVars, decided, torn, lateUpdates>>
  BY DEF AppendEntry
<1>3. /\ op'[d] = [op[d] EXCEPT !.at = "update"] /\ op'[d] \in Requests /\ op'[d].item = i
      /\ \A c \in Clients \ {d} : op'[c] = op[c]
      /\ op' \in [Clients -> {Idle} \cup Requests]
  BY <1>0, <1>1 DEF AppendEntry, ProposalInv, ProposalTypes, Requests
<1>4. /\ learned' \in Seq(Rules)
      /\ \A k \in DOMAIN learned : k \in DOMAIN learned' /\ learned'[k] = learned[k]
      /\ i \in Rules => \E k \in DOMAIN learned' : learned'[k] = i
      /\ allow \subseteq allow'
      /\ i \in Apps => i \in allow'
  <2>1. CASE i \in Apps
    BY <1>0, <2>1 DEF AppendEntry, ProposalInv, ProposalTypes
  <2>2. CASE i \notin Apps
    <3>1. i \in Rules
      BY <1>1, <2>2 DEF Items
    <3>2. learned' = learned \o <<i>> /\ allow' = allow
      BY <1>0, <2>2 DEF AppendEntry
    <3>3. learned \in Seq(Rules) /\ <<i>> \in Seq(Rules)
      BY <3>1 DEF ProposalInv, ProposalTypes
    <3>4. learned'[Len(learned) + 1] = i /\ Len(learned) + 1 \in DOMAIN learned'
      BY <3>2, <3>3
    <3> QED BY <2>2, <3>2, <3>3, <3>4
  <2> QED BY <2>1, <2>2
<1>5. \A j : InFile(j) => InFile(j)'
  BY <1>2, <1>4 DEF InFile
<1>6. InFile(i)'
  BY <1>4 DEF InFile
<1>7. UpdatesAreInFile'
  BY <1>3, <1>5, <1>6 DEF ProposalInv, UpdatesAreInFile
<1>8. ApprovedAreInFile' /\ LateOnesAreInFile'
  BY <1>2, <1>5 DEF ProposalInv, ApprovedAreInFile, LateOnesAreInFile
<1> QED BY <1>2, <1>3, <1>4, <1>7, <1>8 DEF ProposalInv, ProposalTypes, minerVars

\* The status is stored, or its thread goes on without the handler.
LEMMA UpdateStep ==
  ASSUME ProposalInv, NEW d \in Clients, Update(d) \/ UpdateFails(d)
  PROVE  ProposalInv'
<1> DEFINE i == op[d].item
           v == Verdict(op[d])
<1>1. op[d] \in Requests /\ op[d].at = "update" /\ i \in Items /\ v \in {"approved", "rejected"}
  BY RequestsHaveFields DEF Update, UpdateFails, ProposalInv, Requests, Verdict
<1>2. v = "approved" => InFile(i)
  BY <1>1 DEF ProposalInv, UpdatesAreInFile, Verdict, Requests
<1> HIDE DEF v
<1>3. op' = [op EXCEPT ![d] = Idle] \/ op' = [op EXCEPT ![d].at = "reload"]
  BY DEF Update, UpdateFails, Reply
<1>4. /\ op' \in [Clients -> {Idle} \cup Requests]
      /\ op'[d] \in Requests => op'[d].at # "update"
      /\ \A c \in Clients \ {d} : op'[c] = op[c]
  BY <1>1, <1>3 DEF ProposalInv, ProposalTypes, Idle, Requests
<1>5. UNCHANGED <<minerVars, fileVars>>
  BY DEF Update, UpdateFails
<1>6. decided' = decided \/ (\A j \in Items : decided'[j] = decided[j] \/ (j = i /\ decided'[j] = v))
  BY DEF Update, UpdateFails, SetStatus, ProposalInv, ProposalTypes, v
<1>7. decided' \in [Items -> Statuses]
  BY <1>1 DEF Update, UpdateFails, SetStatus, ProposalInv, ProposalTypes, Statuses, v
<1>8. lateUpdates' = lateUpdates \/ lateUpdates' = {<<i, v>>}
  BY DEF Update, UpdateFails, v
<1>9. ProposalTypes'
  BY <1>1, <1>4, <1>5, <1>7, <1>8 DEF ProposalInv, ProposalTypes, minerVars, fileVars
<1> HIDE DEF i
<1>10. ApprovedAreInFile'
  BY <1>2, <1>5, <1>6 DEF ProposalInv, ApprovedAreInFile, InFile, fileVars
<1>11. UpdatesAreInFile'
  BY <1>4, <1>5 DEF ProposalInv, UpdatesAreInFile, InFile, fileVars
<1>12. LateOnesAreInFile'
  BY <1>2, <1>5, <1>8 DEF ProposalInv, LateOnesAreInFile, InFile, fileVars
<1> QED BY <1>9, <1>10, <1>11, <1>12 DEF ProposalInv

\* The abandoned thread commits.
LEMMA LateStep ==
  ASSUME ProposalInv, NEW w \in lateUpdates, LateUpdate(w)
  PROVE  ProposalInv'
<1>1. w[1] \in Items /\ w[2] \in {"approved", "rejected"} /\ (w[2] = "approved" => InFile(w[1]))
  BY DEF ProposalInv, ProposalTypes, LateOnesAreInFile
<1>2. /\ decided' \in [Items -> Statuses]
      /\ \A j \in Items : decided'[j] = decided[j] \/ (j = w[1] /\ decided'[j] = w[2])
  BY <1>1 DEF LateUpdate, SetStatus, ProposalInv, ProposalTypes, Statuses
<1>3. UNCHANGED <<minerVars, fileVars, op>> /\ lateUpdates' \subseteq lateUpdates
  BY DEF LateUpdate
<1>4. ApprovedAreInFile'
  BY <1>1, <1>2, <1>3 DEF ProposalInv, ApprovedAreInFile, InFile, fileVars
<1> QED BY <1>2, <1>3, <1>4 DEF ProposalInv, ProposalTypes, UpdatesAreInFile,
                                LateOnesAreInFile, InFile, minerVars, fileVars

\* After a crash no request and no thread is left; the file that was being
\* written may be empty, and is torn.
LEMMA CrashStep ==
  ASSUME ProposalInv, Crash \/ \E d \in Clients : CrashInAppend(d)
  PROVE  ProposalInv'
<1>1. /\ misses' = {} /\ batch' = {} /\ lateUpdates' = {} /\ decided' = decided
      /\ op' = [d \in Clients |-> Idle]
  BY DEF Crash, CrashInAppend, Restarts
<1>2. /\ learned' = learned \/ (learned' = <<>> /\ "learned" \in torn')
      /\ allow' = allow \/ "allow" \in torn'
      /\ torn \subseteq torn'
  BY DEF Crash, CrashInAppend, fileVars
<1>3. \A j : InFile(j) => InFile(j)'
  BY <1>2 DEF InFile
<1>4. Idle \notin Requests
  BY DEF Idle, Requests
<1>5. ProposalTypes'
  <2>1. learned' \in Seq(Rules)
    <3>1. learned' = learned \/ learned' = <<>>
      BY <1>2
    <3>2. learned \in Seq(Rules) /\ <<>> \in Seq(Rules)
      BY DEF ProposalInv, ProposalTypes
    <3> QED BY <3>1, <3>2
  <2>2. op' \in [Clients -> {Idle} \cup Requests]
    BY <1>1
  <2> QED BY <1>1, <2>1, <2>2 DEF ProposalInv, ProposalTypes
<1>6. ApprovedAreInFile' /\ UpdatesAreInFile' /\ LateOnesAreInFile'
  BY <1>1, <1>3, <1>4 DEF ProposalInv, ApprovedAreInFile, UpdatesAreInFile, LateOnesAreInFile
<1> QED BY <1>5, <1>6 DEF ProposalInv

\* The invariant holds throughout.
THEOREM ProposalsCorrect == pSpec => []ProposalInv
<1>1. ASSUME ProposalInv, [pNext]_pVars PROVE ProposalInv'
  <2>1. CASE UNCHANGED pVars
    BY <1>1, <2>1 DEF pVars, ProposalInv, ProposalTypes, ApprovedAreInFile,
                      UpdatesAreInFile, LateOnesAreInFile, InFile
  <2> QED BY <1>1, <2>1, MinerStep, RequestStep, AppendStep, UpdateStep, LateStep, CrashStep
          DEF pNext
<1> QED BY ProposalInit, <1>1, PTL DEF pSpec

\* No crash outside write_text, failed update or concurrent decision leaves an
\* approved proposal without its entry.
THEOREM ApprovalsCorrect == pSpec => []ApprovedIsInFile
<1>1. ProposalInv => ApprovedIsInFile
  BY DEF ProposalInv, ApprovedAreInFile, InFile, ApprovedIsInFile, Items
<1> QED BY <1>1, ProposalsCorrect, PTL

\* What the user has decided is never proposed again: the conflict clause of
\* upsert_allowlist_proposal and INSERT OR IGNORE of the rules.
THEOREM DecisionsCorrect == pSpec => DecisionsStay
<1> DEFINE Stays == \A i \in Items : decided[i] \in {"approved", "rejected"} =>
                                       decided'[i] \in {"approved", "rejected"}
<1>1. ASSUME ProposalInv, [pNext]_pVars PROVE Stays
  <2>1. ASSUME NEW a \in Apps, Upsert(a) PROVE Stays
    BY <1>1, <2>1 DEF Upsert, ProposalInv, ProposalTypes
  <2>2. ASSUME NEW S \in SUBSET Rules, MineRules(S) PROVE Stays
    BY <2>2 DEF MineRules
  <2>3. ASSUME NEW d \in Clients, Update(d) PROVE Stays
    BY <1>1, <2>3 DEF Update, SetStatus, Verdict, ProposalInv, ProposalTypes
  <2>4. ASSUME NEW w \in lateUpdates, LateUpdate(w) PROVE Stays
    BY <1>1, <2>4 DEF LateUpdate, SetStatus, ProposalInv, ProposalTypes
  <2>5. ASSUME decided' = decided PROVE Stays
    BY <2>5
  <2>6. ASSUME NEW a \in Apps, Deny(a) \/ UpsertFails(a) PROVE decided' = decided
    BY <2>6 DEF Deny, UpsertFails
  <2>7. ASSUME NEW d \in Clients,
               \/ \E act \in {"approve", "reject"}, i \in Items : Ask(d, act, i)
               \/ AppendEntry(d) \/ NotFound(d) \/ UpdateFails(d)
               \/ ReloadAfterApprove(d) \/ CrashInAppend(d)
        PROVE  decided' = decided
    BY <2>7 DEF Ask, AppendEntry, NotFound, UpdateFails, ReloadAfterApprove, CrashInAppend
  <2>8. ASSUME Mine \/ ReloadRequested \/ EditRules \/ Crash PROVE decided' = decided
    BY <2>8 DEF Mine, ReloadRequested, EditRules, Crash
  <2>9. ASSUME UNCHANGED pVars PROVE decided' = decided
    BY <2>9 DEF pVars
  <2> HIDE DEF Stays
  <2> QED BY <1>1, <2>1, <2>2, <2>3, <2>4, <2>5, <2>6, <2>7, <2>8, <2>9 DEF pNext
<1> QED BY <1>1, ProposalsCorrect, PTL DEF pSpec, DecisionsStay
=============================================================================
