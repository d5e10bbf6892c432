----------------------------- MODULE Proposals -----------------------------
(***************************************************************************)
(* The learning inbox.  is_allowed counts the windows it denies, the miners   *)
(* turn them and recurring action patterns into proposals, the user approves  *)
(* or rejects those over RPC, and an approval appends to a YAML file that the  *)
(* gate reads at each check and the watcher merges into its rules.  Skills     *)
(* have no producer in the program and are left out.                          *)
(***************************************************************************)
EXTENDS Naturals, Sequences, FiniteSets

CONSTANTS
    Apps,        \* window classes that the gate sees
    Triggers,    \* window classes that rules are learned for
    Patterns,    \* action sequences that recur: a rule is <<class, pattern>>
    Clients,     \* connections that approve and reject
    MaxBlocks    \* bound on the length of learned_rules.yaml

VARIABLES
    misses,      \* classes in _miss_counter
    batch,       \* what mine() drained and has not upserted yet
    decided,     \* status column of allowlist_proposals and learned_rules
    allow,       \* entries of allowlist.yaml
    learned,     \* blocks of learned_rules.yaml
    rulesFile,   \* rules.yaml: [missing, hides]: the classes whose learned rules have no
                 \* effect: those with a rule of the user's own, all when it is broken
    inForce,     \* AppState.rules, the learned part: <<position, rule>>
    op,          \* the request of each client: [at, act, item]
    lateUpdates, \* a timed out update whose thread still runs, at most one
    torn,        \* files that a crash cut off while they were written
    lost         \* a failed upsert or a crash has lost misses

pVars == <<misses, batch, decided, allow, learned, rulesFile, inForce,
           op, lateUpdates, torn, lost>>
minerVars == <<misses, batch, lost>>
fileVars  == <<allow, learned, torn>>

Rules == Triggers \X Patterns

\* The two kinds of items have ids of their own.
ASSUME ItemsAssumption == Apps \cap Rules = {}

Items == Apps \cup Rules
Idle  == [at |-> "idle"]

\* load_rules: a missing file is replaced by a template and no rule is loaded;
\* the first rule of a class wins, the user's own rules come first.
Loaded ==
    IF rulesFile.missing THEN {}
    ELSE {<<i, learned[i]>> : i \in
            {j \in DOMAIN learned :
                /\ learned[j][1] \notin rulesFile.hides
                /\ \A k \in 1..(j - 1) : learned[k][1] # learned[j][1]}}

Template == rulesFile' = [rulesFile EXCEPT !.missing = FALSE]

LoadRules ==
    /\ inForce' = Loaded
    /\ Template

----------------------------------------------------------------------------
(* The gate and the miners *)

\* is_allowed reads the file; a class without an entry is denied and counted.
Deny(a) ==
    /\ a \notin allow
    /\ misses' = misses \cup {a}
    /\ UNCHANGED <<batch, decided, fileVars, rulesFile, inForce, op, lateUpdates, lost>>

\* AllowlistMiner.mine drains the counter before the first upsert.
Mine ==
    /\ batch = {} /\ misses # {}
    /\ batch' = misses
    /\ misses' = {}
    /\ UNCHANGED <<decided, fileVars, rulesFile, inForce, op, lateUpdates, lost>>

\* Mutant of Upsert: a row that the user has decided is proposed again.
Upsert_Reopens(a) ==
    /\ a \in batch
    /\ batch' = batch \ {a}
    /\ decided' = [decided EXCEPT ![a] = "proposed"]
    /\ UNCHANGED <<misses, fileVars, rulesFile, inForce, op, lateUpdates, lost>>

\* Mutant of Upsert: the counter is cleared when the batch is done, with what was
\* counted meanwhile.
Upsert_ClearsCounter(a) ==
    /\ a \in batch
    /\ batch' = batch \ {a}
    /\ misses' = IF batch = {a} THEN {} ELSE misses
    /\ decided' = [decided EXCEPT ![a] = IF @ = "none" /\ a \notin misses THEN "proposed" ELSE @]
    /\ UNCHANGED <<fileVars, rulesFile, inForce, op, lateUpdates, lost>>

\* upsert_allowlist_proposal: decided rows are left alone by the conflict clause.
Upsert(a) ==
    /\ a \in batch
    /\ batch' = batch \ {a}
    /\ decided' = [decided EXCEPT ![a] = IF @ = "none" THEN "proposed" ELSE @]
    /\ UNCHANGED <<misses, fileVars, rulesFile, inForce, op, lateUpdates, lost>>

\* The failure of one upsert is logged, its misses are gone.
UpsertFails(a) ==
    /\ a \in batch
    /\ batch' = batch \ {a}
    /\ lost' = TRUE
    /\ UNCHANGED <<misses, decided, fileVars, rulesFile, inForce, op, lateUpdates>>

\* RuleMiner.mine: one transaction of INSERT OR IGNORE.
MineRules(S) ==
    /\ \E r \in S : decided[r] = "none"
    /\ decided' = [i \in Items |-> IF i \in S /\ decided[i] = "none" THEN "proposed"
                                   ELSE decided[i]]
    /\ UNCHANGED <<minerVars, fileVars, rulesFile, inForce, op, lateUpdates>>

----------------------------------------------------------------------------
(* learning_approve and learning_reject *)

Reply(d) == op' = [op EXCEPT ![d] = Idle]

\* A reject goes straight to the update, an approve first lists the rows.
Ask(d, act, i) ==
    /\ op[d] = Idle
    /\ op' = [op EXCEPT ![d] = [at |-> IF act = "approve" THEN "list" ELSE "update",
                                act |-> act, item |-> i]]
    /\ UNCHANGED <<minerVars, decided, fileVars, rulesFile, inForce, lateUpdates>>

\* Mutant of AppendEntry: the file is written after the status.
AppendEntry_StatusFirst(d) ==
    /\ op[d].at = "list" /\ decided[op[d].item] # "none"
    /\ op' = [op EXCEPT ![d].at = "reload"]
    /\ decided' = [decided EXCEPT ![op[d].item] = "approved"]
    /\ UNCHANGED <<minerVars, fileVars, rulesFile, inForce, lateUpdates>>

\* The row exists, whatever its status: the entry is appended with no await in
\* between.  The allowlist drops a double entry, learned_rules.yaml does not.
AppendEntry(d) ==
    /\ op[d].at = "list" /\ decided[op[d].item] # "none"
    /\ LET i == op[d].item IN
        IF i \in Apps THEN allow' = allow \cup {i} /\ UNCHANGED learned
        ELSE /\ Len(learned) < MaxBlocks
             /\ learned' = learned \o <<i>>
             /\ UNCHANGED allow
    /\ op' = [op EXCEPT ![d].at = "update"]
    /\ UNCHANGED <<minerVars, decided, torn, rulesFile, inForce, lateUpdates>>

\* The list fails or the row is not there: KeyError.
NotFound(d) ==
    /\ op[d].at = "list"
    /\ Reply(d)
    /\ UNCHANGED <<minerVars, decided, fileVars, rulesFile, inForce, lateUpdates>>

Verdict(o) == IF o.act = "approve" THEN "approved" ELSE "rejected"

\* UPDATE ... WHERE id=?: without a row nothing changes.
SetStatus(i, s) == decided' = [decided EXCEPT ![i] = IF @ = "none" THEN @ ELSE s]

\* After a rule was approved the handler goes on to reload the rules.
Update(d) ==
    /\ op[d].at = "update"
    /\ SetStatus(op[d].item, Verdict(op[d]))
    /\ IF op[d].act = "approve" /\ op[d].item \in Rules
       THEN op' = [op EXCEPT ![d].at = "reload"] ELSE Reply(d)
    /\ UNCHANGED <<minerVars, fileVars, rulesFile, inForce, lateUpdates>>

\* The update raises, or times out and its thread goes on.
UpdateFails(d) ==
    /\ op[d].at = "update"
    /\ Reply(d)
    /\ \/ UNCHANGED lateUpdates
       \/ lateUpdates = {} /\ lateUpdates' = {<<op[d].item, Verdict(op[d])>>}
    /\ UNCHANGED <<minerVars, decided, fileVars, rulesFile, inForce>>

LateUpdate(w) ==
    /\ w \in lateUpdates
    /\ lateUpdates' = lateUpdates \ {w}
    /\ SetStatus(w[1], w[2])
    /\ UNCHANGED <<minerVars, fileVars, rulesFile, inForce, op>>

ReloadAfterApprove(d) ==
    /\ op[d].at = "reload"
    /\ LoadRules
    /\ Reply(d)
    /\ UNCHANGED <<minerVars, decided, fileVars, lateUpdates>>

\* reload_rules swaps the list in one step.
ReloadRequested ==
    /\ LoadRules
    /\ UNCHANGED <<minerVars, decided, fileVars, op, lateUpdates>>

\* The user's editor.
EditRules ==
    /\ \E hidden \in SUBSET Triggers : rulesFile' = [missing |-> FALSE, hides |-> hidden]
       \/ rulesFile' = [missing |-> TRUE, hides |-> {}]
    /\ UNCHANGED <<minerVars, decided, fileVars, inForce, op, lateUpdates>>

----------------------------------------------------------------------------
(* Crash, and the daemon that systemd starts again *)

Restarts ==
    /\ misses' = {} /\ batch' = {} /\ lost' = TRUE
    /\ lateUpdates' = {}
    /\ op' = [d \in Clients |-> Idle]

Crash ==
    /\ Restarts
    /\ LoadRules
    /\ UNCHANGED <<decided, fileVars>>

\* write_text truncates and then writes: a crash in between empties the file.
CrashInAppend(d) ==
    /\ op[d].at = "list" /\ decided[op[d].item] # "none"
    /\ Restarts
    /\ \/ /\ op[d].item \in Apps
          /\ allow' = {} /\ torn' = torn \cup {"allow"}
          /\ UNCHANGED learned
          /\ LoadRules
       \/ /\ op[d].item \in Rules
          /\ learned' = <<>> /\ torn' = torn \cup {"learned"}
          /\ UNCHANGED allow
          /\ inForce' = {} /\ Template
    /\ UNCHANGED decided

----------------------------------------------------------------------------

pInit ==
    /\ misses = {} /\ batch = {} /\ lost = FALSE
    /\ decided = [i \in Items |-> "none"]
    /\ allow = {} /\ learned = <<>> /\ torn = {}
    /\ rulesFile = [missing |-> FALSE, hides |-> {}]
    /\ inForce = {}
    /\ op = [d \in Clients |-> Idle]
    /\ lateUpdates = {}

pNext ==
    \/ \E a \in Apps : Deny(a) \/ Upsert(a) \/ UpsertFails(a)
    \/ \E S \in SUBSET Rules : MineRules(S)
    \/ \E d \in Clients :
        \/ \E act \in {"approve", "reject"}, i \in Items : Ask(d, act, i)
        \/ AppendEntry(d) \/ NotFound(d) \/ Update(d) \/ UpdateFails(d)
        \/ ReloadAfterApprove(d) \/ CrashInAppend(d)
    \/ \E w \in lateUpdates : LateUpdate(w)
    \/ Mine \/ ReloadRequested \/ EditRules \/ Crash

\* The mining loop runs every mining_interval_s seconds; a call to the store returns or fails.
pFair == WF_pVars(Mine) /\ \A a \in Apps : WF_pVars(Upsert(a) \/ UpsertFails(a))

pSpec == pInit /\ [][pNext]_pVars /\ pFair

----------------------------------------------------------------------------
(* Properties *)

\* approve writes the file before the status, so that no crash, failed update or
\* concurrent decision leaves an approved proposal without its entry; only a
\* crash inside write_text loses entries.
ApprovedIsInFile ==
    /\ \A a \in Apps : decided[a] = "approved" /\ "allow" \notin torn => a \in allow
    /\ \A r \in Rules : decided[r] = "approved" /\ "learned" \notin torn =>
        \E i \in DOMAIN learned : learned[i] = r

\* What the user has decided the miners never propose again.
DecisionsStay ==
    [][\A i \in Items : decided[i] \in {"approved", "rejected"} =>
        decided'[i] \in {"approved", "rejected"}]_pVars

\* A denied class becomes a proposal although the counter is drained while the
\* gate goes on counting, unless the store fails or the daemon dies.
DeniedIsProposed ==
    \A a \in Apps :
        (a \in misses) ~> (decided[a] # "none" \/ lost)
=============================================================================
