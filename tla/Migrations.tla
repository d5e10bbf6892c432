----------------------------- MODULE Migrations -----------------------------
(***************************************************************************)
(* RunStore.open: _init_db brings runs.db of any earlier version up to date,   *)
(* one statement after the other.  executescript and ALTER TABLE commit each   *)
(* statement; the first UPDATE of v5 opens a transaction that lasts to the     *)
(* final commit.  The process can die between any two statements; the next     *)
(* open starts again and must repeat what was cut off.  disk is the set of      *)
(* tables, columns and version marks that are committed.                       *)
(***************************************************************************)
EXTENDS Naturals, Sequences

CONSTANT Rows     \* rows that are ever inserted into runs

VARIABLES
    schemaAt,    \* down, opening, up, failed
    todo,        \* statements that _init_db has still to execute
    disk, pend,  \* what is committed, and what the open transaction adds
    vec,         \* _vec_ok of this process
    inRuns, inNew,   \* rows of runs and of runs_new
    ever,        \* rows whose insert was committed
    cut          \* the process died between two statements of the rebuild

sVars == <<schemaAt, todo, disk, pend, vec, inRuns, inNew, ever, cut>>
rowVars == <<inRuns, inNew, ever>>

St(kind, obj) == [kind |-> kind, obj |-> obj]
Create(names) == [i \in DOMAIN names |-> St("create", names[i])]
Objects(stmts) == {stmts[i].obj : i \in DOMAIN stmts}

RunsColumns == {"runs", "error_text", "kind"}

Schema == Create(<<"runs", "run_events", "error_text", "kind">>)
          \o <<St("rebuild?", "legacy")>>

V2 == Create(<<"iterations", "action_count", "duration_s", "run_outcomes",
               "feedback", "action_outcomes">>) \o <<St("mark", "v2")>>

\* Mutant of V3: the version is set before the tables are created.
V3_MarksFirst == <<St("mark", "v3")>> \o Create(<<"episodes", "reflections">>)
                 \o <<St("vec", "episode_vecs")>>

V3 == Create(<<"episodes", "reflections">>)
      \o <<St("vec", "episode_vecs"), St("mark", "v3")>>

V4 == Create(<<"skills", "skill_outcomes", "learned_rules", "allowlist_proposals">>)
      \o <<St("vec", "skill_vecs"), St("mark", "v4")>>

\* The second column of each table is filled when it was just added.
V5 == <<St("create", "episodes.decay"),    St("filled", "episodes.access"),
        St("create", "reflections.decay"), St("filled", "reflections.access"),
        St("create", "skills.decay"),      St("filled", "skills.access"),
        St("mark", "v5")>>

Steps == [v \in 2..5 |-> CASE v = 2 -> V2 [] v = 3 -> V3 [] v = 4 -> V4 [] v = 5 -> V5]
MarkOf(v) == CASE v = 2 -> "v2" [] v = 3 -> "v3" [] v = 4 -> "v4" [] v = 5 -> "v5"

\* user_version < v.  Nobody else writes it, so it is read at the start.
Due(v) == IF MarkOf(v) \in disk THEN <<>> ELSE Steps[v]

Rebuild == <<St("new", "runs_new"), St("copy", ""), St("drop", ""), St("rename", "")>>

----------------------------------------------------------------------------

\* vec0 loads or does not load in this process.
Open(v) ==
    /\ schemaAt \in {"down", "failed"}
    /\ schemaAt' = "opening"
    /\ vec' = v
    /\ todo' = Schema \o Due(2) \o Due(3) \o Due(4) \o Due(5)
    /\ UNCHANGED <<disk, pend, rowVars, cut>>

Statement(kind)   == schemaAt = "opening" /\ todo # <<>> /\ Head(todo).kind = kind
Done         == todo' = Tail(todo)
Present(obj) == obj \in disk \cup pend

\* A statement joins the open transaction, or commits at once.
Put(objs) == IF pend = {} THEN disk' = disk \cup objs /\ UNCHANGED pend
             ELSE pend' = pend \cup objs /\ UNCHANGED disk

\* IF NOT EXISTS, or a column that table_info does not list.
CreateObject ==
    /\ \/ Statement("create")
       \/ Statement("vec") /\ vec
    /\ IF Present(Head(todo).obj) THEN UNCHANGED <<disk, pend>>
       ELSE Put(IF Head(todo).obj = "runs" THEN RunsColumns ELSE {Head(todo).obj})
    /\ Done
    /\ UNCHANGED <<schemaAt, vec, rowVars, cut>>

SkipVec ==
    /\ Statement("vec") /\ ~vec
    /\ Done
    /\ UNCHANGED <<schemaAt, disk, pend, vec, rowVars, cut>>

\* ALTER TABLE, to be followed by the UPDATE of its rows.
AddFilledColumn ==
    /\ Statement("filled")
    /\ IF Present(Head(todo).obj) THEN Done /\ UNCHANGED <<disk, pend>>
       ELSE /\ Put({Head(todo).obj})
            /\ todo' = <<St("update", "begin")>> \o Tail(todo)
    /\ UNCHANGED <<schemaAt, vec, rowVars, cut>>

\* Python opens a transaction before the first UPDATE; a second one joins it.
FillColumn ==
    /\ Statement("update")
    /\ pend' = pend \cup {Head(todo).obj}
    /\ Done
    /\ UNCHANGED <<schemaAt, disk, vec, rowVars, cut>>

\* PRAGMA user_version = v, commit.
MarkVersion ==
    /\ Statement("mark")
    /\ disk' = disk \cup (pend \ {"begin"}) \cup {Head(todo).obj}
    /\ pend' = {}
    /\ Done
    /\ UNCHANGED <<schemaAt, vec, rowVars, cut>>

RebuildIfLegacy ==
    /\ Statement("rebuild?")
    /\ todo' = (IF "legacy" \in disk THEN Rebuild ELSE <<>>) \o Tail(todo)
    /\ UNCHANGED <<schemaAt, disk, pend, vec, rowVars, cut>>

\* CREATE TABLE runs_new, without IF NOT EXISTS: the open raises.
CreateNew ==
    /\ Statement("new")
    /\ IF "runs_new" \in disk THEN schemaAt' = "failed" /\ todo' = <<>> /\ UNCHANGED disk
       ELSE disk' = disk \cup {"runs_new"} /\ Done /\ UNCHANGED schemaAt
    /\ UNCHANGED <<pend, vec, rowVars, cut>>

\* Mutant of CopyRows: rows without a kind are not copied.
CopyRows_NoCoalesce ==
    /\ Statement("copy")
    /\ inNew' \in SUBSET inRuns
    /\ Done
    /\ UNCHANGED <<schemaAt, disk, pend, vec, inRuns, ever, cut>>

CopyRows ==
    /\ Statement("copy")
    /\ inNew' = inRuns
    /\ Done
    /\ UNCHANGED <<schemaAt, disk, pend, vec, inRuns, ever, cut>>

DropRuns ==
    /\ Statement("drop")
    /\ disk' = disk \ (RunsColumns \cup {"legacy"})
    /\ inRuns' = {}
    /\ Done
    /\ UNCHANGED <<schemaAt, pend, vec, inNew, ever, cut>>

RenameNew ==
    /\ Statement("rename")
    /\ disk' = (disk \ {"runs_new"}) \cup RunsColumns
    /\ inRuns' = inNew /\ inNew' = {}
    /\ Done
    /\ UNCHANGED <<schemaAt, pend, vec, ever, cut>>

Opened ==
    /\ schemaAt = "opening" /\ todo = <<>>
    /\ schemaAt' = "up"
    /\ UNCHANGED <<todo, disk, pend, vec, rowVars, cut>>

InsertRow(r) ==
    /\ schemaAt = "up" /\ r \notin ever
    /\ inRuns' = inRuns \cup {r} /\ ever' = ever \cup {r}
    /\ UNCHANGED <<schemaAt, todo, disk, pend, vec, inNew, cut>>

\* A crash or an exit; the open transaction is rolled back.
Stop ==
    /\ schemaAt \in {"opening", "up"}
    /\ schemaAt' = "down" /\ todo' = <<>> /\ pend' = {}
    /\ cut' = (cut \/ (schemaAt = "opening" /\ "runs_new" \in disk))
    /\ UNCHANGED <<disk, vec, rowVars>>

----------------------------------------------------------------------------

\* A database of version v: 0 none, 1 without marks.
Upto(v) == IF v = 0 THEN {}
           ELSE RunsColumns \cup {"run_events"}
                \cup UNION {Objects(Steps[w]) : w \in 2..v}

sInit ==
    /\ schemaAt = "down" /\ todo = <<>> /\ pend = {} /\ vec = FALSE
    /\ \/ \E v \in 0..5 : disk = Upto(v)
       \/ disk \in {{"runs", "run_events", "legacy"},
                    {"runs", "run_events", "legacy", "error_text", "kind"}}
    /\ inRuns \in {{}} \cup (IF disk = {} THEN {} ELSE SUBSET Rows)
    /\ inNew = {} /\ ever = inRuns
    /\ cut = FALSE

sNext ==
    \/ \E v \in BOOLEAN : Open(v)
    \/ CreateObject \/ SkipVec \/ AddFilledColumn \/ FillColumn \/ MarkVersion
    \/ RebuildIfLegacy \/ CreateNew \/ CopyRows \/ DropRuns \/ RenameNew
    \/ Opened \/ Stop
    \/ \E r \in Rows : InsertRow(r)

sSpec == sInit /\ [][sNext]_sVars

----------------------------------------------------------------------------
(* Properties *)

\* user_version never says more than is there, wherever the process died:
\* a step that was cut off is due again.  Only the vector tables are skipped for
\* good when the extension was missing at that one open.
VersionMeansComplete ==
    \A v \in 2..5 : MarkOf(v) \in disk =>
        \A i \in DOMAIN Steps[v] :
            Steps[v][i].kind # "vec" => Steps[v][i].obj \in disk

\* Rows survive every upgrade and an open never fails, unless the process died
\* between two statements of the rebuild; even then they are on disk, in
\* runs_new.
RowsSurvive ==
    /\ ever \subseteq inRuns \cup inNew
    /\ schemaAt = "up" /\ ~cut => inRuns = ever
    /\ schemaAt = "failed" => cut
=============================================================================
