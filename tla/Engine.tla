-------------------------------- MODULE Engine --------------------------------
(***************************************************************************)
(* internal/engine: the runs that change one placement root, that is       *)
(* apply, rollback and reset of one profile.  A run plans once (Planner),  *)
(* then changes the tree one entry at a time, journaling each change in    *)
(* memory; writes the last-applied record; and moves the profile to its    *)
(* generation.  A failing stage unwinds the journal; a failing commit does *)
(* not; a crash loses the journal.  Between two runs (and within one, when *)
(* UserDuringRun) the user edits the tree.  Runs of one profile are        *)
(* serialized by the profile lock, so there is one run at a time.          *)
(***************************************************************************)
EXTENDS Planner

CONSTANTS
  Manifests,      \* the manifests the generator may build
  AsideOf,        \* [Target -> Path]: <target>.layat-recopy-aside
  OutOfStore,     \* sources outside the store, which may be missing
  UserPath,       \* where the user edits
  RootKind,       \* "home", "project" or "system"
  Modifiers,      \* the [backup, recopy] pairs apply may be given
  UserDuringRun,  \* does the user edit while a run is under way
  MaxGens, MaxFaults, MaxCrashes, MaxEdits   \* bounds

ASSUME EngineAssumption ==
  /\ \A m \in Manifests : IsManifest(m)
  /\ \A m \in Manifests : \A t \in Copies(m) : m[t].src \in DirSrc => LeafOf(t) \in Path
  /\ None \notin Manifests
  /\ AsideOf \in [Target -> Path \ Target]
  \* Path has a name for whatever a rename moves, there and back.
  /\ \A t \in Target : \A q \in {BackupOf[t], AsideOf[t]} :
       /\ \A r \in At(t) : Rebase(q, t, r) \in Path
       /\ \A r \in At(q) : Rebase(t, q, r) \in Path
  /\ UserPath \subseteq Path
  /\ RootKind \in {"home", "project", "system"}
  /\ Modifiers \subseteq [backup : BOOLEAN, recopy : BOOLEAN]
  /\ UserDuringRun \in BOOLEAN
  /\ {MaxGens, MaxFaults, MaxCrashes, MaxEdits} \subseteq Nat

VARIABLES
  fs,        \* the tree under the placement root
  record,    \* the last-applied record: a manifest and the link-farm it came from
  gens,      \* the profile's generations, oldest first
  cur,       \* the generation the profile link names; 0 without a profile
  pending,   \* the manifest the .pending out-link holds, or None
  phase,     \* where the run is
  run,       \* its operation, options, manifests and selection
  plan,      \* what its plan still has to do
  mid,       \* the action between two of its writes, or the prompt of reset
  journal,   \* the undo journal, oldest first
  outcome,   \* how the last run ended
  before,    \* the tree when the run started
  owned,     \* user contents nobody agreed to lose
  spent      \* the bounded events so far

engineVars == <<phase, run, plan, mid, journal>>
profileVars == <<record, gens, cur, pending>>
ghostVars == <<outcome, before, owned, spent>>
vars == <<fs, profileVars, engineVars, ghostVars>>

-----------------------------------------------------------------------------
NoRecord == [man |-> None, farm |-> None]
NoRun == [op |-> "none", next |-> NoEntries, base |-> NoEntries, farm |-> None,
          backup |-> FALSE, recopy |-> FALSE, skip |-> FALSE, selected |-> {}]
NoMid == [step |-> "none", path |-> << >>]
Mid(s, p) == [step |-> s, path |-> p]
Asking == Mid("ask", << >>)

HasBaseline == record # NoRecord \/ cur > 0

\* loadBaseline: the record, else the profile's current generation, else nothing.
Baseline == IF record # NoRecord THEN record.man
            ELSE IF cur > 0 THEN gens[cur] ELSE NoEntries
BaselineFarm == IF record # NoRecord THEN record.farm
                ELSE IF cur > 0 THEN gens[cur] ELSE None

UserContents(f, P) == {u \in User : \E p \in P : f[p] = FileOf(u)}

UndoKind == {"unlinkNew", "relinkOld", "removeCopy", "restoreRename",
             "restoreBackup", "mkdir"}
UndoOp == [kind : UndoKind, path : Path, dest : Val]

Journal(kind, p) == Append(journal, [kind |-> kind, path |-> p, dest |-> None])

JournalRelink(p, d) ==
  Append(journal, [kind |-> "relinkOld", path |-> p, dest |-> d])

Init ==
  /\ fs = [p \in Path |-> Absent]
  /\ record = NoRecord /\ gens = << >> /\ cur = 0 /\ pending = None
  /\ phase = "idle" /\ run = NoRun /\ plan = NoPlan /\ mid = NoMid
  /\ journal = << >>
  /\ outcome = "none" /\ before = fs /\ owned = {}
  /\ spent = [faults |-> 0, crashes |-> 0, edits |-> 0]

-----------------------------------------------------------------------------
(* Ending a run: the journal, which lives in memory, goes with it. *)

End(how, keep) ==
  /\ phase' = "idle" /\ run' = keep /\ plan' = NoPlan /\ mid' = NoMid
  /\ journal' = << >>
  /\ outcome' = how /\ before' = fs'

\* A run that stops before any write: the tree, the record and the profile stay.
Refuse == /\ UNCHANGED <<fs, owned, spent>>
          /\ End("refused", NoRun)

Begin(r, p, consented, ph) ==
  /\ phase' = ph /\ run' = r /\ plan' = p
  /\ outcome' = "running"
  /\ owned' = owned \ UserContents(fs, consented)
  /\ UNCHANGED <<fs, mid, journal, before, spent>>

\* Planned, and nothing written: the run waits for its user.
Ask(r, p) ==
  /\ phase' = "teardown" /\ run' = r /\ plan' = p /\ mid' = Asking
  /\ outcome' = "running"
  /\ UNCHANGED <<fs, journal, owned, before, spent>>

-----------------------------------------------------------------------------
(* Starting a run. *)

\* Mutant: a record that is ahead of the generation does not matter.
SkipsWhateverIsRecorded(m) ==
  RootKind \in {"project", "system"} /\ cur > 0 /\ gens[cur] = m

\* generationUnchanged, in the modes that skip.
SkipsGeneration(m) ==
  /\ RootKind \in {"project", "system"}
  /\ cur > 0 /\ gens[cur] = m
  /\ record # NoRecord => record.farm = m

\* Mutants: every apply recopies; --recopy copies only what is absent.
AlwaysRecopy(p, m, recopy) == [p EXCEPT !.copies = Copies(m)]
NeverRecopy(p, m, recopy) == p

\* Under --recopy every copy entry is copied, whatever the plan says.
WithRecopy(p, m, recopy) == IF recopy THEN [p EXCEPT !.copies = Copies(m)] ELSE p

\* repairDrift leaves the links in sync and removes nothing stale.
Repairs(p) == [p EXCEPT !.replace = {}, !.remove = {}]

\* Apply up to the first write: build into .pending, read the baseline, plan,
\* stop on conflicts, check the sources outside the store, decide on the skip.
StartApply(m, mod) ==
  LET skip == SkipsGeneration(m)
      r == [op |-> "apply", next |-> m, base |-> Baseline, farm |-> m,
            backup |-> mod.backup, recopy |-> mod.recopy, skip |-> skip,
            selected |-> {}]
      consented == IF mod.recopy THEN UNION {At(t) : t \in Copies(m)} ELSE {}
  IN /\ phase = "idle" /\ Len(gens) < MaxGens
     /\ pending' = m
     /\ UNCHANGED <<record, gens, cur>>
     /\ \E p \in {WithRecopy(Compute(fs, Baseline, m, mod.backup), m, mod.recopy)} :
          \/ /\ \/ p.failed \/ p.conflicts # {}
                \/ \E t \in DOMAIN m : m[t].src \in OutOfStore
             /\ Refuse
          \/ /\ ~p.failed /\ p.conflicts = {}
             /\ IF ~skip THEN Begin(r, p, consented, "stages")
                ELSE IF p.unlink \cup p.rmdir # {}
                \* repairDrift takes no pre-removal
                THEN Begin(r, NoPlan, {}, "unwind")
                ELSE Begin(r, Repairs(p), consented, "stages")

\* Rollback up to the first write: from the baseline to the generation before
\* the current one.
StartRollback ==
  LET m == gens[cur - 1]
      r == [op |-> "rollback", next |-> m, base |-> Baseline, farm |-> m,
            backup |-> FALSE, recopy |-> FALSE, skip |-> FALSE, selected |-> {}]
  IN /\ phase = "idle" /\ RootKind # "project" /\ cur > 1
     /\ UNCHANGED profileVars
     /\ \E p \in {Compute(fs, Baseline, m, FALSE)} :
          IF p.failed \/ p.conflicts # {} THEN Refuse ELSE Begin(r, p, {}, "stages")

\* Reset up to its prompt, or with --yes to its first removal: the selected links
\* the planner calls stale, and the selected copies, which the user agrees to lose.
StartReset(T) ==
  LET sel == Restrict(Baseline, T)
      r == [op |-> "reset", next |-> NoEntries, base |-> Baseline,
            farm |-> BaselineFarm, backup |-> FALSE, recopy |-> FALSE,
            skip |-> FALSE, selected |-> T]
  IN /\ phase = "idle" /\ HasBaseline /\ T # {} /\ T \subseteq DOMAIN Baseline
     /\ UNCHANGED profileVars
     /\ \E p \in {Compute(fs, Restrict(sel, Symlinks(sel)), NoEntries, FALSE)} :
          IF p.failed \/ \E t \in Copies(sel) : NotDirAbove(fs, t) THEN Refuse
          ELSE LET q == [p EXCEPT !.copies = {t \in Copies(sel) : Exists(fs, t)}]
               IN \/ Begin(r, q, UNION {At(t) : t \in q.copies}, "teardown")
                  \/ Ask(r, q)

\* The user answers, with the lock held and on the plan made before: yes gives up
\* what the copies hold by now; no, or a prompt that fails, ends the run.
AnswerReset ==
  /\ phase = "teardown" /\ mid = Asking
  /\ \/ /\ mid' = NoMid
        /\ owned' = owned \ UserContents(fs, UNION {At(t) : t \in plan.copies})
        /\ UNCHANGED <<fs, profileVars, phase, run, plan, journal, outcome, before, spent>>
     \/ UNCHANGED profileVars /\ Refuse

-----------------------------------------------------------------------------
(* The stages of apply and rollback, in order; each takes its entries one   *)
(* by one.                                                                  *)

\* Mutant: the kind that replaces a foreign link is not dispatched.
RelinksRecorded == plan.replace

Relinks == plan.replace \cup plan.foreign

Stage ==
  IF plan.unlink \cup plan.rmdir # {} THEN "preRemove"
  ELSE IF plan.backup # {} THEN "backup"
  ELSE IF plan.new \cup Relinks # {} THEN "place"
  ELSE IF plan.copies # {} THEN "copy"
  ELSE IF plan.remove # {} THEN "removeStale"
  ELSE "record"

In(stage) == phase = "stages" /\ mid = NoMid /\ Stage = stage

\* Stale removal is a stage of apply and rollback and the first half of reset.
InStale == In("removeStale") \/ (phase = "teardown" /\ mid = NoMid)

\* A stage step that writes: the profile stays as it is.
Writes == UNCHANGED <<profileVars, phase, run, ghostVars>>

\* An error in a stage: runJournaled unwinds.
Fails == /\ phase' = "unwind" /\ mid' = NoMid /\ plan' = NoPlan
         /\ UNCHANGED <<run, journal, profileVars, outcome, before, owned>>

\* Children come before their parents.
Deepest(p, P) == p \in P /\ Below[p] \cap P = {}

PreRemoveUnlink(p) ==
  /\ In("preRemove") /\ p \in plan.unlink
  /\ Deepest(p, plan.unlink \cup plan.rmdir)
  /\ RecordedLink(fs, run.base, p)
  /\ fs' = Put(fs, p, Absent)
  /\ journal' = JournalRelink(p, run.base[p].src)
  /\ plan' = [plan EXCEPT !.unlink = @ \ {p}]
  /\ Writes /\ UNCHANGED mid

PreRemoveRmdir(p) ==
  /\ In("preRemove") /\ p \in plan.rmdir
  /\ Deepest(p, plan.unlink \cup plan.rmdir)
  /\ plan' = [plan EXCEPT !.rmdir = @ \ {p}]
  /\ \/ /\ CanRemove(fs, p)
        /\ fs' = Put(fs, p, Absent)
        /\ journal' = Journal("mkdir", p)
     \/ /\ ~Exists(fs, p)
        /\ UNCHANGED <<fs, journal>>
  /\ Writes /\ UNCHANGED mid

BackUp(t) ==
  /\ In("backup") /\ t \in plan.backup
  /\ ~Exists(fs, BackupOf[t]) /\ CanRename(fs, t, BackupOf[t])
  /\ fs' = Rename(fs, t, BackupOf[t])
  /\ journal' = Journal("restoreBackup", t)
  /\ plan' = [plan EXCEPT !.backup = @ \ {t}]
  /\ Writes /\ UNCHANGED mid

PlaceNew(t) ==
  /\ In("place") /\ t \in plan.new
  /\ CanMkdirs(fs, t) /\ ~Exists(fs, t)
  /\ fs' = Put(Mkdirs(fs, t), t, LinkTo(run.next[t].src))
  /\ journal' = Journal("unlinkNew", t)
  /\ plan' = [plan EXCEPT !.new = @ \ {t}]
  /\ Writes /\ UNCHANGED mid

\* Re-link is unlink, then symlink.
RelinkUnlink(t) ==
  /\ In("place") /\ t \in Relinks
  /\ IsLink(fs, t)
  /\ fs' = Put(fs, t, Absent)
  /\ journal' = JournalRelink(t, fs[t].val)
  /\ mid' = Mid("relink", t)
  /\ Writes /\ UNCHANGED plan

RelinkSymlink(t) ==
  /\ phase = "stages" /\ mid = Mid("relink", t)
  /\ InRealDir(fs, t) /\ ~Exists(fs, t)
  /\ fs' = Put(fs, t, LinkTo(run.next[t].src))
  /\ plan' = [plan EXCEPT !.replace = @ \ {t}, !.foreign = @ \ {t}]
  /\ mid' = NoMid
  /\ Writes /\ UNCHANGED journal

\* recopyAll moves what is there aside; placeCopies never looks.
RecopyAside(t) ==
  /\ In("copy") /\ t \in plan.copies /\ run.recopy
  /\ Exists(fs, t) /\ CanRename(fs, t, AsideOf[t])
  /\ fs' = Rename(fs, t, AsideOf[t])
  /\ journal' = Journal("restoreRename", t)
  /\ mid' = Mid("aside", t)
  /\ Writes /\ UNCHANGED plan

CopyStart(t) ==
  /\ phase = "stages" /\ t \in plan.copies
  /\ CanMkdirs(fs, t) /\ CanCopy(Mkdirs(fs, t), run.next[t].src, t)
  /\ fs' = BeginCopy(Mkdirs(fs, t), run.next[t].src, t)
  /\ \/ /\ In("copy") /\ (run.recopy => ~Exists(fs, t))
        /\ journal' = Journal("removeCopy", t)
     \/ /\ mid = Mid("aside", t)
        /\ UNCHANGED journal
  /\ mid' = Mid("copy", t)
  /\ Writes /\ UNCHANGED plan

\* Nobody touched the copy under way.
Copying(t) ==
  IF run.next[t].src \in DirSrc THEN IsDir(fs, t) /\ ~IsDir(fs, LeafOf(t))
                                ELSE fs[t] = FileOf(Partial)

\* A file that was moved away meanwhile is filled where it went.
CopyFinish(t) ==
  /\ phase = "stages" /\ mid = Mid("copy", t)
  /\ \/ Copying(t) /\ fs' = EndCopy(fs, run.next[t].src, t)
     \/ ~Copying(t) /\ run.next[t].src \notin DirSrc /\ UNCHANGED fs
  /\ plan' = [plan EXCEPT !.copies = @ \ {t}]
  /\ mid' = NoMid
  /\ Writes /\ UNCHANGED journal

\* Mutant: the link is compared with the new manifest.
StaleAgainstNext(t) == RecordedLink(fs, run.next, t)

\* reverifyStale
StillStale(t) == RecordedLink(fs, run.base, t)

\* A stale link that drifted after planning is kept.
RemoveStale(t) ==
  /\ InStale /\ t \in plan.remove
  /\ \/ /\ StillStale(t)
        /\ fs' = Put(fs, t, Absent)
        /\ journal' = JournalRelink(t, run.base[t].src)
        /\ mid' = Mid("prune", t)
     \/ /\ ~StillStale(t)
        /\ UNCHANGED <<fs, journal, mid>>
  /\ plan' = [plan EXCEPT !.remove = @ \ {t}]
  /\ Writes

\* pruneEmptyAncestors: from the removed path up, while os.Remove takes the parent.
PruneAncestor ==
  /\ phase \in {"stages", "teardown"} /\ mid.step = "prune"
  /\ LET up == Front(mid.path)
     IN IF up \in Path /\ CanRemove(fs, up) /\ ~IsLink(fs, up)
        THEN /\ fs' = Put(fs, up, Absent)
             /\ journal' = Journal("mkdir", up)
             /\ mid' = Mid("prune", up)
        ELSE mid' = NoMid /\ UNCHANGED <<fs, journal>>
  /\ Writes /\ UNCHANGED plan

-----------------------------------------------------------------------------
(* Failing stages.                                                          *)

\* The next call of the stage cannot succeed at p on the tree as it is.
Refuses(p) ==
  \/ In("preRemove") /\ p \in plan.unlink /\ ~RecordedLink(fs, run.base, p)
  \/ /\ In("preRemove") /\ p \in plan.rmdir
     /\ Deepest(p, plan.unlink \cup plan.rmdir) /\ Exists(fs, p) /\ ~CanRemove(fs, p)
  \/ /\ In("backup") /\ p \in plan.backup
     /\ (Exists(fs, BackupOf[p]) \/ ~CanRename(fs, p, BackupOf[p]))
  \/ /\ In("place") /\ p \in plan.new
     /\ ~CanMkdirs(fs, p) \/ Exists(fs, p)
  \/ In("place") /\ p \in Relinks /\ ~IsLink(fs, p)
  \/ /\ phase = "stages" /\ mid = Mid("relink", p)
     /\ Exists(fs, p) \/ ~InRealDir(fs, p)
  \/ /\ In("copy") /\ run.recopy /\ p \in plan.copies
     /\ NotDirAbove(fs, p) \/ (Exists(fs, p) /\ ~CanRename(fs, p, AsideOf[p]))

StageStuck(p) ==
  /\ Refuses(p)
  /\ UNCHANGED <<fs, spent>>
  /\ Fails

\* copyTree fails on what is there; its undo is already journaled.
CopyStuck(t) ==
  /\ phase = "stages" /\ t \in plan.copies
  /\ \/ /\ In("copy") /\ (run.recopy => ~Exists(fs, t))
        /\ \/ ~CanMkdirs(fs, t) /\ UNCHANGED <<fs, journal>>
           \/ /\ CanMkdirs(fs, t) /\ ~CanCopy(fs, run.next[t].src, t)
              /\ fs' = Mkdirs(fs, t)
              /\ journal' = Journal("removeCopy", t)
     \/ /\ mid = Mid("aside", t)
        /\ ~CanMkdirs(fs, t) \/ ~CanCopy(fs, run.next[t].src, t)
        /\ UNCHANGED <<fs, journal>>
     \/ /\ mid = Mid("copy", t)
        /\ run.next[t].src \in DirSrc /\ ~Copying(t)
        /\ UNCHANGED <<fs, journal>>
  /\ phase' = "unwind" /\ mid' = NoMid /\ plan' = NoPlan
  /\ UNCHANGED <<run, profileVars, ghostVars>>

Fault == spent.faults < MaxFaults /\ spent' = [spent EXCEPT !.faults = @ + 1]

\* A system call fails (no space, no permission) in a stage or when the record
\* is written; the parents an entry needed may exist by then.
StageFault ==
  /\ phase = "stages" /\ mid.step # "prune" /\ Fault
  /\ \/ UNCHANGED fs
     \/ \E t \in plan.new \cup plan.copies :
          /\ Stage \in {"place", "copy"} /\ mid = NoMid
          /\ CanMkdirs(fs, t) /\ fs' = Mkdirs(fs, t)
  /\ Fails

\* A failing prune is a warning.
PruneFault ==
  /\ phase \in {"stages", "teardown"} /\ mid.step = "prune" /\ Fault
  /\ mid' = NoMid
  /\ UNCHANGED <<fs, profileVars, phase, run, plan, journal, outcome, before, owned>>

\* Mutant: what was put at p meanwhile is not cleared first.
RenameBack(f, q, p) == IF CanRename(f, q, p) THEN Rename(f, q, p) ELSE f

\* q, where p was moved aside, comes back over what was put at p.
BringBack(f, q, p) ==
  LET g == Clear(f, p) IN IF CanRename(g, q, p) THEN Rename(g, q, p) ELSE g

\* What undoOne leaves of f.
Undo(f, op) ==
  LET p == op.path
      removed == IF CanRemove(f, p) THEN Put(f, p, Absent) ELSE f
  IN CASE op.kind = "unlinkNew" -> removed
       [] op.kind = "relinkOld" ->
            IF InRealDir(f, p) /\ ~Exists(removed, p)
            THEN Put(removed, p, LinkTo(op.dest)) ELSE removed
       [] op.kind = "removeCopy" -> Clear(f, p)
       [] op.kind = "restoreRename" -> BringBack(f, AsideOf[p], p)
       [] op.kind = "restoreBackup" -> BringBack(f, BackupOf[p], p)
       [] op.kind = "mkdir" ->
            IF InRealDir(f, p) /\ ~Exists(f, p) THEN Put(f, p, Dir) ELSE f

\* Mutants: oldest first; an undone change stays in the journal.
UndoOldestFirst ==
  /\ phase = "unwind" /\ journal # << >>
  /\ fs' = Undo(fs, Head(journal))
  /\ journal' = Tail(journal)
  /\ UNCHANGED <<profileVars, phase, run, plan, mid, ghostVars>>

UndoWithoutPop ==
  /\ phase = "unwind" /\ journal # << >>
  /\ fs' = Undo(fs, Last(journal))
  /\ UNCHANGED <<profileVars, phase, run, plan, mid, journal, ghostVars>>

\* unwind: newest first, each on its best effort.
UndoStep ==
  /\ phase = "unwind" /\ journal # << >>
  /\ fs' = Undo(fs, Last(journal))
  /\ journal' = Front(journal)
  /\ UNCHANGED <<profileVars, phase, run, plan, mid, ghostVars>>

Unwound ==
  /\ phase = "unwind" /\ journal = << >>
  /\ UNCHANGED <<fs, profileVars, owned, spent>>
  /\ End("unwound", NoRun)

-----------------------------------------------------------------------------
(* Finishing a run: record, then generation, then the asides and .pending.  *)

\* Mutant: the record keeps the link-farm of the run before.
RecordKeepsFarm ==
  /\ In("record")
  /\ record' = [man |-> run.next, farm |-> BaselineFarm]
  /\ phase' = IF run.skip THEN "discard" ELSE "commit"
  /\ UNCHANGED <<fs, gens, cur, pending, run, plan, mid, journal, ghostVars>>

WriteRecord ==
  /\ In("record")
  /\ record' = [man |-> run.next, farm |-> run.farm]
  /\ phase' = IF run.skip THEN "discard" ELSE "commit"
  /\ UNCHANGED <<fs, gens, cur, pending, run, plan, mid, journal, ghostVars>>

\* Mutant: rollback deletes the generation it leaves and moves nothing.
CommitByDeleting ==
  /\ phase = "commit"
  /\ IF run.op = "apply"
     THEN gens' = Append(gens, run.farm) /\ cur' = Len(gens) + 1
     ELSE gens' = Front(gens) /\ cur' = cur
  /\ phase' = "discard"
  /\ UNCHANGED <<fs, record, pending, run, plan, mid, journal, ghostVars>>

Commit ==
  /\ phase = "commit"
  /\ IF run.op = "apply"
     THEN gens' = Append(gens, run.farm) /\ cur' = Len(gens) + 1
     ELSE gens' = gens /\ cur' = cur - 1
  /\ phase' = "discard"
  /\ UNCHANGED <<fs, record, pending, run, plan, mid, journal, ghostVars>>

\* A commit or a switch that fails is not unwound: re-apply converges.
CommitFault ==
  /\ phase = "commit" /\ Fault
  /\ UNCHANGED <<fs, profileVars, owned>>
  /\ End("interrupted", run)

Asides == {AsideOf[journal[i].path] :
             i \in {j \in DOMAIN journal : journal[j].kind = "restoreRename"}}

DiscardJournal ==
  /\ phase = "discard"
  /\ fs' = [p \in Path |-> IF \E q \in Asides : p \in At(q) THEN Absent ELSE fs[p]]
  /\ pending' = IF run.op = "apply" THEN None ELSE pending
  /\ End("done", NoRun)
  /\ UNCHANGED <<record, gens, cur, owned, spent>>

-----------------------------------------------------------------------------
(* The rest of reset. *)

ResetCopy(t) ==
  /\ phase = "teardown" /\ mid = NoMid /\ plan.remove = {} /\ t \in plan.copies
  /\ fs' = Clear(fs, t)
  /\ plan' = [plan EXCEPT !.copies = @ \ {t}]
  /\ mid' = Mid("prune", t)
  /\ Writes /\ UNCHANGED journal

\* An error stops the teardown, and the record is still rewritten.
ResetFault ==
  /\ phase = "teardown" /\ mid = NoMid /\ plan.remove \cup plan.copies # {}
  /\ Fault
  /\ plan' = NoPlan
  /\ UNCHANGED <<fs, profileVars, phase, run, mid, journal, outcome, before, owned>>

\* Mutant: every selected entry is forgotten.
AllSelected == run.selected

Gone == {t \in run.selected : ~Exists(fs, t) /\ ~NotDirAbove(fs, t)}

\* recordAfterReset: a selected entry is forgotten once nothing is at its target.
RecordAfterReset ==
  /\ phase = "teardown" /\ mid = NoMid /\ plan.remove \cup plan.copies = {}
  /\ LET left == DOMAIN run.base \ Gone
     IN record' = IF left = {} THEN NoRecord
                  ELSE [man |-> Restrict(run.base, left), farm |-> run.farm]
  /\ UNCHANGED <<fs, gens, cur, pending, owned, spent>>
  /\ End("done", NoRun)

ResetRecordFault ==
  /\ phase = "teardown" /\ mid = NoMid /\ plan.remove \cup plan.copies = {}
  /\ Fault
  /\ UNCHANGED <<fs, profileVars, owned>>
  /\ End("interrupted", NoRun)

-----------------------------------------------------------------------------
(* A crash, and the user. *)

Crash ==
  /\ phase # "idle" /\ spent.crashes < MaxCrashes
  /\ spent' = [spent EXCEPT !.crashes = @ + 1]
  /\ UNCHANGED <<fs, profileVars, owned>>
  /\ End("interrupted", run)

UserMay == /\ phase = "idle" \/ UserDuringRun
           /\ spent.edits < MaxEdits
           /\ spent' = [spent EXCEPT !.edits = @ + 1]

\* An edit makes what the last run left no claim on the tree any more.
Edited ==
  /\ IF phase = "idle" THEN before' = fs' /\ outcome' = "none" /\ run' = NoRun
     ELSE UNCHANGED <<before, outcome, run>>
  /\ UNCHANGED <<profileVars, phase, plan, mid, journal>>

UserWrite(p, u) ==
  /\ UserMay
  /\ InRealDir(fs, p) /\ fs[p].kind \in {"absent", "file"}
  /\ u \notin owned \cup UserContents(fs, Path)
  /\ fs' = Put(fs, p, FileOf(u))
  /\ owned' = (owned \ UserContents(fs, {p})) \cup {u}
  /\ Edited

UserMkdir(p) ==
  /\ UserMay
  /\ InRealDir(fs, p) /\ ~Exists(fs, p)
  /\ fs' = Put(fs, p, Dir)
  /\ Edited /\ UNCHANGED owned

UserRelink(p, d) ==
  /\ UserMay
  /\ InRealDir(fs, p) /\ fs[p].kind \in {"absent", "link"}
  /\ fs[p] # LinkTo(d)
  /\ fs' = Put(fs, p, LinkTo(d))
  /\ Edited /\ UNCHANGED owned

UserDelete(p) ==
  /\ UserMay /\ Exists(fs, p)
  /\ fs' = Clear(fs, p)
  /\ owned' = owned \ UserContents(fs, At(p))
  /\ Edited

-----------------------------------------------------------------------------
StageStep ==
  \/ \E p \in plan.unlink : PreRemoveUnlink(p)
  \/ \E p \in plan.rmdir : PreRemoveRmdir(p)
  \/ \E t \in plan.backup : BackUp(t)
  \/ \E t \in plan.new : PlaceNew(t)
  \/ \E t \in Relinks : RelinkUnlink(t) \/ RelinkSymlink(t)
  \/ \E t \in plan.copies :
       RecopyAside(t) \/ CopyStart(t) \/ CopyFinish(t) \/ CopyStuck(t) \/ ResetCopy(t)
  \/ \E t \in plan.remove : RemoveStale(t)
  \/ PruneAncestor
  \/ \E p \in Path : StageStuck(p)

Finish == WriteRecord \/ Commit \/ DiscardJournal \/ UndoStep \/ Unwound
            \/ RecordAfterReset

\* What the process does by itself once a run has started.
RunStep == StageStep \/ Finish

Start ==
  \/ \E m \in Manifests, mod \in Modifiers : StartApply(m, mod)
  \/ StartRollback
  \/ \E T \in SUBSET DOMAIN Baseline : StartReset(T)

Failure == StageFault \/ PruneFault \/ CommitFault \/ ResetFault \/ ResetRecordFault

UserStep ==
  \E p \in UserPath :
    \/ \E u \in User : UserWrite(p, u)
    \/ UserMkdir(p)
    \/ \E d \in Foreign : UserRelink(p, d)
    \/ UserDelete(p)

Next == Start \/ AnswerReset \/ RunStep \/ Failure \/ Crash \/ UserStep

Spec == Init /\ [][Next]_vars

\* A started run is a process that keeps running; nobody has to start one, or to
\* answer a reset.
FairSpec == Spec /\ WF_vars(RunStep)

-----------------------------------------------------------------------------
(* Properties.                                                              *)

IsRecord(r) ==
  \/ r = NoRecord
  \/ r = [man |-> r.man, farm |-> r.farm] /\ IsManifest(r.man) /\ r.farm \in Manifests

IsRun(r) ==
  /\ r = [op |-> r.op, next |-> r.next, base |-> r.base, farm |-> r.farm,
          backup |-> r.backup, recopy |-> r.recopy, skip |-> r.skip,
          selected |-> r.selected]
  /\ r.op \in {"none", "apply", "rollback", "reset"}
  /\ IsManifest(r.next) /\ IsManifest(r.base) /\ r.farm \in Manifests \cup {None}
  /\ r.backup \in BOOLEAN /\ r.recopy \in BOOLEAN /\ r.skip \in BOOLEAN
  /\ r.selected \subseteq Target

\* The values the variables of the engine and of the profile range over.
TypeOK ==
  /\ fs \in Tree /\ before \in Tree
  /\ IsRecord(record)
  /\ gens \in Seq(Manifests) /\ cur \in 0 .. Len(gens)
  /\ pending \in Manifests \cup {None}
  /\ phase \in {"idle", "stages", "commit", "discard", "unwind", "teardown"}
  /\ IsRun(run)
  /\ plan \in Plan
  /\ mid \in {NoMid, Asking} \/ mid \in [step : {"relink", "aside", "copy", "prune"}, path : Path]
  /\ journal \in Seq(UndoOp)
  /\ outcome \in {"none", "running", "refused", "unwound", "interrupted", "done"}
  /\ owned \subseteq User
  /\ spent \in [faults : Nat, crashes : Nat, edits : Nat]

\* What the user wrote is still somewhere in the tree unless the user deleted
\* it, or agreed to lose it by --recopy or by confirming a reset: no apply,
\* rollback, reset, unwinding or crash destroys it (README.md:492, "never
\* overwrites your file"; planner.go classifyCopy, copy.go, reset.go).
UserDataKept == \A u \in owned : \E p \in Path : fs[p] = FileOf(u)

AsidePath == UNION {At(AsideOf[t]) : t \in Target}

\* When a failed stage has been unwound, everything that was there before the
\* run is there again, and what the run leaves behind is empty directories
\* (undo.go unwind; place.go says the directories are not journaled).  An aside
\* that an earlier failed commit left is layat's own scratch and may be gone.
UnwindRestores ==
  phase = "unwind" /\ journal = << >> =>
    \A p \in Path \ AsidePath :
      IF Exists(before, p) THEN fs[p] = before[p] ELSE fs[p] \in {Absent, Dir}

\* A run writes its manifest as last applied only when every entry of it is in
\* place: links point at their source, copies exist, and under --recopy they
\* are fresh (engine.go Apply, stages before recordPlacement).
PlacedWhenRecorded ==
  In("record") =>
    \A t \in DOMAIN run.next :
      IF run.next[t].method = "symlink" THEN fs[t] = LinkTo(run.next[t].src)
      ELSE /\ Exists(fs, t)
           /\ run.recopy => HoldsCopy(fs, run.next[t].src, t)

\* By then no link of the baseline that the new manifest drops is left, a
\* repair under a generation skip included (staleremove.go removeStale,
\* drift.go repairDrift, which removes nothing).
StaleGone ==
  In("record") =>
    \A t \in Symlinks(run.base) \ DOMAIN run.next : fs[t] # LinkTo(run.base[t].src)

\* A symlink somebody else made disappears only where the new manifest places
\* a link over it, where --recopy copies over it (or over the aside a failed
\* commit left behind), or into a backup (planner.go Compute, copy.go).
ForeignLinksKept ==
  In("record") =>
    \A p \in Path :
      IsLink(before, p) /\ before[p].val \in Foreign /\ fs[p] # before[p] =>
        \/ p \in Symlinks(run.next)
        \/ run.recopy /\ p \in AsidePath \cup UNION {At(t) : t \in Copies(run.next)}
        \/ run.backup /\ \E q \in Path : q # p /\ fs[q] = before[p]

\* Between runs, every link layat made at a target is named by the baseline, so
\* that a later run can replace or remove it: failing stages, a failing commit
\* and a partial reset forget none (record.go, reset.go recordAfterReset).  Only
\* a crash, which loses the journal, leaves links that no record names.
EveryLinkKnown ==
  phase = "idle" /\ spent.crashes = 0 =>
    \A t \in Target :
      IsLink(fs, t) /\ fs[t].val \in Src => RecordedLink(fs, Baseline, t)

\* An apply that a crash or a failing commit interrupted is not refused when it
\* is run again on the tree as it was left ("re-apply converges", engine.go:330).
ReapplyNotRefused ==
  phase = "idle" /\ outcome = "interrupted" /\ run.op = "apply" =>
    LET p == Compute(fs, Baseline, run.next, run.backup)
    IN p.conflicts = {} /\ ~p.failed

\* The profile moves to a generation only after the record names it: a crash
\* between the two leaves a record that is ahead, never behind (engine.go 8.5
\* and 9, generations.go 7).
PointerFollowsRecord ==
  [][gens' # gens \/ cur' # cur => /\ record # NoRecord
                                   /\ cur' \in DOMAIN gens'
                                   /\ record.farm = gens'[cur']]_vars

\* A run that started comes to its end, with the lock released: it is done,
\* unwound, refused or interrupted.  Only the prompt of a reset may keep it: from
\* the answer on, a reset comes to its end like any run.
RunsEnd == phase # "idle" ~> phase = "idle" \/ mid = Asking

\* The record and the generations are a profile (Profile.tla): only what is
\* recorded as applied is committed or switched to, in one step and under a new
\* number; a rollback deletes and rewrites no generation; no placement, reset,
\* failure or crash moves the profile (engine.go 8.5 and 9, generations.go 7,
\* reset.go, which is "FS-only").
Prof == INSTANCE Profile WITH
          Farm <- Manifests, applied <- record.farm, kept <- gens, current <- cur

KeepsProfile == Prof!StrictSpec
=============================================================================
