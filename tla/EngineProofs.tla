----------------------------- MODULE EngineProofs -----------------------------
(***************************************************************************)
(* Theorems about Engine, for every value of its constants: its types, the *)
(* record and the profile, and what the runs leave in the tree, for any    *)
(* tree the user made, and any failures and crashes.                       *)
(***************************************************************************)
EXTENDS Engine, PlannerProofs

\* What a run carries from its start to its end, and the types alone do not say:
\* the stages place entries of the run's manifest, a rollback has a generation
\* to go back to, and the record is written before the profile moves.
RunFits ==
  /\ phase = "stages" => plan.new \cup Relinks \cup plan.copies \subseteq DOMAIN run.next
  /\ phase \in {"stages", "commit"} =>
       /\ run.op \in {"apply", "rollback"} /\ run.farm \in Manifests
       /\ run.op = "rollback" => cur > 1 /\ run.farm = gens[cur - 1]
  /\ phase = "teardown" => run.farm \in Manifests
  /\ phase = "commit" => record = [man |-> run.next, farm |-> run.farm]

IInv == TypeOK /\ RunFits

-----------------------------------------------------------------------------
LEMMA NoEntriesManifest == IsManifest(NoEntries)
BY DEF NoEntries, IsManifest

LEMMA NoRunIsRun == IsRun(NoRun)
BY NoEntriesManifest DEF NoRun, IsRun

LEMMA NoPlanPlan == NoPlan \in Plan
BY DEF NoPlan, Plan

LEMMA BaselineType ==
  ASSUME IInv
  PROVE  /\ IsManifest(Baseline)
         /\ HasBaseline => BaselineFarm \in Manifests
         /\ BaselineFarm \in Manifests \cup {None}
BY NoEntriesManifest, EngineAssumption
   DEF IInv, TypeOK, IsRecord, Baseline, BaselineFarm, HasBaseline

LEMMA RestrictManifest ==
  ASSUME NEW m, IsManifest(m), NEW T, T \subseteq DOMAIN m
  PROVE  IsManifest(Restrict(m, T)) /\ DOMAIN Restrict(m, T) = T
BY DEF IsManifest, Restrict

LEMMA InitIInv == Init => IInv
BY NoRunIsRun, NoPlanPlan, NodeTypes
   DEF Init, IInv, TypeOK, RunFits, IsRecord, Tree, NoRun, NoRecord

LEMMA IInvStutter == IInv /\ UNCHANGED vars => IInv'
BY DEF IInv, TypeOK, RunFits, vars, profileVars, engineVars, ghostVars, Relinks

-----------------------------------------------------------------------------
(* One lemma for each way a step changes the state. *)

LEMMA RefuseKeeps ==
  ASSUME IInv, UNCHANGED <<record, gens, cur>>, pending' \in Manifests \cup {None}, Refuse
  PROVE  IInv'
BY NoRunIsRun, NoPlanPlan
   DEF IInv, TypeOK, RunFits, Refuse, End, NoRun, IsRecord

LEMMA BeginKeeps ==
  ASSUME IInv, NEW r, IsRun(r), NEW p \in Plan, NEW C, NEW ph \in {"stages", "unwind", "teardown"},
         UNCHANGED <<record, gens, cur>>, pending' \in Manifests \cup {None},
         Begin(r, p, C, ph),
         ph = "stages" =>
           /\ p.new \cup (p.replace \cup p.foreign) \cup p.copies \subseteq DOMAIN r.next
           /\ r.op \in {"apply", "rollback"} /\ r.farm \in Manifests
           /\ r.op = "rollback" => cur > 1 /\ r.farm = gens[cur - 1],
         ph = "teardown" => r.farm \in Manifests
  PROVE  IInv'
BY DEF IInv, TypeOK, RunFits, Begin, IsRecord, Relinks

LEMMA AskKeeps ==
  ASSUME IInv, NEW r, IsRun(r), NEW p \in Plan, UNCHANGED profileVars, Ask(r, p),
         r.farm \in Manifests
  PROVE  IInv'
BY DEF IInv, TypeOK, RunFits, Ask, IsRecord, Relinks, profileVars

LEMMA AnswerResetKeeps ==
  ASSUME IInv, AnswerReset
  PROVE  IInv'
<1>1. CASE UNCHANGED profileVars /\ Refuse
  BY <1>1, RefuseKeeps DEF IInv, TypeOK, profileVars
<1>2. CASE ~(UNCHANGED profileVars /\ Refuse)
  BY <1>2 DEF AnswerReset, IInv, TypeOK, RunFits, IsRecord, Relinks, profileVars
<1> QED BY <1>1, <1>2

LEMMA StartApplyKeeps ==
  ASSUME IInv, NEW m \in Manifests, NEW mod \in Modifiers, StartApply(m, mod)
  PROVE  IInv'
<1> DEFINE r == [op |-> "apply", next |-> m, base |-> Baseline, farm |-> m,
                 backup |-> mod.backup, recopy |-> mod.recopy,
                 skip |-> SkipsGeneration(m), selected |-> {}]
           consented == IF mod.recopy THEN UNION {At(t) : t \in Copies(m)} ELSE {}
<1>1. UNCHANGED <<record, gens, cur>> /\ pending' \in Manifests \cup {None}
  BY DEF StartApply
<1>2. IsManifest(m) /\ IsManifest(Baseline) /\ m \in Manifests \cup {None}
      /\ mod.backup \in BOOLEAN /\ mod.recopy \in BOOLEAN
  BY EngineAssumption, BaselineType
<1>3. IsRun(r)
  BY <1>2 DEF IsRun, SkipsGeneration
<1>4. PICK p \in {WithRecopy(Compute(fs, Baseline, m, mod.backup), m, mod.recopy)} :
        \/ Refuse
        \/ Begin(r, p, consented, "stages")
        \/ Begin(r, NoPlan, {}, "unwind")
        \/ Begin(r, Repairs(p), consented, "stages")
  BY Zenon DEF StartApply
<1>5. p \in Plan /\ p.new \cup p.replace \cup p.foreign \cup p.copies \subseteq DOMAIN m
  <2> DEFINE c == Compute(fs, Baseline, m, mod.backup)
  <2>1. c \in Plan /\ c.new \cup c.replace \cup c.foreign \cup c.copies \subseteq DOMAIN m
    BY <1>2, ComputeType DEF IInv, TypeOK
  <2>2. p = WithRecopy(c, m, mod.recopy)
    BY <1>4
  <2> HIDE DEF c
  <2> QED BY <2>1, <2>2, <1>2, ManifestTypes DEF WithRecopy, Plan
<1>6. CASE Refuse
  BY <1>1, <1>6, RefuseKeeps
<1>7. r.next = m /\ r.op = "apply" /\ r.farm = m
  OBVIOUS
<1> HIDE DEF r, consented
<1>8. CASE Begin(r, p, consented, "stages")
  BY <1>1, <1>3, <1>5, <1>7, <1>8, BeginKeeps
<1>9. CASE Begin(r, NoPlan, {}, "unwind")
  BY <1>1, <1>3, <1>7, <1>9, BeginKeeps, NoPlanPlan
<1>10. CASE Begin(r, Repairs(p), consented, "stages")
  <2> DEFINE q == Repairs(p)
  <2>1. q \in Plan /\ q.new \cup (q.replace \cup q.foreign) \cup q.copies \subseteq DOMAIN m
    BY <1>5 DEF Plan, Repairs
  <2> HIDE DEF q
  <2> QED BY <1>1, <1>3, <1>7, <1>10, <2>1, BeginKeeps DEF q
<1> QED BY <1>4, <1>6, <1>8, <1>9, <1>10

LEMMA StartRollbackKeeps ==
  ASSUME IInv, StartRollback
  PROVE  IInv'
<1> DEFINE m == gens[cur - 1]
           r == [op |-> "rollback", next |-> m, base |-> Baseline, farm |-> m,
                 backup |-> FALSE, recopy |-> FALSE, skip |-> FALSE, selected |-> {}]
<1>1. UNCHANGED <<record, gens, cur, pending>> /\ cur > 1
  BY DEF StartRollback, profileVars
<1>2. m \in Manifests /\ IsManifest(m) /\ IsManifest(Baseline)
      /\ pending' \in Manifests \cup {None}
  BY <1>1, EngineAssumption, BaselineType DEF IInv, TypeOK
<1>3. IsRun(r)
  BY <1>2 DEF IsRun
<1>4. PICK p \in {Compute(fs, Baseline, m, FALSE)} : Refuse \/ Begin(r, p, {}, "stages")
  BY DEF StartRollback
<1>5. p \in Plan /\ p.new \cup (p.replace \cup p.foreign) \cup p.copies \subseteq DOMAIN m
  <2>1. fs \in Tree /\ p = Compute(fs, Baseline, m, FALSE)
    BY <1>4 DEF IInv, TypeOK
  <2> HIDE DEF m
  <2>2. p \in Plan /\ p.new \cup p.replace \cup p.foreign \cup p.copies \subseteq DOMAIN m
    BY <1>2, <2>1, ComputeType
  <2> QED BY <2>2
<1>6. CASE Refuse
  BY <1>1, <1>2, <1>6, RefuseKeeps
<1>7. r.next = m /\ r.op = "rollback" /\ r.farm = gens[cur - 1]
  OBVIOUS
<1>8. CASE Begin(r, p, {}, "stages")
  <2> HIDE DEF r, m
  <2> QED BY <1>1, <1>2, <1>3, <1>5, <1>7, <1>8, BeginKeeps DEF m
<1> QED BY <1>4, <1>6, <1>8

LEMMA StartResetKeeps ==
  ASSUME IInv, NEW T, StartReset(T)
  PROVE  IInv'
<1> DEFINE sel == Restrict(Baseline, T)
           r == [op |-> "reset", next |-> NoEntries, base |-> Baseline,
                 farm |-> BaselineFarm, backup |-> FALSE, recopy |-> FALSE,
                 skip |-> FALSE, selected |-> T]
           links == Restrict(sel, Symlinks(sel))
<1>1. UNCHANGED <<record, gens, cur, pending>> /\ HasBaseline /\ T \subseteq DOMAIN Baseline
  BY DEF StartReset, profileVars
<1>2. /\ IsManifest(Baseline) /\ BaselineFarm \in Manifests
      /\ pending' \in Manifests \cup {None}
  BY <1>1, BaselineType DEF IInv, TypeOK
<1>3. IsManifest(sel) /\ DOMAIN sel = T
  BY <1>1, <1>2, RestrictManifest
<1>4. T \subseteq Target
  BY <1>1, <1>2, ManifestTypes
<1>5. IsManifest(links)
  BY <1>3, RestrictManifest, ManifestTypes
<1>6. IsRun(r)
  BY <1>2, <1>4, NoEntriesManifest DEF IsRun
<1>7. PICK p \in {Compute(fs, links, NoEntries, FALSE)} :
        \/ Refuse
        \/ \E q \in {[p EXCEPT !.copies = {t \in Copies(sel) : Exists(fs, t)}]} :
             Ask(r, q) \/ \E C : Begin(r, q, C, "teardown")
  BY Zenon DEF StartReset
<1>8. p \in Plan
  <2>1. fs \in Tree /\ p = Compute(fs, links, NoEntries, FALSE)
    BY <1>7 DEF IInv, TypeOK
  <2> HIDE DEF links
  <2> QED BY <1>5, <2>1, ComputeType, NoEntriesManifest
<1>9. [p EXCEPT !.copies = {t \in Copies(sel) : Exists(fs, t)}] \in Plan
  BY <1>8, <1>3, <1>4 DEF Plan, Copies
<1>10. CASE Refuse
  BY <1>1, <1>2, <1>10, RefuseKeeps
<1>11. r.farm \in Manifests
  BY <1>2
<1>12. ASSUME NEW q \in Plan, Ask(r, q) \/ \E C : Begin(r, q, C, "teardown")
       PROVE  IInv'
  <2> HIDE DEF r
  <2>1. CASE Ask(r, q)
    BY <1>1, <1>6, <1>11, <2>1, AskKeeps DEF profileVars
  <2>2. ASSUME NEW C, Begin(r, q, C, "teardown")
        PROVE  IInv'
    BY <1>1, <1>2, <1>6, <1>11, <2>2, BeginKeeps
  <2> QED BY <1>12, <2>1, <2>2
<1> HIDE DEF r
<1> QED BY <1>7, <1>9, <1>10, <1>12

-----------------------------------------------------------------------------
(* The stages. *)

LEMMA TargetsArePaths == Target \subseteq Path
BY TargetAssumption

LEMMA JournalType ==
  ASSUME journal \in Seq(UndoOp), NEW kind \in UndoKind, NEW p \in Path, NEW d \in Val
  PROVE  /\ Journal(kind, p) \in Seq(UndoOp)
         /\ JournalRelink(p, d) \in Seq(UndoOp)
<1>1. /\ [kind |-> kind, path |-> p, dest |-> None] \in UndoOp
      /\ [kind |-> "relinkOld", path |-> p, dest |-> d] \in UndoOp
  BY DEF UndoOp, UndoKind, Val
<1> QED BY <1>1 DEF Journal, JournalRelink

\* The sources a manifest names.
LEMMA SourceType ==
  ASSUME NEW m, IsManifest(m), NEW t \in DOMAIN m
  PROVE  m[t].src \in Src /\ m[t].src \in Val
BY ManifestTypes

\* A step that writes: it changes the tree, the rest of the plan, the journal and mid.
LEMMA WriteKeeps ==
  ASSUME IInv, Writes, fs' \in Tree, journal' \in Seq(UndoOp), plan' \in Plan,
         plan'.new \subseteq plan.new, plan'.copies \subseteq plan.copies,
         plan'.replace \cup plan'.foreign \subseteq plan.replace \cup plan.foreign,
         mid' \in {NoMid, Asking}
         \/ mid' \in [step : {"relink", "aside", "copy", "prune"}, path : Path]
  PROVE  IInv'
BY DEF IInv, TypeOK, RunFits, Writes, profileVars, ghostVars, Relinks, IsRecord

LEMMA PreRemoveKeeps ==
  ASSUME IInv, NEW p, PreRemoveUnlink(p) \/ PreRemoveRmdir(p)
  PROVE  IInv'
<1>1. CASE PreRemoveUnlink(p)
  <2>1. p \in Path /\ p \in DOMAIN run.base /\ IsManifest(run.base)
    BY <1>1 DEF PreRemoveUnlink, IInv, TypeOK, Plan, RecordedLink, IsRun
  <2>2. fs' \in Tree
    BY <1>1, <2>1, PutTree, NodeTypes DEF PreRemoveUnlink, IInv, TypeOK
  <2>3. journal' \in Seq(UndoOp)
    BY <1>1, <2>1, JournalType, SourceType DEF PreRemoveUnlink, IInv, TypeOK, UndoKind
  <2>4. plan' = [plan EXCEPT !.unlink = @ \ {p}] /\ plan \in Plan /\ mid' = mid /\ Writes
    BY <1>1 DEF PreRemoveUnlink, IInv, TypeOK
  <2>5. plan' \in Plan
    BY <2>4, PlanShrinks
  <2> QED BY <2>2, <2>3, <2>4, <2>5, WriteKeeps DEF IInv, TypeOK, Plan
<1>2. CASE PreRemoveRmdir(p)
  <2>1. p \in Path
    BY <1>2 DEF PreRemoveRmdir, IInv, TypeOK, Plan
  <2>2. fs' \in Tree
    BY <1>2, <2>1, PutTree, NodeTypes DEF PreRemoveRmdir, IInv, TypeOK
  <2>3. journal' \in Seq(UndoOp)
    <3>1. Journal("mkdir", p) \in Seq(UndoOp)
      BY <2>1, JournalType DEF IInv, TypeOK, UndoKind, Val
    <3> QED BY <1>2, <3>1 DEF PreRemoveRmdir, IInv, TypeOK
  <2>4. plan' = [plan EXCEPT !.rmdir = @ \ {p}] /\ plan \in Plan /\ mid' = mid /\ Writes
    BY <1>2 DEF PreRemoveRmdir, IInv, TypeOK
  <2>5. plan' \in Plan
    BY <2>4, PlanShrinks
  <2> QED BY <2>2, <2>3, <2>4, <2>5, WriteKeeps DEF IInv, TypeOK, Plan
<1> QED BY <1>1, <1>2

LEMMA BackUpKeeps ==
  ASSUME IInv, NEW t, BackUp(t)
  PROVE  IInv'
<1>1. t \in Path
  BY TargetsArePaths DEF BackUp, IInv, TypeOK, Plan
<1>2. fs' \in Tree
  BY RenameTree DEF BackUp, IInv, TypeOK
<1>3. journal' \in Seq(UndoOp)
  BY <1>1, JournalType DEF BackUp, IInv, TypeOK, UndoKind, Val
<1>4. plan' = [plan EXCEPT !.backup = @ \ {t}] /\ plan \in Plan /\ mid' = mid /\ Writes
  BY DEF BackUp, IInv, TypeOK
<1>5. plan' \in Plan
  BY <1>4, PlanShrinks
<1> QED BY <1>2, <1>3, <1>4, <1>5, WriteKeeps DEF IInv, TypeOK, Plan

LEMMA PlaceNewKeeps ==
  ASSUME IInv, NEW t, PlaceNew(t)
  PROVE  IInv'
<1>1. t \in Path /\ t \in DOMAIN run.next /\ IsManifest(run.next)
  BY TargetsArePaths DEF PlaceNew, In, IInv, TypeOK, RunFits, Plan, IsRun
<1>2. fs' \in Tree
  <2>1. Mkdirs(fs, t) \in Tree /\ LinkTo(run.next[t].src) \in Node
    BY <1>1, MkdirsTree, SourceType, NodeTypes DEF IInv, TypeOK
  <2> QED BY <2>1, PutTree DEF PlaceNew
<1>3. journal' \in Seq(UndoOp)
  BY <1>1, JournalType DEF PlaceNew, IInv, TypeOK, UndoKind, Val
<1>4. plan' = [plan EXCEPT !.new = @ \ {t}] /\ plan \in Plan /\ mid' = mid /\ Writes
  BY DEF PlaceNew, IInv, TypeOK
<1>5. plan' \in Plan
  BY <1>4, PlanShrinks
<1> QED BY <1>2, <1>3, <1>4, <1>5, WriteKeeps DEF IInv, TypeOK, Plan

LEMMA RelinkKeeps ==
  ASSUME IInv, NEW t \in Relinks, RelinkUnlink(t) \/ RelinkSymlink(t)
  PROVE  IInv'
<1>1. t \in Path /\ plan \in Plan
  BY TargetsArePaths DEF Relinks, IInv, TypeOK, Plan
<1>2. CASE RelinkUnlink(t)
  <2>1. fs' \in Tree
    BY <1>2, PutTree, NodeTypes DEF RelinkUnlink, IInv, TypeOK
  <2>2. fs[t].val \in Val
    BY <1>1 DEF IInv, TypeOK, Tree, Node
  <2>3. journal' \in Seq(UndoOp)
    BY <1>1, <1>2, <2>2, JournalType DEF RelinkUnlink, IInv, TypeOK, UndoKind
  <2>4. /\ plan' = plan /\ Writes
        /\ mid' \in [step : {"relink", "aside", "copy", "prune"}, path : Path]
    BY <1>1, <1>2 DEF RelinkUnlink, Mid
  <2> QED BY <1>1, <2>1, <2>3, <2>4, WriteKeeps
<1>3. CASE RelinkSymlink(t)
  <2>1. t \in DOMAIN run.next /\ IsManifest(run.next)
    BY <1>3 DEF RelinkSymlink, IInv, TypeOK, RunFits, IsRun
  <2>2. fs' \in Tree
    <3>1. LinkTo(run.next[t].src) \in Node
      BY <2>1, SourceType, NodeTypes
    <3> QED BY <1>3, <3>1, PutTree DEF RelinkSymlink, IInv, TypeOK
  <2>3. /\ plan' = [plan EXCEPT !.replace = @ \ {t}, !.foreign = @ \ {t}]
        /\ mid' = NoMid /\ Writes /\ journal' = journal
    BY <1>3 DEF RelinkSymlink
  <2>4. plan' \in Plan
    BY <1>1, <2>3, PlanShrinks
  <2> QED BY <1>1, <2>2, <2>3, <2>4, WriteKeeps DEF IInv, TypeOK, Plan
<1> QED BY <1>2, <1>3

LEMMA RecopyAsideKeeps ==
  ASSUME IInv, NEW t, RecopyAside(t)
  PROVE  IInv'
<1>1. t \in Path /\ plan \in Plan
  BY TargetsArePaths DEF RecopyAside, IInv, TypeOK, Plan
<1>2. fs' \in Tree
  BY RenameTree DEF RecopyAside, IInv, TypeOK
<1>3. journal' \in Seq(UndoOp)
  BY <1>1, JournalType DEF RecopyAside, IInv, TypeOK, UndoKind, Val
<1>4. /\ plan' = plan /\ Writes
      /\ mid' \in [step : {"relink", "aside", "copy", "prune"}, path : Path]
  BY <1>1 DEF RecopyAside, Mid
<1> QED BY <1>1, <1>2, <1>3, <1>4, WriteKeeps

\* What a copy writes.
LEMMA CopyTree ==
  ASSUME NEW f \in Tree, NEW s \in Src, NEW p
  PROVE  BeginCopy(f, s, p) \in Tree /\ EndCopy(f, s, p) \in Tree
<1>1. Dir \in Node /\ FileOf(Partial) \in Node /\ FileOf(s) \in Node
  BY NodeTypes DEF Val
<1> QED BY <1>1, PutTree DEF BeginCopy, EndCopy

\* A copy under way is of an entry of the run's manifest.
LEMMA CopyEntry ==
  ASSUME IInv, phase = "stages", NEW t \in plan.copies
  PROVE  t \in Path /\ run.next[t].src \in Src
<1>1. t \in Path /\ t \in DOMAIN run.next /\ IsManifest(run.next)
  BY TargetsArePaths DEF IInv, TypeOK, RunFits, Plan, IsRun
<1> QED BY <1>1, SourceType

LEMMA CopyStartKeeps ==
  ASSUME IInv, NEW t, CopyStart(t)
  PROVE  IInv'
<1>1. t \in Path /\ run.next[t].src \in Src
  BY CopyEntry DEF CopyStart
<1>2. fs' \in Tree
  BY <1>1, MkdirsTree, CopyTree DEF CopyStart, IInv, TypeOK
<1>3. journal' \in Seq(UndoOp)
  <2>1. Journal("removeCopy", t) \in Seq(UndoOp) /\ journal \in Seq(UndoOp)
    BY <1>1, JournalType DEF IInv, TypeOK, UndoKind, Val
  <2> QED BY <2>1 DEF CopyStart
<1>4. /\ plan' = plan /\ plan \in Plan /\ Writes
      /\ mid' \in [step : {"relink", "aside", "copy", "prune"}, path : Path]
  BY <1>1 DEF CopyStart, Mid, IInv, TypeOK
<1> QED BY <1>2, <1>3, <1>4, WriteKeeps

LEMMA CopyFinishKeeps ==
  ASSUME IInv, NEW t \in plan.copies, CopyFinish(t)
  PROVE  IInv'
<1>1. t \in Path /\ run.next[t].src \in Src
  BY CopyEntry DEF CopyFinish
<1>2. fs' \in Tree
  <2>1. EndCopy(fs, run.next[t].src, t) \in Tree /\ fs \in Tree
    BY <1>1, CopyTree DEF IInv, TypeOK
  <2> QED BY <2>1 DEF CopyFinish
<1>3. /\ plan' = [plan EXCEPT !.copies = @ \ {t}] /\ plan \in Plan
      /\ mid' = NoMid /\ Writes /\ journal' = journal
  BY DEF CopyFinish, IInv, TypeOK
<1>4. plan' \in Plan
  BY <1>3, PlanShrinks
<1> QED BY <1>2, <1>3, <1>4, WriteKeeps DEF IInv, TypeOK, Plan

LEMMA RemoveStaleKeeps ==
  ASSUME IInv, NEW t, RemoveStale(t)
  PROVE  IInv'
<1>1. t \in Path /\ plan \in Plan /\ IsManifest(run.base)
  BY TargetsArePaths DEF RemoveStale, IInv, TypeOK, Plan, IsRun
<1>2. plan' = [plan EXCEPT !.remove = @ \ {t}] /\ Writes
  BY DEF RemoveStale
<1>3. plan' \in Plan
  BY <1>1, <1>2, PlanShrinks
<1>4. fs' \in Tree
  <2>1. Put(fs, t, Absent) \in Tree /\ fs \in Tree
    BY PutTree, NodeTypes DEF IInv, TypeOK
  <2> QED BY <2>1 DEF RemoveStale
<1>5. journal' \in Seq(UndoOp)
  <2>1. CASE StillStale(t) /\ journal' = JournalRelink(t, run.base[t].src)
    <3>1. run.base[t].src \in Val
      BY <1>1, <2>1, SourceType DEF StillStale, RecordedLink
    <3> QED BY <1>1, <2>1, <3>1, JournalType DEF IInv, TypeOK, UndoKind
  <2>2. CASE journal' = journal
    BY <2>2 DEF IInv, TypeOK
  <2> QED BY <2>1, <2>2 DEF RemoveStale
<1>6. mid' = NoMid \/ mid' \in [step : {"relink", "aside", "copy", "prune"}, path : Path]
  <2>1. Mid("prune", t) \in [step : {"relink", "aside", "copy", "prune"}, path : Path]
    BY <1>1 DEF Mid
  <2> QED BY <2>1 DEF RemoveStale, InStale, In, IInv, TypeOK
<1> QED BY <1>1, <1>2, <1>3, <1>4, <1>5, <1>6, WriteKeeps DEF Plan

LEMMA PruneAncestorKeeps ==
  ASSUME IInv, PruneAncestor
  PROVE  IInv'
<1> DEFINE up == Front(mid.path)
<1>1. plan' = plan /\ plan \in Plan /\ Writes
  BY DEF PruneAncestor, IInv, TypeOK
<1>2. CASE up \in Path /\ CanRemove(fs, up) /\ ~IsLink(fs, up)
  <2>1. /\ fs' = Put(fs, up, Absent) /\ journal' = Journal("mkdir", up)
        /\ mid' = Mid("prune", up)
    BY <1>2 DEF PruneAncestor
  <2> HIDE DEF up
  <2>2. fs' \in Tree
    BY <2>1, PutTree, NodeTypes DEF IInv, TypeOK
  <2>3. journal' \in Seq(UndoOp)
    BY <1>2, <2>1, JournalType DEF IInv, TypeOK, UndoKind, Val
  <2>4. mid' \in [step : {"relink", "aside", "copy", "prune"}, path : Path]
    BY <1>2, <2>1 DEF Mid
  <2> QED BY <1>1, <2>2, <2>3, <2>4, WriteKeeps
<1>3. CASE ~(up \in Path /\ CanRemove(fs, up) /\ ~IsLink(fs, up))
  <2>1. mid' = NoMid /\ fs' = fs /\ journal' = journal
    BY <1>3 DEF PruneAncestor
  <2> QED BY <1>1, <2>1, WriteKeeps DEF IInv, TypeOK
<1> QED BY <1>2, <1>3

LEMMA ResetCopyKeeps ==
  ASSUME IInv, NEW t, ResetCopy(t)
  PROVE  IInv'
<1>1. t \in Path /\ plan \in Plan
  BY TargetsArePaths DEF ResetCopy, IInv, TypeOK, Plan
<1>2. fs' \in Tree
  BY ClearTree DEF ResetCopy, IInv, TypeOK
<1>3. /\ plan' = [plan EXCEPT !.copies = @ \ {t}] /\ Writes /\ journal' = journal
      /\ mid' \in [step : {"relink", "aside", "copy", "prune"}, path : Path]
  BY <1>1 DEF ResetCopy, Mid
<1>4. plan' \in Plan
  BY <1>1, <1>3, PlanShrinks
<1> QED BY <1>1, <1>2, <1>3, <1>4, WriteKeeps DEF IInv, TypeOK, Plan

-----------------------------------------------------------------------------
(* Failing, unwinding and ending.                                           *)

\* A step that fails a stage, whatever it leaves in the tree and the journal.
LEMMA FailKeeps ==
  ASSUME IInv, fs' \in Tree, journal' \in Seq(UndoOp),
         phase' = "unwind", mid' = NoMid, plan' = NoPlan,
         UNCHANGED <<run, profileVars, outcome, before, owned>>,
         spent' \in [faults : Nat, crashes : Nat, edits : Nat]
  PROVE  IInv'
BY NoPlanPlan DEF IInv, TypeOK, RunFits, profileVars, IsRecord

LEMMA FaultType ==
  ASSUME IInv, Fault
  PROVE  spent' \in [faults : Nat, crashes : Nat, edits : Nat]
BY DEF IInv, TypeOK, Fault

LEMMA StageStuckKeeps ==
  ASSUME IInv, NEW p, StageStuck(p)
  PROVE  IInv'
<1>1. UNCHANGED <<fs, spent>> /\ Fails
  BY DEF StageStuck
<1> QED BY <1>1, FailKeeps DEF Fails, IInv, TypeOK

LEMMA CopyStuckKeeps ==
  ASSUME IInv, NEW t, CopyStuck(t)
  PROVE  IInv'
<1>1. t \in Path
  BY TargetsArePaths DEF CopyStuck, IInv, TypeOK, Plan
<1>2. fs' \in Tree
  <2>1. Mkdirs(fs, t) \in Tree /\ fs \in Tree
    BY MkdirsTree DEF IInv, TypeOK
  <2> QED BY <2>1 DEF CopyStuck
<1>3. journal' \in Seq(UndoOp)
  <2>1. Journal("removeCopy", t) \in Seq(UndoOp) /\ journal \in Seq(UndoOp)
    BY <1>1, JournalType DEF IInv, TypeOK, UndoKind, Val
  <2> QED BY <2>1 DEF CopyStuck
<1> QED BY <1>2, <1>3, FailKeeps DEF CopyStuck, ghostVars, IInv, TypeOK

LEMMA StageFaultKeeps ==
  ASSUME IInv, StageFault
  PROVE  IInv'
<1>1. fs' \in Tree
  BY MkdirsTree DEF StageFault, IInv, TypeOK
<1> QED BY <1>1, FailKeeps, FaultType DEF StageFault, Fails, IInv, TypeOK

\* A failure the run survives: it gives up what it was about to do.
LEMMA SurviveKeeps ==
  ASSUME IInv, plan' \in {plan, NoPlan}, mid' \in {mid, NoMid},
         UNCHANGED <<fs, profileVars, phase, run, journal, outcome, before, owned>>,
         spent' \in [faults : Nat, crashes : Nat, edits : Nat]
  PROVE  IInv'
<1>1. TypeOK'
  BY NoPlanPlan DEF IInv, TypeOK, profileVars, IsRecord
<1>2. /\ plan'.new \subseteq plan.new /\ plan'.copies \subseteq plan.copies
      /\ plan'.replace \cup plan'.foreign \subseteq plan.replace \cup plan.foreign
  <2>1. CASE plan' = plan
    BY <2>1
  <2>2. CASE plan' = NoPlan
    BY <2>2 DEF NoPlan
  <2> QED BY <2>1, <2>2
<1>3. RunFits'
  BY <1>2 DEF IInv, RunFits, profileVars, Relinks
<1> QED BY <1>1, <1>3 DEF IInv

LEMMA UndoTree ==
  ASSUME NEW f \in Tree, NEW op \in UndoOp
  PROVE  Undo(f, op) \in Tree
<1> DEFINE p == op.path
           removed == IF CanRemove(f, p) THEN Put(f, p, Absent) ELSE f
<1>1. op.kind \in UndoKind /\ op.dest \in Val
  BY DEF UndoOp
<1>2. removed \in Tree
  BY PutTree, NodeTypes
<1>3. Put(removed, p, LinkTo(op.dest)) \in Tree /\ Put(f, p, Dir) \in Tree
  BY <1>1, <1>2, PutTree, NodeTypes
<1>4. Clear(f, p) \in Tree
  BY ClearTree
<1>5. \A q : BringBack(f, q, p) \in Tree
  BY <1>4, RenameTree DEF BringBack
<1> HIDE DEF removed
<1> QED BY <1>1, <1>2, <1>3, <1>4, <1>5 DEF Undo, UndoKind, removed

LEMMA UndoStepKeeps ==
  ASSUME IInv, UndoStep
  PROVE  IInv'
<1>1. journal \in Seq(UndoOp) /\ journal # << >>
  BY DEF UndoStep, IInv, TypeOK
<1>2. Last(journal) \in UndoOp /\ Front(journal) \in Seq(UndoOp)
  BY <1>1 DEF Last, Front
<1>3. fs' \in Tree /\ journal' \in Seq(UndoOp)
  BY <1>2, UndoTree DEF UndoStep, IInv, TypeOK
<1> QED BY <1>3 DEF UndoStep, IInv, TypeOK, RunFits, profileVars, ghostVars, IsRecord, Relinks

\* The run is over.
LEMMA EndKeeps ==
  ASSUME IInv,
         NEW how \in {"refused", "unwound", "interrupted", "done"},
         NEW keep, IsRun(keep), End(how, keep),
         fs' \in Tree, IsRecord(record)', UNCHANGED <<gens, cur>>,
         pending' \in Manifests \cup {None}, owned' = owned,
         spent' \in [faults : Nat, crashes : Nat, edits : Nat]
  PROVE  IInv'
BY NoPlanPlan DEF IInv, TypeOK, RunFits, End

LEMMA UnwoundKeeps ==
  ASSUME IInv, Unwound
  PROVE  IInv'
<1>1. End("unwound", NoRun) /\ UNCHANGED <<fs, record, gens, cur, pending, owned, spent>>
  BY DEF Unwound, profileVars
<1> QED BY <1>1, EndKeeps, NoRunIsRun DEF IInv, TypeOK, IsRecord

LEMMA WriteRecordKeeps ==
  ASSUME IInv, WriteRecord
  PROVE  IInv'
<1>1. /\ run.farm \in Manifests /\ IsManifest(run.next) /\ run.op \in {"apply", "rollback"}
      /\ run.op = "rollback" => cur > 1 /\ run.farm = gens[cur - 1]
  BY DEF WriteRecord, In, IInv, TypeOK, RunFits, IsRun
<1>2. IsRecord(record)'
  BY <1>1 DEF WriteRecord, IsRecord
<1>3. phase' \in {"commit", "discard"}
  BY DEF WriteRecord
<1>4. TypeOK'
  BY <1>2, <1>3 DEF WriteRecord, ghostVars, IInv, TypeOK
<1>5. RunFits'
  BY <1>1, <1>3 DEF WriteRecord, RunFits
<1> QED BY <1>4, <1>5 DEF IInv

LEMMA CommitKeeps ==
  ASSUME IInv, Commit
  PROVE  IInv'
<1>1. run.farm \in Manifests /\ run.op \in {"apply", "rollback"}
      /\ (run.op = "rollback" => cur > 1)
  BY DEF Commit, IInv, RunFits
<1>2. gens' \in Seq(Manifests) /\ cur' \in 0 .. Len(gens')
  <2>1. gens \in Seq(Manifests) /\ Len(gens) \in Nat /\ cur \in 0 .. Len(gens)
    BY DEF IInv, TypeOK
  <2>2. CASE run.op = "apply"
    <3>1. gens' = Append(gens, run.farm) /\ cur' = Len(gens) + 1
      BY <2>2 DEF Commit
    <3>2. gens' \in Seq(Manifests) /\ Len(gens') = Len(gens) + 1
      BY <1>1, <2>1, <3>1
    <3> QED BY <2>1, <3>1, <3>2
  <2>3. CASE run.op = "rollback"
    <3>1. gens' = gens /\ cur' = cur - 1 /\ cur > 1
      BY <1>1, <2>3 DEF Commit
    <3> QED BY <2>1, <3>1
  <2> QED BY <1>1, <2>2, <2>3
<1>3. TypeOK'
  BY <1>2 DEF Commit, ghostVars, IInv, TypeOK, IsRecord
<1>4. RunFits'
  BY DEF Commit, RunFits
<1> QED BY <1>3, <1>4 DEF IInv

LEMMA DiscardJournalKeeps ==
  ASSUME IInv, DiscardJournal
  PROVE  IInv'
<1>1. fs' \in Tree
  <2>1. fs \in Tree
    BY DEF IInv, TypeOK
  <2>2. Absent \in Node
    BY NodeTypes
  <2> QED BY <2>1, <2>2 DEF DiscardJournal, Tree
<1>2. /\ End("done", NoRun) /\ UNCHANGED <<record, gens, cur, owned, spent>>
      /\ pending' \in Manifests \cup {None}
  BY DEF DiscardJournal, IInv, TypeOK
<1> QED BY <1>1, <1>2, EndKeeps, NoRunIsRun DEF IInv, TypeOK, IsRecord

LEMMA RecordAfterResetKeeps ==
  ASSUME IInv, RecordAfterReset
  PROVE  IInv'
<1> DEFINE left == DOMAIN run.base \ Gone
<1>1. IsManifest(run.base) /\ run.farm \in Manifests
  BY DEF RecordAfterReset, IInv, TypeOK, RunFits, IsRun
<1>2. IsManifest(Restrict(run.base, left))
  BY <1>1, RestrictManifest
<1>3. IsRecord(record)'
  BY <1>1, <1>2 DEF RecordAfterReset, IsRecord
<1>4. End("done", NoRun) /\ UNCHANGED <<fs, gens, cur, pending, owned, spent>>
  BY DEF RecordAfterReset
<1> QED BY <1>3, <1>4, EndKeeps, NoRunIsRun DEF IInv, TypeOK

LEMMA InterruptedKeeps ==
  ASSUME IInv, CommitFault \/ ResetRecordFault \/ Crash
  PROVE  IInv'
<1>1. PICK keep \in {run, NoRun} : End("interrupted", keep)
  BY DEF CommitFault, ResetRecordFault, Crash
<1>2. IsRun(keep)
  BY NoRunIsRun DEF IInv, TypeOK
<1>3. UNCHANGED <<fs, record, gens, cur, pending, owned>>
  BY DEF CommitFault, ResetRecordFault, Crash, profileVars
<1>4. spent' \in [faults : Nat, crashes : Nat, edits : Nat]
  BY FaultType DEF CommitFault, ResetRecordFault, Crash, IInv, TypeOK
<1> QED BY <1>1, <1>2, <1>3, <1>4, EndKeeps DEF IInv, TypeOK, IsRecord

LEMMA FailureKeeps ==
  ASSUME IInv, PruneFault \/ ResetFault
  PROVE  IInv'
<1>1. CASE PruneFault
  BY <1>1, SurviveKeeps, FaultType DEF PruneFault
<1>2. CASE ResetFault
  BY <1>2, SurviveKeeps, FaultType DEF ResetFault
<1> QED BY <1>1, <1>2

LEMMA UserKeeps ==
  ASSUME IInv, UserStep
  PROVE  IInv'
<1>1. fs' \in Tree /\ owned' \subseteq User
  <2>1. fs \in Tree /\ owned \subseteq User
    BY DEF IInv, TypeOK
  <2>2. ASSUME NEW p \in UserPath, NEW u \in User, UserWrite(p, u)
        PROVE  fs' \in Tree /\ owned' \subseteq User
    <3>1. FileOf(u) \in Node
      BY NodeTypes DEF Val
    <3> QED BY <2>1, <2>2, <3>1, PutTree DEF UserWrite
  <2>3. ASSUME NEW p \in UserPath, UserMkdir(p)
        PROVE  fs' \in Tree /\ owned' \subseteq User
    BY <2>1, <2>3, PutTree, NodeTypes DEF UserMkdir
  <2>4. ASSUME NEW p \in UserPath, NEW d \in Foreign, UserRelink(p, d)
        PROVE  fs' \in Tree /\ owned' \subseteq User
    <3>1. LinkTo(d) \in Node
      BY NodeTypes DEF Val
    <3> QED BY <2>1, <2>4, <3>1, PutTree DEF UserRelink
  <2>5. ASSUME NEW p \in UserPath, UserDelete(p)
        PROVE  fs' \in Tree /\ owned' \subseteq User
    BY <2>1, <2>5, ClearTree DEF UserDelete
  <2> QED BY <2>2, <2>3, <2>4, <2>5 DEF UserStep
<1>2. Edited /\ UserMay
  BY DEF UserStep, UserWrite, UserMkdir, UserRelink, UserDelete
<1>3. spent' \in [faults : Nat, crashes : Nat, edits : Nat]
  BY <1>2 DEF UserMay, IInv, TypeOK
<1>4. IsRun(run)' /\ before' \in Tree
      /\ outcome' \in {"none", "running", "refused", "unwound", "interrupted", "done"}
  BY <1>1, <1>2, NoRunIsRun DEF Edited, IInv, TypeOK, IsRun
<1>5. TypeOK'
  BY <1>1, <1>2, <1>3, <1>4 DEF Edited, profileVars, IInv, TypeOK, IsRecord
<1>6. RunFits'
  BY <1>2 DEF Edited, profileVars, IInv, RunFits, Relinks
<1> QED BY <1>5, <1>6 DEF IInv

-----------------------------------------------------------------------------
LEMMA RunStepKeeps ==
  ASSUME IInv, RunStep
  PROVE  IInv'
<1>1. CASE StageStep
  BY <1>1, PreRemoveKeeps, BackUpKeeps, PlaceNewKeeps, RelinkKeeps, RecopyAsideKeeps,
     CopyStartKeeps, CopyFinishKeeps, CopyStuckKeeps, ResetCopyKeeps, RemoveStaleKeeps,
     PruneAncestorKeeps, StageStuckKeeps DEF StageStep
<1>2. CASE Finish
  BY <1>2, WriteRecordKeeps, CommitKeeps, DiscardJournalKeeps, UndoStepKeeps, UnwoundKeeps,
     RecordAfterResetKeeps DEF Finish
<1> QED BY <1>1, <1>2 DEF RunStep

LEMMA NextIInv == IInv /\ [Next]_vars => IInv'
<1> SUFFICES ASSUME IInv, [Next]_vars
             PROVE  IInv'
  OBVIOUS
<1>1. CASE Start
  BY <1>1, StartApplyKeeps, StartRollbackKeeps, StartResetKeeps DEF Start
<1>2. CASE RunStep
  BY <1>2, RunStepKeeps
<1>3. CASE Failure
  BY <1>3, StageFaultKeeps, FailureKeeps, InterruptedKeeps DEF Failure
<1>4. CASE Crash
  BY <1>4, InterruptedKeeps
<1>5. CASE UserStep
  BY <1>5, UserKeeps
<1>6. CASE UNCHANGED vars
  BY <1>6, IInvStutter
<1>7. CASE AnswerReset
  BY <1>7, AnswerResetKeeps
<1> QED BY <1>1, <1>2, <1>3, <1>4, <1>5, <1>6, <1>7 DEF Next

\* The variables of a run and of the profile keep their types, whatever fails,
\* crashes or is edited: a journal holds undo operations, a record is absent or
\* complete, and the current generation is one there is (engine.go, record.go,
\* undo.go).
THEOREM TypeCorrect == Spec => []TypeOK
<1>1. IInv => TypeOK
  BY DEF IInv
<1> QED BY <1>1, InitIInv, NextIInv, PTL DEF Spec

-----------------------------------------------------------------------------
\* Nothing but a commit or a switch moves the profile.
LEMMA OnlyCommitMoves ==
  ASSUME [Next]_vars, gens' # gens \/ cur' # cur
  PROVE  Commit
<1>1. CASE Start
  BY <1>1 DEF Start, StartApply, StartRollback, StartReset, profileVars
<1>2. CASE StageStep
  BY <1>2 DEF StageStep, PreRemoveUnlink, PreRemoveRmdir, BackUp, PlaceNew, RelinkUnlink,
     RelinkSymlink, RecopyAside, CopyStart, CopyFinish, CopyStuck, ResetCopy, RemoveStale,
     PruneAncestor, StageStuck, Writes, Fails, profileVars
<1>3. CASE Finish
  BY <1>3 DEF Finish, WriteRecord, DiscardJournal, UndoStep, Unwound, RecordAfterReset,
     profileVars
<1>4. CASE Failure \/ Crash
  BY <1>4 DEF Failure, StageFault, PruneFault, CommitFault, ResetFault, ResetRecordFault,
     Crash, Fails, profileVars
<1>5. CASE UserStep
  BY <1>5 DEF UserStep, UserWrite, UserMkdir, UserRelink, UserDelete, Edited, profileVars
<1>6. CASE UNCHANGED vars
  BY <1>6 DEF vars, profileVars
<1>7. CASE AnswerReset
  BY <1>7 DEF AnswerReset, profileVars
<1> QED BY <1>1, <1>2, <1>3, <1>4, <1>5, <1>6, <1>7 DEF Next, RunStep

\* Whatever fails or crashes, the profile only ever moves to a generation that
\* the record already names, so the next run diffs against what is on disk
\* (engine.go 8.5 and 9, generations.go 7).
THEOREM RecordBeforeProfile == Spec => PointerFollowsRecord
<1>1. ASSUME IInv, [Next]_vars, gens' # gens \/ cur' # cur
      PROVE  record # NoRecord /\ cur' \in DOMAIN gens' /\ record.farm = gens'[cur']
  <2>1. Commit
    BY <1>1, OnlyCommitMoves
  <2>2. /\ run.farm \in Manifests /\ record.farm = run.farm
        /\ gens \in Seq(Manifests) /\ Len(gens) \in Nat /\ cur \in 0 .. Len(gens)
        /\ run.op \in {"apply", "rollback"}
        /\ run.op = "rollback" => cur > 1 /\ run.farm = gens[cur - 1]
    BY <1>1, <2>1 DEF Commit, IInv, TypeOK, RunFits
  <2>3. record # NoRecord
    BY <2>2, EngineAssumption DEF NoRecord
  <2>4. CASE run.op = "apply"
    <3>1. gens' = Append(gens, run.farm) /\ cur' = Len(gens) + 1
      BY <2>1, <2>4 DEF Commit
    <3> QED BY <2>2, <2>3, <3>1
  <2>5. CASE run.op = "rollback"
    <3>1. gens' = gens /\ cur' = cur - 1
      BY <2>1, <2>5 DEF Commit
    <3> QED BY <2>2, <2>3, <2>5, <3>1
  <2> QED BY <2>2, <2>4, <2>5
<1>2. IInv /\ [Next]_vars =>
        [gens' # gens \/ cur' # cur => /\ record # NoRecord
                                       /\ cur' \in DOMAIN gens'
                                       /\ record.farm = gens'[cur']]_vars
  BY <1>1
<1> QED BY <1>2, InitIInv, NextIInv, PTL DEF Spec, PointerFollowsRecord

-----------------------------------------------------------------------------
(* Engine implements Profile. *)

LEMMA RecordedFarm ==
  ASSUME IInv
  PROVE  record.farm \in Manifests \cup {None}
BY DEF IInv, TypeOK, IsRecord, NoRecord

\* A step that moves the profile is a commit of what is applied, under the next
\* number, or a switch to an older generation that is what is applied.
LEMMA CommitIsProfileStep ==
  ASSUME IInv, Commit
  PROVE  \E n \in DOMAIN gens' : Prof!Commit(n) \/ Prof!Switch(n)
<1>1. /\ run.farm \in Manifests /\ record.farm = run.farm
      /\ gens \in Seq(Manifests) /\ Len(gens) \in Nat /\ cur \in 0 .. Len(gens)
      /\ DOMAIN gens = 1 .. Len(gens)
      /\ run.op \in {"apply", "rollback"}
      /\ run.op = "rollback" => cur > 1 /\ run.farm = gens[cur - 1]
      /\ record' = record
  BY DEF Commit, IInv, TypeOK, RunFits
<1>2. record.farm # None
  BY <1>1, EngineAssumption
<1>3. CASE run.op = "apply"
  <2> DEFINE n == Len(gens) + 1
  <2>1. /\ gens' = Append(gens, run.farm) /\ cur' = n
        /\ DOMAIN gens' = 1 .. n /\ n \in Nat \ {0}
        /\ \A k \in DOMAIN gens : k < n /\ gens'[k] = gens[k]
        /\ gens'[n] = record.farm
    BY <1>1, <1>3 DEF Commit
  <2>2. gens' = [k \in DOMAIN gens \cup {n} |-> IF k = n THEN record.farm ELSE gens[k]]
    <3>1. DOMAIN gens' = DOMAIN gens \cup {n}
      BY <1>1, <2>1
    <3>2. gens' = [k \in DOMAIN gens' |-> gens'[k]]
      BY <1>1, <2>1
    <3> QED BY <2>1, <3>1, <3>2
  <2>3. Prof!Keep(n)
    BY <1>2, <2>1, <2>2 DEF Prof!Keep, Prof!With, Prof!Number
  <2>4. Prof!Move(n)
    BY <1>1, <2>1 DEF Prof!Move
  <2>5. Prof!Commit(n)
    BY <1>1, <2>3, <2>4 DEF Prof!Commit
  <2> QED BY <2>1, <2>5
<1>4. CASE run.op = "rollback"
  <2>1. gens' = gens /\ cur' = cur - 1 /\ cur - 1 \in DOMAIN gens
    BY <1>1, <1>4 DEF Commit
  <2>2. Prof!Switch(cur - 1)
    BY <1>1, <1>4, <2>1 DEF Prof!Switch, Prof!Move
  <2> QED BY <2>1, <2>2
<1> QED BY <1>1, <1>3, <1>4

\* Every run, whatever fails, crashes or is edited, keeps what a profile promises:
\* the detailed engine implements the abstract profile, a step that is no commit
\* being a placement or a stutter.
THEOREM EngineIsProfile == Spec => KeepsProfile
<1>1. Init => Prof!Init
  BY DEF Init, Prof!Init, NoRecord
<1>2. ASSUME IInv, IInv', [Next]_vars
      PROVE  [Prof!StrictNext]_(Prof!vars)
  <2>1. CASE gens' # gens \/ cur' # cur
    <3>1. Commit
      BY <1>2, <2>1, OnlyCommitMoves
    <3> QED BY <1>2, <3>1, CommitIsProfileStep DEF Prof!StrictNext
  <2>2. CASE gens' = gens /\ cur' = cur
    <3>1. (record.farm)' \in Manifests \cup {None}
      BY <1>2, RecordedFarm DEF IInv, TypeOK, IsRecord, NoRecord
    <3>2. Prof!Place((record.farm)')
      BY <2>2 DEF Prof!Place
    <3> QED BY <3>1, <3>2 DEF Prof!StrictNext
  <2> QED BY <2>1, <2>2
<1> QED BY <1>1, <1>2, InitIInv, NextIInv, PTL DEF Spec, KeepsProfile, Prof!StrictSpec

-----------------------------------------------------------------------------
(* What runs leave in the tree.                                             *)

\* A suffix makes a name beside its target, and no target lies at or below one.
NamesApart ==
  \A t \in Target : \A q \in {BackupOf[t], AsideOf[t]} :
    Above[q] = Above[t] /\ At(q) \cap Target = {}

-----------------------------------------------------------------------------
(* The record is a part of the manifest its link-farm came from.            *)

Within(m, n) == DOMAIN m \subseteq DOMAIN n /\ \A t \in DOMAIN m : m[t] = n[t]

RecordFits ==
  /\ record # NoRecord => Within(record.man, record.farm)
  /\ phase = "stages" => run.next = run.farm
  /\ phase = "teardown" => Within(run.base, run.farm)

LEMMA BaselineWithin ==
  ASSUME RecordFits, HasBaseline
  PROVE  Within(Baseline, BaselineFarm)
BY DEF RecordFits, HasBaseline, Baseline, BaselineFarm, Within

LEMMA BeginRecordFits ==
  ASSUME RecordFits, UNCHANGED record, NEW r, NEW p, NEW C, NEW ph, Begin(r, p, C, ph),
         ph = "stages" => r.next = r.farm,
         ph = "teardown" => Within(r.base, r.farm)
  PROVE  RecordFits'
BY DEF RecordFits, Begin, Within

LEMMA AskRecordFits ==
  ASSUME RecordFits, UNCHANGED record, NEW r, NEW p, Ask(r, p), Within(r.base, r.farm)
  PROVE  RecordFits'
BY DEF RecordFits, Ask, Within

LEMMA EndRecordFits ==
  ASSUME RecordFits, UNCHANGED record, NEW how, NEW keep, End(how, keep)
  PROVE  RecordFits'
BY DEF RecordFits, End, Within

\* A step that leaves the record, the run and its phase alone, or fails the run.
LEMMA StillRecordFits ==
  ASSUME RecordFits, UNCHANGED <<record, run>>,
         phase' = phase \/ phase' \in {"unwind", "discard"}
  PROVE  RecordFits'
BY DEF RecordFits, Within

LEMMA StartRecordFits ==
  ASSUME RecordFits, Start
  PROVE  RecordFits'
<1>1. ASSUME NEW m \in Manifests, NEW mod \in Modifiers, StartApply(m, mod)
      PROVE  RecordFits'
  <2> DEFINE r == [op |-> "apply", next |-> m, base |-> Baseline, farm |-> m,
                   backup |-> mod.backup, recopy |-> mod.recopy,
                   skip |-> SkipsGeneration(m), selected |-> {}]
  <2>1. UNCHANGED record /\ r.next = r.farm
    BY <1>1 DEF StartApply
  <2>2. Refuse \/ \E p, C : \E ph \in {"stages", "unwind"} : Begin(r, p, C, ph)
    BY <1>1, Zenon DEF StartApply
  <2> HIDE DEF r
  <2>3. CASE Refuse
    BY <2>1, <2>3, EndRecordFits DEF Refuse
  <2>4. CASE \E p, C : \E ph \in {"stages", "unwind"} : Begin(r, p, C, ph)
    BY <2>1, <2>4, BeginRecordFits
  <2> QED BY <2>2, <2>3, <2>4
<1>2. CASE StartRollback
  <2> DEFINE m == gens[cur - 1]
             r == [op |-> "rollback", next |-> m, base |-> Baseline, farm |-> m,
                   backup |-> FALSE, recopy |-> FALSE, skip |-> FALSE, selected |-> {}]
  <2>1. UNCHANGED record /\ r.next = r.farm
    BY <1>2 DEF StartRollback, profileVars
  <2>2. Refuse \/ \E p : Begin(r, p, {}, "stages")
    BY <1>2, Zenon DEF StartRollback
  <2> HIDE DEF r
  <2>3. CASE Refuse
    BY <2>1, <2>3, EndRecordFits DEF Refuse
  <2> QED BY <2>1, <2>2, <2>3, BeginRecordFits
<1>3. ASSUME NEW T, StartReset(T)
      PROVE  RecordFits'
  <2> DEFINE r == [op |-> "reset", next |-> NoEntries, base |-> Baseline,
                   farm |-> BaselineFarm, backup |-> FALSE, recopy |-> FALSE,
                   skip |-> FALSE, selected |-> T]
  <2>1. UNCHANGED record /\ HasBaseline
    BY <1>3 DEF StartReset, profileVars
  <2>2. Within(r.base, r.farm)
    BY <2>1, BaselineWithin
  <2>3. Refuse \/ \E p : Ask(r, p) \/ \E C : Begin(r, p, C, "teardown")
    BY <1>3, Zenon DEF StartReset
  <2> HIDE DEF r
  <2>4. CASE Refuse
    BY <2>1, <2>4, EndRecordFits DEF Refuse
  <2> QED BY <2>1, <2>2, <2>3, <2>4, AskRecordFits, BeginRecordFits
<1> QED BY <1>1, <1>2, <1>3 DEF Start

LEMMA NextRecordFits == RecordFits /\ [Next]_vars => RecordFits'
<1> SUFFICES ASSUME RecordFits, [Next]_vars PROVE RecordFits'
  OBVIOUS
<1>1. CASE StageStep
  BY <1>1, StillRecordFits
     DEF StageStep, PreRemoveUnlink, PreRemoveRmdir, BackUp, PlaceNew, RelinkUnlink,
         RelinkSymlink, RecopyAside, CopyStart, CopyFinish, CopyStuck, ResetCopy, RemoveStale,
         PruneAncestor, StageStuck, Writes, Fails, profileVars
<1>2. CASE UndoStep \/ StageFault \/ PruneFault \/ ResetFault \/ UNCHANGED vars
  BY <1>2, StillRecordFits
     DEF UndoStep, StageFault, PruneFault, ResetFault, Fails, vars, engineVars, profileVars
<1>3. CASE Unwound \/ DiscardJournal \/ CommitFault \/ ResetRecordFault \/ Crash
  BY <1>3, EndRecordFits
     DEF Unwound, DiscardJournal, CommitFault, ResetRecordFault, Crash, profileVars
<1>4. CASE WriteRecord
  BY <1>4 DEF WriteRecord, In, RecordFits, Within
<1>5. CASE Commit
  BY <1>5 DEF Commit, RecordFits, Within
<1>6. CASE RecordAfterReset
  <2>1. phase = "teardown" /\ Within(run.base, run.farm) /\ phase' = "idle"
    BY <1>6 DEF RecordAfterReset, End, RecordFits
  <2>2. \A S : Within(Restrict(run.base, DOMAIN run.base \ S), run.farm)
    BY <2>1 DEF Within, Restrict
  <2>3. record' = NoRecord \/ \E S : record' = [man |-> Restrict(run.base, DOMAIN run.base \ S),
                                               farm |-> run.farm]
    BY <1>6 DEF RecordAfterReset
  <2>4. record' # NoRecord => Within(record.man, record.farm)'
    <3>1. CASE record' = NoRecord
      BY <3>1
    <3>2. ASSUME NEW m, record' = [man |-> m, farm |-> run.farm], Within(m, run.farm)
          PROVE  Within(record.man, record.farm)'
      BY <3>2 DEF Within
    <3> QED BY <2>2, <2>3, <3>1, <3>2
  <2> QED BY <2>1, <2>4 DEF RecordFits
<1>7. CASE UserStep
  <2>1. UNCHANGED <<record, phase>> /\ (phase = "idle" \/ run' = run)
    BY <1>7 DEF UserStep, UserWrite, UserMkdir, UserRelink, UserDelete, Edited, profileVars
  <2> QED BY <2>1 DEF RecordFits, Within
<1>8. CASE Start
  BY <1>8, StartRecordFits
<1>9. CASE AnswerReset
  <2>1. CASE UNCHANGED profileVars /\ Refuse
    BY <2>1, EndRecordFits DEF Refuse, profileVars
  <2> QED BY <1>9, <2>1, StillRecordFits DEF AnswerReset, profileVars
<1> QED BY <1>1, <1>2, <1>3, <1>4, <1>5, <1>6, <1>7, <1>8, <1>9 DEF Next, RunStep, Finish, Failure

LEMMA InitRecordFits == Init => RecordFits
BY DEF Init, RecordFits

-----------------------------------------------------------------------------
(* The links that the new manifest drops.                                   *)

\* The link at t is still the one the baseline recorded, and is to go.
StaleLink(t) ==
  t \in Symlinks(run.base) \ DOMAIN run.next /\ fs[t] = LinkTo(run.base[t].src)

\* What the rest of the plan takes from its place.
Leaves == plan.remove \cup plan.unlink \cup UNION {At(b) : b \in plan.backup}

StaleInv == phase = "stages" => \A t \in Target : StaleLink(t) => t \in Leaves

\* A plan without conflicts takes every dropped link of the old manifest away.
LEMMA PlanTakesStale ==
  ASSUME NEW f, NEW prev, NEW next, NEW backup \in BOOLEAN,
         Compute(f, prev, next, backup).conflicts = {},
         NEW t \in Symlinks(prev) \ DOMAIN next, f[t] = LinkTo(prev[t].src)
  PROVE  LET p == Compute(f, prev, next, backup)
         IN t \in p.remove \cup p.unlink \cup UNION {At(b) : b \in p.backup}
<1> DEFINE p == Compute(f, prev, next, backup)
<1>1. Stuck(f, prev, next, backup) = {} /\ RecordedLink(f, prev, t)
  BY DEF Compute, RecordedLink, Symlinks
<1>2. /\ p.unlink = Unlinked(f, prev, next) /\ p.backup = SetAside(f, prev, next, backup)
      /\ p.remove = {q \in Stale(f, prev, next, backup) : RecordedLink(f, prev, q)}
  BY DEF Compute
<1>3. CASE t \in Leaving(f, prev, next, backup)
  <2>1. PICK b \in Occupied(f, next) \ Migrated(f, prev, next) : t \in At(b)
    BY <1>3 DEF Leaving
  <2>2. b \in p.backup
    BY <1>1, <1>2, <1>3, <2>1 DEF Leaving, Blocked, Stuck, SetAside
  <2> QED BY <2>1, <2>2
<1>4. CASE t \notin Leaving(f, prev, next, backup)
  BY <1>1, <1>2, <1>4 DEF Stale
<1> QED BY <1>3, <1>4

LEMMA StepStale ==
  ASSUME StaleInv, phase' = phase,
         \A t \in Target : StaleLink(t)' => StaleLink(t) /\ (t \in Leaves => t \in Leaves')
  PROVE  StaleInv'
BY DEF StaleInv

LEMMA OtherPhaseStale ==
  ASSUME phase' # "stages"
  PROVE  StaleInv'
BY DEF StaleInv

\* What a write makes at a target is no link that was to go.
LEMMA PutStale ==
  ASSUME StaleInv, phase' = phase, run' = run, fs \in Tree, NEW p,
         \A t \in Target : t # p => fs'[t] \in {fs[t], Dir, Absent},
         fs'[p] \in {fs[p], Dir, Absent} \/ fs'[p].kind = "file" \/ fs'[p].val \in Foreign
           \/ p \in DOMAIN run.next,
         IsManifest(run.base),
         \A t \in Target : t # p /\ fs'[t] = fs[t] /\ t \in Leaves => t \in Leaves',
         p \in Leaves => p \in Leaves' \/ fs'[p] # fs[p]
  PROVE  StaleInv'
<1> SUFFICES ASSUME NEW t \in Target, StaleLink(t)'
             PROVE  StaleLink(t) /\ (t \in Leaves => t \in Leaves')
  BY StepStale
<1>1. t \in Symlinks(run.base) \ DOMAIN run.next /\ fs'[t] = LinkTo(run.base[t].src)
  BY DEF StaleLink
<1>2. run.base[t].src \in Src /\ run.base[t].src \notin Foreign
  BY <1>1, SourceType, DataAssumption DEF Symlinks
<1>3. fs'[t] \notin {Dir, Absent} /\ fs'[t].kind # "file" /\ fs'[t].val \notin Foreign
  BY <1>1, <1>2 DEF LinkTo, Dir, Absent
<1>4. fs'[t] = fs[t]
  BY <1>1, <1>3
<1> QED BY <1>1, <1>4 DEF StaleLink

\* A stage step stays in its phase or fails the run.
LEMMA StagePhase ==
  ASSUME StageStep
  PROVE  phase' = phase \/ phase' = "unwind"
<1>1. (\E p : StageStuck(p) \/ CopyStuck(p)) => phase' = "unwind"
  BY DEF StageStuck, CopyStuck, Fails
<1>2. (\E p : PreRemoveUnlink(p) \/ PreRemoveRmdir(p) \/ BackUp(p) \/ PlaceNew(p)) => phase' = phase
  BY DEF PreRemoveUnlink, PreRemoveRmdir, BackUp, PlaceNew, Writes
<1>3. (\E p : RelinkUnlink(p) \/ RelinkSymlink(p) \/ RecopyAside(p) \/ CopyStart(p)) => phase' = phase
  BY DEF RelinkUnlink, RelinkSymlink, RecopyAside, CopyStart, Writes
<1>4. (\E p : CopyFinish(p) \/ ResetCopy(p) \/ RemoveStale(p)) \/ PruneAncestor => phase' = phase
  BY DEF CopyFinish, ResetCopy, RemoveStale, PruneAncestor, Writes
<1> QED BY <1>1, <1>2, <1>3, <1>4 DEF StageStep

\* What an edit of the user puts at a path.
LEMMA UserPuts ==
  ASSUME IInv, UserStep
  PROVE  \A q \in Path : \/ fs'[q] \in {fs[q], Dir, Absent}
                         \/ fs'[q].kind = "file"
                         \/ fs'[q].val \in Foreign
<1>1. DOMAIN fs = Path
  BY DEF IInv, TypeOK, Tree
<1>2. ASSUME NEW p, NEW u, UserWrite(p, u)
      PROVE  \A q \in Path : fs'[q] = fs[q] \/ fs'[q].kind = "file"
  BY <1>1, <1>2 DEF UserWrite, Put, FileOf
<1>3. ASSUME NEW p, UserMkdir(p)
      PROVE  \A q \in Path : fs'[q] \in {fs[q], Dir}
  BY <1>1, <1>3 DEF UserMkdir, Put
<1>4. ASSUME NEW p, NEW d \in Foreign, UserRelink(p, d)
      PROVE  \A q \in Path : fs'[q] = fs[q] \/ fs'[q].val \in Foreign
  BY <1>1, <1>4 DEF UserRelink, Put, LinkTo
<1>5. ASSUME NEW p, UserDelete(p)
      PROVE  \A q \in Path : fs'[q] \in {fs[q], Absent}
  BY <1>1, <1>5 DEF UserDelete, Clear
<1> QED BY <1>2, <1>3, <1>4, <1>5 DEF UserStep

LEMMA StageStepStale ==
  ASSUME NamesApart, IInv, StaleInv, StageStep
  PROVE  StaleInv'
<1>1. fs \in Tree /\ IsManifest(run.base) /\ IsManifest(run.next) /\ plan \in Plan /\ Target \subseteq Path
  BY TargetsArePaths DEF IInv, TypeOK, IsRun
<1>2. DOMAIN fs = Path /\ \A p \in Path : fs[p] \in Node
  BY <1>1 DEF Tree
<1>3. SUFFICES ASSUME phase = "stages", phase' = "stages"
               PROVE  StaleInv'
  BY StagePhase, OtherPhaseStale
<1>4. ASSUME NEW p, PreRemoveUnlink(p) PROVE StaleInv'
  <2>1. p \in Path /\ fs' = Put(fs, p, Absent) /\ fs[p] # Absent
    BY <1>4, <1>1 DEF PreRemoveUnlink, RecordedLink, LinkTo, Absent, Plan
  <2>2. plan' = [plan EXCEPT !.unlink = @ \ {p}] /\ run' = run /\ phase' = phase
    BY <1>4 DEF PreRemoveUnlink, Writes
  <2>3. \A t : t # p /\ t \in Leaves => t \in Leaves'
    BY <2>2, <1>1 DEF Leaves, Plan
  <2> QED BY <1>1, <1>2, <2>1, <2>2, <2>3, PutStale DEF Put
<1>5. ASSUME NEW p, PreRemoveRmdir(p) PROVE StaleInv'
  <2>1. p \in Path /\ fs' \in {fs, Put(fs, p, Absent)}
    BY <1>5, <1>1 DEF PreRemoveRmdir, Plan
  <2>2. plan' = [plan EXCEPT !.rmdir = @ \ {p}] /\ run' = run /\ phase' = phase
    BY <1>5 DEF PreRemoveRmdir, Writes
  <2>3. Leaves' = Leaves
    BY <2>2, <1>1 DEF Leaves, Plan
  <2> QED BY <1>1, <1>2, <2>1, <2>2, <2>3, PutStale DEF Put
<1>6. ASSUME NEW b \in plan.backup, BackUp(b) PROVE StaleInv'
  <2>1. b \in Target /\ fs' = Rename(fs, b, BackupOf[b])
    BY <1>6, <1>1 DEF BackUp, Plan
  <2>2. plan' = [plan EXCEPT !.backup = @ \ {b}] /\ run' = run /\ phase' = phase
    BY <1>6 DEF BackUp, Writes
  <2>3. \A t : t \notin At(b) /\ t \in Leaves => t \in Leaves'
    BY <2>2, <1>1 DEF Leaves, Plan
  <2>4. \A t \in Target : fs'[t] = IF t \in At(b) THEN Absent ELSE fs[t]
    BY <2>1, <1>1 DEF NamesApart, Rename
  <2>5. \A t \in Target : StaleLink(t)' => StaleLink(t) /\ t \notin At(b)
    BY <2>2, <2>4 DEF StaleLink, Absent, LinkTo
  <2> QED BY <2>2, <2>3, <2>5, StepStale
<1>7. ASSUME NEW t \in plan.new, PlaceNew(t) PROVE StaleInv'
  <2>1. t \in Path /\ t \in DOMAIN run.next /\ fs' = Put(Mkdirs(fs, t), t, LinkTo(run.next[t].src))
    BY <1>7, <1>1 DEF PlaceNew, In, IInv, RunFits, Plan
  <2>2. plan' = [plan EXCEPT !.new = @ \ {t}] /\ run' = run /\ phase' = phase
    BY <1>7 DEF PlaceNew, Writes
  <2>3. Leaves' = Leaves
    BY <2>2, <1>1 DEF Leaves, Plan
  <2>4. \A q \in Path : q # t => fs'[q] \in {fs[q], Dir}
    BY <2>1 DEF Put, Mkdirs
  <2> QED BY <1>1, <1>2, <2>1, <2>2, <2>3, <2>4, PutStale
<1>8. ASSUME NEW t \in Relinks, RelinkUnlink(t) \/ RelinkSymlink(t) PROVE StaleInv'
  <2>1. t \in Path /\ t \in DOMAIN run.next /\ \E n : fs' = Put(fs, t, n)
    BY <1>8, <1>1 DEF RelinkUnlink, RelinkSymlink, In, IInv, RunFits, Plan, Relinks
  <2>2. /\ plan' = [plan EXCEPT !.replace = @ \ {t}, !.foreign = @ \ {t}] \/ plan' = plan
        /\ run' = run /\ phase' = phase
    BY <1>8 DEF RelinkUnlink, RelinkSymlink, Writes
  <2>3. Leaves' = Leaves
    BY <2>2, <1>1 DEF Leaves, Plan
  <2>4. \A q \in Path : q # t => fs'[q] = fs[q]
    BY <2>1, <1>2 DEF Put
  <2> QED BY <1>1, <1>2, <2>1, <2>2, <2>3, <2>4, PutStale
<1>9. ASSUME NEW t \in plan.copies, RecopyAside(t) PROVE StaleInv'
  <2>1. t \in Target /\ fs' = Rename(fs, t, AsideOf[t])
    BY <1>9, <1>1 DEF RecopyAside, Plan
  <2>2. plan' = plan /\ run' = run /\ phase' = phase
    BY <1>9 DEF RecopyAside, Writes
  <2>3. \A q \in Target : fs'[q] \in {fs[q], Absent}
    BY <2>1, <1>1 DEF NamesApart, Rename
  <2>4. \A q \in Target : StaleLink(q)' => StaleLink(q)
    BY <2>2, <2>3 DEF StaleLink, Absent, LinkTo
  <2> QED BY <2>2, <2>4, StepStale DEF Leaves
<1>10. ASSUME NEW t \in plan.copies, CopyStart(t) PROVE StaleInv'
  <2>1. t \in Path /\ t \in DOMAIN run.next /\ fs' = BeginCopy(Mkdirs(fs, t), run.next[t].src, t)
    BY <1>10, <1>1 DEF CopyStart, In, IInv, RunFits, Plan
  <2>2. plan' = plan /\ run' = run /\ phase' = phase
    BY <1>10 DEF CopyStart, Writes
  <2>3. \A q \in Path : q # t => fs'[q] \in {fs[q], Dir}
    BY <2>1 DEF Put, Mkdirs, BeginCopy
  <2> QED BY <1>1, <1>2, <2>1, <2>2, <2>3, PutStale DEF Leaves
<1>11. ASSUME NEW t \in plan.copies, CopyFinish(t) PROVE StaleInv'
  <2>1. t \in Path /\ t \in DOMAIN run.next /\ fs' \in {fs, EndCopy(fs, run.next[t].src, t)}
    BY <1>11, <1>1 DEF CopyFinish, In, IInv, RunFits, Plan
  <2>2. plan' = [plan EXCEPT !.copies = @ \ {t}] /\ run' = run /\ phase' = phase
    BY <1>11 DEF CopyFinish, Writes
  <2>3. Leaves' = Leaves
    BY <2>2, <1>1 DEF Leaves, Plan
  <2>4. \A q \in Path : fs'[q] = fs[q] \/ fs'[q].kind = "file"
    BY <2>1, <1>2 DEF Put, EndCopy, FileOf
  <2>5. \A q \in Target : StaleLink(q)' => StaleLink(q)
    BY <1>1, <2>2, <2>4 DEF StaleLink, LinkTo
  <2> QED BY <2>2, <2>3, <2>5, StepStale
<1>12. ASSUME NEW t \in plan.remove, RemoveStale(t) PROVE StaleInv'
  <2>1. t \in Path /\ fs' \in {fs, Put(fs, t, Absent)}
    BY <1>12, <1>1 DEF RemoveStale, Plan
  <2>2. plan' = [plan EXCEPT !.remove = @ \ {t}] /\ run' = run /\ phase' = phase
    BY <1>12 DEF RemoveStale, Writes
  <2>3. \A q : q # t /\ q \in Leaves => q \in Leaves'
    BY <2>2, <1>1 DEF Leaves, Plan
  <2>4. ASSUME NEW q \in Target, StaleLink(q)' PROVE StaleLink(q) /\ q # t
    <3>1. StaleLink(q)
      BY <1>1, <1>2, <2>1, <2>2, <2>4 DEF StaleLink, Put, LinkTo, Absent
    <3>2. StillStale(t) => fs'[t] = Absent
      BY <1>12, <2>1, <1>2 DEF RemoveStale, Put
    <3>3. ~StillStale(t) => ~StaleLink(t)
      BY <1>1 DEF StillStale, RecordedLink, StaleLink, Symlinks
    <3> QED BY <2>4, <3>1, <3>2, <3>3 DEF StaleLink, LinkTo, Absent
  <2> QED BY <2>2, <2>3, <2>4, StepStale
<1>13. CASE PruneAncestor
  <2>1. plan' = plan /\ run' = run /\ phase' = phase
    BY <1>13 DEF PruneAncestor, Writes
  <2>2. fs' = fs \/ \E p \in Path : fs' = Put(fs, p, Absent)
    BY <1>13 DEF PruneAncestor
  <2>3. \A q \in Path : fs'[q] \in {fs[q], Absent}
    BY <2>2, <1>2 DEF Put
  <2>4. \A q \in Target : StaleLink(q)' => StaleLink(q)
    BY <1>1, <2>1, <2>3 DEF StaleLink, LinkTo, Absent
  <2> QED BY <2>1, <2>4, StepStale DEF Leaves
<1>14. ~\E t : CopyStuck(t) \/ ResetCopy(t) \/ StageStuck(t)
  BY <1>3 DEF CopyStuck, ResetCopy, StageStuck, Fails
<1> QED BY <1>4, <1>5, <1>6, <1>7, <1>8, <1>9, <1>10, <1>11, <1>12, <1>13, <1>14
        DEF StageStep

\* A run that begins with a plan for its whole manifest, or that drops nothing.
LEMMA BeginStale ==
  ASSUME NEW r, NEW p, NEW C, NEW ph, Begin(r, p, C, ph),
         ph = "stages" =>
           \/ DOMAIN r.base \subseteq DOMAIN r.next
           \/ \A t \in Symlinks(r.base) \ DOMAIN r.next :
                fs[t] = LinkTo(r.base[t].src) =>
                  t \in p.remove \cup p.unlink \cup UNION {At(b) : b \in p.backup}
  PROVE  StaleInv'
<1>1. phase' = ph /\ run' = r /\ plan' = p /\ fs' = fs
  BY DEF Begin
<1>2. \A t : StaleLink(t)' => t \in Symlinks(r.base) \ DOMAIN r.next /\ fs[t] = LinkTo(r.base[t].src)
  BY <1>1 DEF StaleLink
<1>3. Leaves' = p.remove \cup p.unlink \cup UNION {At(b) : b \in p.backup}
  BY <1>1 DEF Leaves
<1>4. Symlinks(r.base) \subseteq DOMAIN r.base
  BY DEF Symlinks
<1> QED BY <1>1, <1>2, <1>3, <1>4 DEF StaleInv

LEMMA StartStale ==
  ASSUME IInv, RecordFits, Start
  PROVE  StaleInv'
<1>1. ASSUME NEW m \in Manifests, NEW mod \in Modifiers, StartApply(m, mod)
      PROVE  StaleInv'
  <2> DEFINE r == [op |-> "apply", next |-> m, base |-> Baseline, farm |-> m,
                   backup |-> mod.backup, recopy |-> mod.recopy,
                   skip |-> SkipsGeneration(m), selected |-> {}]
             c == Compute(fs, Baseline, m, mod.backup)
             p == WithRecopy(c, m, mod.recopy)
             C == IF mod.recopy THEN UNION {At(t) : t \in Copies(m)} ELSE {}
             takes(q) == \A t \in Symlinks(Baseline) \ DOMAIN m :
                           fs[t] = LinkTo(Baseline[t].src) =>
                             t \in q.remove \cup q.unlink \cup UNION {At(b) : b \in q.backup}
  <2>1. r.base = Baseline /\ r.next = m
    OBVIOUS
  <2>2. \/ Refuse
        \/ p.conflicts = {} /\ ~SkipsGeneration(m) /\ Begin(r, p, C, "stages")
        \/ Begin(r, NoPlan, {}, "unwind")
        \/ SkipsGeneration(m) /\ Begin(r, Repairs(p), C, "stages")
    BY <1>1, Zenon DEF StartApply
  <2>3. mod.backup \in BOOLEAN
    BY EngineAssumption
  <2>4. p.conflicts = {} => takes(p)
    <3>1. c.conflicts = p.conflicts /\ c.remove = p.remove /\ c.unlink = p.unlink /\ c.backup = p.backup
      BY DEF WithRecopy, Compute
    <3>2. c.conflicts = {} => takes(c)
      BY <2>3, PlanTakesStale
    <3> QED BY <3>1, <3>2
  <2>5. SkipsGeneration(m) => DOMAIN Baseline \subseteq DOMAIN m
    <3>1. SkipsGeneration(m) => HasBaseline /\ BaselineFarm = m
      BY DEF SkipsGeneration, HasBaseline, BaselineFarm, IInv, TypeOK
    <3> QED BY <3>1, BaselineWithin DEF Within
  <2> HIDE DEF r, p, C
  <2>6. CASE Refuse
    BY <2>6, OtherPhaseStale DEF Refuse, End
  <2>7. CASE p.conflicts = {} /\ ~SkipsGeneration(m) /\ Begin(r, p, C, "stages")
    BY <2>1, <2>4, <2>7, BeginStale
  <2>8. CASE Begin(r, NoPlan, {}, "unwind")
    BY <2>8, BeginStale
  <2>9. CASE SkipsGeneration(m) /\ Begin(r, Repairs(p), C, "stages")
    BY <2>1, <2>5, <2>9, BeginStale
  <2> QED BY <2>2, <2>6, <2>7, <2>8, <2>9
<1>2. CASE StartRollback
  <2> DEFINE m == gens[cur - 1]
             r == [op |-> "rollback", next |-> m, base |-> Baseline, farm |-> m,
                   backup |-> FALSE, recopy |-> FALSE, skip |-> FALSE, selected |-> {}]
             p == Compute(fs, Baseline, m, FALSE)
  <2>1. r.base = Baseline /\ r.next = m
    OBVIOUS
  <2>2. Refuse \/ (p.conflicts = {} /\ Begin(r, p, {}, "stages"))
    BY <1>2, Zenon DEF StartRollback
  <2>3. p.conflicts = {} => \A t \in Symlinks(Baseline) \ DOMAIN m :
           fs[t] = LinkTo(Baseline[t].src) =>
             t \in p.remove \cup p.unlink \cup UNION {At(b) : b \in p.backup}
    BY PlanTakesStale
  <2> HIDE DEF r, p, m
  <2>4. CASE Refuse
    BY <2>4, OtherPhaseStale DEF Refuse, End
  <2> QED BY <2>1, <2>2, <2>3, <2>4, BeginStale
<1>3. ASSUME NEW T, StartReset(T)
      PROVE  StaleInv'
  <2>1. phase' # "stages"
    <3>1. Refuse \/ \E r, p : Ask(r, p) \/ \E C : Begin(r, p, C, "teardown")
      BY <1>3, Zenon DEF StartReset
    <3> QED BY <3>1 DEF Refuse, End, Begin, Ask
  <2> QED BY <2>1, OtherPhaseStale
<1> QED BY <1>1, <1>2, <1>3 DEF Start

LEMMA NextStale ==
  ASSUME NamesApart
  PROVE  IInv /\ RecordFits /\ StaleInv /\ [Next]_vars => StaleInv'
<1> SUFFICES ASSUME IInv, RecordFits, StaleInv, [Next]_vars PROVE StaleInv'
  OBVIOUS
<1>1. CASE Start
  BY <1>1, StartStale
<1>2. CASE StageStep
  BY <1>2, StageStepStale
<1>3. CASE Finish \/ Failure \/ Crash
  <2>1. phase' # "stages" \/ (PruneFault /\ phase' = phase)
    BY <1>3 DEF Finish, Failure, Crash, WriteRecord, Commit, DiscardJournal, UndoStep, Unwound,
            RecordAfterReset, StageFault, PruneFault, CommitFault, ResetFault,
            ResetRecordFault, End, Fails
  <2>2. CASE PruneFault
    BY <2>2 DEF PruneFault, StaleInv, StaleLink, Leaves
  <2> QED BY <2>1, <2>2, OtherPhaseStale
<1>4. CASE UserStep
  <2>1. CASE phase = "stages"
    <3>1. phase' = phase /\ run' = run /\ plan' = plan
      BY <1>4, <2>1 DEF UserStep, UserWrite, UserMkdir, UserRelink, UserDelete, Edited
    <3>2. \A q \in Path : \/ fs'[q] \in {fs[q], Dir, Absent} \/ fs'[q].kind = "file"
                          \/ fs'[q].val \in Foreign
      BY <1>4, UserPuts
    <3>3. IsManifest(run.base) /\ Target \subseteq Path
      BY TargetsArePaths DEF IInv, TypeOK, IsRun
    <3>4. ASSUME NEW q \in Target, StaleLink(q)' PROVE StaleLink(q)
      <4>1. q \in Symlinks(run.base) \ DOMAIN run.next /\ fs'[q] = LinkTo(run.base[q].src)
        BY <3>1, <3>4 DEF StaleLink
      <4>2. run.base[q].src \in Src /\ run.base[q].src \notin Foreign
        BY <4>1, <3>3, SourceType, DataAssumption DEF Symlinks
      <4>3. fs'[q] = fs[q]
        BY <3>2, <3>3, <4>1, <4>2 DEF LinkTo, Dir, Absent
      <4> QED BY <4>1, <4>3 DEF StaleLink
    <3> QED BY <3>1, <3>4, StepStale DEF Leaves
  <2>2. CASE phase # "stages"
    BY <1>4, <2>2, OtherPhaseStale
       DEF UserStep, UserWrite, UserMkdir, UserRelink, UserDelete, Edited
  <2> QED BY <2>1, <2>2
<1>5. CASE UNCHANGED vars
  BY <1>5 DEF vars, engineVars, StaleInv, StaleLink, Leaves
<1>6. CASE AnswerReset
  <2>1. phase' # "stages"
    BY <1>6 DEF AnswerReset, Refuse, End
  <2> QED BY <2>1, OtherPhaseStale
<1> QED BY <1>1, <1>2, <1>3, <1>4, <1>5, <1>6 DEF Next, RunStep

\* When a run writes its record, no link of the old manifest that the new one
\* drops is left at its target, whatever the plan, the user, the failures and
\* an earlier crash did (staleremove.go removeStale, preremove.go, backup.go,
\* drift.go repairDrift).
THEOREM StaleLinksGo ==
  ASSUME NamesApart
  PROVE  Spec => []StaleGone
<1>1. IInv /\ StaleInv => StaleGone
  <2> SUFFICES ASSUME IInv, StaleInv, In("record"),
                      NEW t \in Symlinks(run.base) \ DOMAIN run.next,
                      fs[t] = LinkTo(run.base[t].src)
               PROVE  FALSE
    BY DEF StaleGone
  <2>1. t \in Target
    BY DEF Symlinks, IInv, TypeOK, IsRun, IsManifest
  <2>2. plan.unlink = {} /\ plan.backup = {} /\ plan.remove = {}
    BY DEF In, Stage
  <2> QED BY <2>1, <2>2 DEF StaleInv, StaleLink, Leaves, In
<1>2. Init => StaleInv
  BY DEF Init, StaleInv
<1> QED BY <1>1, <1>2, InitIInv, NextIInv, InitRecordFits, NextRecordFits, NextStale, PTL DEF Spec

-----------------------------------------------------------------------------
(* Whatever exists is in real directories: no step puts anything below a    *)
(* file, a link or nothing.                                                 *)

Beside(kind, p) == IF kind = "restoreBackup" THEN BackupOf[p] ELSE AsideOf[p]

JournalFits ==
  \A i \in DOMAIN journal :
    journal[i].kind \in {"restoreRename", "restoreBackup"} => journal[i].path \in Target

TreeInv == Closed(fs) /\ JournalFits

LEMMA TargetsMove ==
  ASSUME NamesApart, NEW t \in Target
  PROVE  Movable(t, BackupOf[t]) /\ Movable(t, AsideOf[t])
<1>1. t \in Path /\ \A q \in {BackupOf[t], AsideOf[t]} : q \in Path /\ q \notin Target
  BY TargetAssumption, EngineAssumption
<1>2. ASSUME NEW q \in {BackupOf[t], AsideOf[t]} PROVE Movable(t, q)
  <2>1. q \in Path /\ q # t /\ Above[q] = Above[t] /\ t \notin At(q)
    BY <1>1 DEF NamesApart
  <2>2. q \notin At(t)
    BY <1>1, <2>1, AtOrder, AboveOrder
  <2> QED BY <1>1, <2>1, <2>2, EngineAssumption DEF Movable
<1> QED BY <1>2

LEMMA RenamesClosed ==
  ASSUME NamesApart, NEW f \in Tree, Closed(f), NEW t \in Target, NEW q \in {BackupOf[t], AsideOf[t]}
  PROVE  /\ CanRename(f, t, q) => Closed(Rename(f, t, q))
         /\ CanRename(f, q, t) => Closed(Rename(f, q, t))
<1>1. Movable(t, q) /\ Movable(q, t)
  BY TargetsMove, MovableApart
<1> QED BY <1>1, RenameClosed

\* os.Remove, and a symlink or a file where nothing or a file was.
LEMMA RemoveClosed ==
  ASSUME NEW f \in Tree, Closed(f), NEW p \in Path, CanRemove(f, p)
  PROVE  Closed(Put(f, p, Absent))
<1>1. \A r \in Below[p] : ~Exists(f, r)
  BY NothingBelow DEF CanRemove, EmptyDir
<1> QED BY <1>1, PutClosed, NodeTypes DEF Absent

LEMMA LeafClosed ==
  ASSUME NEW f \in Tree, Closed(f), NEW p \in Path, NEW n \in Node,
         ~IsDir(f, p), InRealDir(f, p)
  PROVE  Closed(Put(f, p, n))
<1>1. \A r \in Below[p] : ~Exists(f, r)
  BY NothingBelow
<1> QED BY <1>1, PutClosed

LEMMA CopyClosed ==
  ASSUME NEW f \in Tree, Closed(f), NEW p \in Path, NEW s \in Src, InRealDir(f, p)
  PROVE  /\ CanCopy(f, s, p) => Closed(BeginCopy(f, s, p))
         /\ s \in DirSrc /\ IsDir(f, p) /\ ~IsDir(f, LeafOf(p)) => Closed(EndCopy(f, s, p))
         /\ s \notin DirSrc /\ IsFile(f, p) => Closed(EndCopy(f, s, p))
<1>1. FileOf(Partial) \in Node /\ FileOf(s) \in Node /\ Dir \in Node
  BY NodeTypes DEF Val
<1>2. CanCopy(f, s, p) => Closed(BeginCopy(f, s, p))
  <2>1. s \in DirSrc => Closed(Put(f, p, Dir))
    BY <1>1, PutClosed DEF Dir
  <2>2. s \notin DirSrc /\ f[p].kind \in {"absent", "file"} => Closed(Put(f, p, FileOf(Partial)))
    BY <1>1, LeafClosed DEF IsDir
  <2> QED BY <2>1, <2>2 DEF CanCopy, BeginCopy
<1>3. ASSUME s \in DirSrc, IsDir(f, p), ~IsDir(f, LeafOf(p))
      PROVE  Closed(EndCopy(f, s, p))
  <2>1. CASE LeafOf(p) \in Path
    <3>1. Front(LeafOf(p)) = p
      BY PathSequence DEF LeafOf, Front
    <3>2. InRealDir(f, LeafOf(p))
      BY <1>3, <2>1, <3>1, FrontAbove DEF InRealDir
    <3> QED BY <1>1, <1>3, <2>1, <3>2, LeafClosed DEF EndCopy
  <2>2. CASE LeafOf(p) \notin Path
    <3>1. Put(f, LeafOf(p), FileOf(s)) = f
      BY <2>2 DEF Put, Tree
    <3> QED BY <1>3, <3>1 DEF EndCopy
  <2> QED BY <2>1, <2>2
<1>4. s \notin DirSrc /\ IsFile(f, p) => Closed(EndCopy(f, s, p))
  BY <1>1, LeafClosed DEF EndCopy, IsFile, IsDir
<1> QED BY <1>2, <1>3, <1>4

LEMMA UndoClosed ==
  ASSUME NamesApart, NEW f \in Tree, Closed(f), NEW op \in UndoOp,
         op.kind \in {"restoreRename", "restoreBackup"} => op.path \in Target
  PROVE  Closed(Undo(f, op))
<1> DEFINE p == op.path
           removed == IF CanRemove(f, p) THEN Put(f, p, Absent) ELSE f
<1>1. p \in Path /\ op.kind \in UndoKind /\ LinkTo(op.dest) \in Node
  BY NodeTypes DEF UndoOp
<1>2. removed \in Tree /\ Closed(removed)
  BY <1>1, RemoveClosed, PutTree, NodeTypes
<1>3. CASE op.kind = "unlinkNew"
  BY <1>2, <1>3 DEF Undo
<1>4. CASE op.kind = "relinkOld"
  <2>1. InRealDir(f, p) => InRealDir(removed, p)
    BY <1>1, AboveOrder DEF InRealDir, Put, IsDir, Tree, Above
  <2>2. InRealDir(f, p) /\ ~Exists(removed, p) => Closed(Put(removed, p, LinkTo(op.dest)))
    BY <1>1, <1>2, <2>1, LeafClosed DEF Exists, IsDir
  <2> QED BY <1>2, <1>4, <2>2 DEF Undo
<1>5. CASE op.kind = "removeCopy"
  BY <1>1, <1>5, ClearClosed DEF Undo
<1>6. ASSUME op.kind \in {"restoreRename", "restoreBackup"}
      PROVE  Closed(BringBack(f, Beside(op.kind, p), p))
  <2>1. p \in Target /\ Beside(op.kind, p) \in {BackupOf[p], AsideOf[p]}
    BY <1>6 DEF Beside
  <2>2. Clear(f, p) \in Tree /\ Closed(Clear(f, p))
    BY <1>1, ClearClosed, ClearTree
  <2> QED BY <2>1, <2>2, RenamesClosed DEF BringBack
<1>7. CASE op.kind \in {"restoreRename", "restoreBackup"}
  BY <1>6, <1>7 DEF Undo, Beside
<1>8. CASE op.kind = "mkdir"
  <2>1. InRealDir(f, p) /\ ~Exists(f, p) => Closed(Put(f, p, Dir))
    BY <1>1, NodeTypes, LeafClosed DEF Exists, IsDir
  <2> QED BY <1>8, <2>1 DEF Undo
<1> QED BY <1>1, <1>3, <1>4, <1>5, <1>7, <1>8 DEF UndoKind

LEMMA AppendIs ==
  ASSUME NEW S, NEW s \in Seq(S), NEW e \in S
  PROVE  /\ DOMAIN Append(s, e) = DOMAIN s \cup {Len(s) + 1}
         /\ \A i \in DOMAIN s : Append(s, e)[i] = s[i] /\ i < Len(s) + 1 /\ i \in Nat
         /\ Append(s, e)[Len(s) + 1] = e /\ Len(s) + 1 \notin DOMAIN s /\ Len(s) + 1 \in Nat
OBVIOUS

LEMMA FrontIs ==
  ASSUME NEW S, NEW s \in Seq(S), s # << >>
  PROVE  /\ Len(s) \in DOMAIN s /\ Last(s) = s[Len(s)]
         /\ DOMAIN Front(s) \subseteq DOMAIN s
         /\ \A i \in DOMAIN Front(s) : Front(s)[i] = s[i] /\ i < Len(s)
BY DEF Last, Front

\* What a step adds to the journal.
Journals(kind, p, d) == journal' = Append(journal, [kind |-> kind, path |-> p, dest |-> d])

LEMMA JournalsFits ==
  ASSUME journal \in Seq(UndoOp), JournalFits, NEW kind \in UndoKind, NEW p \in Path, NEW d \in Val,
         Journals(kind, p, d), kind \in {"restoreRename", "restoreBackup"} => p \in Target
  PROVE  JournalFits'
<1> DEFINE e == [kind |-> kind, path |-> p, dest |-> d]
<1>1. e \in UndoOp /\ e.kind = kind /\ e.path = p
  BY DEF UndoOp
<1> HIDE DEF e
<1>2. journal' = Append(journal, e)
  BY DEF Journals, e
<1> QED BY <1>1, <1>2, AppendIs DEF JournalFits

LEMMA StageStepTree ==
  ASSUME NamesApart, IInv, TreeInv, StageStep
  PROVE  TreeInv'
<1>1. /\ fs \in Tree /\ IsManifest(run.base) /\ IsManifest(run.next) /\ plan \in Plan
      /\ Target \subseteq Path /\ journal \in Seq(UndoOp) /\ Closed(fs) /\ JournalFits
      /\ None \in Val /\ Absent \in Node
  BY TargetsArePaths, NodeTypes DEF IInv, TypeOK, IsRun, TreeInv, Val
<1>2. UNCHANGED journal => JournalFits'
  BY <1>1 DEF JournalFits
<1>3. ASSUME NEW p, PreRemoveUnlink(p) PROVE TreeInv'
  <2>1. p \in Path /\ CanRemove(fs, p) /\ fs' = Put(fs, p, Absent) /\ p \in DOMAIN run.base
    BY <1>1, <1>3 DEF PreRemoveUnlink, RecordedLink, LinkTo, Plan, CanRemove, Exists, IsDir
  <2>2. Journals("relinkOld", p, run.base[p].src) /\ run.base[p].src \in Val
    BY <1>1, <1>3, <2>1, SourceType DEF PreRemoveUnlink, JournalRelink, Journals
  <2> QED BY <1>1, <2>1, <2>2, RemoveClosed, JournalsFits DEF TreeInv, UndoKind
<1>4. ASSUME NEW p, PreRemoveRmdir(p) PROVE TreeInv'
  <2>1. p \in Path
    BY <1>1, <1>4 DEF PreRemoveRmdir, Plan
  <2>2. \/ CanRemove(fs, p) /\ fs' = Put(fs, p, Absent) /\ Journals("mkdir", p, None)
        \/ UNCHANGED <<fs, journal>>
    BY <1>4 DEF PreRemoveRmdir, Journal, Journals
  <2> QED BY <1>1, <1>2, <2>1, <2>2, RemoveClosed, JournalsFits DEF TreeInv, UndoKind
<1>5. ASSUME NEW b, BackUp(b) PROVE TreeInv'
  <2>1. b \in Target /\ b \in Path /\ CanRename(fs, b, BackupOf[b]) /\ fs' = Rename(fs, b, BackupOf[b])
    BY <1>1, <1>5 DEF BackUp, Plan
  <2>2. Journals("restoreBackup", b, None)
    BY <1>5 DEF BackUp, Journal, Journals
  <2> QED BY <1>1, <2>1, <2>2, RenamesClosed, JournalsFits DEF TreeInv, UndoKind
<1>6. ASSUME NEW t, PlaceNew(t) PROVE TreeInv'
  <2>1. t \in Path /\ t \in DOMAIN run.next /\ CanMkdirs(fs, t) /\ ~Exists(fs, t)
        /\ fs' = Put(Mkdirs(fs, t), t, LinkTo(run.next[t].src))
    BY <1>1, <1>6 DEF PlaceNew, In, IInv, RunFits, Plan
  <2>2. Mkdirs(fs, t) \in Tree /\ Closed(Mkdirs(fs, t)) /\ InRealDir(Mkdirs(fs, t), t)
        /\ Mkdirs(fs, t)[t] = fs[t]
    BY <1>1, <2>1, MkdirsClosed, MkdirsTree, AboveOrder DEF Mkdirs
  <2>3. LinkTo(run.next[t].src) \in Node
    BY <1>1, <2>1, SourceType, NodeTypes
  <2>4. Journals("unlinkNew", t, None)
    BY <1>6 DEF PlaceNew, Journal, Journals
  <2> QED BY <1>1, <2>1, <2>2, <2>3, <2>4, LeafClosed, JournalsFits DEF TreeInv, UndoKind, Exists, IsDir
<1>7. ASSUME NEW t \in Relinks, RelinkUnlink(t) PROVE TreeInv'
  <2>1. t \in Path /\ CanRemove(fs, t) /\ fs' = Put(fs, t, Absent) /\ fs[t].val \in Val
    BY <1>1, <1>7 DEF RelinkUnlink, Relinks, Plan, CanRemove, Exists, IsDir, IsLink, Tree, Node
  <2>2. Journals("relinkOld", t, fs[t].val)
    BY <1>7 DEF RelinkUnlink, JournalRelink, Journals
  <2> QED BY <1>1, <2>1, <2>2, RemoveClosed, JournalsFits DEF TreeInv, UndoKind
<1>8. ASSUME NEW t \in Relinks, RelinkSymlink(t) PROVE TreeInv'
  <2>1. t \in Path /\ t \in DOMAIN run.next /\ InRealDir(fs, t) /\ ~IsDir(fs, t)
        /\ fs' = Put(fs, t, LinkTo(run.next[t].src)) /\ UNCHANGED journal
    BY <1>1, <1>8 DEF RelinkSymlink, In, IInv, RunFits, Plan, Relinks, Exists, IsDir
  <2>2. LinkTo(run.next[t].src) \in Node
    BY <1>1, <2>1, SourceType, NodeTypes
  <2> QED BY <1>1, <1>2, <2>1, <2>2, LeafClosed DEF TreeInv
<1>9. ASSUME NEW t, RecopyAside(t) PROVE TreeInv'
  <2>1. t \in Target /\ t \in Path /\ CanRename(fs, t, AsideOf[t]) /\ fs' = Rename(fs, t, AsideOf[t])
    BY <1>1, <1>9 DEF RecopyAside, Plan
  <2>2. Journals("restoreRename", t, None)
    BY <1>9 DEF RecopyAside, Journal, Journals
  <2> QED BY <1>1, <2>1, <2>2, RenamesClosed, JournalsFits DEF TreeInv, UndoKind
<1>10. ASSUME NEW t, CopyStart(t) PROVE TreeInv'
  <2> DEFINE g == Mkdirs(fs, t)
  <2>1. t \in Path /\ run.next[t].src \in Src /\ CanMkdirs(fs, t) /\ CanCopy(g, run.next[t].src, t)
        /\ fs' = BeginCopy(g, run.next[t].src, t)
    BY <1>10, CopyEntry DEF CopyStart
  <2>2. g \in Tree /\ Closed(g) /\ InRealDir(g, t)
    BY <1>1, <2>1, MkdirsClosed, MkdirsTree
  <2>3. Journals("removeCopy", t, None) \/ UNCHANGED journal
    BY <1>10 DEF CopyStart, Journal, Journals
  <2> HIDE DEF g
  <2>4. JournalFits'
    BY <1>1, <1>2, <2>1, <2>3, JournalsFits DEF UndoKind
  <2> QED BY <2>1, <2>2, <2>4, CopyClosed DEF TreeInv
<1>11. ASSUME NEW t \in plan.copies, CopyFinish(t) PROVE TreeInv'
  <2>1. t \in Path /\ run.next[t].src \in Src /\ UNCHANGED journal
    BY <1>11, CopyEntry DEF CopyFinish
  <2>2. fs' = fs \/ (Copying(t) /\ fs' = EndCopy(fs, run.next[t].src, t))
    BY <1>11 DEF CopyFinish
  <2>3. Copying(t) => Closed(EndCopy(fs, run.next[t].src, t))
    <3>1. Copying(t) => InRealDir(fs, t)
      BY <1>1, <2>1 DEF Copying, Closed, Exists, IsDir, FileOf
    <3> QED BY <1>1, <2>1, <3>1, CopyClosed DEF Copying, FileOf, IsFile
  <2> QED BY <1>1, <1>2, <2>1, <2>2, <2>3 DEF TreeInv
<1>12. ASSUME NEW t, CopyStuck(t) PROVE TreeInv'
  <2>1. t \in Path
    BY <1>1, <1>12 DEF CopyStuck, Plan
  <2>2. \/ CanMkdirs(fs, t) /\ fs' = Mkdirs(fs, t) /\ Journals("removeCopy", t, None)
        \/ UNCHANGED <<fs, journal>>
    BY <1>12 DEF CopyStuck, Journal, Journals
  <2> QED BY <1>1, <1>2, <2>1, <2>2, MkdirsClosed, JournalsFits DEF TreeInv, UndoKind
<1>13. ASSUME NEW t, ResetCopy(t) PROVE TreeInv'
  <2>1. t \in Path /\ fs' = Clear(fs, t) /\ UNCHANGED journal
    BY <1>1, <1>13 DEF ResetCopy, Plan
  <2> QED BY <1>1, <1>2, <2>1, ClearClosed DEF TreeInv
<1>14. ASSUME NEW t, RemoveStale(t) PROVE TreeInv'
  <2>1. t \in Path
    BY <1>1, <1>14 DEF RemoveStale, Plan
  <2>2. \/ StillStale(t) /\ fs' = Put(fs, t, Absent) /\ Journals("relinkOld", t, run.base[t].src)
        \/ UNCHANGED <<fs, journal>>
    BY <1>14 DEF RemoveStale, JournalRelink, Journals
  <2>3. StillStale(t) => CanRemove(fs, t) /\ run.base[t].src \in Val
    BY <1>1, SourceType DEF StillStale, RecordedLink, LinkTo, CanRemove, Exists, IsDir
  <2> QED BY <1>1, <1>2, <2>1, <2>2, <2>3, RemoveClosed, JournalsFits DEF TreeInv, UndoKind
<1>15. CASE PruneAncestor
  <2>1. \/ \E p \in Path : CanRemove(fs, p) /\ fs' = Put(fs, p, Absent) /\ Journals("mkdir", p, None)
        \/ UNCHANGED <<fs, journal>>
    BY <1>15 DEF PruneAncestor, Journal, Journals
  <2> QED BY <1>1, <1>2, <2>1, RemoveClosed, JournalsFits DEF TreeInv, UndoKind
<1>16. ASSUME NEW p, StageStuck(p) PROVE TreeInv'
  BY <1>1, <1>2, <1>16 DEF StageStuck, Fails, TreeInv
<1> QED BY <1>3, <1>4, <1>5, <1>6, <1>7, <1>8, <1>9, <1>10, <1>11, <1>12, <1>13, <1>14, <1>15, <1>16
        DEF StageStep

LEMMA UserTree ==
  ASSUME fs \in Tree, Closed(fs), UserStep
  PROVE  Closed(fs')
<1>1. UserPath \subseteq Path
  BY EngineAssumption
<1>2. ASSUME NEW p \in UserPath, NEW u \in User, UserWrite(p, u) PROVE Closed(fs')
  <2>1. InRealDir(fs, p) /\ ~IsDir(fs, p) /\ fs' = Put(fs, p, FileOf(u)) /\ FileOf(u) \in Node
    BY <1>2, NodeTypes DEF UserWrite, IsDir, Val
  <2> QED BY <1>1, <2>1, LeafClosed
<1>3. ASSUME NEW p \in UserPath, UserMkdir(p) PROVE Closed(fs')
  BY <1>1, <1>3, LeafClosed, NodeTypes DEF UserMkdir, Exists, IsDir
<1>4. ASSUME NEW p \in UserPath, NEW d \in Foreign, UserRelink(p, d) PROVE Closed(fs')
  <2>1. InRealDir(fs, p) /\ ~IsDir(fs, p) /\ fs' = Put(fs, p, LinkTo(d)) /\ LinkTo(d) \in Node
    BY <1>4, NodeTypes DEF UserRelink, IsDir, Val
  <2> QED BY <1>1, <2>1, LeafClosed
<1>5. ASSUME NEW p \in UserPath, UserDelete(p) PROVE Closed(fs')
  BY <1>1, <1>5, ClearClosed DEF UserDelete
<1> QED BY <1>2, <1>3, <1>4, <1>5 DEF UserStep

LEMMA NextTree ==
  ASSUME NamesApart
  PROVE  IInv /\ TreeInv /\ [Next]_vars => TreeInv'
<1> SUFFICES ASSUME IInv, TreeInv, [Next]_vars PROVE TreeInv'
  OBVIOUS
<1>1. fs \in Tree /\ Closed(fs) /\ plan \in Plan /\ Target \subseteq Path /\ journal \in Seq(UndoOp)
  BY TargetsArePaths DEF IInv, TypeOK, TreeInv
<1>2. CASE Start
  <2>1. UNCHANGED <<fs, journal>> \/ (fs' = fs /\ journal' = << >>)
    <3>1. ASSUME NEW m, NEW mod, StartApply(m, mod)
          PROVE  Refuse \/ \E r, p, C, ph : Begin(r, p, C, ph)
      BY <3>1, Zenon DEF StartApply
    <3>2. StartRollback => Refuse \/ \E r, p, C, ph : Begin(r, p, C, ph)
      BY Zenon DEF StartRollback
    <3>3. ASSUME NEW T, StartReset(T)
          PROVE  Refuse \/ \E r, p : Ask(r, p) \/ \E C, ph : Begin(r, p, C, ph)
      BY <3>3, Zenon DEF StartReset
    <3>4. Refuse \/ (\E r, p : Ask(r, p)) \/ \E r, p, C, ph : Begin(r, p, C, ph)
      BY <1>2, <3>1, <3>2, <3>3 DEF Start
    <3> QED BY <3>4 DEF Refuse, End, Begin, Ask
  <2> QED BY <2>1 DEF TreeInv, JournalFits
<1>3. CASE StageStep
  BY <1>3, StageStepTree
<1>4. CASE WriteRecord \/ Commit \/ PruneFault \/ ResetFault \/ UNCHANGED vars
  BY <1>4 DEF WriteRecord, Commit, PruneFault, ResetFault, vars, engineVars, TreeInv, JournalFits
<1>5. CASE Unwound \/ RecordAfterReset \/ CommitFault \/ ResetRecordFault \/ Crash
  BY <1>5 DEF Unwound, RecordAfterReset, CommitFault, ResetRecordFault, Crash, End, TreeInv, JournalFits
<1>6. CASE UndoStep
  <2>1. journal # << >> /\ fs' = Undo(fs, Last(journal)) /\ journal' = Front(journal)
    BY <1>6 DEF UndoStep
  <2>2. JournalFits' /\ Last(journal) \in UndoOp
        /\ (Last(journal).kind \in {"restoreRename", "restoreBackup"} => Last(journal).path \in Target)
    BY <1>1, <2>1, FrontIs DEF TreeInv, JournalFits
  <2> QED BY <1>1, <2>1, <2>2, UndoClosed DEF TreeInv
<1>7. CASE DiscardJournal
  <2>1. Asides \subseteq Path
    BY EngineAssumption DEF Asides, TreeInv, JournalFits
  <2>2. \A p \in Path : fs'[p] = IF \E q \in Asides : p \in At(q) THEN Absent ELSE fs[p]
    BY <1>7 DEF DiscardJournal
  <2>3. fs' \in Tree
    BY <1>1, <1>7, NodeTypes DEF DiscardJournal, Tree
  <2>4. Closed(fs')
    BY <1>1, <2>1, <2>2, <2>3, ClearedClosed
  <2> QED BY <1>7, <2>4 DEF DiscardJournal, End, TreeInv, JournalFits
<1>8. CASE StageFault
  <2>1. UNCHANGED fs \/ \E t \in Path : CanMkdirs(fs, t) /\ fs' = Mkdirs(fs, t)
    BY <1>1, <1>8 DEF StageFault, Plan
  <2>2. UNCHANGED journal
    BY <1>8 DEF StageFault, Fails
  <2> QED BY <1>1, <2>1, <2>2, MkdirsClosed DEF TreeInv, JournalFits
<1>9. CASE UserStep
  <2>1. UNCHANGED journal
    BY <1>9 DEF UserStep, UserWrite, UserMkdir, UserRelink, UserDelete, Edited
  <2> QED BY <1>1, <1>9, <2>1, UserTree DEF TreeInv, JournalFits
<1>10. CASE AnswerReset
  <2>1. fs' = fs /\ (journal' = journal \/ journal' = << >>)
    BY <1>10 DEF AnswerReset, Refuse, End
  <2> QED BY <2>1 DEF TreeInv, JournalFits
<1> QED BY <1>2, <1>3, <1>4, <1>5, <1>6, <1>7, <1>8, <1>9, <1>10 DEF Next, RunStep, Finish, Failure

LEMMA InitTree == Init => TreeInv
BY DEF Init, TreeInv, Closed, JournalFits, Exists, Absent

-----------------------------------------------------------------------------
(* What a plan has in store for what is at its targets.                     *)

LEMMA PlanCopiesOverNothing ==
  ASSUME NEW f \in Tree, Closed(f), NEW prev, NEW next, IsManifest(next), NEW backup,
         NEW t \in Compute(f, prev, next, backup).copies
  PROVE  t \in Compute(f, prev, next, backup).backup \/ \A r \in At(t) : ~IsFile(f, r)
<1>1. t \in Path /\ t \in DOMAIN next
  BY ManifestTypes
     DEF Compute, AbsentCopies, Swapped, Cleared
<1>2. \A r \in At(t) : r \in Path /\ (~Exists(f, r) => ~IsFile(f, r))
  BY <1>1, AboveBelow DEF Exists, IsFile
<1>3. CASE t \in AbsentCopies(f, next)
  BY <1>1, <1>2, <1>3, NothingUnder DEF AbsentCopies
<1>4. CASE t \in Swapped(f, prev, next)
  <2>1. f[t].kind = "link"
    BY <1>4 DEF Swapped, RecordedLink, LinkTo
  <2>2. \A r \in Below[t] : ~Exists(f, r)
    BY <1>1, <2>1, NothingBelow DEF IsDir
  <2> QED BY <1>1, <1>2, <2>1, <2>2 DEF At, IsFile
<1>5. CASE t \in Beneath(f, prev, next)
  <2>1. ~InRealDir(f, t)
    BY <1>5 DEF Beneath, UnderLink, SymlinksAbove, InRealDir, IsLink, IsDir
  <2> QED BY <1>1, <1>2, <2>1, NothingUnder
<1>6. CASE t \in SetAside(f, prev, next, backup)
  BY <1>6 DEF Compute
<1> QED BY <1>3, <1>4, <1>5, <1>6 DEF Compute, Cleared

\* No entry of the manifest is inside the target of another.
Unnested(m) == \A s, t \in DOMAIN m : s \notin Below[t]

LEMMA PlanUnlinksOutside ==
  ASSUME NEW f \in Tree, NEW prev, NEW next, IsManifest(next), Unnested(next), NEW backup,
         NEW b \in Compute(f, prev, next, backup).backup,
         NEW q \in Compute(f, prev, next, backup).unlink
  PROVE  q \notin At(b)
<1> SUFFICES ASSUME q \in At(b) PROVE FALSE
  OBVIOUS
<1>1. b \in Moved(f, prev, next) /\ q \in Unlinked(f, prev, next)
  BY DEF Compute, SetAside
<1>2. b \in DOMAIN next /\ DOMAIN next \subseteq Path
  BY <1>1, ManifestTypes
     DEF Moved, Blocked, Unknown, Mismatched, Present, Occupied, Links
<1>3. ASSUME NEW t \in DOMAIN next, t \in Below[b] PROVE FALSE
  BY <1>2, <1>3 DEF Unnested
<1>4. CASE q \in Ancestors(f, prev, next)
  <2>1. PICK t \in DOMAIN next : q \in Above[t]
    BY <1>4 DEF Ancestors, Beneath, UnderLink, SymlinksAbove
  <2>2. t \in Below[b]
    BY <1>2, <2>1, AtOrder, AboveOrder DEF Above
  <2> QED BY <1>3, <2>2
<1>5. CASE q \in Swapped(f, prev, next)
  <2>1. q \in DOMAIN next /\ q = b
    BY <1>3, <1>5 DEF Swapped, Copies, At
  <2> QED BY <1>1, <1>5, <2>1
          DEF Moved, Blocked, Unknown, Mismatched, Present, Swapped, Occupied, Links, Symlinks, Copies
<1>6. CASE q \in InMigrated(f, prev, next)
  <2>1. PICK t \in Migrated(f, prev, next) : q \in At(t)
    BY <1>6 DEF InMigrated
  <2>2. t \in DOMAIN next /\ t \in Path /\ q \in Path
    BY <1>2, <2>1, AboveBelow DEF Migrated, Occupied, Links, Symlinks
  <2>3. t = b
    BY <1>2, <2>1, <2>2, AtOrder DEF Unnested, At
  <2> QED BY <1>1, <2>1, <2>3
          DEF Moved, Blocked, Unknown, Mismatched, Present, Migrated, Occupied, Links, Symlinks, Copies,
              IsDir, IsFile
<1> QED BY <1>1, <1>4, <1>5, <1>6 DEF Unlinked

-----------------------------------------------------------------------------
(* The user's data.  The hypotheses on names and on the user:               *)

\* The paths with a name in them that --recopy uses for its asides.
Scratch == {p \in Path : \E i \in DOMAIN p : \E t \in Target : p[i] = Last(AsideOf[t])}

\* The user edits between the runs, and not in layat's scratch; neither a target
\* nor a backup is there; and a manifest for --backup has no entry inside another.
UserApart ==
  /\ UserDuringRun = FALSE
  /\ (UserPath \cup Target \cup {BackupOf[t] : t \in Target}) \cap Scratch = {}
  /\ (\E mod \in Modifiers : mod.backup) => \A m \in Manifests : Unnested(m)

\* f holds at p what the user has not agreed to lose.
Owns(f, p) == \E u \in owned : f[p] = FileOf(u)

\* Where undoing an entry of the journal may destroy what is there.
Guards(op) ==
  CASE op.kind \in {"unlinkNew", "relinkOld"} -> {op.path}
    [] op.kind \in {"removeCopy", "restoreRename", "restoreBackup"} -> At(op.path)
    [] op.kind = "mkdir" -> {}

ScratchSpared == \A p \in Scratch : ~Owns(fs, p)

\* Nothing of the user is where the rest of the plan writes or removes, or it
\* is backed up first, or a reset still asks for it.
PlanSpares ==
  /\ phase = "stages" =>
       /\ \A p \in plan.rmdir : ~Owns(fs, p)
       /\ \A t \in plan.copies :
            (t \in plan.backup /\ ~run.recopy) \/ \A r \in At(t) : ~Owns(fs, r)
       /\ \A b \in plan.backup : plan.unlink \cap At(b) = {}
       /\ \A b, c \in plan.backup : b \notin Below[c]
       /\ mid # NoMid => plan.backup = {}
  /\ phase = "teardown" =>
       \A t \in plan.copies :
         ~NotDirAbove(fs, t) /\ (mid = Asking \/ \A r \in At(t) : ~Owns(fs, r))
  /\ mid.step = "prune" => ~NotDirAbove(fs, mid.path)
  /\ phase \notin {"stages", "teardown"} => mid = NoMid
  /\ phase = "idle" => journal = << >>

\* Nothing of the user is where the journal will remove, and what a backup
\* brings back arrives where no older entry removes.
JournalSpares ==
  phase \in {"stages", "unwind"} =>
    /\ \A i \in DOMAIN journal : \A r \in Guards(journal[i]) : ~Owns(fs, r)
    /\ \A i, j \in DOMAIN journal :
         i < j /\ journal[j].kind = "restoreBackup" =>
           Guards(journal[i]) \cap At(journal[j].path) = {}
    /\ phase = "stages" => \A b \in plan.backup : \A i \in DOMAIN journal :
         Guards(journal[i]) \cap (At(b) \cup At(BackupOf[b])) = {}

UserInv == UserDataKept /\ ScratchSpared /\ PlanSpares /\ JournalSpares

LEMMA AsideIsScratch ==
  ASSUME NEW t \in Target
  PROVE  At(AsideOf[t]) \subseteq Scratch
<1> DEFINE q == AsideOf[t]
<1>1. q \in Path /\ Len(q) \in DOMAIN q
  BY EngineAssumption, PathSequence
<1>2. SUFFICES ASSUME NEW p \in At(q) PROVE p \in Scratch
  OBVIOUS
<1>3. p \in Path
  BY <1>1, <1>2, AboveBelow
<1>4. Len(q) \in DOMAIN p /\ p[Len(q)] = Last(q)
  BY <1>1, <1>2, <1>3, InAt, PathSequence DEF Last
<1> QED BY <1>3, <1>4 DEF Scratch

\* A backup takes layat's scratch along, and so does bringing it back.
LEMMA RebaseKeepsScratch ==
  ASSUME NEW t \in Path, NEW q \in Path \ Scratch, NEW p \in At(q) \cap Scratch,
         Rebase(t, q, p) \in Path
  PROVE  Rebase(t, q, p) \in Scratch
<1> DEFINE r == Rebase(t, q, p)
<1>1. p \in Path /\ q \notin Scratch /\ r \in Path
  BY AboveBelow
<1>2. Len(q) \in Nat /\ Len(t) \in Nat /\ Len(p) \in Nat /\ DOMAIN p = 1 .. Len(p)
      /\ DOMAIN q = 1 .. Len(q) /\ DOMAIN r = 1 .. Len(r)
  BY <1>1, PathSequence
<1>3. Len(q) <= Len(p) /\ \A i \in 1 .. Len(q) : q[i] = p[i]
  BY <1>1, InAt
<1>4. /\ Len(r) = Len(t) + Len(p) - Len(q)
      /\ \A i \in 1 .. Len(p) - Len(q) : r[Len(t) + i] = p[Len(q) + i]
  BY <1>1, RebaseIs
<1> PICK i \in DOMAIN p : \E s \in Target : p[i] = Last(AsideOf[s])
  BY DEF Scratch
<1> HIDE DEF r
<1>5. i > Len(q)
  BY <1>1, <1>2, <1>3 DEF Scratch
<1>6. i - Len(q) \in 1 .. Len(p) - Len(q) /\ Len(q) + (i - Len(q)) = i
      /\ Len(t) + (i - Len(q)) \in DOMAIN r
  BY <1>2, <1>3, <1>4, <1>5
<1>7. r[Len(t) + (i - Len(q))] = p[i]
  BY <1>4, <1>6
<1>8. r \in Scratch
  BY <1>1, <1>6, <1>7 DEF Scratch
<1> QED BY <1>8 DEF r

-----------------------------------------------------------------------------
(* Changes of the tree that leave the user's data where it is.              *)

Spares(f, g) == \A p \in Path : g[p] = f[p] \/ (~Owns(f, p) /\ ~Owns(g, p))

LEMMA OwnsIs ==
  ASSUME NEW f, NEW p, Owns(f, p)
  PROVE  f[p].kind = "file" /\ f[p].val \in owned /\ f[p] = FileOf(f[p].val)
<1>1. PICK u \in owned : f[p] = [kind |-> "file", val |-> u]
  BY DEF Owns, FileOf
<1> QED BY <1>1 DEF FileOf

LEMMA NotFileNotOwned ==
  ASSUME NEW f, NEW p, ~IsFile(f, p)
  PROVE  ~Owns(f, p)
BY OwnsIs DEF IsFile

LEMMA NotOwned ==
  ASSUME owned \subseteq User, NEW f, NEW p, NEW s \in Src,
         f[p] \in {Absent, Dir, FileOf(s), FileOf(Partial)} \/ f[p].kind = "link"
  PROVE  ~Owns(f, p)
<1> SUFFICES ASSUME Owns(f, p) PROVE FALSE
  OBVIOUS
<1>1. f[p].kind = "file" /\ f[p].val \in User
  BY OwnsIs
<1>2. f[p].val \in {s, Partial}
  BY <1>1 DEF Absent, Dir, FileOf
<1> QED BY <1>1, <1>2, DataAssumption

LEMMA PutSpares ==
  ASSUME owned \subseteq User, NEW f \in Tree, NEW p, NEW s \in Src,
         NEW n \in {Absent, Dir, LinkTo(s), FileOf(s), FileOf(Partial)},
         p \in Path => ~Owns(f, p)
  PROVE  Spares(f, Put(f, p, n))
<1>1. CASE p \in Path
  <2>1. \A q \in Path : Put(f, p, n)[q] = IF q = p THEN n ELSE f[q]
    BY <1>1 DEF Put, Tree
  <2>2. ~Owns(Put(f, p, n), p)
    BY <1>1, <2>1, NotOwned DEF LinkTo
  <2> QED BY <2>1, <2>2 DEF Spares
<1>2. CASE p \notin Path
  BY <1>2 DEF Put, Tree, Spares
<1> QED BY <1>1, <1>2

LEMMA RemoveSpares ==
  ASSUME owned \subseteq User, NEW f \in Tree, NEW p, p \in Path => ~Owns(f, p)
  PROVE  Spares(f, Put(f, p, Absent)) /\ Spares(f, Put(f, p, Dir))
<1>1. \A q \in Path : q # p => Put(f, p, Absent)[q] = f[q] /\ Put(f, p, Dir)[q] = f[q]
  BY DEF Put, Tree
<1>2. p \in Path => Put(f, p, Absent)[p] = Absent /\ Put(f, p, Dir)[p] = Dir
  BY DEF Put, Tree
<1>3. p \in Path => ~Owns(Put(f, p, Absent), p) /\ ~Owns(Put(f, p, Dir), p)
  BY <1>2 DEF Owns, Absent, Dir, FileOf
<1> QED BY <1>1, <1>3 DEF Spares

LEMMA MkdirsSpares ==
  ASSUME NEW f \in Tree, NEW p
  PROVE  Spares(f, Mkdirs(f, p))
<1> DEFINE g == Mkdirs(f, p)
<1>1. \A q \in Path : g[q] = f[q] \/ (f[q].kind = "absent" /\ g[q].kind = "dir")
  BY DEF Mkdirs, Exists, Dir
<1> HIDE DEF g
<1>2. \A q \in Path : g[q] = f[q] \/ (~Owns(f, q) /\ ~Owns(g, q))
  BY <1>1, OwnsIs
<1> QED BY <1>2 DEF Spares, g

LEMMA ClearSpares ==
  ASSUME NEW f \in Tree, NEW p, \A r \in At(p) : ~Owns(f, r)
  PROVE  Spares(f, Clear(f, p))
BY DEF Spares, Clear, Owns, Absent, FileOf

LEMMA SparesTwice ==
  ASSUME NEW f, NEW g, NEW h, Spares(f, g), Spares(g, h)
  PROVE  Spares(f, h)
BY DEF Spares, Owns

\* A rename of what is not the user's over what is not.
LEMMA RenameSpares ==
  ASSUME NEW f \in Tree, NEW p, NEW q, Movable(p, q),
         \A r \in At(p) \cup At(q) : ~Owns(f, r)
  PROVE  Spares(f, Rename(f, p, q))
<1> DEFINE g == Rename(f, p, q)
<1>1. \A r \in Path : g[r] = IF r \in At(q) THEN f[Rebase(p, q, r)]
                             ELSE IF r \in At(p) THEN Absent ELSE f[r]
  BY RenameIs
<1>2. p \in Path /\ q \in Path /\ \A r \in At(q) : Rebase(p, q, r) \in Path
  BY DEF Movable
<1>3. \A r \in At(q) : Rebase(p, q, r) \in At(p)
  BY <1>2, RebaseAt
<1> HIDE DEF g
<1>4. ASSUME NEW r \in Path PROVE g[r] = f[r] \/ (~Owns(f, r) /\ ~Owns(g, r))
  <2>1. CASE r \in At(q)
    BY <1>1, <1>3, <2>1 DEF Owns
  <2>2. CASE r \in At(p) /\ r \notin At(q)
    <3>1. g[r].kind = "absent"
      BY <1>1, <2>2 DEF Absent
    <3> QED BY <2>2, <3>1, OwnsIs
  <2> QED BY <1>1, <2>1, <2>2
<1> QED BY <1>4 DEF Spares, g

LEMMA SparedData ==
  ASSUME owned' = owned, Spares(fs, fs')
  PROVE  /\ \A p \in Path : ~Owns(fs, p) => ~Owns(fs, p)'
         /\ UserDataKept => UserDataKept'
         /\ ScratchSpared => ScratchSpared'
<1>1. \A p \in Path : ~Owns(fs, p) => ~Owns(fs, p)'
  BY DEF Spares, Owns
<1>2. UserDataKept => UserDataKept'
  BY DEF UserDataKept, Spares, Owns
<1> QED BY <1>1, <1>2 DEF ScratchSpared, Scratch

-----------------------------------------------------------------------------
(* One lemma for each way a step treats the user's data.                    *)

LEMMA GuardsPath ==
  ASSUME NEW op \in UndoOp
  PROVE  Guards(op) \subseteq Path
<1>1. op.path \in Path /\ op.kind \in UndoKind
  BY DEF UndoOp
<1> QED BY <1>1, AboveBelow DEF Guards, UndoKind

\* The journal grows by an entry that guards nothing of the user's, or stays.
LEMMA JournalGrows ==
  ASSUME journal \in Seq(UndoOp), JournalSpares, phase = "stages", phase' \in {"stages", "unwind"},
         owned' = owned, Spares(fs, fs'), plan'.backup = plan.backup \/ phase' = "unwind",
         \/ UNCHANGED journal
         \/ \E e \in UndoOp :
              /\ journal' = Append(journal, e) /\ e.kind # "restoreBackup"
              /\ \A r \in Guards(e) : ~Owns(fs', r)
              /\ plan.backup = {} \/ \A b \in plan.backup : Guards(e) \cap (At(b) \cup At(BackupOf[b])) = {}
  PROVE  JournalSpares'
<1>1. ASSUME NEW i \in DOMAIN journal, NEW r \in Guards(journal[i])
      PROVE  ~Owns(fs, r)'
  <2>1. ~Owns(fs, r) /\ r \in Path
    BY <1>1, GuardsPath DEF JournalSpares
  <2> QED BY <2>1, SparedData
<1>2. CASE UNCHANGED journal
  BY <1>1, <1>2 DEF JournalSpares, Guards
<1>3. CASE \E e \in UndoOp :
             /\ journal' = Append(journal, e) /\ e.kind # "restoreBackup"
             /\ \A r \in Guards(e) : ~Owns(fs', r)
             /\ plan.backup = {} \/ \A b \in plan.backup : Guards(e) \cap (At(b) \cup At(BackupOf[b])) = {}
  <2>1. PICK e \in UndoOp :
             /\ journal' = Append(journal, e) /\ e.kind # "restoreBackup"
             /\ \A r \in Guards(e) : ~Owns(fs', r)
             /\ plan.backup = {} \/ \A b \in plan.backup : Guards(e) \cap (At(b) \cup At(BackupOf[b])) = {}
    BY <1>3
  <2> DEFINE n == Len(journal) + 1
  <2>2. /\ DOMAIN journal' = DOMAIN journal \cup {n} /\ n \notin DOMAIN journal
        /\ \A i \in DOMAIN journal : journal'[i] = journal[i] /\ i < n /\ i \in Nat
        /\ journal'[n] = e /\ n \in Nat
    BY <2>1, AppendIs
  <2> HIDE DEF n
  <2>3. \A r \in Guards(e) : ~Owns(fs, r)'
    BY <2>1 DEF Owns
  <2>4. (\A i \in DOMAIN journal : \A r \in Guards(journal[i]) : ~Owns(fs, r))'
    BY <1>1, <2>2, <2>3
  <2>5. ASSUME NEW i \in DOMAIN journal', NEW j \in DOMAIN journal', i < j,
               journal'[j].kind = "restoreBackup"
        PROVE  Guards(journal'[i]) \cap At(journal'[j].path) = {}
    <3>1. j \in DOMAIN journal /\ i \in DOMAIN journal
      BY <2>1, <2>2, <2>5
    <3> QED BY <2>2, <2>5, <3>1 DEF JournalSpares
  <2>6. ASSUME phase' = "stages", NEW b \in plan'.backup, NEW i \in DOMAIN journal'
        PROVE  Guards(journal'[i]) \cap (At(b) \cup At(BackupOf[b])) = {}
    <3>1. b \in plan.backup
      BY <2>6
    <3>2. CASE i = n
      BY <2>1, <2>2, <3>1, <3>2
    <3>3. CASE i \in DOMAIN journal
      BY <2>2, <3>1, <3>3 DEF JournalSpares
    <3> QED BY <2>2, <3>2, <3>3
  <2> QED BY <2>4, <2>5, <2>6 DEF JournalSpares
<1> QED BY <1>2, <1>3

\* A stage step that writes where nothing of the user is.
LEMMA StageSpares ==
  ASSUME IInv, UserInv, phase = "stages", phase' = "stages", UNCHANGED <<run, owned>>,
         Spares(fs, fs'),
         plan'.rmdir \subseteq plan.rmdir, plan'.unlink \subseteq plan.unlink,
         plan'.copies \subseteq plan.copies, plan'.backup = plan.backup,
         mid' # NoMid => plan.backup = {},
         mid'.step = "prune" => ~NotDirAbove(fs, mid.path)',
         JournalSpares'
  PROVE  UserInv'
<1>1. UserDataKept' /\ ScratchSpared' /\ \A p \in Path : ~Owns(fs, p) => ~Owns(fs, p)'
  BY SparedData DEF UserInv
<1>2. plan \in Plan /\ \A t \in plan.copies : At(t) \subseteq Path
  BY AboveBelow, TargetsArePaths DEF IInv, TypeOK, Plan
<1>3. (\A p \in plan.rmdir : ~Owns(fs, p))'
  BY <1>1, <1>2 DEF UserInv, PlanSpares, Plan
<1>4. (\A t \in plan.copies :
          (t \in plan.backup /\ ~run.recopy) \/ \A r \in At(t) : ~Owns(fs, r))'
  BY <1>1, <1>2 DEF UserInv, PlanSpares
<1>5. /\ \A b \in plan'.backup : plan'.unlink \cap At(b) = {}
      /\ \A b, c \in plan'.backup : b \notin Below[c]
      /\ mid' # NoMid => plan'.backup = {}
  BY DEF UserInv, PlanSpares
<1> QED BY <1>1, <1>3, <1>4, <1>5 DEF UserInv, PlanSpares

\* A failing stage: the journal and the user's data are as they were.
LEMMA FailSpares ==
  ASSUME UserInv, phase' = "unwind", owned' = owned, mid' = NoMid, Spares(fs, fs'), JournalSpares'
  PROVE  UserInv'
<1>1. UserDataKept' /\ ScratchSpared'
  BY SparedData DEF UserInv
<1> QED BY <1>1 DEF UserInv, PlanSpares, NoMid

\* A step of a reset.
LEMMA TeardownSpares ==
  ASSUME IInv, UserInv, phase = "teardown", phase' = "teardown", owned' = owned,
         mid # Asking,
         Spares(fs, fs'), plan'.copies \subseteq plan.copies,
         \A p \in Path : IsFile(fs', p) => IsFile(fs, p),
         mid'.step = "prune" => ~NotDirAbove(fs, mid.path)'
  PROVE  UserInv'
<1>1. UserDataKept' /\ ScratchSpared' /\ \A p \in Path : ~Owns(fs, p) => ~Owns(fs, p)'
  BY SparedData DEF UserInv
<1>2. plan \in Plan /\ \A t \in plan.copies : At(t) \subseteq Path /\ Above[t] \subseteq Path
  BY AboveBelow, TargetsArePaths DEF IInv, TypeOK, Plan
<1>3. (\A t \in plan.copies : ~NotDirAbove(fs, t) /\ \A r \in At(t) : ~Owns(fs, r))'
  BY <1>1, <1>2 DEF UserInv, PlanSpares, NotDirAbove
<1> QED BY <1>1, <1>3 DEF UserInv, PlanSpares, JournalSpares

\* Any other step that leaves the user's data where it is and no stage under way.
LEMMA OtherSpares ==
  ASSUME UserInv, phase' \in {"idle", "commit", "discard"}, owned' = owned, Spares(fs, fs'),
         mid' = NoMid, phase' = "idle" => journal' = << >>
  PROVE  UserInv'
<1>1. UserDataKept' /\ ScratchSpared'
  BY SparedData DEF UserInv
<1> QED BY <1>1 DEF UserInv, PlanSpares, JournalSpares, NoMid

-----------------------------------------------------------------------------
(* The stages. *)

LEMMA StageFacts ==
  ASSUME IInv
  PROVE  /\ fs \in Tree /\ plan \in Plan /\ journal \in Seq(UndoOp) /\ owned \subseteq User
         /\ IsManifest(run.base) /\ IsManifest(run.next) /\ Target \subseteq Path
         /\ None \in Val /\ NoMid.step # "prune" /\ \A s, p : s # "none" => Mid(s, p) # NoMid
         /\ Asking.step = "ask" /\ Asking # NoMid
         /\ \A s, p : Mid(s, p).step = s /\ Mid(s, p).path = p
BY TargetsArePaths DEF IInv, TypeOK, IsRun, NoMid, Asking, Mid, Val

LEMMA PreRemoveSpares ==
  ASSUME NamesApart, IInv, UserInv, NEW p, PreRemoveUnlink(p) \/ PreRemoveRmdir(p)
  PROVE  UserInv'
<1>1. /\ phase = "stages" /\ phase' = phase /\ UNCHANGED <<run, owned, mid>> /\ mid = NoMid
  BY DEF PreRemoveUnlink, PreRemoveRmdir, In, Writes, ghostVars
<1>2. plan \in Plan /\ fs \in Tree /\ owned \subseteq User /\ journal \in Seq(UndoOp)
      /\ IsManifest(run.base) /\ None \in Val /\ NoMid.step # "prune"
  BY StageFacts
<1>3. CASE PreRemoveUnlink(p)
  <2>1. p \in Path /\ p \in plan.unlink /\ p \in DOMAIN run.base /\ IsLink(fs, p)
        /\ fs' = Put(fs, p, Absent) /\ plan' = [plan EXCEPT !.unlink = @ \ {p}]
    BY <1>2, <1>3 DEF PreRemoveUnlink, RecordedLink, LinkTo, IsLink, Plan
  <2>2. Spares(fs, fs') /\ ~Owns(fs', p)
    <3>1. fs'[p].kind = "absent"
      BY <1>2, <2>1 DEF Put, Tree, Absent
    <3>2. ~IsFile(fs, p)
      BY <2>1 DEF IsFile, IsLink
    <3> QED BY <1>2, <2>1, <3>1, <3>2, RemoveSpares, NotFileNotOwned DEF IsFile
  <2> DEFINE e == [kind |-> "relinkOld", path |-> p, dest |-> run.base[p].src]
  <2>3. e \in UndoOp /\ journal' = Append(journal, e) /\ Guards(e) = {p}
    BY <1>2, <1>3, <2>1, SourceType DEF PreRemoveUnlink, JournalRelink, UndoOp, UndoKind, Guards
  <2>4. e.kind # "restoreBackup"
    OBVIOUS
  <2>5. \A b \in plan.backup : p \notin At(b) /\ p \notin At(BackupOf[b])
    <3>1. plan.backup \subseteq Target /\ p \in Target
      BY <1>2, <2>1 DEF Plan, IsManifest
    <3> QED BY <1>1, <2>1, <3>1 DEF UserInv, PlanSpares, NamesApart
  <2> HIDE DEF e
  <2>6. /\ plan'.rmdir = plan.rmdir /\ plan'.unlink \subseteq plan.unlink
        /\ plan'.copies = plan.copies /\ plan'.backup = plan.backup
    BY <1>2, <2>1 DEF Plan
  <2>7. JournalSpares'
    BY <1>1, <1>2, <2>2, <2>3, <2>4, <2>5, <2>6, JournalGrows DEF UserInv
  <2> QED BY <1>1, <1>2, <2>2, <2>6, <2>7, StageSpares
<1>4. CASE PreRemoveRmdir(p)
  <2>1. p \in Path /\ p \in plan.rmdir /\ plan' = [plan EXCEPT !.rmdir = @ \ {p}]
    BY <1>2, <1>4 DEF PreRemoveRmdir, Plan
  <2> DEFINE e == [kind |-> "mkdir", path |-> p, dest |-> None]
  <2>2. \/ fs' = Put(fs, p, Absent) /\ journal' = Append(journal, e)
        \/ UNCHANGED <<fs, journal>>
    BY <1>4 DEF PreRemoveRmdir, Journal
  <2>3. e \in UndoOp /\ Guards(e) = {} /\ e.kind # "restoreBackup"
    BY <1>2, <2>1 DEF UndoOp, UndoKind, Guards
  <2>4. Spares(fs, fs')
    <3>1. ~Owns(fs, p)
      BY <1>1, <2>1 DEF UserInv, PlanSpares
    <3>2. UNCHANGED fs => Spares(fs, fs')
      BY DEF Spares
    <3> QED BY <1>2, <2>1, <2>2, <3>1, <3>2, RemoveSpares
  <2> HIDE DEF e
  <2>6. /\ plan'.rmdir \subseteq plan.rmdir /\ plan'.unlink = plan.unlink
        /\ plan'.copies = plan.copies /\ plan'.backup = plan.backup
    BY <1>2, <2>1 DEF Plan
  <2>7. JournalSpares'
    BY <1>1, <1>2, <2>2, <2>3, <2>4, <2>6, JournalGrows DEF UserInv
  <2> QED BY <1>1, <1>2, <2>4, <2>6, <2>7, StageSpares
<1> QED BY <1>3, <1>4

\* A step of the stages after the backups.
LEMMA LateSpares ==
  ASSUME IInv, UserInv, phase = "stages", phase' = "stages", UNCHANGED <<run, owned>>,
         plan.backup = {}, Spares(fs, fs'), plan'.copies \subseteq plan.copies,
         plan'.rmdir = plan.rmdir, plan'.unlink = plan.unlink, plan'.backup = plan.backup,
         mid'.step = "prune" => ~NotDirAbove(fs, mid.path)',
         \/ UNCHANGED journal
         \/ \E e \in UndoOp :
              /\ journal' = Append(journal, e) /\ e.kind # "restoreBackup"
              /\ \A r \in Guards(e) : ~Owns(fs', r)
  PROVE  UserInv'
<1>1. journal \in Seq(UndoOp)
  BY StageFacts
<1>2. JournalSpares'
  BY <1>1, JournalGrows DEF UserInv
<1> QED BY <1>2, StageSpares

LEMMA PlaceSpares ==
  ASSUME IInv, UserInv, NEW t, PlaceNew(t) \/ (t \in Relinks /\ (RelinkUnlink(t) \/ RelinkSymlink(t)))
  PROVE  UserInv'
<1>1. phase = "stages" /\ phase' = phase /\ UNCHANGED <<run, owned>>
  BY DEF PlaceNew, RelinkUnlink, RelinkSymlink, In, Writes, ghostVars
<1>2. plan \in Plan /\ fs \in Tree /\ owned \subseteq User /\ IsManifest(run.next) /\ None \in Val
      /\ NoMid.step # "prune" /\ Mid("relink", t).step # "prune" /\ Mid("relink", t) # NoMid
  BY StageFacts
<1>3. t \in Path /\ t \in DOMAIN run.next /\ run.next[t].src \in Src
  BY <1>1, <1>2, TargetsArePaths, SourceType DEF PlaceNew, IInv, RunFits, Plan, Relinks
<1>4. plan.backup = {}
  <2>1. CASE In("place")
    BY <2>1 DEF In, Stage
  <2>2. CASE RelinkSymlink(t)
    BY <1>1, <1>2, <2>2 DEF RelinkSymlink, UserInv, PlanSpares
  <2> QED BY <2>1, <2>2 DEF PlaceNew, RelinkUnlink
<1>5. /\ plan'.copies = plan.copies /\ plan'.rmdir = plan.rmdir /\ plan'.unlink = plan.unlink
      /\ plan'.backup = plan.backup /\ mid'.step # "prune"
  BY <1>2 DEF PlaceNew, RelinkUnlink, RelinkSymlink, Plan, In
<1>6. CASE PlaceNew(t)
  <2> DEFINE g == Mkdirs(fs, t)
             e == [kind |-> "unlinkNew", path |-> t, dest |-> None]
  <2>1. fs' = Put(g, t, LinkTo(run.next[t].src)) /\ ~Exists(fs, t) /\ journal' = Append(journal, e)
    BY <1>6 DEF PlaceNew, Journal
  <2>2. g \in Tree /\ Spares(fs, g) /\ g[t] = fs[t]
    BY <1>2, <1>3, MkdirsTree, MkdirsSpares, AboveOrder DEF Mkdirs
  <2>3. ~IsFile(g, t)
    BY <2>1, <2>2 DEF Exists, IsFile
  <2> HIDE DEF g
  <2>4. Spares(g, fs')
    BY <1>2, <1>3, <2>1, <2>2, <2>3, PutSpares, NotFileNotOwned
  <2>5. ~Owns(fs', t)
    BY <1>3, <2>1, <2>2, NotFileNotOwned DEF Put, Tree, LinkTo, IsFile
  <2>6. e \in UndoOp /\ Guards(e) = {t} /\ e.kind # "restoreBackup"
    BY <1>2, <1>3 DEF UndoOp, UndoKind, Guards
  <2> HIDE DEF e
  <2> QED BY <1>1, <1>4, <1>5, <2>1, <2>2, <2>4, <2>5, <2>6, SparesTwice, LateSpares
<1>7. CASE RelinkUnlink(t)
  <2> DEFINE e == [kind |-> "relinkOld", path |-> t, dest |-> fs[t].val]
  <2>1. fs' = Put(fs, t, Absent) /\ IsLink(fs, t) /\ journal' = Append(journal, e)
    BY <1>7 DEF RelinkUnlink, JournalRelink
  <2>2. Spares(fs, fs')
    BY <1>2, <2>1, RemoveSpares, NotFileNotOwned DEF IsFile, IsLink
  <2>3. ~Owns(fs', t)
    BY <1>2, <1>3, <2>1, NotFileNotOwned DEF Put, Tree, Absent, IsFile
  <2>4. e \in UndoOp /\ Guards(e) = {t} /\ e.kind # "restoreBackup"
    BY <1>2, <1>3 DEF UndoOp, UndoKind, Guards, Tree, Node
  <2> HIDE DEF e
  <2> QED BY <1>1, <1>4, <1>5, <2>1, <2>2, <2>3, <2>4, LateSpares
<1>8. CASE RelinkSymlink(t)
  <2>1. fs' = Put(fs, t, LinkTo(run.next[t].src)) /\ ~IsFile(fs, t) /\ UNCHANGED journal
    BY <1>8 DEF RelinkSymlink, Exists, IsFile
  <2>2. Spares(fs, fs')
    BY <1>2, <1>3, <2>1, PutSpares, NotFileNotOwned
  <2> QED BY <1>1, <1>4, <1>5, <2>1, <2>2, LateSpares
<1> QED BY <1>6, <1>7, <1>8

\* With the backups done, nothing of the user is where a copy will be.
LEMMA CopySpot ==
  ASSUME IInv, UserInv, phase = "stages", plan.backup = {}, NEW t \in plan.copies
  PROVE  /\ t \in Target /\ t \in Path /\ At(t) \subseteq Path /\ run.next[t].src \in Src
         /\ \A r \in At(t) : ~Owns(fs, r)
<1>1. t \in Target /\ t \in Path /\ run.next[t].src \in Src
  BY CopyEntry DEF IInv, TypeOK, Plan
<1> QED BY <1>1, AboveBelow DEF UserInv, PlanSpares

LEMMA CopyJournals ==
  ASSUME IInv, NEW t \in Target, NEW kind \in {"removeCopy", "restoreRename"},
         \A r \in At(t) : ~Owns(fs, r), Spares(fs, fs'), owned' = owned,
         UNCHANGED journal \/ journal' = Journal(kind, t)
  PROVE  \/ UNCHANGED journal
         \/ \E e \in UndoOp :
              /\ journal' = Append(journal, e) /\ e.kind # "restoreBackup"
              /\ \A r \in Guards(e) : ~Owns(fs', r)
<1> DEFINE e == [kind |-> kind, path |-> t, dest |-> None]
<1>1. t \in Path /\ At(t) \subseteq Path /\ None \in Val
  BY TargetsArePaths, AboveBelow, StageFacts
<1>2. e \in UndoOp /\ Guards(e) = At(t) /\ e.kind # "restoreBackup"
  BY <1>1 DEF UndoOp, UndoKind, Guards
<1>3. \A r \in At(t) : ~Owns(fs', r)
  BY <1>1 DEF Spares, Owns
<1> QED BY <1>2, <1>3 DEF Journal

LEMMA CopiesSpare ==
  ASSUME NamesApart, IInv, UserInv, NEW t \in plan.copies,
         RecopyAside(t) \/ CopyStart(t) \/ CopyFinish(t)
  PROVE  UserInv'
<1>1. phase = "stages" /\ phase' = phase /\ UNCHANGED <<run, owned>>
  BY DEF RecopyAside, CopyStart, CopyFinish, In, Writes, ghostVars
<1>2. plan \in Plan /\ fs \in Tree /\ owned \subseteq User
      /\ NoMid.step # "prune" /\ Mid("aside", t) # NoMid /\ Mid("copy", t) # NoMid
      /\ Mid("aside", t).step # "prune" /\ Mid("copy", t).step # "prune"
  BY StageFacts
<1>3. plan.backup = {}
  <2>1. CASE In("copy")
    BY <2>1 DEF In, Stage
  <2>2. CASE mid # NoMid
    BY <1>1, <2>2 DEF UserInv, PlanSpares
  <2> QED BY <1>2, <2>1, <2>2 DEF RecopyAside, CopyStart, CopyFinish
<1>4. /\ plan'.copies \subseteq plan.copies /\ plan'.rmdir = plan.rmdir
      /\ plan'.unlink = plan.unlink /\ plan'.backup = plan.backup /\ mid'.step # "prune"
  BY <1>2 DEF RecopyAside, CopyStart, CopyFinish, Plan
<1>5. /\ t \in Target /\ t \in Path /\ At(t) \subseteq Path /\ run.next[t].src \in Src
      /\ \A r \in At(t) : ~Owns(fs, r)
  BY <1>1, <1>3, CopySpot
<1>6. t \in At(t)
  BY DEF At
<1>7. CASE RecopyAside(t)
  <2>1. fs' = Rename(fs, t, AsideOf[t]) /\ journal' = Journal("restoreRename", t)
    BY <1>7 DEF RecopyAside
  <2>2. \A r \in At(AsideOf[t]) : ~Owns(fs, r)
    BY <1>5, AsideIsScratch DEF UserInv, ScratchSpared
  <2>3. Spares(fs, fs')
    BY <1>2, <1>5, <2>1, <2>2, TargetsMove, RenameSpares
  <2> QED BY <1>1, <1>3, <1>4, <1>5, <2>1, <2>3, CopyJournals, LateSpares
<1>8. CASE CopyStart(t)
  <2> DEFINE g == Mkdirs(fs, t)
             s == run.next[t].src
  <2>1. fs' = BeginCopy(g, s, t) /\ (UNCHANGED journal \/ journal' = Journal("removeCopy", t))
    BY <1>8 DEF CopyStart
  <2>2. g \in Tree /\ Spares(fs, g) /\ g[t] = fs[t]
    <3>1. g \in Tree /\ Spares(fs, g)
      BY <1>2, MkdirsTree, MkdirsSpares
    <3> QED BY <1>5, <3>1, AboveOrder DEF Mkdirs
  <2>3. ~Owns(g, t)
    BY <1>5, <1>6, <2>2 DEF Owns
  <2> HIDE DEF g
  <2>4. Spares(g, fs')
    BY <1>2, <1>5, <2>1, <2>2, <2>3, PutSpares DEF BeginCopy
  <2>5. Spares(fs, fs')
    BY <2>2, <2>4, SparesTwice
  <2> QED BY <1>1, <1>3, <1>4, <1>5, <2>1, <2>5, CopyJournals, LateSpares
<1>9. CASE CopyFinish(t)
  <2> DEFINE s == run.next[t].src
  <2>1. UNCHANGED journal /\ (fs' = fs \/ fs' = EndCopy(fs, s, t))
    BY <1>9 DEF CopyFinish
  <2>2. LeafOf(t) \in Path => LeafOf(t) \in At(t)
    <3>1. Front(LeafOf(t)) = t
      BY <1>5, PathSequence DEF LeafOf, Front
    <3> QED BY <1>5, <3>1, FrontAbove, AtOrder
  <2>3. Spares(fs, EndCopy(fs, s, t))
    <3>1. Spares(fs, Put(fs, LeafOf(t), FileOf(s)))
      BY <1>2, <1>5, <2>2, PutSpares
    <3>2. Spares(fs, Put(fs, t, FileOf(s)))
      BY <1>2, <1>5, <1>6, PutSpares
    <3> QED BY <3>1, <3>2 DEF EndCopy
  <2>4. Spares(fs, fs')
    BY <2>1, <2>3 DEF Spares
  <2> QED BY <1>1, <1>3, <1>4, <2>1, <2>4, LateSpares
<1> QED BY <1>7, <1>8, <1>9

\* Stale links and the directories they leave empty, in a stage and in a reset.
LEMMA RemoveSparesData ==
  ASSUME IInv, TreeInv, UserInv, NEW t \in plan.remove, RemoveStale(t)
  PROVE  UserInv'
<1>1. /\ phase \in {"stages", "teardown"} /\ phase' = phase /\ UNCHANGED <<run, owned>>
      /\ mid = NoMid /\ mid # Asking /\ (phase = "stages" => plan.backup = {})
  BY StageFacts DEF RemoveStale, InStale, In, Stage, Writes, ghostVars
<1>2. plan \in Plan /\ fs \in Tree /\ owned \subseteq User /\ NoMid.step # "prune"
      /\ Mid("prune", t).path = t /\ IsManifest(run.base) /\ t \in Path /\ Closed(fs)
  BY StageFacts DEF TreeInv, Plan
<1>3. plan' = [plan EXCEPT !.remove = @ \ {t}]
  BY DEF RemoveStale
<1>4. /\ plan'.copies = plan.copies /\ plan'.rmdir = plan.rmdir
      /\ plan'.unlink = plan.unlink /\ plan'.backup = plan.backup
  BY <1>2, <1>3 DEF Plan
<1>5. CASE StillStale(t)
  <2> DEFINE e == [kind |-> "relinkOld", path |-> t, dest |-> run.base[t].src]
  <2>1. /\ fs' = Put(fs, t, Absent) /\ IsLink(fs, t) /\ t \in DOMAIN run.base
        /\ journal' = Append(journal, e) /\ mid' = Mid("prune", t)
    BY <1>5 DEF RemoveStale, StillStale, RecordedLink, LinkTo, IsLink, JournalRelink
  <2>2. \A q \in Path : fs'[q] = IF q = t THEN Absent ELSE fs[q]
    BY <1>2, <2>1 DEF Put, Tree
  <2>3. Spares(fs, fs') /\ ~Owns(fs', t) /\ \A q \in Path : IsFile(fs', q) => IsFile(fs, q)
    BY <1>2, <2>1, <2>2, RemoveSpares, NotFileNotOwned DEF IsFile, IsLink, Absent
  <2>4. ~NotDirAbove(fs, mid.path)'
    <3>1. InRealDir(fs, t) /\ Above[t] \subseteq Path
      BY <1>2, <2>1 DEF Closed, Exists, IsLink, Above
    <3>2. ~NotDirAbove(fs', t)
      BY <2>3, <3>1 DEF NotDirAbove, InRealDir, IsFile, IsDir
    <3> QED BY <1>2, <2>1, <3>2 DEF NotDirAbove
  <2>5. e \in UndoOp /\ Guards(e) = {t} /\ e.kind # "restoreBackup"
    BY <1>2, <2>1, SourceType DEF UndoOp, UndoKind, Guards
  <2> HIDE DEF e
  <2>6. CASE phase = "stages"
    BY <1>1, <1>4, <2>1, <2>3, <2>4, <2>5, <2>6, LateSpares
  <2>7. CASE phase = "teardown"
    BY <1>1, <1>4, <2>3, <2>4, <2>7, TeardownSpares
  <2> QED BY <1>1, <2>6, <2>7
<1>6. CASE ~StillStale(t)
  <2>1. UNCHANGED <<fs, journal, mid>> /\ mid'.step # "prune"
    BY <1>1, <1>2, <1>6 DEF RemoveStale
  <2>2. Spares(fs, fs')
    BY <2>1 DEF Spares
  <2>3. CASE phase = "stages"
    BY <1>1, <1>4, <2>1, <2>2, <2>3, LateSpares
  <2>4. CASE phase = "teardown"
    BY <1>1, <1>4, <2>1, <2>2, <2>4, TeardownSpares
  <2> QED BY <1>1, <2>3, <2>4
<1> QED BY <1>5, <1>6

LEMMA PruneSpares ==
  ASSUME IInv, UserInv, PruneAncestor
  PROVE  UserInv'
<1> DEFINE up == Front(mid.path)
           e == [kind |-> "mkdir", path |-> up, dest |-> None]
<1>1. /\ phase \in {"stages", "teardown"} /\ phase' = phase /\ UNCHANGED <<run, owned, plan>>
      /\ mid.step = "prune" /\ mid \notin {NoMid, Asking}
  BY StageFacts DEF PruneAncestor, Writes, ghostVars
<1>2. plan \in Plan /\ fs \in Tree /\ owned \subseteq User /\ NoMid.step # "prune"
      /\ Mid("prune", up).path = up /\ None \in Val
  BY StageFacts
<1>3. mid.path \in Path /\ ~NotDirAbove(fs, mid.path) /\ (phase = "stages" => plan.backup = {})
  BY <1>1 DEF UserInv, PlanSpares, IInv, TypeOK
<1>4. CASE up \in Path /\ fs' = Put(fs, up, Absent) /\ journal' = Append(journal, e) /\ mid' = Mid("prune", up)
  <2>1. up \in Above[mid.path] /\ Above[up] \subseteq Above[mid.path] /\ Above[up] \subseteq Path
    <3>1. Above[up] \subseteq Path
      BY <1>4, AboveBelow
    <3> QED BY <1>3, <1>4, <3>1, FrontAbove
  <2>2. Spares(fs, fs')
    BY <1>2, <1>3, <1>4, <2>1, RemoveSpares, NotFileNotOwned DEF NotDirAbove
  <2>3. \A q \in Path : IsFile(fs', q) => IsFile(fs, q)
    BY <1>2, <1>4 DEF Put, Tree, IsFile, Absent
  <2>4. ~NotDirAbove(fs, mid.path)'
    <3>1. ~NotDirAbove(fs', up)
      BY <1>3, <2>1, <2>3 DEF NotDirAbove
    <3> QED BY <1>2, <1>4, <3>1 DEF NotDirAbove
  <2>5. e \in UndoOp /\ Guards(e) = {} /\ e.kind # "restoreBackup"
    BY <1>2, <1>4 DEF UndoOp, UndoKind, Guards
  <2> HIDE DEF e, up
  <2>6. CASE phase = "stages"
    BY <1>1, <1>3, <1>4, <2>2, <2>4, <2>5, <2>6, LateSpares
  <2>7. CASE phase = "teardown"
    BY <1>1, <2>2, <2>3, <2>4, <2>7, TeardownSpares
  <2> QED BY <1>1, <2>6, <2>7
<1>5. CASE mid' = NoMid /\ UNCHANGED <<fs, journal>>
  <2>1. Spares(fs, fs') /\ mid'.step # "prune"
    BY <1>2, <1>5 DEF Spares
  <2>2. CASE phase = "stages"
    BY <1>1, <1>3, <1>5, <2>1, <2>2, LateSpares
  <2>3. CASE phase = "teardown"
    BY <1>1, <1>5, <2>1, <2>3, TeardownSpares
  <2> QED BY <1>1, <2>2, <2>3
<1> QED BY <1>4, <1>5 DEF PruneAncestor, Journal

LEMMA ResetCopySpares ==
  ASSUME IInv, UserInv, NEW t, ResetCopy(t)
  PROVE  UserInv'
<1>1. /\ phase = "teardown" /\ phase' = phase /\ owned' = owned /\ t \in plan.copies
      /\ fs' = Clear(fs, t) /\ mid' = Mid("prune", t) /\ plan' = [plan EXCEPT !.copies = @ \ {t}]
      /\ mid # Asking
  BY StageFacts DEF ResetCopy, Writes, ghostVars
<1>2. plan \in Plan /\ fs \in Tree /\ Mid("prune", t).path = t /\ t \in Path /\ Above[t] \subseteq Path
  BY <1>1, StageFacts DEF Plan, Above
<1>3. ~NotDirAbove(fs, t) /\ \A r \in At(t) : ~Owns(fs, r)
  BY <1>1 DEF UserInv, PlanSpares
<1>4. Spares(fs, fs') /\ \A q \in Path : IsFile(fs', q) => IsFile(fs, q)
  BY <1>1, <1>2, <1>3, ClearSpares DEF Clear, IsFile, Absent
<1>5. ~NotDirAbove(fs, mid.path)'
  <2>1. ~NotDirAbove(fs', t)
    BY <1>2, <1>3, <1>4 DEF NotDirAbove
  <2> QED BY <1>1, <1>2, <2>1 DEF NotDirAbove
<1>6. plan'.copies \subseteq plan.copies
  BY <1>1, <1>2 DEF Plan
<1> QED BY <1>1, <1>4, <1>5, <1>6, TeardownSpares

LEMMA StuckSpares ==
  ASSUME IInv, UserInv, phase = "stages", NEW t, StageStuck(t) \/ CopyStuck(t)
  PROVE  UserInv'
<1>1. phase' = "unwind" /\ mid' = NoMid /\ owned' = owned
  BY DEF StageStuck, CopyStuck, Fails, ghostVars
<1>2. fs \in Tree /\ journal \in Seq(UndoOp)
  BY StageFacts
<1>3. CASE UNCHANGED <<fs, journal>>
  <2>1. Spares(fs, fs')
    BY <1>3 DEF Spares
  <2>2. JournalSpares'
    BY <1>1, <1>2, <1>3, <2>1, JournalGrows DEF UserInv
  <2> QED BY <1>1, <2>1, <2>2, FailSpares
<1>4. CASE In("copy") /\ t \in plan.copies /\ fs' = Mkdirs(fs, t) /\ journal' = Journal("removeCopy", t)
  <2>1. plan.backup = {}
    BY <1>4 DEF In, Stage
  <2>2. t \in Target /\ \A r \in At(t) : ~Owns(fs, r)
    BY <1>4, <2>1, CopySpot
  <2>3. Spares(fs, fs')
    BY <1>2, <1>4, MkdirsSpares
  <2>4. \E e \in UndoOp :
           /\ journal' = Append(journal, e) /\ e.kind # "restoreBackup"
           /\ \A r \in Guards(e) : ~Owns(fs', r)
    <3>1. journal' # journal
      BY <1>2, <1>4 DEF Journal
    <3> QED BY <1>1, <1>4, <2>2, <2>3, <3>1, CopyJournals
  <2>5. JournalSpares'
    BY <1>1, <1>2, <2>1, <2>3, <2>4, JournalGrows DEF UserInv
  <2> QED BY <1>1, <2>3, <2>5, FailSpares
<1> QED BY <1>3, <1>4 DEF StageStuck, CopyStuck, Fails

\* A target on its way to its backup, with what is below it.
LEMMA BackUpMoves ==
  ASSUME NamesApart, UserApart, IInv, TreeInv, NEW b \in Target,
         ~Exists(fs, BackupOf[b]), fs' = Rename(fs, b, BackupOf[b]), owned' = owned
  PROVE  LET q == BackupOf[b]
         IN /\ At(b) \cup At(q) \subseteq Path /\ At(b) \cap At(q) = {}
            /\ \A r \in Path \ (At(b) \cup At(q)) : fs'[r] = fs[r]
            /\ \A r \in At(b) : ~Owns(fs', r)
            /\ \A r \in At(q) : Rebase(b, q, r) \in At(b) /\ fs'[r] = fs[Rebase(b, q, r)]
            /\ UserDataKept => UserDataKept'
            /\ ScratchSpared => ScratchSpared'
<1> DEFINE q == BackupOf[b]
<1>1. fs \in Tree /\ Closed(fs) /\ b \in Path /\ q \in Path
  BY StageFacts, TargetAssumption DEF TreeInv
<1>2. Movable(b, q)
  BY TargetsMove
<1>3. At(b) \cup At(q) \subseteq Path /\ At(b) \cap At(q) = {}
  BY <1>2, MovableApart
<1>4. \A r \in Path : fs'[r] = IF r \in At(q) THEN fs[Rebase(b, q, r)]
                               ELSE IF r \in At(b) THEN Absent ELSE fs[r]
  BY <1>2, RenameIs
<1>5. \A r \in At(b) : ~Owns(fs', r)
  <2>1. \A r \in At(b) : ~IsFile(fs', r)
    BY <1>3, <1>4 DEF IsFile, Absent
  <2> QED BY <2>1, NotFileNotOwned
<1>6. \A r \in At(q) : Rebase(b, q, r) \in Path /\ Rebase(b, q, r) \in At(b)
  BY <1>1, <1>2, RebaseAt DEF Movable
<1>7. \A r \in At(q) : ~Exists(fs, r)
  BY <1>1, NothingUnder
<1>8. UserDataKept => UserDataKept'
  <2> SUFFICES ASSUME NEW u \in owned, NEW p \in Path, fs[p] = FileOf(u)
               PROVE  \E r \in Path : fs'[r] = FileOf(u)
    BY DEF UserDataKept
  <2>1. p \notin At(q)
    BY <1>7 DEF Exists, FileOf
  <2>2. CASE p \in At(b)
    <3>1. Rebase(q, b, p) \in At(q) /\ fs'[Rebase(q, b, p)] = fs[p]
      BY <1>2, <2>2, RenameMoves
    <3> QED BY <1>3, <3>1
  <2>3. CASE p \notin At(b)
    BY <1>4, <2>1, <2>3
  <2> QED BY <2>2, <2>3
<1>9. ASSUME ScratchSpared, NEW p \in Scratch PROVE ~Owns(fs', p)
  <2>1. p \in Path
    BY DEF Scratch
  <2>2. CASE p \in At(q)
    <3>1. q \notin Scratch
      BY DEF UserApart
    <3>2. Rebase(b, q, p) \in Scratch
      BY <1>1, <1>6, <2>2, <3>1, RebaseKeepsScratch
    <3>3. fs'[p] = fs[Rebase(b, q, p)]
      BY <1>4, <2>1, <2>2
    <3> QED BY <1>9, <3>2, <3>3 DEF ScratchSpared, Owns
  <2>3. CASE p \notin At(q) /\ p \notin At(b)
    BY <1>4, <1>9, <2>1, <2>3 DEF ScratchSpared, Owns
  <2> QED BY <1>5, <2>2, <2>3
<1>10. ScratchSpared => ScratchSpared'
  BY <1>9 DEF ScratchSpared, Scratch, Owns
<1> QED BY <1>3, <1>4, <1>5, <1>6, <1>8, <1>10

LEMMA JournalAppends ==
  ASSUME journal \in Seq(UndoOp), NEW e \in UndoOp, journal' = Append(journal, e)
  PROVE  /\ DOMAIN journal' = DOMAIN journal \cup {Len(journal) + 1}
         /\ Len(journal) + 1 \notin DOMAIN journal
         /\ \A i \in DOMAIN journal : journal'[i] = journal[i] /\ i < Len(journal) + 1 /\ i \in Nat
         /\ journal'[Len(journal) + 1] = e /\ Len(journal) + 1 \in Nat
BY AppendIs

LEMMA BackUpJournals ==
  ASSUME NamesApart, IInv, JournalSpares, phase = "stages", phase' = "stages", NEW b \in plan.backup,
         \A c \in plan.backup : b \notin Below[c] /\ c \notin Below[b],
         journal' = Journal("restoreBackup", b), plan'.backup = plan.backup \ {b}, owned' = owned,
         \A r \in Path \ (At(b) \cup At(BackupOf[b])) : fs'[r] = fs[r],
         \A r \in At(b) : ~Owns(fs', r)
  PROVE  JournalSpares'
<1> DEFINE e == [kind |-> "restoreBackup", path |-> b, dest |-> None]
           n == Len(journal) + 1
<1>1. journal \in Seq(UndoOp) /\ plan \in Plan /\ Target \subseteq Path /\ None \in Val
  BY StageFacts
<1>2. b \in Target /\ b \in Path /\ plan.backup \subseteq Target
  BY <1>1 DEF Plan
<1>3. e \in UndoOp /\ Guards(e) = At(b) /\ e.kind = "restoreBackup" /\ e.path = b
      /\ journal' = Append(journal, e)
  BY <1>1, <1>2 DEF UndoOp, UndoKind, Guards, Journal
<1> HIDE DEF e
<1>4. /\ DOMAIN journal' = DOMAIN journal \cup {n} /\ n \notin DOMAIN journal
      /\ \A i \in DOMAIN journal : journal'[i] = journal[i] /\ i < n /\ i \in Nat
      /\ journal'[n] = e /\ n \in Nat
  BY <1>1, <1>3, JournalAppends
<1> HIDE DEF n
<1>5. \A i \in DOMAIN journal : Guards(journal[i]) \subseteq Path
        /\ Guards(journal[i]) \cap (At(b) \cup At(BackupOf[b])) = {}
  BY <1>1, GuardsPath DEF JournalSpares
<1>6. ASSUME NEW i \in DOMAIN journal', NEW r \in Guards(journal'[i])
      PROVE  ~Owns(fs, r)'
  <2>1. CASE i = n
    BY <1>3, <1>4, <1>6, <2>1 DEF Owns
  <2>2. CASE i \in DOMAIN journal
    <3>1. r \in Guards(journal[i]) /\ fs'[r] = fs[r]
      BY <1>4, <1>5, <1>6, <2>2
    <3> QED BY <2>2, <3>1 DEF JournalSpares, Owns
  <2> QED BY <1>4, <2>1, <2>2
<1>7. ASSUME NEW i \in DOMAIN journal', NEW j \in DOMAIN journal', i < j,
             journal'[j].kind = "restoreBackup"
      PROVE  Guards(journal'[i]) \cap At(journal'[j].path) = {}
  <2>1. i \in DOMAIN journal
    BY <1>4, <1>7
  <2>2. CASE j = n
    BY <1>3, <1>4, <1>5, <2>1, <2>2
  <2>3. CASE j \in DOMAIN journal
    BY <1>4, <1>7, <2>1, <2>3 DEF JournalSpares
  <2> QED BY <1>4, <2>2, <2>3
<1>8. ASSUME NEW c \in plan'.backup, NEW i \in DOMAIN journal'
      PROVE  Guards(journal'[i]) \cap (At(c) \cup At(BackupOf[c])) = {}
  <2>1. c \in plan.backup /\ c # b /\ c \in Target /\ c \in Path /\ BackupOf[c] \in Path
        /\ BackupOf[c] # b
    BY <1>1, <1>2, <1>8, TargetAssumption
  <2>2. b \notin Below[c] /\ c \notin Below[b] /\ At(b) \subseteq Path
    BY <1>2, <2>1, AboveBelow
  <2>3. At(b) \cap At(c) = {}
    BY <1>2, <2>1, <2>2, AtOrder DEF At
  <2>4. At(b) \cap At(BackupOf[c]) = {}
    <3>1. b \notin At(BackupOf[c])
      BY <1>2, <2>1 DEF NamesApart
    <3>2. BackupOf[c] \notin At(b)
      <4>1. Above[BackupOf[c]] = Above[c]
        BY <2>1 DEF NamesApart
      <4> QED BY <1>2, <2>1, <2>2, <4>1, AtOrder, AboveOrder
    <3> QED BY <1>2, <2>1, <2>2, <3>1, <3>2, AtOrder
  <2>5. CASE i = n
    BY <1>3, <1>4, <2>3, <2>4, <2>5
  <2>6. CASE i \in DOMAIN journal
    BY <1>4, <2>1, <2>6 DEF JournalSpares
  <2> QED BY <1>4, <2>5, <2>6
<1> QED BY <1>6, <1>7, <1>8 DEF JournalSpares

LEMMA BackUpSpares ==
  ASSUME NamesApart, UserApart, IInv, TreeInv, UserInv, NEW b, BackUp(b)
  PROVE  UserInv'
<1> DEFINE q == BackupOf[b]
<1>1. /\ phase = "stages" /\ phase' = "stages" /\ UNCHANGED <<run, owned, mid>> /\ mid = NoMid
      /\ b \in plan.backup /\ plan.unlink = {} /\ plan.rmdir = {} /\ ~Exists(fs, q)
      /\ fs' = Rename(fs, b, q) /\ journal' = Journal("restoreBackup", b)
      /\ plan' = [plan EXCEPT !.backup = @ \ {b}]
  BY DEF BackUp, In, Stage, Writes, ghostVars
<1>2. plan \in Plan /\ NoMid.step # "prune" /\ Target \subseteq Path
  BY StageFacts
<1>3. b \in Target /\ b \in Path /\ q \in Path /\ plan.copies \subseteq Target /\ plan.backup \subseteq Target
      /\ q \notin Target
  BY <1>1, <1>2, TargetAssumption DEF Plan
<1>4. /\ plan'.rmdir = {} /\ plan'.unlink = {} /\ plan'.copies = plan.copies
      /\ plan'.backup = plan.backup \ {b}
  BY <1>1, <1>2 DEF Plan
<1>5. /\ At(b) \cup At(q) \subseteq Path /\ At(b) \cap At(q) = {}
      /\ \A r \in Path \ (At(b) \cup At(q)) : fs'[r] = fs[r]
      /\ \A r \in At(b) : ~Owns(fs', r)
      /\ \A r \in At(q) : Rebase(b, q, r) \in At(b) /\ fs'[r] = fs[Rebase(b, q, r)]
      /\ UserDataKept' /\ ScratchSpared'
  BY <1>1, <1>3, BackUpMoves DEF UserInv
<1>6. JournalSpares'
  BY <1>1, <1>4, <1>5, BackUpJournals DEF UserInv, PlanSpares
<1>7. ASSUME NEW t \in plan.copies, ~(t \in plan'.backup /\ ~run.recopy), NEW r \in At(t)
      PROVE  ~Owns(fs', r)
  <2>1. t \in Target /\ t \in Path /\ r \in Path
    BY <1>2, <1>3, <1>7, AboveBelow
  <2>2. CASE t = b
    BY <1>5, <1>7, <2>2
  <2>3. CASE t # b
    <3>1. \A s \in At(t) : ~Owns(fs, s)
      BY <1>1, <1>4, <1>7, <2>3 DEF UserInv, PlanSpares
    <3>2. CASE r \in At(q)
      <4>1. t \notin At(q) /\ Above[q] = Above[b]
        BY <1>3, <2>1 DEF NamesApart
      <4>2. t \in Above[q]
        BY <1>3, <1>7, <2>1, <3>2, <4>1, AtOrder
      <4>3. b \in At(t)
        BY <1>3, <2>1, <4>1, <4>2, AtOrder
      <4>4. Rebase(b, q, r) \in At(t)
        BY <1>3, <1>5, <2>1, <3>2, <4>3, AtOrder
      <4> QED BY <1>5, <3>1, <3>2, <4>4 DEF Owns
    <3>3. CASE r \notin At(q) /\ r \notin At(b)
      BY <1>5, <1>7, <2>1, <3>1, <3>3 DEF Owns
    <3> QED BY <1>5, <3>2, <3>3
  <2> QED BY <2>2, <2>3
<1>8. (\A t \in plan.copies :
          (t \in plan.backup /\ ~run.recopy) \/ \A r \in At(t) : ~Owns(fs, r))'
  BY <1>1, <1>4, <1>7 DEF Owns
<1>9. \A c, d \in plan'.backup : c \notin Below[d]
  BY <1>1, <1>4 DEF UserInv, PlanSpares
<1> QED BY <1>1, <1>2, <1>4, <1>5, <1>6, <1>8, <1>9 DEF UserInv, PlanSpares

-----------------------------------------------------------------------------
(* Unwinding. *)

LEMMA NoFileSpares ==
  ASSUME NEW f \in Tree, NEW p, NEW n, n.kind # "file", p \in Path => ~Owns(f, p)
  PROVE  Spares(f, Put(f, p, n))
<1> DEFINE g == Put(f, p, n)
<1>1. \A q \in Path : g[q] = IF q = p THEN n ELSE f[q]
  BY DEF Put, Tree
<1> HIDE DEF g
<1>2. p \in Path => ~Owns(g, p)
  BY <1>1, NotFileNotOwned DEF IsFile
<1>3. \A q \in Path : g[q] = f[q] \/ (~Owns(f, q) /\ ~Owns(g, q))
  BY <1>1, <1>2
<1> QED BY <1>3 DEF Spares, g

LEMMA UndoSpares ==
  ASSUME NamesApart, NEW f \in Tree, NEW op \in UndoOp, op.kind # "restoreBackup",
         op.kind = "restoreRename" => op.path \in Target,
         \A r \in Guards(op) : ~Owns(f, r), \A p \in Scratch : ~Owns(f, p)
  PROVE  Spares(f, Undo(f, op))
<1> DEFINE p == op.path
           removed == IF CanRemove(f, p) THEN Put(f, p, Absent) ELSE f
<1>1. p \in Path /\ op.kind \in UndoKind /\ p \in At(p) /\ Spares(f, f)
  BY DEF UndoOp, At, Spares
<1>2. ASSUME op.kind \in {"unlinkNew", "relinkOld"}
      PROVE  removed \in Tree /\ Spares(f, removed) /\ ~Owns(removed, p)
  <2>1. ~Owns(f, p)
    BY <1>2 DEF Guards
  <2>2. Spares(f, removed)
    BY <1>1, <2>1, NoFileSpares DEF Absent
  <2>3. removed \in Tree
    BY NodeTypes, PutTree
  <2> QED BY <1>1, <2>1, <2>2, <2>3 DEF Spares, Owns
<1>3. CASE op.kind = "unlinkNew"
  BY <1>2, <1>3 DEF Undo
<1>4. CASE op.kind = "relinkOld"
  <2>1. Spares(removed, Put(removed, p, LinkTo(op.dest)))
    BY <1>2, <1>4, NoFileSpares DEF LinkTo
  <2>2. Spares(f, Put(removed, p, LinkTo(op.dest)))
    BY <1>2, <1>4, <2>1, SparesTwice
  <2> QED BY <1>2, <1>4, <2>2 DEF Undo
<1>5. CASE op.kind = "removeCopy"
  BY <1>1, <1>5, ClearSpares DEF Undo, Guards
<1>6. CASE op.kind = "restoreRename"
  <2> DEFINE g == Clear(f, p)
             q == AsideOf[p]
  <2>1. p \in Target /\ \A r \in At(p) : ~Owns(f, r)
    BY <1>6 DEF Guards
  <2>2. g \in Tree /\ Spares(f, g)
    BY <2>1, ClearTree, ClearSpares
  <2>3. Movable(q, p) /\ At(p) \cup At(q) \subseteq Path
    BY <2>1, TargetsMove, MovableApart
  <2>4. \A r \in At(q) : ~Owns(f, r)
    BY <2>1, AsideIsScratch
  <2> HIDE DEF g
  <2>5. \A r \in At(q) \cup At(p) : ~Owns(g, r)
    BY <2>1, <2>2, <2>3, <2>4 DEF Spares, Owns
  <2>6. Spares(g, Rename(g, q, p))
    BY <2>2, <2>3, <2>5, RenameSpares
  <2>7. Spares(f, Rename(g, q, p))
    BY <2>2, <2>6, SparesTwice
  <2> QED BY <1>6, <2>2, <2>7 DEF Undo, BringBack, g
<1>7. CASE op.kind = "mkdir"
  <2>1. ~Exists(f, p) => ~Owns(f, p)
    BY NotFileNotOwned DEF Exists, IsFile
  <2>2. ~Exists(f, p) => Spares(f, Put(f, p, Dir))
    BY <2>1, NoFileSpares DEF Dir
  <2> QED BY <1>1, <1>7, <2>2 DEF Undo
<1> QED BY <1>1, <1>3, <1>4, <1>5, <1>6, <1>7 DEF UndoKind

\* A backup coming back over what is not the user's.
LEMMA BackedUpReturns ==
  ASSUME NamesApart, UserApart, fs \in Tree, NEW p \in Target, owned' = owned,
         fs' = BringBack(fs, BackupOf[p], p), \A r \in At(p) : ~Owns(fs, r)
  PROVE  /\ \A r \in Path \ At(p) : ~Owns(fs, r) => ~Owns(fs', r)
         /\ UserDataKept => UserDataKept'
         /\ ScratchSpared => ScratchSpared'
<1> DEFINE q == BackupOf[p]
           g == Clear(fs, p)
<1>1. p \in Path /\ q \in Path \ Scratch /\ p \notin Scratch
  BY TargetAssumption DEF UserApart
<1>2. Movable(q, p) /\ At(p) \cup At(q) \subseteq Path /\ At(p) \cap At(q) = {}
  BY TargetsMove, MovableApart
<1>3. \A r \in Path : g[r] = IF r \in At(p) THEN Absent ELSE fs[r]
  BY DEF Clear
<1>4. Spares(fs, g)
  BY ClearSpares
<1>5. \A r \in Path : ~Owns(fs, r) => ~Owns(g, r)
  BY <1>4 DEF Spares, Owns
<1>6. fs' = g \/ fs' = Rename(g, q, p)
  BY DEF BringBack
<1> HIDE DEF g
<1>7. CASE fs' = g
  BY <1>4, <1>5, <1>7, SparedData
<1>8. CASE fs' = Rename(g, q, p)
  <2>1. \A r \in Path : fs'[r] = IF r \in At(p) THEN g[Rebase(q, p, r)]
                                 ELSE IF r \in At(q) THEN Absent ELSE g[r]
    BY <1>2, <1>8, RenameIs
  <2>2. \A r \in Path : fs'[r] = Absent => ~Owns(fs', r)
    BY NotFileNotOwned DEF IsFile, Absent
  <2>3. \A r \in Path \ At(p) : ~Owns(fs, r) => ~Owns(fs', r)
    BY <1>5, <2>1, <2>2 DEF Owns
  <2>4. ASSUME UserDataKept, NEW u \in owned PROVE \E r \in Path : fs'[r] = FileOf(u)
    <3>1. PICK r \in Path : fs[r] = FileOf(u)
      BY <2>4 DEF UserDataKept
    <3>2. r \notin At(p) /\ g[r] = FileOf(u)
      BY <1>3, <2>4, <3>1 DEF Owns
    <3>3. CASE r \in At(q)
      <4>1. Rebase(p, q, r) \in At(p) /\ fs'[Rebase(p, q, r)] = g[r]
        BY <1>2, <1>8, <3>3, RenameMoves
      <4> QED BY <1>2, <3>2, <4>1
    <3>4. CASE r \notin At(q)
      BY <2>1, <3>2, <3>4
    <3> QED BY <3>3, <3>4
  <2>5. ASSUME ScratchSpared, NEW r \in Scratch PROVE ~Owns(fs', r)
    <3>1. r \in Path
      BY DEF Scratch
    <3>2. CASE r \in At(p)
      <4>1. Rebase(q, p, r) \in Path /\ Rebase(q, p, r) \in Scratch
        BY <1>1, <1>2, <3>2, RebaseKeepsScratch DEF Movable
      <4>2. ~Owns(g, Rebase(q, p, r))
        BY <1>5, <2>5, <4>1 DEF ScratchSpared
      <4> QED BY <2>1, <3>1, <3>2, <4>2 DEF Owns
    <3>3. CASE r \notin At(p)
      BY <2>3, <2>5, <3>1, <3>3 DEF ScratchSpared
    <3> QED BY <3>2, <3>3
  <2>6. UserDataKept => UserDataKept'
    BY <2>4 DEF UserDataKept
  <2>7. ScratchSpared => ScratchSpared'
    BY <2>5 DEF ScratchSpared, Scratch, Owns
  <2> QED BY <2>3, <2>6, <2>7
<1> QED BY <1>6, <1>7, <1>8

LEMMA UndoneSpares ==
  ASSUME NamesApart, UserApart, IInv, TreeInv, UserInv, UndoStep
  PROVE  UserInv'
<1> DEFINE n == Len(journal)
<1>1. /\ phase = "unwind" /\ phase' = "unwind" /\ UNCHANGED <<owned, mid>> /\ journal # << >>
      /\ fs' = Undo(fs, Last(journal)) /\ journal' = Front(journal)
  BY DEF UndoStep, ghostVars
<1>2. fs \in Tree /\ journal \in Seq(UndoOp)
  BY StageFacts
<1>3. /\ n \in DOMAIN journal /\ Last(journal) = journal[n] /\ DOMAIN journal' \subseteq DOMAIN journal
      /\ \A i \in DOMAIN journal' : journal'[i] = journal[i] /\ i < n
  BY <1>1, <1>2, FrontIs
<1> DEFINE op == journal[n]
<1>4. op \in UndoOp /\ (op.kind \in {"restoreRename", "restoreBackup"} => op.path \in Target)
  BY <1>2, <1>3 DEF TreeInv, JournalFits
<1>5. \A i \in DOMAIN journal : Guards(journal[i]) \subseteq Path /\ \A r \in Guards(journal[i]) : ~Owns(fs, r)
  BY <1>1, <1>2, GuardsPath DEF UserInv, JournalSpares
<1>6. \A i, j \in DOMAIN journal : i < j /\ journal[j].kind = "restoreBackup" =>
           Guards(journal[i]) \cap At(journal[j].path) = {}
  BY <1>1 DEF UserInv, JournalSpares
<1> HIDE DEF n
<1>7. /\ UserDataKept' /\ ScratchSpared'
      /\ \A i \in DOMAIN journal' : \A r \in Guards(journal[i]) : ~Owns(fs', r)
  <2>1. CASE op.kind # "restoreBackup"
    <3>1. Spares(fs, Undo(fs, op))
      BY <1>2, <1>3, <1>4, <1>5, <2>1, UndoSpares DEF UserInv, ScratchSpared
    <3>2. Spares(fs, fs')
      BY <1>1, <1>3, <3>1
    <3>3. \A p \in Path : ~Owns(fs, p) => ~Owns(fs', p)
      BY <3>2 DEF Spares, Owns
    <3> QED BY <1>1, <1>3, <1>5, <3>2, <3>3, SparedData DEF UserInv
  <2>2. CASE op.kind = "restoreBackup"
    <3>1. op.path \in Target /\ fs' = BringBack(fs, BackupOf[op.path], op.path)
      BY <1>1, <1>3, <1>4, <2>2 DEF Undo
    <3>2. \A r \in At(op.path) : ~Owns(fs, r)
      BY <1>3, <1>5, <2>2 DEF Guards
    <3>3. /\ \A r \in Path \ At(op.path) : ~Owns(fs, r) => ~Owns(fs', r)
          /\ UserDataKept' /\ ScratchSpared'
      BY <1>1, <1>2, <3>1, <3>2, BackedUpReturns DEF UserInv
    <3>4. \A i \in DOMAIN journal' : Guards(journal[i]) \cap At(op.path) = {}
      BY <1>3, <1>6, <2>2
    <3> QED BY <1>3, <1>5, <3>3, <3>4
  <2> QED BY <2>1, <2>2
<1>8. JournalSpares'
  <2>1. (\A i \in DOMAIN journal : \A r \in Guards(journal[i]) : ~Owns(fs, r))'
    BY <1>1, <1>3, <1>7 DEF Owns
  <2>2. \A i, j \in DOMAIN journal' : i < j /\ journal'[j].kind = "restoreBackup" =>
           Guards(journal'[i]) \cap At(journal'[j].path) = {}
    BY <1>3, <1>6
  <2> QED BY <1>1, <2>1, <2>2 DEF JournalSpares
<1>9. mid' = NoMid
  BY <1>1 DEF UserInv, PlanSpares
<1>10. PlanSpares'
  BY <1>1, <1>9, StageFacts DEF PlanSpares
<1> QED BY <1>7, <1>8, <1>10 DEF UserInv

-----------------------------------------------------------------------------
(* Starting a run. *)

\* What the plan p, run with or without --recopy, finds at its targets; the
\* user has agreed to lose what is at C.
PlanClear(p, recopy, C) ==
  /\ \A q \in p.rmdir : ~IsFile(fs, q)
  /\ \A t \in p.copies :
       (t \in p.backup /\ ~recopy) \/ \A s \in At(t) : s \in C \/ ~IsFile(fs, s)
  /\ \A b \in p.backup : p.unlink \cap At(b) = {}
  /\ \A b, c \in p.backup : b \notin Below[c]

LEMMA BeginSpares ==
  ASSUME UserInv, phase = "idle", owned \subseteq User, NEW r, NEW p, NEW C,
         NEW ph \in {"stages", "unwind", "teardown"}, Begin(r, p, C, ph),
         ph = "stages" => PlanClear(p, r.recopy, C),
         ph = "teardown" => \A t \in p.copies : ~NotDirAbove(fs, t) /\ At(t) \subseteq C
  PROVE  UserInv'
<1>1. /\ phase' = ph /\ run' = r /\ plan' = p /\ UNCHANGED <<fs, mid, journal>>
      /\ owned' = owned \ UserContents(fs, C) /\ mid = NoMid /\ journal = << >>
  BY DEF Begin, UserInv, PlanSpares
<1>2. \A q : Owns(fs, q)' => Owns(fs, q) /\ q \notin C /\ IsFile(fs, q)
  <2> SUFFICES ASSUME NEW q, NEW u \in owned', fs[q] = FileOf(u)
               PROVE  Owns(fs, q) /\ q \notin C /\ IsFile(fs, q)
    BY <1>1 DEF Owns
  <2>1. u \in owned /\ u \notin UserContents(fs, C) /\ u \in User
    BY <1>1
  <2> QED BY <2>1 DEF Owns, UserContents, IsFile, FileOf
<1>3. UserDataKept' /\ ScratchSpared'
  BY <1>1, <1>2 DEF UserInv, UserDataKept, ScratchSpared, Scratch
<1>4. JournalSpares'
  <2>1. DOMAIN journal' = {}
    BY <1>1
  <2> QED BY <2>1 DEF JournalSpares
<1>5. PlanSpares'
  <2>1. phase' = "stages" =>
         /\ \A q \in plan'.rmdir : ~(Owns(fs, q)')
         /\ \A t \in plan'.copies :
              (t \in plan'.backup /\ ~run'.recopy) \/ \A s \in At(t) : ~(Owns(fs, s)')
         /\ \A b \in plan'.backup : plan'.unlink \cap At(b) = {}
         /\ \A b, c \in plan'.backup : b \notin Below[c]
    BY <1>1, <1>2 DEF PlanClear
  <2>2. phase' = "teardown" =>
         \A t \in plan'.copies : ~NotDirAbove(fs', t) /\ \A s \in At(t) : ~(Owns(fs, s)')
    BY <1>1, <1>2
  <2>3. (phase = "stages" =>
         /\ \A q \in plan.rmdir : ~Owns(fs, q)
         /\ \A t \in plan.copies :
              (t \in plan.backup /\ ~run.recopy) \/ \A s \in At(t) : ~Owns(fs, s)
         /\ \A b \in plan.backup : plan.unlink \cap At(b) = {}
         /\ \A b, c \in plan.backup : b \notin Below[c])'
    BY <2>1
  <2>4. (phase = "teardown" =>
         \A t \in plan.copies :
           ~NotDirAbove(fs, t) /\ (mid = Asking \/ \A s \in At(t) : ~Owns(fs, s)))'
    BY <2>2
  <2>5. mid' = NoMid /\ mid'.step # "prune" /\ phase' # "idle"
    BY <1>1 DEF NoMid
  <2> QED BY <2>3, <2>4, <2>5 DEF PlanSpares
<1> QED BY <1>3, <1>4, <1>5 DEF UserInv

LEMMA AskSpares ==
  ASSUME UserInv, phase = "idle", NEW r, NEW p, Ask(r, p), \A t \in p.copies : ~NotDirAbove(fs, t)
  PROVE  UserInv'
<1>1. /\ phase' = "teardown" /\ plan' = p /\ UNCHANGED <<fs, owned, journal>>
      /\ mid' = Asking /\ mid'.step # "prune"
  BY DEF Ask, Asking, Mid
<1>2. UserDataKept' /\ ScratchSpared'
  BY <1>1, SparedData DEF UserInv, Spares
<1>3. (\A t \in plan.copies :
          ~NotDirAbove(fs, t) /\ (mid = Asking \/ \A s \in At(t) : ~Owns(fs, s)))'
  BY <1>1 DEF NotDirAbove, IsFile
<1>4. PlanSpares'
  BY <1>1, <1>3 DEF PlanSpares
<1>5. JournalSpares'
  BY <1>1 DEF JournalSpares
<1> QED BY <1>2, <1>4, <1>5 DEF UserInv

LEMMA RefuseSpares ==
  ASSUME UserInv, Refuse
  PROVE  UserInv'
<1>1. phase' = "idle" /\ owned' = owned /\ Spares(fs, fs') /\ mid' = NoMid /\ journal' = << >>
  BY DEF Refuse, End, Spares
<1> QED BY <1>1, OtherSpares

\* The answer gives up what the planned copies hold.
LEMMA AnswerSpares ==
  ASSUME IInv, UserInv, AnswerReset
  PROVE  UserInv'
<1> DEFINE C == UNION {At(t) : t \in plan.copies}
<1>1. CASE Refuse
  BY <1>1, RefuseSpares
<1>2. ASSUME ~Refuse
      PROVE  UserInv'
  <2>1. /\ phase = "teardown" /\ phase' = "teardown" /\ UNCHANGED <<fs, plan, journal>>
        /\ mid' = NoMid /\ mid'.step # "prune" /\ owned' = owned \ UserContents(fs, C)
    BY <1>2 DEF AnswerReset, NoMid
  <2>2. owned \subseteq User /\ \A t \in plan.copies : At(t) \subseteq C
    BY StageFacts
  <2> HIDE DEF C
  <2>3. \A q : Owns(fs, q)' => Owns(fs, q) /\ q \notin C
    BY <2>1, <2>2 DEF Owns, UserContents
  <2>4. UserDataKept' /\ ScratchSpared'
    BY <2>1, <2>3 DEF UserInv, UserDataKept, ScratchSpared, Scratch
  <2>5. (\A t \in plan.copies :
            ~NotDirAbove(fs, t) /\ (mid = Asking \/ \A s \in At(t) : ~Owns(fs, s)))'
    BY <2>1, <2>2, <2>3 DEF UserInv, PlanSpares, NotDirAbove, IsFile
  <2>6. PlanSpares'
    BY <2>1, <2>5 DEF PlanSpares
  <2>7. JournalSpares'
    BY <2>1 DEF JournalSpares
  <2> QED BY <2>4, <2>6, <2>7 DEF UserInv
<1> QED BY <1>1, <1>2

LEMMA ComputeClear ==
  ASSUME IInv, TreeInv, NEW prev, NEW next, IsManifest(next), NEW backup \in BOOLEAN,
         backup => Unnested(next)
  PROVE  LET c == Compute(fs, prev, next, backup)
         IN /\ PlanClear(c, FALSE, {})
            /\ backup = FALSE => c.backup = {}
<1> DEFINE c == Compute(fs, prev, next, backup)
<1>1. fs \in Tree /\ Closed(fs)
  BY StageFacts DEF TreeInv
<1>2. \A q \in c.rmdir : ~IsFile(fs, q)
  BY DEF Compute, IsDir, IsFile
<1>3. \A t \in c.copies : t \in c.backup \/ \A s \in At(t) : ~IsFile(fs, s)
  BY <1>1, PlanCopiesOverNothing
<1>4. backup = FALSE => c.backup = {}
  BY DEF Compute, SetAside
<1>5. c.backup \subseteq DOMAIN next
  <2>1. Moved(fs, prev, next) \subseteq DOMAIN next
    BY DEF Moved, Blocked, Unknown, Mismatched, Present, Occupied, Links, Symlinks, Copies
  <2> QED BY <2>1 DEF Compute, SetAside
<1>6. \A b \in c.backup : c.unlink \cap At(b) = {}
  BY <1>1, <1>4, PlanUnlinksOutside
<1> HIDE DEF c
<1>7. \A a, b \in c.backup : a \notin Below[b]
  BY <1>4, <1>5 DEF Unnested
<1> QED BY <1>2, <1>3, <1>4, <1>6, <1>7 DEF PlanClear, c

LEMMA StartApplySpares ==
  ASSUME UserApart, IInv, TreeInv, UserInv, NEW m \in Manifests, NEW mod \in Modifiers,
         StartApply(m, mod)
  PROVE  UserInv'
<1> DEFINE r == [op |-> "apply", next |-> m, base |-> Baseline, farm |-> m,
                 backup |-> mod.backup, recopy |-> mod.recopy,
                 skip |-> SkipsGeneration(m), selected |-> {}]
           C == IF mod.recopy THEN UNION {At(t) : t \in Copies(m)} ELSE {}
           c == Compute(fs, Baseline, m, mod.backup)
           p == WithRecopy(c, m, mod.recopy)
<1>1. /\ phase = "idle"
      /\ Refuse \/ Begin(r, p, C, "stages") \/ Begin(r, NoPlan, {}, "unwind")
           \/ Begin(r, Repairs(p), C, "stages")
  BY Zenon DEF StartApply
<1>2. /\ IsManifest(m) /\ owned \subseteq User /\ mod.backup \in BOOLEAN /\ mod.recopy \in BOOLEAN
      /\ (mod.backup => Unnested(m))
  BY EngineAssumption, StageFacts DEF UserApart
<1>3. PlanClear(c, FALSE, {})
  BY <1>2, ComputeClear
<1>4. r.recopy = mod.recopy
  OBVIOUS
<1>5. PlanClear(p, mod.recopy, C)
  <2> HIDE DEF c
  <2>1. CASE mod.recopy
    <3>1. \A t \in Copies(m) : At(t) \subseteq C
      BY <2>1
    <3>2. p.rmdir = c.rmdir /\ p.unlink = c.unlink /\ p.backup = c.backup /\ p.copies = Copies(m)
      <4>1. DOMAIN c = {"unlink", "rmdir", "backup", "new", "replace", "foreign", "copies",
                        "remove", "conflicts", "failed"}
        BY DEF c, Compute
      <4> QED BY <2>1, <4>1 DEF WithRecopy
    <3> HIDE DEF C, p
    <3> QED BY <1>3, <3>1, <3>2 DEF PlanClear
  <2>2. CASE ~mod.recopy
    BY <1>2, <1>3, <2>2 DEF WithRecopy, PlanClear
  <2> QED BY <2>1, <2>2
<1>6. PlanClear(Repairs(p), mod.recopy, C)
  <2> HIDE DEF p, C
  <2>1. \A q : /\ Repairs(q).rmdir = q.rmdir /\ Repairs(q).unlink = q.unlink
               /\ Repairs(q).backup = q.backup /\ Repairs(q).copies = q.copies
    BY DEF Repairs
  <2> QED BY <1>5, <2>1 DEF PlanClear
<1> HIDE DEF r, C, p
<1>7. CASE Refuse
  BY <1>7, RefuseSpares
<1>8. CASE Begin(r, p, C, "stages")
  BY <1>1, <1>2, <1>4, <1>5, <1>8, BeginSpares
<1>9. CASE Begin(r, NoPlan, {}, "unwind")
  BY <1>1, <1>2, <1>9, BeginSpares
<1>10. CASE Begin(r, Repairs(p), C, "stages")
  BY <1>1, <1>2, <1>4, <1>6, <1>10, BeginSpares
<1> QED BY <1>1, <1>7, <1>8, <1>9, <1>10

LEMMA StartSpares ==
  ASSUME UserApart, IInv, TreeInv, UserInv, Start
  PROVE  UserInv'
<1>1. owned \subseteq User
  BY StageFacts
<1>2. CASE StartRollback
  <2> DEFINE m == gens[cur - 1]
             r == [op |-> "rollback", next |-> m, base |-> Baseline, farm |-> m,
                   backup |-> FALSE, recopy |-> FALSE, skip |-> FALSE, selected |-> {}]
             p == Compute(fs, Baseline, m, FALSE)
  <2>1. phase = "idle" /\ cur > 1 /\ (Refuse \/ Begin(r, p, {}, "stages"))
    BY <1>2, Zenon DEF StartRollback
  <2>2. IsManifest(m)
    BY <2>1, EngineAssumption DEF IInv, TypeOK
  <2>3. r.recopy = FALSE
    OBVIOUS
  <2> HIDE DEF m, r
  <2>4. PlanClear(p, FALSE, {})
    BY <2>2, ComputeClear
  <2> HIDE DEF p
  <2>5. CASE Refuse
    BY <2>5, RefuseSpares
  <2>6. CASE Begin(r, p, {}, "stages")
    BY <1>1, <2>1, <2>3, <2>4, <2>6, BeginSpares
  <2> QED BY <2>1, <2>5, <2>6
<1>3. ASSUME NEW T, StartReset(T)
      PROVE  UserInv'
  <2> DEFINE sel == Restrict(Baseline, T)
             r == [op |-> "reset", next |-> NoEntries, base |-> Baseline,
                   farm |-> BaselineFarm, backup |-> FALSE, recopy |-> FALSE,
                   skip |-> FALSE, selected |-> T]
             q == Compute(fs, Restrict(sel, Symlinks(sel)), NoEntries, FALSE)
             p == [q EXCEPT !.copies = {t \in Copies(sel) : Exists(fs, t)}]
             C == UNION {At(t) : t \in p.copies}
  <2>1. phase = "idle" /\ (Refuse \/ ((Ask(r, p) \/ Begin(r, p, C, "teardown"))
                                        /\ ~(q.failed \/ \E t \in Copies(sel) : NotDirAbove(fs, t))))
    BY <1>3, Zenon DEF StartReset
  <2>2. p.copies \subseteq Copies(sel)
    BY DEF Compute
  <2>3. \A t \in p.copies : At(t) \subseteq C
    OBVIOUS
  <2> HIDE DEF r, p, C, q
  <2>4. CASE Refuse
    BY <2>4, RefuseSpares
  <2>5. CASE (Ask(r, p) \/ Begin(r, p, C, "teardown"))
             /\ ~(q.failed \/ \E t \in Copies(sel) : NotDirAbove(fs, t))
    <3>1. \A t \in p.copies : ~NotDirAbove(fs, t) /\ At(t) \subseteq C
      BY <2>2, <2>3, <2>5
    <3> QED BY <1>1, <2>1, <2>5, <3>1, AskSpares, BeginSpares
  <2> QED BY <2>1, <2>4, <2>5
<1> QED BY <1>2, <1>3, StartApplySpares DEF Start

-----------------------------------------------------------------------------
(* The rest of a run, and the user. *)

LEMMA StageStepSpares ==
  ASSUME NamesApart, UserApart, IInv, TreeInv, UserInv, StageStep
  PROVE  UserInv'
<1>1. ASSUME NEW t, CopyStuck(t) PROVE UserInv'
  <2>1. phase = "stages"
    BY <1>1 DEF CopyStuck
  <2> QED BY <1>1, <2>1, StuckSpares
<1>2. ASSUME NEW t, StageStuck(t) PROVE UserInv'
  <2>1. phase = "stages"
    BY <1>2 DEF StageStuck, Refuses, In
  <2> QED BY <1>2, <2>1, StuckSpares
<1> QED BY <1>1, <1>2, PreRemoveSpares, BackUpSpares, PlaceSpares, CopiesSpare, ResetCopySpares,
           RemoveSparesData, PruneSpares
        DEF StageStep

LEMMA StageFaultSpares ==
  ASSUME IInv, UserInv, StageFault
  PROVE  UserInv'
<1>1. phase = "stages" /\ phase' = "unwind" /\ mid' = NoMid /\ owned' = owned /\ UNCHANGED journal
  BY DEF StageFault, Fails
<1>2. fs \in Tree /\ journal \in Seq(UndoOp)
  BY StageFacts
<1>3. Spares(fs, fs')
  <2>1. UNCHANGED fs => Spares(fs, fs')
    BY DEF Spares
  <2> QED BY <1>2, <2>1, MkdirsSpares DEF StageFault
<1>4. JournalSpares'
  BY <1>1, <1>2, <1>3, JournalGrows DEF UserInv
<1> QED BY <1>1, <1>3, <1>4, FailSpares

\* A pruning that stops, a teardown that stops.
LEMMA SmallFaultSpares ==
  ASSUME IInv, UserInv, PruneFault \/ ResetFault
  PROVE  UserInv'
<1>1. /\ UNCHANGED <<fs, phase, run, journal, owned>> /\ phase \in {"stages", "teardown"}
      /\ mid # Asking
      /\ mid' = NoMid /\ mid'.step # "prune" /\ Spares(fs, fs')
  BY StageFacts DEF PruneFault, ResetFault, Spares
<1>2. CASE phase = "stages"
  <2>1. UNCHANGED plan /\ mid # NoMid
    BY <1>2, StageFacts DEF PruneFault, ResetFault
  <2>2. plan.backup = {}
    BY <1>2, <2>1 DEF UserInv, PlanSpares
  <2> QED BY <1>1, <1>2, <2>1, <2>2, LateSpares
<1>3. CASE phase = "teardown"
  <2>1. plan'.copies \subseteq plan.copies
    BY DEF PruneFault, ResetFault, NoPlan
  <2> QED BY <1>1, <1>3, <2>1, TeardownSpares
<1> QED BY <1>1, <1>2, <1>3

LEMMA EndSpares ==
  ASSUME TreeInv, UserInv, DiscardJournal \/ Unwound \/ RecordAfterReset \/ CommitFault \/ ResetRecordFault \/ Crash
  PROVE  UserInv'
<1>1. phase' = "idle" /\ mid' = NoMid /\ journal' = << >> /\ owned' = owned
  BY DEF DiscardJournal, Unwound, RecordAfterReset, CommitFault, ResetRecordFault, Crash, End
<1>2. Spares(fs, fs')
  <2>1. CASE UNCHANGED fs
    BY <2>1 DEF Spares
  <2>2. CASE DiscardJournal
    <3>1. \A q \in Asides : At(q) \subseteq Scratch
      BY AsideIsScratch DEF Asides, TreeInv, JournalFits
    <3>2. \A p \in Path : fs'[p] = IF \E q \in Asides : p \in At(q) THEN Absent ELSE fs[p]
      BY <2>2 DEF DiscardJournal
    <3>3. \A p \in Path : fs'[p] = fs[p] \/ (fs'[p] = Absent /\ p \in Scratch)
      BY <3>1, <3>2
    <3>4. \A p \in Path : fs'[p] = Absent => ~Owns(fs', p)
      BY NotFileNotOwned DEF IsFile, Absent
    <3> QED BY <3>3, <3>4 DEF Spares, UserInv, ScratchSpared
  <2> QED BY <2>1, <2>2 DEF Unwound, RecordAfterReset, CommitFault, ResetRecordFault, Crash
<1> QED BY <1>1, <1>2, OtherSpares

LEMMA RecordSpares ==
  ASSUME UserInv, WriteRecord \/ Commit
  PROVE  UserInv'
<1>1. phase' \in {"commit", "discard"} /\ owned' = owned /\ UNCHANGED <<fs, mid>>
  BY DEF WriteRecord, Commit, ghostVars
<1>2. mid = NoMid
  BY DEF WriteRecord, Commit, In, UserInv, PlanSpares
<1>3. Spares(fs, fs')
  BY <1>1 DEF Spares
<1> QED BY <1>1, <1>2, <1>3, OtherSpares

LEMMA UserStepSpares ==
  ASSUME UserApart, IInv, UserInv, UserStep
  PROVE  UserInv'
<1>1. phase = "idle" /\ phase' = "idle" /\ UNCHANGED <<mid, journal>>
  BY DEF UserStep, UserWrite, UserMkdir, UserRelink, UserDelete, UserMay, Edited, UserApart
<1>2. fs \in Tree /\ owned \subseteq User /\ UserPath \subseteq Path /\ UserPath \cap Scratch = {}
      /\ Scratch \subseteq Path
  BY StageFacts, EngineAssumption DEF UserApart, Scratch
<1>3. PICK p \in UserPath :
        \/ \E u \in User : UserWrite(p, u)
        \/ UserMkdir(p)
        \/ \E d \in Foreign : UserRelink(p, d)
        \/ UserDelete(p)
  BY DEF UserStep
<1>4. UserDataKept' /\ ScratchSpared'
  <2>1. ASSUME NEW u \in User, UserWrite(p, u) PROVE UserDataKept' /\ ScratchSpared'
    <3>1. /\ owned' = (owned \ UserContents(fs, {p})) \cup {u} /\ u \notin UserContents(fs, Path)
          /\ \A q \in Path : fs'[q] = IF q = p THEN FileOf(u) ELSE fs[q]
      BY <1>2, <2>1 DEF UserWrite, Put, Tree
    <3>2. ASSUME NEW v \in owned' PROVE \E q \in Path : fs'[q] = FileOf(v)
      <4>1. CASE v = u
        BY <1>2, <3>1, <4>1
      <4>2. CASE v # u
        <5>1. v \in owned /\ v \in User /\ v \notin UserContents(fs, {p})
          BY <1>2, <3>1, <3>2, <4>2
        <5>2. PICK q \in Path : fs[q] = FileOf(v)
          BY <5>1 DEF UserInv, UserDataKept
        <5>3. q # p
          BY <5>1, <5>2 DEF UserContents
        <5> QED BY <3>1, <5>2, <5>3
      <4> QED BY <4>1, <4>2
    <3>3. ASSUME NEW r \in Scratch, NEW v \in owned', fs'[r] = FileOf(v) PROVE FALSE
      <4>1. r \in Path /\ r # p /\ fs[r] = FileOf(v)
        BY <1>2, <3>1, <3>3
      <4>2. v # u
        BY <4>1, <3>1 DEF UserContents
      <4> QED BY <3>1, <3>3, <4>1, <4>2 DEF UserInv, ScratchSpared, Owns
    <3>4. UserDataKept'
      BY <3>2 DEF UserDataKept
    <3>5. ScratchSpared'
      BY <3>3 DEF ScratchSpared, Scratch, Owns
    <3> QED BY <3>4, <3>5
  <2>2. ASSUME Spares(fs, fs'), owned' = owned PROVE UserDataKept' /\ ScratchSpared'
    BY <2>2, SparedData DEF UserInv
  <2>3. CASE UserMkdir(p)
    <3>1. fs' = Put(fs, p, Dir) /\ ~Owns(fs, p) /\ owned' = owned
      BY <2>3, NotFileNotOwned DEF UserMkdir, Exists, IsFile
    <3> QED BY <1>2, <2>2, <3>1, NoFileSpares DEF Dir
  <2>4. ASSUME NEW d \in Foreign, UserRelink(p, d) PROVE UserDataKept' /\ ScratchSpared'
    <3>1. fs' = Put(fs, p, LinkTo(d)) /\ ~Owns(fs, p) /\ owned' = owned
      BY <2>4, NotFileNotOwned DEF UserRelink, IsFile
    <3> QED BY <1>2, <2>2, <3>1, NoFileSpares DEF LinkTo
  <2>5. CASE UserDelete(p)
    <3>1. owned' = owned \ UserContents(fs, At(p))
          /\ \A q \in Path : fs'[q] = IF q \in At(p) THEN Absent ELSE fs[q]
      BY <2>5 DEF UserDelete, Clear
    <3>2. ASSUME NEW v \in owned' PROVE \E q \in Path : fs'[q] = FileOf(v)
      <4>1. v \in owned /\ v \in User /\ v \notin UserContents(fs, At(p))
        BY <1>2, <3>1, <3>2
      <4>2. PICK q \in Path : fs[q] = FileOf(v)
        BY <4>1 DEF UserInv, UserDataKept
      <4>3. q \notin At(p)
        BY <4>1, <4>2 DEF UserContents
      <4> QED BY <3>1, <4>2, <4>3
    <3>3. ASSUME NEW r \in Scratch, NEW v \in owned', fs'[r] = FileOf(v) PROVE FALSE
      <4>1. fs[r] = FileOf(v) /\ v \in owned
        BY <1>2, <3>1, <3>3 DEF Absent, FileOf
      <4> QED BY <3>3, <4>1 DEF UserInv, ScratchSpared, Owns
    <3>4. UserDataKept'
      BY <3>2 DEF UserDataKept
    <3>5. ScratchSpared'
      BY <3>3 DEF ScratchSpared, Scratch, Owns
    <3> QED BY <3>4, <3>5
  <2> QED BY <1>3, <2>1, <2>3, <2>4, <2>5
<1>5. PlanSpares'
  <2>1. mid' = NoMid /\ journal' = << >>
    BY <1>1 DEF UserInv, PlanSpares
  <2>2. mid'.step # "prune"
    BY <2>1 DEF NoMid
  <2> QED BY <1>1, <2>1, <2>2 DEF PlanSpares
<1>6. JournalSpares'
  BY <1>1 DEF JournalSpares
<1> QED BY <1>4, <1>5, <1>6 DEF UserInv

LEMMA NextUserInv ==
  ASSUME NamesApart, UserApart
  PROVE  IInv /\ TreeInv /\ UserInv /\ [Next]_vars => UserInv'
<1> SUFFICES ASSUME IInv, TreeInv, UserInv, [Next]_vars PROVE UserInv'
  OBVIOUS
<1>1. CASE Start
  BY <1>1, StartSpares
<1>2. CASE StageStep
  BY <1>2, StageStepSpares
<1>3. CASE Finish
  BY <1>3, RecordSpares, EndSpares, UndoneSpares DEF Finish
<1>4. CASE Failure \/ Crash
  BY <1>4, StageFaultSpares, SmallFaultSpares, EndSpares DEF Failure
<1>5. CASE UserStep
  BY <1>5, UserStepSpares
<1>6. CASE UNCHANGED vars
  <2>1. UNCHANGED <<fs, phase, run, plan, mid, journal, owned>>
    BY <1>6 DEF vars, engineVars, ghostVars
  <2>2. UserDataKept' /\ ScratchSpared'
    BY <2>1, SparedData DEF UserInv, Spares
  <2>3. PlanSpares'
    BY <2>1 DEF UserInv, PlanSpares, Owns, NotDirAbove, IsFile
  <2>4. JournalSpares'
    BY <2>1 DEF UserInv, JournalSpares, Owns, Guards
  <2> QED BY <2>2, <2>3, <2>4 DEF UserInv
<1>7. CASE AnswerReset
  BY <1>7, AnswerSpares
<1> QED BY <1>1, <1>2, <1>3, <1>4, <1>5, <1>6, <1>7 DEF Next, RunStep

LEMMA InitUserInv == Init => UserInv
<1> SUFFICES ASSUME Init PROVE UserInv
  OBVIOUS
<1>1. owned = {} /\ phase = "idle" /\ mid = NoMid /\ journal = << >>
  BY DEF Init
<1>2. mid.step # "prune"
  BY <1>1 DEF NoMid
<1> QED BY <1>1, <1>2 DEF UserInv, UserDataKept, ScratchSpared, PlanSpares, JournalSpares, Owns

\* What the user wrote between two runs is still in the tree unless the user
\* deleted it or agreed to lose it, whatever runs, fails, is unwound, crashes
\* and runs again after that, and however often (README.md:492, "never
\* overwrites your file"; planner.go classifyCopy, backup.go, copy.go, undo.go,
\* reset.go).
THEOREM UserFilesStay ==
  ASSUME NamesApart, UserApart
  PROVE  Spec => []UserDataKept
<1>1. UserInv => UserDataKept
  BY DEF UserInv
<1> QED BY <1>1, InitIInv, NextIInv, InitTree, NextTree, InitUserInv, NextUserInv, PTL DEF Spec
=============================================================================
