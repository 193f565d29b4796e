----------------------------- MODULE ReportProofs -----------------------------
(***************************************************************************)
(* What a run tells of itself is what it has done: theorems about Report,  *)
(* for any manifests whose entries keep apart, any tree, and any failures  *)
(* and crashes.                                                            *)
(***************************************************************************)
EXTENDS RunProofs

-----------------------------------------------------------------------------
(* What a run tells: every step of Report is a step of Engine.              *)

LEMMA ToldStep ==
  /\ ReportNext => Next
  /\ [ReportNext]_allVars => [Next]_vars
<1>1. TellStart => Start
  BY DEF TellStart, Start
<1>2. TellStage => StageStep
  BY DEF TellStage, StageStep
<1>3. TellFinish => Finish
  BY DEF TellFinish, Finish
<1>4. TellFault => Failure
  BY DEF TellFault, Failure
<1>5. ReportNext => Next
  BY <1>1, <1>2, <1>3, <1>4 DEF ReportNext, Next, RunStep
<1> QED BY <1>5 DEF allVars

LEMMA ToldSpec == ReportSpec => Spec
<1>1. ReportInit => Init
  BY DEF ReportInit
<1> QED BY <1>1, ToldStep, PTL DEF ReportSpec, Spec

\* The values result takes.
Result ==
  [placed : SUBSET Path, replaced : SUBSET Path, copied : SUBSET Path, recopied : SUBSET Path,
   removed : SUBSET Path, backedUp : SUBSET Path, kept : SUBSET Path, olds : [Target -> Val],
   failed : Path \cup {<< >>}, unreached : SUBSET Path, planned : Plan]

LEMMA ForgetIs ==
  /\ NoResult \in Result
  /\ \A p \in Plan : [NoResult EXCEPT !.planned = p] \in Result
  /\ NoResult.placed = {} /\ NoResult.replaced = {} /\ NoResult.copied = {} /\ NoResult.recopied = {}
  /\ NoResult.removed = {} /\ NoResult.backedUp = {} /\ NoResult.kept = {} /\ NoResult.unreached = {}
<1>1. NoPlan \in Plan /\ None \in Val
  BY NoPlanPlan DEF Val
<1> QED BY <1>1 DEF NoResult, Result

\* One more target in a list, the other lists as they were.
LEMMA TellIs ==
  ASSUME result \in Result, NEW t \in Path
  PROVE  /\ Tell("removed", t) =>
              /\ result' \in Result /\ result'.removed = result.removed \cup {t}
              /\ result'.placed = result.placed /\ result'.replaced = result.replaced
              /\ result'.copied = result.copied /\ result'.recopied = result.recopied
              /\ result'.backedUp = result.backedUp
         /\ Tell("backedUp", t) =>
              /\ result' \in Result /\ result'.backedUp = result.backedUp \cup {t}
              /\ result'.placed = result.placed /\ result'.replaced = result.replaced
              /\ result'.copied = result.copied /\ result'.recopied = result.recopied
              /\ result'.removed = result.removed
         /\ Tell("placed", t) =>
              /\ result' \in Result /\ result'.placed = result.placed \cup {t}
              /\ result'.replaced = result.replaced
              /\ result'.copied = result.copied /\ result'.recopied = result.recopied
              /\ result'.removed = result.removed /\ result'.backedUp = result.backedUp
         /\ Tell("copied", t) =>
              /\ result' \in Result /\ result'.copied = result.copied \cup {t}
              /\ result'.placed = result.placed /\ result'.replaced = result.replaced
              /\ result'.recopied = result.recopied
              /\ result'.removed = result.removed /\ result'.backedUp = result.backedUp
         /\ Tell("recopied", t) =>
              /\ result' \in Result /\ result'.recopied = result.recopied \cup {t}
              /\ result'.placed = result.placed /\ result'.replaced = result.replaced
              /\ result'.copied = result.copied
              /\ result'.removed = result.removed /\ result'.backedUp = result.backedUp
         /\ Tell("kept", t) => result' \in Result
         /\ \A f \in {"removed", "backedUp", "placed", "copied", "recopied"} : Tell(f, t) =>
              /\ result'.kept = result.kept /\ result'.olds = result.olds
              /\ result'.planned = result.planned
              /\ result'.failed = result.failed /\ result'.unreached = result.unreached
<1> SUFFICES ASSUME NEW f \in {"removed", "backedUp", "placed", "copied", "recopied", "kept"}, Tell(f, t)
             PROVE  /\ result' \in Result
                    /\ f # "removed" => result'.removed = result.removed
                    /\ f = "removed" => result'.removed = result.removed \cup {t}
                    /\ f # "backedUp" => result'.backedUp = result.backedUp
                    /\ f = "backedUp" => result'.backedUp = result.backedUp \cup {t}
                    /\ f # "placed" => result'.placed = result.placed
                    /\ f = "placed" => result'.placed = result.placed \cup {t}
                    /\ f # "copied" => result'.copied = result.copied
                    /\ f = "copied" => result'.copied = result.copied \cup {t}
                    /\ f # "recopied" => result'.recopied = result.recopied
                    /\ f = "recopied" => result'.recopied = result.recopied \cup {t}
                    /\ f # "kept" => result'.kept = result.kept
                    /\ result'.replaced = result.replaced /\ result'.olds = result.olds
                    /\ result'.planned = result.planned
                    /\ result'.failed = result.failed /\ result'.unreached = result.unreached
  OBVIOUS
<1>1. CASE f = "removed" BY <1>1 DEF Result, Tell
<1>2. CASE f = "backedUp" BY <1>2 DEF Result, Tell
<1>3. CASE f = "placed" BY <1>3 DEF Result, Tell
<1>4. CASE f = "copied" BY <1>4 DEF Result, Tell
<1>5. CASE f = "recopied" BY <1>5 DEF Result, Tell
<1>6. CASE f = "kept" BY <1>6 DEF Result, Tell
<1> QED BY <1>1, <1>2, <1>3, <1>4, <1>5, <1>6

LEMMA TellFailureIs ==
  ASSUME IInv, result \in Result, NEW t \in Path \cup {<< >>}, TellFailure(t)
  PROVE  /\ result' \in Result
         /\ run.skip => result' = NoResult
         /\ ~run.skip => /\ result'.failed = t /\ result'.unreached = Unreached(t)
                         /\ result'.placed = result.placed /\ result'.replaced = result.replaced
                         /\ result'.copied = result.copied /\ result'.recopied = result.recopied
                         /\ result'.removed = result.removed /\ result'.backedUp = result.backedUp
<1>1. Unreached(t) \subseteq Path
  BY StageFacts DEF Unreached, Left, Relinks, Plan, Result
<1>2. CASE run.skip
  BY <1>2, ForgetIs DEF TellFailure
<1>3. CASE ~run.skip
  <2>1. result' = [result EXCEPT !.failed = t, !.unreached = Unreached(t)]
    BY <1>3 DEF TellFailure
  <2> QED BY <1>1, <1>3, <2>1 DEF Result
<1> QED BY <1>2, <1>3

-----------------------------------------------------------------------------
(* What the journal and mid say of a run under way.                         *)

\* What an entry of the journal is about.
Made(op) ==
  /\ op.kind # "mkdir" => op.path \in Touched
  /\ op.kind \in {"removeCopy", "restoreRename"} => op.path \in Aim.copies
  /\ op.kind = "restoreRename" => run.recopy /\ Exists(before, op.path)
  /\ op.kind = "restoreBackup" => op.path \in Aim.backup

\* Nothing was at t, or the run has cleared it for the copy.
NewCopy(t) == t \in Aim.unlink \cup Aim.backup \/ ~Exists(before, t)

Marked ==
  /\ \A i \in DOMAIN journal : Made(journal[i])
  /\ mid.step = "relink" => before[mid.path] = LinkTo(Last(journal).dest)
  /\ mid.step = "aside" => Asided(mid.path)
  /\ mid.step = "copy" => Asided(mid.path) \/ NewCopy(mid.path)

MarkInv == phase = "stages" => Marked

LEMMA JournalMade ==
  ASSUME journal \in Seq(UndoOp), \A i \in DOMAIN journal : Made(journal[i]),
         UNCHANGED <<run, before>>, Touched \subseteq Touched',
         \/ UNCHANGED journal
         \/ \E e \in UndoOp : journal' = Append(journal, e) /\ Made(e)'
  PROVE  /\ \A i \in DOMAIN journal' : Made(journal[i])'
         /\ \A t : Asided(t) => Asided(t)'
<1>1. \A op : Made(op) => Made(op)'
  BY AimStays DEF Made
<1>2. CASE UNCHANGED journal
  BY <1>1, <1>2 DEF Asided
<1>3. CASE \E e \in UndoOp : journal' = Append(journal, e) /\ Made(e)'
  <2>1. PICK e \in UndoOp : journal' = Append(journal, e) /\ Made(e)'
    BY <1>3
  <2>2. /\ DOMAIN journal' = DOMAIN journal \cup {Len(journal) + 1}
        /\ \A i \in DOMAIN journal : journal'[i] = journal[i]
        /\ journal'[Len(journal) + 1] = e
    BY <2>1, AppendIs
  <2>3. ASSUME NEW i \in DOMAIN journal' PROVE Made(journal[i])'
    <3>1. CASE i \in DOMAIN journal
      BY <2>2, <3>1, AimStays DEF Made
    <3>2. CASE i = Len(journal) + 1
      BY <2>1, <2>2, <3>2 DEF Made
    <3> QED BY <2>2, <2>3, <3>1, <3>2
  <2>4. \A t : Asided(t) => Asided(t)'
    BY <2>2 DEF Asided
  <2> QED BY <2>3, <2>4
<1> QED BY <1>2, <1>3

LEMMA LogMade ==
  ASSUME journal \in Seq(UndoOp), \A i \in DOMAIN journal : Made(journal[i]), Progress,
         NEW kind \in UndoKind, NEW p \in Path, NEW d \in Val, Journals(kind, p, d),
         kind # "mkdir" => p \in Touched',
         kind \in {"removeCopy", "restoreRename"} => p \in Aim.copies,
         kind = "restoreRename" => run.recopy /\ Exists(before, p),
         kind = "restoreBackup" => p \in Aim.backup
  PROVE  /\ \A i \in DOMAIN journal' : Made(journal[i])'
         /\ \A t : Asided(t) => Asided(t)'
         /\ kind = "restoreRename" => Asided(p)'
         /\ Last(journal').dest = d
<1> DEFINE e == [kind |-> kind, path |-> p, dest |-> d]
<1>1. e \in UndoOp /\ journal' = Append(journal, e)
  BY DEF UndoOp, Journals
<1>2. UNCHANGED <<run, before>> /\ Touched \subseteq Touched' /\ Aim' = Aim
  BY AimStays DEF Progress
<1>3. Made(e)'
  BY <1>2 DEF Made
<1>4. Last(journal') = e /\ e.dest = d
  BY <1>1, AppendLast
<1>5. kind = "restoreRename" => Asided(p)'
  <2>1. Len(journal) + 1 \in DOMAIN journal' /\ journal'[Len(journal) + 1] = e
    BY <1>1, AppendIs
  <2> QED BY <2>1 DEF Asided
<1> QED
  <2> HIDE DEF e
  <2>1. \E x \in UndoOp : journal' = Append(journal, x) /\ Made(x)'
    BY <1>1, <1>3
  <2> QED BY <1>2, <1>4, <1>5, <2>1, JournalMade

\* A step in the middle of nothing else, or one that ends what it is about.
LEMMA RestMarked ==
  ASSUME \A i \in DOMAIN journal' : Made(journal[i])', mid' = NoMid \/ mid'.step = "prune"
  PROVE  Marked'
BY DEF Marked, NoMid

LEMMA StageMark ==
  ASSUME NamesApart, RunBasis, Marked, StageStep, phase = "stages", phase' = "stages"
  PROVE  Marked'
<1>1. Progress
  BY StageProgress
<1>2. /\ plan \in Plan /\ fs \in Tree /\ journal \in Seq(UndoOp) /\ IsManifest(run.base) /\ IsManifest(run.next)
      /\ Fits /\ AimFits /\ Target \subseteq Path /\ NoMid.step = "none"
      /\ UNCHANGED <<run, before>> /\ Aim' = Aim
      /\ \A s, p : Mid(s, p).step = s /\ Mid(s, p).path = p
      /\ \A i \in DOMAIN journal : Made(journal[i])
  BY <1>1, StageFacts, StageBasis, AimStays DEF RunBasis, Progress, Marked
<1>3. None \in Val /\ UndoKind = {"unlinkNew", "relinkOld", "removeCopy", "restoreRename", "restoreBackup", "mkdir"}
  BY DEF Val, UndoKind
<1>4. UNCHANGED journal => (\A i \in DOMAIN journal' : Made(journal[i])') /\ \A t : Asided(t) => Asided(t)'
  BY <1>1, <1>2, JournalMade DEF Progress
<1>5. ASSUME NEW p \in plan.unlink, PreRemoveUnlink(p) PROVE Marked'
  <2>1. /\ Journals("relinkOld", p, run.base[p].src) /\ mid' = mid /\ mid = NoMid
        /\ plan' = [plan EXCEPT !.unlink = @ \ {p}] /\ p \in DOMAIN run.base
    BY <1>5 DEF PreRemoveUnlink, In, JournalRelink, Journals, RecordedLink
  <2>2. p \in Touched' /\ p \in Path /\ run.base[p].src \in Val
    BY <1>2, <2>1, ManifestTypes DEF Touched, Taken, Unlinks, Fits, Shrinks, Plan
  <2> QED BY <1>1, <1>2, <1>3, <2>1, <2>2, LogMade, RestMarked
<1>6. ASSUME NEW p \in plan.rmdir, PreRemoveRmdir(p) PROVE Marked'
  <2>1. /\ Journals("mkdir", p, None) \/ UNCHANGED journal
        /\ mid' = mid /\ mid = NoMid /\ p \in Path
    BY <1>2, <1>6 DEF PreRemoveRmdir, In, Journal, Journals, Plan
  <2> QED BY <1>1, <1>2, <1>3, <1>4, <2>1, LogMade, RestMarked
<1>7. ASSUME NEW t \in plan.backup, BackUp(t) PROVE Marked'
  <2>1. /\ Journals("restoreBackup", t, None) /\ mid' = mid /\ mid = NoMid
        /\ plan' = [plan EXCEPT !.backup = @ \ {t}]
    BY <1>7 DEF BackUp, In, Journal, Journals
  <2>2. t \in Aim.backup /\ t \in Touched' /\ t \in Path
    BY <1>2, <2>1 DEF Touched, BackedUp, Fits, Shrinks, Plan
  <2> QED BY <1>1, <1>2, <1>3, <2>1, <2>2, LogMade, RestMarked
<1>8. ASSUME NEW t \in plan.new, PlaceNew(t) PROVE Marked'
  <2>1. /\ Journals("unlinkNew", t, None) /\ mid' = mid /\ mid = NoMid
        /\ plan' = [plan EXCEPT !.new = @ \ {t}]
    BY <1>8 DEF PlaceNew, In, Journal, Journals
  <2>2. t \in Touched' /\ t \in Path
    BY <1>2, <2>1 DEF Touched, SetNow, Fits, Shrinks, Plan
  <2> QED BY <1>1, <1>2, <1>3, <2>1, <2>2, LogMade, RestMarked
<1>9. ASSUME NEW t \in Relinks, RelinkUnlink(t) PROVE Marked'
  <2>1. /\ Journals("relinkOld", t, fs[t].val) /\ mid = NoMid /\ mid' = Mid("relink", t) /\ IsLink(fs, t)
    BY <1>9 DEF RelinkUnlink, In, JournalRelink, Journals
  <2>2. t \in Path /\ fs[t].val \in Val /\ fs[t] = before[t] /\ fs[t] = LinkTo(fs[t].val)
    <3>1. t \in Path /\ fs[t] \in Node /\ fs[t].kind = "link"
      BY <1>2, <2>1 DEF Relinks, Plan, Tree, IsLink
    <3>2. fs[t] = before[t]
      BY <1>2, <2>1 DEF Fits, TreeFits, Busy
    <3> QED BY <3>1, <3>2 DEF Node, LinkTo
  <2>3. t \in Touched'
    BY <1>2, <2>1 DEF Touched, Busy
  <2>4. (\A i \in DOMAIN journal' : Made(journal[i])') /\ Last(journal').dest = fs[t].val
    BY <1>1, <1>2, <1>3, <2>1, <2>2, <2>3, LogMade
  <2>5. mid'.step = "relink" /\ mid'.path = t
    BY <1>2, <2>1
  <2> QED BY <1>2, <2>2, <2>4, <2>5 DEF Marked
<1>10. ASSUME NEW t \in Relinks, RelinkSymlink(t) PROVE Marked'
  BY <1>4, <1>10, RestMarked DEF RelinkSymlink
<1>11. ASSUME NEW t \in plan.copies, RecopyAside(t) PROVE Marked'
  <2>1. /\ Journals("restoreRename", t, None) /\ mid = NoMid /\ mid' = Mid("aside", t) /\ UNCHANGED plan
        /\ run.recopy /\ Exists(fs, t) /\ In("copy")
    BY <1>11 DEF RecopyAside, In, Journal, Journals, Writes
  <2>2. t \in Path /\ t \in Aim.copies /\ t \in Touched' /\ mid'.step = "aside" /\ mid'.path = t
    BY <1>2, <2>1 DEF Plan, Fits, Shrinks, Touched, Busy
  <2>3. Exists(before, t)
    <3>1. plan.new = {}
      BY <2>1, CopyStage DEF RunBasis
    <3>2. Pending(t)
      BY <1>2, <2>1 DEF Fits, TreeFits, Busy
    <3> QED BY <2>1, <3>1, <3>2 DEF Pending, Exists, Absent
  <2>4. (\A i \in DOMAIN journal' : Made(journal[i])') /\ Asided(t)'
    BY <1>1, <1>2, <1>3, <2>1, <2>2, <2>3, LogMade
  <2> QED BY <2>2, <2>4 DEF Marked
<1>12. ASSUME NEW t \in plan.copies, CopyStart(t) PROVE Marked'
  <2>1. /\ mid' = Mid("copy", t) /\ UNCHANGED plan
        /\ \/ mid = NoMid /\ In("copy") /\ Journals("removeCopy", t, None)
           \/ mid = Mid("aside", t) /\ UNCHANGED journal
    BY <1>12 DEF CopyStart, In, Journal, Journals, Writes
  <2>2. t \in Path /\ t \in Aim.copies /\ t \in Touched' /\ mid'.step = "copy" /\ mid'.path = t
    BY <1>2, <2>1 DEF Plan, Fits, Shrinks, Touched, Busy
  <2>3. CASE mid = NoMid /\ In("copy") /\ Journals("removeCopy", t, None)
    <3>1. plan.new = {} /\ Pending(t)
      BY <1>2, <2>3, CopyStage DEF RunBasis, Fits, TreeFits, Busy
    <3>2. ~Exists(fs, t)
      BY <1>12, CopyFree DEF RunBasis
    <3>3. NewCopy(t)'
      BY <1>2, <3>1, <3>2 DEF Pending, NewCopy, Unlinks, BackedUp, Exists
    <3>4. \A i \in DOMAIN journal' : Made(journal[i])'
      BY <1>1, <1>2, <1>3, <2>2, <2>3, LogMade
    <3> QED BY <2>2, <3>3, <3>4 DEF Marked
  <2>4. CASE mid = Mid("aside", t) /\ UNCHANGED journal
    <3>1. Asided(t)'
      BY <1>2, <1>4, <2>4 DEF Marked
    <3> QED BY <1>4, <2>2, <2>4, <3>1 DEF Marked
  <2> QED BY <2>1, <2>3, <2>4
<1>13. ASSUME NEW t \in plan.copies, CopyFinish(t) PROVE Marked'
  BY <1>4, <1>13, RestMarked DEF CopyFinish, Writes
<1>14. ASSUME NEW t \in plan.copies, CopyStuck(t) \/ ResetCopy(t) PROVE FALSE
  BY <1>14 DEF CopyStuck, ResetCopy
<1>15. ASSUME NEW t \in plan.remove, RemoveStale(t) PROVE Marked'
  <2>1. /\ mid = NoMid /\ plan' = [plan EXCEPT !.remove = @ \ {t}]
        /\ \/ Journals("relinkOld", t, run.base[t].src) /\ mid' = Mid("prune", t) /\ t \in DOMAIN run.base
           \/ UNCHANGED <<journal, mid>>
    BY <1>15 DEF RemoveStale, InStale, In, StillStale, RecordedLink, JournalRelink, Journals
  <2>2. t \in Path /\ t \in Touched' /\ (t \in DOMAIN run.base => run.base[t].src \in Val)
    BY <1>2, <2>1, ManifestTypes DEF Touched, Taken, Fits, Shrinks, Plan
  <2> QED BY <1>1, <1>2, <1>3, <1>4, <2>1, <2>2, LogMade, RestMarked
<1>16. ASSUME PruneAncestor PROVE Marked'
  <2>1. \/ Journals("mkdir", Front(mid.path), None) /\ Front(mid.path) \in Path /\ mid' = Mid("prune", Front(mid.path))
        \/ mid' = NoMid /\ UNCHANGED journal
    BY <1>16 DEF PruneAncestor, Journal, Journals
  <2> QED BY <1>1, <1>2, <1>3, <1>4, <2>1, LogMade, RestMarked
<1>17. ASSUME NEW p \in Path, StageStuck(p) PROVE FALSE
  BY <1>17 DEF StageStuck, Fails
<1> QED BY <1>5, <1>6, <1>7, <1>8, <1>9, <1>10, <1>11, <1>12, <1>13, <1>14, <1>15, <1>16, <1>17 DEF StageStep

LEMMA NextMark ==
  ASSUME NamesApart, EntriesApart, RunBasis, RunBasis', MarkInv, [Next]_vars
  PROVE  MarkInv'
<1> SUFFICES ASSUME phase' = "stages" PROVE Marked'
  BY DEF MarkInv
<1>1. UnderWay'
  BY DEF UnderWay
<1>2. CASE phase = "idle" /\ Start
  <2>1. journal' = << >> /\ mid' = NoMid
    BY <1>2, StartIs DEF StartFacts, RunBasis, JournalInv
  <2> QED BY <2>1, RestMarked
<1>3. CASE phase = "stages" /\ StageStep
  BY <1>3, StageMark DEF MarkInv
<1>4. ASSUME UNCHANGED <<phase, run, before, journal>>, Touched' = Touched, mid' \in {mid, NoMid}
      PROVE  Marked'
  <2>1. Marked /\ Aim' = Aim /\ journal \in Seq(UndoOp)
    BY <1>4, AimStays, StageFacts DEF MarkInv, RunBasis
  <2>2. (\A i \in DOMAIN journal' : Made(journal[i])') /\ \A t : Asided(t) => Asided(t)'
    BY <1>4, <2>1, JournalMade DEF Marked
  <2>3. CASE mid' = NoMid
    BY <2>2, <2>3, RestMarked
  <2>4. CASE mid' = mid
    BY <1>4, <2>1, <2>2, <2>4 DEF Marked, NewCopy
  <2> QED BY <1>4, <2>3, <2>4
<1>5. CASE UnderWay /\ UNCHANGED <<fs, run, before, plan>> /\ Touched' = Touched /\ ~Start /\ ~StageStep
  <2>1. CASE Finish
    BY <2>1 DEF Finish, WriteRecord, Commit, DiscardJournal, UndoStep, Unwound, RecordAfterReset, End, UnderWay
  <2>2. CASE Failure
    <3>1. PruneFault
      BY <2>2 DEF Failure, StageFault, Fails, CommitFault, ResetFault, ResetRecordFault, End
    <3>2. UNCHANGED <<phase, run, before, journal>> /\ mid' = NoMid
      BY <3>1 DEF PruneFault
    <3> QED BY <1>4, <1>5, <3>2
  <2>3. CASE Crash
    BY <2>3 DEF Crash, End
  <2>4. CASE UserStep
    <3>1. phase = "idle"
      BY <2>4 DEF EntriesApart, UserStep, UserWrite, UserMkdir, UserRelink, UserDelete, UserMay
    <3> QED BY <1>5, <3>1 DEF UnderWay
  <2>5. CASE UNCHANGED vars
    BY <1>4, <1>5, <2>5 DEF vars, engineVars, ghostVars
  <2>6. CASE AnswerReset
    BY <1>5, <2>6 DEF AnswerReset, UnderWay
  <2> QED BY <1>5, <2>1, <2>2, <2>3, <2>4, <2>5, <2>6 DEF Next, RunStep
<1>6. CASE Start
  <2>1. phase = "idle"
    BY <1>6, StartIs DEF StartFacts
  <2> QED BY <1>2, <1>6, <2>1
<1>7. CASE StageStep
  <2>1. phase = "stages"
    BY <1>7, StageStarted, StagePhase
  <2> QED BY <1>3, <1>7, <2>1
<1> QED BY <1>1, <1>2, <1>3, <1>5, <1>6, <1>7, NextKinds

LEMMA InitMark == Init => MarkInv
BY DEF Init, MarkInv

-----------------------------------------------------------------------------
(* The lists are what the plan has done.                                    *)

Listed ==
  /\ result.placed = Aim.new \ plan.new
  /\ result.replaced = (Aim.replace \cup Aim.foreign) \ Relinks
  /\ result.copied \cup result.recopied = Aim.copies \ plan.copies
  /\ result.removed = Taken /\ result.backedUp = BackedUp /\ result.kept = {}

Explained ==
  /\ \A t \in result.replaced : before[t] = LinkTo(result.olds[t])
  /\ \A t \in result.recopied : run.recopy /\ Exists(before, t)
  /\ \A t \in result.copied : NewCopy(t)
  /\ run.op = "apply" => result.planned = Whole

TellInv == UnderWay => Listed /\ Explained

LEMMA ListedStep ==
  ASSUME Listed, Shrinks, UNCHANGED <<run, before>>,
         plan'.unlink \subseteq plan.unlink, plan'.backup \subseteq plan.backup,
         plan'.new \subseteq plan.new, Relinks' \subseteq Relinks,
         plan'.copies \subseteq plan.copies, plan'.remove \subseteq plan.remove,
         result'.placed = result.placed \cup (plan.new \ plan'.new),
         result'.replaced = result.replaced \cup (Relinks \ Relinks'),
         result'.copied \cup result'.recopied =
           result.copied \cup result.recopied \cup (plan.copies \ plan'.copies),
         result'.removed = result.removed \cup (plan.unlink \ plan'.unlink) \cup (plan.remove \ plan'.remove),
         result'.backedUp = result.backedUp \cup (plan.backup \ plan'.backup),
         result'.kept = result.kept
  PROVE  Listed'
BY AimStays DEF Listed, Shrinks, Taken, Unlinks, BackedUp

\* A step that tells of no entry that was there before.
LEMMA ExplainedStep ==
  ASSUME Explained, UNCHANGED <<run, before>>,
         result'.replaced = result.replaced, result'.olds = result.olds,
         result'.recopied = result.recopied, result'.copied = result.copied,
         result'.planned = result.planned
  PROVE  Explained'
BY AimStays DEF Explained, NewCopy

LEMMA StageTells ==
  ASSUME NamesApart, RunBasis, Marked, result \in Result, Listed, Explained,
         TellStage, phase = "stages", phase' = "stages"
  PROVE  Listed' /\ Explained'
<1>1. /\ plan \in Plan /\ fs \in Tree /\ Fits /\ AimFits /\ Shrinks /\ Target \subseteq Path
      /\ NoMid.step = "none" /\ \A s, p : Mid(s, p).step = s /\ Mid(s, p).path = p
      /\ IsManifest(run.base)
  BY StageFacts, StageBasis DEF RunBasis, Fits
<1>2. StageStep
  BY DEF TellStage, StageStep
<1>3. UNCHANGED <<run, before>> /\ Aim' = Aim
  BY <1>2, StageProgress, AimStays DEF Progress
<1>4. plan.unlink \cup plan.rmdir \cup plan.backup \cup plan.new \cup Relinks \cup plan.copies \cup plan.remove \subseteq Path
  BY <1>1 DEF Plan, Relinks
<1>5. CASE \E p \in plan.unlink : PreRemoveUnlink(p) /\ Tell("removed", p)
  <2>1. PICK p \in plan.unlink : PreRemoveUnlink(p) /\ Tell("removed", p)
    BY <1>5
  <2>2. plan' = [plan EXCEPT !.unlink = @ \ {p}]
    BY <2>1 DEF PreRemoveUnlink
  <2>3. /\ plan'.unlink = plan.unlink \ {p} /\ plan'.backup = plan.backup /\ plan'.new = plan.new
        /\ Relinks' = Relinks /\ plan'.copies = plan.copies /\ plan'.remove = plan.remove
    BY <1>1, <2>2 DEF Plan, Relinks
  <2> QED BY <1>1, <1>3, <1>4, <2>1, <2>3, TellIs, ListedStep, ExplainedStep
<1>6. CASE \E p \in plan.rmdir : PreRemoveRmdir(p) /\ Same
  <2>1. PICK p \in plan.rmdir : PreRemoveRmdir(p) /\ Same
    BY <1>6
  <2>2. plan' = [plan EXCEPT !.rmdir = @ \ {p}] /\ result' = result
    BY <2>1 DEF PreRemoveRmdir, Same
  <2>3. /\ plan'.unlink = plan.unlink /\ plan'.backup = plan.backup /\ plan'.new = plan.new
        /\ Relinks' = Relinks /\ plan'.copies = plan.copies /\ plan'.remove = plan.remove
    BY <1>1, <2>2 DEF Plan, Relinks
  <2> QED BY <1>1, <1>3, <2>2, <2>3, ListedStep, ExplainedStep
<1>7. CASE \E t \in plan.backup : BackUp(t) /\ Tell("backedUp", t)
  <2>1. PICK t \in plan.backup : BackUp(t) /\ Tell("backedUp", t)
    BY <1>7
  <2>2. plan' = [plan EXCEPT !.backup = @ \ {t}]
    BY <2>1 DEF BackUp
  <2>3. /\ plan'.unlink = plan.unlink /\ plan'.backup = plan.backup \ {t} /\ plan'.new = plan.new
        /\ Relinks' = Relinks /\ plan'.copies = plan.copies /\ plan'.remove = plan.remove
    BY <1>1, <2>2 DEF Plan, Relinks
  <2> QED BY <1>1, <1>3, <1>4, <2>1, <2>3, TellIs, ListedStep, ExplainedStep
<1>8. CASE \E t \in plan.new : PlaceNew(t) /\ Tell("placed", t)
  <2>1. PICK t \in plan.new : PlaceNew(t) /\ Tell("placed", t)
    BY <1>8
  <2>2. plan' = [plan EXCEPT !.new = @ \ {t}]
    BY <2>1 DEF PlaceNew
  <2>3. /\ plan'.unlink = plan.unlink /\ plan'.backup = plan.backup /\ plan'.new = plan.new \ {t}
        /\ Relinks' = Relinks /\ plan'.copies = plan.copies /\ plan'.remove = plan.remove
    BY <1>1, <2>2 DEF Plan, Relinks
  <2> QED BY <1>1, <1>3, <1>4, <2>1, <2>3, TellIs, ListedStep, ExplainedStep
<1>9. CASE \E t \in Relinks : RelinkUnlink(t) /\ Same
  <2>1. plan' = plan /\ result' = result /\ Relinks' = Relinks
    BY <1>9 DEF RelinkUnlink, Same, Relinks
  <2> QED BY <1>1, <1>3, <2>1, ListedStep, ExplainedStep
<1>10. CASE \E t \in Relinks :
              /\ RelinkSymlink(t)
              /\ result' = [result EXCEPT !.replaced = @ \cup {t}, !.olds[t] = Last(journal).dest]
  <2>1. PICK t \in Relinks :
          /\ RelinkSymlink(t)
          /\ result' = [result EXCEPT !.replaced = @ \cup {t}, !.olds[t] = Last(journal).dest]
    BY <1>10
  <2>2. plan' = [plan EXCEPT !.replace = @ \ {t}, !.foreign = @ \ {t}] /\ mid = Mid("relink", t)
    BY <2>1 DEF RelinkSymlink
  <2>3. /\ plan'.unlink = plan.unlink /\ plan'.backup = plan.backup /\ plan'.new = plan.new
        /\ Relinks' = Relinks \ {t} /\ plan'.copies = plan.copies /\ plan'.remove = plan.remove
    BY <1>1, <2>2 DEF Plan, Relinks
  <2>4. t \in Target /\ before[t] = LinkTo(Last(journal).dest)
    BY <1>1, <2>2 DEF Marked, Plan, Relinks
  <2>5. /\ result'.replaced = result.replaced \cup {t} /\ result'.placed = result.placed
        /\ result'.olds = [result.olds EXCEPT ![t] = Last(journal).dest]
        /\ result'.copied = result.copied /\ result'.recopied = result.recopied
        /\ result'.removed = result.removed /\ result'.backedUp = result.backedUp
        /\ result'.kept = result.kept /\ result'.planned = result.planned
    BY <2>1 DEF Result
  <2>6. \A s \in result'.replaced : before[s] = LinkTo(result'.olds[s])
    <3>1. result.olds \in [Target -> Val]
      BY DEF Result
    <3> QED BY <2>4, <2>5, <3>1 DEF Explained
  <2>7. Listed'
    BY <1>1, <1>3, <2>1, <2>3, <2>5, ListedStep
  <2> QED BY <1>3, <2>5, <2>6, <2>7, AimStays DEF Explained, NewCopy
<1>11. CASE \E t \in plan.copies : (RecopyAside(t) \/ CopyStart(t)) /\ Same
  <2>1. plan' = plan /\ result' = result /\ Relinks' = Relinks
    BY <1>11 DEF RecopyAside, CopyStart, Same, Relinks
  <2> QED BY <1>1, <1>3, <2>1, ListedStep, ExplainedStep
<1>12. CASE \E t \in plan.copies : CopyFinish(t) /\ Tell(IF Asided(t) THEN "recopied" ELSE "copied", t)
  <2>1. PICK t \in plan.copies : CopyFinish(t) /\ Tell(IF Asided(t) THEN "recopied" ELSE "copied", t)
    BY <1>12
  <2>2. plan' = [plan EXCEPT !.copies = @ \ {t}] /\ mid = Mid("copy", t)
    BY <2>1 DEF CopyFinish
  <2>3. /\ plan'.unlink = plan.unlink /\ plan'.backup = plan.backup /\ plan'.new = plan.new
        /\ Relinks' = Relinks /\ plan'.copies = plan.copies \ {t} /\ plan'.remove = plan.remove
    BY <1>1, <2>2 DEF Plan, Relinks
  <2>4. CASE Asided(t)
    <3>1. Tell("recopied", t)
      BY <2>1, <2>4
    <3>2. run.recopy /\ Exists(before, t)
      BY <2>4 DEF Asided, Marked, Made
    <3>3. /\ result'.recopied = result.recopied \cup {t} /\ result'.copied = result.copied
          /\ result'.placed = result.placed /\ result'.replaced = result.replaced
          /\ result'.removed = result.removed /\ result'.backedUp = result.backedUp
          /\ result'.kept = result.kept /\ result'.olds = result.olds /\ result'.planned = result.planned
      BY <1>4, <3>1, TellIs
    <3>4. Listed'
      BY <1>1, <1>3, <2>1, <2>3, <3>3, ListedStep
    <3> QED BY <1>3, <3>2, <3>3, <3>4, AimStays DEF Explained, NewCopy
  <2>5. CASE ~Asided(t)
    <3>1. Tell("copied", t)
      BY <2>1, <2>5
    <3>2. NewCopy(t)
      BY <1>1, <2>2, <2>5 DEF Marked
    <3>3. /\ result'.recopied = result.recopied /\ result'.copied = result.copied \cup {t}
          /\ result'.placed = result.placed /\ result'.replaced = result.replaced
          /\ result'.removed = result.removed /\ result'.backedUp = result.backedUp
          /\ result'.kept = result.kept /\ result'.olds = result.olds /\ result'.planned = result.planned
      BY <1>4, <3>1, TellIs
    <3>4. Listed'
      BY <1>1, <1>3, <2>1, <2>3, <3>3, ListedStep
    <3> QED BY <1>3, <3>2, <3>3, <3>4, AimStays DEF Explained, NewCopy
  <2> QED BY <2>4, <2>5
<1>13. ASSUME NEW t \in plan.copies, CopyStuck(t) \/ ResetCopy(t) PROVE FALSE
  BY <1>13 DEF CopyStuck, ResetCopy
<1>14. CASE \E t \in plan.remove : RemoveStale(t) /\ Tell(IF StillStale(t) THEN "removed" ELSE "kept", t)
  <2>1. PICK t \in plan.remove : RemoveStale(t) /\ Tell(IF StillStale(t) THEN "removed" ELSE "kept", t)
    BY <1>14
  <2>2. plan' = [plan EXCEPT !.remove = @ \ {t}]
    BY <2>1 DEF RemoveStale
  <2>3. /\ plan'.unlink = plan.unlink /\ plan'.backup = plan.backup /\ plan'.new = plan.new
        /\ Relinks' = Relinks /\ plan'.copies = plan.copies /\ plan'.remove = plan.remove \ {t}
    BY <1>1, <2>2 DEF Plan, Relinks
  <2>4. StillStale(t)
    <3>1. fs[t] = before[t] /\ RecordedLink(before, run.base, t)
      BY <1>1, <2>1 DEF AimFits, Fits, Shrinks, TreeFits
    <3> QED BY <3>1 DEF StillStale, RecordedLink
  <2>5. Tell("removed", t)
    BY <2>1, <2>4
  <2> QED BY <1>1, <1>3, <1>4, <2>1, <2>3, <2>5, TellIs, ListedStep, ExplainedStep
<1>15. CASE PruneAncestor /\ Same
  <2>1. plan' = plan /\ result' = result /\ Relinks' = Relinks
    BY <1>15 DEF PruneAncestor, Same, Relinks
  <2> QED BY <1>1, <1>3, <2>1, ListedStep, ExplainedStep
<1>16. ASSUME NEW p \in Path, StageStuck(p) PROVE FALSE
  BY <1>16 DEF StageStuck, Fails
<1> QED BY <1>5, <1>6, <1>7, <1>8, <1>9, <1>10, <1>11, <1>12, <1>13, <1>14, <1>15, <1>16 DEF TellStage

LEMMA TellStageType ==
  ASSUME RunBasis, result \in Result, TellStage
  PROVE  result' \in Result
<1>1. /\ plan \in Plan /\ Target \subseteq Path /\ journal \in Seq(UndoOp) /\ IInv
      /\ plan.unlink \cup plan.rmdir \cup plan.backup \cup plan.new \cup Relinks \cup plan.copies \cup plan.remove \subseteq Path
      /\ Relinks \subseteq Target
  BY StageFacts DEF RunBasis, Plan, Relinks
<1>2. ASSUME NEW t \in Relinks, RelinkSymlink(t),
             result' = [result EXCEPT !.replaced = @ \cup {t}, !.olds[t] = Last(journal).dest]
      PROVE  result' \in Result
  <2>1. mid.step = "relink" /\ phase = "stages"
    BY <1>2 DEF RelinkSymlink, Mid
  <2>2. journal # << >>
    BY <2>1 DEF RunBasis, JournalInv
  <2>3. Last(journal) \in UndoOp
    BY <1>1, <2>2, FrontIs
  <2>4. Last(journal).dest \in Val
    BY <2>3 DEF UndoOp
  <2> QED BY <1>1, <1>2, <2>4 DEF Result
<1>3. ASSUME NEW t \in Path, TellFailure(t) \/ TellFailure(<< >>) PROVE result' \in Result
  BY <1>1, <1>3, TellFailureIs
<1>4. ASSUME NEW t \in Path, NEW f \in {"removed", "placed", "backedUp", "copied", "recopied", "kept"}, Tell(f, t)
      PROVE  result' \in Result
  BY <1>4, TellIs
<1>5. Same => result' \in Result
  BY DEF Same
<1>6. ASSUME NEW t \in plan.copies,
             \/ (RecopyAside(t) \/ CopyStart(t)) /\ Same
             \/ CopyFinish(t) /\ Tell(IF Asided(t) THEN "recopied" ELSE "copied", t)
             \/ CopyStuck(t) /\ TellFailure(t)
             \/ ResetCopy(t) /\ Tell("removed", t)
      PROVE  result' \in Result
  BY <1>1, <1>3, <1>4, <1>5, <1>6
<1>7. ASSUME NEW p \in Path, TellFailure(IF p \in plan.rmdir THEN << >> ELSE p)
      PROVE  result' \in Result
  BY <1>3, <1>7
<1>8. ASSUME NEW t \in plan.remove, Tell(IF StillStale(t) THEN "removed" ELSE "kept", t)
      PROVE  result' \in Result
  BY <1>1, <1>4, <1>8
<1> QED BY <1>1, <1>2, <1>4, <1>5, <1>6, <1>7, <1>8 DEF TellStage

LEMMA FailingIs ==
  ASSUME RunBasis, phase = "stages"
  PROVE  /\ Failing \subseteq Path \cup {<< >>}
         /\ mid # NoMid => Failing = {mid.path}
<1>1. plan \in Plan /\ Target \subseteq Path /\ (mid = NoMid \/ mid.path \in Path \cup {<< >>})
  <2>1. Asking.path = << >>
    BY DEF Asking, Mid
  <2> QED BY <2>1, StageFacts DEF RunBasis, IInv, TypeOK
<1>2. mid # NoMid => Failing = {mid.path}
  BY DEF Failing
<1>3. CASE mid = NoMid
  <2>1. /\ plan.unlink \subseteq Path /\ plan.backup \subseteq Path /\ plan.new \subseteq Path
        /\ Relinks \subseteq Path /\ plan.copies \subseteq Path /\ plan.remove \subseteq Path
    BY <1>1 DEF Plan, Relinks
  <2>2. Stage \in {"preRemove", "backup", "place", "copy", "removeStale", "record"}
    BY DEF Stage
  <2> QED BY <1>2, <1>3, <2>1, <2>2 DEF Failing
<1> QED BY <1>1, <1>2, <1>3

LEMMA TellTypes ==
  ASSUME RunBasis, RunBasis', result \in Result, [ReportNext]_allVars
  PROVE  result' \in Result
<1>1. Forget \/ Same => result' \in Result
  BY ForgetIs DEF Forget, Same
<1>2. CASE TellStart
  <2>1. Preview(run') \in Plan
    <3>1. fs \in Tree
      BY StageFacts DEF RunBasis
    <3>2. IsManifest(run'.base) /\ IsManifest(run'.next) /\ run'.backup \in BOOLEAN
      BY DEF RunBasis, IInv, TypeOK, IsRun
    <3> QED BY <3>1, <3>2, ComputeType DEF Preview
  <2> QED BY <1>1, <1>2, <2>1, ForgetIs DEF TellStart
<1>3. CASE TellStage
  BY <1>3, TellStageType
<1>4. CASE TellFinish
  BY <1>1, <1>4 DEF TellFinish
<1>5. CASE TellFault
  <2>1. plan \in Plan /\ Target \subseteq Path /\ IInv
    BY StageFacts DEF RunBasis
  <2>2. CASE StageFault /\ \E t \in Failing : TellFailure(t)
    <3>1. phase = "stages"
      BY <2>2 DEF StageFault
    <3> QED BY <2>1, <2>2, <3>1, FailingIs, TellFailureIs
  <2>3. CASE plan.remove # {} /\ \E t \in plan.remove : TellFailure(t)
    <3>1. plan.remove \subseteq Path
      BY <2>1 DEF Plan
    <3> QED BY <2>1, <2>3, <3>1, TellFailureIs
  <2>4. CASE \E t \in plan.copies :
               result' = [result EXCEPT !.failed = t, !.unreached = plan.copies \ {t}]
    <3>1. plan.copies \subseteq Path
      BY <2>1 DEF Plan
    <3> QED BY <2>4, <3>1 DEF Result
  <2> QED BY <1>1, <1>5, <2>2, <2>3, <2>4 DEF TellFault
<1>6. CASE UNCHANGED allVars
  BY <1>6 DEF allVars
<1> QED BY <1>1, <1>2, <1>3, <1>4, <1>5, <1>6 DEF ReportNext

\* The plan a run starts with is its aim.
LEMMA StartAim ==
  ASSUME IInv, IdleFits, Start, phase' = "stages"
  PROVE  /\ phase = "idle" /\ plan' = Aim' /\ UNCHANGED fs /\ before' = fs
         /\ Whole' = Compute(fs, run'.base, run'.next, run'.backup)
<1>1. PICK m, backup, recopy, skip : Begun(m, backup, recopy, skip)
  BY StartBegins
<1>2. phase = "idle" /\ before' = fs /\ UNCHANGED fs
  BY <1>1, StartBegins DEF Begun, IdleFits
<1> DEFINE c == Compute(fs, Baseline, m, backup)
<1>3. Whole' = c
  BY <1>1, <1>2 DEF Begun, Whole
<1>4. plan' = IF skip THEN Repairs(WithRecopy(c, m, recopy)) ELSE WithRecopy(c, m, recopy)
  BY <1>1 DEF Begun
<1>5. Aim' = plan'
  <2> HIDE DEF c
  <2> QED BY <1>1, <1>3, <1>4 DEF Begun, Aim
<1> QED BY <1>2, <1>5 DEF Whole

LEMMA StartTells ==
  ASSUME RunBasis, TellStart, phase' = "stages"
  PROVE  Listed' /\ Explained'
<1>1. Start
  BY DEF TellStart, Start
<1>2. /\ plan' = Aim' /\ before' = fs /\ Whole' = Preview(run')
  BY <1>1, StartAim DEF RunBasis, Preview
<1>3. Relinks' = Aim'.replace \cup Aim'.foreign
  BY <1>2 DEF Relinks
<1>4. /\ result'.placed = {} /\ result'.replaced = {} /\ result'.copied = {} /\ result'.recopied = {}
      /\ result'.removed = {} /\ result'.backedUp = {} /\ result'.kept = {}
      /\ run'.op = "apply" => result'.planned = Preview(run')
  <2>1. CASE result' = [NoResult EXCEPT !.planned = Preview(run')]
    BY <2>1 DEF NoResult
  <2>2. CASE Forget /\ (StartRollback \/ \E T \in SUBSET DOMAIN Baseline : StartReset(T))
    <3>1. result' = NoResult
      BY <2>2 DEF Forget
    <3>2. run'.op # "apply"
      <4>1. ASSUME NEW T, StartReset(T) PROVE FALSE
        BY <4>1 DEF StartReset, Begin, Ask, Refuse, End
      <4>2. ASSUME StartRollback PROVE run'.op = "rollback"
        <5> DEFINE m == gens[cur - 1]
                   r == [op |-> "rollback", next |-> m, base |-> Baseline, farm |-> m,
                         backup |-> FALSE, recopy |-> FALSE, skip |-> FALSE, selected |-> {}]
        <5>1. \E p : Begin(r, p, {}, "stages")
          BY <4>2 DEF StartRollback, Refuse, End
        <5> QED BY <5>1 DEF Begin
      <4> QED BY <2>2, <4>1, <4>2
    <3> QED BY <3>1, <3>2, ForgetIs
  <2> QED BY <2>1, <2>2 DEF TellStart
<1>5. Listed'
  BY <1>2, <1>3, <1>4 DEF Listed, Taken, Unlinks, BackedUp
<1> QED BY <1>2, <1>4, <1>5 DEF Explained

LEMMA NextTells ==
  ASSUME NamesApart, EntriesApart, RunBasis, RunBasis', MarkInv, result \in Result, TellInv,
         [ReportNext]_allVars
  PROVE  TellInv'
<1> SUFFICES ASSUME UnderWay' PROVE Listed' /\ Explained'
  BY DEF TellInv
<1>1. CASE TellStart
  <2>1. Start
    BY <1>1 DEF TellStart, Start
  <2>2. phase' = "stages"
    BY <2>1, StartIs DEF StartFacts, UnderWay
  <2> QED BY <1>1, <2>2, StartTells
<1>2. CASE TellStage
  <2>1. StageStep
    BY <1>2 DEF TellStage, StageStep
  <2>2. phase = "stages" /\ phase' = "stages"
    BY <2>1, StageStarted, StagePhase DEF UnderWay
  <2> QED BY <1>2, <2>2, StageTells DEF MarkInv, TellInv, UnderWay
<1>3. ASSUME UnderWay, UNCHANGED <<run, before, plan, result>> PROVE Listed' /\ Explained'
  <2>1. Listed /\ Explained /\ Shrinks
    BY <1>3 DEF TellInv, RunBasis, RunInv
  <2>2. Relinks' = Relinks
    BY <1>3 DEF Relinks
  <2> QED BY <1>3, <2>1, <2>2, ListedStep, ExplainedStep
<1>4. CASE TellFinish
  <2>1. WriteRecord \/ Commit
    BY <1>4 DEF TellFinish, DiscardJournal, UndoStep, Unwound, RecordAfterReset, End, UnderWay
  <2>2. UNCHANGED <<run, before, plan>> /\ UnderWay
    BY <2>1 DEF WriteRecord, Commit, In, UnderWay, ghostVars
  <2>3. result' = result
    BY <1>4, <2>1 DEF TellFinish, Same, WriteRecord, Commit, DiscardJournal, Unwound, RecordAfterReset, In, End, UnderWay
  <2> QED BY <1>3, <2>2, <2>3
<1>5. CASE TellFault
  <2>1. PruneFault /\ Same
    BY <1>5 DEF TellFault, StageFault, Fails, CommitFault, ResetFault, ResetRecordFault, End, UnderWay
  <2>2. UNCHANGED <<run, before, plan, phase, result>>
    BY <2>1 DEF PruneFault, Same
  <2> QED BY <1>3, <2>2 DEF UnderWay
<1>6. CASE Crash \/ UserStep
  <2>1. ~Crash
    BY DEF Crash, End, UnderWay
  <2>2. phase = "idle" /\ phase' = "idle"
    BY <1>6, <2>1 DEF EntriesApart, UserStep, UserWrite, UserMkdir, UserRelink, UserDelete, UserMay, Edited
  <2> QED BY <2>2 DEF UnderWay
<1>7. CASE UNCHANGED allVars
  <2>1. UNCHANGED <<run, before, plan, phase, result>>
    BY <1>7 DEF allVars, vars, engineVars, ghostVars
  <2> QED BY <1>3, <2>1 DEF UnderWay
<1>8. CASE AnswerReset
  BY <1>8 DEF AnswerReset, Refuse, End, UnderWay
<1> QED BY <1>1, <1>2, <1>4, <1>5, <1>6, <1>7, <1>8 DEF ReportNext

-----------------------------------------------------------------------------
(* Nothing changes but what a run has touched, backups and asides, and      *)
(* directories that come and go.                                            *)

Noticed(p) ==
  \/ fs[p] = before[p]
  \/ {fs[p], before[p]} \subseteq {Absent, Dir}
  \/ \E t \in Touched : p \in At(t)
  \/ \E b \in BackedUp : p \in At(BackupOf[b])

NoticedInv == UnderWay => \A p \in Path \ AsidePath : Noticed(p)

LEMMA NoticedStep ==
  ASSUME TidyTree(fs), Progress, NEW p \in Path \ AsidePath, Noticed(p)
  PROVE  Noticed(p)'
<1>1. before' = before /\ Touched \subseteq Touched' /\ BackedUp \subseteq BackedUp' /\ Writes1(p)
  BY DEF Progress
<1>2. BackedUp' \subseteq Touched'
  BY DEF Touched
<1>3. CASE fs'[p] = fs[p]
  BY <1>1, <1>3 DEF Noticed
<1>4. CASE fs[p].kind \in {"absent", "dir"} /\ fs'[p] \in {Absent, Dir}
  <2>1. fs[p] \in {Absent, Dir}
    BY <1>4 DEF TidyTree, TidyNode
  <2>2. CASE fs[p] = before[p] \/ {fs[p], before[p]} \subseteq {Absent, Dir}
    BY <1>1, <1>4, <2>1, <2>2 DEF Noticed
  <2> QED BY <1>1, <2>2 DEF Noticed
<1>5. CASE \E t \in Touched' : p \in At(t)
  BY <1>5 DEF Noticed
<1>6. CASE \E b \in BackedUp' : p \in At(BackupOf[b])
  BY <1>6 DEF Noticed
<1> QED BY <1>1, <1>2, <1>3, <1>4, <1>5, <1>6 DEF Writes1

LEMMA NextNoticed ==
  ASSUME NamesApart, EntriesApart, RunBasis, RunBasis', TidyInv, NoticedInv, [Next]_vars
  PROVE  NoticedInv'
<1> SUFFICES ASSUME UnderWay', NEW p \in Path \ AsidePath PROVE Noticed(p)'
  BY DEF NoticedInv
<1>1. CASE fs' = before'
  BY <1>1 DEF Noticed
<1>2. CASE phase = "stages" /\ Progress
  <2>1. Noticed(p)
    BY <1>2 DEF NoticedInv, UnderWay
  <2> QED BY <1>2, <2>1, NoticedStep DEF TidyInv
<1>3. CASE UnderWay /\ UNCHANGED <<fs, run, before>> /\ Touched' = Touched /\ BackedUp' = BackedUp
  BY <1>3 DEF NoticedInv, Noticed
<1> QED BY <1>1, <1>2, <1>3, NextKinds

-----------------------------------------------------------------------------
(* The teardown of a reset.                                                 *)

Torn ==
  /\ ~run.skip /\ DOMAIN run.next = {}
  /\ result.placed = {} /\ result.replaced = {} /\ result.copied = {} /\ result.recopied = {}
  /\ result.backedUp = {} /\ result.removed \subseteq Target
  /\ \A p \in Path : fs[p] = before[p] \/ fs[p] = Absent
  /\ \A p \in Path : fs[p] = before[p] \/ IsDir(before, p) \/ \E t \in result.removed : p \in At(t)
  /\ \A t \in result.removed : fs[t] = Absent /\ Exists(before, t)
  /\ \A t \in plan.copies : Exists(before, t) /\ ~NotDirAbove(before, t)
  /\ mid.step = "prune" => ~NotDirAbove(before, mid.path)
  /\ mid = Asking => result.removed = {}

TornInv == phase = "teardown" => Torn

\* One path goes, and what is below it.
LEMMA TornGoes ==
  ASSUME Torn, UNCHANGED <<run, before>>, NEW t \in Path, NEW S \in {{t}, At(t)}, fs \in Tree,
         \A p \in Path : fs'[p] = IF p \in S THEN Absent ELSE fs[p],
         plan'.copies \subseteq plan.copies,
         result'.placed = result.placed, result'.replaced = result.replaced,
         result'.copied = result.copied, result'.recopied = result.recopied,
         result'.backedUp = result.backedUp,
         \/ result'.removed = result.removed \cup {t} /\ Exists(before, t) /\ t \in Target
         \/ result'.removed = result.removed /\ IsDir(before, t) /\ S = {t},
         mid' # Asking, mid'.step = "prune" => ~NotDirAbove(before, mid'.path)
  PROVE  Torn'
<1>1. t \in S /\ S \subseteq At(t) /\ Target \subseteq Path
  BY TargetsArePaths DEF At
<1>2. result.removed \subseteq result'.removed /\ result'.removed \subseteq Target
  BY DEF Torn
<1>3. \A p \in Path : fs'[p] = before[p] \/ fs'[p] = Absent
  BY DEF Torn
<1>4. ASSUME NEW p \in Path, fs'[p] # before[p], ~IsDir(before, p)
      PROVE  \E s \in result'.removed : p \in At(s)
  <2>1. CASE p \in S
    BY <1>1, <1>4, <2>1
  <2>2. CASE p \notin S
    BY <1>2, <1>4, <2>2 DEF Torn
  <2> QED BY <2>1, <2>2
<1>5. ASSUME NEW s \in result'.removed PROVE fs'[s] = Absent /\ Exists(before, s)
  <2>1. s \in Path
    BY <1>1, <1>2
  <2> QED BY <1>1, <2>1 DEF Torn
<1>6. \A s \in plan'.copies : Exists(before, s) /\ ~NotDirAbove(before, s)
  BY DEF Torn
<1>7. /\ ~run'.skip /\ DOMAIN run'.next = {}
      /\ result'.placed = {} /\ result'.replaced = {} /\ result'.copied = {} /\ result'.recopied = {}
      /\ result'.backedUp = {}
  BY DEF Torn
<1>8. \A p : (Exists(before, p) <=> Exists(before, p)') /\ (IsDir(before, p) <=> IsDir(before, p)')
             /\ (NotDirAbove(before, p) <=> NotDirAbove(before, p)')
  BY DEF Exists, IsDir, NotDirAbove, IsFile
<1> QED BY <1>2, <1>3, <1>4, <1>5, <1>6, <1>7, <1>8 DEF Torn, Exists, IsDir, NotDirAbove, IsFile

LEMMA TornStays ==
  ASSUME IInv, Torn, UNCHANGED <<run, before, fs>>, plan'.copies \subseteq plan.copies,
         result'.placed = result.placed, result'.replaced = result.replaced,
         result'.copied = result.copied, result'.recopied = result.recopied,
         result'.backedUp = result.backedUp, result'.removed = result.removed,
         mid' \in {mid, NoMid}
  PROVE  Torn'
BY StageFacts DEF Torn, Exists, IsDir, NotDirAbove, IsFile

LEMMA TornStep ==
  ASSUME IInv, TreeInv, TornInv, result \in Result, phase = "teardown", phase' = "teardown", TellStage
  PROVE  Torn'
<1>1. /\ Torn /\ fs \in Tree /\ plan \in Plan /\ Target \subseteq Path /\ Closed(fs)
      /\ \A s, p : Mid(s, p).step = s /\ Mid(s, p).path = p
      /\ NoMid.step # "prune" /\ Asking.step # "prune"
  BY StageFacts DEF TornInv, TreeInv
<1>2. TellStage => \/ \E t \in plan.remove : RemoveStale(t) /\ Tell(IF StillStale(t) THEN "removed" ELSE "kept", t)
                   \/ \E t \in plan.copies : ResetCopy(t) /\ Tell("removed", t)
                   \/ PruneAncestor /\ Same
  <2>1. /\ \A p : ~PreRemoveUnlink(p) /\ ~PreRemoveRmdir(p) /\ ~BackUp(p) /\ ~PlaceNew(p) /\ ~RelinkUnlink(p)
        /\ \A p : ~RelinkSymlink(p) /\ ~RecopyAside(p) /\ ~CopyStart(p) /\ ~CopyFinish(p)
    BY DEF PreRemoveUnlink, PreRemoveRmdir, BackUp, PlaceNew, RelinkUnlink, RelinkSymlink,
           RecopyAside, CopyStart, CopyFinish, In
  <2>2. \A p : ~CopyStuck(p) /\ ~StageStuck(p)
    BY DEF CopyStuck, StageStuck, Fails
  <2> QED BY <2>1, <2>2 DEF TellStage
<1>3. ASSUME NEW t \in plan.remove, RemoveStale(t), Tell(IF StillStale(t) THEN "removed" ELSE "kept", t)
      PROVE  Torn'
  <2>1. t \in Target /\ t \in Path /\ UNCHANGED <<run, before>> /\ plan'.copies = plan.copies
    BY <1>1, <1>3 DEF RemoveStale, Writes, ghostVars, Plan
  <2>2. CASE StillStale(t)
    <3>1. fs[t] = LinkTo(run.base[t].src) /\ fs' = Put(fs, t, Absent) /\ mid' = Mid("prune", t)
      BY <1>3, <2>2 DEF RemoveStale, StillStale, RecordedLink
    <3>2. fs[t].kind = "link" /\ fs[t] # Absent /\ Exists(fs, t)
      BY <3>1 DEF LinkTo, Absent, Exists
    <3>3. fs[t] = before[t]
      BY <1>1, <2>1, <3>2 DEF Torn
    <3>4. Exists(before, t)
      BY <3>2, <3>3 DEF Exists
    <3>5. ~NotDirAbove(before, t)
      <4> SUFFICES ASSUME NEW q \in Above[t], IsFile(before, q) PROVE FALSE
        BY DEF NotDirAbove
      <4>1. q \in Path
        BY <2>1, AboveBelow
      <4>2. fs[q].kind = "dir"
        BY <1>1, <2>1, <3>2 DEF Closed, InRealDir, IsDir
      <4>3. fs[q] = before[q]
        BY <1>1, <4>1, <4>2 DEF Torn, Absent
      <4> QED BY <4>2, <4>3 DEF IsFile
    <3>6. \A p \in Path : fs'[p] = IF p \in {t} THEN Absent ELSE fs[p]
      BY <1>1, <3>1 DEF Put, Tree
    <3>7. Tell("removed", t)
      BY <1>3, <2>2
    <3>8. /\ result'.placed = result.placed /\ result'.replaced = result.replaced
          /\ result'.copied = result.copied /\ result'.recopied = result.recopied
          /\ result'.backedUp = result.backedUp /\ result'.removed = result.removed \cup {t}
      BY <2>1, <3>7, TellIs
    <3>9. mid' # Asking /\ (mid'.step = "prune" => ~NotDirAbove(before, mid'.path))
      BY <1>1, <3>1, <3>5
    <3> QED BY <1>1, <2>1, <3>4, <3>6, <3>8, <3>9, TornGoes
  <2>3. CASE ~StillStale(t)
    <3>1. UNCHANGED <<fs, mid>> /\ Tell("kept", t)
      BY <1>3, <2>3 DEF RemoveStale
    <3>2. /\ result'.placed = result.placed /\ result'.replaced = result.replaced
          /\ result'.copied = result.copied /\ result'.recopied = result.recopied
          /\ result'.backedUp = result.backedUp /\ result'.removed = result.removed
      BY <3>1 DEF Tell, Result
    <3> QED BY <1>1, <2>1, <3>1, <3>2, TornStays
  <2> QED BY <2>2, <2>3
<1>4. ASSUME NEW t \in plan.copies, ResetCopy(t), Tell("removed", t) PROVE Torn'
  <2>1. /\ t \in Target /\ t \in Path /\ UNCHANGED <<run, before>> /\ plan'.copies \subseteq plan.copies
        /\ fs' = Clear(fs, t) /\ mid' = Mid("prune", t)
    BY <1>1, <1>4 DEF ResetCopy, Writes, ghostVars, Plan
  <2>2. Exists(before, t) /\ ~NotDirAbove(before, t)
    BY <1>1, <1>4 DEF Torn
  <2>3. \A p \in Path : fs'[p] = IF p \in At(t) THEN Absent ELSE fs[p]
    BY <2>1 DEF Clear
  <2>4. /\ result'.placed = result.placed /\ result'.replaced = result.replaced
        /\ result'.copied = result.copied /\ result'.recopied = result.recopied
        /\ result'.backedUp = result.backedUp /\ result'.removed = result.removed \cup {t}
    BY <1>4, <2>1, TellIs
  <2>5. mid' # Asking /\ (mid'.step = "prune" => ~NotDirAbove(before, mid'.path))
    BY <1>1, <2>1, <2>2
  <2> QED BY <1>1, <2>1, <2>2, <2>3, <2>4, <2>5, TornGoes
<1>5. CASE PruneAncestor /\ Same
  <2> DEFINE up == Front(mid.path)
  <2>1. UNCHANGED <<run, before, plan>> /\ result' = result /\ mid.step = "prune" /\ ~NotDirAbove(before, mid.path)
    BY <1>1, <1>5 DEF PruneAncestor, Writes, ghostVars, Same, Torn
  <2>2. CASE up \in Path /\ CanRemove(fs, up) /\ ~IsLink(fs, up)
    <3>1. fs' = Put(fs, up, Absent) /\ mid' = Mid("prune", up)
      BY <1>5, <2>2 DEF PruneAncestor
    <3>2. mid.path \in Path
      BY <2>1, PrunedPath
    <3>3. up \in Above[mid.path] /\ Above[mid.path] = Above[up] \cup {up}
      BY <2>2, <3>2, FrontAbove
    <3>4. Exists(fs, up)
      BY <2>2 DEF CanRemove
    <3>5. fs[up] = before[up]
      BY <1>1, <2>2, <3>4 DEF Torn, Exists, Absent
    <3>6. ~IsFile(before, up)
      BY <2>1, <3>3 DEF NotDirAbove
    <3>7. IsDir(before, up)
      BY <1>1, <2>2, <3>4, <3>5, <3>6, NodeIs DEF IsDir, IsFile, IsLink
    <3>8. ~NotDirAbove(before, up)
      BY <2>1, <3>3 DEF NotDirAbove
    <3>9. \A p \in Path : fs'[p] = IF p \in {up} THEN Absent ELSE fs[p]
      BY <1>1, <3>1 DEF Put, Tree
    <3>10. mid' # Asking /\ (mid'.step = "prune" => ~NotDirAbove(before, mid'.path))
      BY <1>1, <3>1, <3>8
    <3> HIDE DEF up
    <3> QED BY <1>1, <2>1, <2>2, <3>7, <3>9, <3>10, TornGoes
  <2>3. CASE ~(up \in Path /\ CanRemove(fs, up) /\ ~IsLink(fs, up))
    <3>1. mid' = NoMid /\ UNCHANGED fs
      BY <1>5, <2>3 DEF PruneAncestor
    <3> QED BY <1>1, <2>1, <3>1, TornStays
  <2> QED BY <2>2, <2>3
<1> QED BY <1>2, <1>3, <1>4, <1>5

LEMMA StartTorn ==
  ASSUME IInv, IdleFits, JournalInv, NEW T \in SUBSET DOMAIN Baseline, StartReset(T),
         phase' = "teardown", result' = NoResult
  PROVE  Torn'
<1> DEFINE sel == Restrict(Baseline, T)
           r == [op |-> "reset", next |-> NoEntries, base |-> Baseline,
                 farm |-> BaselineFarm, backup |-> FALSE, recopy |-> FALSE,
                 skip |-> FALSE, selected |-> T]
           c == Compute(fs, Restrict(sel, Symlinks(sel)), NoEntries, FALSE)
           k == [c EXCEPT !.copies = {t \in Copies(sel) : Exists(fs, t)}]
<1>1. phase = "idle" /\ mid = NoMid /\ before = fs
  BY DEF StartReset, JournalInv, IdleFits
<1>2. ~Refuse
  BY DEF Refuse, End
<1>3. /\ ~(\E t \in Copies(sel) : NotDirAbove(fs, t))
      /\ Ask(r, k) \/ \E C : Begin(r, k, C, "teardown")
  BY <1>2 DEF StartReset
<1>4. run' = r /\ plan' = k /\ UNCHANGED <<fs, before>> /\ mid' \in {mid, Asking}
  BY <1>3 DEF Begin, Ask
<1>5. ~run'.skip /\ DOMAIN run'.next = {}
  BY <1>4 DEF NoEntries
<1>6. \A t \in plan'.copies : Exists(fs, t) /\ ~NotDirAbove(fs, t)
  <2>1. plan'.copies = {t \in Copies(sel) : Exists(fs, t)}
    BY <1>4 DEF Compute
  <2> QED BY <1>3, <2>1
<1>7. NoMid.step # "prune" /\ Asking.step # "prune"
  BY StageFacts
<1> HIDE DEF sel, r, c, k
<1>8. /\ \A p : Exists(before, p)' <=> Exists(fs, p)
      /\ \A p : NotDirAbove(before, p)' <=> NotDirAbove(fs, p)
  BY <1>1, <1>4 DEF Exists, NotDirAbove, IsFile
<1> QED BY <1>1, <1>4, <1>5, <1>6, <1>7, <1>8, ForgetIs DEF Torn, Exists, NotDirAbove, IsFile

LEMMA NextTorn ==
  ASSUME EntriesApart, IInv, IInv', TreeInv, IdleFits, JournalInv, TornInv, result \in Result, [ReportNext]_allVars
  PROVE  TornInv'
<1> SUFFICES ASSUME phase' = "teardown" PROVE Torn'
  BY DEF TornInv
<1>1. CASE TellStart
  <2>1. PICK T \in SUBSET DOMAIN Baseline : StartReset(T)
    <3>1. ~StartRollback
      BY DEF StartRollback, Refuse, End, Begin
    <3>2. \A m, mod : ~StartApply(m, mod)
      BY DEF StartApply, Refuse, End, Begin
    <3> QED BY <1>1, <3>1, <3>2 DEF TellStart
  <2>2. result' = NoResult
    <3>1. ~StartRollback
      BY DEF StartRollback, Refuse, End, Begin
    <3>2. \A m, mod : ~StartApply(m, mod)
      BY DEF StartApply, Refuse, End, Begin
    <3> QED BY <1>1, <3>1, <3>2 DEF TellStart, Forget
  <2> QED BY <2>1, <2>2, StartTorn
<1>2. CASE TellStage
  <2>1. StageStep
    BY <1>2 DEF TellStage, StageStep
  <2>2. phase = "teardown"
    BY <2>1, StagePhase
  <2> QED BY <1>2, <2>2, TornStep
<1>3. CASE TellFinish
  BY <1>3 DEF TellFinish, WriteRecord, Commit, UndoStep, DiscardJournal, Unwound, RecordAfterReset, End, Forget
<1>4. CASE PruneFault /\ Same
  <2>1. phase = "teardown" /\ Torn
    BY <1>4 DEF PruneFault, TornInv
  <2>2. mid' = NoMid /\ NoMid.step # "prune"
    BY <1>4 DEF PruneFault, NoMid
  <2> QED BY <1>4, <2>1, <2>2, TornStays DEF PruneFault, Same
<1>5. CASE ResetFault /\ TellFault
  <2>1. phase = "teardown" /\ Torn /\ ~run.skip
    BY <1>5 DEF ResetFault, TornInv, Torn
  <2>2. UNCHANGED <<run, before, fs, mid>> /\ plan'.copies = {}
    BY <1>5 DEF ResetFault, NoPlan
  <2>3. /\ result'.placed = result.placed /\ result'.replaced = result.replaced
        /\ result'.copied = result.copied /\ result'.recopied = result.recopied
        /\ result'.backedUp = result.backedUp /\ result'.removed = result.removed
    <3>1. ~StageFault /\ ~CommitFault /\ ~ResetRecordFault
      BY DEF StageFault, Fails, CommitFault, ResetRecordFault, End
    <3>2. ASSUME NEW t, TellFailure(t) PROVE result' = [result EXCEPT !.failed = t, !.unreached = Unreached(t)]
      BY <2>1, <3>2 DEF TellFailure
    <3>3. \/ result' = result
          \/ \E t, u : result' = [result EXCEPT !.failed = t, !.unreached = u]
      BY <1>5, <3>1, <3>2 DEF TellFault, Same
    <3> QED BY <3>3 DEF Result
  <2> QED BY <2>1, <2>2, <2>3, TornStays
<1>6. CASE TellFault /\ ~ResetFault
  <2>1. ~StageFault /\ ~CommitFault /\ ~ResetRecordFault
    BY DEF StageFault, Fails, CommitFault, ResetRecordFault, End
  <2> QED BY <1>4, <1>6, <2>1 DEF TellFault
<1>7. CASE (Crash \/ UserStep) /\ Forget
  <2>1. ~Crash
    BY DEF Crash, End
  <2>2. phase = "teardown"
    BY <1>7, <2>1 DEF UserStep, UserWrite, UserMkdir, UserRelink, UserDelete, Edited
  <2> QED BY <1>7, <2>1, <2>2 DEF UserStep, UserWrite, UserMkdir, UserRelink, UserDelete, UserMay, EntriesApart
<1>8. CASE UNCHANGED allVars
  <2>1. UNCHANGED <<phase, run, before, fs, mid, plan, result>>
    BY <1>8 DEF allVars, vars, engineVars, ghostVars
  <2> QED BY <2>1, TornStays DEF TornInv
<1>9. CASE AnswerReset /\ Forget
  <2>1. phase = "teardown" /\ mid = Asking /\ mid' = NoMid /\ UNCHANGED <<run, before, fs, plan>>
    BY <1>9 DEF AnswerReset, Refuse, End
  <2>2. Torn /\ result.removed = {}
    BY <2>1 DEF TornInv, Torn
  <2>3. /\ result'.placed = {} /\ result'.replaced = {} /\ result'.copied = {}
        /\ result'.recopied = {} /\ result'.backedUp = {} /\ result'.removed = {}
    BY <1>9, ForgetIs DEF Forget
  <2> QED BY <2>1, <2>2, <2>3, TornStays DEF Torn
<1> QED BY <1>1, <1>2, <1>3, <1>5, <1>6, <1>7, <1>8, <1>9 DEF ReportNext

-----------------------------------------------------------------------------
(* What is told between two entries.                                        *)

ToldBasis ==
  /\ RunBasis /\ TidyInv /\ MarkInv
  /\ result \in Result /\ TellInv /\ NoticedInv /\ TornInv

LEMMA NextToldBasis ==
  ASSUME NamesApart, EntriesApart
  PROVE  ToldBasis /\ [ReportNext]_allVars => ToldBasis'
<1> SUFFICES ASSUME ToldBasis, [ReportNext]_allVars PROVE ToldBasis'
  OBVIOUS
<1>1. [Next]_vars
  BY ToldStep
<1>2. RunBasis /\ RunBasis'
  BY <1>1, NextBasis DEF ToldBasis
<1>3. IInv /\ IInv' /\ TreeInv /\ IdleFits /\ JournalInv
  BY <1>2 DEF RunBasis
<1>4. TidyInv'
  BY <1>1, <1>3, NextTidy DEF ToldBasis
<1>5. MarkInv'
  BY <1>1, <1>2, NextMark DEF ToldBasis
<1>6. result' \in Result
  BY <1>2, TellTypes DEF ToldBasis
<1>7. TellInv'
  BY <1>2, NextTells DEF ToldBasis
<1>8. NoticedInv'
  BY <1>1, <1>2, NextNoticed DEF ToldBasis
<1>9. TornInv'
  BY <1>3, NextTorn DEF ToldBasis
<1> QED BY <1>2, <1>4, <1>5, <1>6, <1>7, <1>8, <1>9 DEF ToldBasis

LEMMA InitToldBasis == ReportInit => ToldBasis
<1> SUFFICES ASSUME ReportInit PROVE ToldBasis
  OBVIOUS
<1>1. Init /\ result = NoResult
  BY DEF ReportInit
<1>2. RunBasis /\ TidyInv /\ MarkInv
  BY <1>1, InitBasis, InitTidy, InitMark
<1>3. result \in Result
  BY <1>1, ForgetIs
<1>4. phase = "idle"
  BY <1>1 DEF Init
<1> QED BY <1>2, <1>3, <1>4 DEF ToldBasis, TellInv, NoticedInv, TornInv, UnderWay

LEMMA ToldBasisHolds ==
  ASSUME NamesApart, EntriesApart
  PROVE  ReportSpec => []ToldBasis
BY NextToldBasis, InitToldBasis, PTL DEF ReportSpec

\* While no entry is half done, what a run tells is the part of its plan that is done.
LEMMA ToldIs ==
  ASSUME ToldBasis, UnderWay, mid.step \in {"none", "prune"}
  PROVE  /\ AimFits /\ Fits /\ Busy = {} /\ Listed /\ Explained
         /\ IsManifest(run.next) /\ IsManifest(run.base)
         /\ DOMAIN run.next \subseteq Target /\ DOMAIN run.base \subseteq Target
         /\ SetNow = result.placed \cup result.replaced \cup result.copied \cup result.recopied
         /\ SetNow \subseteq DOMAIN run.next /\ Taken \subseteq DOMAIN run.base
         /\ \A t \in SetNow : Placed(t)
         /\ SetNow # {} => plan.unlink = {} /\ plan.rmdir = {} /\ plan.backup = {}
         /\ \A t \in Taken : before[t].kind = "link"
         /\ \A t \in Taken \cap DOMAIN run.next : t \in Aim.unlink \cap Aim.copies
<1>1. IInv /\ RunInv /\ Grounded /\ Fits /\ Listed /\ Explained
  BY DEF ToldBasis, RunBasis, RunInv, Fits, TellInv
<1>2. IsManifest(run.next) /\ IsManifest(run.base)
  BY <1>1 DEF IInv, TypeOK, IsRun
<1>3. AimFits
  BY <1>1, AimIs
<1>4. DOMAIN run.next \subseteq Target /\ DOMAIN run.base \subseteq Target
  BY <1>2, ManifestTypes
<1>5. Busy = {}
  BY DEF Busy
<1>6. SetNow = result.placed \cup result.replaced \cup result.copied \cup result.recopied
  BY <1>1 DEF Listed, SetNow
<1>7. SetNow \subseteq DOMAIN run.next /\ Taken \subseteq DOMAIN run.base
  BY <1>2, <1>3, AimApart, ManifestTypes DEF SetNow, Taken, Unlinks
<1>8. \A t \in SetNow : Placed(t)
  BY <1>1 DEF Fits, TreeFits
<1>9. SetNow # {} => plan.unlink = {} /\ plan.rmdir = {} /\ plan.backup = {}
  BY <1>1 DEF Fits, Ordered, SetNow
<1>10. \A t \in Taken : before[t].kind = "link"
  BY <1>2, <1>3, AimApart DEF Taken, Unlinks
<1>11. \A t \in Aim.unlink : t \in DOMAIN run.next => t \in Aim.copies
  BY <1>3 DEF AimFits
<1>12. \A t \in Taken \cap DOMAIN run.next : t \in Aim.unlink \cap Aim.copies
  BY <1>2, <1>3, <1>11, AimApart DEF Taken, Unlinks
<1> QED BY <1>1, <1>2, <1>3, <1>4, <1>5, <1>6, <1>7, <1>8, <1>9, <1>10, <1>12

\* What the tree has at t when an entry is in place there.
LEMMA PlacedNode ==
  ASSUME NEW t \in DOMAIN run.next, Placed(t), IsManifest(run.next)
  PROVE  /\ t \in Symlinks(run.next) => fs[t] = LinkTo(run.next[t].src)
         /\ t \in Copies(run.next) => fs[t].kind \in {"dir", "file"}
         /\ Exists(fs, t)
<1>1. \A d : LinkTo(d).kind = "link" /\ FileOf(d).kind = "file"
  BY DEF LinkTo, FileOf
<1>2. t \in Symlinks(run.next) \/ t \in Copies(run.next)
  BY ManifestTypes
<1> QED BY <1>1, <1>2 DEF Placed, Symlinks, Copies, HoldsCopy, IsDir, Exists

\* The truth of what is told, entry by entry.
True(t) ==
  CASE Change(t) = "add" ->
         Placed(t) /\ (t \in result.backedUp \/ before[t].kind \in {"absent", "dir"})
    [] Change(t) = "modify" ->
         Placed(t) /\ Exists(before, t) /\ (fs[t] = before[t] => t \in result.recopied)
    [] Change(t) = "remove" ->
         Exists(before, t) /\ fs[t].kind \in {"absent", "dir"} /\ ~Placed(t)
    [] OTHER -> TRUE

\* A copy is new, was a link before, or went over what --recopy overwrites.
LEMMA TrueCopy ==
  ASSUME ToldBasis, UnderWay, mid.step \in {"none", "prune"}, NEW t \in Target,
         t \in result.placed \cup result.copied
  PROVE  /\ Placed(t)
         /\ t \notin result.removed => t \in result.backedUp \/ before[t].kind \in {"absent", "dir"}
         /\ t \in result.removed => Exists(before, t) /\ fs[t] # before[t]
<1>1. /\ AimFits /\ Listed /\ Explained /\ IsManifest(run.next) /\ t \in SetNow /\ Placed(t)
      /\ t \in DOMAIN run.next /\ plan.unlink = {} /\ plan.backup = {}
      /\ result.removed = Taken /\ result.backedUp = Aim.backup
      /\ Aim.unlink \subseteq Taken
  BY ToldIs DEF Listed, BackedUp, Taken, Unlinks
<1>2. ASSUME t \notin result.removed PROVE t \in result.backedUp \/ before[t].kind \in {"absent", "dir"}
  <2>1. CASE t \in result.placed
    <3>1. t \in Aim.new
      BY <1>1, <2>1 DEF Listed
    <3>2. ~Exists(before, t) \/ IsDir(before, t) \/ t \in Aim.backup
      BY <1>1, <3>1 DEF AimFits
    <3> QED BY <1>1, <3>2 DEF Exists, IsDir
  <2>2. CASE t \in result.copied
    <3>1. t \in Aim.unlink \cup Aim.backup \/ ~Exists(before, t)
      BY <1>1, <2>2 DEF Explained, NewCopy
    <3> QED BY <1>1, <1>2, <3>1 DEF Exists
  <2> QED BY <2>1, <2>2
<1>3. ASSUME t \in result.removed PROVE Exists(before, t) /\ fs[t] # before[t]
  <2>1. before[t].kind = "link" /\ t \in Aim.copies
    BY <1>1, <1>3, ToldIs
  <2>2. t \in Copies(run.next)
    BY <1>1, <2>1 DEF AimFits
  <2> QED BY <1>1, <2>1, <2>2, PlacedNode DEF Exists
<1> QED BY <1>1, <1>2, <1>3

LEMMA TrueRelink ==
  ASSUME ToldBasis, UnderWay, mid.step \in {"none", "prune"}, NEW t \in result.replaced
  PROVE  /\ Placed(t) /\ before[t] = LinkTo(result.olds[t]) /\ fs[t] = LinkTo(run.next[t].src)
         /\ Exists(before, t) /\ t \in Symlinks(run.next)
         /\ fs[t] = before[t] <=> result.olds[t] = run.next[t].src
<1>1. /\ AimFits /\ Listed /\ Explained /\ IsManifest(run.next) /\ t \in SetNow /\ Placed(t)
      /\ t \in DOMAIN run.next
  BY ToldIs
<1>2. t \in Symlinks(run.next)
  BY <1>1 DEF Listed, AimFits
<1>3. fs[t] = LinkTo(run.next[t].src)
  BY <1>1, <1>2, PlacedNode
<1>4. before[t] = LinkTo(result.olds[t])
  BY <1>1 DEF Explained
<1> QED BY <1>1, <1>2, <1>3, <1>4 DEF LinkTo, Exists

LEMMA TrueRemoval ==
  ASSUME ToldBasis, UnderWay, mid.step \in {"none", "prune"}, NEW t \in result.removed,
         t \notin result.placed \cup result.replaced \cup result.copied \cup result.recopied
  PROVE  Exists(before, t) /\ fs[t].kind \in {"absent", "dir"} /\ ~Placed(t)
<1>1. /\ AimFits /\ Listed /\ Fits /\ IsManifest(run.next) /\ t \notin SetNow /\ t \in Taken
      /\ before[t].kind = "link" /\ Busy = {}
  BY ToldIs DEF Listed
<1>2. CASE t \notin DOMAIN run.next
  <2>1. fs[t] \in {Absent, Dir}
    BY <1>1, <1>2 DEF Fits, TreeFits
  <2> QED BY <1>1, <1>2, <2>1 DEF Absent, Dir, Exists, Placed
<1>3. CASE t \in DOMAIN run.next
  <2>1. t \in Aim.unlink /\ t \in Aim.copies
    BY <1>1, <1>3, ToldIs
  <2>2. t \in plan.copies
    BY <1>1, <2>1 DEF SetNow
  <2>3. Pending(t) /\ Shrinks /\ t \in Copies(run.next)
    BY <1>1, <2>1, <2>2 DEF Fits, TreeFits, AimFits
  <2>4. t \in Unlinks
    <3>1. Aim.remove \cap DOMAIN run.next = {}
      BY <1>1, AimApart, ToldIs
    <3> QED BY <1>1, <1>3, <3>1 DEF Taken
  <2>5. fs[t].kind = "absent"
    BY <2>3, <2>4 DEF Pending, Absent
  <2>6. ~Placed(t)
    BY <1>1, <1>3, <2>3, <2>5, PlacedNode
  <2> QED BY <1>1, <2>5, <2>6 DEF Exists
<1> QED BY <1>2, <1>3

LEMMA TrueUnderWay ==
  ASSUME ToldBasis, UnderWay, mid.step \in {"none", "prune"}, NEW t \in Target
  PROVE  True(t)
<1>1. CASE t \in result.placed \cup result.copied
  <2>1. Change(t) = IF t \in result.removed THEN "modify" ELSE "add"
    BY <1>1 DEF Change
  <2> QED BY <1>1, <2>1, TrueCopy DEF True
<1>2. CASE t \notin result.placed \cup result.copied /\ t \in result.replaced
  <2>1. Change(t) = Relinked(t)
    BY <1>2 DEF Change
  <2>2. Change(t) = IF result.olds[t] = run.next[t].src THEN "none" ELSE "modify"
    BY <2>1 DEF Relinked
  <2>3. CASE Change(t) = "none"
    BY <2>3 DEF True
  <2>4. CASE Change(t) = "modify"
    BY <1>2, <2>2, <2>4, TrueRelink DEF True
  <2> QED BY <2>2, <2>3, <2>4
<1>3. CASE t \notin result.placed \cup result.copied \cup result.replaced /\ t \in result.recopied
  <2>1. Change(t) = "modify"
    BY <1>3 DEF Change
  <2>2. Placed(t) /\ Exists(before, t)
    <3>1. t \in SetNow /\ Explained
      BY <1>3, ToldIs
    <3> QED BY <1>3, <3>1, ToldIs DEF Explained
  <2> QED BY <1>3, <2>1, <2>2 DEF True
<1>4. CASE t \notin result.placed \cup result.copied \cup result.replaced \cup result.recopied /\ t \in result.removed
  <2>1. Change(t) = "remove"
    BY <1>4 DEF Change
  <2> QED BY <1>4, <2>1, TrueRemoval DEF True
<1>5. CASE t \notin result.placed \cup result.copied \cup result.replaced \cup result.recopied \cup result.removed
  <2>1. Change(t) = "none"
    BY <1>5 DEF Change
  <2> QED BY <2>1 DEF True
<1> QED BY <1>1, <1>2, <1>3, <1>4, <1>5

\* A reset only tells of removals.
LEMMA TornIs ==
  ASSUME ToldBasis, phase = "teardown", NEW t
  PROVE  /\ Torn
         /\ t \in result.removed => Change(t) = "remove"
         /\ t \notin result.removed => Change(t) = "none"
<1>1. Torn
  BY DEF ToldBasis, TornInv
<1>2. t \notin result.placed \cup result.copied /\ t \notin result.replaced /\ t \notin result.recopied
  BY <1>1 DEF Torn
<1> QED BY <1>1, <1>2 DEF Change

LEMMA TrueTorn ==
  ASSUME ToldBasis, phase = "teardown", NEW t \in Target
  PROVE  True(t)
<1>1. CASE t \in result.removed
  <2>1. Change(t) = "remove" /\ Torn
    BY <1>1, TornIs
  <2>2. fs[t].kind = "absent" /\ Exists(before, t) /\ ~Placed(t)
    BY <1>1, <2>1 DEF Torn, Absent, Placed
  <2> QED BY <2>1, <2>2 DEF True
<1>2. CASE t \notin result.removed
  <2>1. Change(t) = "none"
    BY <1>2, TornIs
  <2> QED BY <2>1 DEF True
<1> QED BY <1>1, <1>2

\* At every moment between two entries of an apply, a rollback or a reset, each
\* addition, modification and removal told so far is what has become of the tree
\* (outturn_payload.go mutationPayload and resetPayload over engine.Result).
THEOREM ChangesAreTrue ==
  ASSUME NamesApart, EntriesApart
  PROVE  ReportSpec => []ChangesTellTheTree
<1>1. ToldBasis => ChangesTellTheTree
  <2> SUFFICES ASSUME ToldBasis, Told, NEW t \in Target PROVE True(t)
    BY DEF ChangesTellTheTree, True
  <2>1. CASE phase = "teardown"
    BY <2>1, TrueTorn
  <2>2. CASE phase # "teardown"
    BY <2>2, TrueUnderWay DEF Told, UnderWay
  <2> QED BY <2>1, <2>2
<1> QED BY <1>1, ToldBasisHolds, PTL

\* What is told at a target that a run has set or cleared.
LEMMA ToldAt ==
  ASSUME ToldBasis, UnderWay, mid.step \in {"none", "prune"}, NEW t \in Touched
  PROVE  /\ t \in Target
         /\ \/ Change(t) # "none" \/ t \in result.backedUp
            \/ t \in Path /\ IsLink(before, t) /\ fs[t] = before[t]
<1>1. /\ AimFits /\ Listed /\ IsManifest(run.next) /\ IsManifest(run.base) /\ Busy = {}
      /\ SetNow = result.placed \cup result.replaced \cup result.copied \cup result.recopied
      /\ SetNow \subseteq Target /\ Taken \subseteq Target /\ Target \subseteq Path
      /\ Aim.backup \subseteq DOMAIN run.next
  BY ToldIs, AimApart, TargetsArePaths
<1>2. t \in Target
  BY <1>1, ToldIs DEF Touched, BackedUp
<1>3. CASE t \in BackedUp
  BY <1>1, <1>2, <1>3 DEF Listed
<1>4. CASE t \in result.placed \cup result.copied
  BY <1>2, <1>4 DEF Change
<1>5. CASE t \in result.replaced /\ t \notin result.placed \cup result.copied
  <2>1. Change(t) = IF result.olds[t] = run.next[t].src THEN "none" ELSE "modify"
    BY <1>5 DEF Change, Relinked
  <2>2. /\ before[t] = LinkTo(result.olds[t])
        /\ fs[t] = before[t] <=> result.olds[t] = run.next[t].src
    BY <1>5, TrueRelink
  <2>3. IsLink(before, t)
    BY <2>2 DEF IsLink, LinkTo
  <2> QED BY <1>1, <1>2, <2>1, <2>2, <2>3
<1>6. CASE t \in result.recopied /\ t \notin result.replaced
  BY <1>2, <1>6 DEF Change
<1>7. CASE t \in Taken /\ t \notin result.replaced
  BY <1>1, <1>2, <1>7 DEF Change, Listed
<1> QED BY <1>1, <1>2, <1>3, <1>4, <1>5, <1>6, <1>7 DEF Touched

\* Below a link that is as it was there is nothing, and there was nothing.
LEMMA BelowLink ==
  ASSUME ToldBasis, UnderWay, NEW t \in Path, IsLink(before, t), fs[t] = before[t], NEW p \in At(t)
  PROVE  fs[p] = before[p]
<1>1. /\ fs \in Tree /\ before \in Tree /\ Closed(fs) /\ Closed(before)
      /\ TidyTree(fs) /\ TidyTree(before)
  BY DEF ToldBasis, RunBasis, TreeInv, RunInv, Grounded, TidyInv, IInv, TypeOK
<1>2. ~IsDir(before, t) /\ ~IsDir(fs, t)
  BY DEF IsLink, IsDir
<1>3. CASE p \in Below[t]
  <2>1. p \in Path /\ ~Exists(fs, p) /\ ~Exists(before, p)
    BY <1>1, <1>2, <1>3, NothingBelow
  <2> QED BY <1>1, <2>1 DEF TidyTree, TidyNode, Exists
<1> QED BY <1>3 DEF At

\* Whatever a run has changed between two entries is told of at a target over
\* it, or lies in a backup; what nothing is told of is as it was, or a directory
\* that came or went (outturn_payload.go mutationPayload, resetPayload).
THEOREM NothingIsSilent ==
  ASSUME NamesApart, EntriesApart
  PROVE  ReportSpec => []NothingSilent
<1>1. ToldBasis => NothingSilent
  <2> SUFFICES ASSUME ToldBasis, Told, NEW p \in Path \ AsidePath
               PROVE  \/ fs[p] = before[p]
                      \/ {fs[p], before[p]} \subseteq {Absent, Dir}
                      \/ \E t \in Target : p \in At(t) /\ (Change(t) # "none" \/ t \in result.backedUp)
                      \/ \E t \in result.backedUp : p \in At(BackupOf[t])
    BY DEF NothingSilent
  <2>1. CASE phase = "teardown"
    <3>1. Torn /\ TidyTree(before)
      BY <2>1 DEF ToldBasis, TornInv, TidyInv
    <3>2. CASE \E t \in result.removed : p \in At(t)
      <4>1. PICK t \in result.removed : p \in At(t)
        BY <3>2
      <4>2. t \in Target /\ Change(t) = "remove"
        BY <2>1, <3>1, TornIs DEF Torn
      <4> QED BY <4>1, <4>2
    <3>3. CASE fs[p] # before[p] /\ IsDir(before, p)
      <4>1. before[p] = Dir /\ fs[p] = Absent
        BY <3>1, <3>3 DEF TidyTree, TidyNode, IsDir, Torn
      <4> QED BY <4>1
    <3> QED BY <3>1, <3>2, <3>3 DEF Torn
  <2>2. CASE phase # "teardown"
    <3>1. UnderWay /\ mid.step \in {"none", "prune"} /\ Listed
      BY <2>2, ToldIs DEF Told, UnderWay
    <3>2. ASSUME NEW t \in Touched, p \in At(t)
          PROVE  \/ fs[p] = before[p]
                 \/ \E s \in Target : p \in At(s) /\ (Change(s) # "none" \/ s \in result.backedUp)
      BY <3>1, <3>2, ToldAt, BelowLink
    <3>3. Noticed(p)
      BY <3>1 DEF ToldBasis, NoticedInv
    <3> QED BY <3>1, <3>2, <3>3 DEF Noticed, Listed
  <2> QED BY <2>1, <2>2
<1> QED BY <1>1, ToldBasisHolds, PTL

-----------------------------------------------------------------------------
(* The dry run.                                                             *)

\* At the end of an apply everything of its plan is told.
LEMMA ToldWhole ==
  ASSUME ToldBasis, phase \in {"commit", "discard"}
  PROVE  /\ result.placed = Whole.new /\ result.replaced = Aim.replace \cup Whole.foreign
         /\ result.copied \cup result.recopied = Aim.copies
         /\ result.removed = Whole.unlink \cup Whole.remove
         /\ run.op = "apply" => result.planned = Whole
         /\ Whole.copies \subseteq Copies(run.next)
<1>1. UnderWay /\ phase # "stages"
  BY DEF UnderWay
<1>2. IInv /\ Grounded /\ Fits /\ Listed /\ Explained /\ AimFits
  BY <1>1, AimIs DEF ToldBasis, RunBasis, RunInv, Fits, TellInv
<1>3. Stage = "record"
  BY <1>1, <1>2 DEF Fits, Ordered
<1>4. /\ plan.unlink = {} /\ plan.rmdir = {} /\ plan.backup = {} /\ plan.new = {} /\ Relinks = {}
      /\ plan.copies = {} /\ plan.remove = {}
  BY <1>3 DEF Stage
<1>5. /\ Aim.unlink = Whole.unlink /\ Aim.new = Whole.new /\ Aim.foreign = Whole.foreign
      /\ Aim.remove = (IF run.skip THEN {} ELSE Whole.remove)
      /\ before \in Tree /\ Closed(before) /\ IsManifest(run.next) /\ IsManifest(run.base)
      /\ Apart(run.base, run.next) /\ run.backup \in BOOLEAN
  BY <1>1, <1>2, AimParts DEF Grounded, IInv, TypeOK, IsRun
<1>6. Whole.copies \subseteq Copies(run.next)
  BY <1>5, PlannedCopy DEF Whole
<1>7. Aim.remove = Whole.remove
  <2>1. ASSUME run.skip, NEW t \in Whole.remove PROVE FALSE
    <3>1. t \in DOMAIN run.base /\ t \notin DOMAIN run.next
      BY <1>5, PlannedRemove DEF Whole
    <3>2. DOMAIN run.base \subseteq DOMAIN run.next
      BY <1>1, <1>2, <2>1 DEF Grounded, Within
    <3> QED BY <3>1, <3>2
  <2> QED BY <1>5, <2>1
<1> QED BY <1>2, <1>4, <1>5, <1>6, <1>7 DEF Listed, Taken, Unlinks, Explained

\* What apply --dryrun would have announced on the tree the run started from is
\* what the run has done when it commits, a repair under a generation skip
\* included; but for the copies of --recopy, and re-links that led nowhere new
\* (engine.go dryRun, outturn_payload.go).
THEOREM DryRunIsTrue ==
  ASSUME NamesApart, EntriesApart
  PROVE  ReportSpec => []DryRunTells
<1>1. ToldBasis => DryRunTells
  <2> SUFFICES ASSUME ToldBasis, phase \in {"commit", "discard"}, run.op = "apply", NEW t \in Target,
                      ~(run.recopy /\ t \in Copies(run.next)), Change(t) # Forecast(t)
               PROVE  t \in Symlinks(run.next) /\ Change(t) = "none" /\ fs[t] = before[t]
    BY DEF DryRunTells
  <2>1. UnderWay /\ mid.step \in {"none", "prune"} /\ IInv
    <3>1. UnderWay /\ phase # "stages"
      BY DEF UnderWay
    <3>2. mid = NoMid
      BY <3>1 DEF ToldBasis, RunBasis, RunInv, Ordered
    <3> QED BY <3>1, <3>2 DEF NoMid, ToldBasis, RunBasis
  <2>2. /\ AimFits /\ Fits /\ Explained /\ IsManifest(run.next)
        /\ SetNow = result.placed \cup result.replaced \cup result.copied \cup result.recopied
    BY <2>1, ToldIs
  <2>3. /\ result.placed = Whole.new /\ result.replaced = Aim.replace \cup Whole.foreign
        /\ result.copied \cup result.recopied = Aim.copies
        /\ result.removed = Whole.unlink \cup Whole.remove
        /\ result.planned = Whole /\ Whole.copies \subseteq Copies(run.next)
    BY ToldWhole
  <2>4. /\ Aim.replace = (IF run.skip THEN {} ELSE Whole.replace)
        /\ Aim.copies = (IF run.recopy THEN Copies(run.next) ELSE Whole.copies)
    BY <2>1, AimParts
  <2>5. t \notin result.recopied /\ (t \in result.copied <=> t \in Whole.copies)
    BY <2>2, <2>3, <2>4 DEF Explained
  <2>6. CASE t \in result.placed \cup result.copied
    BY <2>3, <2>5, <2>6 DEF Change, Forecast
  <2>7. CASE t \notin result.placed \cup result.copied /\ t \in result.replaced
    <3>1. t \in Whole.replace \cup Whole.foreign
      BY <2>3, <2>4, <2>7
    <3>2. Forecast(t) = "modify"
      BY <2>3, <2>5, <2>7, <3>1 DEF Forecast
    <3>3. Change(t) = Relinked(t)
      BY <2>7 DEF Change
    <3>4. Change(t) = "none" /\ result.olds[t] = run.next[t].src
      BY <3>2, <3>3 DEF Relinked
    <3> QED BY <2>1, <2>7, <3>4, TrueRelink
  <2>8. CASE t \notin result.placed \cup result.copied \cup result.replaced
    <3>1. Change(t) = IF t \in result.removed THEN "remove" ELSE "none"
      BY <2>5, <2>8 DEF Change
    <3>2. t \in Whole.replace /\ run.skip
      BY <2>3, <2>4, <2>5, <2>8, <3>1 DEF Forecast
    <3>3. t \in Symlinks(run.next) /\ IsLink(before, t) /\ t \in DOMAIN run.next
      BY <3>2, PlannedRelink, <2>1 DEF Whole, IInv, TypeOK, IsRun, Symlinks
    <3>4. t \notin SetNow /\ t \notin Copies(run.next)
      BY <2>2, <2>5, <2>8, <3>3 DEF Symlinks, Copies
    <3>5. t \in Rest
      <4>1. /\ Aim.new = Whole.new /\ Aim.foreign = Whole.foreign
        BY <2>1, AimParts
      <4>2. t \notin Aim.copies
        BY <2>2, <3>4 DEF AimFits
      <4> QED BY <2>3, <2>8, <3>3, <4>1, <4>2 DEF Rest
    <3>6. fs[t] = before[t]
      BY <2>2, <3>5 DEF Fits, TreeFits
    <3>7. t \notin Taken
      <4>1. before[t].kind = "link" /\ t \notin Aim.copies
        BY <2>2, <3>3, <3>4 DEF AimFits, IsLink
      <4> QED BY <2>1, <3>3, <4>1, ToldIs
    <3>8. t \notin result.removed
      BY <2>1, <3>7, ToldIs DEF Listed
    <3> QED BY <3>1, <3>3, <3>6, <3>8
  <2> QED BY <2>6, <2>7, <2>8
<1> QED BY <1>1, ToldBasisHolds, PTL

-----------------------------------------------------------------------------
(* A failing stage: what is told of the entries it did and did not reach.   *)

FailsAt(x) ==
  /\ TellFailure(x) /\ x \in Path \cup {<< >>} /\ Busy \subseteq {x} /\ UNCHANGED <<run, before>>
  /\ fs' = fs \/ \E s \in Path : fs' = Mkdirs(fs, s)
  /\ UNCHANGED journal \/ (x \in plan.copies /\ journal' = Journal("removeCopy", x))

LEMMA FailsIs ==
  ASSUME EntriesApart, ToldBasis, [ReportNext]_allVars, phase = "stages", phase' = "unwind"
  PROVE  \E x : FailsAt(x)
<1>1. /\ RunBasis /\ IInv /\ RunInv /\ Fits /\ plan \in Plan /\ Target \subseteq Path
      /\ \A s, p : Mid(s, p).step = s /\ Mid(s, p).path = p
      /\ NoMid.step = "none"
  BY StageFacts DEF ToldBasis, RunBasis, RunInv, Fits, UnderWay, NoMid
<1>2. ASSUME NEW t \in plan.copies, CopyStuck(t), TellFailure(t) PROVE FailsAt(t)
  <2>1. t \in Path
    BY <1>1 DEF Plan
  <2>2. Busy \subseteq {t}
    <3>1. mid = NoMid \/ mid = Mid("aside", t) \/ mid = Mid("copy", t)
      BY <1>2 DEF CopyStuck, In
    <3> QED BY <1>1, <3>1 DEF Busy
  <2>3. UNCHANGED <<run, before>>
    BY <1>2 DEF CopyStuck, ghostVars
  <2>4. /\ fs' = fs \/ fs' = Mkdirs(fs, t)
        /\ UNCHANGED journal \/ journal' = Journal("removeCopy", t)
    BY <1>2 DEF CopyStuck
  <2> QED BY <1>2, <2>1, <2>2, <2>3, <2>4 DEF FailsAt
<1>3. ASSUME NEW p \in Path, StageStuck(p), TellFailure(IF p \in plan.rmdir THEN << >> ELSE p)
      PROVE  \E x : FailsAt(x)
  <2>1. UNCHANGED <<fs, run, before, journal>>
    BY <1>3 DEF StageStuck, Fails
  <2>2. Busy \subseteq {IF p \in plan.rmdir THEN << >> ELSE p}
    <3>1. mid = NoMid \/ mid = Mid("relink", p)
      BY <1>3 DEF StageStuck, Refuses, In
    <3>2. CASE mid = NoMid
      BY <1>1, <3>2 DEF Busy
    <3>3. CASE mid = Mid("relink", p)
      <4>1. mid # NoMid
        BY <1>1, <3>3
      <4>2. plan.rmdir = {}
        BY <1>1, <4>1 DEF Fits, Ordered
      <4> QED BY <1>1, <3>3, <4>2 DEF Busy
    <3> QED BY <3>1, <3>2, <3>3
  <2> QED BY <1>3, <2>1, <2>2 DEF FailsAt
<1>4. CASE StageFault /\ \E t \in Failing : TellFailure(t)
  <2>1. PICK t \in Failing : TellFailure(t)
    BY <1>4
  <2>2. t \in Path \cup {<< >>} /\ (mid # NoMid => Failing = {mid.path})
    BY <1>1, FailingIs
  <2>3. Busy \subseteq {t}
    BY <1>1, <2>1, <2>2 DEF Busy
  <2>4. UNCHANGED <<run, before, journal>>
    BY <1>4 DEF StageFault, Fails
  <2>5. fs' = fs \/ \E s \in Path : fs' = Mkdirs(fs, s)
    <3>1. plan.new \cup plan.copies \subseteq Path
      BY <1>1 DEF Plan
    <3> QED BY <1>4, <3>1 DEF StageFault
  <2> QED BY <2>1, <2>2, <2>3, <2>4, <2>5 DEF FailsAt
<1>5. CASE TellStage
  <2>1. /\ \A p : ~PreRemoveUnlink(p) /\ ~PreRemoveRmdir(p) /\ ~BackUp(p) /\ ~PlaceNew(p) /\ ~RelinkUnlink(p)
        /\ \A p : ~RelinkSymlink(p) /\ ~RecopyAside(p) /\ ~CopyStart(p) /\ ~CopyFinish(p)
        /\ \A p : ~RemoveStale(p) /\ ~ResetCopy(p)
        /\ ~PruneAncestor
    BY DEF PreRemoveUnlink, PreRemoveRmdir, BackUp, PlaceNew, RelinkUnlink, RelinkSymlink,
           RecopyAside, CopyStart, CopyFinish, RemoveStale, ResetCopy, PruneAncestor, Writes
  <2> QED BY <1>2, <1>3, <1>5, <2>1 DEF TellStage
<1>6. ~TellStart
  BY DEF TellStart, StartApply, StartRollback, StartReset
<1>7. ~TellFinish
  BY DEF TellFinish, WriteRecord, Commit, UndoStep, DiscardJournal, Unwound, RecordAfterReset, End
<1>8. TellFault => StageFault /\ \E t \in Failing : TellFailure(t)
  BY DEF TellFault, PruneFault, ResetFault, CommitFault, ResetRecordFault
<1>9. ~AnswerReset /\ ~Crash /\ ~UserStep
  BY DEF AnswerReset, Crash, End, UserStep, UserWrite, UserMkdir, UserRelink, UserDelete, UserMay, EntriesApart
<1>10. phase' # phase
  OBVIOUS
<1> QED BY <1>4, <1>5, <1>6, <1>7, <1>8, <1>9, <1>10 DEF ReportNext, allVars, vars, engineVars

\* The directories made for an entry that fails hide nothing.
LEMMA FailsKeeps ==
  ASSUME NEW x, FailsAt(x), NEW p \in Path
  PROVE  fs'[p] = fs[p] \/ (~Exists(fs, p) /\ fs'[p] = Dir)
<1>1. CASE fs' = fs
  BY <1>1
<1>2. ASSUME NEW s \in Path, fs' = Mkdirs(fs, s) PROVE fs'[p] = fs[p] \/ (~Exists(fs, p) /\ fs'[p] = Dir)
  BY <1>2 DEF Mkdirs
<1> QED BY <1>1, <1>2 DEF FailsAt

\* Of an entry that a failing apply or rollback reports as a success it may be
\* said that it is in place, unless the run cleared its target and never came to
\* place it (engine.go fail, outturn_payload.go statusFor).
THEOREM SuccessIsTrue ==
  ASSUME NamesApart, EntriesApart
  PROVE  ReportSpec => SuccessIsInPlace
<1>1. ASSUME ToldBasis, [ReportNext]_allVars, phase = "stages", phase' = "unwind", ~run.skip,
             NEW t \in DOMAIN run.next, Status(t)' = "success", t \notin result.removed \cup result.backedUp
      PROVE  IF run.next[t].method = "symlink" THEN fs'[t] = LinkTo(run.next[t].src) ELSE Exists(fs', t)
  <2>1. PICK x : FailsAt(x)
    BY <1>1, FailsIs
  <2>2. /\ IInv /\ RunInv /\ AimFits /\ Fits /\ Listed /\ IsManifest(run.next) /\ t \in Path
        /\ result \in Result
    BY <1>1, StageBasis, TargetsArePaths DEF ToldBasis, RunBasis, TellInv, UnderWay, IInv, TypeOK, IsRun
  <2>3. t \notin result'.unreached /\ t # result'.failed
    BY <1>1 DEF Status
  <2>4. t \notin Left \ Done
    <3>1. result'.failed = x /\ result'.unreached = Unreached(x)
      BY <1>1, <2>1, <2>2, TellFailureIs DEF FailsAt
    <3> QED BY <2>3, <3>1 DEF Unreached
  <2>5. t \in SetNow \cup Rest
    <3>1. CASE t \in Done
      BY <1>1, <2>2, <3>1 DEF Done, Listed, SetNow
    <3>2. CASE t \notin Left
      BY <3>2 DEF Left, SetNow, Rest
    <3> QED BY <2>4, <3>1, <3>2
  <2>6. IF run.next[t].method = "symlink" THEN fs[t] = LinkTo(run.next[t].src) ELSE Exists(fs, t)
    <3>1. CASE t \in SetNow
      <4>1. Placed(t)
        BY <2>2, <3>1 DEF Fits, TreeFits
      <4> QED BY <2>2, <4>1, PlacedNode DEF Placed
    <3>2. CASE t \in Rest
      <4>1. fs[t] = before[t]
        BY <2>2, <3>2 DEF Fits, TreeFits
      <4>2. run.next[t].method # "symlink" /\ Exists(before, t)
        BY <1>1, <2>2, <3>2 DEF AimFits
      <4> QED BY <4>1, <4>2 DEF Exists
    <3> QED BY <2>5, <3>1, <3>2
  <2>7. Exists(fs, t)
    BY <2>6 DEF Exists, LinkTo
  <2>8. fs'[t] = fs[t]
    BY <2>1, <2>2, <2>7, FailsKeeps
  <2> QED BY <2>6, <2>8 DEF Exists
<1>2. ToldBasis /\ [ReportNext]_allVars =>
        [phase = "stages" /\ phase' = "unwind" /\ ~run.skip =>
           \A t \in DOMAIN run.next :
             \/ Status(t)' # "success"
             \/ t \in result.removed \cup result.backedUp
             \/ IF run.next[t].method = "symlink" THEN fs'[t] = LinkTo(run.next[t].src)
                ELSE Exists(fs', t)]_allVars
  BY <1>1
<1> QED BY <1>2, ToldBasisHolds, PTL DEF ReportSpec, SuccessIsInPlace

-----------------------------------------------------------------------------
(* The unwinding leaves alone what was not reached.                         *)

\* Undoing op does not touch t.
Harmless(op, t) ==
  CASE op.kind \in {"unlinkNew", "relinkOld"} -> t # op.path
    [] op.kind = "removeCopy" -> t \notin At(op.path)
    [] op.kind \in Restores -> t \notin At(op.path) \cup At(Beside(op.kind, op.path))
    [] op.kind = "mkdir" -> TRUE

Intact(t) == fs[t] = before[t] \/ {fs[t], before[t]} \subseteq {Absent, Dir}

Spared(t) == Intact(t) /\ \A i \in DOMAIN journal : Harmless(journal[i], t)

SparedInv == phase = "unwind" => \A t \in result.unreached \cap Target : Spared(t)

\* What is still planned and not under way lies outside what was touched, and
\* outside the copies and the backups.
LEMMA LeftApart ==
  ASSUME NamesApart, ToldBasis, phase = "stages", NEW t \in (Left \ (Done \cup Busy)) \cap Target
  PROVE  /\ t \notin Touched
         /\ \A c \in Aim.copies : t \notin Below[c]
         /\ \A b \in Aim.backup : t # b => t \notin At(b)
         /\ \A s \in Target : t \notin At(BackupOf[s]) /\ t \notin At(AsideOf[s])
         /\ Intact(t)
<1>1. /\ IInv /\ RunInv /\ AimFits /\ Fits /\ Listed /\ IsManifest(run.next) /\ IsManifest(run.base)
      /\ fs \in Tree /\ before \in Tree /\ TidyTree(before) /\ Target \subseteq Path
  BY StageBasis, StageFacts DEF ToldBasis, RunBasis, TellInv, UnderWay, TidyInv, IInv, TypeOK
<1>2. /\ Unnested(run.next)
      /\ \A s \in Copies(run.next), r \in DOMAIN run.base : r \notin Below[s]
  BY <1>1, StageBasis
<1>3. t \notin Touched
  BY <1>1 DEF Done, Listed, Touched, SetNow
<1>4. \/ t \in DOMAIN run.next
      \/ t \in plan.unlink \cup plan.remove
  <2>1. t \in plan.unlink \cup plan.backup \cup plan.new \cup Relinks \cup plan.copies \cup plan.remove
    BY <1>1 DEF Left, Listed
  <2>2. plan.backup \cup plan.new \cup Relinks \cup plan.copies \subseteq DOMAIN run.next
    <3>1. Aim.backup \cup Aim.new \cup Aim.replace \cup Aim.foreign \cup Aim.copies \subseteq DOMAIN run.next
      BY <1>1, AimApart, ManifestTypes
    <3> QED BY <1>1, <3>1 DEF Fits, Shrinks
  <2> QED BY <2>1, <2>2
<1>5. plan.unlink \subseteq Aim.unlink /\ plan.remove \subseteq Aim.remove
  BY <1>1 DEF Fits, Shrinks
<1>6. plan.unlink \cup plan.remove \subseteq DOMAIN run.base
  BY <1>1, <1>5, AimApart
<1>7. ASSUME NEW c \in Aim.copies PROVE t \notin Below[c]
  <2>1. c \in Copies(run.next) /\ c \in DOMAIN run.next
    BY <1>1, AimApart, ManifestTypes
  <2> QED BY <1>2, <1>4, <1>6, <2>1 DEF Unnested
<1>8. ASSUME NEW b \in Aim.backup, t # b PROVE t \notin At(b)
  <2>1. b \in DOMAIN run.next
    BY <1>1, AimApart
  <2>2. CASE t \in DOMAIN run.next
    BY <1>2, <1>8, <2>1, <2>2 DEF Unnested, At
  <2>3. CASE t \in plan.unlink \cup plan.remove
    BY <1>1, <1>5, <2>3 DEF AimFits
  <2> QED BY <1>4, <2>2, <2>3
<1>9. \A s \in Target : t \notin At(BackupOf[s]) /\ t \notin At(AsideOf[s])
  BY DEF NamesApart
<1>10. Intact(t)
  <2>1. TreeFits /\ t \notin Busy /\ t \notin Unlinks \cup BackedUp
    BY <1>1, <1>3 DEF Fits, Touched, Taken
  <2>2. CASE t \in plan.unlink \cup plan.backup \cup plan.remove \cup Relinks
    BY <2>1, <2>2 DEF TreeFits, Intact
  <2>3. CASE t \in plan.new \cup plan.copies
    <3>1. Pending(t)
      BY <2>1, <2>3 DEF TreeFits
    <3>2. fs[t] = before[t] \/ (IsDir(before, t) /\ fs[t] = Absent)
      BY <2>1, <3>1 DEF Pending
    <3>3. IsDir(before, t) => before[t] = Dir
      BY <1>1 DEF TidyTree, TidyNode, IsDir
    <3> QED BY <3>2, <3>3 DEF Intact
  <2> QED BY <1>1, <2>2, <2>3 DEF Left, Listed
<1> QED BY <1>3, <1>7, <1>8, <1>9, <1>10 DEF At

LEMMA MadeHarmless ==
  ASSUME NamesApart, ToldBasis, phase = "stages", NEW t \in (Left \ (Done \cup Busy)) \cap Target,
         NEW op \in UndoOp, Made(op) \/ (op.kind = "removeCopy" /\ op.path \in Aim.copies /\ op.path # t)
  PROVE  Harmless(op, t)
<1>1. /\ t \notin Touched
      /\ \A c \in Aim.copies : t \notin Below[c]
      /\ \A b \in Aim.backup : t # b => t \notin At(b)
      /\ \A s \in Target : t \notin At(BackupOf[s]) /\ t \notin At(AsideOf[s])
  BY LeftApart
<1>2. Aim.copies \subseteq Target /\ Aim.backup \subseteq Target
  BY StageBasis DEF ToldBasis, RunBasis, AimFits, Plan
<1>3. op.kind \in UndoKind /\ (op.kind # "mkdir" => op.path # t)
  BY <1>1 DEF UndoOp, Made
<1>4. CASE op.kind \in {"unlinkNew", "relinkOld"}
  BY <1>3, <1>4 DEF Harmless, Restores
<1>5. CASE op.kind = "removeCopy"
  <2>1. op.path \in Aim.copies
    BY <1>5 DEF Made
  <2> QED BY <1>1, <1>3, <1>5, <2>1 DEF Harmless, Restores, At
<1>6. CASE op.kind = "restoreRename"
  <2>1. op.path \in Aim.copies
    BY <1>6 DEF Made
  <2>2. Beside(op.kind, op.path) = AsideOf[op.path]
    BY <1>6 DEF Beside
  <2>3. t \notin At(op.path)
    BY <1>1, <1>3, <1>6, <2>1 DEF At
  <2> QED BY <1>1, <1>2, <1>6, <2>1, <2>2, <2>3 DEF Harmless, Restores
<1>7. CASE op.kind = "restoreBackup"
  <2>1. op.path \in Aim.backup
    BY <1>7 DEF Made
  <2>2. Beside(op.kind, op.path) = BackupOf[op.path]
    BY <1>7 DEF Beside
  <2>3. t \notin At(op.path)
    BY <1>1, <1>3, <1>7, <2>1
  <2> QED BY <1>1, <1>2, <1>7, <2>1, <2>2, <2>3 DEF Harmless, Restores
<1>8. CASE op.kind = "mkdir"
  BY <1>8 DEF Harmless, Restores
<1> QED BY <1>3, <1>4, <1>5, <1>6, <1>7, <1>8 DEF UndoKind

\* When a stage fails, what it has not reached is intact, and stays so.
LEMMA FailSpared ==
  ASSUME NamesApart, EntriesApart, ToldBasis, [ReportNext]_allVars, phase = "stages", phase' = "unwind",
         NEW t \in result'.unreached \cap Target
  PROVE  Spared(t)'
<1>1. PICK x : FailsAt(x)
  BY FailsIs
<1>2. /\ IInv /\ Marked /\ Shrinks /\ journal \in Seq(UndoOp) /\ before' = before
      /\ fs \in Tree /\ TidyTree(fs) /\ Target \subseteq Path /\ None \in Val /\ result \in Result
  BY <1>1, StageBasis, StageFacts DEF ToldBasis, RunBasis, MarkInv, TidyInv, IInv, TypeOK, Fits, FailsAt
<1>3. t \in Left \ (Done \cup {x}) /\ Busy \subseteq {x}
  <2>1. result'.unreached = IF run.skip THEN {} ELSE Unreached(x)
    BY <1>1, <1>2, TellFailureIs, ForgetIs DEF FailsAt
  <2> QED BY <1>1, <2>1 DEF Unreached, FailsAt
<1>4. t \in (Left \ (Done \cup Busy)) \cap Target
  BY <1>3
<1>5. Intact(t)'
  <2>1. Intact(t) /\ t \in Path
    BY <1>2, <1>4, LeftApart
  <2>2. fs'[t] = fs[t] \/ (~Exists(fs, t) /\ fs'[t] = Dir)
    BY <1>1, <2>1, FailsKeeps
  <2>3. ~Exists(fs, t) => fs[t] = Absent
    BY <1>2, <2>1 DEF TidyTree, TidyNode, Exists
  <2> QED BY <1>2, <2>1, <2>2, <2>3 DEF Intact
<1>6. \A i \in DOMAIN journal : Harmless(journal[i], t)
  <2> SUFFICES ASSUME NEW i \in DOMAIN journal PROVE Harmless(journal[i], t)
    OBVIOUS
  <2>1. Made(journal[i]) /\ journal[i] \in UndoOp
    BY <1>2 DEF Marked
  <2> QED BY <1>4, <2>1, MadeHarmless
<1>7. ASSUME NEW i \in DOMAIN journal' PROVE Harmless(journal'[i], t)
  <2>1. CASE UNCHANGED journal
    BY <1>6, <2>1
  <2>2. CASE x \in plan.copies /\ journal' = Journal("removeCopy", x)
    <3> DEFINE e == [kind |-> "removeCopy", path |-> x, dest |-> None]
    <3>1. x \in Aim.copies /\ x # t /\ x \in Path
      BY <1>2, <1>3, <2>2 DEF Shrinks, IInv, TypeOK, Plan
    <3>2. e \in UndoOp /\ journal' = Append(journal, e)
      BY <1>2, <2>2, <3>1 DEF Journal, UndoOp, UndoKind
    <3>3. Harmless(e, t)
      BY <1>4, <3>1, <3>2, MadeHarmless
    <3>4. \/ i \in DOMAIN journal /\ journal'[i] = journal[i]
          \/ journal'[i] = e
      BY <1>2, <3>2, AppendIs
    <3> QED BY <1>6, <3>3, <3>4
  <2> QED BY <1>1, <2>1, <2>2 DEF FailsAt
<1>8. \A i \in DOMAIN journal' : Harmless(journal[i], t)'
  BY <1>7 DEF Harmless, Beside
<1> QED BY <1>5, <1>8 DEF Spared

LEMMA UndoSpared ==
  ASSUME NamesApart, NEW f \in Tree, TidyTree(f), NEW op \in UndoOp, NEW t \in Path, Harmless(op, t)
  PROVE  Undo(f, op)[t] = f[t] \/ (f[t] = Absent /\ Undo(f, op)[t] = Dir)
<1> DEFINE p == op.path
           removed == IF CanRemove(f, p) THEN Put(f, p, Absent) ELSE f
<1>1. op.kind \in UndoKind /\ p \in Path
  BY DEF UndoOp
<1>2. ASSUME NEW g \in Tree, NEW n, t # p PROVE Put(g, p, n)[t] = g[t]
  BY <1>2 DEF Put, Tree
<1>3. CASE op.kind \in {"unlinkNew", "relinkOld"}
  <2>1. t # p
    BY <1>3 DEF Harmless, Restores
  <2>2. removed \in Tree /\ removed[t] = f[t]
    BY <1>2, <2>1, PutTree, NodeTypes
  <2>3. Put(removed, p, LinkTo(op.dest))[t] = f[t]
    BY <1>2, <2>1, <2>2
  <2> HIDE DEF p
  <2> QED BY <1>3, <2>2, <2>3 DEF Undo, p
<1>4. CASE op.kind = "removeCopy"
  <2>1. t \notin At(p)
    BY <1>4 DEF Harmless, Restores
  <2>2. Clear(f, p)[t] = f[t]
    BY <2>1 DEF Clear
  <2> QED BY <1>4, <2>2 DEF Undo
<1>5. CASE op.kind \in Restores
  <2> DEFINE q == Beside(op.kind, p)
             g == Clear(f, p)
  <2>1. t \notin At(p) /\ t \notin At(q)
    BY <1>5 DEF Harmless, Restores
  <2>2. g[t] = f[t]
    BY <2>1 DEF Clear
  <2>3. Rename(g, q, p)[t] = g[t]
    BY <2>1 DEF Rename
  <2>4. BringBack(f, q, p)[t] = f[t]
    BY <2>2, <2>3 DEF BringBack
  <2>5. Undo(f, op) = BringBack(f, q, p)
    BY <1>5 DEF Undo, Restores, Beside
  <2> QED BY <2>4, <2>5
<1>6. CASE op.kind = "mkdir"
  <2>1. Undo(f, op) = IF InRealDir(f, p) /\ ~Exists(f, p) THEN Put(f, p, Dir) ELSE f
    BY <1>6 DEF Undo
  <2>2. CASE t # p
    BY <1>2, <2>1, <2>2
  <2>3. CASE t = p /\ ~Exists(f, p)
    <3>1. f[t] = Absent
      BY <2>3 DEF TidyTree, TidyNode, Exists
    <3> QED BY <1>1, <2>1, <2>3, <3>1 DEF Put, Tree
  <2> QED BY <2>1, <2>2, <2>3
<1> QED BY <1>1, <1>3, <1>4, <1>5, <1>6 DEF UndoKind, Restores

LEMMA NextSpared ==
  ASSUME NamesApart, EntriesApart, ToldBasis, SparedInv, [ReportNext]_allVars
  PROVE  SparedInv'
<1> SUFFICES ASSUME phase' = "unwind", NEW t \in result'.unreached \cap Target PROVE Spared(t)'
  BY DEF SparedInv
<1>1. CASE phase = "stages"
  BY <1>1, FailSpared
<1>2. CASE phase = "unwind"
  <2>1. result' = result /\ before' = before /\ (UndoStep \/ UNCHANGED <<fs, journal>>)
    <3>1. ~TellStart /\ ~TellStage
      <4>1. TellStage => StageStep
        BY DEF TellStage, StageStep
      <4> QED BY <1>2, <4>1, StageStarted DEF TellStart, StartApply, StartRollback, StartReset
    <3>2. ~TellFault
      BY <1>2 DEF TellFault, StageFault, PruneFault, ResetFault, CommitFault, ResetRecordFault
    <3>3. ~AnswerReset /\ ~Crash /\ ~UserStep
      BY <1>2 DEF AnswerReset, Crash, End, UserStep, UserWrite, UserMkdir, UserRelink, UserDelete, UserMay, EntriesApart
    <3>4. TellFinish => UndoStep /\ Same
      BY <1>2 DEF TellFinish, WriteRecord, In, Commit, DiscardJournal, Unwound, RecordAfterReset, End
    <3>5. UndoStep => before' = before
      BY DEF UndoStep, ghostVars
    <3>6. UNCHANGED allVars => UNCHANGED <<result, before, fs, journal>>
      BY DEF allVars, vars, engineVars, ghostVars
    <3> QED BY <3>1, <3>2, <3>3, <3>4, <3>5, <3>6 DEF ReportNext, Same
  <2>2. Spared(t) /\ t \in Path
    BY <1>2, <2>1, TargetsArePaths DEF SparedInv
  <2>3. CASE UNCHANGED <<fs, journal>>
    BY <2>1, <2>2, <2>3 DEF Spared, Intact
  <2>4. CASE UndoStep
    <3>1. /\ journal \in Seq(UndoOp) /\ journal # << >> /\ fs \in Tree /\ TidyTree(fs)
          /\ fs' = Undo(fs, Last(journal)) /\ journal' = Front(journal)
      BY <2>4 DEF UndoStep, ToldBasis, RunBasis, IInv, TypeOK, TidyInv
    <3>2. /\ Len(journal) \in DOMAIN journal /\ Last(journal) = journal[Len(journal)]
          /\ DOMAIN journal' \subseteq DOMAIN journal
          /\ \A i \in DOMAIN journal' : journal'[i] = journal[i]
      BY <3>1, FrontIs
    <3>3. Last(journal) \in UndoOp /\ Harmless(Last(journal), t)
      BY <2>2, <3>1, <3>2 DEF Spared
    <3>4. fs'[t] = fs[t] \/ (fs[t] = Absent /\ fs'[t] = Dir)
      BY <2>2, <3>1, <3>3, UndoSpared
    <3>5. Intact(t)'
      BY <2>1, <2>2, <3>4 DEF Spared, Intact
    <3>6. \A i \in DOMAIN journal' : Harmless(journal'[i], t)
      BY <2>2, <3>2 DEF Spared
    <3>7. \A i \in DOMAIN journal' : Harmless(journal[i], t)'
      BY <3>6 DEF Harmless, Beside
    <3> QED BY <3>5, <3>7 DEF Spared
  <2> QED BY <2>1, <2>3, <2>4
<1>3. CASE phase \notin {"stages", "unwind"}
  <2>1. TellStart
    <3>1. /\ \A p : ~PreRemoveUnlink(p) /\ ~PreRemoveRmdir(p) /\ ~BackUp(p) /\ ~PlaceNew(p) /\ ~RelinkUnlink(p)
          /\ \A p : ~RelinkSymlink(p) /\ ~RecopyAside(p) /\ ~CopyStart(p) /\ ~CopyFinish(p)
          /\ \A p : ~RemoveStale(p) /\ ~ResetCopy(p)
          /\ ~PruneAncestor
      BY <1>3 DEF PreRemoveUnlink, PreRemoveRmdir, BackUp, PlaceNew, RelinkUnlink, RelinkSymlink,
             RecopyAside, CopyStart, CopyFinish, RemoveStale, ResetCopy, PruneAncestor, Writes
    <3>2. ~TellStage
      <4>1. \A p : ~CopyStuck(p) /\ ~StageStuck(p)
        BY <1>3 DEF CopyStuck, StageStuck, Refuses, In
      <4> QED BY <3>1, <4>1 DEF TellStage
    <3>3. ~TellFault
      BY <1>3 DEF TellFault, StageFault, PruneFault, ResetFault, CommitFault, ResetRecordFault, End
    <3>4. ~TellFinish
      BY <1>3 DEF TellFinish, WriteRecord, Commit, UndoStep, DiscardJournal, Unwound, RecordAfterReset, End
    <3>5. ~AnswerReset /\ ~Crash /\ ~UserStep
      BY <1>3 DEF AnswerReset, Refuse, Crash, End, UserStep, UserWrite, UserMkdir, UserRelink, UserDelete, Edited
    <3>6. ~UNCHANGED allVars
      BY <1>3 DEF allVars, vars, engineVars
    <3> QED BY <3>2, <3>3, <3>4, <3>5, <3>6 DEF ReportNext
  <2>2. result'.unreached = {}
    BY <2>1, ForgetIs DEF TellStart, Forget, NoResult
  <2> QED BY <2>2
<1> QED BY <1>1, <1>2, <1>3

\* An entry that a failed apply or rollback reports as skipped is as it was
\* before the run, from the failure to the last step of the unwinding: no undo
\* of another entry reaches it (engine.go fail, undo.go unwind).
THEOREM SkippedIsUntouched ==
  ASSUME NamesApart, EntriesApart
  PROVE  ReportSpec => []SkippedUntouched
<1>1. ReportInit => SparedInv
  BY DEF ReportInit, Init, SparedInv
<1>2. SparedInv => SkippedUntouched
  <2> SUFFICES ASSUME SparedInv, phase = "unwind", NEW t \in Target, Status(t) = "skipped"
               PROVE  fs[t] = before[t] \/ {fs[t], before[t]} \subseteq {Absent, Dir}
    BY DEF SkippedUntouched
  <2>1. t \in result.unreached
    BY DEF Status
  <2> QED BY <2>1 DEF SparedInv, Spared, Intact
<1> QED BY <1>1, <1>2, NextSpared, ToldBasisHolds, PTL DEF ReportSpec
=============================================================================
