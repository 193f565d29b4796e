---------------------------- MODULE ApplyAllProofs ----------------------------
(***************************************************************************)
(* Theorems about ApplyAll, for any configs, roots, manifests and --jobs.  *)
(***************************************************************************)
EXTENDS ApplyAll, PlannerProofs, FiniteSetTheorems

\* What the work on a config carries from step to step: where it is in the
\* invocation, what it may place and take away, and what its journal undoes.
RunFits(c) ==
  LET r == run[c]
  IN /\ r.pc # "idle" => c \in Selected \ queue /\ outcome[c] = "none"
     /\ r.pc = "build" => stage = "build"
     /\ r.pc \notin {"idle", "build"} => stage = "apply"
     /\ r.pc \in {"stages", "commit", "unwind"} => built[c] = "ok" /\ ~asked.dryrun

RecordFits(c) ==
  record[c] = Was(c) \/ run[c].pc = "commit" \/ outcome[c] \in {"applied", "failed"}

OpFits(c, op) ==
  /\ op.kind = "unlinkNew" => op.path \in DOMAIN Want(c)
  /\ op.kind = "relinkOld" => op.path \in DOMAIN Was(c) \cup DOMAIN Want(c)

HandFits(c, r) ==
  /\ r.plan.new \cup r.plan.replace \cup r.plan.foreign \subseteq DOMAIN Want(c)
  /\ r.plan.unlink \cup r.plan.remove \subseteq DOMAIN Was(c)
  /\ r.mid \in {"made", "unlinked"} => r.at \in DOMAIN Want(c)
  /\ r.mid \in {"dropped", "stale"} => r.at \in DOMAIN Was(c)
  /\ r.mid \in {"prune", "ancestor"} => r.at \in Path
  /\ \A i \in DOMAIN r.journal : OpFits(c, r.journal[i])

OutcomeFits(c) ==
  /\ outcome[c] # "none" => c \in Selected \ queue /\ stage \in {"apply", "done"}
  /\ outcome[c] \in {"applied", "skipped"} => built[c] = "ok" /\ ~asked.dryrun
  /\ outcome[c] \in {"planned", "conflict"} => built[c] = "ok" /\ asked.dryrun

ConfigFits(c) == RunFits(c) /\ RecordFits(c) /\ HandFits(c, run[c]) /\ OutcomeFits(c)

NoReport == [applied |-> 0, skipped |-> 0, failed |-> 0, code |-> 0]

\* Every selected config is waiting, in hand, or through with the stage.
StageFits ==
  /\ queue \subseteq Selected
  /\ stage \in {"check", "done"} => queue = {}
  /\ stage \in {"build", "apply"} => ~Clash
  /\ stage # "done" => report = NoReport
  /\ stage \in {"check", "build"} => disk = start
  /\ stage = "build" =>
       \A c \in Selected : c \in queue \/ run[c].pc = "build" \/ built[c] # "none"
  /\ stage = "apply" =>
       \A c \in Selected : /\ built[c] # "none"
                           /\ c \in queue \/ run[c].pc # "idle" \/ outcome[c] # "none"
  /\ stage = "done" =>
       \/ Clash /\ report = [NoReport EXCEPT !.code = 1] /\ disk = start
       \/ ~Clash /\ Selected = {} /\ report = NoReport /\ disk = start
       \/ /\ ~Clash
          /\ report.applied = Settled("applied") /\ report.skipped = Settled("skipped")
          /\ report.failed = Settled("failed")
          /\ report.code = ExitCode(Settled("failed"), Settled("conflict"))
          /\ \A c \in Selected : built[c] # "none" /\ outcome[c] # "none"

\* Links lead where a manifest or a user made them lead.
LinksOk(f) == \A p \in Path : IsLink(f, p) => f[p].val \in Src \cup Foreign
LinksLead == \A d \in Disk : LinksOk(disk[d])

IInv == TypeOK /\ LinksLead /\ StageFits /\ \A c \in Config : ConfigFits(c)

-----------------------------------------------------------------------------
(* Manifests, trees and journals.                                           *)

LEMMA ManifestHasEntries ==
  ASSUME NEW m \in Manifest
  PROVE  IsManifest(m)
BY DEF Manifest, IsManifest

LEMMA AskedTypes ==
  ASSUME TypeOK, NEW c \in Config
  PROVE  /\ Was(c) \in Manifest /\ Want(c) \in Manifest /\ record[c] \in Manifest
         /\ IsManifest(Was(c)) /\ IsManifest(Want(c)) /\ IsManifest(record[c])
         /\ RootDir(c) \in Disk /\ Here(c) \in Tree
<1>1. asked.conf[c] \in [root : Root, was : Manifest, want : Manifest]
  BY ApplyAllAssumption DEF TypeOK
<1> QED BY <1>1, ApplyAllAssumption, ManifestHasEntries DEF TypeOK, Was, Want, RootDir, Here

LEMMA TreeSteps ==
  ASSUME NEW f \in Tree, LinksOk(f), NEW p
  PROVE  /\ Put(f, p, Absent) \in Tree /\ LinksOk(Put(f, p, Absent))
         /\ Put(f, p, Dir) \in Tree /\ LinksOk(Put(f, p, Dir))
         /\ Mkdirs(f, p) \in Tree /\ LinksOk(Mkdirs(f, p))
         /\ Clear(f, p) \in Tree /\ LinksOk(Clear(f, p))
         /\ \A d \in Src \cup Foreign :
              Put(f, p, LinkTo(d)) \in Tree /\ LinksOk(Put(f, p, LinkTo(d)))
<1>1. /\ Put(f, p, Absent) \in Tree /\ Put(f, p, Dir) \in Tree
      /\ Mkdirs(f, p) \in Tree /\ Clear(f, p) \in Tree
      /\ \A d \in Src \cup Foreign : Put(f, p, LinkTo(d)) \in Tree
  BY PutTree, MkdirsTree, ClearTree, NodeTypes DEF Val
<1>2. LinksOk(Put(f, p, Absent)) /\ LinksOk(Put(f, p, Dir))
  BY DEF LinksOk, Put, IsLink, Absent, Dir, Tree
<1>3. LinksOk(Mkdirs(f, p)) /\ LinksOk(Clear(f, p))
  BY DEF LinksOk, Mkdirs, Clear, IsLink, Absent, Dir, Tree
<1>4. \A d \in Src \cup Foreign : LinksOk(Put(f, p, LinkTo(d)))
  BY DEF LinksOk, Put, IsLink, LinkTo, Tree
<1> QED BY <1>1, <1>2, <1>3, <1>4

LEMMA WriteTypes ==
  ASSUME TypeOK, LinksLead, NEW c \in Config, NEW f \in Tree, LinksOk(f), Write(c, f)
  PROVE  disk' \in [Disk -> Tree] /\ LinksLead'
BY AskedTypes DEF TypeOK, LinksLead, LinksOk, Write

LEMMA JournalGrows ==
  ASSUME NEW c, NEW j \in Seq(Op), \A i \in DOMAIN j : OpFits(c, j[i]),
         NEW op \in Op, OpFits(c, op)
  PROVE  /\ Append(j, op) \in Seq(Op)
         /\ \A i \in DOMAIN Append(j, op) : OpFits(c, Append(j, op)[i])
<1>1. Append(j, op) \in Seq(Op) /\ DOMAIN Append(j, op) = 1 .. Len(j) + 1
  OBVIOUS
<1>2. \A i \in 1 .. Len(j) + 1 : Append(j, op)[i] = IF i = Len(j) + 1 THEN op ELSE j[i]
  OBVIOUS
<1>3. \A i \in 1 .. Len(j) + 1 : i = Len(j) + 1 \/ i \in DOMAIN j
  OBVIOUS
<1> HIDE DEF OpFits
<1> QED BY <1>1, <1>2, <1>3

LEMMA JournalPops ==
  ASSUME NEW c, NEW j \in Seq(Op), \A i \in DOMAIN j : OpFits(c, j[i]), j # << >>
  PROVE  /\ Front(j) \in Seq(Op) /\ \A i \in DOMAIN Front(j) : OpFits(c, Front(j)[i])
         /\ Last(j) \in Op /\ OpFits(c, Last(j))
<1>1. Len(j) \in Nat \ {0} /\ Len(j) \in DOMAIN j
  OBVIOUS
<1>2. Front(j) = SubSeq(j, 1, Len(j) - 1) /\ Last(j) = j[Len(j)]
  BY DEF Front, Last
<1>3. /\ Front(j) \in Seq(Op) /\ DOMAIN Front(j) = 1 .. Len(j) - 1
      /\ \A i \in 1 .. Len(j) - 1 : Front(j)[i] = j[i] /\ i \in DOMAIN j
  BY <1>1, <1>2
<1> QED BY <1>1, <1>2, <1>3

-----------------------------------------------------------------------------
(* The orchestration.                                                       *)

LEMMA InitIInv == Init => IInv
<1> SUFFICES ASSUME Init PROVE IInv
  OBVIOUS
<1>1. PICK conf \in {f \in [Config -> UNION Range(Candidates)] : \A c \in Config : f[c] \in Candidates[c]},
           override \in BOOLEAN, dryrun \in BOOLEAN, filter \in Filters, stray \in Strays :
        /\ asked = [conf |-> conf, override |-> override, filter |-> filter, dryrun |-> dryrun]
        /\ disk = [d \in Disk |-> Laid(Places(conf, override), d, stray)]
  BY Zenon DEF Init
<1> DEFINE at == Places(conf, override)
<1>2. /\ stage = "check" /\ queue = {} /\ report = NoReport /\ start = disk
      /\ built = [c \in Config |-> "none"] /\ outcome = [c \in Config |-> "none"]
      /\ run = [c \in Config |-> Idle] /\ excused = {} /\ faults = 0
      /\ record = [c \in Config |-> Was(c)]
  BY DEF Init, NoReport
<1>3. \A c \in Config : at[c].was \in Manifest /\ Was(c) = at[c].was
  BY <1>1, ApplyAllAssumption DEF Was, Places
<1>4. ASSUME NEW d \in Disk
      PROVE  disk[d] \in Tree /\ LinksOk(disk[d])
  <2>0. disk[d] = Laid(at, d, stray)
    BY <1>1
  <2> HIDE DEF at
  <2>1. ASSUME NEW p \in Path
        PROVE  disk[d][p] \in Node /\ (IsLink(disk[d], p) => disk[d][p].val \in Src \cup Foreign)
    <3> DEFINE links == {c \in Config : d = at[c].dir /\ p \in DOMAIN at[c].was}
    <3>2. CASE links # {}
      <4>1. PICK c \in links : disk[d][p] = LinkTo(at[c].was[p].src)
        BY <2>0, <3>2 DEF Laid
      <4>2. at[c].was[p].src \in Src
        BY <1>3, ManifestHasEntries, ManifestTypes
      <4> QED BY <4>1, <4>2, NodeTypes DEF Val, LinkTo
    <3>3. CASE links = {}
      <4>1. disk[d][p] \in {FileOf(Mine), Dir, Absent}
        BY <2>0, <3>3 DEF Laid
      <4> QED BY <4>1, NodeTypes, ApplyAllAssumption DEF Val, FileOf, Dir, Absent, IsLink
    <3> QED BY <3>2, <3>3
  <2>2. disk[d] = [p \in Path |-> disk[d][p]]
    BY <2>0 DEF Laid
  <2> QED BY <2>1, <2>2 DEF LinksOk, Tree
<1>5. disk \in [Disk -> Tree] /\ LinksLead
  BY <1>1, <1>4 DEF LinksLead
<1>6. Idle \in InHand /\ Idle.journal = << >> /\ Idle.pc = "idle" /\ Idle.mid = "none"
      /\ Idle.plan = NoPlan
  BY DEF Idle, InHand, NoPlan, Plan
<1>7. TypeOK
  <2>1. /\ \A c \in Config : asked.conf[c] \in Candidates[c]
        /\ asked.filter \in Filters /\ {asked.override, asked.dryrun} \subseteq BOOLEAN
    BY <1>1
  <2>2. record \in [Config -> Manifest] /\ {disk, start} \subseteq [Disk -> Tree]
    BY <1>2, <1>3, <1>5
  <2>3. report \in [applied : Nat, skipped : Nat, failed : Nat, code : 0 .. 2]
        /\ faults \in 0 .. MaxFaults
    BY <1>2, ApplyAllAssumption DEF NoReport
  <2> QED BY <1>2, <1>6, <2>1, <2>2, <2>3 DEF TypeOK
<1>8. StageFits
  BY <1>2 DEF StageFits
<1>9. \A c \in Config : ConfigFits(c)
  BY <1>2, <1>6 DEF ConfigFits, RunFits, RecordFits, HandFits, OutcomeFits, NoPlan
<1> QED BY <1>5, <1>7, <1>8, <1>9 DEF IInv

LEMMA StutterKeeps == IInv /\ UNCHANGED vars => IInv'
BY DEF IInv, TypeOK, LinksLead, LinksOk, StageFits, Clash, Selected, Bucket, Settled, Want, Was,
       ConfigFits, RunFits, RecordFits, HandFits, OutcomeFits, OpFits, vars, pool, ghosts

\* What is derived from the invocation alone stays.
LEMMA AskedStays ==
  ASSUME UNCHANGED asked
  PROVE  /\ Selected' = Selected /\ Clash' = Clash
         /\ \A c : Was(c)' = Was(c) /\ Want(c)' = Want(c) /\ RootDir(c)' = RootDir(c)
BY DEF Selected, Clash, Bucket, Was, Want, RootDir

LEMMA PreflightKeeps == IInv /\ Preflight => IInv'
<1> SUFFICES ASSUME IInv, Preflight PROVE IInv'
  OBVIOUS
<1>1. /\ stage = "check" /\ UNCHANGED <<asked, built, run, outcome, record, disk, start, excused, faults>>
      /\ stage' \in {"done", "build"}
  BY DEF Preflight, ghosts
<1>2. CASE stage' = "done"
  <2>1. /\ queue' = {} /\ report' = [NoReport EXCEPT !.code = IF Clash THEN 1 ELSE 0]
        /\ Selected = {} \/ Clash
    BY <1>1, <1>2 DEF Preflight, IInv, StageFits
  <2>2. TypeOK'
    BY <1>1, <1>2, <2>1 DEF IInv, TypeOK, NoReport
  <2>3. StageFits'
    BY <1>1, <1>2, <2>1, AskedStays DEF IInv, StageFits, NoReport
  <2>4. \A c \in Config : ConfigFits(c)'
    BY <1>1, <1>2, <2>1, AskedStays
       DEF IInv, ConfigFits, RunFits, RecordFits, HandFits, OutcomeFits, OpFits
  <2> QED BY <1>1, <2>2, <2>3, <2>4 DEF IInv, LinksLead, LinksOk
<1>3. CASE stage' = "build"
  <2>1. queue' = Selected /\ report' = report /\ ~Clash
    BY <1>1, <1>3 DEF Preflight
  <2>2. TypeOK'
    BY <1>1, <1>3, <2>1 DEF IInv, TypeOK, Selected
  <2>3. StageFits'
    BY <1>1, <1>3, <2>1, AskedStays DEF IInv, StageFits
  <2>4. \A c \in Config : ConfigFits(c)'
    BY <1>1, <1>3, <2>1, AskedStays
       DEF IInv, ConfigFits, RunFits, RecordFits, HandFits, OutcomeFits, OpFits
  <2> QED BY <1>1, <2>2, <2>3, <2>4 DEF IInv, LinksLead, LinksOk
<1> QED BY <1>1, <1>2, <1>3

LEMMA HandKeeps == IInv /\ Hand => IInv'
<1> SUFFICES ASSUME IInv, Hand PROVE IInv'
  OBVIOUS
<1>1. PICK c \in queue : /\ run' = [run EXCEPT ![c].pc = stage]
                         /\ queue' = queue \ {c}
  BY DEF Hand
<1>2. /\ stage \in {"build", "apply"} /\ c \in Config /\ c \in Selected
      /\ UNCHANGED <<asked, stage, built, outcome, record, disk, report, start, excused, faults>>
  BY DEF Hand, IInv, TypeOK, StageFits, ghosts
<1>3. /\ run[c] \in InHand /\ run'[c] = [run[c] EXCEPT !.pc = stage]
      /\ run'[c].pc = stage /\ run'[c].plan = run[c].plan /\ run'[c].mid = run[c].mid
      /\ run'[c].at = run[c].at /\ run'[c].journal = run[c].journal /\ run'[c] \in InHand
      /\ \A e \in Config \ {c} : run'[e] = run[e]
  BY <1>1, <1>2 DEF IInv, TypeOK, InHand
<1>4. outcome[c] = "none" /\ run[c].pc = "idle"
  BY <1>1, <1>2 DEF IInv, ConfigFits, RunFits, OutcomeFits
<1>5. TypeOK'
  BY <1>1, <1>2, <1>3 DEF IInv, TypeOK
<1>6. StageFits'
  BY <1>1, <1>2, <1>3, <1>4, AskedStays DEF IInv, StageFits
<1>7. ConfigFits(c)'
  BY <1>1, <1>2, <1>3, <1>4, AskedStays
     DEF IInv, ConfigFits, RunFits, RecordFits, HandFits, OutcomeFits, OpFits
<1>8. \A e \in Config \ {c} : ConfigFits(e)'
  BY <1>1, <1>2, <1>3, AskedStays
     DEF IInv, ConfigFits, RunFits, RecordFits, HandFits, OutcomeFits, OpFits
<1> QED BY <1>2, <1>5, <1>6, <1>7, <1>8 DEF IInv, LinksLead, LinksOk

LEMMA BeginApplyKeeps == IInv /\ BeginApply => IInv'
<1> SUFFICES ASSUME IInv, BeginApply PROVE IInv'
  OBVIOUS
<1>1. /\ stage = "build" /\ queue = {} /\ Busy = {} /\ stage' = "apply" /\ queue' = Selected
      /\ UNCHANGED <<asked, built, run, outcome, record, disk, report, start, excused, faults>>
  BY DEF BeginApply, AllReturned, ghosts
<1>2. \A c \in Config : run[c].pc = "idle" /\ outcome[c] = "none"
  BY <1>1 DEF Busy, IInv, ConfigFits, OutcomeFits
<1>3. TypeOK'
  BY <1>1 DEF IInv, TypeOK, Selected
<1>4. StageFits'
  BY <1>1, <1>2, AskedStays DEF IInv, StageFits, Selected
<1>5. \A c \in Config : ConfigFits(c)'
  BY <1>1, <1>2, AskedStays
     DEF IInv, ConfigFits, RunFits, RecordFits, HandFits, OutcomeFits, OpFits
<1> QED BY <1>1, <1>3, <1>4, <1>5 DEF IInv, LinksLead, LinksOk

LEMMA SettledCounts ==
  ASSUME NEW how
  PROVE  IsFiniteSet({c \in Selected : outcome[c] = how}) /\ Settled(how) \in Nat
<1>1. IsFiniteSet(Selected)
  BY ApplyAllAssumption, FS_Subset DEF Selected
<1> QED BY <1>1, FS_Subset, FS_CardinalityType DEF Settled

LEMMA ReportKeeps == IInv /\ Report => IInv'
<1> SUFFICES ASSUME IInv, Report PROVE IInv'
  OBVIOUS
<1>1. /\ stage = "apply" /\ queue = {} /\ Busy = {} /\ stage' = "done"
      /\ UNCHANGED <<asked, queue, built, run, outcome, record, disk, start, excused, faults>>
      /\ report' = [applied |-> Settled("applied"), skipped |-> Settled("skipped"),
                    failed |-> Settled("failed"),
                    code |-> ExitCode(Settled("failed"), Settled("conflict"))]
  BY DEF Report, AllReturned, ghosts
<1>2. \A c \in Config : run[c].pc = "idle"
  BY <1>1 DEF Busy
<1>3. TypeOK'
  <2>1. report' \in [applied : Nat, skipped : Nat, failed : Nat, code : 0 .. 2]
    <3>1. \A how : Settled(how) \in Nat
      BY SettledCounts
    <3>2. \A m, n : ExitCode(m, n) \in 0 .. 2
      BY DEF ExitCode
    <3> QED BY <1>1, <3>1, <3>2
  <2> QED BY <1>1, <2>1 DEF IInv, TypeOK
<1>4. StageFits'
  <2>1. \A how : Settled(how)' = Settled(how)
    BY <1>1, AskedStays DEF Settled
  <2> QED BY <1>1, <1>2, <2>1, AskedStays DEF IInv, StageFits, Selected
<1>5. \A c \in Config : ConfigFits(c)'
  BY <1>1, <1>2, AskedStays
     DEF IInv, ConfigFits, RunFits, RecordFits, HandFits, OutcomeFits, OpFits
<1> QED BY <1>1, <1>3, <1>4, <1>5 DEF IInv, LinksLead, LinksOk

-----------------------------------------------------------------------------
(* The work on one config.                                                  *)

\* A step of the work on c: what is left in its hands fits, and so does what it
\* settles, builds, records and writes.
LEMMA WorkKeeps ==
  ASSUME IInv, NEW c \in Config, run[c].pc # "idle", NEW r \in InHand,
         run' = [run EXCEPT ![c] = r],
         UNCHANGED <<asked, stage, queue, report, start>>,
         excused' \subseteq Config, faults' \in 0 .. MaxFaults,
         built' \in [Config -> {"none", "ok", "error"}],
         outcome' \in [Config -> {"none", "applied", "skipped", "failed", "planned", "conflict"}],
         record' \in [Config -> Manifest],
         \A e \in Config \ {c} :
           built'[e] = built[e] /\ outcome'[e] = outcome[e] /\ record'[e] = record[e],
         \/ disk' = disk
         \/ stage = "apply" /\ \E f \in Tree : LinksOk(f) /\ Write(c, f),
         ConfigFits(c)',
         stage = "build" => r.pc = "build" \/ built'[c] # "none",
         stage = "apply" => built'[c] = built[c] /\ (r.pc # "idle" \/ outcome'[c] # "none")
  PROVE  IInv'
<1>1. c \in Selected \ queue /\ stage \in {"build", "apply"}
  BY DEF IInv, ConfigFits, RunFits, InHand, TypeOK
<1>2. disk' \in [Disk -> Tree] /\ LinksLead'
  BY WriteTypes DEF IInv, TypeOK, LinksLead, LinksOk
<1>3. \A e \in Config : run'[e] = IF e = c THEN r ELSE run[e]
  BY DEF IInv, TypeOK
<1>4. run' \in [Config -> InHand]
  BY DEF IInv, TypeOK
<1>5. TypeOK'
  BY <1>2, <1>4 DEF IInv, TypeOK
<1>6. StageFits'
  <2>1. stage = "build" => disk' = start
    BY DEF IInv, StageFits
  <2>2. stage = "build" =>
          \A e \in Selected : e \in queue \/ run'[e].pc = "build" \/ built'[e] # "none"
    BY <1>3 DEF IInv, StageFits, Selected
  <2>3. stage = "apply" =>
          \A e \in Selected : /\ built'[e] # "none"
                              /\ e \in queue \/ run'[e].pc # "idle" \/ outcome'[e] # "none"
    BY <1>3 DEF IInv, StageFits, Selected
  <2> QED BY <1>1, <2>1, <2>2, <2>3, AskedStays DEF IInv, StageFits
<1>7. \A e \in Config \ {c} : ConfigFits(e)'
  BY <1>3, AskedStays
     DEF IInv, ConfigFits, RunFits, RecordFits, HandFits, OutcomeFits, OpFits
<1> QED BY <1>2, <1>5, <1>6, <1>7 DEF IInv

LEMMA IdleFits ==
  ASSUME NEW c
  PROVE  Idle \in InHand /\ Idle.pc = "idle" /\ HandFits(c, Idle)
BY DEF Idle, InHand, NoPlan, Plan, HandFits

LEMMA PrebuildKeeps ==
  ASSUME IInv, NEW c \in Config, Prebuild(c)
  PROVE  IInv'
<1>1. /\ run[c].pc = "build" /\ run' = [run EXCEPT ![c] = Idle] /\ stage = "build"
      /\ UNCHANGED <<asked, stage, queue, outcome, record, disk, report, start, faults>>
      /\ c \in Selected \ queue /\ outcome[c] = "none" /\ record[c] = Was(c)
  BY DEF Prebuild, IInv, ConfigFits, RunFits, RecordFits
<1>2. /\ built' \in [Config -> {"none", "ok", "error"}] /\ built'[c] \in {"ok", "error"}
      /\ \A e \in Config \ {c} : built'[e] = built[e]
      /\ excused' \subseteq Config
  BY DEF Prebuild, IInv, TypeOK
<1>3. run'[c] = Idle
  BY <1>1 DEF IInv, TypeOK
<1>4. ConfigFits(c)'
  BY <1>1, <1>2, <1>3, IdleFits, AskedStays
     DEF ConfigFits, RunFits, RecordFits, HandFits, OutcomeFits, OpFits
<1> QED BY <1>1, <1>2, <1>4, IdleFits, WorkKeeps DEF IInv, TypeOK

\* A config settles: its worker is free.
LEMMA SettleKeeps ==
  ASSUME IInv, NEW c \in Config,
         NEW how \in {"applied", "skipped", "failed", "planned", "conflict"},
         Settle(c, how), run[c].pc \notin {"idle", "build"},
         UNCHANGED <<asked, pool, record, disk, report, start>>,
         excused' \subseteq Config, faults' \in 0 .. MaxFaults,
         how # "failed" => built[c] = "ok",
         how \in {"applied", "skipped"} => ~asked.dryrun,
         how \in {"planned", "conflict"} => asked.dryrun,
         run[c].pc = "commit" => how \in {"applied", "failed"}
  PROVE  IInv'
<1>1. /\ run' = [run EXCEPT ![c] = Idle] /\ outcome' = [outcome EXCEPT ![c] = how]
      /\ stage = "apply" /\ c \in Selected \ queue /\ outcome[c] = "none"
      /\ UNCHANGED <<stage, queue, built>>
  BY DEF Settle, IInv, ConfigFits, RunFits, pool
<1>2. run'[c] = Idle /\ outcome'[c] = how /\ \A e \in Config \ {c} : outcome'[e] = outcome[e]
  BY <1>1 DEF IInv, TypeOK
<1>3. record'[c] = Was(c) \/ how \in {"applied", "failed"}
  BY <1>1 DEF IInv, ConfigFits, RecordFits
<1>4. ConfigFits(c)'
  BY <1>1, <1>2, <1>3, IdleFits, AskedStays
     DEF ConfigFits, RunFits, RecordFits, HandFits, OutcomeFits, OpFits
<1>5. outcome' \in [Config -> {"none", "applied", "skipped", "failed", "planned", "conflict"}]
  BY <1>1 DEF IInv, TypeOK
<1> QED BY <1>1, <1>2, <1>4, <1>5, IdleFits, WorkKeeps DEF IInv, TypeOK

\* A step between two settled points: the hands change, and the disk.
LEMMA MoveKeeps ==
  ASSUME IInv, NEW c \in Config, NEW r \in InHand, HandFits(c, r),
         run' = [run EXCEPT ![c] = r],
         run[c].pc \in {"apply", "stages", "commit", "unwind"},
         r.pc \in {"stages", "commit", "unwind"},
         built[c] = "ok", ~asked.dryrun,
         UNCHANGED <<asked, pool, outcome, report, start>>,
         excused' \subseteq Config, faults' \in 0 .. MaxFaults,
         \/ disk' = disk
         \/ \E f \in Tree : LinksOk(f) /\ Write(c, f),
         \/ record' = record
         \/ r.pc = "commit" /\ record' = [record EXCEPT ![c] = Want(c)],
         run[c].pc = "commit" => r.pc = "commit"
  PROVE  IInv'
<1>1. /\ stage = "apply" /\ c \in Selected \ queue /\ outcome[c] = "none"
      /\ UNCHANGED <<stage, queue, built>>
  BY DEF IInv, ConfigFits, RunFits, pool
<1>2. run'[c] = r
  BY DEF IInv, TypeOK
<1>3. /\ record' \in [Config -> Manifest]
      /\ \A e \in Config \ {c} : record'[e] = record[e]
      /\ record'[c] = Was(c) \/ r.pc = "commit"
  BY <1>1, AskedTypes DEF IInv, TypeOK, ConfigFits, RecordFits
<1>4. HandFits(c, run[c])'
  BY <1>2, AskedStays DEF HandFits, OpFits
<1>5. ConfigFits(c)'
  <2>1. RunFits(c)'
    BY <1>1, <1>2, AskedStays DEF RunFits
  <2>2. RecordFits(c)'
    <3>1. Was(c)' = Was(c) /\ run'[c].pc = r.pc
      BY <1>2, AskedStays
    <3> QED BY <1>3, <3>1 DEF RecordFits
  <2>3. OutcomeFits(c)'
    BY <1>1, AskedStays DEF OutcomeFits
  <2> QED BY <1>4, <2>1, <2>2, <2>3 DEF ConfigFits
<1> QED BY <1>1, <1>3, <1>5, WorkKeeps DEF IInv, TypeOK

\* Passing over, skipping, a dry run, a plan that is refused, and the end of an
\* unwind settle the config.
LEMMA SettlingKeeps ==
  ASSUME IInv, NEW c \in Config,
         PassOver(c) \/ SkipLocked(c) \/ DryPlan(c) \/ Unwound(c)
  PROVE  IInv'
<1>1. excused' \subseteq Config /\ faults' \in 0 .. MaxFaults
  BY DEF PassOver, SkipLocked, DryPlan, Unwound, Quiet, ghosts, IInv, TypeOK
<1>2. CASE PassOver(c)
  BY <1>1, <1>2, SettleKeeps DEF PassOver, Quiet
<1>3. CASE SkipLocked(c)
  BY <1>1, <1>3, SettleKeeps DEF SkipLocked, Ready, Built, Quiet
<1>4. CASE DryPlan(c)
  <2>1. /\ run[c].pc = "apply" /\ built[c] = "ok" /\ asked.dryrun
        /\ UNCHANGED <<asked, pool, record, disk, report, start>>
    BY <1>4 DEF DryPlan, Ready, Built, Quiet
  <2>2. PICK how \in {"conflict", "planned", "failed"} : Settle(c, how)
    BY <1>4 DEF DryPlan
  <2> QED BY <1>1, <2>1, <2>2, SettleKeeps
<1>5. CASE Unwound(c)
  BY <1>1, <1>5, SettleKeeps DEF Unwound, ghosts
<1> QED BY <1>2, <1>3, <1>4, <1>5

LEMMA StartKeeps ==
  ASSUME IInv, NEW c \in Config, Start(c)
  PROVE  IInv'
<1>1. /\ run[c].pc = "apply" /\ built[c] = "ok" /\ ~asked.dryrun /\ c \in Selected
      /\ UNCHANGED <<asked, pool, record, disk, report, start, faults>>
      /\ outcome[c] = "none" /\ record[c] = Was(c) /\ run[c] \in InHand
  BY DEF Start, Ready, Built, Quiet, IInv, ConfigFits, RunFits, RecordFits, TypeOK
<1>2. excused' \subseteq Config /\ faults' \in 0 .. MaxFaults
  BY <1>1 DEF Start, IInv, TypeOK
<1>3. CASE Settle(c, "failed")
  BY <1>1, <1>2, <1>3, SettleKeeps
<1>4. CASE run' = [run EXCEPT ![c].pc = "stages", ![c].plan = PlanOf(c)] /\ UNCHANGED outcome
  <2> DEFINE r == [run[c] EXCEPT !.pc = "stages", !.plan = PlanOf(c)]
  <2>1. /\ PlanOf(c) \in Plan
        /\ PlanOf(c).new \cup PlanOf(c).replace \cup PlanOf(c).foreign \subseteq DOMAIN Want(c)
        /\ PlanOf(c).unlink \cup PlanOf(c).remove \subseteq DOMAIN Was(c)
    <3> DEFINE f == disk[RootDir(c)]
    <3>1. f \in Tree /\ IsManifest(record[c]) /\ IsManifest(Want(c)) /\ FALSE \in BOOLEAN
      BY AskedTypes DEF Here, IInv
    <3>2. PlanOf(c) = Compute(f, record[c], Want(c), FALSE)
      BY DEF PlanOf
    <3> HIDE DEF f
    <3>3. /\ PlanOf(c) \in Plan
          /\ PlanOf(c).new \cup PlanOf(c).replace \cup PlanOf(c).foreign \subseteq DOMAIN Want(c)
      BY <3>1, <3>2, ComputeType
    <3>4. \A q \in PlanOf(c).unlink \cup PlanOf(c).remove : RecordedLink(f, record[c], q)
      BY <3>1, <3>2, RemovesOnlyRecorded
    <3> QED BY <1>1, <3>3, <3>4 DEF RecordedLink
  <2>2. run' = [run EXCEPT ![c] = r]
    BY <1>1, <1>4 DEF IInv, TypeOK
  <2>3. /\ r \in InHand /\ r.pc = "stages" /\ r.plan = PlanOf(c) /\ r.mid = run[c].mid
        /\ r.at = run[c].at /\ r.journal = run[c].journal
    BY <1>1, <2>1 DEF InHand
  <2> HIDE DEF r
  <2>4. HandFits(c, r)
    BY <2>1, <2>3 DEF HandFits, IInv, ConfigFits
  <2>5. /\ UNCHANGED <<asked, pool, outcome, report, start>> /\ record' = record /\ disk' = disk
        /\ r.pc \in {"stages", "commit", "unwind"} /\ run[c].pc # "commit"
        /\ run[c].pc \in {"apply", "stages", "commit", "unwind"} /\ r \in InHand
    BY <1>1, <1>4, <2>3
  <2> QED BY <1>1, <1>2, <2>2, <2>4, <2>5, MoveKeeps
<1> QED BY <1>3, <1>4 DEF Start

\* A call of a stage, or of the unwind.
LEMMA CallKeeps ==
  ASSUME IInv, NEW c \in Config, run[c].pc \in {"stages", "unwind"},
         NEW r \in InHand, r.pc = run[c].pc, HandFits(c, r), Does(c, r),
         \/ disk' = disk
         \/ \E f \in Tree : LinksOk(f) /\ Write(c, f)
  PROVE  IInv'
<1>1. /\ run' = [run EXCEPT ![c] = r] /\ record' = record
      /\ UNCHANGED <<asked, pool, outcome, report, start>>
      /\ excused' \subseteq Config /\ faults' \in 0 .. MaxFaults
  BY DEF Does, ghosts, IInv, TypeOK
<1>2. built[c] = "ok" /\ ~asked.dryrun
  BY DEF IInv, ConfigFits, RunFits
<1> QED BY <1>1, <1>2, MoveKeeps

\* What a call of a stage finds in its hands.
LEMMA InHandNow ==
  ASSUME IInv, NEW c \in Config
  PROVE  /\ run[c] \in InHand /\ run[c].plan \in Plan /\ run[c].at \in Path \cup {<< >>}
         /\ run[c].journal \in Seq(Op) /\ HandFits(c, run[c])
         /\ run[c].mid \in {"none", "dropped", "made", "unlinked", "stale", "prune", "ancestor"}
         /\ \A i \in DOMAIN run[c].journal : OpFits(c, run[c].journal[i])
         /\ Here(c) \in Tree /\ LinksOk(Here(c))
         /\ run[c].pc = "stages" => record[c] = Was(c)
<1>1. run[c] \in InHand /\ HandFits(c, run[c]) /\ RunFits(c) /\ RecordFits(c)
  BY DEF IInv, TypeOK, ConfigFits
<1>2. run[c].pc = "stages" => record[c] = Was(c)
  BY <1>1 DEF RunFits, RecordFits
<1>3. Here(c) \in Tree /\ LinksOk(Here(c))
  BY AskedTypes DEF IInv, LinksLead, Here
<1> QED BY <1>1, <1>2, <1>3 DEF InHand, HandFits

\* What a manifest of c may place, and a journal may restore.
LEMMA EntryTypes ==
  ASSUME IInv, NEW c \in Config
  PROVE  /\ DOMAIN Was(c) \subseteq Path /\ DOMAIN Want(c) \subseteq Path
         /\ \A t \in DOMAIN Was(c) : Was(c)[t].src \in Src
         /\ \A t \in DOMAIN Want(c) : Want(c)[t].src \in Src
BY AskedTypes, ManifestTypes DEF IInv

LEMMA OpTypes ==
  ASSUME NEW p \in Path, NEW d \in Src \cup Foreign
  PROVE  /\ [kind |-> "unlinkNew", path |-> p, dest |-> None] \in Op
         /\ [kind |-> "mkdir", path |-> p, dest |-> None] \in Op
         /\ [kind |-> "relinkOld", path |-> p, dest |-> d] \in Op
BY DEF Op

LEMMA PreRemoveKeeps ==
  ASSUME IInv, NEW c \in Config, NEW p,
         VerifyDropped(c, p) \/ UnlinkDropped(c) \/ RmdirMigrated(c, p)
  PROVE  IInv'
<1> DEFINE h == run[c]
<1>1. CASE VerifyDropped(c, p)
  <2> DEFINE r == Step(c, "dropped", p)
  <2>1. h.pc = "stages" /\ p \in h.plan.unlink /\ Does(c, r) /\ disk' = disk
    BY <1>1 DEF VerifyDropped, AtStep
  <2>2. p \in DOMAIN Was(c) /\ p \in Path
    BY <2>1, InHandNow, EntryTypes DEF HandFits
  <2>3. /\ r \in InHand /\ r.pc = h.pc /\ r.mid = "dropped" /\ r.at = p
        /\ r.plan = h.plan /\ r.journal = h.journal
    BY <2>2, InHandNow DEF Step, InHand
  <2> HIDE DEF r
  <2>4. HandFits(c, r)
    BY <2>2, <2>3, InHandNow DEF HandFits
  <2> QED BY <2>1, <2>3, <2>4, CallKeeps
<1>2. CASE UnlinkDropped(c)
  <2> DEFINE q == h.at
             op == [kind |-> "relinkOld", path |-> q, dest |-> record[c][q].src]
             r == [h EXCEPT !.mid = "none", !.plan = Uncleared(c, q),
                     !.journal = Append(h.journal, op)]
  <2>1. h.pc = "stages" /\ h.mid = "dropped" /\ Write(c, Put(Here(c), q, Absent)) /\ Does(c, r)
    BY <1>2 DEF UnlinkDropped, AtStep, Journaled
  <2>2. q \in DOMAIN Was(c) /\ record[c] = Was(c)
    BY <2>1, InHandNow DEF HandFits
  <2>3. op \in Op /\ OpFits(c, op)
    BY <2>2, EntryTypes, OpTypes DEF OpFits
  <2> HIDE DEF op
  <2>4. /\ Append(h.journal, op) \in Seq(Op)
        /\ \A i \in DOMAIN Append(h.journal, op) : OpFits(c, Append(h.journal, op)[i])
    BY <2>3, InHandNow, JournalGrows
  <2>5. Uncleared(c, q) \in Plan
    BY InHandNow, PlanShrinks DEF Uncleared
  <2>6. /\ r \in InHand /\ r.pc = h.pc /\ r.mid = "none" /\ r.at = q
        /\ r.plan = Uncleared(c, q) /\ r.journal = Append(h.journal, op)
    BY <2>4, <2>5, InHandNow DEF InHand
  <2>7. /\ Uncleared(c, q).new = h.plan.new /\ Uncleared(c, q).replace = h.plan.replace
        /\ Uncleared(c, q).foreign = h.plan.foreign /\ Uncleared(c, q).remove = h.plan.remove
        /\ Uncleared(c, q).unlink \subseteq h.plan.unlink
    BY InHandNow DEF Uncleared, Plan
  <2>8. \E f \in Tree : LinksOk(f) /\ Write(c, f)
    BY <2>1, InHandNow, TreeSteps
  <2> HIDE DEF r
  <2>9. HandFits(c, r)
    BY <2>4, <2>6, <2>7, InHandNow DEF HandFits
  <2> QED BY <2>1, <2>6, <2>8, <2>9, CallKeeps
<1>3. CASE RmdirMigrated(c, p)
  <2> DEFINE op == [kind |-> "mkdir", path |-> p, dest |-> None]
  <2>1. Uncleared(c, p) \in Plan
    BY InHandNow, PlanShrinks DEF Uncleared
  <2>2. /\ Uncleared(c, p).new = h.plan.new /\ Uncleared(c, p).replace = h.plan.replace
        /\ Uncleared(c, p).foreign = h.plan.foreign /\ Uncleared(c, p).remove = h.plan.remove
        /\ Uncleared(c, p).unlink \subseteq h.plan.unlink
    BY InHandNow DEF Uncleared, Plan
  <2>3. h.pc = "stages" /\ p \in Path
    BY <1>3, InHandNow DEF RmdirMigrated, AtStep, Plan
  <2>4. CASE Exists(Here(c), p)
    <3> DEFINE r == [h EXCEPT !.plan = Uncleared(c, p), !.journal = Append(h.journal, op)]
    <3>1. Write(c, Put(Here(c), p, Absent)) /\ Does(c, r)
      BY <1>3, <2>4 DEF RmdirMigrated, Journaled
    <3>2. op \in Op /\ OpFits(c, op)
      BY <2>3, OpTypes DEF OpFits, Op
    <3> HIDE DEF op
    <3>3. /\ Append(h.journal, op) \in Seq(Op)
          /\ \A i \in DOMAIN Append(h.journal, op) : OpFits(c, Append(h.journal, op)[i])
      BY <3>2, InHandNow, JournalGrows
    <3>4. /\ r \in InHand /\ r.pc = h.pc /\ r.mid = h.mid /\ r.at = h.at
          /\ r.plan = Uncleared(c, p) /\ r.journal = Append(h.journal, op)
      BY <2>1, <3>3, InHandNow DEF InHand
    <3>5. \E f \in Tree : LinksOk(f) /\ Write(c, f)
      BY <3>1, InHandNow, TreeSteps
    <3> HIDE DEF r
    <3>6. HandFits(c, r)
      BY <2>2, <3>3, <3>4, InHandNow DEF HandFits
    <3> QED BY <2>3, <3>1, <3>4, <3>5, <3>6, CallKeeps
  <2>5. CASE ~Exists(Here(c), p)
    <3> DEFINE r == [h EXCEPT !.plan = Uncleared(c, p)]
    <3>1. disk' = disk /\ Does(c, r)
      BY <1>3, <2>5 DEF RmdirMigrated
    <3>2. /\ r \in InHand /\ r.pc = h.pc /\ r.mid = h.mid /\ r.at = h.at
          /\ r.plan = Uncleared(c, p) /\ r.journal = h.journal
      BY <2>1, InHandNow DEF InHand
    <3> HIDE DEF r
    <3>3. HandFits(c, r)
      BY <2>2, <3>2, InHandNow DEF HandFits
    <3> QED BY <2>3, <3>1, <3>2, <3>3, CallKeeps
  <2> QED BY <2>4, <2>5
<1> QED BY <1>1, <1>2, <1>3

\* A call that takes a link away or makes one journals its inverse first.
LEMMA JournaledFits ==
  ASSUME IInv, NEW c \in Config, NEW op \in Op, OpFits(c, op)
  PROVE  /\ Append(run[c].journal, op) \in Seq(Op)
         /\ \A i \in DOMAIN Append(run[c].journal, op) :
              OpFits(c, Append(run[c].journal, op)[i])
<1> DEFINE j == run[c].journal
<1>1. j \in Seq(Op) /\ \A i \in DOMAIN j : OpFits(c, j[i])
  BY InHandNow
<1> HIDE DEF j
<1>2. /\ Append(j, op) \in Seq(Op)
      /\ \A i \in DOMAIN Append(j, op) : OpFits(c, Append(j, op)[i])
  BY <1>1, JournalGrows
<1> QED BY <1>2 DEF j

LEMMA MakeParentsKeeps ==
  ASSUME IInv, NEW c \in Config, NEW t \in Target, MakeParents(c, t)
  PROVE  IInv'
<1> DEFINE h == run[c]
           r == Step(c, "made", t)
<1>1. h.pc = "stages" /\ t \in ToPlace(c) /\ Write(c, Mkdirs(Here(c), t)) /\ Does(c, r)
  BY DEF MakeParents, AtStep
<1>2. t \in DOMAIN Want(c) /\ t \in Path
  BY <1>1, InHandNow, EntryTypes DEF HandFits, ToPlace
<1>3. /\ r \in InHand /\ r.pc = h.pc /\ r.mid = "made" /\ r.at = t
      /\ r.plan = h.plan /\ r.journal = h.journal
  BY <1>2, InHandNow DEF Step, InHand
<1> HIDE DEF r
<1>4. HandFits(c, r)
  BY <1>2, <1>3, InHandNow DEF HandFits
<1>5. \E f \in Tree : LinksOk(f) /\ Write(c, f)
  BY <1>1, InHandNow, TreeSteps
<1> QED BY <1>1, <1>3, <1>4, <1>5, CallKeeps

LEMMA PlacedFits ==
  ASSUME IInv, NEW c \in Config, NEW t
  PROVE  /\ Placed(c, t) \in Plan
         /\ Placed(c, t).new \cup Placed(c, t).replace \cup Placed(c, t).foreign \subseteq DOMAIN Want(c)
         /\ Placed(c, t).unlink \cup Placed(c, t).remove \subseteq DOMAIN Was(c)
<1>1. Placed(c, t) \in Plan
  BY InHandNow, PlanShrinks DEF Placed
<1> QED BY <1>1, InHandNow DEF Placed, HandFits, Plan

LEMMA PlaceKeeps ==
  ASSUME IInv, NEW c \in Config, SymlinkNew(c) \/ Unlink(c) \/ Resymlink(c)
  PROVE  IInv'
<1> DEFINE h == run[c]
           t == h.at
<1>1. /\ h.pc = "stages" /\ h.mid \in {"made", "unlinked"}
      /\ t \in DOMAIN Want(c) /\ t \in Path /\ Want(c)[t].src \in Src
  BY InHandNow, EntryTypes DEF SymlinkNew, Unlink, Resymlink, AtStep, HandFits
<1>2. CASE SymlinkNew(c)
  <2> DEFINE op == [kind |-> "unlinkNew", path |-> t, dest |-> None]
             r == [h EXCEPT !.mid = "none", !.plan = Placed(c, t),
                            !.journal = Append(h.journal, op)]
  <2>1. Write(c, Put(Here(c), t, LinkTo(Want(c)[t].src))) /\ Does(c, r)
    BY <1>2 DEF SymlinkNew, Journaled
  <2>2. op \in Op /\ OpFits(c, op)
    BY <1>1, OpTypes DEF OpFits, Op
  <2> HIDE DEF op
  <2>3. /\ r \in InHand /\ r.pc = h.pc /\ r.mid = "none" /\ r.at = h.at
        /\ r.plan = Placed(c, t) /\ r.journal = Append(h.journal, op)
    BY <2>2, InHandNow, PlacedFits, JournaledFits DEF InHand
  <2> HIDE DEF r
  <2>4. HandFits(c, r)
    BY <2>2, <2>3, PlacedFits, JournaledFits DEF HandFits
  <2>5. \E f \in Tree : LinksOk(f) /\ Write(c, f)
    BY <1>1, <2>1, InHandNow, TreeSteps
  <2> QED BY <1>1, <2>1, <2>3, <2>4, <2>5, CallKeeps
<1>3. CASE Unlink(c)
  <2> DEFINE op == [kind |-> "relinkOld", path |-> t, dest |-> Here(c)[t].val]
             r == [h EXCEPT !.mid = "unlinked", !.journal = Append(h.journal, op)]
  <2>1. Write(c, Put(Here(c), t, Absent)) /\ Does(c, r) /\ IsLink(Here(c), t)
    BY <1>3 DEF Unlink, Journaled
  <2>2. Here(c)[t].val \in Src \cup Foreign
    BY <1>1, <2>1, InHandNow DEF LinksOk
  <2>3. op \in Op /\ OpFits(c, op)
    BY <1>1, <2>2, OpTypes DEF OpFits
  <2> HIDE DEF op
  <2>4. /\ r \in InHand /\ r.pc = h.pc /\ r.mid = "unlinked" /\ r.at = h.at
        /\ r.plan = h.plan /\ r.journal = Append(h.journal, op)
    BY <2>3, InHandNow, JournaledFits DEF InHand
  <2> HIDE DEF r
  <2>5. HandFits(c, r)
    BY <1>1, <2>3, <2>4, InHandNow, JournaledFits DEF HandFits
  <2>6. \E f \in Tree : LinksOk(f) /\ Write(c, f)
    BY <2>1, InHandNow, TreeSteps
  <2> QED BY <1>1, <2>1, <2>4, <2>5, <2>6, CallKeeps
<1>4. CASE Resymlink(c)
  <2> DEFINE r == [h EXCEPT !.mid = "none", !.plan = Placed(c, t)]
  <2>1. Write(c, Put(Here(c), t, LinkTo(Want(c)[t].src))) /\ Does(c, r)
    BY <1>4 DEF Resymlink
  <2>2. /\ r \in InHand /\ r.pc = h.pc /\ r.mid = "none" /\ r.at = h.at
        /\ r.plan = Placed(c, t) /\ r.journal = h.journal
    BY InHandNow, PlacedFits DEF InHand
  <2> HIDE DEF r
  <2>3. HandFits(c, r)
    BY <2>2, InHandNow, PlacedFits DEF HandFits
  <2>4. \E f \in Tree : LinksOk(f) /\ Write(c, f)
    BY <1>1, <2>1, InHandNow, TreeSteps
  <2> QED BY <1>1, <2>1, <2>2, <2>3, <2>4, CallKeeps
<1> QED BY <1>2, <1>3, <1>4

LEMMA UnstaleFits ==
  ASSUME IInv, NEW c \in Config, NEW t
  PROVE  /\ Unstale(c, t) \in Plan
         /\ Unstale(c, t).new \cup Unstale(c, t).replace \cup Unstale(c, t).foreign \subseteq DOMAIN Want(c)
         /\ Unstale(c, t).unlink \cup Unstale(c, t).remove \subseteq DOMAIN Was(c)
<1>1. Unstale(c, t) \in Plan
  BY InHandNow, PlanShrinks DEF Unstale
<1> QED BY <1>1, InHandNow DEF Unstale, HandFits, Plan

LEMMA StaleKeeps ==
  ASSUME IInv, NEW c \in Config, NEW t, Reverify(c, t) \/ RemoveStale(c)
  PROVE  IInv'
<1> DEFINE h == run[c]
<1>1. CASE Reverify(c, t)
  <2>1. h.pc = "stages" /\ t \in h.plan.remove /\ disk' = disk
    BY <1>1 DEF Reverify, AtStep
  <2>2. t \in DOMAIN Was(c) /\ t \in Path
    BY <2>1, InHandNow, EntryTypes DEF HandFits
  <2>3. CASE Does(c, Step(c, "stale", t))
    <3> DEFINE r == Step(c, "stale", t)
    <3>1. /\ r \in InHand /\ r.pc = h.pc /\ r.mid = "stale" /\ r.at = t
          /\ r.plan = h.plan /\ r.journal = h.journal
      BY <2>2, InHandNow DEF Step, InHand
    <3> HIDE DEF r
    <3>2. HandFits(c, r)
      BY <2>2, <3>1, InHandNow DEF HandFits
    <3> QED BY <2>1, <2>3, <3>1, <3>2, CallKeeps DEF r
  <2>4. CASE Does(c, [h EXCEPT !.plan = Unstale(c, t)])
    <3> DEFINE r == [h EXCEPT !.plan = Unstale(c, t)]
    <3>1. /\ r \in InHand /\ r.pc = h.pc /\ r.mid = h.mid /\ r.at = h.at
          /\ r.plan = Unstale(c, t) /\ r.journal = h.journal
      BY UnstaleFits, InHandNow DEF InHand
    <3> HIDE DEF r
    <3>2. HandFits(c, r)
      BY <3>1, UnstaleFits, InHandNow DEF HandFits
    <3> QED BY <2>1, <2>4, <3>1, <3>2, CallKeeps DEF r
  <2> QED BY <1>1, <2>3, <2>4 DEF Reverify
<1>2. CASE RemoveStale(c)
  <2> DEFINE q == h.at
             op == [kind |-> "relinkOld", path |-> q, dest |-> record[c][q].src]
             r == [h EXCEPT !.mid = "prune", !.plan = Unstale(c, q),
                            !.journal = Append(h.journal, op)]
  <2>1. h.pc = "stages" /\ h.mid = "stale" /\ Write(c, Put(Here(c), q, Absent)) /\ Does(c, r)
    BY <1>2 DEF RemoveStale, AtStep, Journaled
  <2>2. q \in DOMAIN Was(c) /\ q \in Path /\ record[c] = Was(c)
    BY <2>1, InHandNow, EntryTypes DEF HandFits
  <2>3. op \in Op /\ OpFits(c, op)
    BY <2>2, EntryTypes, OpTypes DEF OpFits
  <2> HIDE DEF op
  <2>4. /\ r \in InHand /\ r.pc = h.pc /\ r.mid = "prune" /\ r.at = q
        /\ r.plan = Unstale(c, q) /\ r.journal = Append(h.journal, op)
    BY <2>3, InHandNow, UnstaleFits, JournaledFits DEF InHand
  <2> HIDE DEF r
  <2>5. HandFits(c, r)
    BY <2>2, <2>3, <2>4, UnstaleFits, JournaledFits DEF HandFits
  <2>6. \E f \in Tree : LinksOk(f) /\ Write(c, f)
    BY <2>1, InHandNow, TreeSteps
  <2> QED BY <2>1, <2>4, <2>5, <2>6, CallKeeps
<1> QED BY <1>1, <1>2

LEMMA AncestorKeeps ==
  ASSUME IInv, NEW c \in Config, CheckAncestor(c) \/ PruneAncestor(c)
  PROVE  IInv'
<1> DEFINE h == run[c]
<1>1. ASSUME NEW m \in {"none", "ancestor"}, NEW up \in Path \cup {<< >>},
             h.pc = "stages", m = "ancestor" => up \in Path, disk' = disk,
             Does(c, Step(c, m, up))
      PROVE  IInv'
  <2> DEFINE r == Step(c, m, up)
  <2>1. /\ r \in InHand /\ r.pc = h.pc /\ r.mid = m /\ r.at = up
        /\ r.plan = h.plan /\ r.journal = h.journal
    BY InHandNow DEF Step, InHand
  <2> HIDE DEF r
  <2>2. HandFits(c, r)
    BY <1>1, <2>1, InHandNow DEF HandFits
  <2> QED BY <1>1, <2>1, <2>2, CallKeeps DEF r
<1>2. CASE CheckAncestor(c)
  <2>1. h.pc = "stages" /\ disk' = disk
    BY <1>2 DEF CheckAncestor, AtStep
  <2>2. \/ Front(h.at) \in Path /\ Does(c, Step(c, "ancestor", Front(h.at)))
        \/ Does(c, Step(c, "none", << >>))
    BY <1>2 DEF CheckAncestor
  <2> QED BY <1>1, <2>1, <2>2
<1>3. CASE PruneAncestor(c)
  <2> DEFINE up == h.at
             op == [kind |-> "mkdir", path |-> up, dest |-> None]
             r == [h EXCEPT !.mid = "prune", !.journal = Append(h.journal, op)]
  <2>1. h.pc = "stages" /\ h.mid = "ancestor" /\ up \in Path
    BY <1>3, InHandNow DEF PruneAncestor, AtStep, HandFits
  <2>2. \/ Write(c, Clear(Here(c), up)) /\ Does(c, r)
        \/ disk' = disk /\ Does(c, Step(c, "none", << >>))
    BY <1>3 DEF PruneAncestor, Journaled
  <2>3. op \in Op /\ OpFits(c, op)
    BY <2>1, OpTypes DEF OpFits, Op
  <2> HIDE DEF op
  <2>4. /\ r \in InHand /\ r.pc = h.pc /\ r.mid = "prune" /\ r.at = up
        /\ r.plan = h.plan /\ r.journal = Append(h.journal, op)
    BY <2>3, InHandNow, JournaledFits DEF InHand
  <2> HIDE DEF r
  <2>5. HandFits(c, r)
    BY <2>1, <2>3, <2>4, InHandNow, JournaledFits DEF HandFits
  <2>6. Write(c, Clear(Here(c), up)) => \E f \in Tree : LinksOk(f) /\ Write(c, f)
    BY InHandNow, TreeSteps
  <2>7. CASE Write(c, Clear(Here(c), up)) /\ Does(c, r)
    BY <2>1, <2>4, <2>5, <2>6, <2>7, CallKeeps
  <2> QED BY <1>1, <2>1, <2>2, <2>7
<1> QED BY <1>2, <1>3

\* A stage fails, or the record is written: the hands stay as they are.
LEMMA LeaveStageKeeps ==
  ASSUME IInv, NEW c \in Config, Fail(c) \/ Record(c)
  PROVE  IInv'
<1> DEFINE h == run[c]
<1>1. h.pc = "stages" /\ UNCHANGED <<asked, pool, outcome, disk, report, start>>
  BY DEF Fail, Record, AtStep, ghosts
<1>2. excused' \subseteq Config /\ faults' \in 0 .. MaxFaults
  BY ApplyAllAssumption DEF Fail, Record, ghosts, IInv, TypeOK
<1>3. PICK s \in {"unwind", "commit"} :
        /\ run' = [run EXCEPT ![c].pc = s]
        /\ \/ record' = record
           \/ s = "commit" /\ record' = [record EXCEPT ![c] = Want(c)]
  BY DEF Fail, Record, Unwind
<1> DEFINE r == [h EXCEPT !.pc = s]
<1>4. /\ r \in InHand /\ r.pc = s /\ r.mid = h.mid /\ r.at = h.at
      /\ r.plan = h.plan /\ r.journal = h.journal
  BY InHandNow DEF InHand
<1>5. run' = [run EXCEPT ![c] = r]
  BY <1>3 DEF IInv, TypeOK
<1> HIDE DEF r
<1>6. HandFits(c, r)
  BY <1>4, InHandNow DEF HandFits
<1>7. built[c] = "ok" /\ ~asked.dryrun
  BY <1>1 DEF IInv, ConfigFits, RunFits
<1> QED BY <1>1, <1>2, <1>3, <1>4, <1>5, <1>6, <1>7, MoveKeeps

LEMMA CommitKeeps ==
  ASSUME IInv, NEW c \in Config, Commit(c)
  PROVE  IInv'
<1>1. /\ run[c].pc = "commit" /\ UNCHANGED <<asked, pool, record, disk, report, start>>
      /\ \E how \in {"applied", "failed"} : Settle(c, how)
  BY DEF Commit
<1>2. excused' \subseteq Config /\ faults' \in 0 .. MaxFaults
  <2>1. /\ excused \subseteq Config /\ faults \in 0 .. MaxFaults /\ MaxFaults \in Nat
        /\ UNCHANGED <<excused, faults>>
           \/ (faults < MaxFaults /\ faults' = faults + 1 /\ excused' = excused \cup {c})
    BY ApplyAllAssumption, Zenon DEF Commit, IInv, TypeOK
  <2> QED BY <2>1
<1>3. built[c] = "ok" /\ ~asked.dryrun
  BY <1>1 DEF IInv, ConfigFits, RunFits
<1> QED BY <1>1, <1>2, <1>3, SettleKeeps

\* What an inverse makes of a tree.
LEMMA RestoredTypes ==
  ASSUME NEW f \in Tree, LinksOk(f), NEW op \in Op
  PROVE  Restored(f, op) \in Tree /\ LinksOk(Restored(f, op))
<1>1. op.kind \in {"unlinkNew", "mkdir", "relinkOld"}
      /\ (op.kind = "relinkOld" => op.dest \in Src \cup Foreign)
  BY DEF Op
<1>2. \/ Restored(f, op) = f
      \/ Restored(f, op) = Put(f, op.path, Absent)
      \/ Restored(f, op) = Put(f, op.path, Dir)
      \/ op.kind = "relinkOld" /\ Restored(f, op) = Put(f, op.path, LinkTo(op.dest))
  BY <1>1 DEF Restored
<1> QED BY <1>1, <1>2, TreeSteps

LEMMA UndoKeeps ==
  ASSUME IInv, NEW c \in Config, Undo(c)
  PROVE  IInv'
<1> DEFINE h == run[c]
           op == Last(h.journal)
           r == [h EXCEPT !.journal = Front(h.journal)]
<1>1. /\ h.pc = "unwind" /\ h.journal # << >> /\ Write(c, Restored(Here(c), op))
      /\ run' = [run EXCEPT ![c].journal = Front(h.journal)]
      /\ UNCHANGED <<asked, pool, outcome, record, report, ghosts>>
  BY DEF Undo, Undone, Unwinding
<1>2. /\ op \in Op /\ Front(h.journal) \in Seq(Op)
      /\ \A i \in DOMAIN Front(h.journal) : OpFits(c, Front(h.journal)[i])
  <2> DEFINE j == h.journal
  <2>1. j \in Seq(Op) /\ j # << >> /\ \A i \in DOMAIN j : OpFits(c, j[i])
    BY <1>1, InHandNow
  <2> HIDE DEF j
  <2>2. /\ Last(j) \in Op /\ Front(j) \in Seq(Op)
        /\ \A i \in DOMAIN Front(j) : OpFits(c, Front(j)[i])
    BY <2>1, JournalPops
  <2> QED BY <2>2 DEF j
<1>3. /\ r \in InHand /\ r.pc = h.pc /\ r.mid = h.mid /\ r.at = h.at
      /\ r.plan = h.plan /\ r.journal = Front(h.journal)
  BY <1>2, InHandNow DEF InHand
<1>4. Does(c, r)
  BY <1>1 DEF Does, IInv, TypeOK
<1> HIDE DEF r
<1>5. HandFits(c, r)
  BY <1>2, <1>3, InHandNow DEF HandFits
<1>6. \E f \in Tree : LinksOk(f) /\ Write(c, f)
  <2> DEFINE f == Restored(Here(c), op)
  <2>1. f \in Tree /\ LinksOk(f)
    <3> HIDE DEF op
    <3> QED BY <1>2, InHandNow, RestoredTypes
  <2> QED BY <1>1, <2>1
<1> QED BY <1>1, <1>3, <1>4, <1>5, <1>6, CallKeeps

LEMMA NextIInv == IInv /\ [Next]_vars => IInv'
BY StutterKeeps, PreflightKeeps, HandKeeps, BeginApplyKeeps, ReportKeeps, PrebuildKeeps,
   SettlingKeeps, StartKeeps, PreRemoveKeeps, MakeParentsKeeps, PlaceKeeps, StaleKeeps,
   AncestorKeeps, LeaveStageKeeps, CommitKeeps, UndoKeeps
   DEF Next, Orchestrate, Work, Exited

LEMMA SpecIInv == Spec => []IInv
BY InitIInv, NextIInv, PTL DEF Spec

-----------------------------------------------------------------------------
\* Every variable keeps to its type, for any configs, any number of workers and
\* any interleaving of their stages.
THEOREM TypeCorrect == Spec => []TypeOK
BY SpecIInv, PTL DEF IInv

\* Two roots of the manifests are two directories.  The code buckets configs by
\* rootKind or fixed value (apply.go:401) and never compares where these lead.
RootsApart ==
  \A c, e \in Config : \A k \in Candidates[c], l \in Candidates[e] :
    DirOf[k.root] = DirOf[l.root] => k.root = l.root

LEMMA SameDirSameBucket ==
  ASSUME RootsApart, TypeOK, NEW c \in Selected, NEW e \in Selected, RootDir(c) = RootDir(e)
  PROVE  Bucket(c) = Bucket(e)
BY DEF RootsApart, TypeOK, Selected, RootDir, Bucket

\* Nothing is placed before every selected config is built, and nothing at all
\* when two of them claim one target, if no two roots lead to one directory.
THEOREM BuildsFirst ==
  ASSUME RootsApart
  PROVE  Spec => []BuildsComeFirst
<1>1. ASSUME IInv
      PROVE  BuildsComeFirst
  <2> SUFFICES ASSUME disk # start
               PROVE  /\ \A c \in Selected : built[c] # "none"
                      /\ \A c, e \in Selected : (c # e /\ RootDir(c) = RootDir(e)) =>
                           DOMAIN Want(c) \cap DOMAIN Want(e) = {}
    BY DEF BuildsComeFirst
  <2>1. ~Clash /\ \A c \in Selected : built[c] # "none"
    BY <1>1 DEF IInv, StageFits, TypeOK
  <2>2. ASSUME NEW c \in Selected, NEW e \in Selected, c # e, RootDir(c) = RootDir(e)
        PROVE  DOMAIN Want(c) \cap DOMAIN Want(e) = {}
    BY <1>1, <2>1, <2>2, SameDirSameBucket DEF Clash, IInv
  <2> QED BY <2>1, <2>2
<1> QED BY <1>1, SpecIInv, PTL

\* Nothing is placed before every selected config is built, wherever roots lead.
THEOREM BuildsBeforeWrites ==
  Spec => [](disk # start => ~Clash /\ \A c \in Selected : built[c] # "none")
<1>1. IInv => (disk # start => ~Clash /\ \A c \in Selected : built[c] # "none")
  BY DEF IInv, StageFits, TypeOK
<1> QED BY <1>1, SpecIInv, PTL

-----------------------------------------------------------------------------
(* The exit code and the counts.                                            *)

LEMMA NoneSettled ==
  ASSUME NEW how, Settled(how) = 0
  PROVE  \A c \in Selected : outcome[c] # how
<1>1. {c \in Selected : outcome[c] = how} = {}
  BY SettledCounts, FS_EmptySet DEF Settled
<1> QED BY <1>1

\* Three ways to settle that cover the selected configs count them all.
LEMMA CountsAddUp ==
  ASSUME \A c \in Selected : outcome[c] \in {"applied", "skipped", "failed"}
  PROVE  Settled("applied") + Settled("skipped") + Settled("failed") = Cardinality(Selected)
<1> DEFINE S(how) == {c \in Selected : outcome[c] = how}
           T == S("applied") \cup S("skipped")
<1>1. IsFiniteSet(S("applied")) /\ IsFiniteSet(S("skipped")) /\ IsFiniteSet(S("failed"))
  BY SettledCounts
<1>2. /\ S("applied") \cap S("skipped") = {} /\ T \cap S("failed") = {}
      /\ T \cup S("failed") = Selected
  OBVIOUS
<1>3. Cardinality({}) = 0
  BY FS_EmptySet
<1>4. IsFiniteSet(T) /\ Cardinality(T) = Cardinality(S("applied")) + Cardinality(S("skipped")) - 0
  BY <1>1, <1>2, <1>3, FS_Union
<1>5. Cardinality(Selected) = Cardinality(T) + Cardinality(S("failed")) - 0
  <2> HIDE DEF T
  <2> QED BY <1>1, <1>2, <1>3, <1>4, FS_Union
<1>6. /\ Cardinality(S("applied")) \in Nat /\ Cardinality(S("skipped")) \in Nat
      /\ Cardinality(S("failed")) \in Nat
  BY <1>1, FS_CardinalityType
<1>7. \A how : Settled(how) = Cardinality(S(how))
  BY DEF Settled
<1> HIDE DEF S, T
<1> QED BY <1>4, <1>5, <1>6, <1>7

\* The exit code and the counts tell what became of every selected config.
THEOREM ExitIsTrue == Spec => []ExitCodeTells
<1>1. ASSUME IInv
      PROVE  ExitCodeTells
  <2> SUFFICES ASSUME stage = "done"
               PROVE  /\ report.code = 0 =>
                           /\ ~Clash
                           /\ \A c \in Selected : /\ built[c] = "ok"
                                                  /\ outcome[c] \in {"applied", "skipped", "planned"}
                      /\ report.code = 2 => \A c \in Selected : outcome[c] \notin {"none", "failed"}
                      /\ (~Clash /\ ~asked.dryrun) =>
                           report.applied + report.skipped + report.failed = Cardinality(Selected)
    BY DEF ExitCodeTells
  <2>1. \A c \in Selected :
          /\ outcome[c] \in {"none", "applied", "skipped", "failed", "planned", "conflict"}
          /\ outcome[c] \in {"applied", "skipped", "planned", "conflict"} => built[c] = "ok"
          /\ outcome[c] \in {"planned", "conflict"} => asked.dryrun
    BY <1>1 DEF IInv, TypeOK, ConfigFits, OutcomeFits, Selected
  <2>2. CASE Clash /\ report = [NoReport EXCEPT !.code = 1]
    BY <2>2 DEF NoReport
  <2>3. CASE ~Clash /\ Selected = {} /\ report = NoReport
    BY <2>3, FS_EmptySet DEF NoReport
  <2>4. CASE /\ ~Clash
             /\ report.applied = Settled("applied") /\ report.skipped = Settled("skipped")
             /\ report.failed = Settled("failed")
             /\ report.code = ExitCode(Settled("failed"), Settled("conflict"))
             /\ \A c \in Selected : built[c] # "none" /\ outcome[c] # "none"
    <3>1. Settled("failed") \in Nat /\ Settled("conflict") \in Nat
      BY SettledCounts
    <3>2. report.code = 0 => Settled("failed") = 0 /\ Settled("conflict") = 0
      BY <2>4, <3>1 DEF ExitCode
    <3>3. report.code = 2 => Settled("failed") = 0
      BY <2>4, <3>1 DEF ExitCode
    <3>4. report.code = 0 => \A c \in Selected : outcome[c] \notin {"none", "failed", "conflict"}
      BY <2>4, <3>2, NoneSettled
    <3>5. report.code = 2 => \A c \in Selected : outcome[c] \notin {"none", "failed"}
      BY <2>4, <3>3, NoneSettled
    <3>6. ~asked.dryrun =>
            report.applied + report.skipped + report.failed = Cardinality(Selected)
      BY <2>1, <2>4, CountsAddUp
    <3> QED BY <2>1, <2>4, <3>4, <3>5, <3>6
  <2> QED BY <1>1, <2>2, <2>3, <2>4 DEF IInv, StageFits
<1> QED BY <1>1, SpecIInv, PTL

-----------------------------------------------------------------------------
(* A config that does not write keeps its links.                            *)

Sleeping(c) ==
  /\ run[c].pc \in {"idle", "build", "apply"}
  /\ outcome[c] \in {"none", "skipped"} \/ built[c] # "ok"

Unclaimed(c) == DOMAIN Was(c) \ Claimed(RootDir(c))

\* The link at t is where it was, below real directories.
Stands(c, t) ==
  /\ Here(c)[t] = start[RootDir(c)][t]
  /\ IsLink(Here(c), t) /\ InRealDir(Here(c), t)

\* No other run on the root means to take t for a directory.
Spares(e, t) ==
  /\ t \notin run[e].plan.rmdir
  /\ run[e].mid = "ancestor" => run[e].at # t

WasApart == \A c, e \in Config : (c # e /\ RootDir(c) = RootDir(e)) =>
              DOMAIN Was(c) \cap DOMAIN Was(e) = {}

KeepInv ==
  /\ WasApart
  /\ \A c \in Config : Sleeping(c) => \A t \in Unclaimed(c) :
       /\ Stands(c, t)
       /\ \A e \in Config \ {c} : RootDir(e) = RootDir(c) => Spares(e, t)

-----------------------------------------------------------------------------
(* What a call leaves in place.                                             *)

\* From f to g, all that lies below real directories stays, but for p.
StaysBut(f, g, p) ==
  \A t \in Path \ {p} : Exists(f, t) /\ InRealDir(f, t) => g[t] = f[t] /\ InRealDir(g, t)
Stays(f, g) ==
  \A t \in Path : Exists(f, t) /\ InRealDir(f, t) => g[t] = f[t] /\ InRealDir(g, t)

LEMMA AboveMeansBelow ==
  ASSUME NEW p \in Path, NEW t \in Path
  PROVE  p \in Above[t] <=> t \in Below[p]
BY DEF Above, Below

LEMMA BelowIsTransitive ==
  ASSUME NEW p \in Path, NEW q \in Below[p], NEW t \in Below[q]
  PROVE  t \in Below[p]
<1>1. /\ p \in Seq(STRING) /\ q \in Seq(STRING) /\ t \in Seq(STRING) /\ t \in Path /\ q \in Path
      /\ IsStrictPrefix(p, q) /\ IsStrictPrefix(q, t)
  BY PathAssumption, AboveBelow DEF Below
<1>2. /\ Len(p) <= Len(q) /\ SubSeq(p, 1, Len(p)) = SubSeq(q, 1, Len(p)) /\ p # q
      /\ Len(q) <= Len(t) /\ SubSeq(q, 1, Len(q)) = SubSeq(t, 1, Len(q))
  BY <1>1 DEF IsStrictPrefix, IsPrefix
<1>3. /\ \A i \in 1 .. Len(p) : p[i] = q[i]
      /\ \A i \in 1 .. Len(q) : q[i] = t[i]
  BY <1>1, <1>2
<1>4. Len(p) <= Len(t) /\ SubSeq(p, 1, Len(p)) = SubSeq(t, 1, Len(p))
  BY <1>1, <1>2, <1>3
<1>5. p # t
  <2>1. SUFFICES ASSUME p = t PROVE FALSE
    OBVIOUS
  <2>2. Len(p) = Len(q) /\ \A i \in 1 .. Len(p) : p[i] = q[i]
    BY <1>1, <1>2, <1>3, <2>1
  <2>3. p = q
    BY <1>1, <2>2
  <2> QED BY <1>2, <2>3
<1> QED BY <1>1, <1>4, <1>5 DEF Below, IsStrictPrefix, IsPrefix

LEMMA StaysAreStill ==
  ASSUME NEW f, NEW g, NEW p, Stays(f, g)
  PROVE  StaysBut(f, g, p)
BY DEF Stays, StaysBut

\* A path at or below which a call may remove something, and below which nothing
\* stands, is above nothing that stands.
LEMMA NotAboveStanding ==
  ASSUME NEW f \in Tree, NEW p \in Path, NEW t \in Path, Exists(f, t), InRealDir(f, t),
         CanRemove(f, p) \/ ~Exists(f, p) \/ IsLink(f, p)
  PROVE  p \notin Above[t]
<1> SUFFICES ASSUME p \in Above[t] PROVE FALSE
  OBVIOUS
<1>1. IsDir(f, p) /\ t \in Below[p]
  BY AboveMeansBelow DEF InRealDir
<1> QED BY <1>1 DEF CanRemove, EmptyDir, Exists, IsDir, IsLink

LEMMA PutStays ==
  ASSUME NEW f \in Tree, NEW p \in Path, NEW n,
         CanRemove(f, p) \/ ~Exists(f, p) \/ IsLink(f, p)
  PROVE  /\ StaysBut(f, Put(f, p, n), p)
         /\ ~Exists(f, p) => Stays(f, Put(f, p, n))
<1>1. ASSUME NEW t \in Path, Exists(f, t), InRealDir(f, t), t # p
      PROVE  Put(f, p, n)[t] = f[t] /\ InRealDir(Put(f, p, n), t)
  <2>1. p \notin Above[t]
    BY <1>1, NotAboveStanding
  <2>2. Put(f, p, n) = [f EXCEPT ![p] = n] /\ f \in [Path -> Node] /\ Above[t] \subseteq Path
    BY AboveBelow DEF Put, Tree
  <2> QED BY <1>1, <2>1, <2>2 DEF InRealDir, IsDir
<1> QED BY <1>1 DEF StaysBut, Stays

LEMMA MkdirsStays ==
  ASSUME NEW f \in Tree, NEW p
  PROVE  Stays(f, Mkdirs(f, p))
<1> SUFFICES ASSUME NEW t \in Path, Exists(f, t), InRealDir(f, t)
             PROVE  Mkdirs(f, p)[t] = f[t] /\ InRealDir(Mkdirs(f, p), t)
  BY DEF Stays
<1>1. \A q \in Path : Exists(f, q) => Mkdirs(f, p)[q] = f[q]
  BY DEF Mkdirs
<1>2. \A q \in Above[t] : q \in Path /\ IsDir(f, q) /\ Exists(f, q)
  BY AboveBelow DEF InRealDir, IsDir, Exists
<1> QED BY <1>1, <1>2 DEF InRealDir, IsDir

LEMMA ClearStays ==
  ASSUME NEW f \in Tree, NEW p \in Path, CanRemove(f, p)
  PROVE  StaysBut(f, Clear(f, p), p)
<1> SUFFICES ASSUME NEW t \in Path, Exists(f, t), InRealDir(f, t), t # p
             PROVE  Clear(f, p)[t] = f[t] /\ InRealDir(Clear(f, p), t)
  BY DEF StaysBut
<1>1. p \notin Above[t] /\ t \notin Below[p]
  BY NotAboveStanding, AboveMeansBelow
<1>2. \A q \in Above[t] : q \in Path /\ q \notin At(p)
  <2> SUFFICES ASSUME NEW q \in Above[t]
               PROVE  q \in Path /\ q \notin At(p)
    OBVIOUS
  <2>1. q \in Path /\ t \in Below[q]
    BY AboveBelow, AboveMeansBelow
  <2> QED BY <1>1, <2>1, BelowIsTransitive DEF At
<1>3. t \notin At(p)
  BY <1>1 DEF At
<1> QED BY <1>2, <1>3 DEF Clear, InRealDir, IsDir

-----------------------------------------------------------------------------
(* What the calls of a run leave in place.                                  *)

\* Where a run takes something away: at its own targets, at a directory to be
\* migrated, or at an ancestor it has looked at.
Reaches(e, p) ==
  \/ p \in DOMAIN Was(e) \cup DOMAIN Want(e) \cup run[e].plan.rmdir
  \/ run[e].mid = "ancestor" /\ p = run[e].at

Careful(e, g) ==
  \/ Stays(Here(e), g)
  \/ \E p \in Path : Reaches(e, p) /\ StaysBut(Here(e), g, p)

\* A call of a stage or of the unwind leaves alone what its run does not reach,
\* and makes out no directory that is not one.
Calls(e) ==
  /\ run[e].pc \in {"stages", "unwind"}
  /\ UNCHANGED <<asked, pool, outcome, record, report, ghosts>>
  /\ \E r : /\ run' = [run EXCEPT ![e] = r] /\ r.pc = run[e].pc
            /\ r.plan.rmdir \subseteq run[e].plan.rmdir
            /\ r.mid = "ancestor" => \/ run[e].mid = "ancestor" /\ r.at = run[e].at
                                     \/ r.at \in Path /\ ~IsLink(Here(e), r.at)
  /\ disk' = disk \/ \E g : Write(e, g) /\ Careful(e, g)

LEMMA PreRemoveCalls ==
  ASSUME IInv, NEW e \in Config, NEW p,
         VerifyDropped(e, p) \/ UnlinkDropped(e) \/ RmdirMigrated(e, p)
  PROVE  Calls(e)
<1> DEFINE h == run[e]
<1>1. /\ h \in InHand /\ h.plan \in Plan /\ Here(e) \in Tree /\ HandFits(e, h) /\ DOMAIN Was(e) \subseteq Path
  BY InHandNow, EntryTypes
<1>2. CASE VerifyDropped(e, p)
  <2> DEFINE r == Step(e, "dropped", p)
  <2>1. h.pc = "stages" /\ Does(e, r) /\ disk' = disk
    BY <1>2 DEF VerifyDropped, AtStep
  <2>2. r.pc = h.pc /\ r.plan.rmdir \subseteq h.plan.rmdir /\ r.mid # "ancestor"
    BY <1>1 DEF Step, InHand
  <2> HIDE DEF r
  <2> QED BY <2>1, <2>2 DEF Calls, Does
<1>3. CASE UnlinkDropped(e)
  <2> DEFINE q == h.at
             g == Put(Here(e), q, Absent)
             r == [h EXCEPT !.mid = "none", !.plan = Uncleared(e, q),
                     !.journal = Journaled(e, "relinkOld", q, record[e][q].src)]
  <2>1. h.pc = "stages" /\ h.mid = "dropped" /\ CanRemove(Here(e), q) /\ Write(e, g) /\ Does(e, r)
    BY <1>3 DEF UnlinkDropped, AtStep
  <2>2. r.pc = h.pc /\ r.plan.rmdir \subseteq h.plan.rmdir /\ r.mid # "ancestor"
    BY <1>1 DEF Uncleared, InHand, Plan
  <2>3. q \in DOMAIN Was(e) /\ q \in Path
    BY <1>1, <2>1 DEF HandFits
  <2>4. Careful(e, g)
    BY <1>1, <2>1, <2>3, PutStays DEF Careful, Reaches
  <2> HIDE DEF r, g
  <2> QED BY <2>1, <2>2, <2>4 DEF Calls, Does
<1>4. CASE RmdirMigrated(e, p)
  <2>1. h.pc = "stages" /\ h.mid = "none" /\ p \in h.plan.rmdir /\ p \in Path
    BY <1>1, <1>4 DEF RmdirMigrated, AtStep, Plan
  <2>2. /\ disk' = disk \/ \E g : Write(e, g) /\ Careful(e, g)
    <3> DEFINE g == Put(Here(e), p, Absent)
    <3>1. disk' = disk \/ (CanRemove(Here(e), p) /\ Write(e, g))
      BY <1>4 DEF RmdirMigrated
    <3>2. CanRemove(Here(e), p) => Careful(e, g)
      BY <1>1, <2>1, PutStays DEF Careful, Reaches
    <3> QED BY <3>1, <3>2
  <2>3. ASSUME NEW r, Does(e, r), r.pc = h.pc, r.plan = Uncleared(e, p), r.mid = h.mid
        PROVE  Calls(e)
    <3>1. r.plan.rmdir \subseteq h.plan.rmdir /\ r.mid # "ancestor"
      BY <1>1, <2>1, <2>3 DEF Uncleared, Plan
    <3> QED BY <2>1, <2>2, <2>3, <3>1 DEF Calls, Does
  <2>4. CASE Does(e, [h EXCEPT !.plan = Uncleared(e, p),
                               !.journal = Journaled(e, "mkdir", p, None)])
    <3> DEFINE r == [h EXCEPT !.plan = Uncleared(e, p), !.journal = Journaled(e, "mkdir", p, None)]
    <3>1. r.pc = h.pc /\ r.plan = Uncleared(e, p) /\ r.mid = h.mid
      BY <1>1 DEF InHand
    <3> HIDE DEF r
    <3> QED BY <2>3, <2>4, <3>1 DEF r
  <2>5. CASE Does(e, [h EXCEPT !.plan = Uncleared(e, p)])
    <3> DEFINE r == [h EXCEPT !.plan = Uncleared(e, p)]
    <3>1. r.pc = h.pc /\ r.plan = Uncleared(e, p) /\ r.mid = h.mid
      BY <1>1 DEF InHand
    <3> HIDE DEF r
    <3> QED BY <2>3, <2>5, <3>1 DEF r
  <2> QED BY <1>4, <2>4, <2>5 DEF RmdirMigrated
<1> QED BY <1>2, <1>3, <1>4

LEMMA PlaceCalls ==
  ASSUME IInv, NEW e \in Config, NEW t,
         MakeParents(e, t) \/ SymlinkNew(e) \/ Unlink(e) \/ Resymlink(e)
  PROVE  Calls(e)
<1> DEFINE h == run[e]
           q == h.at
<1>1. h \in InHand /\ h.plan \in Plan /\ Here(e) \in Tree /\ HandFits(e, h)
      /\ DOMAIN Want(e) \subseteq Path
  BY InHandNow, EntryTypes
<1>2. h.pc = "stages"
  BY DEF MakeParents, SymlinkNew, Unlink, Resymlink, AtStep
<1>3. CASE MakeParents(e, t)
  <2> DEFINE r == Step(e, "made", t)
             g == Mkdirs(Here(e), t)
  <2>1. Does(e, r) /\ Write(e, g)
    BY <1>3 DEF MakeParents
  <2>2. r.pc = h.pc /\ r.plan.rmdir \subseteq h.plan.rmdir /\ r.mid # "ancestor"
    BY <1>1 DEF Step, InHand
  <2>3. Careful(e, g)
    BY <1>1, MkdirsStays DEF Careful
  <2> HIDE DEF r, g
  <2> QED BY <1>2, <2>1, <2>2, <2>3 DEF Calls, Does
<1>4. (q \in DOMAIN Want(e) /\ q \in Path) \/ MakeParents(e, t)
  BY <1>1 DEF SymlinkNew, Unlink, Resymlink, AtStep, HandFits
<1>5. CASE SymlinkNew(e)
  <2> DEFINE r == [h EXCEPT !.mid = "none", !.plan = Placed(e, q),
                            !.journal = Journaled(e, "unlinkNew", q, None)]
             g == Put(Here(e), q, LinkTo(Want(e)[q].src))
  <2>1. Does(e, r) /\ Write(e, g) /\ ~Exists(Here(e), q)
    BY <1>5 DEF SymlinkNew
  <2>2. r.pc = h.pc /\ r.plan.rmdir \subseteq h.plan.rmdir /\ r.mid # "ancestor"
    BY <1>1 DEF Placed, InHand, Plan
  <2>3. q \in Path
    BY <1>1, <1>5 DEF SymlinkNew, AtStep, HandFits
  <2>4. Careful(e, g)
    BY <1>1, <2>1, <2>3, PutStays DEF Careful
  <2> HIDE DEF r, g
  <2> QED BY <1>2, <2>1, <2>2, <2>4 DEF Calls, Does
<1>6. CASE Unlink(e)
  <2> DEFINE r == [h EXCEPT !.mid = "unlinked",
                            !.journal = Journaled(e, "relinkOld", q, Here(e)[q].val)]
             g == Put(Here(e), q, Absent)
  <2>1. Does(e, r) /\ Write(e, g) /\ IsLink(Here(e), q)
    BY <1>6 DEF Unlink
  <2>2. r.pc = h.pc /\ r.plan.rmdir \subseteq h.plan.rmdir /\ r.mid # "ancestor"
    BY <1>1 DEF InHand
  <2>3. q \in Path /\ q \in DOMAIN Want(e)
    BY <1>1, <1>6 DEF Unlink, AtStep, HandFits
  <2>4. Careful(e, g)
    BY <1>1, <2>1, <2>3, PutStays DEF Careful, Reaches
  <2> HIDE DEF r, g
  <2> QED BY <1>2, <2>1, <2>2, <2>4 DEF Calls, Does
<1>7. CASE Resymlink(e)
  <2> DEFINE r == [h EXCEPT !.mid = "none", !.plan = Placed(e, q)]
             g == Put(Here(e), q, LinkTo(Want(e)[q].src))
  <2>1. Does(e, r) /\ Write(e, g) /\ ~Exists(Here(e), q)
    BY <1>7 DEF Resymlink
  <2>2. r.pc = h.pc /\ r.plan.rmdir \subseteq h.plan.rmdir /\ r.mid # "ancestor"
    BY <1>1 DEF Placed, InHand, Plan
  <2>3. q \in Path
    BY <1>1, <1>7 DEF Resymlink, AtStep, HandFits
  <2>4. Careful(e, g)
    BY <1>1, <2>1, <2>3, PutStays DEF Careful
  <2> HIDE DEF r, g
  <2> QED BY <1>2, <2>1, <2>2, <2>4 DEF Calls, Does
<1> QED BY <1>3, <1>5, <1>6, <1>7

LEMMA StaleCalls ==
  ASSUME IInv, NEW e \in Config, NEW t, Reverify(e, t) \/ RemoveStale(e)
  PROVE  Calls(e)
<1> DEFINE h == run[e]
<1>1. h \in InHand /\ h.plan \in Plan /\ Here(e) \in Tree /\ HandFits(e, h)
      /\ DOMAIN Was(e) \subseteq Path
  BY InHandNow, EntryTypes
<1>2. CASE Reverify(e, t)
  <2>1. h.pc = "stages" /\ h.mid = "none" /\ disk' = disk
    BY <1>2 DEF Reverify, AtStep
  <2>2. ASSUME NEW r, Does(e, r), r.pc = h.pc, r.plan.rmdir = h.plan.rmdir, r.mid # "ancestor"
        PROVE  Calls(e)
    BY <2>1, <2>2 DEF Calls, Does
  <2>3. CASE Does(e, Step(e, "stale", t))
    <3> DEFINE r == Step(e, "stale", t)
    <3>1. r.pc = h.pc /\ r.plan.rmdir = h.plan.rmdir /\ r.mid # "ancestor"
      BY <1>1 DEF Step, InHand
    <3> HIDE DEF r
    <3> QED BY <2>2, <2>3, <3>1 DEF r
  <2>4. CASE Does(e, [h EXCEPT !.plan = Unstale(e, t)])
    <3> DEFINE r == [h EXCEPT !.plan = Unstale(e, t)]
    <3>1. r.pc = h.pc /\ r.plan.rmdir = h.plan.rmdir /\ r.mid # "ancestor"
      BY <1>1, <2>1 DEF Unstale, InHand, Plan
    <3> HIDE DEF r
    <3> QED BY <2>2, <2>4, <3>1 DEF r
  <2> QED BY <1>2, <2>3, <2>4 DEF Reverify
<1>3. CASE RemoveStale(e)
  <2> DEFINE q == h.at
             g == Put(Here(e), q, Absent)
             r == [h EXCEPT !.mid = "prune", !.plan = Unstale(e, q),
                     !.journal = Journaled(e, "relinkOld", q, record[e][q].src)]
  <2>1. h.pc = "stages" /\ h.mid = "stale" /\ CanRemove(Here(e), q) /\ Write(e, g) /\ Does(e, r)
    BY <1>3 DEF RemoveStale, AtStep
  <2>2. r.pc = h.pc /\ r.plan.rmdir \subseteq h.plan.rmdir /\ r.mid # "ancestor"
    BY <1>1 DEF Unstale, InHand, Plan
  <2>3. q \in DOMAIN Was(e) /\ q \in Path
    BY <1>1, <2>1 DEF HandFits
  <2>4. Careful(e, g)
    BY <1>1, <2>1, <2>3, PutStays DEF Careful, Reaches
  <2> HIDE DEF r, g
  <2> QED BY <2>1, <2>2, <2>4 DEF Calls, Does
<1> QED BY <1>2, <1>3

LEMMA AncestorCalls ==
  ASSUME IInv, NEW e \in Config, CheckAncestor(e) \/ PruneAncestor(e)
  PROVE  Calls(e)
<1> DEFINE h == run[e]
<1>1. h \in InHand /\ h.plan \in Plan /\ Here(e) \in Tree /\ HandFits(e, h)
  BY InHandNow
<1>2. h.pc = "stages"
  BY DEF CheckAncestor, PruneAncestor, AtStep
<1>3. ASSUME disk' = disk, Does(e, Step(e, "none", << >>))
      PROVE  Calls(e)
  <2> DEFINE r == Step(e, "none", << >>)
  <2>1. r.pc = h.pc /\ r.plan.rmdir = h.plan.rmdir /\ r.mid # "ancestor"
    BY <1>1 DEF Step, InHand
  <2> HIDE DEF r
  <2> QED BY <1>2, <1>3, <2>1 DEF Calls, Does, r
<1>4. CASE CheckAncestor(e)
  <2> DEFINE up == Front(h.at)
             r == Step(e, "ancestor", up)
  <2>1. /\ disk' = disk
        /\ \/ Does(e, Step(e, "none", << >>))
           \/ Does(e, r) /\ up \in Path /\ ~IsLink(Here(e), up)
    BY <1>4 DEF CheckAncestor
  <2>2. r.pc = h.pc /\ r.plan.rmdir = h.plan.rmdir /\ r.at = up
    BY <1>1 DEF Step, InHand
  <2>3. CASE Does(e, r) /\ up \in Path /\ ~IsLink(Here(e), up)
    <3> HIDE DEF r, up
    <3> QED BY <1>2, <2>1, <2>2, <2>3 DEF Calls, Does
  <2> QED BY <1>3, <2>1, <2>3
<1>5. CASE PruneAncestor(e)
  <2> DEFINE up == h.at
             g == Clear(Here(e), up)
             r == [h EXCEPT !.mid = "prune", !.journal = Journaled(e, "mkdir", up, None)]
  <2>1. /\ h.mid = "ancestor"
        /\ \/ CanRemove(Here(e), up) /\ Write(e, g) /\ Does(e, r)
           \/ disk' = disk /\ Does(e, Step(e, "none", << >>))
    BY <1>5 DEF PruneAncestor, AtStep, Removable
  <2>2. r.pc = h.pc /\ r.plan.rmdir = h.plan.rmdir /\ r.mid # "ancestor"
    BY <1>1 DEF InHand
  <2>3. up \in Path
    BY <1>1, <2>1 DEF HandFits
  <2>4. CanRemove(Here(e), up) => Careful(e, g)
    BY <1>1, <2>1, <2>3, ClearStays DEF Careful, Reaches
  <2>5. CASE CanRemove(Here(e), up) /\ Write(e, g) /\ Does(e, r)
    <3> HIDE DEF r, g
    <3> QED BY <1>2, <2>2, <2>4, <2>5 DEF Calls, Does
  <2> QED BY <1>3, <2>1, <2>5
<1> QED BY <1>4, <1>5

\* An inverse takes away a link that was placed, or one that hides the old one.
LEMMA RestoredStays ==
  ASSUME NEW f \in Tree, NEW op \in Op
  PROVE  /\ op.path \in Path
         /\ StaysBut(f, Restored(f, op), op.path)
         /\ op.kind = "mkdir" => Stays(f, Restored(f, op))
<1>1. op.kind \in {"unlinkNew", "mkdir", "relinkOld"} /\ op.path \in Path
  BY DEF Op
<1>2. CASE Restored(f, op) = f
  BY <1>1, <1>2 DEF Stays, StaysBut
<1>3. CASE op.kind = "unlinkNew" /\ Restored(f, op) # f
  BY <1>1, <1>3, PutStays DEF Restored
<1>4. CASE op.kind = "relinkOld" /\ Restored(f, op) # f
  <2>1. /\ Restored(f, op) = Put(f, op.path, LinkTo(op.dest))
        /\ CanRemove(f, op.path) \/ ~Exists(f, op.path)
    BY <1>4 DEF Restored
  <2> QED BY <1>1, <1>4, <2>1, PutStays
<1>5. CASE op.kind = "mkdir" /\ Restored(f, op) # f
  BY <1>1, <1>5, PutStays DEF Restored
<1> QED BY <1>1, <1>2, <1>3, <1>4, <1>5

LEMMA UndoCalls ==
  ASSUME IInv, NEW e \in Config, Undo(e)
  PROVE  Calls(e)
<1> DEFINE h == run[e]
           j == h.journal
           op == Last(j)
           g == Restored(Here(e), op)
           r == [h EXCEPT !.journal = Front(j)]
<1>1. /\ h.pc = "unwind" /\ j # << >> /\ Write(e, g)
      /\ run' = [run EXCEPT ![e].journal = Front(j)]
      /\ UNCHANGED <<asked, pool, outcome, record, report, ghosts>>
  BY DEF Undo, Undone, Unwinding
<1>2. /\ h \in InHand /\ Here(e) \in Tree /\ run' = [run EXCEPT ![e] = r]
  BY <1>1, InHandNow DEF IInv, TypeOK
<1>3. op \in Op /\ OpFits(e, op)
  <2>1. j \in Seq(Op) /\ \A i \in DOMAIN j : OpFits(e, j[i])
    BY InHandNow
  <2> HIDE DEF j
  <2>2. Last(j) \in Op /\ OpFits(e, Last(j))
    BY <1>1, <2>1, JournalPops
  <2> QED BY <2>2
<1>4. r.pc = h.pc /\ r.plan.rmdir = h.plan.rmdir /\ r.mid = h.mid /\ r.at = h.at
  BY <1>2 DEF InHand
<1>5. Careful(e, g)
  <2> HIDE DEF op
  <2>1. /\ op.path \in Path /\ StaysBut(Here(e), g, op.path)
        /\ op.kind = "mkdir" => Stays(Here(e), g)
    BY <1>2, <1>3, RestoredStays
  <2>2. op.kind = "mkdir" \/ op.path \in DOMAIN Was(e) \cup DOMAIN Want(e)
    BY <1>3 DEF OpFits, Op
  <2> QED BY <2>1, <2>2 DEF Careful, Reaches
<1> HIDE DEF r, g, op, j
<1> QED BY <1>1, <1>2, <1>4, <1>5 DEF Calls

-----------------------------------------------------------------------------
(* KeepInv holds at every step.                                             *)

LEMMA LaidOut ==
  ASSUME NEW at \in [Config -> [dir : Disk, was : Manifest]], NEW stray, Possible(at, stray),
         NEW c \in Config, NEW t \in DOMAIN at[c].was, t \in Path
  PROVE  LET f == Laid(at, at[c].dir, stray)
         IN IsLink(f, t) /\ InRealDir(f, t)
<1> DEFINE d == at[c].dir
           f == Laid(at, d, stray)
           links(p) == {k \in Config : d = at[k].dir /\ p \in DOMAIN at[k].was}
           used == stray \cup UNION {DOMAIN at[k].was : k \in {l \in Config : at[l].dir = d}}
<1>1. \A p \in Path :
        f[p] = IF links(p) # {} THEN LinkTo(at[CHOOSE k \in links(p) : TRUE].was[p].src)
               ELSE IF p \in stray THEN FileOf(Mine)
               ELSE IF Below[p] \cap used # {} THEN Dir
               ELSE Absent
  BY DEF Laid
<1>2. c \in links(t)
  OBVIOUS
<1>3. IsLink(f, t)
  <2>1. links(t) # {}
    BY <1>2
  <2>2. f[t] = LinkTo(at[CHOOSE k \in links(t) : TRUE].was[t].src)
    <3> HIDE DEF links, used, f
    <3> QED BY <1>1, <2>1
  <2> HIDE DEF links, f
  <2> QED BY <2>2 DEF IsLink, LinkTo
<1>4. ASSUME NEW q \in Above[t]
      PROVE  IsDir(f, q)
  <2>1. q \in Path /\ t \in Below[q]
    BY AboveBelow, AboveMeansBelow
  <2>2. links(q) = {}
    <3> SUFFICES ASSUME NEW e \in Config, at[e].dir = d, q \in DOMAIN at[e].was PROVE FALSE
      OBVIOUS
    <3>1. Below[q] \cap DOMAIN at[c].was = {}
      BY DEF Possible
    <3> QED BY <2>1, <3>1
  <2>3. q \notin stray
    BY DEF Possible
  <2>4. t \in used
    OBVIOUS
  <2>5. f[q] = Dir
    <3> HIDE DEF links, used, f
    <3> QED BY <1>1, <2>1, <2>2, <2>3, <2>4
  <2> HIDE DEF f
  <2> QED BY <2>5 DEF IsDir, Dir
<1> QED BY <1>3, <1>4 DEF InRealDir

LEMMA InitKeepInv == Init => KeepInv
<1> SUFFICES ASSUME Init PROVE KeepInv
  OBVIOUS
<1>1. PICK conf \in {f \in [Config -> UNION Range(Candidates)] : \A c \in Config : f[c] \in Candidates[c]},
           override \in BOOLEAN, dryrun \in BOOLEAN, filter \in Filters, stray \in Strays :
        /\ Possible(Places(conf, override), stray)
        /\ asked = [conf |-> conf, override |-> override, filter |-> filter, dryrun |-> dryrun]
        /\ disk = [d \in Disk |-> Laid(Places(conf, override), d, stray)]
  BY Zenon DEF Init
<1> DEFINE at == Places(conf, override)
<1>2. \A c \in Config : conf[c] \in [root : Root, was : Manifest, want : Manifest]
  BY ApplyAllAssumption
<1>3. /\ at \in [Config -> [dir : Disk, was : Manifest]]
      /\ \A c \in Config : at[c].was = Was(c) /\ at[c].dir = RootDir(c)
  BY <1>1, <1>2, ApplyAllAssumption DEF Places, Was, RootDir
<1>4. start = disk /\ run = [c \in Config |-> Idle] /\ Idle.mid = "none" /\ Idle.plan.rmdir = {}
  BY DEF Init, Idle, NoPlan
<1> HIDE DEF at
<1>5. WasApart
  BY <1>1, <1>3 DEF WasApart, Possible, at
<1>6. ASSUME NEW c \in Config, NEW t \in DOMAIN Was(c)
      PROVE  Stands(c, t)
  <2>1. t \in Path
    BY <1>3, ManifestHasEntries, ManifestTypes
  <2>2. Here(c) = Laid(at, at[c].dir, stray)
    BY <1>1, <1>3 DEF Here, at
  <2> QED BY <1>1, <1>3, <1>4, <2>1, <2>2, LaidOut DEF Stands, Here, at
<1>7. \A e \in Config : \A t : Spares(e, t)
  BY <1>4 DEF Spares
<1> QED BY <1>5, <1>6, <1>7 DEF KeepInv, Unclaimed

\* What is derived from the invocation, and what has not changed, stays.
LEMMA ClaimsStay ==
  ASSUME UNCHANGED asked
  PROVE  /\ WasApart' = WasApart
         /\ \A c \in Config : Unclaimed(c)' = Unclaimed(c) /\ RootDir(c)' = RootDir(c)
BY DEF WasApart, Unclaimed, Claimed, Selected, Was, Want, RootDir

\* A step that moves no file takes no directory for what is a link.
LEMMA LookingKeeps ==
  ASSUME KeepInv, UNCHANGED <<asked, disk, start>>,
         \A c \in Config : Sleeping(c)' => Sleeping(c),
         \A e \in Config : \A t : (Spares(e, t) /\ IsLink(Here(e), t)) => Spares(e, t)'
  PROVE  KeepInv'
<1>1. ASSUME NEW c \in Config, Sleeping(c)', NEW t \in Unclaimed(c)
      PROVE  /\ Stands(c, t)'
             /\ \A e \in Config \ {c} : RootDir(e)' = RootDir(c)' => Spares(e, t)'
  <2>1. /\ Stands(c, t)
        /\ \A e \in Config \ {c} : RootDir(e) = RootDir(c) => Spares(e, t)
    BY <1>1 DEF KeepInv
  <2>2. Stands(c, t)'
    BY <2>1, ClaimsStay DEF Stands, Here
  <2>3. \A e \in Config : RootDir(e) = RootDir(c) => IsLink(Here(e), t)
    BY <2>1 DEF Stands, Here
  <2> QED BY <2>1, <2>2, <2>3, ClaimsStay
<1> QED BY <1>1, ClaimsStay DEF KeepInv

\* A call on a root leaves the links of those who sleep.
LEMMA CallsKeep ==
  ASSUME IInv, KeepInv, NEW e \in Config, Calls(e)
  PROVE  KeepInv'
<1>1. /\ run[e].pc \in {"stages", "unwind"} /\ e \in Selected
      /\ UNCHANGED <<asked, built, outcome, start>>
  BY DEF Calls, IInv, ConfigFits, RunFits, pool, ghosts
<1>2. PICK r : /\ run' = [run EXCEPT ![e] = r] /\ r.pc = run[e].pc
               /\ r.plan.rmdir \subseteq run[e].plan.rmdir
               /\ r.mid = "ancestor" => \/ run[e].mid = "ancestor" /\ r.at = run[e].at
                                        \/ r.at \in Path /\ ~IsLink(Here(e), r.at)
  BY DEF Calls
<1>3. run \in [Config -> InHand]
  BY DEF IInv, TypeOK
<1>4. ASSUME NEW c \in Config, Sleeping(c)', NEW t \in Unclaimed(c)
      PROVE  /\ Stands(c, t)'
             /\ \A k \in Config \ {c} : RootDir(k)' = RootDir(c)' => Spares(k, t)'
  <2>1. c # e /\ run'[c] = run[c] /\ Sleeping(c)
    BY <1>1, <1>2, <1>3, <1>4 DEF Sleeping
  <2>2. /\ Stands(c, t)
        /\ \A k \in Config \ {c} : RootDir(k) = RootDir(c) => Spares(k, t)
    BY <1>4, <2>1 DEF KeepInv
  <2>3. t \in Path /\ t \in DOMAIN Was(c)
    BY <1>4, EntryTypes DEF Unclaimed
  <2>4. ASSUME RootDir(e) = RootDir(c)
        PROVE  ~Reaches(e, t)
    <3>1. t \notin DOMAIN Was(e)
      BY <2>1, <2>3, <2>4 DEF KeepInv, WasApart
    <3>2. t \notin DOMAIN Want(e)
      BY <1>1, <1>4, <2>4 DEF Unclaimed, Claimed
    <3> QED BY <2>1, <2>2, <2>4, <3>1, <3>2 DEF Reaches, Spares
  <2>5. /\ Here(c)'[t] = Here(c)[t] /\ InRealDir(Here(c), t)'
    <3>1. RootDir(c) \in Disk /\ RootDir(e) \in Disk /\ disk \in [Disk -> Tree]
      BY AskedTypes DEF IInv, TypeOK
    <3>2. CASE disk' = disk
      BY <2>2, <3>2, <1>1, ClaimsStay DEF Stands, Here
    <3>3. CASE \E g : Write(e, g) /\ Careful(e, g)
      <4>1. PICK g : disk' = [disk EXCEPT ![RootDir(e)] = g] /\ Careful(e, g)
        BY <3>3 DEF Write
      <4>2. CASE RootDir(e) # RootDir(c)
        <5>1. Here(c)' = Here(c)
          BY <1>1, <3>1, <4>1, <4>2, ClaimsStay DEF Here
        <5> QED BY <2>2, <5>1 DEF Stands
      <4>3. CASE RootDir(e) = RootDir(c)
        <5>1. Here(c)' = g /\ Here(e) = Here(c)
          BY <1>1, <3>1, <4>1, <4>3, ClaimsStay DEF Here
        <5>2. Exists(Here(c), t) /\ InRealDir(Here(c), t)
          BY <2>2 DEF Stands, Exists, IsLink
        <5>3. g[t] = Here(c)[t] /\ InRealDir(g, t)
          BY <2>3, <2>4, <4>1, <4>3, <5>1, <5>2 DEF Careful, Stays, StaysBut
        <5> QED BY <5>1, <5>3
      <4> QED BY <4>2, <4>3
    <3> QED BY <3>2, <3>3 DEF Calls
  <2>6. Stands(c, t)'
    BY <1>1, <2>2, <2>5, ClaimsStay DEF Stands, IsLink
  <2>7. ASSUME NEW k \in Config \ {c}, RootDir(k) = RootDir(c)
        PROVE  Spares(k, t)'
    <3>1. Spares(k, t)
      BY <2>2, <2>7
    <3>2. CASE k # e
      BY <1>2, <1>3, <3>1, <3>2 DEF Spares
    <3>3. CASE k = e
      <4>1. run'[k] = r /\ IsLink(Here(e), t)
        BY <1>2, <1>3, <2>2, <2>7, <3>3 DEF Stands, Here
      <4> QED BY <1>2, <3>1, <3>3, <4>1 DEF Spares
    <3> QED BY <3>2, <3>3
  <2> QED BY <1>1, <2>6, <2>7, ClaimsStay
<1> QED BY <1>1, <1>4, ClaimsStay DEF KeepInv

\* A worker takes, drops or settles a config: what it goes to sleep with, it
\* slept with before.
LEMMA HandsKeep ==
  ASSUME IInv, KeepInv, NEW e \in Config, NEW r, run' = [run EXCEPT ![e] = r],
         UNCHANGED <<asked, disk, start>>,
         \A c \in Config \ {e} : built'[c] = built[c] /\ outcome'[c] = outcome[c],
         Sleeping(e)' => Sleeping(e),
         \A t \in r.plan.rmdir \ run[e].plan.rmdir : IsDir(Here(e), t),
         r.mid = "ancestor" => run[e].mid = "ancestor" /\ r.at = run[e].at
  PROVE  KeepInv'
<1>1. run'[e] = r /\ \A c \in Config \ {e} : run'[c] = run[c]
  BY DEF IInv, TypeOK
<1>2. \A c \in Config : Sleeping(c)' => Sleeping(c)
  BY <1>1 DEF Sleeping
<1>3. ASSUME NEW c \in Config, NEW t, Spares(c, t), IsLink(Here(c), t)
      PROVE  Spares(c, t)'
  BY <1>1, <1>3 DEF Spares, IsLink, IsDir
<1> QED BY <1>2, <1>3, LookingKeeps

\* Who has no worker yet, or has just got one, sleeps.
LEMMA SleepsBefore ==
  ASSUME IInv, NEW e \in Config, run[e].pc \in {"build", "apply"}
  PROVE  Sleeping(e)
BY DEF Sleeping, IInv, ConfigFits, RunFits

LEMMA OrchestrateSleeps ==
  ASSUME IInv, KeepInv, Orchestrate
  PROVE  KeepInv'
<1>1. CASE Preflight \/ BeginApply \/ Report
  <2>1. UNCHANGED <<asked, built, run, outcome, disk, start>>
    BY <1>1 DEF Preflight, BeginApply, Report, ghosts
  <2> QED BY <2>1, LookingKeeps DEF Sleeping, Spares
<1>2. CASE Hand
  <2>1. PICK c \in queue : run' = [run EXCEPT ![c].pc = stage]
    BY <1>2 DEF Hand
  <2>2. /\ c \in Config /\ run[c].pc = "idle" /\ stage \in {"build", "apply"}
        /\ UNCHANGED <<asked, built, outcome, disk, start>> /\ run[c] \in InHand
    BY <1>2, <2>1 DEF Hand, ghosts, IInv, TypeOK, ConfigFits, RunFits
  <2> DEFINE r == [run[c] EXCEPT !.pc = stage]
  <2>3. /\ run' = [run EXCEPT ![c] = r] /\ r.plan = run[c].plan /\ r.mid = run[c].mid
        /\ r.at = run[c].at
    BY <2>1, <2>2 DEF IInv, TypeOK, InHand
  <2> HIDE DEF r
  <2>4. Sleeping(c)' => Sleeping(c)
    BY <2>2 DEF Sleeping
  <2> QED BY <2>2, <2>3, <2>4, HandsKeep
<1> QED BY <1>1, <1>2 DEF Orchestrate

\* A config whose worker returns it.
LEMMA SettleSleeps ==
  ASSUME IInv, KeepInv, NEW e \in Config, NEW how, Settle(e, how),
         UNCHANGED <<asked, built, disk, start>>,
         \/ run[e].pc = "apply"
         \/ how \in {"applied", "failed"} /\ built[e] = "ok"
  PROVE  KeepInv'
<1>1. run' = [run EXCEPT ![e] = Idle] /\ outcome' = [outcome EXCEPT ![e] = how]
  BY DEF Settle
<1>2. Sleeping(e)' => Sleeping(e)
  <2>1. outcome'[e] = how
    BY <1>1 DEF IInv, TypeOK
  <2> QED BY <2>1, SleepsBefore DEF Sleeping
<1>3. Idle.mid = "none" /\ Idle.plan.rmdir = {}
  BY DEF Idle, NoPlan
<1>4. \A c \in Config \ {e} : outcome'[c] = outcome[c]
  BY <1>1 DEF IInv, TypeOK
<1> QED BY <1>1, <1>2, <1>3, <1>4, HandsKeep

LEMMA PrebuildSleeps ==
  ASSUME IInv, KeepInv, NEW e \in Config, Prebuild(e)
  PROVE  KeepInv'
<1>1. /\ run[e].pc = "build" /\ run' = [run EXCEPT ![e] = Idle]
      /\ UNCHANGED <<asked, outcome, disk, start>>
      /\ \A c \in Config \ {e} : built'[c] = built[c]
  BY DEF Prebuild, IInv, TypeOK
<1>2. Idle.mid = "none" /\ Idle.plan.rmdir = {}
  BY DEF Idle, NoPlan
<1> QED BY <1>1, <1>2, SleepsBefore, HandsKeep

LEMMA StartSleeps ==
  ASSUME IInv, KeepInv, NEW e \in Config,
         PassOver(e) \/ DryPlan(e) \/ SkipLocked(e) \/ Start(e)
  PROVE  KeepInv'
<1>1. run[e].pc = "apply" /\ UNCHANGED <<asked, built, disk, start>>
  BY DEF PassOver, DryPlan, SkipLocked, Start, Ready, Quiet, pool
<1>2. CASE \E how : Settle(e, how)
  BY <1>1, <1>2, SettleSleeps
<1>3. CASE /\ run' = [run EXCEPT ![e].pc = "stages", ![e].plan = PlanOf(e)]
           /\ UNCHANGED <<outcome, excused>>
  <2> DEFINE r == [run[e] EXCEPT !.pc = "stages", !.plan = PlanOf(e)]
  <2>1. /\ run' = [run EXCEPT ![e] = r] /\ r.pc = "stages" /\ r.plan = PlanOf(e)
        /\ r.mid = run[e].mid /\ r.at = run[e].at
    BY <1>3, InHandNow DEF IInv, TypeOK, InHand
  <2> HIDE DEF r
  <2>2. \A t \in PlanOf(e).rmdir : IsDir(Here(e), t)
    BY DEF PlanOf, Compute, Here
  <2>3. ~Sleeping(e)'
    BY <2>1 DEF Sleeping, IInv, TypeOK
  <2> QED BY <1>1, <1>3, <2>1, <2>2, <2>3, HandsKeep
<1> QED BY <1>2, <1>3 DEF PassOver, DryPlan, SkipLocked, Start

LEMMA LeaveSleeps ==
  ASSUME IInv, KeepInv, NEW e \in Config,
         Fail(e) \/ Record(e) \/ Commit(e) \/ Unwound(e)
  PROVE  KeepInv'
<1>1. CASE Fail(e) \/ Record(e)
  <2>1. PICK s \in {"unwind", "commit"} : run' = [run EXCEPT ![e].pc = s]
    BY <1>1 DEF Fail, Unwind, Record
  <2>2. UNCHANGED <<asked, built, outcome, disk, start>>
    BY <1>1 DEF Fail, Record, pool, ghosts
  <2> DEFINE r == [run[e] EXCEPT !.pc = s]
  <2>3. /\ run' = [run EXCEPT ![e] = r] /\ r.pc = s /\ r.plan = run[e].plan
        /\ r.mid = run[e].mid /\ r.at = run[e].at
    BY <2>1, InHandNow DEF IInv, TypeOK, InHand
  <2> HIDE DEF r
  <2>4. ~Sleeping(e)'
    BY <2>3 DEF Sleeping, IInv, TypeOK
  <2> QED BY <2>2, <2>3, <2>4, HandsKeep
<1>2. CASE Commit(e) \/ Unwound(e)
  <2>1. /\ run[e].pc \in {"commit", "unwind"} /\ UNCHANGED <<asked, built, disk, start>>
    BY <1>2 DEF Commit, Unwound, pool, ghosts
  <2>2. built[e] = "ok"
    BY <2>1 DEF IInv, ConfigFits, RunFits
  <2>3. PICK how \in {"applied", "failed"} : Settle(e, how)
    BY <1>2 DEF Commit, Unwound
  <2> QED BY <2>1, <2>2, <2>3, SettleSleeps
<1> QED BY <1>1, <1>2

LEMMA NextKeepInv == IInv /\ KeepInv /\ [Next]_vars => KeepInv'
<1> SUFFICES ASSUME IInv, KeepInv, [Next]_vars PROVE KeepInv'
  OBVIOUS
<1>1. CASE UNCHANGED vars
  <2>1. UNCHANGED <<asked, built, run, outcome, disk, start>>
    BY <1>1 DEF vars, pool, ghosts
  <2> QED BY <2>1, LookingKeeps DEF Sleeping, Spares
<1>2. CASE Orchestrate
  BY <1>2, OrchestrateSleeps
<1>3. ASSUME NEW e \in Config, Work(e)
      PROVE  KeepInv'
  <2>1. CASE Calls(e)
    BY <2>1, CallsKeep
  <2>2. CASE Prebuild(e)
    BY <2>2, PrebuildSleeps
  <2>3. CASE PassOver(e) \/ DryPlan(e) \/ SkipLocked(e) \/ Start(e)
    BY <2>3, StartSleeps
  <2>4. CASE Fail(e) \/ Record(e) \/ Commit(e) \/ Unwound(e)
    BY <2>4, LeaveSleeps
  <2>5. \/ Prebuild(e) \/ PassOver(e) \/ DryPlan(e) \/ SkipLocked(e) \/ Start(e)
        \/ Fail(e) \/ Record(e) \/ Commit(e) \/ Unwound(e)
        \/ Calls(e)
    BY <1>3, PreRemoveCalls, PlaceCalls, StaleCalls, AncestorCalls, UndoCalls DEF Work
  <2> QED BY <2>1, <2>2, <2>3, <2>4, <2>5
<1> QED BY <1>1, <1>2, <1>3 DEF Next, Exited

\* A config that was not selected, was skipped or did not build keeps the links
\* it had, where no selected config claims their target: no prune and no unwind
\* of another config takes them (runApplyAll, "each independently atomic").
THEOREM BystandersStay == Spec => []BystandersKeep
<1>1. IInv /\ KeepInv => BystandersKeep
  <2> SUFFICES ASSUME IInv, KeepInv, NEW c \in Config, Bystander(c)
               PROVE  \A t \in Unclaimed(c) : Here(c)[t] = start[RootDir(c)][t]
    BY DEF BystandersKeep, Unclaimed
  <2>1. Sleeping(c)
    BY DEF Sleeping, Bystander, IInv, TypeOK, InHand, ConfigFits, RunFits, OutcomeFits
  <2> QED BY <2>1 DEF KeepInv, Stands
<1> QED BY <1>1, InitKeepInv, NextKeepInv, SpecIInv, PTL DEF Spec
=============================================================================
