----------------------------- MODULE SeriesProofs -----------------------------
(***************************************************************************)
(* Theorems about Series, for any number of roots, names and runs.  The    *)
(* second is for one prune at a time; two are another matter (README.md,   *)
(* section 4).                                                             *)
(***************************************************************************)
EXTENDS Series, TLAPS

OnePruner == \A p, q \in Pruner : p = q

\* What prune p may rely on: the series it has yet to delete are as it listed
\* them; it has locked all of a series, each name but those left in todo and the
\* one it is locking, when it begins to remove it.
Found(p, r) ==
  /\ series[r] = "marked"
  /\ \A n \in pruner[p].names[r] : dir[r][n] # 0

Holds(p, r, n) == dir[r][n] # 0 /\ holder[dir[r][n]] = p

Locking(p) ==
  LET r == pruner[p].root
  IN /\ r \notin pruner[p].found
     /\ pruner[p].todo \subseteq pruner[p].names[r]
     /\ Found(p, r)
     /\ \A n \in pruner[p].names[r] \ pruner[p].todo :
          Holds(p, r, n) \/ (PruneAt(p, "flock") /\ dir[r][n] = pruner[p].inode)

Removing(p) ==
  LET r == pruner[p].root
  IN /\ r \notin pruner[p].found
     /\ pruner[p].todo \subseteq pruner[p].names[r]
     /\ series[r] = "marked"
     /\ \A n \in pruner[p].todo : Holds(p, r, n)

PruneInv(p) ==
  /\ \A r \in pruner[p].found : Found(p, r)
  /\ pruner[p].at \in {"open", "flock"} => Locking(p)
  /\ PruneAt(p, "remove") => Removing(p)

IInv == TypeOK /\ \A p \in Pruner : PruneInv(p)

-----------------------------------------------------------------------------
(* Types.  A step changes the record of at most one process.                *)

LEMMA ReleasedType ==
  ASSUME FilesTyped, NEW q
  PROVE  Released(q) \in [Inode -> Process \cup {Nobody}]
BY DEF FilesTyped, Released

LEMMA RunKeeps ==
  ASSUME RunsTyped, NEW a \in Runner, NEW rec \in Run,
         rec.at \in {"flock", "locked", "asking"} => rec.inode # 0,
         runner' = [runner EXCEPT ![a] = rec]
  PROVE  RunsTyped'
<1>1. \A b \in Runner : runner'[b] = IF b = a THEN rec ELSE runner[b]
  BY DEF RunsTyped
<1>2. runner' \in [Runner -> Run]
  BY DEF RunsTyped
<1> QED BY <1>1, <1>2 DEF RunsTyped

LEMMA PruneKeeps ==
  ASSUME PrunesTyped, NEW p \in Pruner, NEW rec \in Prune,
         rec.at = "flock" => rec.inode # 0,
         pruner' = [pruner EXCEPT ![p] = rec]
  PROVE  PrunesTyped'
<1>1. \A q \in Pruner : pruner'[q] = IF q = p THEN rec ELSE pruner[q]
  BY DEF PrunesTyped
<1>2. pruner' \in [Pruner -> Prune]
  BY DEF PrunesTyped
<1> QED BY <1>1, <1>2 DEF PrunesTyped, PruneAt

LEMMA RunGoesKeeps ==
  ASSUME RunsTyped, NEW a \in Runner, NEW step \in RunSteps,
         step \in {"flock", "locked", "asking"} => runner[a].inode # 0,
         RunGoes(a, step)
  PROVE  RunsTyped'
<1> DEFINE rec == [runner[a] EXCEPT !.at = step]
<1>1. runner[a] \in Run
  BY DEF RunsTyped
<1>2. rec \in Run /\ rec.at = step /\ rec.inode = runner[a].inode
  BY <1>1 DEF Run
<1>3. runner' = [runner EXCEPT ![a] = rec]
  BY DEF RunGoes
<1> HIDE DEF rec
<1> QED BY <1>2, <1>3, RunKeeps

LEMMA RunEndsKeeps ==
  ASSUME RunsTyped, NEW a \in Runner, RunEnds(a)
  PROVE  RunsTyped'
<1> DEFINE rec == IdleRun(runner[a].root, runner[a].name)
<1>1. runner[a] \in Run
  BY DEF RunsTyped
<1>2. rec \in Run /\ rec.at = "idle"
  BY <1>1, SeriesAssumption DEF Run, RunSteps, IdleRun
<1>3. runner' = [runner EXCEPT ![a] = rec]
  BY DEF RunEnds
<1> HIDE DEF rec
<1> QED BY <1>2, <1>3, RunKeeps

LEMMA PruneEndsKeeps ==
  ASSUME PrunesTyped, NEW p \in Pruner, PruneEnds(p)
  PROVE  PrunesTyped'
<1> DEFINE rec == IdlePrune(pruner[p].root)
<1>1. pruner[p] \in Prune
  BY DEF PrunesTyped
<1>2. rec \in Prune /\ rec.at = "idle"
  BY <1>1, SeriesAssumption DEF Prune, PruneSteps, IdlePrune
<1>3. pruner' = [pruner EXCEPT ![p] = rec]
  BY DEF PruneEnds
<1> HIDE DEF rec
<1> QED BY <1>2, <1>3, PruneKeeps

LEMMA PruneGoesKeeps ==
  ASSUME PrunesTyped, NEW p \in Pruner, NEW step \in PruneSteps \ {"flock"},
         PruneGoes(p, step)
  PROVE  PrunesTyped'
<1> DEFINE rec == [pruner[p] EXCEPT !.at = step]
<1>1. pruner[p] \in Prune
  BY DEF PrunesTyped
<1>2. rec \in Prune /\ rec.at = step
  BY <1>1 DEF Prune
<1>3. pruner' = [pruner EXCEPT ![p] = rec]
  BY DEF PruneGoes
<1> HIDE DEF rec
<1> QED BY <1>2, <1>3, PruneKeeps

LEMMA InitTypes == Init => TypeOK
<1> SUFFICES ASSUME Init PROVE TypeOK
  OBVIOUS
<1>1. FilesTyped
  BY SeriesAssumption DEF Init, FilesTyped
<1>2. RunsTyped
  BY SeriesAssumption DEF Init, RunsTyped, Run, IdleRun, RunSteps
<1>3. PrunesTyped
  BY SeriesAssumption DEF Init, PrunesTyped, Prune, IdlePrune, PruneSteps, PruneAt
<1> QED BY <1>1, <1>2, <1>3 DEF TypeOK

\* A step of a run keeps the types.
LEMMA RunTypes ==
  ASSUME TypeOK, NEW a \in Runner, RunStep(a)
  PROVE  TypeOK'
<1>1. /\ runner[a] \in Run /\ runner[a].root \in Root /\ runner[a].name \in Name
      /\ runner[a].inode \in 0 .. MaxInodes
  BY DEF TypeOK, RunsTyped, Run
<1>2. FilesTyped /\ RunsTyped /\ PrunesTyped
  BY DEF TypeOK
<1>3. UNCHANGED pruner
  BY DEF RunStep, MakeSeries, MakeProfileDir, WriteBackref, Open, Flock, GiveUp, EndRun
<1>4. PrunesTyped'
  BY <1>2, <1>3 DEF PrunesTyped, PruneAt
<1>5. CASE MakeSeries(a)
  <2>1. FilesTyped'
    BY <1>1, <1>2, <1>5 DEF FilesTyped, MakeSeries
  <2>2. RunsTyped'
    <3>1. PICK step \in {"mkdirName", "backref"} : RunGoes(a, step)
      BY <1>5 DEF MakeSeries
    <3> QED BY <1>2, <3>1, RunGoesKeeps DEF RunSteps
  <2> QED BY <1>4, <2>1, <2>2 DEF TypeOK
<1>6. CASE MakeProfileDir(a)
  <2>1. FilesTyped'
    <3>1. CASE UNCHANGED <<dir, spent>>
      BY <1>2, <1>6, <3>1 DEF FilesTyped, MakeProfileDir
    <3>2. CASE /\ spent.inodes < MaxInodes
               /\ dir' = [dir EXCEPT ![runner[a].root][runner[a].name] = spent.inodes + 1]
               /\ spent' = [spent EXCEPT !.inodes = @ + 1]
      <4>1. spent.inodes + 1 \in 0 .. MaxInodes
        BY <1>2, <3>2, SeriesAssumption DEF FilesTyped
      <4>2. dir' \in [Root -> [Name -> 0 .. MaxInodes]]
        BY <1>1, <1>2, <3>2, <4>1 DEF FilesTyped
      <4>3. spent' \in [inodes : 0 .. MaxInodes, runs : Nat, roots : Nat, crashes : Nat]
        BY <1>2, <3>2, <4>1 DEF FilesTyped
      <4> QED BY <1>2, <1>6, <4>2, <4>3 DEF FilesTyped, MakeProfileDir
    <3> QED BY <1>6, <3>1, <3>2 DEF MakeProfileDir
  <2>2. RunsTyped'
    BY <1>2, <1>6, RunGoesKeeps DEF MakeProfileDir, RunSteps
  <2> QED BY <1>4, <2>1, <2>2 DEF TypeOK
<1>7. CASE WriteBackref(a)
  <2>1. FilesTyped'
    BY <1>1, <1>2, <1>7 DEF FilesTyped, WriteBackref
  <2>2. RunsTyped'
    BY <1>2, <1>7, RunGoesKeeps DEF WriteBackref, RunSteps
  <2> QED BY <1>4, <2>1, <2>2 DEF TypeOK
<1>8. CASE Open(a)
  <2> DEFINE i == dir[runner[a].root][runner[a].name]
             rec == [runner[a] EXCEPT !.at = "flock", !.inode = i]
  <2>1. i \in 0 .. MaxInodes /\ i # 0
    BY <1>1, <1>2, <1>8 DEF FilesTyped, Open
  <2>2. rec \in Run /\ rec.inode = i
    BY <1>1, <2>1 DEF Run, RunSteps
  <2>3. runner' = [runner EXCEPT ![a] = rec]
    BY <1>8 DEF Open
  <2>4. FilesTyped'
    BY <1>2, <1>8 DEF FilesTyped, Open
  <2> HIDE DEF rec
  <2>5. RunsTyped'
    BY <1>2, <2>1, <2>2, <2>3, RunKeeps
  <2> QED BY <1>4, <2>4, <2>5 DEF TypeOK
<1>9. CASE Flock(a)
  <2>1. FilesTyped'
    BY <1>2, <1>9 DEF FilesTyped, Flock, Process
  <2>2. runner[a].inode # 0
    BY <1>2, <1>9 DEF Flock, RunAt, RunsTyped
  <2>3. PICK step \in {"locked", "asking"} :
          runner' = [runner EXCEPT ![a].at = step, ![a].wait = TRUE, ![a].asks = FALSE]
    BY <1>9 DEF Flock
  <2> DEFINE rec == [runner[a] EXCEPT !.at = step, !.wait = TRUE, !.asks = FALSE]
  <2>4. RunsTyped'
    <3>1. rec \in Run /\ rec.inode # 0 /\ runner' = [runner EXCEPT ![a] = rec]
      BY <1>1, <2>2, <2>3 DEF Run, RunSteps
    <3> HIDE DEF rec
    <3> QED BY <1>2, <3>1, RunKeeps
  <2> QED BY <1>4, <2>1, <2>4 DEF TypeOK
<1>10. CASE GiveUp(a)
  <2>1. FilesTyped'
    BY <1>2, <1>10 DEF FilesTyped, GiveUp
  <2>2. RunsTyped'
    BY <1>2, <1>10, RunEndsKeeps DEF GiveUp
  <2> QED BY <1>4, <2>1, <2>2 DEF TypeOK
<1>11. CASE EndRun(a)
  <2>1. FilesTyped'
    BY <1>1, <1>2, <1>11, ReleasedType DEF FilesTyped, EndRun
  <2>2. RunsTyped'
    BY <1>2, <1>11, RunEndsKeeps DEF EndRun
  <2> QED BY <1>4, <2>1, <2>2 DEF TypeOK
<1> QED BY <1>5, <1>6, <1>7, <1>8, <1>9, <1>10, <1>11 DEF RunStep

LEMMA AnswerTypes ==
  ASSUME TypeOK, NEW a \in Runner, Answer(a)
  PROVE  TypeOK'
<1>1. FilesTyped' /\ PrunesTyped'
  BY DEF TypeOK, FilesTyped, PrunesTyped, Answer, PruneAt
<1>2. runner[a].inode # 0
  BY DEF TypeOK, RunsTyped, Answer, RunAt
<1>3. RunsTyped'
  BY <1>2, RunGoesKeeps DEF TypeOK, Answer, RunSteps
<1> QED BY <1>1, <1>3 DEF TypeOK

LEMMA StartedTypes ==
  ASSUME TypeOK, NEW a \in Runner, NEW step \in {"mkdir", "open"}, NEW r \in Root,
         NEW n \in Name, NEW wait \in BOOLEAN, NEW asks \in BOOLEAN,
         Started(a, step, r, n, wait, asks)
  PROVE  TypeOK'
<1>1. spent' \in [inodes : 0 .. MaxInodes, runs : Nat, roots : Nat, crashes : Nat]
  <2>1. spent \in [inodes : 0 .. MaxInodes, runs : Nat, roots : Nat, crashes : Nat]
    BY DEF TypeOK, FilesTyped
  <2>2. spent' = [spent EXCEPT !.runs = @ + 1]
    BY DEF Started
  <2> QED BY <2>1, <2>2
<1>2. RunsTyped'
  <2> DEFINE rec == [at |-> step, root |-> r, name |-> n, inode |-> 0, wait |-> wait,
                     asks |-> asks]
  <2>1. rec \in Run /\ rec.at \notin {"flock", "locked", "asking"}
    BY SeriesAssumption DEF Run, RunSteps
  <2>2. runner' = [runner EXCEPT ![a] = rec]
    BY DEF Started
  <2> HIDE DEF rec
  <2> QED BY <2>1, <2>2, RunKeeps DEF TypeOK
<1>3. FilesTyped'
  BY <1>1 DEF TypeOK, FilesTyped, Started
<1>4. PrunesTyped'
  BY DEF TypeOK, PrunesTyped, Started, PruneAt
<1> QED BY <1>2, <1>3, <1>4 DEF TypeOK

\* A run of any kind begins.
Starts(a) ==
  \E r \in Root, n \in Name :
    \/ \E w \in BOOLEAN : StartRun(a, r, n, w)
    \/ StartReset(a, r, n)
    \/ StartRollback(a, r, n)

LEMMA StartsAs ==
  ASSUME NEW a \in Runner, Starts(a)
  PROVE  \E step \in {"mkdir", "open"}, r \in Root, n \in Name,
           wait \in BOOLEAN, asks \in BOOLEAN : Started(a, step, r, n, wait, asks)
BY Zenon DEF Starts, StartRun, StartReset, StartRollback

\* A step of a prune keeps the types.
LEMMA PruneTypes ==
  ASSUME TypeOK, NEW p \in Pruner, StartPrune(p) \/ Confirm(p) \/ PruneStep(p)
  PROVE  TypeOK'
<1>1. /\ pruner[p] \in Prune /\ pruner[p].root \in Root /\ pruner[p].todo \subseteq Name
      /\ pruner[p].found \subseteq Root /\ pruner[p].judging \subseteq Root
      /\ pruner[p].names \in [Root -> SUBSET Name]
      /\ pruner[p].inode \in 0 .. MaxInodes
  BY DEF TypeOK, PrunesTyped, Prune
<1>2. FilesTyped /\ RunsTyped /\ PrunesTyped
  BY DEF TypeOK
<1>3. UNCHANGED runner
  BY DEF StartPrune, Confirm, PruneStep, Judge, NextSeries, PruneOpen, RemoveProfileDir,
         TryFlock, SkipLocked, AllLocked, RemoveBackref, RemoveSeries
<1>4. RunsTyped'
  BY <1>2, <1>3 DEF RunsTyped
<1>5. FilesTyped'
  <2>1. CASE UNCHANGED <<root, series, dir, holder, spent>>
    BY <1>2, <2>1 DEF FilesTyped
  <2>2. ASSUME NEW n \in Name, RemoveProfileDir(p, n) PROVE FilesTyped'
    BY <1>1, <1>2, <2>2, SeriesAssumption DEF FilesTyped, RemoveProfileDir
  <2>3. CASE TryFlock(p)
    BY <1>2, <2>3 DEF FilesTyped, TryFlock, Process
  <2>4. CASE SkipLocked(p)
    BY <1>2, <2>4, ReleasedType DEF FilesTyped, SkipLocked
  <2>5. CASE RemoveBackref(p)
    BY <1>1, <1>2, <2>5 DEF FilesTyped, RemoveBackref
  <2>6. CASE RemoveSeries(p)
    BY <1>1, <1>2, <2>6, ReleasedType DEF FilesTyped, RemoveSeries
  <2> QED BY <2>1, <2>2, <2>3, <2>4, <2>5, <2>6
          DEF StartPrune, Confirm, PruneStep, Judge, NextSeries, PruneOpen, AllLocked
<1>6. ASSUME NEW step \in PruneSteps \ {"flock"}, PruneGoes(p, step)
      PROVE  PrunesTyped'
  BY <1>2, <1>6, PruneGoesKeeps
<1>7. ASSUME PruneEnds(p) PROVE PrunesTyped'
  BY <1>2, <1>7, PruneEndsKeeps
<1>8. PrunesTyped'
  <2>1. CASE StartPrune(p)
    <3> DEFINE rec == [pruner[p] EXCEPT !.at = "judge", !.judging = Root, !.found = {}]
    <3>1. rec \in Prune /\ rec.at # "flock"
      BY <1>1 DEF Prune, PruneSteps
    <3>2. pruner' = [pruner EXCEPT ![p] = rec]
      BY <2>1 DEF StartPrune
    <3> HIDE DEF rec
    <3> QED BY <1>2, <3>1, <3>2, PruneKeeps
  <2>2. CASE Confirm(p)
    BY <1>6, <1>7, <2>2 DEF Confirm, PruneSteps
  <2>3. ASSUME NEW r \in Root, Judge(p, r) PROVE PrunesTyped'
    <3> DEFINE found == IF series[r] = "marked" /\ r \notin root
                          THEN pruner[p].found \cup {r} ELSE pruner[p].found
               rec == [pruner[p] EXCEPT !.judging = @ \ {r}, !.found = found,
                                        !.names[r] = Listed(r)]
    <3>1. found \subseteq Root /\ Listed(r) \subseteq Name
      BY <1>1 DEF Listed
    <3>2. pruner[p].at = "judge"
      BY <2>3 DEF Judge, PruneAt
    <3>3. pruner' = [pruner EXCEPT ![p] = rec]
      BY <2>3 DEF Judge
    <3> HIDE DEF found
    <3>4. rec \in Prune /\ rec.at # "flock"
      BY <1>1, <3>1, <3>2 DEF Prune
    <3> HIDE DEF rec
    <3> QED BY <1>2, <3>3, <3>4, PruneKeeps
  <2>4. CASE NextSeries(p)
    <3>1. CASE PruneEnds(p)
      BY <1>7, <3>1
    <3>2. ASSUME NEW r \in pruner[p].found,
                 pruner' = [pruner EXCEPT ![p].at = "open", ![p].found = @ \ {r},
                                          ![p].root = r, ![p].todo = pruner[p].names[r]]
          PROVE  PrunesTyped'
      <4> DEFINE rec == [pruner[p] EXCEPT !.at = "open", !.found = @ \ {r},
                                          !.root = r, !.todo = pruner[p].names[r]]
      <4>1. r \in Root /\ pruner[p].names[r] \subseteq Name
        BY <1>1
      <4>2. rec \in Prune /\ rec.at # "flock"
        BY <1>1, <4>1 DEF Prune, PruneSteps
      <4>3. pruner' = [pruner EXCEPT ![p] = rec]
        BY <3>2
      <4> HIDE DEF rec
      <4> QED BY <1>2, <4>2, <4>3, PruneKeeps
    <3> QED BY <2>4, <3>1, <3>2 DEF NextSeries
  <2>5. ASSUME NEW n \in Name, PruneOpen(p, n) PROVE PrunesTyped'
    <3> DEFINE i == dir[pruner[p].root][n]
               rec == [pruner[p] EXCEPT !.at = "flock", !.todo = @ \ {n}, !.inode = i]
    <3>1. i \in 0 .. MaxInodes /\ i # 0
      BY <1>1, <1>2, <2>5 DEF FilesTyped, PruneOpen
    <3>2. rec \in Prune /\ rec.inode = i
      BY <1>1, <3>1 DEF Prune, PruneSteps
    <3>3. pruner' = [pruner EXCEPT ![p] = rec]
      BY <2>5 DEF PruneOpen
    <3> HIDE DEF rec
    <3> QED BY <1>2, <3>1, <3>2, <3>3, PruneKeeps
  <2>6. ASSUME NEW n \in Name, RemoveProfileDir(p, n) PROVE PrunesTyped'
    <3> DEFINE rec == [pruner[p] EXCEPT !.todo = @ \ {n}]
    <3>1. rec \in Prune /\ rec.at # "flock"
      BY <1>1, <2>6 DEF Prune, RemoveProfileDir, PruneAt
    <3>2. pruner' = [pruner EXCEPT ![p] = rec]
      BY <2>6 DEF RemoveProfileDir
    <3> HIDE DEF rec
    <3> QED BY <1>2, <3>1, <3>2, PruneKeeps
  <2>7. CASE AllLocked(p)
    <3> DEFINE rec == [pruner[p] EXCEPT !.at = "remove",
                                        !.todo = pruner[p].names[pruner[p].root]]
    <3>1. rec \in Prune /\ rec.at # "flock"
      BY <1>1 DEF Prune, PruneSteps
    <3>2. pruner' = [pruner EXCEPT ![p] = rec]
      BY <2>7 DEF AllLocked
    <3> HIDE DEF rec
    <3> QED BY <1>2, <3>1, <3>2, PruneKeeps
  <2>8. CASE TryFlock(p) \/ SkipLocked(p) \/ RemoveBackref(p) \/ RemoveSeries(p)
    BY <1>6, <1>7, <2>8 DEF TryFlock, SkipLocked, RemoveBackref, RemoveSeries, PruneSteps
  <2> QED BY <2>1, <2>2, <2>3, <2>4, <2>5, <2>6, <2>7, <2>8 DEF PruneStep
<1> QED BY <1>4, <1>5, <1>8 DEF TypeOK

LEMMA EventTypes ==
  ASSUME TypeOK, (\E q \in Process : Crash(q)) \/ (\E r \in Root : RootChanges(r))
  PROVE  TypeOK'
<1>1. FilesTyped /\ RunsTyped /\ PrunesTyped
  BY DEF TypeOK
<1>2. ASSUME NEW q \in Process, Crash(q)
      PROVE  TypeOK'
  <2>1. FilesTyped'
    BY <1>1, <1>2, ReleasedType DEF FilesTyped, Crash
  <2>2. RunsTyped'
    <3>1. CASE UNCHANGED runner
      BY <1>1, <3>1 DEF RunsTyped
    <3>2. CASE q \in Runner /\ RunEnds(q)
      BY <1>1, <3>2, RunEndsKeeps
    <3> QED BY <1>2, <3>1, <3>2 DEF Crash
  <2>3. PrunesTyped'
    <3>1. CASE UNCHANGED pruner
      BY <1>1, <3>1 DEF PrunesTyped, PruneAt
    <3>2. CASE q \in Pruner /\ PruneEnds(q)
      BY <1>1, <3>2, PruneEndsKeeps
    <3> QED BY <1>2, <3>1, <3>2 DEF Crash
  <2> QED BY <2>1, <2>2, <2>3 DEF TypeOK
<1>3. ASSUME NEW r \in Root, RootChanges(r)
      PROVE  TypeOK'
  <2>1. FilesTyped'
    BY <1>1, <1>3 DEF FilesTyped, RootChanges
  <2>2. RunsTyped' /\ PrunesTyped'
    BY <1>1, <1>3 DEF RunsTyped, PrunesTyped, PruneAt, RootChanges
  <2> QED BY <2>1, <2>2 DEF TypeOK
<1> QED BY <1>2, <1>3

LEMMA NextTypes == TypeOK /\ [Next]_vars => TypeOK'
<1> SUFFICES ASSUME TypeOK, [Next]_vars
             PROVE  TypeOK'
  OBVIOUS
<1>1. CASE UNCHANGED vars
  BY <1>1 DEF vars, TypeOK, FilesTyped, RunsTyped, PrunesTyped, PruneAt
<1>2. CASE Next
  <2>1. ASSUME NEW a \in Runner, Starts(a) PROVE TypeOK'
    BY <2>1, StartsAs, StartedTypes
  <2> QED BY <1>2, <2>1, RunTypes, AnswerTypes, PruneTypes, EventTypes DEF Next, Starts
<1> QED BY <1>1, <1>2

\* The processes and the series keep their types, and what a process locks it
\* has opened (lock.go Acquire).
THEOREM SeriesTypeCorrect == Spec => []TypeOK
BY InitTypes, NextTypes, PTL DEF Spec

-----------------------------------------------------------------------------
(* What a prune relies on.  Runs make series and never unmake them, and a   *)
(* lock goes with its process; so only another prune could interfere.       *)

\* What prune p relies on stays as it is.
Kept(p) ==
  /\ \A r \in Root : series[r] = "marked" => series'[r] = "marked"
  /\ \A r \in Root : \A n \in Name : dir[r][n] # 0 => dir'[r][n] = dir[r][n]
  /\ \A i \in Inode : holder[i] = p => holder'[i] = p

LEMMA PrunerFacts ==
  ASSUME TypeOK, NEW p \in Pruner
  PROVE  /\ pruner[p] \in Prune /\ pruner[p].root \in Root
         /\ pruner[p].todo \subseteq Name /\ pruner[p].found \subseteq Root
         /\ \A r \in Root : pruner[p].names[r] \subseteq Name
         /\ \A r \in Root : \A n \in Name :
              dir[r][n] \in 0 .. MaxInodes /\ (dir[r][n] # 0 => dir[r][n] \in Inode)
BY SeriesAssumption DEF TypeOK, FilesTyped, PrunesTyped, Prune, Inode

LEMMA FoundKept ==
  ASSUME TypeOK, NEW p \in Pruner, Kept(p), NEW r \in Root, Found(p, r),
         pruner'[p].names = pruner[p].names
  PROVE  Found(p, r)'
BY PrunerFacts DEF Found, Kept

LEMMA HoldsKept ==
  ASSUME TypeOK, NEW p \in Pruner, Kept(p), NEW r \in Root, NEW n \in Name, Holds(p, r, n)
  PROVE  Holds(p, r, n)'
BY PrunerFacts DEF Holds, Kept

LEMMA OthersKeep ==
  ASSUME TypeOK, NEW p \in Pruner, PruneInv(p), Kept(p), pruner'[p] = pruner[p]
  PROVE  PruneInv(p)'
<1> DEFINE r == pruner[p].root
<1>1. r \in Root /\ pruner[p].names[r] \subseteq Name /\ pruner[p].found \subseteq Root
      /\ pruner[p].todo \subseteq Name
  BY PrunerFacts
<1>2. \A q \in pruner[p].found : Found(p, q)'
  BY <1>1, FoundKept DEF PruneInv
<1>3. pruner[p].at \in {"open", "flock"} => Locking(p)'
  <2> SUFFICES ASSUME pruner[p].at \in {"open", "flock"}
               PROVE  Locking(p)'
    OBVIOUS
  <2>1. Locking(p)
    BY DEF PruneInv
  <2>2. Found(p, r)'
    BY <1>1, <2>1, FoundKept DEF Locking
  <2>3. \A n \in pruner[p].names[r] \ pruner[p].todo :
          Holds(p, r, n)' \/ (PruneAt(p, "flock") /\ dir'[r][n] = pruner[p].inode)
    <3> SUFFICES ASSUME NEW n \in pruner[p].names[r] \ pruner[p].todo
                 PROVE  Holds(p, r, n)'
                        \/ (PruneAt(p, "flock") /\ dir'[r][n] = pruner[p].inode)
      OBVIOUS
    <3>1. n \in Name /\ dir'[r][n] = dir[r][n]
      BY <1>1, <2>1 DEF Locking, Found, Kept
    <3> QED BY <1>1, <2>1, <3>1, HoldsKept DEF Locking
  <2> QED BY <2>1, <2>2, <2>3 DEF Locking, PruneAt
<1>4. PruneAt(p, "remove") => Removing(p)'
  <2> SUFFICES ASSUME PruneAt(p, "remove")
               PROVE  Removing(p)'
    OBVIOUS
  <2>1. Removing(p)
    BY DEF PruneInv
  <2>2. \A n \in pruner[p].todo : Holds(p, r, n)'
    BY <1>1, <2>1, HoldsKept DEF Removing
  <2>3. series'[r] = "marked"
    BY <1>1, <2>1 DEF Removing, Kept
  <2> QED BY <2>1, <2>2, <2>3 DEF Removing
<1> QED BY <1>2, <1>3, <1>4 DEF PruneInv, PruneAt

LEMMA ReleasedKeeps ==
  ASSUME NEW p, NEW q, p # q, holder' = Released(q), NEW i \in Inode, holder[i] = p
  PROVE  holder'[i] = p
BY DEF Released

\* A run removes no profileDir.
LEMMA RunsKeepDirs ==
  ASSUME TypeOK, NEW a \in Runner, RunStep(a)
  PROVE  \A r \in Root : \A n \in Name : dir[r][n] # 0 => dir'[r][n] = dir[r][n]
<1>1. CASE MakeProfileDir(a)
  <2>1. runner[a].root \in Root /\ runner[a].name \in Name
    BY DEF TypeOK, RunsTyped, Run
  <2>2. dir \in [Root -> [Name -> 0 .. MaxInodes]]
    BY DEF TypeOK, FilesTyped
  <2> QED BY <1>1, <2>1, <2>2 DEF MakeProfileDir
<1>2. CASE UNCHANGED dir
  BY <1>2
<1> QED BY <1>1, <1>2
        DEF RunStep, MakeSeries, WriteBackref, Open, Flock, GiveUp, EndRun

\* A run leaves what a prune relies on.
LEMMA RunKept ==
  ASSUME TypeOK, NEW a \in Runner, NEW p \in Pruner, RunStep(a)
  PROVE  Kept(p) /\ pruner' = pruner
<1>1. a # p /\ p # Nobody
  BY SeriesAssumption
<1>2. pruner' = pruner
  BY DEF RunStep, MakeSeries, MakeProfileDir, WriteBackref, Open, Flock, GiveUp, EndRun
<1>3. \A r \in Root : series[r] = "marked" => series'[r] = "marked"
  BY DEF RunStep, MakeSeries, MakeProfileDir, WriteBackref, Open, Flock, GiveUp, EndRun,
         TypeOK, FilesTyped
<1>4. \A r \in Root : \A n \in Name : dir[r][n] # 0 => dir'[r][n] = dir[r][n]
  BY RunsKeepDirs
<1>5. \A i \in Inode : holder[i] = p => holder'[i] = p
  <2>1. CASE Flock(a)
    BY <1>1, <2>1 DEF Flock, TypeOK, FilesTyped
  <2>2. CASE EndRun(a)
    BY <1>1, <2>2, ReleasedKeeps DEF EndRun
  <2>3. CASE UNCHANGED holder
    BY <2>3
  <2> QED BY <2>1, <2>2, <2>3
          DEF RunStep, MakeSeries, MakeProfileDir, WriteBackref, Open, GiveUp
<1> QED BY <1>2, <1>3, <1>4, <1>5 DEF Kept

\* Away from locking and removing, a prune relies on the series it found.
LEMMA OnlyFound ==
  ASSUME TypeOK, NEW p \in Pruner, PruneInv(p),
         pruner'[p].at \notin {"open", "flock", "remove"},
         pruner'[p].found \subseteq pruner[p].found,
         pruner'[p].names = pruner[p].names,
         \A r \in pruner[p].found : series'[r] = series[r] /\ dir'[r] = dir[r]
  PROVE  PruneInv(p)'
<1>1. \A r \in pruner'[p].found : Found(p, r)'
  BY DEF PruneInv, Found
<1> QED BY <1>1 DEF PruneInv, PruneAt

LEMMA JudgeInv ==
  ASSUME TypeOK, NEW p \in Pruner, PruneInv(p), NEW r \in Root, Judge(p, r)
  PROVE  PruneInv(p)'
<1> DEFINE found == IF series[r] = "marked" /\ r \notin root
                      THEN pruner[p].found \cup {r} ELSE pruner[p].found
<1>1. pruner[p] \in Prune /\ pruner[p].names \in [Root -> SUBSET Name]
      /\ pruner[p].found \subseteq Root
  BY PrunerFacts DEF Prune
<1>2. /\ pruner'[p].at = "judge"
      /\ pruner'[p].found = found
      /\ pruner'[p].names = [pruner[p].names EXCEPT ![r] = Listed(r)]
  BY <1>1 DEF Judge, PruneAt, TypeOK, PrunesTyped, Prune
<1>3. series' = series /\ dir' = dir
  BY DEF Judge
<1>4. ASSUME NEW q \in found
      PROVE  Found(p, q)'
  <2>1. series[q] = "marked" /\ (q # r => Found(p, q)) /\ q \in Root
    BY <1>1, <1>4 DEF PruneInv, Found
  <2>2. \A n \in pruner'[p].names[q] : dir[q][n] # 0
    BY <1>1, <1>2, <2>1 DEF Found, Listed
  <2> QED BY <1>3, <2>1, <2>2 DEF Found
<1> HIDE DEF found
<1> QED BY <1>2, <1>4 DEF PruneInv, PruneAt

\* A prune that ends has nothing to rely on.
LEMMA EndsInv ==
  ASSUME TypeOK, NEW p \in Pruner, PruneEnds(p)
  PROVE  PruneInv(p)'
<1>1. pruner'[p] = IdlePrune(pruner[p].root)
  BY DEF PruneEnds, TypeOK, PrunesTyped
<1>2. pruner'[p].at = "idle" /\ pruner'[p].found = {}
  BY <1>1 DEF IdlePrune
<1> QED BY <1>2 DEF PruneInv, PruneAt

LEMMA NextSeriesInv ==
  ASSUME TypeOK, NEW p \in Pruner, PruneInv(p), NextSeries(p)
  PROVE  PruneInv(p)'
<1>1. pruner[p] \in Prune /\ series' = series /\ dir' = dir /\ holder' = holder
  BY PrunerFacts DEF NextSeries
<1>2. CASE PruneEnds(p)
  BY <1>2, EndsInv
<1>3. ASSUME NEW r \in pruner[p].found,
             pruner' = [pruner EXCEPT ![p].at = "open", ![p].found = @ \ {r},
                                      ![p].root = r, ![p].todo = pruner[p].names[r]]
      PROVE  PruneInv(p)'
  <2>1. /\ pruner'[p].at = "open" /\ pruner'[p].found = pruner[p].found \ {r}
        /\ pruner'[p].root = r /\ pruner'[p].todo = pruner[p].names[r]
        /\ pruner'[p].names = pruner[p].names
    BY <1>1, <1>3 DEF TypeOK, PrunesTyped, Prune
  <2>2. \A q \in pruner[p].found : Found(p, q)'
    BY <1>1, <2>1 DEF PruneInv, Found
  <2>3. Locking(p)'
    BY <2>1, <2>2 DEF Locking
  <2> QED BY <2>1, <2>2, <2>3 DEF PruneInv, PruneAt
<1> QED BY <1>2, <1>3 DEF NextSeries

LEMMA PruneOpenInv ==
  ASSUME TypeOK, NEW p \in Pruner, PruneInv(p), NEW n \in Name, PruneOpen(p, n)
  PROVE  PruneInv(p)'
<1> DEFINE r == pruner[p].root
<1>1. pruner[p] \in Prune /\ series' = series /\ dir' = dir /\ holder' = holder
  BY PrunerFacts DEF PruneOpen
<1>2. /\ pruner'[p].at = "flock" /\ pruner'[p].found = pruner[p].found
      /\ pruner'[p].root = r /\ pruner'[p].todo = pruner[p].todo \ {n}
      /\ pruner'[p].names = pruner[p].names /\ pruner'[p].inode = dir[r][n]
  BY <1>1 DEF PruneOpen, TypeOK, PrunesTyped, Prune
<1>3. pruner[p].at = "open" /\ Locking(p)
  BY DEF PruneOpen, PruneInv, PruneAt
<1>4. \A q \in pruner[p].found : Found(p, q)'
  BY <1>1, <1>2 DEF PruneInv, Found
<1>5. Locking(p)'
  <2>1. Found(p, r)'
    BY <1>1, <1>2, <1>3 DEF Locking, Found
  <2>2. \A m \in pruner[p].names[r] \ pruner[p].todo : Holds(p, r, m)'
    BY <1>1, <1>2, <1>3 DEF Locking, Holds, PruneAt
  <2> HIDE DEF r
  <2>3. \A m \in pruner[p].names[r] \ (pruner[p].todo \ {n}) :
          Holds(p, r, m)' \/ dir'[r][m] = dir[r][n]
    BY <1>1, <2>2
  <2> USE DEF r
  <2> QED BY <1>2, <1>3, <2>1, <2>3 DEF Locking, PruneAt
<1> QED BY <1>2, <1>4, <1>5 DEF PruneInv, PruneAt

LEMMA TryFlockInv ==
  ASSUME TypeOK, NEW p \in Pruner, PruneInv(p), TryFlock(p)
  PROVE  PruneInv(p)'
<1> DEFINE r == pruner[p].root
           i == pruner[p].inode
<1>1. pruner[p] \in Prune /\ series' = series /\ dir' = dir
      /\ r \in Root /\ pruner[p].names[r] \subseteq Name
  BY PrunerFacts DEF TryFlock
<1>2. /\ pruner'[p].at = "open" /\ pruner'[p].found = pruner[p].found
      /\ pruner'[p].root = r /\ pruner'[p].todo = pruner[p].todo
      /\ pruner'[p].names = pruner[p].names
  BY <1>1 DEF TryFlock, PruneGoes, TypeOK, PrunesTyped, Prune
<1>3. Locking(p)
  BY DEF TryFlock, PruneInv, PruneAt
<1>4. \A q \in pruner[p].found : Found(p, q)'
  BY <1>1, <1>2 DEF PruneInv, Found
<1>5. \A j \in Inode : holder[j] = p \/ j = i => holder'[j] = p
  BY DEF TryFlock, TypeOK, FilesTyped
<1>6. Locking(p)'
  <2>1. Found(p, r)'
    BY <1>1, <1>2, <1>3 DEF Locking, Found
  <2>2. \A n \in pruner[p].names[r] \ pruner[p].todo : Holds(p, r, n)'
    <3> SUFFICES ASSUME NEW n \in pruner[p].names[r] \ pruner[p].todo
                 PROVE  Holds(p, r, n)'
      OBVIOUS
    <3>1. dir[r][n] # 0 /\ (holder[dir[r][n]] = p \/ dir[r][n] = i)
      BY <1>3 DEF Locking, Found, Holds
    <3>2. dir[r][n] \in Inode
      BY <1>1, <3>1, PrunerFacts
    <3> QED BY <1>1, <1>2, <1>5, <3>1, <3>2 DEF Holds
  <2> QED BY <1>2, <1>3, <2>1, <2>2 DEF Locking
<1> QED BY <1>2, <1>4, <1>6 DEF PruneInv, PruneAt

LEMMA AllLockedInv ==
  ASSUME TypeOK, NEW p \in Pruner, PruneInv(p), AllLocked(p)
  PROVE  PruneInv(p)'
<1> DEFINE r == pruner[p].root
<1>1. pruner[p] \in Prune /\ series' = series /\ dir' = dir /\ holder' = holder
  BY PrunerFacts DEF AllLocked
<1>2. /\ pruner'[p].at = "remove" /\ pruner'[p].found = pruner[p].found
      /\ pruner'[p].root = r /\ pruner'[p].todo = pruner[p].names[r]
      /\ pruner'[p].names = pruner[p].names
  BY <1>1 DEF AllLocked, TypeOK, PrunesTyped, Prune
<1>3. pruner[p].at = "open" /\ pruner[p].todo = {} /\ Locking(p)
  BY DEF AllLocked, PruneInv, PruneAt
<1>4. \A q \in pruner[p].found : Found(p, q)'
  BY <1>1, <1>2 DEF PruneInv, Found
<1>5. \A n \in pruner[p].names[r] : Holds(p, r, n)'
  BY <1>1, <1>2, <1>3 DEF Locking, Holds, PruneAt
<1>6. Removing(p)'
  BY <1>1, <1>2, <1>3, <1>5 DEF Removing, Locking, Found
<1> QED BY <1>2, <1>4, <1>6 DEF PruneInv, PruneAt

LEMMA RemoveProfileDirInv ==
  ASSUME TypeOK, NEW p \in Pruner, PruneInv(p), NEW n \in Name, RemoveProfileDir(p, n)
  PROVE  PruneInv(p)'
<1> DEFINE r == pruner[p].root
<1>1. pruner[p] \in Prune /\ series' = series /\ holder' = holder
      /\ r \in Root /\ pruner[p].todo \subseteq Name /\ pruner[p].found \subseteq Root
  BY PrunerFacts DEF RemoveProfileDir
<1>2. /\ pruner'[p].at = "remove" /\ pruner'[p].found = pruner[p].found
      /\ pruner'[p].root = r /\ pruner'[p].todo = pruner[p].todo \ {n}
      /\ pruner'[p].names = pruner[p].names
  BY <1>1 DEF RemoveProfileDir, PruneAt, TypeOK, PrunesTyped, Prune
<1>3. Removing(p)
  BY DEF RemoveProfileDir, PruneInv
<1>4. \A q \in Root : \A m \in Name : q # r \/ m # n => dir'[q][m] = dir[q][m]
  BY <1>1 DEF RemoveProfileDir, TypeOK, FilesTyped
<1>5. \A q \in pruner[p].found : Found(p, q)'
  BY <1>1, <1>2, <1>3, <1>4, PrunerFacts DEF PruneInv, Found, Removing
<1>6. \A m \in pruner[p].todo \ {n} : Holds(p, r, m)'
  BY <1>1, <1>2, <1>3, <1>4 DEF Removing, Holds
<1>7. Removing(p)'
  BY <1>1, <1>2, <1>3, <1>6 DEF Removing
<1> QED BY <1>2, <1>5, <1>7 DEF PruneInv, PruneAt

\* The steps of a prune that leave it with no series at hand.
LEMMA DropInv ==
  ASSUME TypeOK, NEW p \in Pruner, PruneInv(p),
         \/ StartPrune(p) \/ Confirm(p) \/ SkipLocked(p)
         \/ RemoveBackref(p) \/ RemoveSeries(p)
         \/ Crash(p) /\ PruneEnds(p)
  PROVE  PruneInv(p)'
<1>1. pruner[p] \in Prune /\ pruner[p].found \subseteq Root /\ pruner[p].root \in Root
  BY PrunerFacts
<1>2. dir' = dir
  BY DEF StartPrune, Confirm, SkipLocked, RemoveBackref, RemoveSeries, Crash
<1>3. CASE StartPrune(p)
  <2>1. pruner'[p].at = "judge" /\ pruner'[p].found = {}
    BY <1>1, <1>3 DEF StartPrune, TypeOK, PrunesTyped, Prune
  <2> QED BY <2>1 DEF PruneInv, PruneAt
<1>4. CASE PruneEnds(p)
  BY <1>4, EndsInv
<1>5. CASE ~StartPrune(p) /\ ~PruneEnds(p)
  <2>1. PICK step \in {"next", "rmdir"} : PruneGoes(p, step)
    BY <1>5 DEF Confirm, SkipLocked, RemoveBackref, RemoveSeries
  <2>2. pruner'[p] = [pruner[p] EXCEPT !.at = step]
    BY <2>1 DEF PruneGoes, TypeOK, PrunesTyped
  <2>3. /\ pruner'[p].at = step /\ pruner'[p].found = pruner[p].found
        /\ pruner'[p].names = pruner[p].names
    BY <1>1, <2>2 DEF Prune
  <2>4. \A r \in pruner[p].found : series'[r] = series[r]
    <3> SUFFICES ASSUME NEW r \in pruner[p].found
                 PROVE  series'[r] = series[r]
      OBVIOUS
    <3>1. r \in Root /\ series[r] = "marked"
      BY <1>1 DEF PruneInv, Found
    <3>2. CASE RemoveBackref(p)
      <4>1. PruneAt(p, "remove")
        BY <3>2 DEF RemoveBackref
      <4>2. r # pruner[p].root
        BY <4>1 DEF PruneInv, Removing
      <4> QED BY <3>1, <3>2, <4>2 DEF RemoveBackref, TypeOK, FilesTyped
    <3>3. CASE RemoveSeries(p)
      BY <3>1, <3>3 DEF RemoveSeries, TypeOK, FilesTyped
    <3>4. CASE UNCHANGED series
      BY <3>4
    <3> QED BY <1>5, <3>2, <3>3, <3>4 DEF Confirm, SkipLocked, Crash
  <2> QED BY <1>2, <2>1, <2>3, <2>4, OnlyFound
<1> QED BY <1>3, <1>4, <1>5

LEMMA OwnStepInv ==
  ASSUME TypeOK, NEW p \in Pruner, PruneInv(p),
         StartPrune(p) \/ Confirm(p) \/ PruneStep(p)
  PROVE  PruneInv(p)'
<1>1. CASE StartPrune(p) \/ Confirm(p) \/ SkipLocked(p) \/ RemoveBackref(p) \/ RemoveSeries(p)
  BY <1>1, DropInv
<1>2. ASSUME NEW r \in Root, Judge(p, r) PROVE PruneInv(p)'
  BY <1>2, JudgeInv
<1>3. CASE NextSeries(p)
  BY <1>3, NextSeriesInv
<1>4. ASSUME NEW n \in Name, PruneOpen(p, n) PROVE PruneInv(p)'
  BY <1>4, PruneOpenInv
<1>5. ASSUME NEW n \in Name, RemoveProfileDir(p, n) PROVE PruneInv(p)'
  BY <1>5, RemoveProfileDirInv
<1>6. CASE TryFlock(p)
  BY <1>6, TryFlockInv
<1>7. CASE AllLocked(p)
  BY <1>7, AllLockedInv
<1> QED BY <1>1, <1>2, <1>3, <1>4, <1>5, <1>6, <1>7 DEF PruneStep

\* The steps of others.
LEMMA OtherStepInv ==
  ASSUME TypeOK, NEW p \in Pruner, PruneInv(p), Next,
         ~(StartPrune(p) \/ Confirm(p) \/ PruneStep(p)), OnePruner
  PROVE  PruneInv(p)'
<1>1. \A q \in Pruner : q = p
  BY DEF OnePruner
<1>2. ASSUME NEW a \in Runner, RunStep(a)
      PROVE  PruneInv(p)'
  BY <1>2, RunKept, OthersKeep
<1>3. ASSUME NEW a \in Runner, Answer(a) \/ Starts(a)
      PROVE  PruneInv(p)'
  <2>1. UNCHANGED <<series, dir, holder, pruner>>
    BY <1>3, StartsAs DEF Answer, Started
  <2>2. Kept(p) /\ pruner'[p] = pruner[p]
    BY <2>1 DEF Kept
  <2> QED BY <2>2, OthersKeep
<1>4. ASSUME NEW q \in Process, Crash(q)
      PROVE  PruneInv(p)'
  <2>1. CASE q = p
    <3>1. PruneEnds(p)
      BY <1>4, <2>1, SeriesAssumption DEF Crash
    <3> QED BY <1>4, <2>1, <3>1, DropInv
  <2>2. CASE q # p
    <3>1. UNCHANGED <<series, dir, pruner>> /\ holder' = Released(q)
      BY <1>1, <1>4, <2>2 DEF Crash
    <3>2. Kept(p) /\ pruner'[p] = pruner[p]
      BY <2>2, <3>1, ReleasedKeeps DEF Kept
    <3> QED BY <3>2, OthersKeep
  <2> QED BY <2>1, <2>2
<1>5. ASSUME NEW r \in Root, RootChanges(r)
      PROVE  PruneInv(p)'
  <2>1. Kept(p) /\ pruner'[p] = pruner[p]
    BY <1>5 DEF RootChanges, Kept
  <2> QED BY <2>1, OthersKeep
<1> QED BY <1>1, <1>2, <1>3, <1>4, <1>5 DEF Next, Starts

LEMMA InitInv == Init => IInv
<1> SUFFICES ASSUME Init PROVE IInv
  OBVIOUS
<1>1. \A p \in Pruner : PruneInv(p)
  BY DEF Init, IdlePrune, PruneInv, PruneAt
<1> QED BY <1>1, InitTypes DEF IInv

LEMMA NextInv == OnePruner /\ IInv /\ [Next]_vars => IInv'
<1> SUFFICES ASSUME OnePruner, IInv, [Next]_vars
             PROVE  IInv'
  OBVIOUS
<1>1. TypeOK'
  BY NextTypes DEF IInv
<1>2. ASSUME NEW p \in Pruner
      PROVE  PruneInv(p)'
  <2>1. CASE UNCHANGED vars
    <3>1. Kept(p) /\ pruner'[p] = pruner[p]
      BY <2>1 DEF vars, Kept
    <3> QED BY <3>1, OthersKeep DEF IInv
  <2>2. CASE Next
    BY <2>2, OwnStepInv, OtherStepInv DEF IInv
  <2> QED BY <2>1, <2>2
<1> QED BY <1>1, <1>2 DEF IInv

-----------------------------------------------------------------------------
(* Theorems.                                                                *)

\* A prune that skips a series as locked has removed nothing of it: until it has
\* every lock, each profileDir it listed is there (prune.go:178, 275-288).
THEOREM LockingIsHarmless ==
  ASSUME OnePruner
  PROVE  Spec => []LocksComeFirst
<1>1. IInv => LocksComeFirst
  BY DEF IInv, PruneInv, Locking, Found, LocksComeFirst
<1>2. IInv /\ [Next]_vars => IInv'
  BY NextInv
<1> QED BY <1>1, <1>2, InitInv, PTL DEF Spec

\* A prune cut short, by a crash or an error, leaves the backref of a series that
\* still has one of the profileDirs it listed (prune.go:293-317).
THEOREM BackrefOutlivesProfiles ==
  ASSUME OnePruner
  PROVE  Spec => []BackrefLast
<1>1. IInv => BackrefLast
  BY DEF IInv, PruneInv, Removing, BackrefLast
<1>2. IInv /\ [Next]_vars => IInv'
  BY NextInv
<1> QED BY <1>1, <1>2, InitInv, PTL DEF Spec

\* A lock held by a run keeps its profileDir from removal (prune.go:289).
THEOREM RemovalExcludesRuns ==
  ASSUME OnePruner
  PROVE  Spec => NoRemovalUnderRun
<1> DEFINE Safe == \A r \in Root : \A n \in Name :
                     dir[r][n] # 0 /\ dir'[r][n] = 0 => holder[dir[r][n]] \notin Runner
<1>1. ASSUME IInv, [Next]_vars
      PROVE  Safe
  <2> SUFFICES ASSUME NEW r \in Root, NEW n \in Name, dir[r][n] # 0, dir'[r][n] = 0
               PROVE  holder[dir[r][n]] \notin Runner
    OBVIOUS
  <2>1. PICK p \in Pruner : \E m \in Name : RemoveProfileDir(p, m)
    <3>1. ~UNCHANGED dir
      OBVIOUS
    <3>2. ASSUME NEW a \in Runner
          PROVE  ~RunStep(a)
      BY <1>1, RunsKeepDirs DEF IInv
    <3>3. ASSUME NEW a \in Runner
          PROVE  ~Starts(a) /\ ~Answer(a)
      BY <3>1, StartsAs DEF Started, Answer
    <3> QED BY <1>1, <3>1, <3>2, <3>3
            DEF Next, vars, Starts, StartPrune, Confirm, PruneStep, Judge,
                NextSeries, PruneOpen, TryFlock, SkipLocked, AllLocked, RemoveBackref,
                RemoveSeries, Crash, RootChanges
  <2>2. PICK m \in Name : RemoveProfileDir(p, m)
    BY <2>1
  <2>3. Removing(p) /\ m \in pruner[p].todo
    BY <1>1, <2>2 DEF IInv, PruneInv, RemoveProfileDir
  <2>4. r = pruner[p].root /\ n = m
    <3>1. dir \in [Root -> [Name -> 0 .. MaxInodes]] /\ pruner[p].root \in Root
      BY <1>1, PrunerFacts DEF IInv, TypeOK, FilesTyped
    <3> QED BY <2>2, <3>1 DEF RemoveProfileDir
  <2>5. holder[dir[r][n]] = p
    BY <2>3, <2>4 DEF Removing, Holds
  <2> QED BY <2>5, SeriesAssumption
<1>2. IInv /\ [Next]_vars => [Safe]_vars
  BY <1>1
<1>3. IInv /\ [Next]_vars => IInv'
  BY NextInv
<1> QED BY <1>2, <1>3, InitInv, PTL DEF Spec, NoRemovalUnderRun
=============================================================================
