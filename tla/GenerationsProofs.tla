-------------------------- MODULE GenerationsProofs --------------------------
(***************************************************************************)
(* Theorems about Generations, for every value of its constants.           *)
(***************************************************************************)
EXTENDS Generations, WellFoundedInduction, TLAPS

Before == {"wait", "locked", "placed", "repaired", "commit", "point"}
Held == {"placed", "repaired", "commit", "point"}

\* What a run carries from step to step, and the types do not say.
RunFits(a) ==
  LET r == run[a]
  IN /\ r.ok => r.at \in {"release", "observe", "report"}
     /\ r.at \in Before => r.op \in {"apply", "rollback", "reset"}
     /\ r.at \in Held => r.op \in {"apply", "rollback"} /\ r.farm \in Farm
     /\ r.at = "repaired" => r.op = "apply"
     /\ r.at \in {"observe", "report"} => r.op = "apply"
     /\ r.at \in {"commit", "point"} => record = r.farm
     /\ r.at \in Before \ {"point"} /\ r.op = "apply" => r.to = 0
     /\ r.at = "point" => r.to \in Gen /\ link[r.to] = r.farm

\* A rollback that has listed the generations goes one back, though others may
\* delete generations meanwhile.
RollbackFits(a) ==
  LET r == run[a]
  IN r.at \in Held /\ r.op = "rollback" =>
       /\ r.to \in Gen /\ link[r.to] \in {None, r.farm} /\ r.to < r.before
       /\ \A n \in Listed : ~(r.to < n /\ n < r.before)

\* While nothing else touches the links, what a run has seen of them is so.
AloneFits(a) ==
  LET r == run[a]
  IN r.alone =>
       /\ r.at \in Before /\ r.op = "apply" => Observed = r.before
       /\ r.at = "repaired" => Resolved = r.farm
       /\ r.at = "release" /\ r.ok /\ r.op # "reset" => record = Resolved
       /\ r.at \in {"release", "observe"} /\ r.op = "apply" =>
            Observed = IF r.ok /\ r.to # 0 THEN r.to ELSE r.before
       /\ r.at = "report" => r.after = IF r.ok /\ r.to # 0 THEN r.to ELSE r.before

Fits(a) == RunFits(a) /\ RollbackFits(a) /\ AloneFits(a)

IInv ==
  /\ TypeOK /\ NeverDangles
  /\ \A a \in Runner : Fits(a)

-----------------------------------------------------------------------------
\* A set of numbers up to N that is not empty has a largest one.
LEMMA MaxIsLargest ==
  ASSUME NEW N \in Nat, NEW S \in SUBSET (0 .. N), S # {}
  PROVE  Max(S) \in S /\ \A y \in S : y <= Max(S)
<1> DEFINE T == {N - s : s \in S}
           R == {ss \in Nat \X Nat : ss[1] < ss[2]}
<1>1. IsWellFoundedOn(R, Nat)
  BY NatLessThanWellFounded DEF OpToRel
<1>2. T \subseteq Nat /\ T # {}
  <2>1. \A s \in S : N - s \in Nat
    OBVIOUS
  <2>2. \E s \in S : N - s \in T
    OBVIOUS
  <2> QED BY <2>1, <2>2
<1>3. PICK x \in T : \A y \in T : <<y, x>> \notin R
  <2> HIDE DEF T, R
  <2> QED BY <1>1, <1>2, WFMin
<1>4. PICK m \in S : x = N - m
  BY <1>3
<1>5. ASSUME NEW y \in S
      PROVE  m >= y
  <2>1. N - y \in T /\ N - y \in Nat /\ x \in Nat
    BY <1>2
  <2>2. ~(N - y < x)
    BY <1>3, <2>1
  <2> QED BY <1>4, <2>1, <2>2
<1>6. m \in Nat /\ \A y \in S : y \in Nat
  OBVIOUS
<1>7. Max(S) \in S /\ \A y \in S : Max(S) >= y
  BY <1>5 DEF Max
<1> QED BY <1>6, <1>7

-----------------------------------------------------------------------------
(* Where the reading of the links leads.                                    *)

LEMMA ListedInGen == Listed \in SUBSET (0 .. MaxGen)
BY GenerationsAssumption DEF Listed, Gen

LEMMA CurrentIsListed ==
  ASSUME TypeOK, NeverDangles
  PROVE  /\ CurrentGeneration \in Listed \cup {0}
         /\ profile \notin Farm => CurrentGeneration = profile
         /\ CurrentGeneration \in 0 .. MaxGen
<1>1. CASE profile \in Farm
  <2> DEFINE S == {n \in Listed : link[n] = profile} \cup {0}
  <2>1. MaxGen \in Nat /\ S \subseteq Listed \cup {0} /\ 0 \in S /\ S \in SUBSET (0 .. MaxGen)
    BY GenerationsAssumption DEF Listed, Gen
  <2>2. Max(S) \in S
    <3> HIDE DEF S
    <3> QED BY <2>1, MaxIsLargest
  <2>3. CurrentGeneration = Max(S)
    BY <1>1 DEF CurrentGeneration
  <2> QED BY <1>1, <2>1, <2>2, <2>3
<1>2. CASE profile \notin Farm
  BY <1>2, GenerationsAssumption DEF CurrentGeneration, TypeOK, NeverDangles, Listed, Gen
<1> QED BY <1>1, <1>2

LEMMA NextIsAbove ==
  /\ NextNumber \in Nat \ {0}
  /\ \A n \in Listed : n < NextNumber
  /\ NextNumber \notin Listed
<1> DEFINE S == Listed \cup {0}
<1>1. MaxGen \in Nat /\ S \in SUBSET (0 .. MaxGen) /\ S # {}
  BY ListedInGen, GenerationsAssumption
<1>2. \A y \in S : y \in Nat
  BY <1>1
<1>3. PICK m \in S : m = Max(S) /\ \A y \in S : y <= m
  <2> HIDE DEF S
  <2> QED BY <1>1, MaxIsLargest
<1>4. NextNumber = m + 1
  BY <1>3 DEF NextNumber
<1>5. \A n \in S : n < m + 1
  <2> HIDE DEF S
  <2> QED BY <1>2, <1>3
<1> QED BY <1>2, <1>4, <1>5

LEMMA PreviousIsBelow ==
  ASSUME NEW c \in Listed, \E n \in Listed : n < c
  PROVE  /\ PreviousGeneration(c) \in Listed /\ PreviousGeneration(c) < c
         /\ \A n \in Listed : ~(PreviousGeneration(c) < n /\ n < c)
<1> DEFINE S == {n \in Listed : n < c}
<1>1. MaxGen \in Nat /\ S \in SUBSET (0 .. MaxGen) /\ S # {}
  BY ListedInGen, GenerationsAssumption
<1>2. Max(S) \in S /\ \A y \in S : y <= Max(S)
  <2> HIDE DEF S
  <2> QED BY <1>1, MaxIsLargest
<1>3. PreviousGeneration(c) = Max(S)
  BY DEF PreviousGeneration
<1>4. \A n \in S : n \in Nat
  BY <1>1
<1>5. ASSUME NEW n \in Listed, Max(S) < n, n < c
      PROVE  FALSE
  <2>1. n \in S
    BY <1>5
  <2> HIDE DEF S
  <2> QED BY <1>2, <1>4, <1>5, <2>1
<1> QED BY <1>2, <1>3, <1>5

-----------------------------------------------------------------------------
(* What a step of one run leaves to the others.                             *)

Apart == {"idle", "wait", "observe", "report"}

\* The run that holds the lock is the only one between its build and its release.
LEMMA OnlyHolder ==
  ASSUME TypeOK, NEW a \in Runner, NEW x \in Runner, x # a, run[a].at \notin Apart
  PROVE  lock = a /\ run[x].at \in Apart
BY DEF TypeOK, Apart

LEMMA UntouchedFits ==
  ASSUME NEW x \in Runner, Fits(x), run'[x] = run[x], UNCHANGED <<link, profile, record>>
  PROVE  Fits(x)'
BY DEF Fits, RunFits, RollbackFits, AloneFits, Listed, Observed, Resolved

LEMMA ApartFits ==
  ASSUME NEW x \in Runner, TypeOK, Fits(x), run[x].at \in Apart,
         \/ run'[x] = run[x] /\ UNCHANGED profile
         \/ run'[x] = [run[x] EXCEPT !.alone = FALSE]
  PROVE  Fits(x)'
<1>1. run[x] \in Run
  BY DEF TypeOK
<1> QED BY <1>1 DEF Fits, RunFits, RollbackFits, AloneFits, Listed, Observed,
                   Apart, Before, Held, Run

-----------------------------------------------------------------------------
(* One lemma for each step.                                                 *)

LEMMA InitIInv == Init => IInv
BY GenerationsAssumption
   DEF Init, IInv, TypeOK, NeverDangles, Fits, RunFits, RollbackFits, AloneFits,
       Idle, Run, Steps, Gen, Before, Held

LEMMA StutterKeeps == IInv /\ UNCHANGED vars => IInv'
BY UntouchedFits DEF IInv, TypeOK, NeverDangles, vars

\* A step of one run that leaves the links and the record alone.
LEMMA OwnStepKeeps ==
  ASSUME IInv, NEW a \in Runner, NEW r \in Run,
         run' = [run EXCEPT ![a] = r], UNCHANGED <<link, profile, record, spent>>,
         \/ lock' = lock /\ (r.at \in Apart <=> run[a].at \in Apart)
         \/ lock = Nobody /\ lock' = a /\ r.at \notin Apart
         \/ lock = a /\ lock' = Nobody /\ r.at \in Apart,
         Fits(a)'
  PROVE  IInv'
<1>1. TypeOK'
  BY GenerationsAssumption DEF IInv, TypeOK, Apart
<1>2. NeverDangles'
  BY DEF IInv, NeverDangles
<1>3. ASSUME NEW x \in Runner, x # a
      PROVE  Fits(x)'
  BY <1>3, UntouchedFits DEF IInv, TypeOK
<1> QED BY <1>1, <1>2, <1>3 DEF IInv

\* A run that has ended, or that a crash has ended, is tied to nothing.
LEMMA IdleFits ==
  /\ Idle \in Run /\ Idle.at = "idle"
  /\ \A a \in Runner : run'[a] = Idle => Fits(a)'
BY GenerationsAssumption
   DEF Idle, Run, Steps, Fits, RunFits, RollbackFits, AloneFits, Before, Held

LEMMA StartKeeps ==
  ASSUME IInv, NEW a \in Runner, NEW op \in {"apply", "rollback", "reset"}, Start(a, op)
  PROVE  IInv'
<1> DEFINE b == IF op = "apply" THEN Observed ELSE 0
           r == [Idle EXCEPT !.at = "wait", !.op = op, !.before = b]
<1>1. Observed \in 0 .. MaxGen
  BY GenerationsAssumption DEF IInv, TypeOK, Observed
<1>2. r \in Run /\ r.at = "wait" /\ r.op = op /\ r.to = 0 /\ ~r.ok
      /\ (op = "apply" => r.before = Observed)
  <2>1. Idle \in Run /\ Idle.to = 0 /\ ~Idle.ok
    BY GenerationsAssumption DEF Idle, Run, Steps
  <2>2. b \in 0 .. MaxGen /\ (op = "apply" => b = Observed)
    BY <1>1, GenerationsAssumption
  <2> HIDE DEF b
  <2> QED BY <2>1, <2>2 DEF Run, Steps
<1>3. run' = [run EXCEPT ![a] = r] /\ run'[a] = r /\ At(a, "idle")
      /\ UNCHANGED <<link, profile, record, lock, spent>>
  BY DEF Start, IInv, TypeOK
<1> HIDE DEF r
<1>4. Fits(a)'
  BY <1>2, <1>3 DEF Fits, RunFits, RollbackFits, AloneFits, Before, Held, Observed
<1> QED BY <1>2, <1>3, <1>4, OwnStepKeeps DEF Apart, At

LEMMA AcquireKeeps ==
  ASSUME IInv, NEW a \in Runner, Acquire(a)
  PROVE  IInv'
<1> DEFINE r == [run[a] EXCEPT !.at = "locked"]
<1>1. run[a] \in Run /\ Fits(a) /\ run[a].at = "wait"
  BY DEF IInv, TypeOK, Acquire, At
<1>2. run' = [run EXCEPT ![a] = r] /\ run'[a] = r
      /\ UNCHANGED <<link, profile, record, spent>> /\ lock = Nobody /\ lock' = a
  BY DEF Acquire, Goes, IInv, TypeOK
<1>3. r \in Run /\ r.at = "locked" /\ Fits(a)'
  BY <1>1, <1>2
     DEF Run, Steps, Fits, RunFits, RollbackFits, AloneFits, Before, Held, Observed
<1> HIDE DEF r
<1> QED BY <1>1, <1>2, <1>3, OwnStepKeeps DEF Apart

\* A step of the run that holds the lock.  What it does to the links takes the
\* others' being alone from them.
LEMMA HolderStepKeeps ==
  ASSUME IInv, NEW a \in Runner, NEW r \in Run, run[a].at \notin Apart,
         \/ run' = [run EXCEPT ![a] = r] /\ UNCHANGED profile
         \/ Touch(a, r),
         link' \in [Gen -> Farm \cup {None}], profile' \in 0 .. MaxGen \cup Farm,
         record' \in Farm \cup {None},
         spent' \in [crashes : 0 .. MaxCrashes, outside : 0 .. MaxOutside],
         lock' = (IF r.at \in Apart THEN Nobody ELSE a),
         NeverDangles', Fits(a)'
  PROVE  IInv'
<1>1. ASSUME NEW x \in Runner, x # a
      PROVE  /\ Fits(x)' /\ run'[x].at = run[x].at /\ run[x].at \in Apart /\ run'[x] \in Run
             /\ lock = a
  <2>1. lock = a /\ run[x].at \in Apart /\ run[x] \in Run /\ Fits(x)
    BY <1>1, OnlyHolder DEF IInv, TypeOK
  <2>2. \/ run'[x] = run[x] /\ UNCHANGED profile
        \/ run'[x] = [run[x] EXCEPT !.alone = FALSE]
    <3>1. CASE run' = [run EXCEPT ![a] = r] /\ UNCHANGED profile
      BY <1>1, <3>1 DEF IInv, TypeOK
    <3>2. CASE Touch(a, r)
      BY <1>1, <3>2, Zenon DEF Touch
    <3> QED BY <3>1, <3>2
  <2>3. Fits(x)'
    BY <2>1, <2>2, ApartFits DEF IInv
  <2> QED BY <2>1, <2>2, <2>3 DEF Run
<1>2. run'[a] = r
  BY DEF Touch, IInv, TypeOK
<1>3. run' \in [Runner -> Run]
  <2>1. CASE run' = [run EXCEPT ![a] = r]
    BY <2>1 DEF IInv, TypeOK
  <2>2. CASE Touch(a, r)
    <3>1. run' = [x \in Runner |-> run'[x]]
      BY <2>2 DEF Touch
    <3> QED BY <1>1, <1>2, <3>1
  <2> QED BY <2>1, <2>2
<1>4. TypeOK'
  BY <1>1, <1>2, <1>3, GenerationsAssumption DEF TypeOK, Apart
<1> QED BY <1>1, <1>4 DEF IInv

LEMMA PlaceKeeps ==
  ASSUME IInv, NEW a \in Runner, NEW f \in Farm, Place(a, f)
  PROVE  IInv'
<1> DEFINE s == IF Unchanged(f) THEN "repaired" ELSE "placed"
           r == [run[a] EXCEPT !.at = s, !.farm = f]
<1>1. run[a] \in Run /\ Fits(a) /\ run[a].at = "locked" /\ run[a].op = "apply"
  BY DEF IInv, TypeOK, Place, At
<1>2. run' = [run EXCEPT ![a] = r] /\ run'[a] = r
      /\ UNCHANGED <<link, profile, record, lock, spent>>
  BY DEF Place, IInv, TypeOK
<1>3. s \in {"repaired", "placed"} /\ (s = "repaired" => Resolved = f)
  BY DEF Unchanged
<1> HIDE DEF s
<1>4. /\ r \in Run /\ r.at = s /\ r.op = "apply" /\ r.farm = f /\ r.to = run[a].to
      /\ r.before = run[a].before /\ r.alone = run[a].alone /\ r.ok = run[a].ok
  BY <1>1, <1>3 DEF Run, Steps
<1> HIDE DEF r
<1>5. Fits(a)'
  BY <1>1, <1>2, <1>3, <1>4
     DEF Fits, RunFits, RollbackFits, AloneFits, Before, Held, Observed, Resolved
<1> QED BY <1>1, <1>2, <1>3, <1>4, <1>5, OwnStepKeeps DEF Apart

LEMMA PlacePreviousKeeps ==
  ASSUME IInv, NEW a \in Runner, PlacePrevious(a)
  PROVE  IInv'
<1> DEFINE c == CurrentGeneration
           n == PreviousGeneration(c)
           r == [run[a] EXCEPT !.at = "placed", !.before = c, !.to = n, !.farm = link[n]]
<1>1. run[a] \in Run /\ Fits(a) /\ run[a].at = "locked" /\ run[a].op = "rollback"
  BY DEF IInv, TypeOK, PlacePrevious, At
<1>2. /\ run' = [run EXCEPT ![a] = r] /\ run'[a] = r
      /\ UNCHANGED <<link, profile, record, lock, spent>>
      /\ c \in Listed /\ \E k \in Listed : k < c
  BY DEF PlacePrevious, IInv, TypeOK
<1> HIDE DEF c
<1>3. n \in Listed /\ n < c /\ \A k \in Listed : ~(n < k /\ k < c)
  BY <1>2, PreviousIsBelow
<1>4. n \in Gen /\ c \in Gen /\ link[n] \in Farm /\ n \in 0 .. MaxGen /\ c \in 0 .. MaxGen
  BY <1>2, <1>3, GenerationsAssumption DEF Listed, Gen, IInv, TypeOK
<1> HIDE DEF n
<1>5. r \in Run /\ r.at = "placed" /\ r.op = "rollback" /\ r.to = n /\ r.before = c
      /\ r.farm = link[n] /\ ~r.ok
  BY <1>1, <1>4 DEF Run, Steps, Fits, RunFits
<1> HIDE DEF r
<1>6. Fits(a)'
  BY <1>2, <1>3, <1>4, <1>5
     DEF Fits, RunFits, RollbackFits, AloneFits, Before, Held, Listed
<1> QED BY <1>1, <1>2, <1>5, <1>6, OwnStepKeeps DEF Apart

LEMMA ResetRecordKeeps ==
  ASSUME IInv, NEW a \in Runner, ResetRecord(a)
  PROVE  IInv'
<1> DEFINE r == [run[a] EXCEPT !.at = "release", !.ok = TRUE]
<1>1. run[a] \in Run /\ Fits(a) /\ run[a].at = "locked" /\ run[a].op = "reset" /\ lock = a
  BY DEF IInv, TypeOK, ResetRecord, At
<1>2. run' = [run EXCEPT ![a] = r] /\ run'[a] = r /\ UNCHANGED <<link, profile, lock, spent>>
  BY DEF ResetRecord, IInv, TypeOK
<1>3. record' \in Farm \cup {None}
  BY GenerationsAssumption DEF ResetRecord, Resolved, IInv, TypeOK, Gen
<1>4. r \in Run /\ r.at = "release" /\ r.op = "reset"
  BY <1>1 DEF Run, Steps
<1> HIDE DEF r
<1>5. Fits(a)'
  BY <1>2, <1>4 DEF Fits, RunFits, RollbackFits, AloneFits, Before, Held
<1> QED BY <1>1, <1>2, <1>3, <1>4, <1>5, HolderStepKeeps
        DEF Apart, IInv, TypeOK, NeverDangles

LEMMA WriteRecordKeeps ==
  ASSUME IInv, NEW a \in Runner, WriteRecord(a)
  PROVE  IInv'
<1> DEFINE s == IF run[a].at = "placed" THEN "commit" ELSE "release"
           r == [run[a] EXCEPT !.at = s, !.ok = At(a, "repaired")]
<1>1. run[a] \in Run /\ Fits(a) /\ run[a].at \in {"placed", "repaired"} /\ lock = a
  BY DEF IInv, TypeOK, WriteRecord
<1>2. run' = [run EXCEPT ![a] = r] /\ run'[a] = r /\ UNCHANGED <<link, profile, lock, spent>>
      /\ record' = run[a].farm
  BY DEF WriteRecord, IInv, TypeOK
<1>3. r \in Run /\ r.at = s /\ r.op = run[a].op /\ r.to = run[a].to /\ r.farm = run[a].farm
      /\ r.before = run[a].before /\ r.alone = run[a].alone /\ (r.ok <=> s = "release")
      /\ s \in {"commit", "release"} /\ (s = "commit" <=> run[a].at = "placed")
  BY <1>1 DEF Run, Steps, At
<1> HIDE DEF r, s
<1>4. Fits(a)'
  BY <1>1, <1>2, <1>3
     DEF Fits, RunFits, RollbackFits, AloneFits, Before, Held, Listed, Observed, Resolved
<1>5. record' \in Farm \cup {None}
  BY <1>1, <1>2 DEF Run
<1> QED BY <1>1, <1>2, <1>3, <1>4, <1>5, HolderStepKeeps
        DEF Apart, IInv, TypeOK, NeverDangles

LEMMA LinkKeeps ==
  ASSUME IInv, NEW a \in Runner, Link(a)
  PROVE  IInv'
<1> DEFINE n == NextNumber
           r == [run[a] EXCEPT !.at = "point", !.to = n]
<1>1. run[a] \in Run /\ Fits(a) /\ run[a].at = "commit" /\ run[a].op = "apply" /\ lock = a
  BY DEF IInv, TypeOK, Link, At
<1>2. /\ n \in Gen /\ link' = [link EXCEPT ![n] = run[a].farm] /\ Touch(a, r)
      /\ UNCHANGED <<profile, record, lock, spent>>
  BY DEF Link
<1>3. run[a].farm \in Farm /\ record = run[a].farm /\ ~run[a].ok
  BY <1>1 DEF Fits, RunFits, Held
<1> HIDE DEF n
<1>4. /\ r \in Run /\ r.at = "point" /\ r.op = "apply" /\ r.to = n /\ r.farm = run[a].farm
      /\ r.before = run[a].before /\ r.alone = run[a].alone /\ ~r.ok
  <2>1. n \in 0 .. MaxGen
    BY <1>2, GenerationsAssumption DEF Gen
  <2> QED BY <1>1, <1>3, <2>1 DEF Run, Steps
<1> HIDE DEF r
<1>5. /\ run'[a] = r /\ link' \in [Gen -> Farm \cup {None}] /\ link'[n] = r.farm
      /\ \A k \in Gen : link[k] # None => link'[k] # None
  BY <1>2, <1>3, <1>4, GenerationsAssumption DEF Touch, IInv, TypeOK
<1>6. Fits(a)'
  BY <1>1, <1>2, <1>3, <1>4, <1>5
     DEF Fits, RunFits, RollbackFits, AloneFits, Before, Held, Observed, Gen
<1> QED BY <1>1, <1>2, <1>4, <1>5, <1>6, HolderStepKeeps
        DEF Apart, IInv, TypeOK, NeverDangles, Gen

LEMMA SwitchKeeps ==
  ASSUME IInv, NEW a \in Runner, Switch(a)
  PROVE  IInv'
<1> DEFINE r == [run[a] EXCEPT !.at = "point"]
<1>1. /\ run[a] \in Run /\ Fits(a) /\ run[a].at = "commit" /\ run[a].op = "rollback"
      /\ lock = a /\ link[run[a].to] # None
  BY DEF IInv, TypeOK, Switch, At
<1>2. run' = [run EXCEPT ![a] = r] /\ run'[a] = r
      /\ UNCHANGED <<link, profile, record, lock, spent>>
  BY DEF Switch, Goes, IInv, TypeOK
<1>3. /\ r \in Run /\ r.at = "point" /\ r.op = "rollback" /\ r.to = run[a].to
      /\ r.farm = run[a].farm /\ r.before = run[a].before /\ r.ok = run[a].ok
  BY <1>1 DEF Run, Steps
<1> HIDE DEF r
<1>4. Fits(a)'
  BY <1>1, <1>2, <1>3 DEF Fits, RunFits, RollbackFits, AloneFits, Before, Held, Listed, Gen
<1> QED BY <1>1, <1>2, <1>3, <1>4, OwnStepKeeps DEF Apart

LEMMA PointKeeps ==
  ASSUME IInv, NEW a \in Runner, Point(a)
  PROVE  IInv'
<1> DEFINE r == [run[a] EXCEPT !.at = "release", !.farm = None, !.ok = TRUE]
<1>1. run[a] \in Run /\ Fits(a) /\ run[a].at = "point" /\ lock = a
  BY DEF IInv, TypeOK, Point, At
<1>2. profile' = run[a].to /\ Touch(a, r) /\ UNCHANGED <<link, record, lock, spent>>
  BY DEF Point
<1>3. /\ run[a].to \in Gen /\ link[run[a].to] = run[a].farm /\ run[a].farm \in Farm
      /\ record = run[a].farm /\ run[a].op \in {"apply", "rollback"}
  BY <1>1 DEF Fits, RunFits, Held
<1>4. /\ r \in Run /\ r.at = "release" /\ r.op = run[a].op /\ r.to = run[a].to /\ r.ok
      /\ r.alone = run[a].alone
  BY <1>1 DEF Run, Steps
<1> HIDE DEF r
<1>5. run'[a] = r
  BY <1>2 DEF Touch
<1>6. profile' \in 0 .. MaxGen /\ profile' \notin Farm /\ profile' # 0 /\ profile' \in Gen
  BY <1>2, <1>3, GenerationsAssumption DEF Gen
<1>7. Fits(a)'
  BY <1>2, <1>3, <1>4, <1>5, <1>6
     DEF Fits, RunFits, RollbackFits, AloneFits, Before, Held, Observed, Resolved
<1>8. NeverDangles'
  BY <1>2, <1>3, GenerationsAssumption DEF NeverDangles
<1> QED BY <1>1, <1>2, <1>4, <1>6, <1>7, <1>8, HolderStepKeeps DEF Apart, IInv, TypeOK

LEMMA FailKeeps ==
  ASSUME IInv, NEW a \in Runner, Fail(a)
  PROVE  IInv'
<1> DEFINE r == [run[a] EXCEPT !.at = "release", !.farm = None]
<1>1. /\ run[a] \in Run /\ Fits(a) /\ lock = a
      /\ run[a].at \in {"locked", "placed", "repaired", "commit", "point"}
  BY DEF IInv, TypeOK, Fail
<1>2. run' = [run EXCEPT ![a] = r] /\ run'[a] = r
      /\ UNCHANGED <<link, profile, record, lock, spent>>
  BY DEF Fail, IInv, TypeOK
<1>3. /\ r \in Run /\ r.at = "release" /\ r.op = run[a].op /\ r.to = run[a].to
      /\ r.before = run[a].before /\ r.ok = run[a].ok /\ r.alone = run[a].alone
  BY <1>1 DEF Run, Steps
<1> HIDE DEF r
<1>4. Fits(a)'
  BY <1>1, <1>2, <1>3
     DEF Fits, RunFits, RollbackFits, AloneFits, Before, Held, Observed
<1> QED BY <1>1, <1>2, <1>3, <1>4, OwnStepKeeps DEF Apart

LEMMA ReleaseKeeps ==
  ASSUME IInv, NEW a \in Runner, Release(a)
  PROVE  IInv'
<1>1. run[a] \in Run /\ Fits(a) /\ run[a].at = "release" /\ lock = a
  BY DEF IInv, TypeOK, Release, At
<1>2. UNCHANGED <<link, profile, record, spent>> /\ lock' = Nobody
  BY DEF Release
<1>3. CASE run[a].op = "apply"
  <2> DEFINE r == [run[a] EXCEPT !.at = "observe"]
  <2>1. run' = [run EXCEPT ![a] = r] /\ run'[a] = r
    BY <1>3 DEF Release, IInv, TypeOK
  <2>2. /\ r \in Run /\ r.at = "observe" /\ r.op = "apply" /\ r.to = run[a].to
        /\ r.before = run[a].before /\ r.ok = run[a].ok /\ r.alone = run[a].alone
    BY <1>1, <1>3 DEF Run, Steps
  <2> HIDE DEF r
  <2>3. Observed' = Observed
    BY <1>2 DEF Observed
  <2>4. Fits(a)'
    BY <1>1, <1>2, <1>3, <2>1, <2>2, <2>3
       DEF Fits, RunFits, RollbackFits, AloneFits, Before, Held
  <2> QED BY <1>1, <1>2, <2>1, <2>2, <2>4, OwnStepKeeps DEF Apart
<1>4. CASE run[a].op # "apply"
  <2>1. run' = [run EXCEPT ![a] = Idle] /\ run'[a] = Idle
    BY <1>4 DEF Release, IInv, TypeOK
  <2> QED BY <1>1, <1>2, <2>1, IdleFits, OwnStepKeeps DEF Apart
<1> QED BY <1>3, <1>4

LEMMA ObserveKeeps ==
  ASSUME IInv, NEW a \in Runner, Observe(a)
  PROVE  IInv'
<1> DEFINE r == [run[a] EXCEPT !.at = "report", !.after = Observed]
<1>1. run[a] \in Run /\ Fits(a) /\ run[a].at = "observe"
  BY DEF IInv, TypeOK, Observe, At
<1>2. run' = [run EXCEPT ![a] = r] /\ run'[a] = r
      /\ UNCHANGED <<link, profile, record, lock, spent>>
  BY DEF Observe, IInv, TypeOK
<1>3. Observed \in 0 .. MaxGen
  BY GenerationsAssumption DEF IInv, TypeOK, Observed
<1>4. /\ r \in Run /\ r.at = "report" /\ r.op = run[a].op /\ r.to = run[a].to
      /\ r.before = run[a].before /\ r.ok = run[a].ok /\ r.alone = run[a].alone
      /\ r.after = Observed
  BY <1>1, <1>3 DEF Run, Steps
<1> HIDE DEF r
<1>5. Fits(a)'
  BY <1>1, <1>2, <1>4 DEF Fits, RunFits, RollbackFits, AloneFits, Before, Held
<1> QED BY <1>1, <1>2, <1>4, <1>5, OwnStepKeeps DEF Apart

LEMMA ExitKeeps ==
  ASSUME IInv, NEW a \in Runner, Exit(a)
  PROVE  IInv'
<1>1. /\ run[a].at = "report" /\ run' = [run EXCEPT ![a] = Idle] /\ run'[a] = Idle
      /\ UNCHANGED <<link, profile, record, lock, spent>>
  BY DEF Exit, At, IInv, TypeOK
<1> QED BY <1>1, IdleFits, OwnStepKeeps DEF Apart

LEMMA CrashKeeps ==
  ASSUME IInv, NEW a \in Runner, Crash(a)
  PROVE  IInv'
<1>1. /\ run' = [run EXCEPT ![a] = Idle] /\ run'[a] = Idle /\ UNCHANGED <<link, profile, record>>
      /\ lock' = IF lock = a THEN Nobody ELSE lock
      /\ spent' \in [crashes : 0 .. MaxCrashes, outside : 0 .. MaxOutside]
  BY GenerationsAssumption DEF Crash, IInv, TypeOK
<1>2. Fits(a)' /\ NeverDangles'
  BY <1>1, IdleFits DEF IInv, NeverDangles
<1>3. CASE lock = a
  BY <1>1, <1>2, <1>3, IdleFits, HolderStepKeeps DEF Apart, IInv, TypeOK
<1>4. CASE lock # a
  <2>1. run[a].at \in Apart /\ lock' = lock
    BY <1>1, <1>4 DEF IInv, TypeOK, Apart
  <2>2. TypeOK'
    BY <1>1, <2>1, IdleFits DEF IInv, TypeOK, Apart
  <2>3. ASSUME NEW x \in Runner, x # a
        PROVE  Fits(x)'
    BY <1>1, <2>3, UntouchedFits DEF IInv, TypeOK
  <2> QED BY <1>2, <2>2, <2>3 DEF IInv
<1> QED BY <1>3, <1>4

\* Nobody is about to point the profile when another tool changes the links, and
\* nobody is alone with them then.
LEMMA OthersKeep ==
  ASSUME IInv, Others, TypeOK', NeverDangles',
         \A n \in Gen : link'[n] \in {link[n], None}
  PROVE  IInv'
<1>1. ASSUME NEW x \in Runner
      PROVE  Fits(x)'
  <2>1. /\ run[x] \in Run /\ Fits(x) /\ run[x].at # "point" /\ UNCHANGED record
        /\ run'[x] = [run[x] EXCEPT !.alone = FALSE]
    BY DEF Others, At, IInv, TypeOK
  <2>2. /\ run'[x].at = run[x].at /\ run'[x].op = run[x].op /\ run'[x].to = run[x].to
        /\ run'[x].farm = run[x].farm /\ run'[x].before = run[x].before
        /\ run'[x].ok = run[x].ok /\ ~run'[x].alone
    BY <2>1 DEF Run
  <2> QED BY <2>1, <2>2 DEF Fits, RunFits, RollbackFits, AloneFits, Before, Held, Listed
<1> QED BY <1>1 DEF IInv

LEMMA OthersTyped ==
  ASSUME IInv, Others, link' \in [Gen -> Farm \cup {None}], profile' \in 0 .. MaxGen \cup Farm
  PROVE  TypeOK'
<1>1. /\ UNCHANGED <<record, lock>>
      /\ spent' \in [crashes : 0 .. MaxCrashes, outside : 0 .. MaxOutside]
  BY GenerationsAssumption DEF Others, IInv, TypeOK
<1>2. ASSUME NEW x \in Runner
      PROVE  [run[x] EXCEPT !.alone = FALSE] \in Run /\ run'[x].at = run[x].at
  <2>1. run[x] \in Run /\ run'[x] = [run[x] EXCEPT !.alone = FALSE]
    BY DEF Others, IInv, TypeOK
  <2> QED BY <2>1 DEF Run
<1>3. run' \in [Runner -> Run]
  BY <1>2 DEF Others
<1> QED BY <1>1, <1>2, <1>3 DEF IInv, TypeOK

LEMMA CollectKeeps ==
  ASSUME IInv, NEW n \in Gen, Collect(n)
  PROVE  IInv'
<1>1. /\ n # CurrentGeneration /\ link' = [link EXCEPT ![n] = None] /\ UNCHANGED profile /\ Others
      /\ link \in [Gen -> Farm \cup {None}]
  BY DEF Collect, IInv, TypeOK
<1>2. TypeOK'
  BY <1>1, OthersTyped DEF IInv, TypeOK
<1>3. NeverDangles'
  <2>1. profile \in Gen => CurrentGeneration = profile
    BY CurrentIsListed, GenerationsAssumption DEF IInv, Gen
  <2> QED BY <1>1, <2>1 DEF IInv, NeverDangles
<1> QED BY <1>1, <1>2, <1>3, OthersKeep

LEMMA RepointKeeps ==
  ASSUME IInv, NEW d \in Gen \cup Farm, Repoint(d)
  PROVE  IInv'
<1>1. profile' = d /\ d \in Listed \cup Farm /\ UNCHANGED link /\ Others
  BY DEF Repoint
<1>2. TypeOK'
  BY <1>1, OthersTyped, GenerationsAssumption DEF IInv, TypeOK, Gen
<1>3. NeverDangles'
  BY <1>1, GenerationsAssumption DEF NeverDangles, Listed, Gen
<1> QED BY <1>1, <1>2, <1>3, OthersKeep

LEMMA NextIInv == IInv /\ [Next]_vars => IInv'
BY StutterKeeps, StartKeeps, AcquireKeeps, PlaceKeeps, PlacePreviousKeeps, ResetRecordKeeps,
   WriteRecordKeeps, LinkKeeps, SwitchKeeps, PointKeeps, FailKeeps, ReleaseKeeps,
   ObserveKeeps, ExitKeeps, CrashKeeps, CollectKeeps, RepointKeeps
   DEF Next, RunStep

LEMMA SpecIInv == Spec => []IInv
BY InitIInv, NextIInv, PTL DEF Spec

-----------------------------------------------------------------------------
\* Every variable keeps to its type, and at most one run is between its build and
\* its release, for any number of runs, generations and link-farms.
THEOREM TypeCorrect == Spec => []TypeOK
BY SpecIInv, PTL DEF IInv

\* The profile never names a generation that is not there.
THEOREM ProfileLeadsSomewhere == Spec => []NeverDangles
BY SpecIInv, PTL DEF IInv

\* After a success that no other hand disturbed, record and profile agree.
THEOREM SuccessSettles == Spec => []SettledAgrees
<1>1. IInv => SettledAgrees
  BY DEF IInv, Fits, AloneFits, SettledAgrees, At
<1> QED BY <1>1, SpecIInv, PTL

\* An apply that was alone with the links reports the move it made.
THEOREM ReportIsTrue == Spec => []ReportsItsMove
<1>1. IInv => ReportsItsMove
  BY DEF IInv, Fits, AloneFits, ReportsItsMove, At
<1> QED BY <1>1, SpecIInv, PTL

\* Only the run that is about to point the profile moves it while it is there.
LEMMA PointedBySelf ==
  ASSUME IInv, [Next]_vars, NEW a \in Runner, run[a].at = "point", profile' # profile
  PROVE  profile' = run[a].to /\ UNCHANGED link
<1>1. PICK b \in Runner : Point(b)
  <2>1. \A d \in Gen \cup Farm : ~Repoint(d)
    BY DEF Repoint, Others, At
  <2> QED BY <2>1 DEF Next, RunStep, vars, Start, Acquire, PlacePrevious, ResetRecord,
                      WriteRecord, Place, Link, Switch, Fail, Release, Observe, Exit,
                      Crash, Collect
<1>2. b = a
  BY <1>1, OnlyHolder DEF IInv, Point, At, Apart
<1> QED BY <1>1, <1>2 DEF Point

\* A rollback moves the profile to the nearest generation below the one it found
\* current, whatever was deleted meanwhile.
THEOREM RollbackGoesOneBack == Spec => RollbackOneBack
<1>1. ASSUME IInv, [Next]_vars, NEW a \in Runner, At(a, "point"), run[a].op = "rollback",
             profile' # profile
      PROVE  /\ profile' < run[a].before
             /\ \A n \in Listed : ~(profile' < n /\ n < run[a].before)
  <2>1. profile' = run[a].to /\ RollbackFits(a)
    BY <1>1, PointedBySelf DEF IInv, Fits, At
  <2> QED BY <1>1, <2>1 DEF RollbackFits, Held, At
<1>2. IInv /\ [Next]_vars =>
        [\A a \in Runner :
           /\ At(a, "point") /\ run[a].op = "rollback" /\ profile' # profile
           => /\ profile' < run[a].before
              /\ \A n \in Listed : ~(profile' < n /\ n < run[a].before)]_vars
  BY <1>1
<1> QED BY <1>2, InitIInv, NextIInv, PTL DEF Spec, RollbackOneBack

-----------------------------------------------------------------------------
(* The links and the record implement the abstract profile.                 *)

Kept == [n \in Listed |-> link[n]]

LEMMA InitIsProfile == Init => P!Init
<1>1. Init => record = None /\ CurrentGeneration = 0 /\ Listed = {}
  BY GenerationsAssumption DEF Init, CurrentGeneration, Listed, Gen
<1>2. Listed = {} => [n \in Listed |-> link[n]] = << >>
  OBVIOUS
<1> QED BY <1>1, <1>2 DEF P!Init

\* A step that leaves the links alone.
LEMMA LinksUnchanged ==
  ASSUME UNCHANGED <<link, profile>>
  PROVE  Listed' = Listed /\ Kept' = Kept /\ CurrentGeneration' = CurrentGeneration
BY DEF Listed, Kept, CurrentGeneration

LEMMA RecordIsPlaced ==
  ASSUME IInv, IInv', UNCHANGED <<link, profile>>
  PROVE  P!Next
<1>1. PICK f \in Farm \cup {None} : f = record'
  BY DEF IInv, TypeOK
<1>2. P!Place(f)
  BY <1>1, LinksUnchanged DEF P!Place, Kept
<1> QED BY <1>2 DEF P!Next, P!StrictNext

LEMMA LinkIsKept ==
  ASSUME IInv, IInv', NEW a \in Runner, Link(a)
  PROVE  P!Keep(NextNumber) /\ DOMAIN Kept' = DOMAIN Kept \cup {NextNumber}
         /\ Kept'[NextNumber] = record /\ UNCHANGED <<record, profile>>
<1> DEFINE n == NextNumber
<1>1. /\ run[a].farm \in Farm /\ record = run[a].farm /\ n \in Gen /\ UNCHANGED <<record, profile>>
      /\ link' = [link EXCEPT ![n] = record] /\ link \in [Gen -> Farm \cup {None}]
  BY DEF Link, At, IInv, TypeOK, Fits, RunFits, Held
<1>2. n \in Nat \ {0} /\ n \notin Listed /\ \A k \in Listed : k < n
  BY NextIsAbove
<1> HIDE DEF n
<1>3. record # None
  BY <1>1, GenerationsAssumption
<1>4. Listed' = Listed \cup {n} /\ \A k \in Listed : link'[k] = link[k]
  BY <1>1, <1>2, <1>3 DEF Listed
<1>5. Kept' = [k \in Listed \cup {n} |-> IF k = n THEN record ELSE Kept[k]]
  BY <1>1, <1>2, <1>4 DEF Kept
<1>6. DOMAIN Kept = Listed
  BY DEF Kept
<1>7. P!Keep(n)
  BY <1>2, <1>3, <1>5, <1>6 DEF P!Keep, P!With, P!Number, Kept
<1> QED BY <1>1, <1>5, <1>6, <1>7 DEF n

\* The newest generation that leads where the profile does is the old one or the
\* new one.
LEMMA LinkMovesCurrent ==
  ASSUME IInv, IInv', NEW a \in Runner, Link(a), profile \in Farm
  PROVE  CurrentGeneration' \in {CurrentGeneration, NextNumber}
<1> DEFINE n == NextNumber
           S == {k \in Listed : link[k] = profile} \cup {0}
           T == S'
<1>1. /\ n \in Gen /\ link' = [link EXCEPT ![n] = run[a].farm] /\ run[a].farm \in Farm
      /\ link \in [Gen -> Farm \cup {None}] /\ UNCHANGED profile
  BY DEF Link, At, IInv, TypeOK, Fits, RunFits, Held
<1>2. n \in Nat \ {0} /\ n \notin Listed /\ \A k \in Listed : k < n
  BY NextIsAbove
<1>3. CurrentGeneration = Max(S) /\ CurrentGeneration' = Max(T)
  BY <1>1 DEF CurrentGeneration
<1> HIDE DEF n
<1>4. Listed' = Listed \cup {n}
  BY <1>1, <1>2, GenerationsAssumption DEF Listed
<1>5. T = IF run[a].farm = profile THEN S \cup {n} ELSE S
  BY <1>1, <1>2, <1>4 DEF Listed
<1>6. MaxGen \in Nat /\ T \in SUBSET (0 .. MaxGen) /\ T # {} /\ \A k \in T : k \in Nat
  BY <1>1, GenerationsAssumption DEF Listed, Gen
<1>7. \A k \in S : k < n
  BY <1>2
<1> HIDE DEF S, T
<1>8. Max(T) \in T /\ \A y \in T : y <= Max(T)
  BY <1>6, MaxIsLargest
<1>9. CASE run[a].farm = profile
  <2>1. n \in T /\ n <= Max(T)
    BY <1>5, <1>8, <1>9
  <2>2. PICK m \in T : m = Max(T)
    BY <1>8
  <2>3. m = n
    BY <1>2, <1>5, <1>6, <1>7, <1>9, <2>1, <2>2
  <2> QED BY <1>3, <2>2, <2>3 DEF n
<1>10. CASE run[a].farm # profile
  BY <1>3, <1>5, <1>10
<1> QED BY <1>9, <1>10

\* Making a generation link is half a commit, or all of it when the profile is
\* pointed at that link-farm already.
LEMMA LinkIsProfileStep ==
  ASSUME IInv, IInv', NEW a \in Runner, Link(a)
  PROVE  P!Next
<1>0. PICK n : n = NextNumber
  OBVIOUS
<1>1. P!Keep(n) /\ DOMAIN Kept' = DOMAIN Kept \cup {n} /\ Kept'[n] = record
      /\ UNCHANGED <<record, profile>>
  <2>1. P!Keep(NextNumber) /\ DOMAIN Kept' = DOMAIN Kept \cup {NextNumber}
        /\ Kept'[NextNumber] = record /\ UNCHANGED <<record, profile>>
    BY LinkIsKept
  <2> QED BY <1>0, <2>1 DEF P!Keep, P!With
<1>2. n \in DOMAIN Kept'
  BY <1>1
<1>3. CASE CurrentGeneration' = CurrentGeneration
  <2>1. P!Half(n)
    BY <1>1, <1>3 DEF P!Half, Kept
  <2>2. \E k \in DOMAIN Kept' : P!Half(k)
    BY <1>2, <2>1
  <2> QED BY <2>2 DEF P!Next, Kept
<1>4. CASE CurrentGeneration' = n
  <2>1. P!Commit(n)
    BY <1>1, <1>2, <1>4 DEF P!Commit, P!Move, Kept
  <2>2. \E k \in DOMAIN Kept' : P!Commit(k) \/ P!Switch(k)
    BY <1>2, <2>1
  <2> QED BY <2>2 DEF P!Next, P!StrictNext, Kept
<1>5. CurrentGeneration' \in {CurrentGeneration, n}
  <2>1. CASE profile \notin Farm
    BY <1>1, <2>1 DEF CurrentGeneration
  <2>2. CASE profile \in Farm
    BY LinkMovesCurrent, <1>0, <2>2
  <2> QED BY <2>1, <2>2
<1> QED BY <1>3, <1>4, <1>5

\* Pointing the profile is the other half, of a commit or of a switch.
LEMMA PointIsProfileStep ==
  ASSUME IInv, IInv', NEW a \in Runner, Point(a)
  PROVE  P!Next
<1>1. PICK n \in Gen : n = run[a].to /\ link[n] = record /\ record \in Farm
  BY DEF Point, At, IInv, Fits, RunFits, Held
<1>2. profile' = n /\ UNCHANGED <<link, record>>
  BY <1>1 DEF Point
<1>3. CurrentGeneration' = n
  BY <1>1, <1>2, GenerationsAssumption DEF CurrentGeneration, Gen
<1>4. Listed' = Listed /\ Kept' = Kept /\ n \in Listed
  BY <1>1, <1>2, GenerationsAssumption DEF Listed, Kept
<1>5. P!Half(n) /\ n \in DOMAIN Kept'
  BY <1>1, <1>2, <1>3, <1>4 DEF P!Half, P!Move, Kept
<1>6. \E k \in DOMAIN Kept' : P!Half(k)
  BY <1>5
<1> QED BY <1>6 DEF P!Next, Kept

\* What others delete is not current, and stays so.
LEMMA CollectIsProfileStep ==
  ASSUME IInv, IInv', NEW n \in Gen, Collect(n)
  PROVE  P!Next
<1>1. /\ n \in Listed /\ n # CurrentGeneration /\ link' = [link EXCEPT ![n] = None]
      /\ UNCHANGED <<profile, record>> /\ link \in [Gen -> Farm \cup {None}]
  BY DEF Collect, Others, IInv, TypeOK
<1>2. Listed' = Listed \ {n} /\ \A k \in Listed' : link'[k] = link[k]
  BY <1>1 DEF Listed
<1>3. CurrentGeneration' = CurrentGeneration
  <2>1. CASE profile \notin Farm
    BY <1>1, <2>1 DEF CurrentGeneration
  <2>2. CASE profile \in Farm
    <3> DEFINE S == {k \in Listed : link[k] = profile} \cup {0}
               T == S \ {n}
    <3>1. CurrentGeneration = Max(S)
      BY <2>2 DEF CurrentGeneration
    <3>2. CurrentGeneration' = Max({k \in Listed' : link'[k] = profile'} \cup {0})
      BY <1>1, <2>2 DEF CurrentGeneration
    <3>3. {k \in Listed' : link'[k] = profile'} \cup {0} = T
      BY <1>1, <1>2, GenerationsAssumption DEF Gen
    <3>4. MaxGen \in Nat /\ S \in SUBSET (0 .. MaxGen) /\ 0 \in S /\ n # 0
      <4>1. \A k \in Listed : k \in 0 .. MaxGen
        BY ListedInGen
      <4>2. MaxGen \in Nat /\ n # 0
        BY GenerationsAssumption DEF Gen
      <4> QED BY <4>1, <4>2
    <3> HIDE DEF S
    <3>5. PICK m \in S : m = Max(S) /\ \A y \in S : y <= m
      BY <3>4, MaxIsLargest
    <3>6. PICK k \in T : k = Max(T) /\ \A y \in T : y <= k
      BY <3>4, MaxIsLargest
    <3>7. m \in T /\ m \in Nat /\ k \in Nat
      BY <1>1, <3>1, <3>4, <3>5, <3>6
    <3>8. m = k
      BY <3>5, <3>6, <3>7
    <3> QED BY <3>1, <3>2, <3>3, <3>5, <3>6, <3>8
  <2> QED BY <2>1, <2>2
<1>4. Kept' = [k \in Listed \ {n} |-> link[k]]
  BY <1>2 DEF Kept
<1>5. P!Drop(n) /\ n \in DOMAIN Kept \cup {0}
  BY <1>1, <1>3, <1>4 DEF P!Drop, Kept
<1>6. \E k \in DOMAIN Kept \cup {0} : P!Drop(k) \/ P!Elsewhere(k)
  BY <1>5
<1> QED BY <1>6 DEF P!Next, P!Outside, Kept

\* Wherever others point the profile, what is current is kept, or nothing is.
LEMMA RepointIsProfileStep ==
  ASSUME IInv, IInv', NEW d \in Gen \cup Farm, Repoint(d)
  PROVE  P!Next
<1>1. UNCHANGED <<link, record>> /\ Listed' = Listed /\ Kept' = Kept
  BY DEF Repoint, Others, Listed, Kept
<1>2. PICK n : n = CurrentGeneration'
  OBVIOUS
<1>3. n \in Listed' \cup {0}
  <2>1. CASE d \in Listed
    BY <1>1, <1>2, <2>1, GenerationsAssumption DEF Repoint, CurrentGeneration, Listed, Gen
  <2>2. CASE d \in Farm
    <3> DEFINE S == {k \in Listed : link[k] = d} \cup {0}
    <3>1. n = Max(S)
      BY <1>1, <1>2, <2>2 DEF Repoint, CurrentGeneration
    <3>2. MaxGen \in Nat /\ S \in SUBSET (0 .. MaxGen) /\ S # {} /\ S \subseteq Listed \cup {0}
      BY GenerationsAssumption DEF Listed, Gen
    <3> HIDE DEF S
    <3>3. Max(S) \in S
      BY <3>2, MaxIsLargest
    <3> QED BY <1>1, <3>1, <3>2, <3>3
  <2> QED BY <2>1, <2>2 DEF Repoint
<1>4. P!Elsewhere(n) /\ n \in DOMAIN Kept \cup {0}
  BY <1>1, <1>2, <1>3 DEF P!Elsewhere, Kept
<1>5. \E k \in DOMAIN Kept \cup {0} : P!Drop(k) \/ P!Elsewhere(k)
  BY <1>4
<1> QED BY <1>5 DEF P!Next, P!Outside, Kept

\* The runs, the failures, the crashes and the other tools keep what a profile
\* promises: a commit and a switch take effect in halves, and every other step is
\* a placement, a deletion, a change of hand or a stutter.
THEOREM GenerationsAreProfile == Spec => IsProfile
<1>1. ASSUME IInv, IInv', [Next]_vars
      PROVE  [P!Next]_(P!vars)
  <2>1. ASSUME UNCHANGED <<link, profile>>
        PROVE  P!Next
    BY <1>1, <2>1, RecordIsPlaced
  <2>2. ASSUME NEW a \in Runner, Link(a)
        PROVE  P!Next
    BY <1>1, <2>2, LinkIsProfileStep
  <2>3. ASSUME NEW a \in Runner, Point(a)
        PROVE  P!Next
    BY <1>1, <2>3, PointIsProfileStep
  <2>4. ASSUME NEW n \in Gen, Collect(n)
        PROVE  P!Next
    BY <1>1, <2>4, CollectIsProfileStep
  <2>5. ASSUME NEW d \in Gen \cup Farm, Repoint(d)
        PROVE  P!Next
    BY <1>1, <2>5, RepointIsProfileStep
  <2>6. \/ UNCHANGED <<link, profile>>
        \/ \E a \in Runner : Link(a) \/ Point(a)
        \/ \E n \in Gen : Collect(n)
        \/ \E d \in Gen \cup Farm : Repoint(d)
    BY <1>1 DEF Next, RunStep, vars, Start, Acquire, PlacePrevious, ResetRecord,
                WriteRecord, Place, Switch, Fail, Release, Observe, Exit, Crash
  <2> QED BY <2>1, <2>2, <2>3, <2>4, <2>5, <2>6
<1>2. IInv /\ IInv' /\ [Next]_vars => [P!Next]_(P!vars)
  BY <1>1
<1> QED BY <1>2, InitIsProfile, InitIInv, NextIInv, PTL DEF Spec, IsProfile, P!Spec
=============================================================================
