----------------------------- MODULE PlannerProofs -----------------------------
(***************************************************************************)
(* Facts about paths, trees (LayatFS) and plans (Planner), for every tree, *)
(* manifest and value of the constants.                                    *)
(***************************************************************************)
EXTENDS Planner, SequenceTheorems, TLAPS

LEMMA NodeTypes ==
  /\ Absent \in Node /\ Dir \in Node
  /\ \A d \in Val : LinkTo(d) \in Node /\ FileOf(d) \in Node
BY DEF Absent, Dir, LinkTo, FileOf, Node, Val

LEMMA AboveBelow ==
  /\ Above \in [Path -> SUBSET Path] /\ Below \in [Path -> SUBSET Path]
  /\ \A p \in Path : At(p) \subseteq Path
BY DEF Above, Below, At

LEMMA PutTree ==
  ASSUME NEW f \in Tree, NEW p, NEW n \in Node
  PROVE  Put(f, p, n) \in Tree
BY DEF Put, Tree

LEMMA MkdirsTree ==
  ASSUME NEW f \in Tree, NEW p
  PROVE  Mkdirs(f, p) \in Tree
BY NodeTypes DEF Mkdirs, Tree

LEMMA ClearTree ==
  ASSUME NEW f \in Tree, NEW p
  PROVE  Clear(f, p) \in Tree
BY NodeTypes DEF Clear, Tree

LEMMA RenameTree ==
  ASSUME NEW f \in Tree, NEW p, NEW q
  PROVE  Rename(f, p, q) \in Tree
BY NodeTypes DEF Rename, Tree

-----------------------------------------------------------------------------
(* Paths.                                                                   *)

LEMMA PathSequence ==
  ASSUME NEW p \in Path
  PROVE  p \in Seq(STRING) /\ Len(p) \in Nat \ {0} /\ DOMAIN p = 1 .. Len(p)
BY PathAssumption

LEMMA StrictPrefix ==
  ASSUME NEW p \in Seq(STRING), NEW q \in Seq(STRING)
  PROVE  IsStrictPrefix(p, q) <=> Len(p) < Len(q) /\ \A i \in 1 .. Len(p) : p[i] = q[i]
<1>1. ASSUME Len(p) <= Len(q)
      PROVE  SubSeq(p, 1, Len(p)) = SubSeq(q, 1, Len(p)) <=> \A i \in 1 .. Len(p) : p[i] = q[i]
  BY <1>1
<1>2. Len(p) = Len(q) /\ (\A i \in 1 .. Len(p) : p[i] = q[i]) => p = q
  OBVIOUS
<1> QED BY <1>1, <1>2 DEF IsStrictPrefix, IsPrefix

LEMMA AboveIs ==
  ASSUME NEW p \in Path, NEW q \in Path
  PROVE  /\ q \in Above[p] <=> Len(q) < Len(p) /\ \A i \in 1 .. Len(q) : q[i] = p[i]
         /\ p \in Below[q] <=> Len(q) < Len(p) /\ \A i \in 1 .. Len(q) : q[i] = p[i]
BY PathSequence, StrictPrefix DEF Above, Below

LEMMA InAt ==
  ASSUME NEW p \in Path, NEW q \in Path
  PROVE  p \in At(q) <=> Len(q) <= Len(p) /\ \A i \in 1 .. Len(q) : q[i] = p[i]
BY PathSequence, AboveIs DEF At

LEMMA AboveOrder ==
  ASSUME NEW p \in Path, NEW q \in Path, NEW r \in Path
  PROVE  /\ p \in Below[q] <=> q \in Above[p]
         /\ p \notin Above[p]
         /\ q \in Above[p] /\ r \in Above[q] => r \in Above[p]
         /\ q \in Above[p] => p \notin Above[q]
         /\ q \in Above[p] /\ r \in Above[p] => q = r \/ q \in Above[r] \/ r \in Above[q]
<1>1. Len(p) \in Nat /\ Len(q) \in Nat /\ Len(r) \in Nat
  BY PathSequence
<1>2. q \in Above[p] /\ r \in Above[p] /\ Len(q) = Len(r) => q = r
  <2> SUFFICES ASSUME q \in Above[p], r \in Above[p], Len(q) = Len(r) PROVE q = r
    OBVIOUS
  <2>1. \A i \in 1 .. Len(q) : q[i] = r[i]
    BY AboveIs
  <2> QED BY <2>1, PathSequence
<1> QED BY <1>1, <1>2, AboveIs

\* Being at or below.
LEMMA AtOrder ==
  ASSUME NEW p \in Path, NEW q \in Path, NEW r \in Path
  PROVE  /\ p \in At(q) <=> p = q \/ q \in Above[p]
         /\ p \in At(q) /\ q \in At(r) => p \in At(r)
         /\ p \in At(q) /\ p \in At(r) => q \in At(r) \/ r \in At(q)
         /\ p \in Above[q] /\ p \in At(r) => q \in At(r)
BY AboveOrder DEF At

LEMMA FrontAbove ==
  ASSUME NEW p \in Path
  PROVE  /\ Front(p) \in Path => Front(p) \in Above[p] /\ Above[p] = Above[Front(p)] \cup {Front(p)}
         /\ Front(p) \notin Path => Above[p] = {}
<1> DEFINE u == Front(p)
<1>1. p \in Seq(STRING) /\ Len(p) \in Nat \ {0}
  BY PathSequence
<1>2. u \in Seq(STRING) /\ Len(u) = Len(p) - 1 /\ \A i \in 1 .. Len(u) : u[i] = p[i]
  BY <1>1, SubSeqProperties DEF Front
<1>3. CASE u \in Path
  <2>1. u \in Above[p]
    BY <1>1, <1>2, <1>3, AboveIs
  <2>2. ASSUME NEW q \in Above[p] PROVE q = u \/ q \in Above[u]
    <3>1. q \in Path /\ Len(q) < Len(p) /\ Len(q) \in Nat /\ \A i \in 1 .. Len(q) : q[i] = p[i]
      BY <2>2, AboveIs, PathSequence DEF Above
    <3>2. Len(q) <= Len(u) /\ \A i \in 1 .. Len(q) : q[i] = u[i]
      BY <1>1, <1>2, <3>1
    <3>3. Len(q) = Len(u) => q = u
      BY <1>2, <3>1, <3>2, PathSequence
    <3> QED BY <1>1, <1>2, <1>3, <3>1, <3>2, <3>3, AboveIs
  <2>3. Above[u] \subseteq Above[p]
    BY <1>3, <2>1, AboveOrder DEF Above
  <2> QED BY <2>1, <2>2, <2>3, <1>3
<1>4. CASE u \notin Path
  <2>1. ~(Len(p) > 1)
    BY <1>4, PathAssumption
  <2>2. Len(p) = 1
    <3>1. \A n \in Nat \ {0} : ~(n > 1) => n = 1
      OBVIOUS
    <3> QED BY <1>1, <2>1, <3>1
  <2>3. \A q \in Above[p] : q \in Path /\ Len(q) \in Nat \ {0} /\ Len(q) < Len(p)
    BY AboveIs, PathSequence DEF Above
  <2>4. Above[p] = {}
    BY <2>2, <2>3
  <2> QED BY <2>4, <1>4
<1> QED BY <1>3, <1>4

-----------------------------------------------------------------------------
(* Renaming: what is at or below p, seen at or below q.                     *)

LEMMA RebaseIs ==
  ASSUME NEW p \in Path, NEW q \in Path, NEW r \in At(p)
  PROVE  /\ Rebase(q, p, r) \in Seq(STRING)
         /\ Len(Rebase(q, p, r)) = Len(q) + Len(r) - Len(p)
         /\ \A i \in 1 .. Len(q) : Rebase(q, p, r)[i] = q[i]
         /\ \A i \in 1 .. Len(r) - Len(p) : Rebase(q, p, r)[Len(q) + i] = r[Len(p) + i]
<1>1. p \in Seq(STRING) /\ q \in Seq(STRING) /\ r \in Seq(STRING) /\ r \in Path
      /\ Len(p) \in Nat /\ Len(q) \in Nat /\ Len(r) \in Nat
  BY PathSequence DEF At, Below
<1>2. Len(p) <= Len(r)
  BY <1>1, InAt
<1> DEFINE s == SubSeq(r, Len(p) + 1, Len(r))
<1>3. s \in Seq(STRING) /\ Len(s) = Len(r) - Len(p) /\ \A i \in 1 .. Len(s) : s[i] = r[Len(p) + i]
  BY <1>1, <1>2
<1> HIDE DEF s
<1>4. /\ q \o s \in Seq(STRING) /\ Len(q \o s) = Len(q) + Len(s)
      /\ \A i \in 1 .. Len(q) : (q \o s)[i] = q[i]
      /\ \A i \in 1 .. Len(s) : (q \o s)[Len(q) + i] = s[i]
  <2> DEFINE c == q \o s
  <2>1. /\ c \in Seq(STRING) /\ Len(c) = Len(q) + Len(s)
        /\ \A i \in 1 .. Len(q) + Len(s) : c[i] = IF i <= Len(q) THEN q[i] ELSE s[i - Len(q)]
    BY <1>1, <1>3, ConcatProperties
  <2> HIDE DEF c
  <2>2. ASSUME NEW i \in 1 .. Len(q) PROVE c[i] = q[i]
    <3>1. Len(s) \in Nat
      BY <1>3
    <3>2. i \in 1 .. Len(q) + Len(s) /\ i <= Len(q)
      BY <1>1, <3>1
    <3> QED BY <2>1, <3>2
  <2>3. ASSUME NEW i \in 1 .. Len(s) PROVE c[Len(q) + i] = s[i]
    <3>1. Len(q) + i \in 1 .. Len(q) + Len(s) /\ ~(Len(q) + i <= Len(q)) /\ (Len(q) + i) - Len(q) = i
      BY <1>1, <1>3
    <3> QED BY <2>1, <3>1
  <2> QED BY <2>1, <2>2, <2>3 DEF c
<1>5. Rebase(q, p, r) = q \o s
  BY DEF Rebase, s
<1> QED BY <1>1, <1>2, <1>3, <1>4, <1>5

LEMMA RebaseSelf ==
  ASSUME NEW p \in Path, NEW q \in Path
  PROVE  Rebase(q, p, p) = q
<1> DEFINE v == Rebase(q, p, p)
<1>1. p \in At(p) /\ Len(p) \in Nat /\ Len(q) \in Nat /\ q \in Seq(STRING)
  BY PathSequence DEF At
<1>2. /\ v \in Seq(STRING) /\ Len(v) = Len(q) + Len(p) - Len(p)
      /\ \A i \in 1 .. Len(q) : v[i] = q[i]
  BY <1>1, RebaseIs
<1> HIDE DEF v
<1>3. Len(v) = Len(q)
  BY <1>1, <1>2
<1>4. v = q
  BY <1>1, <1>2, <1>3
<1> QED BY <1>4 DEF v

LEMMA RebaseAt ==
  ASSUME NEW p \in Path, NEW q \in Path, NEW r \in At(p), Rebase(q, p, r) \in Path
  PROVE  /\ Rebase(q, p, r) \in At(q)
         /\ Rebase(p, q, Rebase(q, p, r)) = r
         /\ Rebase(q, p, p) = q
         /\ r # p => q \in Above[Rebase(q, p, r)]
<1> DEFINE s == Rebase(q, p, r)
<1>1. Len(p) \in Nat /\ Len(q) \in Nat /\ r \in Path /\ r \in Seq(STRING) /\ Len(r) \in Nat
      /\ q \in Seq(STRING) /\ p \in Seq(STRING)
  BY PathSequence DEF At, Below
<1>2. Len(p) <= Len(r) /\ \A i \in 1 .. Len(p) : p[i] = r[i]
  BY <1>1, InAt
<1>3. s \in At(q)
  <2>1. Len(s) = Len(q) + Len(r) - Len(p) /\ \A i \in 1 .. Len(q) : s[i] = q[i]
    BY RebaseIs
  <2>2. Len(q) <= Len(s)
    BY <1>1, <1>2, <2>1
  <2> HIDE DEF s
  <2> QED BY <2>1, <2>2, InAt DEF s
<1>4. Rebase(p, q, s) = r
  <2> DEFINE v == Rebase(p, q, s)
  <2>1. /\ v \in Seq(STRING) /\ Len(v) = Len(p) + Len(s) - Len(q)
        /\ \A i \in 1 .. Len(p) : v[i] = p[i]
        /\ \A i \in 1 .. Len(s) - Len(q) : v[Len(p) + i] = s[Len(q) + i]
    BY <1>3, RebaseIs
  <2>2. /\ Len(s) = Len(q) + Len(r) - Len(p)
        /\ \A i \in 1 .. Len(r) - Len(p) : s[Len(q) + i] = r[Len(p) + i]
    BY RebaseIs
  <2> HIDE DEF v, s
  <2>3. Len(v) = Len(r)
    BY <1>1, <2>1, <2>2
  <2>4. ASSUME NEW i \in 1 .. Len(r) PROVE v[i] = r[i]
    <3>1. CASE i <= Len(p)
      BY <1>1, <1>2, <2>1, <3>1
    <3>2. CASE i > Len(p)
      <4>1. i - Len(p) \in 1 .. Len(r) - Len(p) /\ Len(p) + (i - Len(p)) = i
        BY <1>1, <3>2
      <4>2. i - Len(p) \in 1 .. Len(s) - Len(q)
        BY <1>1, <2>2, <4>1
      <4>3. v[Len(p) + (i - Len(p))] = s[Len(q) + (i - Len(p))]
        BY <2>1, <4>2
      <4>4. s[Len(q) + (i - Len(p))] = r[Len(p) + (i - Len(p))]
        BY <2>2, <4>1
      <4> QED BY <4>1, <4>3, <4>4
    <3> QED BY <1>1, <3>1, <3>2
  <2> QED BY <1>1, <2>1, <2>3, <2>4 DEF v
<1>5. Rebase(q, p, p) = q
  BY <1>1, RebaseSelf
<1>6. r # p => q \in Above[s]
  <2>1. s = q => r = p
    BY <1>4, RebaseSelf
  <2> QED BY <1>3, <2>1, AtOrder
<1> QED BY <1>3, <1>4, <1>5, <1>6

\* What is above comes with it.
LEMMA RebaseAbove ==
  ASSUME NEW p \in Path, NEW q \in Path, NEW r \in At(p), NEW a \in At(p),
         Rebase(q, p, r) \in Path, Rebase(q, p, a) \in Path, a \in Above[r]
  PROVE  Rebase(q, p, a) \in Above[Rebase(q, p, r)]
<1> DEFINE s == Rebase(q, p, r)
           b == Rebase(q, p, a)
<1>1. Len(p) \in Nat /\ Len(q) \in Nat /\ r \in Path /\ Len(r) \in Nat /\ a \in Path /\ Len(a) \in Nat
  BY PathSequence DEF At, Below
<1>2. Len(p) <= Len(a) /\ Len(a) < Len(r) /\ \A i \in 1 .. Len(a) : a[i] = r[i]
  BY <1>1, InAt, AboveIs
<1>3. /\ Len(s) = Len(q) + Len(r) - Len(p)
      /\ \A i \in 1 .. Len(q) : s[i] = q[i]
      /\ \A i \in 1 .. Len(r) - Len(p) : s[Len(q) + i] = r[Len(p) + i]
  BY RebaseIs
<1>4. /\ Len(b) = Len(q) + Len(a) - Len(p)
      /\ \A i \in 1 .. Len(q) : b[i] = q[i]
      /\ \A i \in 1 .. Len(a) - Len(p) : b[Len(q) + i] = a[Len(p) + i]
  BY RebaseIs
<1> HIDE DEF s, b
<1>5. Len(b) < Len(s)
  BY <1>1, <1>2, <1>3, <1>4
<1>6. ASSUME NEW i \in 1 .. Len(b) PROVE b[i] = s[i]
  <2>1. CASE i <= Len(q)
    BY <1>1, <1>3, <1>4, <2>1
  <2>2. CASE i > Len(q)
    <3>1. i - Len(q) \in 1 .. Len(a) - Len(p) /\ Len(q) + (i - Len(q)) = i
          /\ i - Len(q) \in 1 .. Len(r) - Len(p) /\ Len(p) + (i - Len(q)) \in 1 .. Len(a)
      BY <1>1, <1>2, <1>4, <2>2
    <3> QED BY <1>1, <1>2, <1>3, <1>4, <3>1
  <2> QED BY <1>1, <1>4, <2>1, <2>2
<1> QED BY <1>5, <1>6, AboveIs DEF s, b

-----------------------------------------------------------------------------
(* Trees in which whatever exists is in real directories.                   *)

Closed(f) == \A p \in Path : Exists(f, p) => InRealDir(f, p)

LEMMA NodeIs ==
  ASSUME NEW f \in Tree, NEW p \in Path
  PROVE  /\ f[p].kind \in {"absent", "dir", "link", "file"}
         /\ Exists(f, p) <=> IsDir(f, p) \/ IsLink(f, p) \/ IsFile(f, p)
         /\ IsDir(f, p) => ~IsLink(f, p) /\ ~IsFile(f, p)
         /\ IsLink(f, p) => ~IsFile(f, p)
BY DEF Tree, Node, Exists, IsDir, IsLink, IsFile

LEMMA NothingBelow ==
  ASSUME NEW f \in Tree, Closed(f), NEW p \in Path, ~IsDir(f, p), NEW r \in Below[p]
  PROVE  r \in Path /\ ~Exists(f, r)
BY AboveOrder DEF Closed, InRealDir, Below

LEMMA NothingUnder ==
  ASSUME NEW f \in Tree, Closed(f), NEW p \in Path, ~InRealDir(f, p) \/ ~Exists(f, p),
         NEW r \in At(p)
  PROVE  ~Exists(f, r)
<1>1. r \in Path /\ (r = p \/ r \in Below[p])
  BY DEF At, Below
<1>2. CASE ~Exists(f, p)
  BY <1>1, <1>2, NothingBelow DEF Exists, IsDir
<1>3. CASE ~InRealDir(f, p)
  <2>1. PICK q \in Above[p] : ~IsDir(f, q)
    BY <1>3 DEF InRealDir
  <2>2. q \in Path
    BY <2>1 DEF Above
  <2>3. q \in Above[r]
    BY <1>1, <2>1, <2>2, AboveOrder
  <2> QED BY <1>1, <2>1, <2>3 DEF Closed, InRealDir
<1> QED BY <1>2, <1>3

LEMMA PutClosed ==
  ASSUME NEW f \in Tree, Closed(f), NEW p \in Path, NEW n \in Node,
         n.kind # "absent" => InRealDir(f, p),
         n.kind # "dir" => \A r \in Below[p] : ~Exists(f, r)
  PROVE  Closed(Put(f, p, n))
<1> DEFINE g == Put(f, p, n)
<1>1. \A r \in Path : g[r] = IF r = p THEN n ELSE f[r]
  BY DEF Put, Tree
<1> HIDE DEF g
<1>2. SUFFICES ASSUME NEW r \in Path, Exists(g, r), NEW q \in Above[r]
               PROVE  IsDir(g, q)
  BY DEF Closed, InRealDir, g
<1>3. q \in Path /\ q # r /\ r \in Below[q] /\ p \notin Above[p]
  BY <1>2, AboveOrder DEF Above
<1>4. IsDir(f, q)
  BY <1>1, <1>2 DEF Closed, InRealDir, Exists, IsDir
<1>5. q = p => n.kind = "dir"
  BY <1>1, <1>2, <1>3 DEF Exists
<1> QED BY <1>1, <1>3, <1>4, <1>5 DEF IsDir

LEMMA MkdirsClosed ==
  ASSUME NEW f \in Tree, Closed(f), NEW p \in Path, CanMkdirs(f, p)
  PROVE  Closed(Mkdirs(f, p)) /\ InRealDir(Mkdirs(f, p), p)
<1> DEFINE g == Mkdirs(f, p)
<1>1. \A r \in Path : g[r] = IF r \in Above[p] /\ ~Exists(f, r) THEN Dir ELSE f[r]
  BY DEF Mkdirs
<1> HIDE DEF g
<1>2. Above[p] \subseteq Path
  BY DEF Above
<1>3. \A q \in Above[p] : IsDir(g, q)
  BY <1>1, <1>2 DEF CanMkdirs, IsDir, Exists, Dir
<1>4. ASSUME NEW r \in Path, Exists(g, r), NEW q \in Above[r]
      PROVE  IsDir(g, q)
  <2>1. q \in Path
    BY <1>4 DEF Above
  <2>2. CASE r \in Above[p]
    BY <1>3, <1>4, <2>1, <2>2, AboveOrder
  <2>3. CASE r \notin Above[p]
    BY <1>1, <1>4, <2>1, <2>3 DEF Closed, InRealDir, Exists, IsDir, Dir
  <2> QED BY <2>2, <2>3
<1> QED BY <1>3, <1>4 DEF Closed, InRealDir, g

\* Everything at and below some paths goes.
LEMMA ClearedClosed ==
  ASSUME NEW f \in Tree, Closed(f), NEW g \in Tree, NEW Q, Q \subseteq Path,
         \A r \in Path : g[r] = IF \E q \in Q : r \in At(q) THEN Absent ELSE f[r]
  PROVE  Closed(g)
<1> SUFFICES ASSUME NEW r \in Path, Exists(g, r), NEW a \in Above[r]
             PROVE  IsDir(g, a)
  BY DEF Closed, InRealDir
<1>1. a \in Path /\ g[r] = f[r] /\ ~(\E q \in Q : r \in At(q))
  BY DEF Above, Exists, Absent
<1>2. ~(\E q \in Q : a \in At(q))
  BY <1>1, AtOrder
<1> QED BY <1>1, <1>2 DEF Closed, InRealDir, Exists, IsDir

LEMMA ClearClosed ==
  ASSUME NEW f \in Tree, Closed(f), NEW p \in Path
  PROVE  Closed(Clear(f, p))
<1>1. Clear(f, p) \in Tree
  BY DEF Clear, Tree, Node, Absent, Val
<1>2. \A r \in Path : Clear(f, p)[r] = IF \E q \in {p} : r \in At(q) THEN Absent ELSE f[r]
  BY DEF Clear
<1> QED BY <1>1, <1>2, ClearedClosed

-----------------------------------------------------------------------------
(* Renaming p to q, where neither contains the other.                       *)

Movable(p, q) ==
  /\ p \in Path /\ q \in Path /\ p \notin At(q) /\ q \notin At(p)
  /\ \A r \in At(p) : Rebase(q, p, r) \in Path
  /\ \A r \in At(q) : Rebase(p, q, r) \in Path

LEMMA MovableApart ==
  ASSUME NEW p, NEW q, Movable(p, q)
  PROVE  Movable(q, p) /\ At(p) \cap At(q) = {} /\ At(p) \subseteq Path /\ At(q) \subseteq Path
<1>1. At(p) \subseteq Path /\ At(q) \subseteq Path
  BY DEF At, Below, Movable
<1> QED BY <1>1, AtOrder DEF Movable

LEMMA RenameIs ==
  ASSUME NEW f, NEW p, NEW q, Movable(p, q)
  PROVE  \A r \in Path : Rename(f, p, q)[r] =
           IF r \in At(q) THEN f[Rebase(p, q, r)] ELSE IF r \in At(p) THEN Absent ELSE f[r]
BY DEF Rename, Movable

\* The content of p arrives at q.
LEMMA RenameMoves ==
  ASSUME NEW f, NEW p, NEW q, Movable(p, q), NEW r \in At(p)
  PROVE  /\ Rebase(q, p, r) \in At(q) /\ Rename(f, p, q)[Rebase(q, p, r)] = f[r]
<1>1. Rebase(q, p, r) \in Path /\ p \in Path /\ q \in Path
  BY DEF Movable
<1>2. Rebase(q, p, r) \in At(q) /\ Rebase(p, q, Rebase(q, p, r)) = r
  BY <1>1, RebaseAt
<1> QED BY <1>1, <1>2, RenameIs

LEMMA RenameClosed ==
  ASSUME NEW f \in Tree, Closed(f), NEW p, NEW q, Movable(p, q), CanRename(f, p, q)
  PROVE  Closed(Rename(f, p, q))
<1> DEFINE g == Rename(f, p, q)
<1>1. \A r \in Path : g[r] = IF r \in At(q) THEN f[Rebase(p, q, r)]
                             ELSE IF r \in At(p) THEN Absent ELSE f[r]
  BY RenameIs
<1> HIDE DEF g
<1>2. SUFFICES ASSUME NEW r \in Path, Exists(g, r), NEW a \in Above[r]
               PROVE  IsDir(g, a)
  BY DEF Closed, InRealDir, g
<1>3. a \in Path /\ p \in Path /\ q \in Path /\ At(p) \cap At(q) = {}
  BY MovableApart DEF Movable, Above
<1>4. CASE r \in At(q)
  <2>1. Rebase(p, q, r) \in Path /\ Exists(f, Rebase(p, q, r))
    BY <1>1, <1>2, <1>4 DEF Movable, Exists
  <2>2. CASE a \in At(q)
    <3>1. Rebase(p, q, a) \in Path
      BY <2>2 DEF Movable
    <3>2. Rebase(p, q, a) \in Above[Rebase(p, q, r)]
      BY <1>3, <1>4, <2>1, <2>2, <3>1, RebaseAbove
    <3> QED BY <1>1, <1>3, <2>1, <2>2, <3>2 DEF Closed, InRealDir, IsDir
  <2>3. CASE a \notin At(q)
    <3>1. a \in Above[q]
      BY <1>2, <1>3, <1>4, <2>3, AtOrder DEF At
    <3>2. a \notin At(p)
      BY <1>3, <3>1, AtOrder DEF Movable
    <3> QED BY <1>1, <1>3, <2>3, <3>1, <3>2 DEF CanRename, InRealDir, IsDir
  <2> QED BY <2>2, <2>3
<1>5. CASE r \notin At(q)
  <2>1. r \notin At(p) /\ Exists(f, r)
    BY <1>1, <1>2, <1>5 DEF Exists, Absent
  <2>2. a \notin At(q) /\ a \notin At(p)
    BY <1>2, <1>3, <1>5, <2>1, AtOrder
  <2> QED BY <1>1, <1>2, <1>3, <2>1, <2>2 DEF Closed, InRealDir, IsDir
<1> QED BY <1>4, <1>5

-----------------------------------------------------------------------------
(* Plans.                                                                   *)

LEMMA ManifestTypes ==
  ASSUME NEW m, IsManifest(m)
  PROVE  /\ Symlinks(m) \subseteq DOMAIN m /\ Copies(m) \subseteq DOMAIN m
         /\ DOMAIN m \subseteq Target /\ DOMAIN m \subseteq Path
         /\ \A t \in DOMAIN m : m[t] \in EntryInfo /\ m[t].src \in Src /\ m[t].src \in Val
         /\ \A t \in DOMAIN m : t \in Symlinks(m) \/ t \in Copies(m)
BY TargetAssumption DEF IsManifest, EntryInfo, Symlinks, Copies, Val

\* A plan names paths and targets, and places entries of the new manifest only.
LEMMA ComputeType ==
  ASSUME NEW f \in Tree, NEW prev, IsManifest(prev), NEW next, IsManifest(next),
         NEW backup \in BOOLEAN
  PROVE  LET p == Compute(f, prev, next, backup)
         IN p \in Plan /\ p.new \cup p.replace \cup p.foreign \cup p.copies \subseteq DOMAIN next
<1>1. /\ UnderLink(f, next) \subseteq DOMAIN next /\ Beneath(f, prev, next) \subseteq DOMAIN next
      /\ Links(f, next) \subseteq DOMAIN next /\ Occupied(f, next) \subseteq DOMAIN next
      /\ Migrated(f, prev, next) \subseteq DOMAIN next
      /\ Swapped(f, prev, next) \subseteq DOMAIN next
      /\ Present(f, prev, next) \subseteq DOMAIN next
      /\ AbsentCopies(f, next) \subseteq DOMAIN next
  BY ManifestTypes DEF UnderLink, Beneath, Links, Occupied, Migrated, Swapped, Present, AbsentCopies
<1>2. /\ Blocked(f, prev, next) \subseteq DOMAIN next /\ Unknown(f, prev, next) \subseteq DOMAIN next
      /\ Moved(f, prev, next) \subseteq DOMAIN next
      /\ SetAside(f, prev, next, backup) \subseteq DOMAIN next
      /\ Stuck(f, prev, next, backup) \subseteq DOMAIN next
      /\ Cleared(f, prev, next, backup) \subseteq DOMAIN next
  BY <1>1 DEF Blocked, Unknown, Mismatched, Moved, SetAside, Stuck, Cleared
<1>3. /\ Ancestors(f, prev, next) \subseteq Path /\ InMigrated(f, prev, next) \subseteq Path
      /\ Unlinked(f, prev, next) \subseteq Path
      /\ Stale(f, prev, next, backup) \subseteq DOMAIN prev
  BY <1>1, ManifestTypes, AboveBelow
     DEF Ancestors, SymlinksAbove, InMigrated, Unlinked, Stale
<1> QED BY <1>1, <1>2, <1>3, ManifestTypes DEF Compute, Plan

\* What is done leaves the plan.
LEMMA PlanShrinks ==
  ASSUME NEW p \in Plan, NEW S
  PROVE  /\ [p EXCEPT !.unlink = @ \ S] \in Plan
         /\ [p EXCEPT !.rmdir = @ \ S] \in Plan
         /\ [p EXCEPT !.unlink = @ \ S, !.rmdir = @ \ S] \in Plan
         /\ [p EXCEPT !.backup = @ \ S] \in Plan
         /\ [p EXCEPT !.new = @ \ S] \in Plan
         /\ [p EXCEPT !.replace = @ \ S, !.foreign = @ \ S] \in Plan
         /\ [p EXCEPT !.new = @ \ S, !.replace = @ \ S, !.foreign = @ \ S] \in Plan
         /\ [p EXCEPT !.copies = @ \ S] \in Plan
         /\ [p EXCEPT !.remove = @ \ S] \in Plan
BY DEF Plan

-----------------------------------------------------------------------------
\* What a plan takes out of the way, before placement or at the end, are links
\* the baseline recorded and that still point where it says, and no link that
\* the new manifest keeps as a link: links of the user, and links that drifted,
\* stay (planner.go Compute, recordedLink, classifyDirMigration).
THEOREM RemovesOnlyRecorded ==
  ASSUME NEW f \in Tree, NEW prev, IsManifest(prev), NEW next, IsManifest(next),
         NEW backup \in BOOLEAN
  PROVE  LET p == Compute(f, prev, next, backup)
         IN \A q \in p.unlink \cup p.remove :
              RecordedLink(f, prev, q) /\ q \notin Symlinks(next)
<1>1. ASSUME NEW q \in Ancestors(f, prev, next)
      PROVE  RecordedLink(f, prev, q) /\ q \notin Symlinks(next)
  BY <1>1 DEF Ancestors, Beneath, Dropped, Symlinks
<1>2. ASSUME NEW q \in Swapped(f, prev, next)
      PROVE  RecordedLink(f, prev, q) /\ q \notin Symlinks(next)
  BY <1>2 DEF Swapped, Copies, Symlinks
<1>3. ASSUME NEW q \in InMigrated(f, prev, next), IsLink(f, q)
      PROVE  RecordedLink(f, prev, q) /\ q \notin Symlinks(next)
  <2>1. PICK t \in Migrated(f, prev, next) : q \in At(t)
    BY <1>3 DEF InMigrated
  <2>2. q \in Below[t]
    BY <1>3, <2>1 DEF Migrated, Occupied, At, IsLink, IsDir
  <2> QED BY <1>3, <2>1, <2>2 DEF Migrated, Migratable, Dropped, Symlinks
<1>4. ASSUME NEW q \in Stale(f, prev, next, backup), RecordedLink(f, prev, q)
      PROVE  RecordedLink(f, prev, q) /\ q \notin Symlinks(next)
  BY <1>4 DEF Stale, Symlinks
<1> QED BY <1>1, <1>2, <1>3, <1>4 DEF Compute, Unlinked

\* A plan without conflicts forgets no entry: each is placed in exactly one way,
\* or is a copy whose target is already there (place-once).
THEOREM PlanIsComplete ==
  ASSUME NEW f \in Tree, NEW prev, IsManifest(prev), NEW next, IsManifest(next),
         NEW backup \in BOOLEAN, Compute(f, prev, next, backup).conflicts = {}
  PROVE  LET p == Compute(f, prev, next, backup)
         IN /\ \A t \in Symlinks(next) : t \in p.new \cup p.replace \cup p.foreign
            /\ \A t \in Copies(next) : t \in p.copies \/ Exists(f, t)
            /\ p.new \cap (p.replace \cup p.foreign) = {}
            /\ p.replace \cap p.foreign = {}
            /\ p.new \cap p.copies = {}
<1> DEFINE p == Compute(f, prev, next, backup)
<1>1. UnderLink(f, next) = Beneath(f, prev, next) /\ Stuck(f, prev, next, backup) = {}
  BY DEF Compute, Beneath
<1>2. \A t \in Symlinks(next) : t \in p.new \cup p.replace \cup p.foreign
  <2> SUFFICES ASSUME NEW t \in Symlinks(next)
               PROVE  t \in p.new \cup p.replace \cup p.foreign
    OBVIOUS
  <2>1. CASE t \in UnderLink(f, next)
    BY <1>1, <2>1 DEF Compute, Cleared
  <2>2. CASE t \in Links(f, next)
    <3>1. f[t].kind \in {"absent", "dir", "link", "file"}
      BY ManifestTypes DEF Tree, Node
    <3>2. CASE IsLink(f, t) \/ ~Exists(f, t)
      BY <2>2, <3>2 DEF Compute
    <3>3. CASE IsDir(f, t) \/ IsFile(f, t)
      <4>1. t \in Migrated(f, prev, next) \/ t \in Blocked(f, prev, next)
        BY <2>2, <3>3 DEF Occupied, Blocked, Migrated
      <4>2. t \in Migrated(f, prev, next) \/ t \in SetAside(f, prev, next, backup)
        BY <4>1, <1>1 DEF Stuck, SetAside
      <4> QED BY <4>2 DEF Compute, Cleared
    <3> QED BY <3>1, <3>2, <3>3 DEF IsLink, Exists, IsDir, IsFile
  <2> QED BY <2>1, <2>2 DEF Links
<1>3. \A t \in Copies(next) : t \in p.copies \/ Exists(f, t)
  BY <1>1 DEF Compute, AbsentCopies, Cleared
<1>4. p.new \cap (p.replace \cup p.foreign) = {} /\ p.replace \cap p.foreign = {}
  BY ManifestTypes
     DEF Compute, Links, Migrated, Occupied, Cleared, Beneath, UnderLink, SetAside, Moved,
         Blocked, Unknown, Mismatched, Present, Exists, IsLink, IsDir, IsFile, Symlinks, Copies
<1>5. p.new \cap p.copies = {}
  BY DEF Compute, Links, Migrated, Occupied, AbsentCopies, Swapped, Symlinks, Copies
<1> QED BY <1>2, <1>3, <1>4, <1>5
=============================================================================
