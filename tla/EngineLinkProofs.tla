--------------------------- MODULE EngineLinkProofs ---------------------------
(***************************************************************************)
(* The links to layat's sources that Engine leaves at targets are all      *)
(* named by the baseline between two runs: what a run journals leads back  *)
(* to the links that were there, whatever happens to the tree meanwhile.   *)
(***************************************************************************)
EXTENDS EngineProofs

\* No two targets share a backup or an aside, and none has one for the other.
NamesDiffer ==
  \A s, t \in Target :
    /\ BackupOf[s] # AsideOf[t]
    /\ s # t => BackupOf[s] # BackupOf[t] /\ AsideOf[s] # AsideOf[t]

Restores == {"restoreRename", "restoreBackup"}

\* f has a link of layat's at p; m names it.
SrcLink(f, p) == IsLink(f, p) /\ f[p].val \in Src
Named(f, m, t) == t \in Symlinks(m) /\ f[t].val = m[t].src
AllNamed(f, m) == \A t \in Target : SrcLink(f, t) => Named(f, m, t)

\* What undoing op leaves at r, where G tells which sources were linked to.
Leads(op, G, r) ==
  LET p == op.path
      q == Beside(op.kind, p)
  IN CASE op.kind = "unlinkNew" -> IF r = p THEN {} ELSE G[r]
       [] op.kind = "relinkOld" -> IF r = p THEN {op.dest} \cap Src ELSE G[r]
       [] op.kind = "removeCopy" -> IF r \in At(p) THEN {} ELSE G[r]
       [] op.kind \in Restores ->
            IF r \in At(p) THEN G[Rebase(q, p, r)] ELSE IF r \in At(q) THEN {} ELSE G[r]
       [] op.kind = "mkdir" -> G[r]

Guesses == [Path -> SUBSET Src]
LinksOf(f) == [r \in Path |-> IF SrcLink(f, r) THEN {f[r].val} ELSE {}]

\* h tells, for each length of the journal j, where links may lead when j is
\* undone so far; at length 0 they are those m names.
History(h, j, m) ==
  /\ h \in [0 .. Len(j) -> Guesses]
  /\ \A i \in DOMAIN j : \A r \in Path : Leads(j[i], h[i], r) \subseteq h[i - 1][r]
  /\ \A t \in Target : \A d \in h[0][t] : t \in Symlinks(m) /\ d = m[t].src

\* Undoing j from the tree f leads to links that m names, those in L left out.
Traced(f, j, m, L) ==
  \E h : History(h, j, m) /\ \A r \in Path \ L : SrcLink(f, r) => f[r].val \in h[Len(j)][r]

\* Where a backup or an aside is that nothing in j brings back any more.
Lost(j) ==
  {r \in Path : \E t \in Target : \E q \in {BackupOf[t], AsideOf[t]} :
     r \in At(q) /\ \A i \in DOMAIN j : j[i].kind \in Restores => Beside(j[i].kind, j[i].path) # q}

LEMMA TraceKeep ==
  ASSUME NEW f, NEW g, NEW j, NEW m, NEW L, NEW M, L \subseteq M, Traced(f, j, m, L),
         \A r \in Path : SrcLink(g, r) => g[r] = f[r]
  PROVE  Traced(g, j, m, M)
<1>1. PICK h : History(h, j, m) /\ \A r \in Path \ L : SrcLink(f, r) => f[r].val \in h[Len(j)][r]
  BY DEF Traced
<1>2. \A r \in Path \ M : SrcLink(g, r) => g[r].val \in h[Len(j)][r]
  BY <1>1 DEF SrcLink, IsLink
<1> QED BY <1>1, <1>2 DEF Traced

LEMMA TraceEmpty ==
  ASSUME NEW f, NEW m, AllNamed(f, m), Target \subseteq Path
  PROVE  Traced(f, << >>, m, {})
<1> DEFINE h == [k \in 0 .. Len(<< >>) |-> LinksOf(f)]
<1>1. LinksOf(f) \in Guesses
  BY DEF LinksOf, Guesses, SrcLink
<1>2. Len(<< >>) = 0 /\ DOMAIN << >> = {}
  OBVIOUS
<1>3. h[0] = LinksOf(f) /\ h[Len(<< >>)] = LinksOf(f)
  BY <1>2
<1>4. h \in [0 .. Len(<< >>) -> Guesses]
  BY <1>1
<1>5. \A r \in Path : SrcLink(f, r) => f[r].val \in LinksOf(f)[r]
  BY DEF LinksOf
<1>6. \A t \in Target : \A d \in LinksOf(f)[t] : t \in Symlinks(m) /\ d = m[t].src
  BY DEF LinksOf, AllNamed, Named
<1>7. History(h, << >>, m)
  <2> HIDE DEF h
  <2> QED BY <1>2, <1>3, <1>4, <1>6 DEF History
<1> HIDE DEF h
<1> QED BY <1>3, <1>5, <1>7 DEF Traced

LEMMA TraceEnd ==
  ASSUME NamesApart, NEW f, NEW m, Traced(f, << >>, m, Lost(<< >>)), Target \subseteq Path
  PROVE  AllNamed(f, m)
<1>1. Target \cap Lost(<< >>) = {}
  BY DEF NamesApart, Lost
<1>2. Len(<< >>) = 0
  OBVIOUS
<1> QED BY <1>1, <1>2 DEF Traced, History, AllNamed, Named

\* A step that journals its inverse.
LEMMA TracePush ==
  ASSUME NEW f, NEW g, NEW j \in Seq(UndoOp), NEW m, NEW op \in UndoOp,
         Traced(f, j, m, {}),
         \A r \in Path : \A d \in Leads(op, LinksOf(g), r) : SrcLink(f, r) /\ f[r].val = d
  PROVE  Traced(g, Append(j, op), m, {})
<1>1. PICK h : History(h, j, m) /\ \A r \in Path : SrcLink(f, r) => f[r].val \in h[Len(j)][r]
  BY DEF Traced
<1> DEFINE n == Len(j)
           k == Append(j, op)
           H == [i \in 0 .. Len(k) |-> IF i = n + 1 THEN LinksOf(g) ELSE h[i]]
<1>2. /\ n \in Nat /\ Len(k) = n + 1 /\ DOMAIN k = 1 .. n + 1 /\ DOMAIN j = 1 .. n
      /\ k[n + 1] = op /\ \A i \in 1 .. n : k[i] = j[i]
  OBVIOUS
<1>3. LinksOf(g) \in Guesses
  BY DEF LinksOf, Guesses, SrcLink
<1>4. H[n + 1] = LinksOf(g) /\ \A i \in 0 .. n : H[i] = h[i]
  BY <1>2
<1>5. H \in [0 .. Len(k) -> Guesses]
  <2>1. \A i \in 0 .. n : h[i] \in Guesses
    BY <1>1 DEF History
  <2> QED BY <1>2, <1>3, <2>1
<1>6. ASSUME NEW i \in DOMAIN k, NEW r \in Path
      PROVE  Leads(k[i], H[i], r) \subseteq H[i - 1][r]
  <2> HIDE DEF H, k
  <2>1. CASE i = n + 1
    <3>1. H[i - 1] = h[n] /\ H[i] = LinksOf(g) /\ k[i] = op
      BY <1>2, <1>4, <2>1
    <3> QED BY <1>1, <3>1
  <2>2. CASE i \in 1 .. n
    <3>1. H[i - 1] = h[i - 1] /\ H[i] = h[i] /\ k[i] = j[i] /\ i \in DOMAIN j
      BY <1>2, <1>4, <2>2
    <3> QED BY <1>1, <3>1 DEF History
  <2> QED BY <1>2, <2>1, <2>2
<1>7. H[0] = h[0]
  BY <1>2, <1>4
<1>8. History(H, k, m)
  <2> HIDE DEF H, k
  <2> QED BY <1>1, <1>5, <1>6, <1>7 DEF History
<1>9. \A r \in Path : SrcLink(g, r) => g[r].val \in H[Len(k)][r]
  BY <1>2, <1>4 DEF LinksOf
<1> HIDE DEF H, k
<1> QED BY <1>8, <1>9 DEF Traced, k

\* A link made where the journal puts back another.
LEMMA TraceTop ==
  ASSUME NEW f, NEW g, NEW j \in Seq(UndoOp), j # << >>, NEW m, NEW p \in Path,
         Last(j).kind = "relinkOld", Last(j).path = p, Traced(f, j, m, {}),
         \A r \in Path : r # p /\ SrcLink(g, r) => g[r] = f[r]
  PROVE  Traced(g, j, m, {})
<1>1. PICK h : History(h, j, m) /\ \A r \in Path : SrcLink(f, r) => f[r].val \in h[Len(j)][r]
  BY DEF Traced
<1> DEFINE n == Len(j)
           G == [h[n] EXCEPT ![p] = Src]
           H == [h EXCEPT ![n] = G]
<1>2. n \in Nat \ {0} /\ n \in DOMAIN j /\ DOMAIN j = 1 .. n /\ j[n] = Last(j) /\ 0 # n
  BY DEF Last
<1>3. h \in [0 .. n -> Guesses] /\ h[n] \in Guesses
  BY <1>1, <1>2 DEF History
<1>4. G \in Guesses /\ G[p] = Src /\ \A r \in Path \ {p} : G[r] = h[n][r]
  BY <1>3 DEF Guesses
<1> HIDE DEF G
<1>5. H \in [0 .. n -> Guesses] /\ H[n] = G /\ \A i \in 0 .. n : i # n => H[i] = h[i]
  <2> DEFINE S == 0 .. n
  <2>1. n \in S
    BY <1>2
  <2> HIDE DEF S
  <2>2. h \in [S -> Guesses] => [h EXCEPT ![n] = G] \in [S -> Guesses]
    BY <1>4
  <2>3. h \in [S -> Guesses] => H[n] = G /\ \A i \in S : i # n => H[i] = h[i]
    BY <2>1
  <2> QED BY <1>3, <2>2, <2>3 DEF S
<1> HIDE DEF H
<1>6. ASSUME NEW i \in DOMAIN j, NEW r \in Path
      PROVE  Leads(j[i], H[i], r) \subseteq H[i - 1][r]
  <2>4. i \in 0 .. n /\ i - 1 \in 0 .. n /\ i - 1 # n
    <3> HIDE DEF n
    <3> QED BY <1>2
  <2>1. H[i - 1] = h[i - 1] /\ Leads(j[i], h[i], r) \subseteq h[i - 1][r]
    <3>1. H[i - 1] = h[i - 1]
      BY <1>5, <2>4
    <3> QED BY <1>1, <3>1 DEF History
  <2>2. CASE i = n
    <3>1. Leads(j[i], H[i], r) = Leads(j[i], h[i], r)
      BY <1>2, <1>4, <1>5, <2>2 DEF Leads
    <3> QED BY <2>1, <3>1
  <2>3. CASE i # n
    <3>1. H[i] = h[i]
      BY <1>5, <2>4, <2>3
    <3> QED BY <2>1, <3>1
  <2> QED BY <2>2, <2>3
<1>7. History(H, j, m)
  <2>1. H[0] = h[0]
    BY <1>2, <1>5
  <2> QED BY <1>1, <1>5, <1>6, <2>1 DEF History
<1>8. \A r \in Path : SrcLink(g, r) => g[r].val \in H[n][r]
  BY <1>1, <1>4, <1>5 DEF SrcLink, IsLink
<1> QED BY <1>7, <1>8 DEF Traced

\* No backup and no aside is inside another.
LEMMA ScratchApart ==
  ASSUME NamesApart, NEW s \in Target, NEW t \in Target, NEW p \in {BackupOf[s], AsideOf[s]},
         NEW q \in {BackupOf[t], AsideOf[t]}, NEW r \in At(p) \cap At(q)
  PROVE  p = q
<1>1. p \in Path /\ q \in Path /\ r \in Path /\ s \in Path /\ t \in Path
  BY TargetsMove, TargetAssumption, AboveBelow DEF Movable
<1>2. Above[p] = Above[s] /\ Above[q] = Above[t] /\ s \notin At(q) /\ t \notin At(p)
  BY DEF NamesApart
<1>3. p \in At(q) \/ q \in At(p)
  BY <1>1, AtOrder
<1>4. p \in Above[q] => t \in At(p)
  BY <1>1, <1>2, AtOrder
<1>5. q \in Above[p] => s \in At(q)
  BY <1>1, <1>2, AtOrder
<1> QED BY <1>1, <1>2, <1>3, <1>4, <1>5, AtOrder

\* A link that is there when op has been undone was there before, or op put it
\* or brought it there.
LEMMA UndoLeads ==
  ASSUME NamesApart, NEW f \in Tree, NEW op \in UndoOp, op.kind \in Restores => op.path \in Target,
         NEW r \in Path, SrcLink(Undo(f, op), r)
  PROVE  LET p == op.path
             q == Beside(op.kind, p)
             g == Undo(f, op)
         IN \/ /\ SrcLink(f, r) /\ g[r] = f[r]
               /\ op.kind \in {"unlinkNew", "relinkOld"} => r # p
               /\ op.kind = "removeCopy" => r \notin At(p)
               /\ op.kind \in Restores => r \notin At(p)
            \/ op.kind = "relinkOld" /\ r = p /\ g[r].val = op.dest
            \/ /\ op.kind \in Restores /\ r \in At(p)
               /\ Rebase(q, p, r) \in At(q) /\ SrcLink(f, Rebase(q, p, r))
               /\ g[r] = f[Rebase(q, p, r)]
<1> DEFINE p == op.path
           q == Beside(op.kind, p)
           g == Undo(f, op)
           removed == IF CanRemove(f, p) THEN Put(f, p, Absent) ELSE f
<1>1. p \in Path /\ op.kind \in UndoKind /\ DOMAIN f = Path
  BY DEF UndoOp, Tree
<1>2. \A v \in Path : removed[v] = IF v = p /\ CanRemove(f, p) THEN Absent ELSE f[v]
  BY <1>1 DEF Put
<1>3. ~SrcLink(removed, p)
  BY <1>1, <1>2 DEF SrcLink, IsLink, CanRemove, Exists, IsDir, Absent
<1>4. \A v \in Path : v # p => removed[v] = f[v]
  BY <1>2
<1>5. CASE op.kind = "unlinkNew"
  <2>1. g = removed
    BY <1>5 DEF Undo
  <2> HIDE DEF g, removed
  <2>2. r # p
    BY <1>3, <2>1 DEF g
  <2> QED BY <1>4, <1>5, <2>1, <2>2 DEF SrcLink, IsLink, g, Restores
<1>6. CASE op.kind = "relinkOld"
  <2>1. g \in {removed, Put(removed, p, LinkTo(op.dest))}
    BY <1>6 DEF Undo
  <2>2. DOMAIN removed = Path
    BY <1>1 DEF Put
  <2> HIDE DEF g, removed
  <2>3. CASE r # p
    <3>1. g[r] = f[r]
      BY <1>4, <2>1, <2>2, <2>3 DEF Put
    <3> QED BY <1>6, <2>3, <3>1 DEF SrcLink, IsLink, g, Restores
  <2>4. CASE r = p
    <3>1. g = Put(removed, p, LinkTo(op.dest))
      BY <1>3, <2>1, <2>4 DEF g
    <3>2. g[r].val = op.dest
      BY <1>1, <2>2, <2>4, <3>1 DEF Put, LinkTo
    <3> QED BY <1>6, <2>4, <3>2 DEF g
  <2> QED BY <2>3, <2>4
<1>7. CASE op.kind = "removeCopy"
  <2>1. g[r] = IF r \in At(p) THEN Absent ELSE f[r]
    BY <1>7 DEF Undo, Clear
  <2>2. g[r].kind = "link"
    BY DEF SrcLink, IsLink
  <2> HIDE DEF g
  <2>3. g[r] = f[r] /\ r \notin At(p)
    BY <2>1, <2>2 DEF Absent
  <2> QED BY <1>7, <2>3 DEF SrcLink, IsLink, g, Restores
<1>8. CASE op.kind \in Restores
  <2>1. p \in Target /\ q \in {BackupOf[p], AsideOf[p]} /\ Movable(q, p)
    BY <1>8, TargetsMove, MovableApart DEF Beside
  <2> DEFINE c == Clear(f, p)
  <2>2. g \in {c, Rename(c, q, p)}
    BY <1>8 DEF Undo, BringBack, Beside, Restores
  <2>3. \A v \in Path : c[v] = IF v \in At(p) THEN Absent ELSE f[v]
    BY DEF Clear
  <2>4. g[r].kind = "link"
    BY DEF SrcLink, IsLink
  <2>5. \A v \in Path : Rename(c, q, p)[v] =
           IF v \in At(p) THEN c[Rebase(q, p, v)] ELSE IF v \in At(q) THEN Absent ELSE c[v]
    BY <2>1, RenameIs
  <2> HIDE DEF g, c, q
  <2>6. CASE r \notin At(p)
    <3>1. g[r] = f[r]
      BY <2>2, <2>3, <2>4, <2>5, <2>6 DEF Absent
    <3> QED BY <1>8, <2>6, <3>1 DEF SrcLink, IsLink, g, Restores
  <2>7. CASE r \in At(p)
    <3>1. g = Rename(c, q, p)
      BY <2>2, <2>3, <2>4, <2>7 DEF Absent
    <3>2. Rebase(q, p, r) \in Path /\ Rebase(q, p, r) \in At(q) /\ Rebase(q, p, r) \notin At(p)
      BY <1>1, <2>1, <2>7, RebaseAt, MovableApart DEF Movable
    <3>3. g[r] = f[Rebase(q, p, r)]
      BY <2>3, <2>5, <2>7, <3>1, <3>2
    <3> QED BY <1>8, <2>7, <3>2, <3>3 DEF SrcLink, IsLink, g, q
  <2> QED BY <2>6, <2>7
<1>9. CASE op.kind = "mkdir"
  <2>1. g \in {f, Put(f, p, Dir)}
    BY <1>9 DEF Undo
  <2>2. g[r].kind = "link"
    BY DEF SrcLink, IsLink
  <2> HIDE DEF g
  <2>3. g[r] = f[r]
    BY <1>1, <2>1, <2>2 DEF Put, Dir
  <2> QED BY <1>9, <2>3 DEF SrcLink, IsLink, g, Restores
<1> QED BY <1>1, <1>5, <1>6, <1>7, <1>8, <1>9 DEF UndoKind, Restores

RestoresOnce(j) ==
  \A i, k \in DOMAIN j :
    j[i].kind \in Restores /\ j[k].kind = j[i].kind /\ j[k].path = j[i].path => i = k

LEMMA TracePop ==
  ASSUME NamesApart, NamesDiffer, NEW f \in Tree, NEW j \in Seq(UndoOp), j # << >>, NEW m,
         \A i \in DOMAIN j : j[i].kind \in Restores => j[i].path \in Target,
         RestoresOnce(j), Traced(f, j, m, Lost(j))
  PROVE  Traced(Undo(f, Last(j)), Front(j), m, Lost(Front(j)))
<1>1. PICK h : History(h, j, m)
                 /\ \A r \in Path \ Lost(j) : SrcLink(f, r) => f[r].val \in h[Len(j)][r]
  BY DEF Traced
<1> DEFINE n == Len(j)
           k == Front(j)
           H == [i \in 0 .. Len(k) |-> h[i]]
           op == Last(j)
           p == op.path
           q == Beside(op.kind, p)
           g == Undo(f, op)
<1>2. n \in Nat \ {0} /\ DOMAIN j = 1 .. n /\ n \in DOMAIN j /\ op = j[n]
  BY DEF Last
<1>3. Len(k) = n - 1 /\ DOMAIN k = 1 .. n - 1 /\ \A i \in 1 .. n - 1 : k[i] = j[i]
  BY <1>2 DEF Front
<1>4. op \in UndoOp /\ (op.kind \in Restores => p \in Target)
  BY <1>2
<1> HIDE DEF n, k, op
<1>5. History(H, k, m)
  <2>1. n - 1 \in Nat /\ \A i \in 0 .. n - 1 : i \in 0 .. n /\ H[i] = h[i]
    BY <1>2, <1>3
  <2>2. H \in [0 .. Len(k) -> Guesses]
    BY <1>1, <1>3, <2>1 DEF History, n
  <2>3. ASSUME NEW i \in 1 .. n - 1
        PROVE  i \in 0 .. n - 1 /\ i - 1 \in 0 .. n - 1 /\ i \in DOMAIN j /\ H[i] = h[i] /\ H[i - 1] = h[i - 1]
    <3>1. i \in 0 .. n - 1 /\ i - 1 \in 0 .. n - 1 /\ i \in DOMAIN j
      BY <1>2
    <3> QED BY <2>1, <3>1
  <2>4. H[0] = h[0]
    BY <1>2, <2>1
  <2> HIDE DEF H
  <2> QED BY <1>1, <1>3, <2>2, <2>3, <2>4 DEF History
<1>6. H[Len(k)] = h[n - 1] /\ \A r \in Path : Leads(op, h[n], r) \subseteq h[n - 1][r]
  BY <1>1, <1>2, <1>3 DEF History
<1>7. Lost(j) \subseteq Lost(k)
  <2>1. \A i \in DOMAIN k : i \in DOMAIN j /\ k[i] = j[i]
    BY <1>2, <1>3
  <2> QED BY <2>1 DEF Lost
<1>8. op.kind \in Restores => q \in {BackupOf[p], AsideOf[p]}
  BY DEF Beside
<1>9. ASSUME op.kind \in Restores
      PROVE  At(q) \cap Path \subseteq Lost(k) /\ At(q) \cap Lost(j) = {}
  <2>1. ASSUME NEW i \in DOMAIN k, k[i].kind \in Restores
        PROVE  Beside(k[i].kind, k[i].path) # q
    <3>1. i \in DOMAIN j /\ k[i] = j[i] /\ i # n /\ j[i].path \in Target
      BY <1>2, <1>3, <2>1
    <3>2. ~(j[i].kind = op.kind /\ j[i].path = p)
      BY <1>2, <1>9, <3>1 DEF RestoresOnce
    <3> QED BY <1>4, <1>9, <2>1, <3>1, <3>2 DEF NamesDiffer, Beside, Restores
  <2>2. At(q) \cap Path \subseteq Lost(k)
    BY <1>4, <1>8, <1>9, <2>1 DEF Lost
  <2>3. ASSUME NEW r \in At(q), r \in Lost(j) PROVE FALSE
    <3>1. PICK t \in Target : \E v \in {BackupOf[t], AsideOf[t]} :
            r \in At(v) /\ \A i \in DOMAIN j : j[i].kind \in Restores => Beside(j[i].kind, j[i].path) # v
      BY <2>3 DEF Lost
    <3>2. PICK v \in {BackupOf[t], AsideOf[t]} :
            r \in At(v) /\ \A i \in DOMAIN j : j[i].kind \in Restores => Beside(j[i].kind, j[i].path) # v
      BY <3>1
    <3> HIDE DEF p, q
    <3>3. p \in Target /\ q \in {BackupOf[p], AsideOf[p]} /\ r \in At(v) \cap At(q)
      BY <1>4, <1>8, <1>9, <2>3, <3>2
    <3>4. v = q
      BY <3>3, ScratchApart
    <3> QED BY <1>2, <1>9, <3>2, <3>4 DEF p, q
  <2> QED BY <2>2, <2>3
<1>10. ASSUME NEW r \in Path \ Lost(k), SrcLink(g, r)
       PROVE  g[r].val \in Leads(op, h[n], r)
  <2>1. r \notin Lost(j) /\ (op.kind \in Restores => r \notin At(q)) /\ op.kind \in UndoKind
    BY <1>4, <1>7, <1>9, <1>10 DEF UndoOp
  <2>2. \A v \in Path \ Lost(j) : SrcLink(f, v) => f[v].val \in h[n][v]
    BY <1>1 DEF n
  <2>3. \/ /\ SrcLink(f, r) /\ g[r] = f[r]
           /\ op.kind \in {"unlinkNew", "relinkOld"} => r # p
           /\ op.kind = "removeCopy" => r \notin At(p)
           /\ op.kind \in Restores => r \notin At(p)
        \/ op.kind = "relinkOld" /\ r = p /\ g[r].val = op.dest
        \/ /\ op.kind \in Restores /\ r \in At(p)
           /\ Rebase(q, p, r) \in At(q) /\ SrcLink(f, Rebase(q, p, r))
           /\ g[r] = f[Rebase(q, p, r)]
    BY <1>4, <1>10, UndoLeads
  <2>4. g[r].val \in Src
    BY <1>10 DEF SrcLink
  <2> HIDE DEF g, q, p
  <2>5. CASE /\ SrcLink(f, r) /\ g[r] = f[r]
             /\ op.kind \in {"unlinkNew", "relinkOld"} => r # p
             /\ op.kind = "removeCopy" => r \notin At(p)
             /\ op.kind \in Restores => r \notin At(p)
    <3>1. g[r].val \in h[n][r]
      BY <2>1, <2>2, <2>5
    <3>2. Leads(op, h[n], r) = h[n][r]
      BY <2>1, <2>5 DEF Leads, UndoKind, Restores, p, q
    <3> QED BY <3>1, <3>2
  <2>6. CASE op.kind = "relinkOld" /\ r = p /\ g[r].val = op.dest
    <3>1. Leads(op, h[n], r) = {op.dest} \cap Src
      BY <2>6 DEF Leads, Restores, p
    <3> QED BY <2>4, <2>6, <3>1
  <2>7. CASE /\ op.kind \in Restores /\ r \in At(p)
             /\ Rebase(q, p, r) \in At(q) /\ SrcLink(f, Rebase(q, p, r))
             /\ g[r] = f[Rebase(q, p, r)]
    <3>1. q \in Path /\ Rebase(q, p, r) \in Path /\ Rebase(q, p, r) \notin Lost(j)
      <4>1. q \in Path
        BY <1>4, <1>8, <2>7, TargetsMove DEF Movable
      <4>2. At(q) \subseteq Path
        BY <4>1, AboveBelow
      <4> QED BY <1>9, <2>7, <4>1, <4>2
    <3>2. g[r].val \in h[n][Rebase(q, p, r)]
      BY <2>2, <2>7, <3>1
    <3>3. Leads(op, h[n], r) = h[n][Rebase(q, p, r)]
      BY <2>7 DEF Leads, Restores, p, q
    <3> QED BY <3>2, <3>3
  <2> QED BY <2>3, <2>5, <2>6, <2>7
<1> HIDE DEF H
<1>11. \A r \in Path \ Lost(k) : SrcLink(g, r) => g[r].val \in H[Len(k)][r]
  BY <1>6, <1>10
<1> QED BY <1>5, <1>11 DEF Traced, k, op

\* What the steps of a run journal.
LEMMA PushNothing ==
  ASSUME NEW f, NEW g, NEW j \in Seq(UndoOp), NEW m, NEW op \in UndoOp, Traced(f, j, m, {}),
         op.kind \in {"unlinkNew", "removeCopy", "mkdir"},
         \A r \in Path : SrcLink(g, r) /\ (op.kind = "unlinkNew" => r # op.path) => g[r] = f[r]
  PROVE  Traced(g, Append(j, op), m, {})
<1>1. ASSUME NEW r \in Path, NEW d \in Leads(op, LinksOf(g), r)
      PROVE  SrcLink(f, r) /\ f[r].val = d
  <2>1. d \in LinksOf(g)[r] /\ (op.kind = "unlinkNew" => r # op.path)
    BY <1>1 DEF Leads, Restores
  <2>2. SrcLink(g, r) /\ d = g[r].val
    BY <2>1 DEF LinksOf
  <2> QED BY <2>1, <2>2 DEF SrcLink, IsLink
<1> QED BY <1>1, TracePush

LEMMA PushUnlink ==
  ASSUME NEW f \in Tree, NEW j \in Seq(UndoOp), NEW m, NEW p \in Path, IsLink(f, p),
         NEW op \in UndoOp, op = [kind |-> "relinkOld", path |-> p, dest |-> f[p].val],
         Traced(f, j, m, {})
  PROVE  Traced(Put(f, p, Absent), Append(j, op), m, {})
<1> DEFINE g == Put(f, p, Absent)
<1>1. \A r \in Path : g[r] = IF r = p THEN Absent ELSE f[r]
  BY DEF Put, Tree
<1> HIDE DEF g
<1>2. op.kind = "relinkOld" /\ op.path = p /\ op.dest = f[p].val
  OBVIOUS
<1>3. ASSUME NEW r \in Path, NEW d \in Leads(op, LinksOf(g), r)
      PROVE  SrcLink(f, r) /\ f[r].val = d
  <2>1. CASE r = p
    <3>1. d \in {f[p].val} \cap Src
      BY <1>2, <1>3, <2>1 DEF Leads, Restores
    <3> QED BY <2>1, <3>1 DEF SrcLink
  <2>2. CASE r # p
    <3>1. d \in LinksOf(g)[r]
      BY <1>2, <1>3, <2>2 DEF Leads, Restores
    <3>2. SrcLink(g, r) /\ d = g[r].val
      BY <3>1 DEF LinksOf
    <3> QED BY <1>1, <2>2, <3>2 DEF SrcLink, IsLink
  <2> QED BY <2>1, <2>2
<1> QED BY <1>3, TracePush DEF g

LEMMA PushRename ==
  ASSUME NamesApart, NEW f \in Tree, NEW j \in Seq(UndoOp), NEW m, NEW t \in Target,
         NEW op \in UndoOp, op.kind \in Restores, op.path = t, Traced(f, j, m, {})
  PROVE  Traced(Rename(f, t, Beside(op.kind, t)), Append(j, op), m, {})
<1> DEFINE q == Beside(op.kind, t)
           g == Rename(f, t, q)
<1>1. Movable(t, q)
  BY TargetsMove DEF Beside
<1>2. \A r \in Path : g[r] = IF r \in At(q) THEN f[Rebase(t, q, r)]
                             ELSE IF r \in At(t) THEN Absent ELSE f[r]
  BY <1>1, RenameIs
<1>3. \A r \in At(t) : Rebase(q, t, r) \in Path /\ g[Rebase(q, t, r)] = f[r]
  BY <1>1, RenameMoves DEF Movable
<1> HIDE DEF g
<1>4. ASSUME NEW r \in Path, NEW d \in Leads(op, LinksOf(g), r)
      PROVE  SrcLink(f, r) /\ f[r].val = d
  <2>1. d \in IF r \in At(t) THEN LinksOf(g)[Rebase(q, t, r)]
              ELSE IF r \in At(q) THEN {} ELSE LinksOf(g)[r]
    BY <1>4 DEF Leads, Restores
  <2> HIDE DEF q
  <2>2. CASE r \in At(t)
    <3>1. SrcLink(g, Rebase(q, t, r)) /\ d = g[Rebase(q, t, r)].val
      BY <1>3, <2>1, <2>2 DEF LinksOf
    <3> QED BY <1>3, <2>2, <3>1 DEF SrcLink, IsLink
  <2>3. CASE r \notin At(t)
    <3>1. r \notin At(q) /\ SrcLink(g, r) /\ d = g[r].val
      BY <2>1, <2>3 DEF LinksOf
    <3> QED BY <1>2, <2>3, <3>1 DEF SrcLink, IsLink
  <2> QED BY <2>2, <2>3
<1> QED BY <1>4, TracePush DEF g

-----------------------------------------------------------------------------
\* Each backup and each aside is journaled once; a link under way has its old
\* destination at the end of the journal; links are placed for symlink entries.
MovedOnce ==
  \A i \in DOMAIN journal :
    /\ journal[i].kind = "restoreBackup" => journal[i].path \notin plan.backup
    /\ journal[i].kind = "restoreRename" =>
         \/ journal[i].path \notin plan.copies
         \/ mid \in {Mid("aside", journal[i].path), Mid("copy", journal[i].path)}

JournalInv ==
  /\ RestoresOnce(journal)
  /\ phase = "idle" => journal = << >> /\ mid = NoMid
  /\ phase = "stages" =>
       /\ MovedOnce
       /\ mid.step = "relink" =>
            /\ journal # << >>
            /\ Last(journal).kind = "relinkOld" /\ Last(journal).path = mid.path
       /\ plan.new \cup Relinks \subseteq Symlinks(run.next)

LEMMA PushOnce ==
  ASSUME NEW j \in Seq(UndoOp), RestoresOnce(j), NEW op \in UndoOp,
         op.kind \in Restores => \A i \in DOMAIN j : ~(j[i].kind = op.kind /\ j[i].path = op.path)
  PROVE  RestoresOnce(Append(j, op))
BY AppendIs DEF RestoresOnce

LEMMA AppendLast ==
  ASSUME NEW S, NEW s \in Seq(S), NEW e \in S
  PROVE  Append(s, e) # << >> /\ Last(Append(s, e)) = e
BY DEF Last

\* A stage step that moves nothing aside.
LEMMA StepOnce ==
  ASSUME IInv, JournalInv, phase = "stages", phase' = "stages", run' = run,
         plan'.backup \subseteq plan.backup, plan'.copies \subseteq plan.copies,
         plan'.new \cup Relinks' \subseteq plan.new \cup Relinks,
         \/ UNCHANGED journal
         \/ \E kind \in UndoKind \ Restores : \E p \in Path : \E d \in Val : Journals(kind, p, d),
         \A t \in plan'.copies : mid \in {Mid("aside", t), Mid("copy", t)} =>
                                   mid' \in {Mid("aside", t), Mid("copy", t)},
         mid'.step = "relink" =>
           /\ journal' # << >>
           /\ Last(journal').kind = "relinkOld" /\ Last(journal').path = mid'.path
  PROVE  JournalInv'
<1>1. journal \in Seq(UndoOp)
  BY DEF IInv, TypeOK
<1>2. /\ RestoresOnce(journal')
      /\ \A i \in DOMAIN journal' : journal'[i].kind \in Restores =>
           i \in DOMAIN journal /\ journal[i] = journal'[i]
  <2>1. CASE UNCHANGED journal
    BY <2>1 DEF JournalInv
  <2>2. ASSUME NEW kind \in UndoKind \ Restores, NEW p \in Path, NEW d \in Val, Journals(kind, p, d)
        PROVE  /\ RestoresOnce(journal')
               /\ \A i \in DOMAIN journal' : journal'[i].kind \in Restores =>
                    i \in DOMAIN journal /\ journal[i] = journal'[i]
    <3> DEFINE op == [kind |-> kind, path |-> p, dest |-> d]
    <3>1. op \in UndoOp /\ op.kind \notin Restores
      BY DEF UndoOp
    <3> HIDE DEF op
    <3>2. journal' = Append(journal, op)
      BY <2>2 DEF Journals, op
    <3> QED BY <1>1, <3>1, <3>2, PushOnce, AppendIs DEF JournalInv
  <2> QED BY <2>1, <2>2
<1>3. MovedOnce'
  <2>1. ASSUME NEW i \in DOMAIN journal', journal'[i].kind = "restoreBackup"
        PROVE  journal'[i].path \notin plan'.backup
    BY <1>2, <2>1 DEF JournalInv, MovedOnce, Restores
  <2>2. ASSUME NEW i \in DOMAIN journal', journal'[i].kind = "restoreRename",
               journal'[i].path \in plan'.copies
        PROVE  mid' \in {Mid("aside", journal'[i].path), Mid("copy", journal'[i].path)}
    BY <1>2, <2>2 DEF JournalInv, MovedOnce, Restores
  <2> QED BY <2>1, <2>2 DEF MovedOnce
<1> QED BY <1>2, <1>3 DEF JournalInv

LEMMA StageStepOnce ==
  ASSUME IInv, JournalInv, StageStep, phase = "stages", phase' = "stages"
  PROVE  JournalInv'
<1>1. /\ fs \in Tree /\ IsManifest(run.base) /\ IsManifest(run.next) /\ plan \in Plan
      /\ Target \subseteq Path /\ journal \in Seq(UndoOp) /\ None \in Val
      /\ (mid \in {NoMid, Asking} \/ mid \in [step : {"relink", "aside", "copy", "prune"}, path : Path])
  BY TargetsArePaths DEF IInv, TypeOK, IsRun, Val
<1>2. \A t : NoMid \notin {Mid("aside", t), Mid("copy", t)} /\ NoMid.step # "relink"
  BY DEF NoMid, Mid
<1>3. ASSUME NEW p, PreRemoveUnlink(p) PROVE JournalInv'
  <2>1. p \in Path /\ p \in DOMAIN run.base /\ mid = NoMid /\ mid' = mid
    BY <1>1, <1>3 DEF PreRemoveUnlink, RecordedLink, Plan, In
  <2>2. Journals("relinkOld", p, run.base[p].src) /\ run.base[p].src \in Val
    BY <1>1, <1>3, <2>1, SourceType DEF PreRemoveUnlink, JournalRelink, Journals
  <2>3. plan' = [plan EXCEPT !.unlink = @ \ {p}] /\ run' = run
    BY <1>3 DEF PreRemoveUnlink, Writes
  <2> QED BY <1>1, <1>2, <2>1, <2>2, <2>3, StepOnce DEF UndoKind, Restores, Plan, Relinks
<1>4. ASSUME NEW p, PreRemoveRmdir(p) PROVE JournalInv'
  <2>1. p \in Path /\ mid = NoMid /\ mid' = mid
    BY <1>1, <1>4 DEF PreRemoveRmdir, Plan, In
  <2>2. Journals("mkdir", p, None) \/ UNCHANGED journal
    BY <1>4 DEF PreRemoveRmdir, Journal, Journals
  <2>3. plan' = [plan EXCEPT !.rmdir = @ \ {p}] /\ run' = run
    BY <1>4 DEF PreRemoveRmdir, Writes
  <2> QED BY <1>1, <1>2, <2>1, <2>2, <2>3, StepOnce DEF UndoKind, Restores, Plan, Relinks
<1>5. ASSUME NEW b, BackUp(b) PROVE JournalInv'
  <2> DEFINE op == [kind |-> "restoreBackup", path |-> b, dest |-> None]
  <2>1. b \in plan.backup /\ b \in Path /\ mid = NoMid /\ mid' = mid /\ run' = run
    BY <1>1, <1>5 DEF BackUp, Plan, In, Writes
  <2>2. op \in UndoOp /\ op.kind = "restoreBackup" /\ op.path = b
    BY <1>1, <2>1 DEF UndoOp, UndoKind
  <2> HIDE DEF op
  <2>3. journal' = Append(journal, op)
    BY <1>5 DEF BackUp, Journal, op
  <2>4. plan' = [plan EXCEPT !.backup = @ \ {b}]
    BY <1>5 DEF BackUp
  <2>5. RestoresOnce(journal')
    BY <1>1, <2>1, <2>2, <2>3, PushOnce DEF JournalInv, MovedOnce
  <2>6. MovedOnce'
    BY <1>1, <1>2, <2>1, <2>2, <2>3, <2>4, AppendIs DEF JournalInv, MovedOnce, Plan
  <2> QED BY <1>1, <1>2, <2>1, <2>4, <2>5, <2>6 DEF JournalInv, Relinks, Plan
<1>6. ASSUME NEW t, PlaceNew(t) PROVE JournalInv'
  <2>1. t \in Path /\ mid = NoMid /\ mid' = mid
    BY <1>1, <1>6 DEF PlaceNew, Plan, In
  <2>2. Journals("unlinkNew", t, None)
    BY <1>6 DEF PlaceNew, Journal, Journals
  <2>3. plan' = [plan EXCEPT !.new = @ \ {t}] /\ run' = run
    BY <1>6 DEF PlaceNew, Writes
  <2> QED BY <1>1, <1>2, <2>1, <2>2, <2>3, StepOnce DEF UndoKind, Restores, Plan, Relinks
<1>7. ASSUME NEW t \in Relinks, RelinkUnlink(t) PROVE JournalInv'
  <2>1. t \in Path /\ mid = NoMid /\ mid' = Mid("relink", t) /\ fs[t].val \in Val
    BY <1>1, <1>7 DEF RelinkUnlink, Relinks, Plan, In, Tree, Node
  <2>2. Journals("relinkOld", t, fs[t].val)
    BY <1>7 DEF RelinkUnlink, JournalRelink, Journals
  <2>3. plan' = plan /\ run' = run
    BY <1>7 DEF RelinkUnlink, Writes
  <2>4. journal' # << >> /\ Last(journal').kind = "relinkOld" /\ Last(journal').path = mid'.path
    <3> DEFINE op == [kind |-> "relinkOld", path |-> t, dest |-> fs[t].val]
    <3>1. op \in UndoOp /\ op.kind = "relinkOld" /\ op.path = t /\ mid'.path = t
      BY <2>1 DEF UndoOp, UndoKind, Mid
    <3> HIDE DEF op
    <3>2. journal' = Append(journal, op)
      BY <2>2 DEF Journals, op
    <3> QED BY <1>1, <3>1, <3>2, AppendLast
  <2> QED BY <1>1, <1>2, <2>1, <2>2, <2>3, <2>4, StepOnce DEF UndoKind, Restores, Relinks
<1>8. ASSUME NEW t \in Relinks, RelinkSymlink(t) PROVE JournalInv'
  <2>1. mid = Mid("relink", t) /\ mid' = NoMid /\ run' = run /\ UNCHANGED journal
    BY <1>8 DEF RelinkSymlink, Writes
  <2>2. plan' = [plan EXCEPT !.replace = @ \ {t}, !.foreign = @ \ {t}]
    BY <1>8 DEF RelinkSymlink
  <2>3. \A c : mid \notin {Mid("aside", c), Mid("copy", c)}
    BY <2>1 DEF Mid
  <2> QED BY <1>1, <1>2, <2>1, <2>2, <2>3, StepOnce DEF Plan, Relinks
<1>9. ASSUME NEW t, RecopyAside(t) PROVE JournalInv'
  <2> DEFINE op == [kind |-> "restoreRename", path |-> t, dest |-> None]
  <2>1. t \in plan.copies /\ t \in Path /\ mid = NoMid /\ mid' = Mid("aside", t) /\ run' = run /\ plan' = plan
    BY <1>1, <1>9 DEF RecopyAside, Plan, In, Writes
  <2>2. op \in UndoOp /\ op.kind = "restoreRename" /\ op.path = t
    BY <1>1, <2>1 DEF UndoOp, UndoKind
  <2> HIDE DEF op
  <2>3. journal' = Append(journal, op)
    BY <1>9 DEF RecopyAside, Journal, op
  <2>4. RestoresOnce(journal')
    BY <1>1, <1>2, <2>1, <2>2, <2>3, PushOnce DEF JournalInv, MovedOnce
  <2>5. MovedOnce'
    BY <1>1, <1>2, <2>1, <2>2, <2>3, AppendIs DEF JournalInv, MovedOnce
  <2>6. mid'.step # "relink"
    BY <2>1 DEF Mid
  <2> QED BY <2>1, <2>4, <2>5, <2>6 DEF JournalInv, Relinks
<1>10. ASSUME NEW t, CopyStart(t) PROVE JournalInv'
  <2>1. t \in Path /\ mid' = Mid("copy", t) /\ run' = run /\ plan' = plan /\ mid'.step # "relink"
    BY <1>1, <1>10 DEF CopyStart, Plan, Writes, Mid
  <2>2. Journals("removeCopy", t, None) \/ UNCHANGED journal
    BY <1>10 DEF CopyStart, Journal, Journals
  <2>3. mid = NoMid \/ mid = Mid("aside", t)
    BY <1>10 DEF CopyStart, In
  <2>4. \A c : mid \in {Mid("aside", c), Mid("copy", c)} => c = t
    BY <1>2, <2>3 DEF Mid
  <2> QED BY <1>1, <2>1, <2>2, <2>4, StepOnce DEF UndoKind, Restores, Relinks
<1>11. ASSUME NEW t, CopyFinish(t) PROVE JournalInv'
  <2>1. mid = Mid("copy", t) /\ mid' = NoMid /\ run' = run /\ UNCHANGED journal
        /\ plan' = [plan EXCEPT !.copies = @ \ {t}]
    BY <1>11 DEF CopyFinish, Writes
  <2>2. \A c : mid \in {Mid("aside", c), Mid("copy", c)} => c = t
    BY <2>1 DEF Mid
  <2> QED BY <1>1, <1>2, <2>1, <2>2, StepOnce DEF Plan, Relinks
<1>12. ASSUME NEW t, RemoveStale(t) PROVE JournalInv'
  <2>1. t \in Path /\ mid = NoMid /\ mid' \in {mid, Mid("prune", t)} /\ run' = run
    BY <1>1, <1>12 DEF RemoveStale, Plan, Writes, InStale, In
  <2>2. \/ StillStale(t) /\ Journals("relinkOld", t, run.base[t].src)
        \/ UNCHANGED journal
    BY <1>12 DEF RemoveStale, JournalRelink, Journals
  <2>3. StillStale(t) => run.base[t].src \in Val
    BY <1>1, SourceType DEF StillStale, RecordedLink
  <2>4. plan' = [plan EXCEPT !.remove = @ \ {t}]
    BY <1>12 DEF RemoveStale
  <2>5. mid'.step # "relink"
    BY <1>2, <2>1 DEF Mid
  <2> QED BY <1>1, <1>2, <2>1, <2>2, <2>3, <2>4, <2>5, StepOnce DEF UndoKind, Restores, Plan, Relinks
<1>13. CASE PruneAncestor
  <2>1. mid.step = "prune" /\ plan' = plan /\ run' = run
    BY <1>13 DEF PruneAncestor, Writes
  <2>2. (\E p \in Path : Journals("mkdir", p, None)) \/ UNCHANGED journal
    BY <1>13 DEF PruneAncestor, Journal, Journals
  <2>3. mid'.step # "relink" /\ \A c : mid \notin {Mid("aside", c), Mid("copy", c)}
    BY <1>2, <1>13, <2>1 DEF PruneAncestor, Mid
  <2> QED BY <1>1, <2>1, <2>2, <2>3, StepOnce DEF UndoKind, Restores, Relinks
<1>14. ~\E t : CopyStuck(t) \/ ResetCopy(t) \/ StageStuck(t)
  BY DEF CopyStuck, ResetCopy, StageStuck, Fails
<1> QED BY <1>3, <1>4, <1>5, <1>6, <1>7, <1>8, <1>9, <1>10, <1>11, <1>12, <1>13, <1>14
        DEF StageStep

-----------------------------------------------------------------------------
(* How a run starts. *)

\* A plan that a run of manifest m may start with.
Planned(m, p) ==
  \E backup, recopy \in BOOLEAN :
    LET c == WithRecopy(Compute(fs, Baseline, m, backup), m, recopy)
    IN /\ c.conflicts = {}
       /\ p = c \/ (SkipsGeneration(m) /\ p = Repairs(c))

LEMMA BeginIs ==
  ASSUME NEW r, NEW p, NEW C, NEW ph, phase = "idle", UNCHANGED <<record, gens, cur>>,
         r.base = Baseline, Begin(r, p, C, ph), ph \in {"teardown", "unwind"} \/ (ph = "stages" /\ Planned(r.next, p))
  PROVE  /\ UNCHANGED <<fs, record, gens, cur, spent, journal, mid>> /\ phase = "idle"
         /\ run'.base = Baseline
         /\ phase' \in {"teardown", "unwind"} \/ (phase' = "stages" /\ Planned(run'.next, plan'))
BY DEF Begin

\* Starting a run writes nothing, and its stages carry out a plan for what is there.
StartFacts ==
  /\ UNCHANGED <<fs, record, gens, cur, spent>> /\ phase = "idle"
  /\ \/ phase' = "idle" /\ journal' = << >> /\ mid' = NoMid
     \/ /\ UNCHANGED journal /\ run'.base = Baseline
        /\ UNCHANGED mid \/ (phase' = "teardown" /\ mid' = Asking)
        /\ phase' \in {"teardown", "unwind"} \/ (phase' = "stages" /\ Planned(run'.next, plan'))

LEMMA RefuseIs ==
  ASSUME phase = "idle", UNCHANGED <<record, gens, cur>>, Refuse
  PROVE  StartFacts
BY DEF StartFacts, Refuse, End

LEMMA AskIs ==
  ASSUME NEW r, NEW p, phase = "idle", UNCHANGED <<record, gens, cur>>, r.base = Baseline, Ask(r, p)
  PROVE  StartFacts
BY DEF StartFacts, Ask

LEMMA StartIs ==
  ASSUME Start
  PROVE  StartFacts
<1>1. ASSUME NEW m \in Manifests, NEW mod \in Modifiers, StartApply(m, mod)
      PROVE  StartFacts
  <2> DEFINE r == [op |-> "apply", next |-> m, base |-> Baseline, farm |-> m,
                   backup |-> mod.backup, recopy |-> mod.recopy,
                   skip |-> SkipsGeneration(m), selected |-> {}]
             p == WithRecopy(Compute(fs, Baseline, m, mod.backup), m, mod.recopy)
             C == IF mod.recopy THEN UNION {At(t) : t \in Copies(m)} ELSE {}
  <2>1. r.base = Baseline /\ r.next = m
    OBVIOUS
  <2>2. phase = "idle" /\ UNCHANGED <<record, gens, cur>>
    BY <1>1 DEF StartApply
  <2>3. \/ Refuse
        \/ p.conflicts = {} /\ Begin(r, p, C, "stages")
        \/ Begin(r, NoPlan, {}, "unwind")
        \/ p.conflicts = {} /\ SkipsGeneration(m) /\ Begin(r, Repairs(p), C, "stages")
    BY <1>1, Zenon DEF StartApply
  <2>4. mod.backup \in BOOLEAN /\ mod.recopy \in BOOLEAN
    BY EngineAssumption
  <2>5. p.conflicts = {} => Planned(m, p) /\ (SkipsGeneration(m) => Planned(m, Repairs(p)))
    BY <2>4 DEF Planned
  <2> HIDE DEF r, p, C
  <2>6. CASE Refuse
    BY <2>2, <2>6, RefuseIs
  <2>7. CASE p.conflicts = {} /\ Begin(r, p, C, "stages")
    BY <2>1, <2>2, <2>5, <2>7, BeginIs DEF StartFacts
  <2>8. CASE Begin(r, NoPlan, {}, "unwind")
    BY <2>1, <2>2, <2>8, BeginIs DEF StartFacts
  <2>9. CASE p.conflicts = {} /\ SkipsGeneration(m) /\ Begin(r, Repairs(p), C, "stages")
    BY <2>1, <2>2, <2>5, <2>9, BeginIs DEF StartFacts
  <2> QED BY <2>3, <2>6, <2>7, <2>8, <2>9
<1>2. CASE StartRollback
  <2> DEFINE m == gens[cur - 1]
             r == [op |-> "rollback", next |-> m, base |-> Baseline, farm |-> m,
                   backup |-> FALSE, recopy |-> FALSE, skip |-> FALSE, selected |-> {}]
             p == Compute(fs, Baseline, m, FALSE)
  <2>1. r.base = Baseline /\ r.next = m
    OBVIOUS
  <2>2. phase = "idle" /\ UNCHANGED <<record, gens, cur>>
    BY <1>2 DEF StartRollback, profileVars
  <2>3. Refuse \/ (p.conflicts = {} /\ Begin(r, p, {}, "stages"))
    BY <1>2, Zenon DEF StartRollback
  <2>4. p.conflicts = {} => Planned(m, p)
    <3>1. WithRecopy(p, m, FALSE) = p
      BY DEF WithRecopy
    <3> QED BY <3>1 DEF Planned
  <2> HIDE DEF r, p, m
  <2>5. CASE Refuse
    BY <2>2, <2>5, RefuseIs
  <2>6. CASE p.conflicts = {} /\ Begin(r, p, {}, "stages")
    BY <2>1, <2>2, <2>4, <2>6, BeginIs DEF StartFacts
  <2> QED BY <2>3, <2>5, <2>6
<1>3. ASSUME NEW T, StartReset(T)
      PROVE  StartFacts
  <2> DEFINE r == [op |-> "reset", next |-> NoEntries, base |-> Baseline,
                   farm |-> BaselineFarm, backup |-> FALSE, recopy |-> FALSE,
                   skip |-> FALSE, selected |-> T]
  <2>1. r.base = Baseline
    OBVIOUS
  <2>2. phase = "idle" /\ UNCHANGED <<record, gens, cur>>
    BY <1>3 DEF StartReset, profileVars
  <2>3. Refuse \/ \E p : Ask(r, p) \/ \E C : Begin(r, p, C, "teardown")
    BY <1>3, Zenon DEF StartReset
  <2> HIDE DEF r
  <2>4. CASE Refuse
    BY <2>2, <2>4, RefuseIs
  <2>5. ASSUME NEW p, NEW C, Begin(r, p, C, "teardown")
        PROVE  StartFacts
    BY <2>1, <2>2, <2>5, BeginIs DEF StartFacts
  <2>6. ASSUME NEW p, Ask(r, p)
        PROVE  StartFacts
    BY <2>1, <2>2, <2>6, AskIs
  <2> QED BY <2>3, <2>4, <2>5, <2>6
<1> QED BY <1>1, <1>2, <1>3 DEF Start

LEMMA PlannedLinks ==
  ASSUME NEW m, NEW p, Planned(m, p)
  PROVE  p.new \cup (p.replace \cup p.foreign) \subseteq Symlinks(m)
<1>1. PICK backup \in BOOLEAN, recopy \in BOOLEAN :
        LET c == WithRecopy(Compute(fs, Baseline, m, backup), m, recopy)
        IN p = c \/ p = Repairs(c)
  BY DEF Planned
<1> DEFINE k == Compute(fs, Baseline, m, backup)
           c == WithRecopy(k, m, recopy)
<1>2. k.new \cup (k.replace \cup k.foreign) \subseteq Symlinks(m)
  BY DEF Compute, Links, Migrated, Occupied
<1>3. c.new = k.new /\ c.replace = k.replace /\ c.foreign = k.foreign
  BY DEF WithRecopy, Compute
<1> HIDE DEF c, k
<1>4. /\ Repairs(c).new \in {c.new, {}} /\ Repairs(c).replace \in {c.replace, {}}
      /\ Repairs(c).foreign \in {c.foreign, {}}
  BY DEF Repairs
<1>5. p = c \/ p = Repairs(c)
  BY <1>1 DEF c, k
<1> QED BY <1>2, <1>3, <1>4, <1>5

\* What a step of a teardown journals, or one that fails its stage.
LEMMA LeavesJournals ==
  ASSUME IInv, StageStep, phase' # "stages"
  PROVE  UNCHANGED journal \/ \E kind \in UndoKind \ Restores : \E p \in Path : \E d \in Val : Journals(kind, p, d)
<1>1. plan \in Plan /\ IsManifest(run.base) /\ None \in Val /\ Target \subseteq Path
  BY StageFacts
<1>2. {"removeCopy", "relinkOld", "mkdir"} \subseteq UndoKind \ Restores
  BY DEF UndoKind, Restores
<1>3. ASSUME NEW t \in plan.copies, CopyStuck(t)
      PROVE  Journals("removeCopy", t, None) \/ UNCHANGED journal
  BY <1>3 DEF CopyStuck, Journal, Journals
<1>4. ASSUME NEW t \in plan.remove, RemoveStale(t)
      PROVE  UNCHANGED journal \/ (Journals("relinkOld", t, run.base[t].src) /\ run.base[t].src \in Val)
  BY <1>1, <1>4, SourceType DEF RemoveStale, JournalRelink, Journals, StillStale, RecordedLink
<1>5. PruneAncestor => UNCHANGED journal \/ \E p \in Path : Journals("mkdir", p, None)
  BY DEF PruneAncestor, Journal, Journals
<1>6. \A t : StageStuck(t) \/ ResetCopy(t) => UNCHANGED journal
  BY DEF StageStuck, Fails, ResetCopy
<1>7. \A p : PreRemoveUnlink(p) \/ PreRemoveRmdir(p) \/ BackUp(p) \/ PlaceNew(p) => phase' = "stages"
  BY DEF PreRemoveUnlink, PreRemoveRmdir, BackUp, PlaceNew, Writes, In
<1>8. \A t : RelinkUnlink(t) \/ RelinkSymlink(t) \/ RecopyAside(t) \/ CopyStart(t) \/ CopyFinish(t) => phase' = "stages"
  BY DEF RelinkUnlink, RelinkSymlink, RecopyAside, CopyStart, CopyFinish, Writes, In
<1>9. plan.copies \subseteq Path /\ plan.remove \subseteq Path
  BY <1>1 DEF Plan
<1>10. CASE \E t \in plan.copies : CopyStuck(t)
  BY <1>1, <1>2, <1>3, <1>9, <1>10
<1>11. CASE \E t \in plan.remove : RemoveStale(t)
  BY <1>2, <1>4, <1>9, <1>11
<1>12. CASE PruneAncestor
  BY <1>1, <1>2, <1>5, <1>12
<1> QED BY <1>6, <1>7, <1>8, <1>10, <1>11, <1>12 DEF StageStep

LEMMA StageStarted ==
  ASSUME StageStep
  PROVE  phase \in {"stages", "teardown"}
<1>1. \A p : PreRemoveUnlink(p) \/ PreRemoveRmdir(p) \/ BackUp(p) \/ PlaceNew(p) => phase \in {"stages", "teardown"}
  BY DEF PreRemoveUnlink, PreRemoveRmdir, BackUp, PlaceNew, In
<1>2. \A t : RelinkUnlink(t) \/ RelinkSymlink(t) \/ RecopyAside(t) \/ CopyStart(t) \/ CopyFinish(t)
            => phase \in {"stages", "teardown"}
  BY DEF RelinkUnlink, RelinkSymlink, RecopyAside, CopyStart, CopyFinish, In
<1>3. \A t : CopyStuck(t) \/ ResetCopy(t) \/ RemoveStale(t) => phase \in {"stages", "teardown"}
  BY DEF CopyStuck, ResetCopy, RemoveStale, InStale, In
<1>4. PruneAncestor \/ (\E p : StageStuck(p)) => phase \in {"stages", "teardown"}
  BY DEF PruneAncestor, StageStuck, Refuses, In
<1> QED BY <1>1, <1>2, <1>3, <1>4 DEF StageStep

LEMMA NextOnce == IInv /\ JournalInv /\ [Next]_vars => JournalInv'
<1> SUFFICES ASSUME IInv, JournalInv, [Next]_vars PROVE JournalInv'
  OBVIOUS
<1>1. journal \in Seq(UndoOp) /\ RestoresOnce(journal)
  BY StageFacts DEF JournalInv
<1>2. CASE phase' = "idle" /\ journal' = << >> /\ mid' = NoMid
  BY <1>2 DEF JournalInv, RestoresOnce
<1>3. CASE Start
  <2>1. StartFacts
    BY <1>3, StartIs
  <2>2. CASE phase' # "idle"
    <3>1. /\ journal' = << >> /\ DOMAIN journal' = {} /\ NoMid.step # "relink"
          /\ phase' = "stages" => mid' = NoMid
      BY <2>1, <2>2 DEF StartFacts, JournalInv, NoMid
    <3>2. phase' = "stages" => plan'.new \cup Relinks' \subseteq Symlinks(run'.next)
      <4>1. phase' = "stages" => Planned(run'.next, plan')
        BY <2>1, <2>2 DEF StartFacts
      <4> QED BY <4>1, PlannedLinks DEF Relinks
    <3> QED BY <2>2, <3>1, <3>2 DEF JournalInv, RestoresOnce, MovedOnce
  <2> QED BY <1>2, <2>1, <2>2 DEF StartFacts
<1>4. CASE StageStep
  <2>1. CASE phase' = "stages"
    <3>1. phase = "stages"
      BY <1>4, <2>1, StagePhase
    <3> QED BY <1>4, <2>1, <3>1, StageStepOnce
  <2>2. CASE phase' # "stages"
    <3>1. phase' # "idle"
      BY <1>4, StageStarted, StagePhase
    <3>2. RestoresOnce(journal')
      <4>1. ASSUME NEW kind \in UndoKind \ Restores, NEW p \in Path, NEW d \in Val, Journals(kind, p, d)
            PROVE  RestoresOnce(journal')
        <5> DEFINE op == [kind |-> kind, path |-> p, dest |-> d]
        <5>1. op \in UndoOp /\ op.kind \notin Restores
          BY DEF UndoOp
        <5> HIDE DEF op
        <5>2. journal' = Append(journal, op)
          BY <4>1 DEF Journals, op
        <5> QED BY <1>1, <5>1, <5>2, PushOnce
      <4>2. UNCHANGED journal => RestoresOnce(journal')
        BY <1>1
      <4> QED BY <1>4, <2>2, <4>1, <4>2, LeavesJournals
    <3> QED BY <2>2, <3>1, <3>2 DEF JournalInv
  <2> QED BY <2>1, <2>2
<1>5. CASE UndoStep
  <2>1. phase' = "unwind" /\ journal' = Front(journal) /\ journal # << >>
    BY <1>5 DEF UndoStep
  <2>2. RestoresOnce(journal')
    BY <1>1, <2>1, FrontIs DEF RestoresOnce
  <2> QED BY <2>1, <2>2 DEF JournalInv
<1>6. CASE Unwound \/ DiscardJournal \/ RecordAfterReset \/ CommitFault \/ ResetRecordFault \/ Crash
  BY <1>2, <1>6 DEF Unwound, DiscardJournal, RecordAfterReset, CommitFault, ResetRecordFault, Crash, End
<1>7. CASE WriteRecord \/ Commit \/ StageFault \/ ResetFault
  BY <1>7 DEF WriteRecord, Commit, StageFault, Fails, ResetFault, JournalInv
<1>8. CASE PruneFault
  <2>1. \A p : mid \notin {Mid("aside", p), Mid("copy", p)}
    BY <1>8 DEF PruneFault, Mid
  <2>2. mid' = NoMid /\ NoMid.step # "relink" /\ UNCHANGED <<phase, plan, run, journal>> /\ phase # "idle"
    BY <1>8 DEF PruneFault, NoMid
  <2> QED BY <2>1, <2>2 DEF JournalInv, MovedOnce, Relinks
<1>9. CASE UserStep
  <2>1. UNCHANGED <<phase, plan, mid, journal>> /\ (phase = "idle" \/ run' = run)
    BY <1>9 DEF UserStep, UserWrite, UserMkdir, UserRelink, UserDelete, Edited
  <2> QED BY <2>1 DEF JournalInv, MovedOnce, Relinks
<1>10. CASE UNCHANGED vars
  BY <1>10 DEF vars, engineVars, JournalInv, MovedOnce, Relinks
<1>11. CASE AnswerReset
  <2>1. CASE Refuse
    BY <1>2, <2>1 DEF Refuse, End
  <2>2. CASE ~Refuse
    BY <1>11, <2>2 DEF AnswerReset, JournalInv
  <2> QED BY <2>1, <2>2
<1> QED BY <1>3, <1>4, <1>5, <1>6, <1>7, <1>8, <1>9, <1>10, <1>11 DEF Next, RunStep, Finish, Failure

-----------------------------------------------------------------------------
(* The links that are there when a run starts, and while it goes on.        *)

\* A plan takes away or replaces each link at a target that the old manifest
\* names and the new one does not name as it is.
LEMMA PlanNames ==
  ASSUME NEW f \in Tree, Closed(f), NEW prev, NEW next, IsManifest(next), NEW backup \in BOOLEAN,
         Compute(f, prev, next, backup).conflicts = {},
         NEW t \in Target, SrcLink(f, t), Named(f, prev, t)
  PROVE  LET p == Compute(f, prev, next, backup)
         IN t \in p.remove \cup p.unlink \cup (p.replace \cup p.foreign)
                   \cup UNION {At(b) : b \in p.backup}
<1> DEFINE p == Compute(f, prev, next, backup)
<1>1. t \in Path /\ f[t] = LinkTo(prev[t].src) /\ t \in Symlinks(prev) /\ RecordedLink(f, prev, t)
  <2>1. t \in Path /\ f[t] \in Node
    BY TargetsArePaths DEF Tree
  <2> QED BY <2>1 DEF Node, LinkTo, SrcLink, IsLink, Named, RecordedLink, Symlinks
<1>2. CASE t \notin DOMAIN next
  BY <1>1, <1>2, PlanTakesStale
<1>3. t \notin UnderLink(f, next)
  <2>1. InRealDir(f, t)
    BY <1>1 DEF Closed, SrcLink, IsLink, Exists
  <2> QED BY <2>1 DEF InRealDir, UnderLink, SymlinksAbove, IsLink, IsDir
<1>4. CASE t \in Symlinks(next)
  <2>1. t \in p.replace
    BY <1>1, <1>3, <1>4 DEF Compute, Links, SrcLink
  <2> QED BY <2>1
<1>5. CASE t \in Copies(next)
  <2>1. t \in p.unlink
    BY <1>1, <1>3, <1>5 DEF Compute, Unlinked, Swapped
  <2> QED BY <2>1
<1> QED BY <1>2, <1>4, <1>5, ManifestTypes

\* Each link at a target is as the new manifest says, or is one of the old
\* manifest that the rest of the run takes away or replaces.
AllPlanned ==
  \A t \in Target : SrcLink(fs, t) =>
    Named(fs, run.next, t) \/ (Named(fs, run.base, t) /\ t \in Leaves \cup Relinks)

LEMMA StartPlanned ==
  ASSUME IInv, Closed(fs), RecordFits, AllNamed(fs, Baseline), UNCHANGED fs,
         run'.base = Baseline, IsManifest(run'.next), Planned(run'.next, plan')
  PROVE  AllPlanned'
<1> DEFINE m == run'.next
<1>1. PICK backup \in BOOLEAN, recopy \in BOOLEAN :
        LET c == WithRecopy(Compute(fs, Baseline, m, backup), m, recopy)
        IN c.conflicts = {} /\ (plan' = c \/ (SkipsGeneration(m) /\ plan' = Repairs(c)))
  BY DEF Planned
<1> DEFINE k == Compute(fs, Baseline, m, backup)
           c == WithRecopy(k, m, recopy)
<1>2. /\ c.conflicts = k.conflicts /\ c.remove = k.remove /\ c.unlink = k.unlink
      /\ c.backup = k.backup /\ c.replace = k.replace /\ c.foreign = k.foreign
  BY DEF WithRecopy, Compute
<1>3. fs \in Tree
  BY StageFacts
<1>4. SUFFICES ASSUME NEW t \in Target, SrcLink(fs, t), Named(fs, Baseline, t)
               PROVE  Named(fs, m, t) \/ t \in Leaves' \cup Relinks'
  BY DEF AllPlanned, AllNamed
<1>5. k.conflicts = {} => t \in k.remove \cup k.unlink \cup (k.replace \cup k.foreign)
                               \cup UNION {At(b) : b \in k.backup}
  <2> HIDE DEF m
  <2> QED BY <1>3, <1>4, PlanNames DEF m
<1>6. c.conflicts = {} /\ (plan' = c \/ SkipsGeneration(m))
  BY <1>1
<1> HIDE DEF c, k, m
<1>7. CASE plan' = c
  BY <1>2, <1>5, <1>6, <1>7 DEF Leaves, Relinks
<1>8. CASE SkipsGeneration(m)
  <2>1. HasBaseline /\ BaselineFarm = m
    BY <1>8 DEF SkipsGeneration, HasBaseline, BaselineFarm, IInv, TypeOK
  <2>2. Within(Baseline, m)
    BY <2>1, BaselineWithin
  <2> QED BY <1>4, <2>2 DEF Within, Named, Symlinks
<1> QED BY <1>6, <1>7, <1>8

LEMMA StepPlanned ==
  ASSUME AllPlanned, run' = run,
         \A t \in Target : SrcLink(fs', t) =>
           \/ Named(fs', run.next, t)
           \/ fs'[t] = fs[t] /\ (t \in Leaves \cup Relinks => t \in Leaves' \cup Relinks')
  PROVE  AllPlanned'
BY DEF AllPlanned, Named, SrcLink, IsLink

LEMMA NamedKeep ==
  ASSUME NEW f, NEW g, NEW m, AllNamed(f, m), \A t \in Target : SrcLink(g, t) => g[t] = f[t]
  PROVE  AllNamed(g, m)
BY DEF AllNamed, Named, SrcLink, IsLink

\* When the tree gets no new link, and the journal is as before.
LEMMA StepTraced ==
  ASSUME NEW m, Traced(fs, journal, m, {}), UNCHANGED journal,
         \A r \in Path : SrcLink(fs', r) => fs'[r] = fs[r]
  PROVE  Traced(fs', journal', m, {})
BY TraceKeep

LEMMA JournaledTraced ==
  ASSUME NEW m, Traced(fs, journal, m, {}), journal \in Seq(UndoOp),
         NEW kind \in {"unlinkNew", "removeCopy", "mkdir"}, NEW p \in Path, None \in Val,
         Journals(kind, p, None),
         \A r \in Path : SrcLink(fs', r) /\ (kind = "unlinkNew" => r # p) => fs'[r] = fs[r]
  PROVE  Traced(fs', journal', m, {})
<1> DEFINE op == [kind |-> kind, path |-> p, dest |-> None]
<1>1. op \in UndoOp /\ op.kind = kind /\ op.path = p
  BY DEF UndoOp, UndoKind
<1> HIDE DEF op
<1>2. journal' = Append(journal, op)
  BY DEF Journals, op
<1> QED BY <1>1, <1>2, PushNothing

LEMMA UnlinkTraced ==
  ASSUME NEW m, Traced(fs, journal, m, {}), journal \in Seq(UndoOp), fs \in Tree, NEW p \in Path,
         IsLink(fs, p), NEW d, d = fs[p].val, Journals("relinkOld", p, d), fs' = Put(fs, p, Absent)
  PROVE  Traced(fs', journal', m, {})
<1> DEFINE op == [kind |-> "relinkOld", path |-> p, dest |-> fs[p].val]
<1>1. op \in UndoOp
  BY DEF UndoOp, UndoKind, Tree, Node
<1>2. journal' = Append(journal, op)
  BY DEF Journals
<1> HIDE DEF op
<1> QED BY <1>1, <1>2, PushUnlink DEF op

LEMMA RenameTraced ==
  ASSUME NamesApart, NEW m, Traced(fs, journal, m, {}), journal \in Seq(UndoOp), fs \in Tree,
         None \in Val, NEW kind \in Restores, NEW t \in Target, Journals(kind, t, None),
         fs' = Rename(fs, t, Beside(kind, t))
  PROVE  Traced(fs', journal', m, {})
<1> DEFINE op == [kind |-> kind, path |-> t, dest |-> None]
<1>1. op \in UndoOp /\ op.kind = kind /\ op.path = t
  BY TargetsArePaths DEF UndoOp, UndoKind, Restores
<1> HIDE DEF op
<1>2. journal' = Append(journal, op)
  BY DEF Journals, op
<1> QED BY <1>1, <1>2, PushRename

\* What the rest of a run takes away or puts back, when the step is done.
StageLinks == AllPlanned /\ Traced(fs, journal, run.base, {})

LEMMA StageStepLinks ==
  ASSUME NamesApart, IInv, JournalInv, StageLinks, StageStep, phase = "stages", phase' = "stages"
  PROVE  StageLinks'
<1>1. /\ fs \in Tree /\ IsManifest(run.base) /\ IsManifest(run.next) /\ plan \in Plan
      /\ Target \subseteq Path /\ journal \in Seq(UndoOp) /\ None \in Val
      /\ AllPlanned /\ Traced(fs, journal, run.base, {})
  BY StageFacts DEF StageLinks
<1>2. DOMAIN fs = Path /\ \A r \in Path : fs[r] \in Node
  BY <1>1 DEF Tree
<1>3. Dir.kind # "link" /\ Absent.kind # "link" /\ \A d : FileOf(d).kind # "link"
  BY DEF Dir, Absent, FileOf
<1>4. ASSUME NEW p, PreRemoveUnlink(p) PROVE StageLinks'
  <2>1. p \in Path /\ fs' = Put(fs, p, Absent) /\ IsLink(fs, p) /\ run.base[p].src = fs[p].val
    BY <1>1, <1>4 DEF PreRemoveUnlink, RecordedLink, LinkTo, IsLink, Plan
  <2>2. plan' = [plan EXCEPT !.unlink = @ \ {p}] /\ run' = run
        /\ Journals("relinkOld", p, run.base[p].src)
    BY <1>4 DEF PreRemoveUnlink, Writes, JournalRelink, Journals
  <2>3. \A t : t # p /\ t \in Leaves \cup Relinks => t \in Leaves' \cup Relinks'
    BY <1>1, <2>2 DEF Leaves, Relinks, Plan
  <2>4. \A t \in Path : fs'[t] = IF t = p THEN Absent ELSE fs[t]
    BY <1>2, <2>1 DEF Put
  <2>5. AllPlanned'
    BY <1>1, <1>3, <2>2, <2>3, <2>4, StepPlanned DEF SrcLink, IsLink
  <2>6. Traced(fs', journal', run.base, {})
    BY <1>1, <2>1, <2>2, UnlinkTraced
  <2> QED BY <2>2, <2>5, <2>6 DEF StageLinks
<1>5. ASSUME NEW p, PreRemoveRmdir(p) PROVE StageLinks'
  <2>1. p \in Path /\ \A t \in Path : fs'[t] \in {fs[t], Absent}
    BY <1>1, <1>2, <1>5 DEF PreRemoveRmdir, Put, Plan
  <2>2. plan' = [plan EXCEPT !.rmdir = @ \ {p}] /\ run' = run
        /\ (UNCHANGED journal \/ Journals("mkdir", p, None))
    BY <1>5 DEF PreRemoveRmdir, Writes, Journal, Journals
  <2>3. Leaves' = Leaves /\ Relinks' = Relinks
    BY <1>1, <2>2 DEF Leaves, Relinks, Plan
  <2>4. AllPlanned'
    BY <1>1, <1>3, <2>1, <2>2, <2>3, StepPlanned DEF SrcLink, IsLink
  <2>5. Traced(fs', journal', run.base, {})
    BY <1>1, <1>3, <2>1, <2>2, StepTraced, JournaledTraced DEF SrcLink, IsLink
  <2> QED BY <2>2, <2>4, <2>5 DEF StageLinks
<1>6. ASSUME NEW b, BackUp(b) PROVE StageLinks'
  <2>1. b \in Target /\ fs' = Rename(fs, b, BackupOf[b])
    BY <1>1, <1>6 DEF BackUp, Plan
  <2>2. plan' = [plan EXCEPT !.backup = @ \ {b}] /\ run' = run /\ Journals("restoreBackup", b, None)
    BY <1>6 DEF BackUp, Writes, Journal, Journals
  <2>3. \A t : t \notin At(b) /\ t \in Leaves \cup Relinks => t \in Leaves' \cup Relinks'
    BY <1>1, <2>2 DEF Leaves, Relinks, Plan
  <2>4. \A t \in Target : fs'[t] = IF t \in At(b) THEN Absent ELSE fs[t]
    BY <1>1, <2>1 DEF NamesApart, Rename
  <2>5. AllPlanned'
    BY <1>1, <1>3, <2>2, <2>3, <2>4, StepPlanned DEF SrcLink, IsLink
  <2>6. Traced(fs', journal', run.base, {})
    BY <1>1, <2>1, <2>2, RenameTraced DEF Beside, Restores
  <2> QED BY <2>2, <2>5, <2>6 DEF StageLinks
<1>7. ASSUME NEW t \in plan.new, PlaceNew(t) PROVE StageLinks'
  <2>1. t \in Path /\ t \in Symlinks(run.next) /\ fs' = Put(Mkdirs(fs, t), t, LinkTo(run.next[t].src))
    BY <1>1, <1>7 DEF PlaceNew, Plan, JournalInv
  <2>2. plan' = [plan EXCEPT !.new = @ \ {t}] /\ run' = run /\ Journals("unlinkNew", t, None)
    BY <1>7 DEF PlaceNew, Writes, Journal, Journals
  <2>3. Leaves' = Leaves /\ Relinks' = Relinks
    BY <1>1, <2>2 DEF Leaves, Relinks, Plan
  <2>4. Named(fs', run.next, t) /\ \A r \in Path : r # t => fs'[r] \in {fs[r], Dir}
    BY <2>1 DEF Put, Mkdirs, Named, LinkTo
  <2>5. AllPlanned'
    BY <1>1, <1>3, <2>2, <2>3, <2>4, StepPlanned DEF SrcLink, IsLink
  <2>6. Traced(fs', journal', run.base, {})
    BY <1>1, <1>3, <2>1, <2>2, <2>4, JournaledTraced DEF SrcLink, IsLink
  <2> QED BY <2>2, <2>5, <2>6 DEF StageLinks
<1>8. ASSUME NEW t \in Relinks, RelinkUnlink(t) PROVE StageLinks'
  <2>1. t \in Path /\ fs' = Put(fs, t, Absent) /\ IsLink(fs, t)
    BY <1>1, <1>8 DEF RelinkUnlink, Relinks, Plan
  <2>2. plan' = plan /\ run' = run /\ Journals("relinkOld", t, fs[t].val)
    BY <1>8 DEF RelinkUnlink, Writes, JournalRelink, Journals
  <2>3. Leaves' = Leaves /\ Relinks' = Relinks
    BY <2>2 DEF Leaves, Relinks
  <2>4. \A r \in Path : fs'[r] \in {fs[r], Absent}
    BY <1>2, <2>1 DEF Put
  <2>5. AllPlanned'
    BY <1>1, <1>3, <2>2, <2>3, <2>4, StepPlanned DEF SrcLink, IsLink
  <2>6. Traced(fs', journal', run.base, {})
    BY <1>1, <2>1, <2>2, UnlinkTraced
  <2> QED BY <2>2, <2>5, <2>6 DEF StageLinks
<1>9. ASSUME NEW t \in Relinks, RelinkSymlink(t) PROVE StageLinks'
  <2>1. t \in Path /\ t \in Symlinks(run.next) /\ fs' = Put(fs, t, LinkTo(run.next[t].src))
    BY <1>1, <1>9 DEF RelinkSymlink, Relinks, Plan, JournalInv
  <2>2. plan' = [plan EXCEPT !.replace = @ \ {t}, !.foreign = @ \ {t}] /\ run' = run /\ UNCHANGED journal
    BY <1>9 DEF RelinkSymlink, Writes
  <2>3. \A r : r # t /\ r \in Leaves \cup Relinks => r \in Leaves' \cup Relinks'
    BY <1>1, <2>2 DEF Leaves, Relinks, Plan
  <2>4. Named(fs', run.next, t) /\ \A r \in Path : r # t => fs'[r] = fs[r]
    BY <1>2, <2>1 DEF Put, Named, LinkTo
  <2>5. AllPlanned'
    BY <1>1, <2>2, <2>3, <2>4, StepPlanned
  <2>6. journal # << >> /\ Last(journal).kind = "relinkOld" /\ Last(journal).path = t
    BY <1>9 DEF RelinkSymlink, JournalInv, Mid
  <2>7. Traced(fs', journal', run.base, {})
    BY <1>1, <2>1, <2>2, <2>4, <2>6, TraceTop
  <2> QED BY <2>2, <2>5, <2>7 DEF StageLinks
<1>10. ASSUME NEW t, RecopyAside(t) PROVE StageLinks'
  <2>1. t \in Target /\ fs' = Rename(fs, t, AsideOf[t])
    BY <1>1, <1>10 DEF RecopyAside, Plan
  <2>2. plan' = plan /\ run' = run /\ Journals("restoreRename", t, None)
    BY <1>10 DEF RecopyAside, Writes, Journal, Journals
  <2>3. Leaves' = Leaves /\ Relinks' = Relinks
    BY <2>2 DEF Leaves, Relinks
  <2>4. \A r \in Target : fs'[r] \in {fs[r], Absent}
    BY <1>1, <2>1 DEF NamesApart, Rename
  <2>5. AllPlanned'
    BY <1>1, <1>3, <2>2, <2>3, <2>4, StepPlanned DEF SrcLink, IsLink
  <2>6. Traced(fs', journal', run.base, {})
    BY <1>1, <2>1, <2>2, RenameTraced DEF Beside, Restores
  <2> QED BY <2>2, <2>5, <2>6 DEF StageLinks
<1>11. ASSUME NEW t, CopyStart(t) PROVE StageLinks'
  <2>1. t \in Path /\ \A r \in Path : \/ fs'[r] \in {fs[r], Dir}
                                      \/ fs'[r] = FileOf(Partial)
    BY <1>1, <1>11 DEF CopyStart, Put, Mkdirs, BeginCopy, Plan
  <2>2. plan' = plan /\ run' = run /\ (UNCHANGED journal \/ Journals("removeCopy", t, None))
    BY <1>11 DEF CopyStart, Writes, Journal, Journals
  <2>3. Leaves' = Leaves /\ Relinks' = Relinks
    BY <2>2 DEF Leaves, Relinks
  <2>4. \A r \in Path : SrcLink(fs', r) => fs'[r] = fs[r]
    BY <1>3, <2>1 DEF SrcLink, IsLink
  <2>5. AllPlanned'
    BY <1>1, <2>2, <2>3, <2>4, StepPlanned
  <2>6. Traced(fs', journal', run.base, {})
    BY <1>1, <2>1, <2>2, <2>4, StepTraced, JournaledTraced
  <2> QED BY <2>2, <2>5, <2>6 DEF StageLinks
<1>12. ASSUME NEW t, CopyFinish(t) PROVE StageLinks'
  <2>1. fs' \in {fs, EndCopy(fs, run.next[t].src, t)}
    BY <1>12 DEF CopyFinish
  <2>2. plan' = [plan EXCEPT !.copies = @ \ {t}] /\ run' = run /\ UNCHANGED journal
    BY <1>12 DEF CopyFinish, Writes
  <2>3. Leaves' = Leaves /\ Relinks' = Relinks
    BY <1>1, <2>2 DEF Leaves, Relinks, Plan
  <2>4. \A r \in Path : fs'[r] = fs[r] \/ fs'[r].kind = "file"
    BY <1>2, <2>1 DEF Put, EndCopy, FileOf
  <2>5. \A r \in Path : SrcLink(fs', r) => fs'[r] = fs[r]
    BY <2>4 DEF SrcLink, IsLink
  <2>6. AllPlanned'
    BY <1>1, <2>2, <2>3, <2>5, StepPlanned
  <2>7. Traced(fs', journal', run.base, {})
    BY <1>1, <2>2, <2>5, StepTraced
  <2> QED BY <2>2, <2>6, <2>7 DEF StageLinks
<1>13. ASSUME NEW t, RemoveStale(t) PROVE StageLinks'
  <2>1. t \in Path /\ plan' = [plan EXCEPT !.remove = @ \ {t}] /\ run' = run
    BY <1>1, <1>13 DEF RemoveStale, Writes, Plan
  <2>2. \A r : r # t /\ r \in Leaves \cup Relinks => r \in Leaves' \cup Relinks'
    BY <1>1, <2>1 DEF Leaves, Relinks, Plan
  <2>3. CASE StillStale(t)
    <3>1. fs' = Put(fs, t, Absent) /\ Journals("relinkOld", t, run.base[t].src)
          /\ IsLink(fs, t) /\ run.base[t].src = fs[t].val
      BY <1>13, <2>3 DEF RemoveStale, JournalRelink, Journals, StillStale, RecordedLink, IsLink, LinkTo
    <3>2. \A r \in Path : fs'[r] = IF r = t THEN Absent ELSE fs[r]
      BY <1>2, <3>1 DEF Put
    <3>3. AllPlanned'
      BY <1>1, <1>3, <2>1, <2>2, <3>2, StepPlanned DEF SrcLink, IsLink
    <3>4. Traced(fs', journal', run.base, {})
      BY <1>1, <2>1, <3>1, UnlinkTraced
    <3> QED BY <2>1, <3>3, <3>4 DEF StageLinks
  <2>4. CASE ~StillStale(t)
    <3>1. UNCHANGED <<fs, journal>>
      BY <1>13, <2>4 DEF RemoveStale
    <3>2. t \in Target /\ SrcLink(fs, t) => Named(fs, run.next, t)
      <4>1. SrcLink(fs, t) /\ Named(fs, run.base, t) => StillStale(t)
        BY <1>2, <2>1 DEF SrcLink, IsLink, Named, Symlinks, StillStale, RecordedLink, Node, LinkTo
      <4> QED BY <1>1, <2>4, <4>1 DEF AllPlanned
    <3>3. AllPlanned'
      BY <1>1, <2>1, <2>2, <3>1, <3>2, StepPlanned
    <3> QED BY <1>1, <2>1, <3>1, <3>3 DEF StageLinks
  <2> QED BY <2>3, <2>4
<1>14. CASE PruneAncestor
  <2>1. plan' = plan /\ run' = run
    BY <1>14 DEF PruneAncestor, Writes
  <2>2. \/ UNCHANGED <<fs, journal>>
        \/ \E p \in Path : fs' = Put(fs, p, Absent) /\ Journals("mkdir", p, None)
    BY <1>14 DEF PruneAncestor, Journal, Journals
  <2>3. \A r \in Path : fs'[r] \in {fs[r], Absent}
    BY <1>2, <2>2 DEF Put
  <2>4. \A r \in Path : SrcLink(fs', r) => fs'[r] = fs[r]
    BY <1>3, <2>3 DEF SrcLink, IsLink
  <2>5. AllPlanned'
    BY <1>1, <2>1, <2>4, StepPlanned DEF Leaves, Relinks
  <2>6. Traced(fs', journal', run.base, {})
    BY <1>1, <2>2, <2>4, StepTraced, JournaledTraced
  <2> QED BY <2>1, <2>5, <2>6 DEF StageLinks
<1>15. ~\E t : CopyStuck(t) \/ ResetCopy(t) \/ StageStuck(t)
  BY DEF CopyStuck, ResetCopy, StageStuck, Fails
<1> QED BY <1>4, <1>5, <1>6, <1>7, <1>8, <1>9, <1>10, <1>11, <1>12, <1>13, <1>14, <1>15
        DEF StageStep

\* A stage that fails, and a teardown.
LEMMA StuckLinks ==
  ASSUME IInv, Traced(fs, journal, run.base, {}),
         (\E t \in plan.copies : CopyStuck(t)) \/ (\E p : StageStuck(p)) \/ StageFault
  PROVE  run' = run /\ phase' = "unwind" /\ Traced(fs', journal', run.base, Lost(journal'))
<1>1. fs \in Tree /\ journal \in Seq(UndoOp) /\ None \in Val /\ plan.copies \subseteq Path
  BY StageFacts DEF Plan
<1>2. run' = run /\ phase' = "unwind"
  BY DEF CopyStuck, StageStuck, StageFault, Fails
<1>3. \A r \in Path : fs'[r] \in {fs[r], Dir}
  BY DEF CopyStuck, StageStuck, StageFault, Mkdirs
<1>4. UNCHANGED journal \/ \E t \in Path : Journals("removeCopy", t, None)
  BY <1>1 DEF CopyStuck, StageStuck, StageFault, Fails, Journal, Journals
<1>5. \A r \in Path : SrcLink(fs', r) => fs'[r] = fs[r]
  BY <1>3 DEF SrcLink, IsLink, Dir
<1>6. Traced(fs', journal', run.base, {})
  BY <1>1, <1>4, <1>5, StepTraced, JournaledTraced
<1>7. Traced(fs', journal', run.base, Lost(journal'))
  BY <1>6, TraceKeep
<1> QED BY <1>2, <1>7

LEMMA TeardownRemoves ==
  ASSUME IInv, phase = "teardown", StageStep
  PROVE  run' = run /\ phase' = phase /\ \A r \in Path : fs'[r] \in {fs[r], Absent}
<1>1. DOMAIN fs = Path
  BY StageFacts DEF Tree
<1>2. \A p : ~PreRemoveUnlink(p) /\ ~PreRemoveRmdir(p) /\ ~BackUp(p) /\ ~PlaceNew(p)
  BY DEF PreRemoveUnlink, PreRemoveRmdir, BackUp, PlaceNew, In
<1>3. \A t : ~RelinkUnlink(t) /\ ~RelinkSymlink(t) /\ ~RecopyAside(t) /\ ~CopyStart(t) /\ ~CopyFinish(t)
  BY DEF RelinkUnlink, RelinkSymlink, RecopyAside, CopyStart, CopyFinish, In
<1>4. \A t : ~CopyStuck(t) /\ ~StageStuck(t)
  BY DEF CopyStuck, StageStuck, Refuses, In
<1>5. PICK t : ResetCopy(t) \/ RemoveStale(t) \/ PruneAncestor
  BY <1>2, <1>3, <1>4 DEF StageStep
<1>6. \A r \in Path : fs'[r] \in {fs[r], Absent}
  BY <1>1, <1>5 DEF ResetCopy, RemoveStale, PruneAncestor, Put, Clear
<1> QED BY <1>5, <1>6 DEF ResetCopy, RemoveStale, PruneAncestor, Writes

-----------------------------------------------------------------------------
\* While nothing crashed: between two runs the baseline names each link at a
\* target, and within one, its plan, its journal or its new record does.
LinkInv ==
  spent.crashes = 0 =>
    /\ phase = "idle" => AllNamed(fs, Baseline)
    /\ phase \in {"stages", "unwind", "teardown"} => run.base = Baseline
    /\ phase = "stages" => StageLinks
    /\ phase = "unwind" => Traced(fs, journal, run.base, Lost(journal))
    /\ phase = "teardown" => AllNamed(fs, run.base)
    /\ phase \in {"commit", "discard"} => record # NoRecord /\ AllNamed(fs, record.man)

LEMMA StartLinks ==
  ASSUME IInv, IInv', Closed(fs), RecordFits, JournalInv, LinkInv, Start
  PROVE  LinkInv'
<1>1. StartFacts
  BY StartIs
<1>2. SUFFICES ASSUME spent.crashes = 0
               PROVE  LinkInv'
  BY <1>1 DEF StartFacts, LinkInv
<1>3. /\ UNCHANGED <<fs, spent>> /\ Baseline' = Baseline
      /\ AllNamed(fs, Baseline) /\ journal = << >> /\ Target \subseteq Path
  BY <1>1, <1>2, TargetsArePaths DEF StartFacts, LinkInv, JournalInv, Baseline
<1>4. CASE phase' = "idle"
  BY <1>3, <1>4 DEF LinkInv
<1>5. CASE phase' # "idle"
  <2>1. UNCHANGED journal /\ run'.base = Baseline
    BY <1>1, <1>5 DEF StartFacts
  <2>2. Traced(fs, << >>, Baseline, {})
    BY <1>3, TraceEmpty
  <2>3. Traced(fs, << >>, Baseline, Lost(<< >>))
    BY <2>2, TraceKeep
  <2>4. phase' = "stages" => StageLinks'
    <3>1. phase' = "stages" => Planned(run'.next, plan')
      BY <1>1, <1>5 DEF StartFacts
    <3>2. IsManifest(run'.next)
      BY DEF IInv, TypeOK, IsRun
    <3>3. phase' = "stages" => AllPlanned'
      BY <1>3, <2>1, <3>1, <3>2, StartPlanned
    <3> QED BY <1>3, <2>1, <2>2, <3>3 DEF StageLinks
  <2>5. phase' \in {"teardown", "unwind", "stages"}
    BY <1>1, <1>5 DEF StartFacts
  <2> QED BY <1>3, <2>1, <2>3, <2>4, <2>5 DEF LinkInv
<1> QED BY <1>4, <1>5

\* Nothing but the tree changes, which gets no new link.
LEMMA KeptLinks ==
  ASSUME LinkInv, UNCHANGED <<record, gens, cur, phase, journal>>, run' = run \/ phase = "idle",
         UNCHANGED plan \/ phase # "stages", spent'.crashes = spent.crashes,
         Target \subseteq Path, \A r \in Path : SrcLink(fs', r) => fs'[r] = fs[r]
  PROVE  LinkInv'
<1>1. SUFFICES ASSUME spent.crashes = 0
               PROVE  LinkInv'
  BY DEF LinkInv
<1>2. Baseline' = Baseline
  BY DEF Baseline
<1>3. \A m : AllNamed(fs, m) => AllNamed(fs', m)
  BY NamedKeep
<1>4. CASE phase = "stages"
  <2>1. AllPlanned /\ Traced(fs, journal, run.base, {}) /\ run' = run /\ UNCHANGED plan
    BY <1>1, <1>4 DEF LinkInv, StageLinks
  <2>2. AllPlanned'
    BY <2>1, StepPlanned DEF Leaves, Relinks
  <2>3. Traced(fs', journal', run.base, {})
    BY <2>1, StepTraced
  <2>4. StageLinks'
    BY <2>1, <2>2, <2>3 DEF StageLinks
  <2> QED BY <1>1, <1>2, <1>4, <2>1, <2>4 DEF LinkInv
<1>5. CASE phase = "unwind"
  <2>1. run' = run /\ Traced(fs, journal, run.base, Lost(journal))
    BY <1>1, <1>5 DEF LinkInv
  <2>2. Traced(fs', journal, run.base, Lost(journal))
    BY <2>1, TraceKeep
  <2> QED BY <1>1, <1>2, <1>5, <2>1, <2>2 DEF LinkInv
<1>6. CASE phase \notin {"stages", "unwind"}
  BY <1>1, <1>2, <1>3, <1>6 DEF LinkInv
<1> QED BY <1>4, <1>5, <1>6

LEMMA StageLinkInv ==
  ASSUME NamesApart, IInv, JournalInv, LinkInv, StageStep
  PROVE  LinkInv'
<1>1. /\ Target \subseteq Path /\ phase \in {"stages", "teardown"}
      /\ phase' = phase \/ phase' = "unwind"
  BY TargetsArePaths, StagePhase, StageStarted
<1>2. UNCHANGED <<record, gens, cur, run, spent>>
  <2>1. \A p : PreRemoveUnlink(p) \/ PreRemoveRmdir(p) \/ BackUp(p) \/ PlaceNew(p) => Writes
    BY DEF PreRemoveUnlink, PreRemoveRmdir, BackUp, PlaceNew
  <2>2. \A t : RelinkUnlink(t) \/ RelinkSymlink(t) \/ RecopyAside(t) \/ CopyStart(t) => Writes
    BY DEF RelinkUnlink, RelinkSymlink, RecopyAside, CopyStart
  <2>3. \A t : CopyFinish(t) \/ ResetCopy(t) \/ RemoveStale(t) \/ PruneAncestor => Writes
    BY DEF CopyFinish, ResetCopy, RemoveStale, PruneAncestor
  <2>4. \A t : CopyStuck(t) \/ StageStuck(t) => UNCHANGED <<profileVars, run, spent>>
    BY DEF CopyStuck, StageStuck, Fails, ghostVars
  <2>5. Writes \/ UNCHANGED <<profileVars, run, spent>>
    BY <2>1, <2>2, <2>3, <2>4 DEF StageStep
  <2> QED BY <2>5 DEF Writes, profileVars, ghostVars
<1>3. SUFFICES ASSUME spent.crashes = 0
               PROVE  LinkInv'
  BY <1>2 DEF LinkInv
<1>4. Baseline' = Baseline /\ run.base = Baseline
  BY <1>1, <1>2, <1>3 DEF Baseline, LinkInv
<1>5. CASE phase = "stages" /\ phase' = "stages"
  <2>1. StageLinks'
    BY <1>3, <1>5, StageStepLinks DEF LinkInv
  <2> QED BY <1>2, <1>4, <1>5, <2>1 DEF LinkInv
<1>6. CASE phase = "stages" /\ phase' = "unwind"
  <2>1. Traced(fs, journal, run.base, {})
    BY <1>3, <1>6 DEF LinkInv, StageLinks
  <2>2. \A p : /\ ~PreRemoveUnlink(p) /\ ~PreRemoveRmdir(p) /\ ~BackUp(p) /\ ~PlaceNew(p)
               /\ ~RelinkUnlink(p) /\ ~RelinkSymlink(p) /\ ~RecopyAside(p) /\ ~CopyStart(p)
    BY <1>6 DEF PreRemoveUnlink, PreRemoveRmdir, BackUp, PlaceNew, RelinkUnlink, RelinkSymlink,
                RecopyAside, CopyStart, Writes
  <2>3. ~PruneAncestor /\ \A p : ~CopyFinish(p) /\ ~ResetCopy(p) /\ ~RemoveStale(p)
    BY <1>6 DEF CopyFinish, ResetCopy, RemoveStale, PruneAncestor, Writes
  <2>4. (\E t \in plan.copies : CopyStuck(t)) \/ (\E p : StageStuck(p))
    BY <2>2, <2>3 DEF StageStep
  <2>5. Traced(fs', journal', run.base, Lost(journal'))
    BY <2>1, <2>4, StuckLinks
  <2> QED BY <1>2, <1>4, <1>6, <2>5 DEF LinkInv
<1>7. CASE phase = "teardown"
  <2>1. run' = run /\ phase' = phase /\ \A r \in Path : fs'[r] \in {fs[r], Absent}
    BY <1>7, TeardownRemoves
  <2>2. \A r \in Path : SrcLink(fs', r) => fs'[r] = fs[r]
    BY <2>1 DEF SrcLink, IsLink, Absent
  <2>3. AllNamed(fs', run.base)
    BY <1>1, <1>3, <1>7, <2>2, NamedKeep DEF LinkInv
  <2> QED BY <1>4, <1>7, <2>1, <2>3 DEF LinkInv
<1> QED BY <1>1, <1>5, <1>6, <1>7

LEMMA FinishLinks ==
  ASSUME NamesApart, NamesDiffer, IInv, TreeInv, JournalInv, LinkInv, Finish
  PROVE  LinkInv'
<1>1. UNCHANGED spent /\ fs \in Tree /\ journal \in Seq(UndoOp) /\ Target \subseteq Path
  BY StageFacts
     DEF Finish, WriteRecord, Commit, DiscardJournal, UndoStep, Unwound, RecordAfterReset, ghostVars
<1>2. SUFFICES ASSUME spent.crashes = 0
               PROVE  LinkInv'
  BY <1>1 DEF LinkInv
<1>3. CASE WriteRecord
  <2>1. AllNamed(fs, run.next)
    BY <1>2, <1>3 DEF WriteRecord, In, Stage, LinkInv, StageLinks, AllPlanned, AllNamed, Leaves, Relinks
  <2>2. record' = [man |-> run.next, farm |-> run.farm] /\ run.farm # None
    BY <1>3, EngineAssumption DEF WriteRecord, In, IInv, RunFits
  <2>3. record' # NoRecord /\ record'.man = run.next
    BY <2>2 DEF NoRecord
  <2>4. UNCHANGED fs /\ phase' \in {"commit", "discard"}
    BY <1>3 DEF WriteRecord
  <2> QED BY <2>1, <2>3, <2>4 DEF LinkInv
<1>4. CASE Commit
  BY <1>2, <1>4 DEF Commit, LinkInv
<1>5. CASE DiscardJournal
  <2>1. /\ phase' = "idle" /\ UNCHANGED record /\ record # NoRecord /\ AllNamed(fs, record.man)
        /\ \A r \in Path : fs'[r] \in {fs[r], Absent}
    BY <1>2, <1>5 DEF DiscardJournal, End, LinkInv
  <2>2. \A r \in Path : SrcLink(fs', r) => fs'[r] = fs[r]
    BY <2>1 DEF SrcLink, IsLink, Absent
  <2>3. AllNamed(fs', record.man)
    BY <1>1, <2>1, <2>2, NamedKeep
  <2> QED BY <2>1, <2>3 DEF LinkInv, Baseline
<1>6. CASE UndoStep
  <2>1. /\ phase = "unwind" /\ journal # << >> /\ fs' = Undo(fs, Last(journal)) /\ journal' = Front(journal)
        /\ UNCHANGED <<record, gens, cur, phase, run>>
    BY <1>6 DEF UndoStep, profileVars
  <2>2. /\ RestoresOnce(journal) /\ run.base = Baseline
        /\ Traced(fs, journal, run.base, Lost(journal))
        /\ \A i \in DOMAIN journal : journal[i].kind \in Restores => journal[i].path \in Target
    BY <1>2, <2>1 DEF JournalInv, LinkInv, TreeInv, JournalFits, Restores
  <2>3. Traced(fs', journal', run.base, Lost(journal'))
    BY <1>1, <2>1, <2>2, TracePop
  <2> QED BY <2>1, <2>2, <2>3 DEF LinkInv, Baseline
<1>7. CASE Unwound
  <2>1. /\ phase = "unwind" /\ phase' = "idle" /\ journal = << >>
        /\ UNCHANGED <<fs, record, gens, cur>>
    BY <1>7 DEF Unwound, End, profileVars
  <2>2. AllNamed(fs, Baseline)
    BY <1>1, <1>2, <2>1, TraceEnd DEF LinkInv
  <2> QED BY <2>1, <2>2 DEF LinkInv, Baseline
<1>8. CASE RecordAfterReset
  <2> DEFINE left == DOMAIN run.base \ Gone
  <2>1. /\ phase = "teardown" /\ phase' = "idle" /\ UNCHANGED <<fs, gens, cur>>
        /\ record' = IF left = {} THEN NoRecord ELSE [man |-> Restrict(run.base, left), farm |-> run.farm]
        /\ AllNamed(fs, run.base) /\ run.farm \in Manifests
    BY <1>2, <1>8 DEF RecordAfterReset, End, LinkInv, IInv, RunFits
  <2>2. \A t \in Target : SrcLink(fs, t) => t \in left /\ Named(fs, run.base, t)
    BY <2>1 DEF AllNamed, Named, Symlinks, Gone, SrcLink, IsLink, Exists
  <2> HIDE DEF left
  <2>3. CASE left = {}
    BY <2>1, <2>2, <2>3 DEF LinkInv, AllNamed
  <2>4. CASE left # {}
    <3>1. record' # NoRecord /\ record'.man = Restrict(run.base, left)
      BY <2>1, <2>4, EngineAssumption DEF NoRecord
    <3>2. AllNamed(fs, Restrict(run.base, left))
      BY <2>2 DEF AllNamed, Named, Symlinks, Restrict
    <3> QED BY <2>1, <3>1, <3>2 DEF LinkInv, Baseline
  <2> QED BY <2>3, <2>4
<1> QED BY <1>3, <1>4, <1>5, <1>6, <1>7, <1>8 DEF Finish

LEMMA FailureLinks ==
  ASSUME IInv, LinkInv, Failure
  PROVE  LinkInv'
<1>1. spent'.crashes = spent.crashes /\ fs \in Tree /\ Target \subseteq Path
  BY StageFacts
     DEF Failure, StageFault, PruneFault, CommitFault, ResetFault, ResetRecordFault, Fault, IInv, TypeOK
<1>2. SUFFICES ASSUME spent.crashes = 0
               PROVE  LinkInv'
  BY <1>1 DEF LinkInv
<1>3. CASE StageFault
  <2>1. UNCHANGED <<record, gens, cur>> /\ phase = "stages"
    BY <1>3 DEF StageFault, Fails, profileVars
  <2>2. run.base = Baseline /\ Traced(fs, journal, run.base, {})
    BY <1>2, <2>1 DEF LinkInv, StageLinks
  <2>3. run' = run /\ phase' = "unwind" /\ Traced(fs', journal', run.base, Lost(journal'))
    BY <1>3, <2>2, StuckLinks
  <2> QED BY <2>1, <2>2, <2>3 DEF LinkInv, Baseline
<1>4. CASE PruneFault
  BY <1>1, <1>4, KeptLinks DEF PruneFault, profileVars
<1>5. CASE ResetFault
  BY <1>1, <1>5, KeptLinks DEF ResetFault, profileVars
<1>6. CASE CommitFault
  BY <1>2, <1>6 DEF CommitFault, End, profileVars, LinkInv, Baseline
<1>7. CASE ResetRecordFault
  BY <1>2, <1>7 DEF ResetRecordFault, End, profileVars, LinkInv, Baseline
<1> QED BY <1>3, <1>4, <1>5, <1>6, <1>7 DEF Failure

LEMMA NextLinks ==
  ASSUME NamesApart, NamesDiffer
  PROVE  IInv /\ RecordFits /\ TreeInv /\ JournalInv /\ LinkInv /\ [Next]_vars => LinkInv'
<1> SUFFICES ASSUME IInv, RecordFits, TreeInv, JournalInv, LinkInv, [Next]_vars PROVE LinkInv'
  OBVIOUS
<1>1. CASE Start
  BY <1>1, NextIInv, StartLinks DEF TreeInv
<1>2. CASE StageStep \/ Finish \/ Failure
  BY <1>2, StageLinkInv, FinishLinks, FailureLinks
<1>3. CASE Crash
  BY <1>3 DEF Crash, LinkInv, IInv, TypeOK
<1>4. CASE UserStep
  <2>1. /\ UNCHANGED <<record, gens, cur, phase, journal, plan>> /\ (run' = run \/ phase = "idle")
        /\ spent' = [spent EXCEPT !.edits = @ + 1]
    BY <1>4 DEF UserStep, UserWrite, UserMkdir, UserRelink, UserDelete, UserMay, Edited, profileVars
  <2>2. spent'.crashes = spent.crashes
    BY <2>1 DEF IInv, TypeOK
  <2>3. \A r \in Path : \/ fs'[r] \in {fs[r], Dir, Absent} \/ fs'[r].kind = "file"
                        \/ fs'[r].val \in Foreign
    BY <1>4, UserPuts
  <2>4. \A r \in Path : SrcLink(fs', r) => fs'[r] = fs[r]
    BY <2>3, DataAssumption DEF SrcLink, IsLink, Dir, Absent
  <2> QED BY <2>1, <2>2, <2>4, TargetsArePaths, KeptLinks
<1>5. CASE UNCHANGED vars
  BY <1>5, TargetsArePaths, KeptLinks DEF vars, profileVars, engineVars, ghostVars
<1>6. CASE AnswerReset
  <2>1. CASE Refuse
    <3>1. UNCHANGED <<fs, record, gens, cur, spent>> /\ phase' = "idle" /\ phase = "teardown"
      BY <1>6, <2>1 DEF AnswerReset, Refuse, End, profileVars
    <3> QED BY <3>1 DEF LinkInv, Baseline
  <2>2. CASE ~Refuse
    BY <1>6, <2>2, TargetsArePaths, KeptLinks DEF AnswerReset, profileVars
  <2> QED BY <2>1, <2>2
<1> QED BY <1>1, <1>2, <1>3, <1>4, <1>5, <1>6 DEF Next, RunStep

LEMMA InitLinks == Init => JournalInv /\ LinkInv
<1> SUFFICES ASSUME Init PROVE JournalInv /\ LinkInv
  OBVIOUS
<1>1. phase = "idle" /\ journal = << >> /\ mid = NoMid /\ DOMAIN journal = {}
  BY DEF Init
<1>2. \A t \in Target : ~SrcLink(fs, t)
  BY TargetsArePaths DEF Init, SrcLink, IsLink, Absent
<1> QED BY <1>1, <1>2 DEF JournalInv, LinkInv, RestoresOnce, AllNamed

\* Between two runs the baseline names every link to layat's sources at a
\* target, so that a later run can replace or remove it: a failing stage and
\* what its unwinding could not restore, a failing commit, a reset of a part
\* and a failing one, and edits before, after and meanwhile forget none, until
\* a crash loses a journal (undo.go unwind, record.go, reset.go recordAfterReset).
THEOREM LinksStayKnown ==
  ASSUME NamesApart, NamesDiffer
  PROVE  Spec => []EveryLinkKnown
<1>1. IInv /\ LinkInv => EveryLinkKnown
  <2> SUFFICES ASSUME IInv, LinkInv, phase = "idle", spent.crashes = 0,
                      NEW t \in Target, SrcLink(fs, t)
               PROVE  RecordedLink(fs, Baseline, t)
    BY DEF EveryLinkKnown, SrcLink
  <2>1. Named(fs, Baseline, t)
    BY DEF LinkInv, AllNamed
  <2>2. fs[t] \in Node
    BY StageFacts DEF Tree
  <2> QED BY <2>1, <2>2 DEF Named, SrcLink, IsLink, Symlinks, RecordedLink, Node, LinkTo
<1> QED BY <1>1, InitIInv, NextIInv, InitRecordFits, NextRecordFits, InitTree, NextTree, NextOnce,
           InitLinks, NextLinks, PTL DEF Spec
=============================================================================
