------------------------------- MODULE LayatFS -------------------------------
(***************************************************************************)
(* The tree under a placement root, and the calls of Go's os package that  *)
(* internal/engine makes on it.  A path is the sequence of its components  *)
(* below the root; a tree is a function from every path of the instance to *)
(* a node, and a path where nothing exists holds Absent.  The target of a  *)
(* symlink is never followed for writing: sources are read-only store      *)
(* paths, so a write below a symlinked ancestor fails.                     *)
(***************************************************************************)
EXTENDS Naturals, FiniteSets, SequencesExt

CONSTANTS
  Path,      \* the root-relative paths of the instance, closed under parents
  Src,       \* <src>/<subpath>: what an entry links to or copies
  DirSrc,    \* the sources that are directories (each holds one file, Leaf)
  Leaf,      \* the file name inside a directory source
  Foreign,   \* symlink destinations layat never writes
  User,      \* contents of files the user writes
  Partial,   \* content of a file copied half-way
  None       \* no value

ASSUME PathAssumption ==
  /\ Path \subseteq Seq(STRING) \ {<< >>}
  /\ \A p \in Path : Len(p) > 1 => Front(p) \in Path

ASSUME DataAssumption ==
  /\ DirSrc \subseteq Src
  /\ Src \cap Foreign = {} /\ Src \cap User = {} /\ Foreign \cap User = {}
  /\ Partial \notin Src \cup Foreign \cup User
  /\ None \notin Src \cup Foreign \cup User \cup {Partial}

Val == Src \cup Foreign \cup User \cup {Partial, None}
Node == [kind : {"absent", "dir", "link", "file"}, val : Val]
Tree == [Path -> Node]

Absent == [kind |-> "absent", val |-> None]
Dir == [kind |-> "dir", val |-> None]
LinkTo(d) == [kind |-> "link", val |-> d]
FileOf(d) == [kind |-> "file", val |-> d]

-----------------------------------------------------------------------------
(* The shape of paths. *)

Above == [p \in Path |-> {q \in Path : IsStrictPrefix(q, p)}]
Below == [p \in Path |-> {q \in Path : IsStrictPrefix(p, q)}]
At(p) == {p} \cup Below[p]

-----------------------------------------------------------------------------
(* Looking at the tree. *)

Exists(f, p) == f[p].kind # "absent"
IsLink(f, p) == f[p].kind = "link"
IsDir(f, p) == f[p].kind = "dir"
IsFile(f, p) == f[p].kind = "file"

\* os.Lstat(p) fails with ENOTDIR, which is not os.IsNotExist.
NotDirAbove(f, p) == \E q \in Above[p] : IsFile(f, q)

\* Every parent of p exists as a real directory.
InRealDir(f, p) == \A q \in Above[p] : IsDir(f, q)

\* os.MkdirAll(filepath.Dir(p)) succeeds and the result is writable.
CanMkdirs(f, p) == \A q \in Above[p] : f[q].kind \in {"absent", "dir"}

EmptyDir(f, p) == IsDir(f, p) /\ \A q \in Below[p] : ~Exists(f, q)

-----------------------------------------------------------------------------
(* Changing the tree. *)

Put(f, p, n) == [f EXCEPT ![p] = n]

Mkdirs(f, p) ==
  [q \in Path |-> IF q \in Above[p] /\ ~Exists(f, q) THEN Dir ELSE f[q]]

\* os.RemoveAll
Clear(f, p) == [q \in Path |-> IF q \in At(p) THEN Absent ELSE f[q]]

\* os.Remove: a file, a link or an empty directory.
CanRemove(f, p) == Exists(f, p) /\ (IsDir(f, p) => EmptyDir(f, p))

\* Where the content of r came from when p was renamed to q.
Rebase(p, q, r) == p \o SubSeq(r, Len(q) + 1, Len(r))

CanRename(f, p, q) ==
  /\ Exists(f, p)
  /\ InRealDir(f, q)
  /\ \/ ~Exists(f, q)
     \/ IsDir(f, p) /\ EmptyDir(f, q)
     \/ ~IsDir(f, p) /\ Exists(f, q) /\ ~IsDir(f, q)

Rename(f, p, q) ==
  [r \in Path |->
     IF r \in At(q) /\ Rebase(p, q, r) \in Path THEN f[Rebase(p, q, r)]
     ELSE IF r \in At(p) \cup At(q) THEN Absent
     ELSE f[r]]

-----------------------------------------------------------------------------
(* copyTree(s, p): a file becomes one writable file, a directory becomes a  *)
(* directory with its leaf.  BeginCopy is the tree after the first write.   *)

LeafOf(p) == Append(p, Leaf)

CanCopy(f, s, p) ==
  IF s \in DirSrc
  THEN f[p].kind \in {"absent", "dir"} /\ ~IsDir(f, LeafOf(p))
  ELSE f[p].kind \in {"absent", "file"}

BeginCopy(f, s, p) ==
  IF s \in DirSrc THEN Put(f, p, Dir) ELSE Put(f, p, FileOf(Partial))

EndCopy(f, s, p) ==
  IF s \in DirSrc THEN Put(f, LeafOf(p), FileOf(s)) ELSE Put(f, p, FileOf(s))

\* p holds a complete copy of s.
HoldsCopy(f, s, p) ==
  IF s \in DirSrc THEN IsDir(f, p) /\ f[LeafOf(p)] = FileOf(s)
                  ELSE f[p] = FileOf(s)
=============================================================================
