---------------------------- MODULE FileTreeProofs ----------------------------
(***************************************************************************)
(* Proofs about FileTree, for every set of names, addresses and images and *)
(* every nesting of calls.  IInv, the conjunction of the type invariant,   *)
(* the shape of the tree and the frames' agreement with it, is inductive;  *)
(* the invariants and CacheOnlyGrows follow from it.                       *)
(***************************************************************************)
EXTENDS FileTree, SequenceTheorems, WellFoundedInduction, TLAPS

-----------------------------------------------------------------------------
(* Paths *)

\* A child's path is never the root's, and its parent is the directory.
LEMMA ChildOfPath ==
  ASSUME NEW p \in Path, NEW n \in Name
  PROVE  /\ Append(p, n) \in Path
         /\ Append(p, n) # ROOT_PATH
         /\ Append(p, n) # p
         /\ Append(p, n)[Len(Append(p, n))] = n
         /\ Parent(Append(p, n)) = p
<1> DEFINE c == Append(p, n)
<1>1. /\ p \in Seq(Name) /\ c \in Seq(Name) /\ c # << >> /\ Len(c) = Len(p) + 1
      /\ \A i \in 1 .. Len(p) : c[i] = p[i]
      /\ c[Len(p) + 1] = n
      /\ Len(p) \in Nat
  BY AppendProperties, LenProperties DEF Path
<1> HIDE DEF c
<1>2. Parent(c) = SubSeq(c, 1, Len(p))
  BY <1>1 DEF Parent
<1>3. /\ SubSeq(c, 1, Len(p)) \in Seq(Name)
      /\ Len(SubSeq(c, 1, Len(p))) = Len(p)
      /\ \A i \in 1 .. Len(p) : SubSeq(c, 1, Len(p))[i] = c[i]
  <2>1. \A i \in 1 .. Len(p) : c[i] \in Name
    BY <1>1, ElementOfSeq
  <2> QED BY <1>1, <2>1, SubSeqProperties
<1>4. SubSeq(c, 1, Len(p)) = p
  BY <1>1, <1>3, SeqEqual
<1>5. c \in Path /\ c # ROOT_PATH /\ c # p /\ c[Len(c)] = n /\ Parent(c) = p
  BY <1>1, <1>2, <1>4 DEF ROOT_PATH, Path
<1> QED BY <1>5 DEF c

\* The prefixes of a path, their lengths and parents.
LEMMA PrefixOfPath ==
  ASSUME NEW t \in Path, NEW k \in 1 .. Len(t)
  PROVE  /\ SubSeq(t, 1, k) \in Path
         /\ SubSeq(t, 1, k) # ROOT_PATH
         /\ Parent(SubSeq(t, 1, k)) = SubSeq(t, 1, k - 1)
<1> DEFINE s == SubSeq(t, 1, k)
<1>1. t \in Seq(Name) /\ Len(t) \in Nat /\ \A i \in 1 .. Len(t) : t[i] \in Name
  BY LenProperties, ElementOfSeq DEF Path
<1>2. /\ s \in Seq(Name) /\ Len(s) = k
      /\ \A i \in 1 .. k : s[i] = t[i]
  BY <1>1, SubSeqProperties
<1>3. /\ SubSeq(t, 1, k - 1) \in Seq(Name) /\ Len(SubSeq(t, 1, k - 1)) = k - 1
      /\ \A i \in 1 .. k - 1 : SubSeq(t, 1, k - 1)[i] = t[i]
  BY <1>1, SubSeqProperties
<1> HIDE DEF s
<1>4. /\ SubSeq(s, 1, k - 1) \in Seq(Name) /\ Len(SubSeq(s, 1, k - 1)) = k - 1
      /\ \A i \in 1 .. k - 1 : SubSeq(s, 1, k - 1)[i] = s[i]
  <2>1. \A i \in 1 .. k - 1 : s[i] \in Name
    BY <1>1, <1>2
  <2> QED BY <1>1, <2>1, SubSeqProperties
<1>5. SubSeq(s, 1, k - 1) = SubSeq(t, 1, k - 1)
  BY <1>1, <1>2, <1>3, <1>4, SeqEqual
<1>6. s # << >>
  BY <1>2, EmptySeq
<1> QED BY <1>2, <1>5, <1>6 DEF Parent, ROOT_PATH, Path, s

\* The shortest prefix of a path is the root, the longest the path itself.
LEMMA WholeAndEmptyPrefix ==
  ASSUME NEW t \in Path
  PROVE  SubSeq(t, 1, 0) = ROOT_PATH /\ SubSeq(t, 1, Len(t)) = t
BY SubSeqEmpty, SubSeqFull DEF Path, ROOT_PATH

-----------------------------------------------------------------------------
(* Listings and the insertion of a directory *)

\* The entry that is left under a name of a listing is one of its entries.
LEMMA LastNamedIsEntry ==
  ASSUME NEW l \in Seq(DirEntry), NEW n, Named(l, n) # {}
  PROVE  LastNamed(l, n) \in DirEntry
<1> DEFINE D == {Len(l) - i : i \in Named(l, n)}
<1>1. Len(l) \in Nat /\ Named(l, n) \subseteq 1 .. Len(l)
  BY LenProperties DEF Named
<1>2. D \subseteq Nat /\ D # {}
  BY <1>1
<1>3. PICK d \in D : \A c \in D : ~(<<c, d>> \in OpToRel(<, Nat))
  BY <1>2, NatLessThanWellFounded, WFMin
<1>4. \A c \in D : ~(c < d)
  <2>1. \A c \in D : c \in Nat /\ d \in Nat
    BY <1>2
  <2> QED BY <1>3, <2>1, Zenon DEF OpToRel
<1>5. PICK i \in Named(l, n) : d = Len(l) - i
  OBVIOUS
<1>6. \A j \in Named(l, n) : j <= i
  <2> SUFFICES ASSUME NEW j \in Named(l, n) PROVE j <= i
    OBVIOUS
  <2>1. ~(Len(l) - j < d)
    BY <1>4
  <2> QED BY <1>1, <1>5, <2>1
<1>7. (CHOOSE k \in Named(l, n) : \A j \in Named(l, n) : j <= k) \in 1 .. Len(l)
  BY <1>1, <1>6
<1> QED BY <1>7, ElementOfSeq DEF LastNamed

\* A child's path names an entry, and it is cached as a sparse directory or a
\* file, never as a loaded directory.
LEMMA ChildObject ==
  ASSUME NEW p \in Path, NEW l \in Seq(DirEntry), NEW q \in ChildPaths(p, l)
  PROVE  /\ q \in Path /\ q # ROOT_PATH /\ q # p /\ Parent(q) = p
         /\ DirEntryObject(LastNamed(l, q[Len(q)])) \in FileObject
         /\ DirEntryObject(LastNamed(l, q[Len(q)])).kind # "LoadedDir"
<1>1. PICK i \in 1 .. Len(l) : q = Append(p, l[i].name)
  BY DEF ChildPaths
<1>2. l[i] \in DirEntry /\ l[i].name \in Name
  <2>1. l[i] \in DirEntry
    BY ElementOfSeq
  <2> QED BY <2>1 DEF DirEntry
<1>3. /\ q \in Path /\ q # ROOT_PATH /\ q # p /\ Parent(q) = p
      /\ q[Len(q)] = l[i].name
  BY <1>1, <1>2, ChildOfPath
<1>4. LastNamed(l, q[Len(q)]) \in DirEntry
  BY <1>3, LastNamedIsEntry DEF Named
<1> QED BY <1>3, <1>4 DEF DirEntryObject, SparseDir, File, FileObject

(***************************************************************************)
(* What TypeOK and TreeShape say of the tree alone.                        *)
(***************************************************************************)
ShapeOf(t) ==
  /\ DOMAIN t \subseteq Path
  /\ \A p \in DOMAIN t : t[p] \in FileObject
  /\ \A p \in DOMAIN t : p # ROOT_PATH => IsLoaded(t, Parent(p))
  /\ \A p \in DOMAIN t :
       t[p].kind = "LoadedDir" => ChildPaths(p, t[p].val) \subseteq DOMAIN t

(***************************************************************************)
(* Inserting a directory that is not loaded yet under a loaded parent      *)
(* keeps the shape and takes nothing away: none of its children can have   *)
(* been cached before, for their parent was not loaded.                    *)
(***************************************************************************)
LEMMA InsertKeepsShape ==
  ASSUME NEW t, ShapeOf(t), NEW p \in Path, NEW l \in Seq(DirEntry),
         p \in DOMAIN t => t[p].kind = "SparseDir",
         p # ROOT_PATH => IsLoaded(t, Parent(p))
  PROVE  /\ ShapeOf(InsertDirectory(t, p, l))
         /\ Grows(t, InsertDirectory(t, p, l))
         /\ IsLoaded(InsertDirectory(t, p, l), p)
         /\ \A q \in DOMAIN t \ {p} : InsertDirectory(t, p, l)[q] = t[q]
<1> DEFINE u == InsertDirectory(t, p, l)
<1>1. /\ DOMAIN u = DOMAIN t \cup ChildPaths(p, l) \cup {p}
      /\ u[p] = LoadedDir(l)
      /\ \A q \in DOMAIN u : q # p =>
           u[q] = IF q \in ChildPaths(p, l)
                    THEN DirEntryObject(LastNamed(l, q[Len(q)])) ELSE t[q]
  BY DEF InsertDirectory, InsertChildren
<1> HIDE DEF u
<1>2. /\ LoadedDir(l) \in FileObject
      /\ LoadedDir(l).kind = "LoadedDir" /\ LoadedDir(l).val = l
  BY DEF LoadedDir, FileObject
<1>3. ~IsLoaded(t, p)
  BY DEF IsLoaded
<1>4. ChildPaths(p, l) \cap DOMAIN t = {}
  <2> SUFFICES ASSUME NEW q \in ChildPaths(p, l), q \in DOMAIN t PROVE FALSE
    OBVIOUS
  <2>1. q # ROOT_PATH /\ Parent(q) = p
    BY ChildObject
  <2> QED BY <1>3, <2>1 DEF ShapeOf
<1>5. Grows(t, u) /\ \A q \in DOMAIN t \ {p} : u[q] = t[q]
  BY <1>1, <1>4 DEF Grows
<1>6. \A q : IsLoaded(t, q) => IsLoaded(u, q)
  BY <1>5 DEF Grows, IsLoaded
<1>7. IsLoaded(u, p)
  BY <1>1, <1>2 DEF IsLoaded
<1>8. DOMAIN u \subseteq Path /\ \A q \in DOMAIN u : u[q] \in FileObject
  <2> SUFFICES ASSUME NEW q \in DOMAIN u PROVE q \in Path /\ u[q] \in FileObject
    OBVIOUS
  <2>1. CASE q = p
    BY <1>1, <1>2, <2>1
  <2>2. CASE q # p /\ q \in ChildPaths(p, l)
    BY <1>1, <2>2, ChildObject
  <2>3. CASE q # p /\ q \notin ChildPaths(p, l)
    BY <1>1, <2>3 DEF ShapeOf
  <2> QED BY <2>1, <2>2, <2>3
<1>9. ASSUME NEW q \in DOMAIN u, q # ROOT_PATH
      PROVE  IsLoaded(u, Parent(q))
  <2>1. CASE q = p
    BY <1>6, <1>9, <2>1
  <2>2. CASE q \in ChildPaths(p, l)
    BY <1>7, <2>2, ChildObject
  <2>3. CASE q \in DOMAIN t
    BY <1>6, <1>9, <2>3 DEF ShapeOf
  <2> QED BY <1>1, <2>1, <2>2, <2>3
<1>10. ASSUME NEW q \in DOMAIN u, u[q].kind = "LoadedDir"
       PROVE  ChildPaths(q, u[q].val) \subseteq DOMAIN u
  <2>1. CASE q = p
    BY <1>1, <1>2, <2>1
  <2>2. CASE q # p /\ q \in ChildPaths(p, l)
    BY <1>1, <1>10, <2>2, ChildObject
  <2>3. CASE q # p /\ q \notin ChildPaths(p, l)
    BY <1>1, <1>10, <2>3 DEF ShapeOf
  <2> QED BY <2>1, <2>2, <2>3
<1>11. ShapeOf(u)
  BY <1>8, <1>9, <1>10 DEF ShapeOf
<1> QED BY <1>5, <1>7, <1>11 DEF u

-----------------------------------------------------------------------------
(* Frames *)

\* A frame that agrees with a tree agrees with every tree it grows into.
LEMMA GroundedGrows ==
  ASSUME NEW t, NEW u, Grows(t, u)
  PROVE  Grounded(t) \subseteq Grounded(u)
<1>1. \A p : IsLoaded(t, p) => IsLoaded(u, p)
  BY DEF Grows, IsLoaded
<1>2. \A p : p \in DOMAIN t /\ t[p].kind = "File" => p \in DOMAIN u /\ u[p].kind = "File"
  BY DEF Grows
<1>3. \A p \in DOMAIN t : p \in DOMAIN u
  BY DEF Grows
<1> QED BY <1>1, <1>2, <1>3 DEF Grounded

\* The innermost frame and the frames below it, and the three ways in which a
\* step changes the stack.
LEMMA StackSteps ==
  ASSUME NEW G, stack \in Seq(G)
  PROVE  /\ stack # << >> => Len(stack) \in Nat \ {0} /\ Top \in G
         /\ Caller \in Seq(G)
         /\ \A f \in G : stack # << >> /\ SetTop(f) => stack' \in Seq(G)
         /\ \A f \in G : stack' = Append(stack, f) => stack' \in Seq(G)
         /\ << >> \in Seq(G)
<1>1. /\ Len(stack) \in Nat
      /\ stack # << >> => Len(stack) \in Nat \ {0}
      /\ \A i \in 1 .. Len(stack) : stack[i] \in G
      /\ << >> \in Seq(G)
  BY LenProperties, EmptySeq, ElementOfSeq
<1>2. stack # << >> => Top \in G
  BY <1>1 DEF Top
<1>3. Caller \in Seq(G)
  <2>1. \A i \in 1 .. Len(stack) - 1 : stack[i] \in G
    BY <1>1
  <2> QED BY <1>1, <2>1, SubSeqProperties DEF Caller
<1>4. ASSUME NEW f \in G, stack # << >>, SetTop(f)
      PROVE  stack' \in Seq(G)
  <2>1. Len(stack) \in 1 .. Len(stack)
    BY <1>1, <1>4
  <2> QED BY <1>4, <2>1, ExceptSeq DEF SetTop
<1>5. \A f \in G : stack' = Append(stack, f) => stack' \in Seq(G)
  BY AppendProperties
<1> QED BY <1>1, <1>2, <1>3, <1>4, <1>5

\* The ways in which a step changes the innermost frame.
LEMMA LevelUp ==
  ASSUME NEW t, NEW f \in Grounded(t), f.pc = "populate",
         f.level <= Len(f.target), IsLoaded(t, SubSeq(f.target, 1, f.level))
  PROVE  [f EXCEPT !.level = @ + 1] \in Grounded(t)
<1> DEFINE g == [f EXCEPT !.level = @ + 1]
<1>1. f \in Frame /\ Len(f.target) \in Nat /\ f.target \in Path /\ f.level \in Nat \ {0}
  BY LenProperties DEF Grounded, Frame, Path
<1>2. /\ g \in Frame /\ g.op = f.op /\ g.pc = f.pc /\ g.arg = f.arg
      /\ g.target = f.target /\ g.level = f.level + 1
  BY <1>1 DEF Frame
<1> HIDE DEF g
<1>3. \A k \in 0 .. f.level : IsLoaded(t, SubSeq(f.target, 1, k))
  <2>1. \A k \in 0 .. f.level - 1 : IsLoaded(t, SubSeq(f.target, 1, k))
    BY DEF Grounded
  <2> QED BY <1>1, <2>1
<1>4. f.op = "get_file" /\ g.level > Len(f.target) => f.arg \in DOMAIN t
  <2> SUFFICES ASSUME f.op = "get_file", g.level > Len(f.target)
               PROVE  f.arg \in DOMAIN t
    OBVIOUS
  <2>1. f.level = Len(f.target) /\ f.target = f.arg
    BY <1>1, <1>2 DEF Grounded
  <2>2. SubSeq(f.target, 1, f.level) = f.arg
    BY <1>1, <2>1, WholeAndEmptyPrefix
  <2> QED BY <2>2 DEF IsLoaded
<1>5. g \in Grounded(t)
  <2>1. \A k \in 0 .. g.level - 1 : IsLoaded(t, SubSeq(g.target, 1, k))
    BY <1>1, <1>2, <1>3
  <2> QED BY <1>1, <1>2, <1>4, <2>1 DEF Grounded
<1> QED BY <1>5 DEF g

\* populate_path ends at a target that is cached.
LEMMA LevelEnd ==
  ASSUME NEW t, NEW f \in Grounded(t), f.pc = "populate", f.target \in DOMAIN t
  PROVE  [f EXCEPT !.level = Len(f.target) + 1] \in Grounded(t)
<1> DEFINE g == [f EXCEPT !.level = Len(f.target) + 1]
<1>1. f \in Frame /\ Len(f.target) \in Nat
  BY LenProperties DEF Grounded, Frame, Path
<1>2. /\ g \in Frame /\ g.op = f.op /\ g.pc = f.pc /\ g.arg = f.arg
      /\ g.target = f.target /\ g.level = Len(f.target) + 1
  BY <1>1 DEF Frame
<1> HIDE DEF g
<1>3. g \in Grounded(t)
  BY <1>1, <1>2 DEF Grounded
<1> QED BY <1>3 DEF g

\* get_file begins to write a file.
LEMMA Opens ==
  ASSUME NEW t, NEW f \in Grounded(t), NEW n \in Nat, f.op = "get_file",
         f.level > Len(f.target), f.arg \in DOMAIN t, t[f.arg].kind = "File"
  PROVE  [f EXCEPT !.pc = "write", !.left = n] \in Grounded(t)
<1> DEFINE g == [f EXCEPT !.pc = "write", !.left = n]
<1>1. f \in Frame
  BY DEF Grounded
<1>2. /\ g \in Frame /\ g.op = f.op /\ g.pc = "write" /\ g.arg = f.arg
      /\ g.target = f.target /\ g.level = f.level
  BY <1>1 DEF Frame
<1> HIDE DEF g
<1>3. g \in Grounded(t)
  BY <1>2 DEF Grounded
<1> QED BY <1>3 DEF g

\* get_file has written a region.
LEMMA RegionWritten ==
  ASSUME NEW t, NEW f \in Grounded(t), NEW n \in Nat
  PROVE  [f EXCEPT !.left = n] \in Grounded(t)
<1> DEFINE g == [f EXCEPT !.left = n]
<1>1. f \in Frame
  BY DEF Grounded
<1>2. /\ g \in Frame /\ g.op = f.op /\ g.pc = f.pc /\ g.arg = f.arg
      /\ g.target = f.target /\ g.level = f.level
  BY <1>1 DEF Frame
<1> HIDE DEF g
<1>3. g \in Grounded(t)
  BY <1>2 DEF Grounded
<1> QED BY <1>3 DEF g

\* entries goes back to its scan.
LEMMA Scans ==
  ASSUME NEW t, NEW f \in Grounded(t), f.op = "entries"
  PROVE  [f EXCEPT !.pc = "scan"] \in Grounded(t)
<1> DEFINE g == [f EXCEPT !.pc = "scan"]
<1>1. f \in Frame
  BY DEF Grounded
<1>2. g \in Frame /\ g.op = "entries" /\ g.pc = "scan"
  BY <1>1 DEF Frame
<1> HIDE DEF g
<1>3. g \in Grounded(t)
  BY <1>2 DEF Grounded
<1> QED BY <1>3 DEF g

\* entries takes up another path.
LEMMA Targets ==
  ASSUME NEW t, IsLoaded(t, ROOT_PATH), NEW a \in Path, NEW p \in Path,
         NEW rest \in SUBSET Path
  PROVE  [op |-> "entries", arg |-> a, pc |-> "populate", target |-> p,
          level |-> 1, todo |-> rest, left |-> 0] \in Grounded(t)
<1> DEFINE g == [op |-> "entries", arg |-> a, pc |-> "populate", target |-> p,
                 level |-> 1, todo |-> rest, left |-> 0]
<1>1. /\ g \in Frame /\ g.op = "entries" /\ g.pc = "populate"
      /\ g.target = p /\ g.level = 1
  BY DEF Frame
<1> HIDE DEF g
<1>2. \A k \in 0 .. g.level - 1 : IsLoaded(t, SubSeq(g.target, 1, k))
  <2>1. SubSeq(g.target, 1, 0) = ROOT_PATH /\ \A k \in 0 .. g.level - 1 : k = 0
    BY <1>1, WholeAndEmptyPrefix
  <2> QED BY <2>1
<1>3. g \in Grounded(t)
  BY <1>1, <1>2 DEF Grounded
<1> QED BY <1>3 DEF g

\* The first frame of a call.
LEMMA Begins ==
  ASSUME NEW t, NEW f, IsLoaded(t, ROOT_PATH), NEW p \in Path,
         \/ f = [op |-> "get_file", arg |-> p, pc |-> "populate",
                 target |-> p, level |-> 1, todo |-> {}, left |-> 0]
         \/ f = [op |-> "entries", arg |-> p, pc |-> "scan",
                 target |-> << >>, level |-> 1, todo |-> {}, left |-> 0]
  PROVE  f \in Grounded(t)
<1>1. << >> \in Path /\ Len(p) \in Nat
  BY EmptySeq, LenProperties DEF Path
<1>2. CASE f.op = "get_file"
  <2>1. f \in Frame
    BY <1>2 DEF Frame
  <2>2. f.pc = "populate" /\ f.target = p /\ f.arg = p /\ f.level = 1
    BY <1>2
  <2>3. \A k \in 0 .. f.level - 1 : IsLoaded(t, SubSeq(f.target, 1, k))
    <3>1. SubSeq(f.target, 1, 0) = ROOT_PATH /\ \A k \in 0 .. f.level - 1 : k = 0
      BY <2>2, WholeAndEmptyPrefix
    <3> QED BY <3>1
  <2>4. f.level > Len(f.target) => f.arg \in DOMAIN t
    <3>1. ASSUME f.level > Len(f.target) PROVE p = ROOT_PATH
      <4>1. Len(p) = 0
        BY <1>1, <2>2, <3>1
      <4> QED BY <4>1, EmptySeq DEF Path, ROOT_PATH
    <3> QED BY <2>2, <3>1 DEF IsLoaded
  <2> QED BY <1>2, <2>1, <2>2, <2>3, <2>4 DEF Grounded
<1>3. CASE f.op = "entries"
  <2>1. f \in Frame /\ f.pc = "scan"
    BY <1>1, <1>3 DEF Frame
  <2> QED BY <1>3, <2>1 DEF Grounded
<1> QED BY <1>2, <1>3

-----------------------------------------------------------------------------
(* Steps that leave the tree alone *)

\* The invariant says so of the tree.
LEMMA ShapeOfTree == IInv => ShapeOf(tree)
BY DEF IInv, TypeOK, TreeShape, ShapeOf

\* The stack may change to any calls that agree with the tree; the program may
\* end, but not begin again.
LEMMA LeavesTree ==
  ASSUME IInv, UNCHANGED <<image, tree, faults>>,
         phase' \in {phase, "failed", "panicked"}, stack' \in Seq(Grounded(tree))
  PROVE  IInv'
<1>1. stack' \in Seq(Frame)
  <2>1. Grounded(tree) \subseteq Frame
    BY DEF Grounded
  <2> QED BY <2>1, SeqMonotonic
<1>2. TypeOK'
  BY <1>1 DEF IInv, TypeOK
<1>3. TreeShape'
  BY DEF IInv, TreeShape, IsLoaded, ChildPaths
<1>4. CallsAreGrounded'
  BY DEF CallsAreGrounded, Grounded, IsLoaded
<1>5. StartsEmpty'
  BY DEF IInv, StartsEmpty
<1> QED BY <1>2, <1>3, <1>4, <1>5 DEF IInv

\* A panic leaves no calls.
LEMMA PanicKeepsIInv == IInv /\ Panic => IInv'
<1> SUFFICES ASSUME IInv, Panic PROVE IInv'
  OBVIOUS
<1>1. stack' \in Seq(Grounded(tree))
  BY EmptySeq DEF Panic
<1> QED BY <1>1, LeavesTree DEF Panic

\* A call that returns leaves those below it.
LEMMA ReturnKeepsIInv ==
  ASSUME IInv, NEW out, Return(out)
  PROVE  IInv'
<1>1. stack' \in Seq(Grounded(tree))
  BY StackSteps DEF IInv, CallsAreGrounded, Return
<1> QED BY <1>1, LeavesTree DEF Return

\* A call that advances keeps its place.
LEMMA SetTopKeepsIInv ==
  ASSUME IInv, stack # << >>, NEW f \in Grounded(tree), SetTop(f),
         UNCHANGED <<image, phase, tree, faults>>
  PROVE  IInv'
<1>1. stack' \in Seq(Grounded(tree))
  BY StackSteps DEF IInv, CallsAreGrounded
<1> QED BY <1>1, LeavesTree

\* The innermost frame of a call that runs.
LEMMA TopIsGrounded ==
  ASSUME IInv, stack # << >>
  PROVE  Top \in Grounded(tree) /\ Top \in Frame
BY StackSteps DEF IInv, CallsAreGrounded, Grounded

\* The path that populate_path looks up and its parent.
LEMMA StemIsGrounded ==
  ASSUME IInv, Populating
  PROVE  /\ Stem \in Path /\ Stem # ROOT_PATH
         /\ Parent(Stem) = SubSeq(Top.target, 1, Top.level - 1)
         /\ IsLoaded(tree, Parent(Stem))
<1>1. /\ Top \in Grounded(tree) /\ Top.pc = "populate" /\ Top.level <= Len(Top.target)
      /\ Top.target \in Path /\ Top.level \in Nat \ {0} /\ Len(Top.target) \in Nat
  BY TopIsGrounded, LenProperties DEF Populating, Frame, Path
<1>2. Top.level \in 1 .. Len(Top.target)
  BY <1>1
<1>3. /\ Stem \in Path /\ Stem # ROOT_PATH
      /\ Parent(Stem) = SubSeq(Top.target, 1, Top.level - 1)
  BY <1>1, <1>2, PrefixOfPath DEF Stem
<1>4. IsLoaded(tree, SubSeq(Top.target, 1, Top.level - 1))
  <2>1. Top.level - 1 \in 0 .. Top.level - 1
    BY <1>1
  <2> QED BY <1>1, <2>1 DEF Grounded
<1> QED BY <1>3, <1>4

-----------------------------------------------------------------------------
(* The inductive invariant *)

\* An image gives every address a listing.
LEMMA ImageHasListings ==
  ASSUME IInv, NEW a \in Addr
  PROVE  image.listing[a] \in Seq(DirEntry)
BY DEF IInv, TypeOK, Image

\* The invariant holds before parse.
LEMMA InitIInv == Init => IInv
<1> SUFFICES ASSUME Init PROVE IInv
  OBVIOUS
<1>1. tree = EmptyTree /\ DOMAIN tree = {} /\ stack = << >> /\ phase = "new"
  BY DEF Init, EmptyTree
<1>2. TypeOK
  BY <1>1, ImagesAssumption, EmptySeq DEF Init, TypeOK
<1>3. TreeShape /\ StartsEmpty
  BY <1>1 DEF TreeShape, StartsEmpty
<1>4. CallsAreGrounded
  BY <1>1, EmptySeq DEF CallsAreGrounded
<1> QED BY <1>2, <1>3, <1>4 DEF IInv

\* parse inserts the root directory into an empty tree.
LEMMA ParseDiskKeepsIInv == IInv /\ ParseDisk => IInv' /\ Grows(tree, tree')
<1> SUFFICES ASSUME IInv, ParseDisk PROVE IInv' /\ Grows(tree, tree')
  OBVIOUS
<1> DEFINE l == image.listing[image.root]
<1>1. tree' = InsertDirectory(tree, ROOT_PATH, l) /\ DOMAIN tree = {}
  BY DEF ParseDisk, IInv, StartsEmpty, EmptyTree
<1>2. l \in Seq(DirEntry) /\ image.root \in Addr
  BY ImageHasListings DEF IInv, TypeOK, Image
<1>3. ROOT_PATH \in Path
  BY EmptySeq DEF ROOT_PATH, Path
<1> HIDE DEF l
<1>4. /\ ShapeOf(tree') /\ Grows(tree, tree')
      /\ IsLoaded(tree', ROOT_PATH)
  BY <1>1, <1>2, <1>3, ShapeOfTree, InsertKeepsShape
<1>5. /\ TypeOK' /\ TreeShape' /\ StartsEmpty'
  BY <1>4 DEF ParseDisk, IInv, TypeOK, TreeShape, StartsEmpty, ShapeOf, IsLoaded
<1>6. CallsAreGrounded'
  <2>1. stack' \in Seq(Grounded(tree'))
    BY <1>4, GroundedGrows, SeqMonotonic DEF ParseDisk, IInv, CallsAreGrounded
  <2> QED BY <2>1 DEF CallsAreGrounded, Grounded, IsLoaded
<1> QED BY <1>4, <1>5, <1>6 DEF IInv

\* populate_path inserts the directory it stands before.
LEMMA PopulateDirectoryKeepsIInv ==
  IInv /\ PopulateDirectory => IInv' /\ Grows(tree, tree')
<1> SUFFICES ASSUME IInv, PopulateDirectory PROVE IInv' /\ Grows(tree, tree')
  OBVIOUS
<1>1. Populating /\ Cached("SparseDir")
  BY DEF PopulateDirectory, AtDirectory
<1>2. CASE Borrowed
  <2>1. Panic
    BY <1>2 DEF PopulateDirectory
  <2> QED BY <2>1, PanicKeepsIInv DEF Panic, Grows
<1>3. CASE ~Borrowed
  <2> DEFINE l == image.listing[tree[Stem].val.address]
  <2>1. /\ tree' = InsertDirectory(tree, Stem, l)
        /\ NextLevel /\ UNCHANGED <<image, phase, faults>>
    BY <1>3 DEF PopulateDirectory
  <2>2. Stem \in DOMAIN tree /\ tree[Stem].kind = "SparseDir" /\ Stem \in Path
    BY <1>1, StemIsGrounded DEF Cached
  <2>3. l \in Seq(DirEntry)
    <3>1. tree[Stem] \in FileObject
      BY <2>2 DEF IInv, TypeOK
    <3>2. tree[Stem].val \in DirEntry
      BY <2>2, <3>1 DEF FileObject
    <3>3. tree[Stem].val.address \in Addr
      BY <3>2 DEF DirEntry
    <3> QED BY <3>3, ImageHasListings
  <2> HIDE DEF l
  <2>4. /\ ShapeOf(tree') /\ Grows(tree, tree') /\ IsLoaded(tree', Stem)
    BY <1>1, <2>1, <2>2, <2>3, ShapeOfTree, StemIsGrounded, InsertKeepsShape
  <2>5. stack' \in Seq(Grounded(tree'))
    <3>1. /\ stack \in Seq(Grounded(tree')) /\ stack # << >>
          /\ Top \in Grounded(tree') /\ Top.pc = "populate"
          /\ Top.level <= Len(Top.target)
      BY <1>1, <2>4, GroundedGrows, SeqMonotonic, StackSteps
         DEF IInv, CallsAreGrounded, Populating
    <3>2. [Top EXCEPT !.level = @ + 1] \in Grounded(tree')
      BY <2>4, <3>1, LevelUp DEF Stem
    <3> QED BY <2>1, <3>1, <3>2, StackSteps DEF NextLevel
  <2>6. CallsAreGrounded'
    BY <2>5 DEF CallsAreGrounded, Grounded, IsLoaded
  <2>7. stack' \in Seq(Frame)
    <3>1. Grounded(tree') \subseteq Frame
      BY DEF Grounded
    <3> QED BY <2>5, <3>1, SeqMonotonic
  <2>8. IsLoaded(tree, ROOT_PATH) => IsLoaded(tree', ROOT_PATH)
    BY <2>4 DEF Grows, IsLoaded
  <2>9. TypeOK' /\ TreeShape' /\ StartsEmpty'
    BY <1>1, <2>1, <2>4, <2>7, <2>8
       DEF IInv, TypeOK, TreeShape, StartsEmpty, ShapeOf, IsLoaded, Populating
  <2> QED BY <2>4, <2>6, <2>9 DEF IInv
<1> QED BY <1>2, <1>3

\* A call begins under a loaded root.
LEMMA CallKeepsIInv ==
  ASSUME IInv, NEW p \in Path, CallGetFile(p) \/ CallEntries(p)
  PROVE  IInv' /\ tree' = tree
<1>2. PICK f : /\ stack' = Append(stack, f)
               /\ \/ f = [op |-> "get_file", arg |-> p, pc |-> "populate",
                          target |-> p, level |-> 1, todo |-> {}, left |-> 0]
                  \/ f = [op |-> "entries", arg |-> p, pc |-> "scan",
                          target |-> << >>, level |-> 1, todo |-> {}, left |-> 0]
  BY DEF CallGetFile, CallEntries
<1>3. phase = "open" /\ UNCHANGED <<image, phase, tree, faults>>
  BY DEF CallGetFile, CallEntries, MayCall
<1>4. f \in Grounded(tree)
  BY <1>2, <1>3, Begins DEF IInv, TreeShape
<1>5. stack' \in Seq(Grounded(tree))
  BY <1>2, <1>4, StackSteps DEF IInv, CallsAreGrounded
<1> QED BY <1>3, <1>5, LeavesTree

\* The other steps of populate_path.
LEMMA PopulateKeepsIInv ==
  IInv /\ PopulatePath => IInv' /\ Grows(tree, tree')
<1> SUFFICES ASSUME IInv, PopulatePath PROVE IInv' /\ Grows(tree, tree')
  OBVIOUS
<1>1. /\ Populating /\ stack # << >>
      /\ Top \in Grounded(tree) /\ Top \in Frame /\ Top.pc = "populate"
      /\ Top.level <= Len(Top.target) /\ Top.target \in Path
  BY TopIsGrounded
     DEF PopulatePath, Populating, PopulateCached, PopulateFile, PopulateThroughFile,
         StopsAtFile, PopulateMissing, PopulateDirectory, PopulateUnreadable,
         AtDirectory, Frame
<1>2. Grows(tree, tree)
  BY DEF Grows
<1>3. CASE PopulateCached
  <2>1. [Top EXCEPT !.level = @ + 1] \in Grounded(tree)
    BY <1>1, <1>3, LevelUp DEF PopulateCached, Cached, IsLoaded, Stem
  <2> QED BY <1>1, <1>2, <1>3, <2>1, SetTopKeepsIInv DEF PopulateCached, NextLevel
<1>4. CASE PopulateFile
  <2>1. [Top EXCEPT !.level = Len(Top.target) + 1] \in Grounded(tree)
    BY <1>1, <1>4, LevelEnd DEF PopulateFile, StopsAtFile, Cached
  <2> QED BY <1>1, <1>2, <1>4, <2>1, SetTopKeepsIInv DEF PopulateFile, PopulateOk
<1>5. CASE PopulateThroughFile
  BY <1>2, <1>5, ReturnKeepsIInv DEF PopulateThroughFile, Return
<1>6. CASE PopulateMissing
  BY <1>2, <1>6, ReturnKeepsIInv, PanicKeepsIInv DEF PopulateMissing, Return, Panic
<1>7. CASE PopulateDirectory
  BY <1>7, PopulateDirectoryKeepsIInv
<1>8. CASE PopulateUnreadable
  BY <1>2, <1>8, ReturnKeepsIInv, PanicKeepsIInv DEF PopulateUnreadable, Return, Panic
<1> QED BY <1>3, <1>4, <1>5, <1>6, <1>7, <1>8 DEF PopulatePath

\* The steps of get_file after populate_path.
LEMMA GetFileKeepsIInv ==
  ASSUME IInv,
         OpenNotAFile \/ OpenFile \/ WriteRegion \/ WriteCutRegion \/ FinishFile
  PROVE  IInv' /\ tree' = tree
<1>1. CASE OpenNotAFile
  BY <1>1, ReturnKeepsIInv, PanicKeepsIInv DEF OpenNotAFile, Return, Panic
<1>2. CASE OpenFile
  <2> DEFINE extent == image.extent[tree[Top.arg].val.address]
  <2>1. /\ stack # << >> /\ Top \in Grounded(tree) /\ Top.op = "get_file"
        /\ Top.level > Len(Top.target)
        /\ Top.arg \in DOMAIN tree /\ tree[Top.arg].kind = "File"
    BY <1>2, TopIsGrounded DEF OpenFile, ReadyToOpen, Running, Populated, IsCachedFile
  <2>2. extent \in Nat \cup {NoExtent}
    <3>1. tree[Top.arg] \in FileObject
      BY <2>1 DEF IInv, TypeOK
    <3>2. tree[Top.arg].val \in DirEntry
      BY <2>1, <3>1 DEF FileObject
    <3>3. tree[Top.arg].val.address \in Addr
      BY <3>2 DEF DirEntry
    <3> QED BY <3>3 DEF IInv, TypeOK, Image
  <2>3. CASE extent = NoExtent
    BY <1>2, <2>3, ReturnKeepsIInv DEF OpenFile, Return
  <2>4. CASE extent # NoExtent
    <3>1. SetTop([Top EXCEPT !.pc = "write", !.left = extent])
          /\ UNCHANGED <<image, phase, tree, faults>>
      BY <1>2, <2>4 DEF OpenFile
    <3>2. extent \in Nat
      BY <2>2, <2>4
    <3> HIDE DEF extent
    <3>3. [Top EXCEPT !.pc = "write", !.left = extent] \in Grounded(tree)
      BY <2>1, <3>2, Opens
    <3> QED BY <2>1, <3>1, <3>3, SetTopKeepsIInv
  <2> QED BY <2>3, <2>4
<1>3. CASE WriteRegion
  <2>1. CASE Return(Outcome("StdError", Top.arg))
    BY <2>1, ReturnKeepsIInv DEF Return
  <2>2. CASE SetTop([Top EXCEPT !.left = @ - 1]) /\ UNCHANGED <<image, phase, tree, faults>>
    <3>1. stack # << >> /\ Top \in Grounded(tree) /\ Top \in Frame /\ Top.left > 0
      BY <1>3, TopIsGrounded DEF WriteRegion, Writing, Running
    <3>2. Top.left - 1 \in Nat
      BY <3>1 DEF Frame
    <3>3. [Top EXCEPT !.left = @ - 1] \in Grounded(tree)
      BY <3>1, <3>2, RegionWritten
    <3> QED BY <2>2, <3>1, <3>3, SetTopKeepsIInv
  <2> QED BY <1>3, <2>1, <2>2 DEF WriteRegion
<1>4. CASE WriteCutRegion
  BY <1>4, PanicKeepsIInv DEF WriteCutRegion, Panic
<1>5. CASE FinishFile
  BY <1>5, ReturnKeepsIInv DEF FinishFile, Return
<1> QED BY <1>1, <1>2, <1>3, <1>4, <1>5

\* The next path of a round is populated from the top.
LEMMA PopulateNextKeepsIInv ==
  ASSUME IInv, stack # << >>, phase = "open", NEW todo \in SUBSET Path,
         PopulateNext(todo), UNCHANGED <<image, phase, tree, faults>>
  PROVE  IInv'
<1>1. PICK p \in todo :
        SetTop([op |-> "entries", arg |-> Top.arg, pc |-> "populate",
                target |-> p, level |-> 1, todo |-> todo \ {p}, left |-> 0])
  BY DEF PopulateNext
<1>2. IsLoaded(tree, ROOT_PATH) /\ Top.arg \in Path
  BY TopIsGrounded DEF IInv, TreeShape, Frame
<1>3. [op |-> "entries", arg |-> Top.arg, pc |-> "populate", target |-> p,
       level |-> 1, todo |-> todo \ {p}, left |-> 0] \in Grounded(tree)
  BY <1>2, Targets
<1> QED BY <1>1, <1>3, SetTopKeepsIInv

\* The steps of entries around populate_path.
LEMMA EntriesKeepsIInv ==
  ASSUME IInv, ScanTree \/ NextSparse
  PROVE  IInv' /\ tree' = tree
<1>1. CASE ScanTree
  <2>1. CASE SparseEntries(Top.arg) = {}
    BY <1>1, <2>1, ReturnKeepsIInv DEF ScanTree, Return
  <2>2. CASE SparseEntries(Top.arg) # {}
    <3>1. SparseEntries(Top.arg) \in SUBSET Path
      BY DEF SparseEntries, Matching, IInv, TypeOK
    <3> QED BY <1>1, <2>2, <3>1, PopulateNextKeepsIInv DEF ScanTree, Running
  <2> QED BY <2>1, <2>2
<1>2. CASE NextSparse
  <2>1. /\ stack # << >> /\ phase = "open" /\ UNCHANGED <<image, phase, tree, faults>>
        /\ Top.op = "entries" /\ Top \in Grounded(tree) /\ Top \in Frame
    BY <1>2, TopIsGrounded DEF NextSparse, Running
  <2>2. CASE Top.todo = {}
    <3>1. [Top EXCEPT !.pc = "scan"] \in Grounded(tree)
      BY <2>1, Scans
    <3> QED BY <1>2, <2>1, <2>2, <3>1, SetTopKeepsIInv DEF NextSparse
  <2>3. CASE Top.todo # {}
    <3>1. Top.todo \in SUBSET Path
      BY <2>1 DEF Frame
    <3> QED BY <1>2, <2>1, <2>3, <3>1, PopulateNextKeepsIInv DEF NextSparse
  <2> QED BY <2>2, <2>3
<1> QED BY <1>1, <1>2

\* A step with any path, not only one that the clients of FileTree ask for.
AnyNext ==
  \/ ParseDisk
  \/ ParseDiskFails
  \/ \E p \in Path : CallGetFile(p) \/ CallEntries(p)
  \/ Step

\* The clients' steps are among them.
LEMMA NextIsAny == [Next]_vars => [AnyNext]_vars
BY PathsAssumption DEF Next, AnyNext

\* Every step keeps the invariant, and the cache only grows.
LEMMA NextIInv == IInv /\ [AnyNext]_vars => IInv' /\ Grows(tree, tree')
<1> SUFFICES ASSUME IInv, [AnyNext]_vars PROVE IInv' /\ Grows(tree, tree')
  OBVIOUS
<1>1. Grows(tree, tree)
  BY DEF Grows
<1>2. CASE UNCHANGED vars
  BY <1>1, <1>2, LeavesTree DEF vars, IInv, CallsAreGrounded
<1>3. CASE ParseDisk
  BY <1>3, ParseDiskKeepsIInv
<1>4. CASE ParseDiskFails
  BY <1>1, <1>4, LeavesTree DEF ParseDiskFails, IInv, CallsAreGrounded
<1>5. CASE \E p \in Path : CallGetFile(p) \/ CallEntries(p)
  BY <1>1, <1>5, CallKeepsIInv
<1>6. CASE PopulatePath
  BY <1>6, PopulateKeepsIInv
<1>7. CASE OpenNotAFile \/ OpenFile \/ WriteRegion \/ WriteCutRegion \/ FinishFile
  BY <1>1, <1>7, GetFileKeepsIInv
<1>8. CASE ScanTree \/ NextSparse
  BY <1>1, <1>8, EntriesKeepsIInv
<1> QED BY <1>2, <1>3, <1>4, <1>5, <1>6, <1>7, <1>8 DEF AnyNext, Step

(***************************************************************************)
(* The strengthened invariant: the tree is well formed and every call in   *)
(* progress agrees with it, whatever sequence and nesting of calls.        *)
(***************************************************************************)
THEOREM Inductive == Spec => []IInv
<1>1. Init => IInv
  BY InitIInv
<1>2. IInv /\ [Next]_vars => IInv'
  BY NextIInv, NextIsAny
<1> QED BY <1>1, <1>2, PTL DEF Spec

-----------------------------------------------------------------------------
(* The properties that follow *)

\* Type correctness of NewMapDisk and of its calls.
THEOREM Typing == Spec => []TypeOK
<1>1. IInv => TypeOK
  BY DEF IInv
<1> QED BY <1>1, Inductive, PTL

\* populate_path and insert_dir_entry keep the tree closed under its structure:
\* parents of cached paths are loaded, children of loaded directories cached.
THEOREM Shape == Spec => []TreeShape
<1>1. IInv => TreeShape
  BY DEF IInv
<1> QED BY <1>1, Inductive, PTL

\* A call that populates its way down has every level above it loaded.
THEOREM Groundedness == Spec => []CallsAreGrounded
<1>1. IInv => CallsAreGrounded
  BY DEF IInv
<1> QED BY <1>1, Inductive, PTL

\* The indexing of the tree in get_file is safe: after populate_path the path
\* has a key, and a file being written stays cached while the Write calls back.
THEOREM IndexingIsSafe == Spec => []PopulatedHasKey
<1>1. IInv => PopulatedHasKey
  <2> SUFFICES ASSUME IInv, NEW i \in 1 .. Len(stack), stack[i].op = "get_file",
                      stack[i].level > Len(stack[i].target)
               PROVE  /\ stack[i].arg \in DOMAIN tree
                      /\ stack[i].pc = "write" => IsCachedFile(stack[i].arg)
    BY DEF PopulatedHasKey
  <2>1. stack[i] \in Grounded(tree)
    BY ElementOfSeq DEF IInv, CallsAreGrounded
  <2> QED BY <2>1 DEF Grounded, IsCachedFile
<1> QED BY <1>1, Inductive, PTL

\* No step of any call, failed ones included, takes anything out of the cache.
THEOREM CacheGrowth == Spec => CacheOnlyGrows
<1>1. IInv /\ [Next]_vars => [Grows(tree, tree')]_tree
  BY NextIInv, NextIsAny
<1> QED BY <1>1, Inductive, PTL DEF Spec, CacheOnlyGrows

===============================================================================
