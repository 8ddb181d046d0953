-------------------------- MODULE DiscAgreementProofs --------------------------
(***************************************************************************)
(* What the cache of FileTree holds is what is on the disc, and the calls  *)
(* in progress agree with both, for every set of names, addresses and      *)
(* images and every nesting of calls.                                      *)
(***************************************************************************)
EXTENDS FileTreeProofs

-----------------------------------------------------------------------------
(* Directories on an image *)

\* A path below the root, the path above it and its last name.
LEMMA ParentOfPath ==
  ASSUME NEW p \in Path, p # ROOT_PATH
  PROVE  /\ Len(p) \in Nat \ {0} /\ Parent(p) \in Path /\ Len(Parent(p)) = Len(p) - 1
         /\ \A k \in 1 .. Len(p) - 1 : Parent(p)[k] = p[k]
         /\ p[Len(p)] \in Name
         /\ Append(Parent(p), p[Len(p)]) = p
<1>1. /\ Len(p) \in Nat \ {0} /\ p \in Seq(Name)
      /\ \A k \in 1 .. Len(p) : p[k] \in Name
  BY LenProperties, EmptySeq, ElementOfSeq DEF Path, ROOT_PATH
<1>2. \A k \in 1 .. Len(p) - 1 : p[k] \in Name
  BY <1>1
<1>3. /\ Parent(p) \in Seq(Name) /\ Len(Parent(p)) = Len(p) - 1
      /\ \A k \in 1 .. Len(p) - 1 : Parent(p)[k] = p[k]
  <2>1. PICK n \in Nat : n = Len(p) - 1
    BY <1>1
  <2>2. \A k \in 1 .. n : p[k] \in Name
    BY <1>2, <2>1
  <2>3. /\ SubSeq(p, 1, n) \in Seq(Name) /\ Len(SubSeq(p, 1, n)) = n
        /\ \A k \in 1 .. n : SubSeq(p, 1, n)[k] = p[k]
    BY <1>1, <2>1, <2>2, SubSeqProperties
  <2> QED BY <2>1, <2>3 DEF Parent
<1>4. p[Len(p)] \in Name
  BY <1>1
<1> DEFINE q == Append(Parent(p), p[Len(p)])
<1>5. /\ q \in Seq(Name) /\ Len(q) = Len(p)
      /\ \A k \in 1 .. Len(p) - 1 : q[k] = p[k]
      /\ q[Len(p)] = p[Len(p)]
  BY <1>1, <1>3, <1>4, AppendProperties
<1> HIDE DEF q
<1>6. \A k \in 1 .. Len(p) : q[k] = p[k]
  BY <1>1, <1>5
<1>7. q = p
  BY <1>1, <1>5, <1>6, SeqEqual
<1> QED BY <1>1, <1>3, <1>4, <1>7 DEF Path, q

\* The root is the directory the image names.
LEMMA RootIsDirectory ==
  ASSUME NEW img \in Image
  PROVE  DirectoryAt(img, ROOT_PATH, img.root)
<1> DEFINE w == [k \in 0 .. 0 |-> img.root]
<1>1. Len(ROOT_PATH) = 0 /\ img.root \in Addr
  BY DEF ROOT_PATH, Image
<1>2. w \in [0 .. 0 -> Addr] /\ w[0] = img.root
  BY <1>1
<1>3. 1 .. 0 = {}
  OBVIOUS
<1> HIDE DEF w
<1>4. IsWalk(img, ROOT_PATH, w)
  BY <1>1, <1>2, <1>3 DEF IsWalk
<1> QED BY <1>1, <1>2, <1>4 DEF DirectoryAt

\* An entry for a readable directory leads one level down.
LEMMA EntryIsDirectory ==
  ASSUME NEW img \in Image, NEW p \in Path, NEW e \in DirEntry,
         EntryAt(img, p, e), e.dir, img.readable[e.address] = "Ok"
  PROVE  DirectoryAt(img, p, e.address)
<1> DEFINE n == Len(p)
<1>1. p # ROOT_PATH
  BY DEF EntryAt, ROOT_PATH
<1>2. /\ n \in Nat \ {0} /\ Len(Parent(p)) = n - 1
      /\ \A k \in 1 .. n - 1 : Parent(p)[k] = p[k]
  BY <1>1, ParentOfPath
<1>3. PICK d \in Addr :
        /\ DirectoryAt(img, Parent(p), d)
        /\ Named(img.listing[d], p[n]) # {}
        /\ e = LastNamed(img.listing[d], p[n])
  BY DEF EntryAt, Parent
<1>4. PICK w \in [0 .. n - 1 -> Addr] : IsWalk(img, Parent(p), w) /\ w[n - 1] = d
  BY <1>2, <1>3 DEF DirectoryAt
<1> DEFINE v == [k \in 0 .. n |-> IF k = n THEN e.address ELSE w[k]]
<1>5. e.address \in Addr
  BY DEF DirEntry
<1> HIDE DEF n
<1>6. /\ v \in [0 .. n -> Addr] /\ v[n] = e.address
      /\ \A k \in 0 .. n - 1 : v[k] = w[k]
  BY <1>2, <1>5
<1> HIDE DEF v
<1>7. v[0] = img.root
  <2>1. w[0] = img.root
    BY <1>4 DEF IsWalk
  <2> QED BY <1>2, <1>6, <2>1
<1>8. ASSUME NEW k \in 1 .. n
      PROVE  /\ Named(img.listing[v[k - 1]], p[k]) # {}
             /\ LastNamed(img.listing[v[k - 1]], p[k]).dir
             /\ img.readable[LastNamed(img.listing[v[k - 1]], p[k]).address] = "Ok"
             /\ v[k] = LastNamed(img.listing[v[k - 1]], p[k]).address
  <2>1. CASE k = n
    <3>1. v[k - 1] = d
      BY <1>2, <1>4, <1>6, <2>1
    <3> QED BY <1>3, <1>6, <2>1, <3>1
  <2>2. CASE k # n
    <3>1. k \in 1 .. n - 1 /\ k \in 0 .. n - 1 /\ k - 1 \in 0 .. n - 1
      BY <1>2, <2>2
    <3>2. v[k] = w[k] /\ v[k - 1] = w[k - 1] /\ Parent(p)[k] = p[k]
      BY <1>2, <1>6, <3>1
    <3> QED BY <1>2, <1>4, <3>1, <3>2 DEF IsWalk
  <2> QED BY <2>1, <2>2
<1>9. IsWalk(img, p, v)
  BY <1>6, <1>7, <1>8 DEF IsWalk, n
<1> QED BY <1>6, <1>9 DEF DirectoryAt, n

\* A directory below the root is what an entry of the one above leads to.
LEMMA DirectoryHasEntry ==
  ASSUME NEW img \in Image, NEW p \in Path, p # ROOT_PATH, NEW d,
         DirectoryAt(img, p, d)
  PROVE  \E e : EntryAt(img, p, e) /\ e.dir /\ e.address = d
<1> DEFINE n == Len(p)
<1>1. /\ n \in Nat \ {0} /\ Len(Parent(p)) = n - 1
      /\ \A k \in 1 .. n - 1 : Parent(p)[k] = p[k]
  BY ParentOfPath
<1>2. PICK w \in [0 .. n -> Addr] : IsWalk(img, p, w) /\ w[n] = d
  BY DEF DirectoryAt
<1> HIDE DEF n
<1> DEFINE v == [k \in 0 .. n - 1 |-> w[k]]
<1>3. /\ v \in [0 .. n - 1 -> Addr] /\ \A k \in 0 .. n - 1 : v[k] = w[k]
      /\ n - 1 \in 0 .. n - 1 /\ n \in 1 .. n
  BY <1>1
<1> HIDE DEF v
<1>4. IsWalk(img, Parent(p), v)
  <2>1. v[0] = img.root
    <3>1. 0 \in 0 .. n - 1
      BY <1>1
    <3> QED BY <1>2, <1>3, <3>1 DEF IsWalk
  <2>2. ASSUME NEW k \in 1 .. n - 1
        PROVE  /\ k \in 1 .. n /\ v[k] = w[k] /\ v[k - 1] = w[k - 1]
               /\ Parent(p)[k] = p[k]
    <3>1. k \in 1 .. n /\ k \in 0 .. n - 1 /\ k - 1 \in 0 .. n - 1
      BY <1>1
    <3> QED BY <1>1, <1>3, <3>1
  <2> QED BY <1>1, <1>2, <1>3, <2>1, <2>2 DEF IsWalk, n
<1>5. DirectoryAt(img, Parent(p), w[n - 1])
  BY <1>1, <1>3, <1>4 DEF DirectoryAt
<1> DEFINE e == LastNamed(img.listing[w[n - 1]], p[n])
<1>6. /\ Named(img.listing[w[n - 1]], p[n]) # {} /\ e.dir /\ e.address = d
      /\ w[n - 1] \in Addr
  BY <1>2, <1>3 DEF IsWalk, n
<1>7. EntryAt(img, p, e)
  BY <1>5, <1>6 DEF EntryAt, Parent, ROOT_PATH, n
<1> QED BY <1>6, <1>7

\* A path leads to one directory at most, for a listing leaves one entry under
\* a name.
LEMMA OneDirectory ==
  ASSUME NEW img \in Image, NEW p \in Path, NEW d, NEW e,
         DirectoryAt(img, p, d), DirectoryAt(img, p, e)
  PROVE  d = e
<1>1. Len(p) \in Nat
  BY LenProperties DEF Path
<1>2. PICK w \in [0 .. Len(p) -> Addr] : IsWalk(img, p, w) /\ w[Len(p)] = d
  BY DEF DirectoryAt
<1>3. PICK v \in [0 .. Len(p) -> Addr] : IsWalk(img, p, v) /\ v[Len(p)] = e
  BY DEF DirectoryAt
<1> DEFINE Apart == {k \in 0 .. Len(p) : w[k] # v[k]}
<1>4. Apart = {}
  <2> SUFFICES ASSUME Apart # {} PROVE FALSE
    OBVIOUS
  <2>1. Apart \subseteq Nat /\ Apart # {}
    BY <1>1
  <2>2. PICK k \in Apart : \A j \in Apart : ~(<<j, k>> \in OpToRel(<, Nat))
    BY <2>1, NatLessThanWellFounded, WFMin
  <2>3. \A j \in Apart : ~(j < k)
    <3>1. \A j \in Apart : j \in Nat
      BY <2>1
    <3> QED BY <2>2, <3>1, Zenon DEF OpToRel
  <2>4. k # 0
    BY <1>2, <1>3 DEF IsWalk
  <2>5. k \in 1 .. Len(p) /\ k - 1 \in 0 .. Len(p) /\ k - 1 < k
    BY <1>1, <2>4
  <2>6. w[k - 1] = v[k - 1]
    BY <2>3, <2>5
  <2>7. /\ w[k] = LastNamed(img.listing[w[k - 1]], p[k]).address
        /\ v[k] = LastNamed(img.listing[v[k - 1]], p[k]).address
    BY <1>2, <1>3, <2>5 DEF IsWalk
  <2> QED BY <2>6, <2>7
<1>5. Len(p) \in 0 .. Len(p)
  BY <1>1
<1> QED BY <1>2, <1>3, <1>4, <1>5

\* The same of entries.
LEMMA OneEntry ==
  ASSUME NEW img \in Image, NEW p \in Path, NEW d, NEW e,
         EntryAt(img, p, d), EntryAt(img, p, e)
  PROVE  d = e
<1>1. p # ROOT_PATH
  BY DEF EntryAt, ROOT_PATH
<1>2. Parent(p) \in Path
  BY <1>1, ParentOfPath
<1>3. PICK a \in Addr :
        DirectoryAt(img, Parent(p), a) /\ d = LastNamed(img.listing[a], p[Len(p)])
  BY DEF EntryAt, Parent
<1>4. PICK b \in Addr :
        DirectoryAt(img, Parent(p), b) /\ e = LastNamed(img.listing[b], p[Len(p)])
  BY DEF EntryAt, Parent
<1>5. a = b
  BY <1>2, <1>3, <1>4, OneDirectory
<1> QED BY <1>3, <1>4, <1>5

-----------------------------------------------------------------------------
(* The cache holds what is on the disc *)

\* TreeMatchesDisc of an image and a tree.
MatchesDisc(img, t) ==
  \A p \in DOMAIN t :
    IF t[p].kind = "LoadedDir"
      THEN \E d \in Addr : DirectoryAt(img, p, d) /\ t[p].val = img.listing[d]
      ELSE /\ EntryAt(img, p, t[p].val)
           /\ (t[p].kind = "SparseDir") = t[p].val.dir

\* A child of a directory on the image is named by the entry left under its name.
LEMMA ChildIsEntry ==
  ASSUME NEW img \in Image, NEW p \in Path, NEW d \in Addr, DirectoryAt(img, p, d),
         NEW q \in ChildPaths(p, img.listing[d])
  PROVE  EntryAt(img, q, LastNamed(img.listing[d], q[Len(q)]))
<1> DEFINE l == img.listing[d]
<1>1. l \in Seq(DirEntry)
  BY DEF Image
<1>2. PICK i \in 1 .. Len(l) : q = Append(p, l[i].name)
  BY DEF ChildPaths
<1>3. l[i].name \in Name
  <2>1. l[i] \in DirEntry
    BY <1>1, ElementOfSeq
  <2> QED BY <2>1 DEF DirEntry
<1>4. q[Len(q)] = l[i].name /\ q # << >> /\ SubSeq(q, 1, Len(q) - 1) = p
  BY <1>2, <1>3, ChildOfPath DEF Parent, ROOT_PATH
<1>5. Named(l, q[Len(q)]) # {}
  BY <1>4 DEF Named
<1> QED BY <1>4, <1>5 DEF EntryAt

\* Inserting a directory of the disc keeps the tree in agreement with it.
LEMMA InsertMatches ==
  ASSUME NEW img \in Image, NEW t, MatchesDisc(img, t),
         NEW p \in Path, NEW d \in Addr, DirectoryAt(img, p, d)
  PROVE  MatchesDisc(img, InsertDirectory(t, p, img.listing[d]))
<1> DEFINE l == img.listing[d]
           u == InsertDirectory(t, p, l)
<1>1. /\ DOMAIN u = DOMAIN t \cup ChildPaths(p, l) \cup {p}
      /\ u[p] = LoadedDir(l)
      /\ \A q \in DOMAIN u : q # p =>
           u[q] = IF q \in ChildPaths(p, l)
                    THEN DirEntryObject(LastNamed(l, q[Len(q)])) ELSE t[q]
  BY DEF InsertDirectory, InsertChildren
<1>2. l \in Seq(DirEntry)
  BY DEF Image
<1> HIDE DEF u
<1> SUFFICES ASSUME NEW q \in DOMAIN u
             PROVE  IF u[q].kind = "LoadedDir"
                      THEN \E a \in Addr : DirectoryAt(img, q, a) /\ u[q].val = img.listing[a]
                      ELSE /\ EntryAt(img, q, u[q].val)
                           /\ (u[q].kind = "SparseDir") = u[q].val.dir
  BY DEF MatchesDisc, u
<1>3. CASE q = p
  <2>1. u[q].kind = "LoadedDir" /\ u[q].val = l
    BY <1>1, <1>3 DEF LoadedDir
  <2> QED BY <1>3, <2>1
<1>4. CASE q # p /\ q \in ChildPaths(p, l)
  <2> DEFINE e == LastNamed(l, q[Len(q)])
  <2>1. EntryAt(img, q, e)
    BY <1>4, ChildIsEntry
  <2>2. e \in DirEntry
    <3>1. PICK i \in 1 .. Len(l) : q = Append(p, l[i].name)
      BY <1>4 DEF ChildPaths
    <3>2. l[i].name \in Name
      <4>1. l[i] \in DirEntry
        BY <1>2, ElementOfSeq
      <4> QED BY <4>1 DEF DirEntry
    <3>3. Named(l, q[Len(q)]) # {}
      BY <3>1, <3>2, ChildOfPath DEF Named
    <3> QED BY <1>2, <3>3, LastNamedIsEntry
  <2> HIDE DEF e
  <2>3. u[q] = DirEntryObject(e)
    BY <1>1, <1>4 DEF e
  <2>4. e.dir \in BOOLEAN
    BY <2>2 DEF DirEntry
  <2>5. CASE e.dir
    <3>1. u[q].kind = "SparseDir" /\ u[q].val = e
      BY <2>3, <2>5 DEF DirEntryObject, SparseDir
    <3>2. (u[q].kind = "SparseDir") = TRUE /\ u[q].val.dir = TRUE
      BY <2>4, <2>5, <3>1
    <3> QED BY <2>1, <3>1, <3>2
  <2>6. CASE ~e.dir
    BY <2>1, <2>3, <2>4, <2>6 DEF DirEntryObject, File
  <2> QED BY <2>5, <2>6
<1>5. CASE q # p /\ q \notin ChildPaths(p, l)
  <2>1. q \in DOMAIN t /\ u[q] = t[q]
    BY <1>1, <1>5
  <2> QED BY <2>1 DEF MatchesDisc
<1> QED BY <1>3, <1>4, <1>5

\* The entry of a cached sparse directory or file.
LEMMA CachedEntry ==
  ASSUME IInv, TreeMatchesDisc, NEW p \in DOMAIN tree, tree[p].kind # "LoadedDir"
  PROVE  /\ tree[p].val \in DirEntry /\ tree[p].val.address \in Addr
         /\ EntryAt(image, p, tree[p].val)
         /\ tree[p].kind = "SparseDir" => tree[p].val.dir
         /\ tree[p].kind = "File" => ~tree[p].val.dir
<1>1. tree[p] \in FileObject
  BY DEF IInv, TypeOK
<1>2. tree[p].val \in DirEntry
  BY <1>1 DEF FileObject
<1>3. tree[p].val.address \in Addr
  BY <1>2 DEF DirEntry
<1>4. /\ EntryAt(image, p, tree[p].val)
      /\ (tree[p].kind = "SparseDir") = tree[p].val.dir
  BY DEF TreeMatchesDisc
<1>5. tree[p].kind = "File" => (tree[p].kind = "SparseDir") = FALSE
  OBVIOUS
<1> QED BY <1>2, <1>3, <1>4, <1>5

\* parse begins with the root directory of the image.
LEMMA ParseDiskMatches ==
  ASSUME IInv, TreeMatchesDisc, ParseDisk
  PROVE  TreeMatchesDisc'
<1>1. image \in Image /\ image' = image /\ ROOT_PATH \in Path
  BY EmptySeq DEF IInv, TypeOK, ParseDisk, ROOT_PATH, Path
<1>2. image.root \in Addr
  BY <1>1 DEF Image
<1>3. MatchesDisc(image, EmptyTree)
  BY DEF MatchesDisc, EmptyTree
<1>4. MatchesDisc(image, tree')
  BY <1>1, <1>2, <1>3, RootIsDirectory, InsertMatches DEF ParseDisk
<1> QED BY <1>1, <1>4 DEF TreeMatchesDisc, MatchesDisc

\* populate_path loads the directory that the cached entry leads to.
LEMMA PopulateDirectoryMatches ==
  ASSUME IInv, TreeMatchesDisc, PopulateDirectory
  PROVE  TreeMatchesDisc'
<1>1. Populating /\ Cached("SparseDir") /\ image.readable[tree[Stem].val.address] = "Ok"
  BY DEF PopulateDirectory, AtDirectory
<1>2. CASE Borrowed
  BY <1>2 DEF PopulateDirectory, Panic, TreeMatchesDisc
<1>3. CASE ~Borrowed
  <2> DEFINE a == tree[Stem].val.address
  <2>1. image \in Image /\ Stem \in Path /\ Stem \in DOMAIN tree
    BY <1>1, StemIsGrounded DEF IInv, TypeOK, Cached
  <2>2. a \in Addr /\ DirectoryAt(image, Stem, a)
    BY <1>1, <2>1, CachedEntry, EntryIsDirectory DEF Cached
  <2>3. tree' = InsertDirectory(tree, Stem, image.listing[a]) /\ image' = image
    BY <1>3 DEF PopulateDirectory
  <2> HIDE DEF a
  <2>4. MatchesDisc(image, tree)
    BY DEF TreeMatchesDisc, MatchesDisc
  <2>5. MatchesDisc(image, tree')
    BY <2>1, <2>2, <2>3, <2>4, InsertMatches
  <2> QED BY <2>3, <2>5 DEF TreeMatchesDisc, MatchesDisc
<1> QED BY <1>2, <1>3

\* No other action touches the tree or the image.
LEMMA NextMatches ==
  ASSUME IInv, TreeMatchesDisc, [AnyNext]_vars
  PROVE  TreeMatchesDisc'
<1>1. CASE ParseDisk
  BY <1>1, ParseDiskMatches
<1>2. CASE PopulateDirectory
  BY <1>2, PopulateDirectoryMatches
<1>3. CASE UNCHANGED <<image, tree>>
  BY <1>3 DEF TreeMatchesDisc
<1>4. CASE PopulatePath /\ ~PopulateDirectory
  BY <1>3, <1>4
     DEF PopulatePath, PopulateCached, NextLevel, PopulateFile, PopulateOk,
         PopulateThroughFile, PopulateMissing, PopulateUnreadable, Return, Panic
<1>5. CASE OpenNotAFile \/ OpenFile \/ WriteRegion \/ WriteCutRegion \/ FinishFile
  BY <1>3, <1>5
     DEF OpenNotAFile, OpenFile, WriteRegion, WriteCutRegion, FinishFile, Return, Panic
<1>6. CASE ScanTree \/ NextSparse
  BY <1>3, <1>6 DEF ScanTree, NextSparse, Return
<1>7. CASE \/ UNCHANGED vars \/ ParseDiskFails
           \/ \E p \in Path : CallGetFile(p) \/ CallEntries(p)
  BY <1>3, <1>7 DEF vars, ParseDiskFails, CallGetFile, CallEntries
<1> QED BY <1>1, <1>2, <1>4, <1>5, <1>6, <1>7 DEF AnyNext, Step

\* The cache agrees with the disc: a loaded directory is the listing its path
\* leads to, a sparse directory or a file the entry its parent ends up with.
THEOREM DiscAgreement == Spec => []TreeMatchesDisc
<1>1. Init => TreeMatchesDisc
  BY DEF Init, EmptyTree, TreeMatchesDisc
<1>2. IInv /\ TreeMatchesDisc /\ [Next]_vars => TreeMatchesDisc'
  BY NextMatches, NextIsAny
<1> QED BY <1>1, <1>2, Inductive, PTL DEF Spec

-----------------------------------------------------------------------------
(* The calls agree with the disc *)

\* A step changes the object of a key only by loading a sparse directory.
OnlyLoads(t, u) ==
  \A p \in DOMAIN t :
    /\ p \in DOMAIN u
    /\ \/ u[p] = t[p]
       \/ t[p].kind = "SparseDir" /\ u[p].kind = "LoadedDir"

\* A call that agrees with a tree agrees with what it is loaded into.
LEMMA SoundLoads ==
  ASSUME NEW img, NEW t, NEW u, OnlyLoads(t, u), NEW f \in Grounded(t), Sound(img, t, f)
  PROVE  Sound(img, u, f)
<1>1. ASSUME f.op = "get_file", f.level > Len(f.target)
      PROVE  f.arg \in DOMAIN t /\ t[f.arg].kind # "SparseDir" /\ u[f.arg] = t[f.arg]
  BY <1>1 DEF Grounded, Sound, OnlyLoads
<1>2. ASSUME f.pc = "write"
      PROVE  u[f.arg] = t[f.arg] /\ f.left <= img.extent[t[f.arg].val.address]
  BY <1>2 DEF Grounded, Sound, OnlyLoads
<1>3. ASSUME NEW p \in DOMAIN t, t[p].kind # "File"
      PROVE  p \in DOMAIN u /\ u[p].kind # "File"
  BY <1>3 DEF OnlyLoads
<1>4. f.pc = "write" => f.left <= img.extent[u[f.arg].val.address]
  BY <1>2
<1>5. f.op = "get_file" /\ f.level > Len(f.target) => u[f.arg].kind # "SparseDir"
  BY <1>1
<1> QED BY <1>3, <1>4, <1>5 DEF Sound

\* What a step may do to the calls: the innermost one returns, all end, the
\* innermost one advances, or another one begins.
LEMMA CallsStaySound ==
  ASSUME IInv, CallsAreSound, image' = image, OnlyLoads(tree, tree'),
         \/ stack' \in {stack, Caller, << >>}
         \/ \E f : /\ Sound(image, tree', f)
                  /\ \/ stack # << >> /\ SetTop(f)
                     \/ stack' = Append(stack, f)
  PROVE  CallsAreSound'
<1>1. /\ Len(stack) \in Nat /\ stack \in Seq(Frame)
      /\ \A i \in 1 .. Len(stack) : stack[i] \in Grounded(tree)
  BY LenProperties, ElementOfSeq DEF IInv, TypeOK, CallsAreGrounded
<1>2. \A i \in 1 .. Len(stack) : Sound(image, tree', stack[i])
  BY <1>1, SoundLoads DEF CallsAreSound
<1> SUFFICES ASSUME NEW i \in 1 .. Len(stack') PROVE Sound(image, tree', stack'[i])
  BY DEF CallsAreSound
<1>3. CASE stack' = stack
  BY <1>2, <1>3
<1>4. CASE stack' = << >>
  BY <1>4
<1>5. CASE stack' = Caller
  <2>1. PICK n \in 0 .. Len(stack) : stack' = SubSeq(stack, 1, n)
    <3>1. CASE Len(stack) = 0
      <4>1. stack' = SubSeq(stack, 1, 0)
        BY <1>1, <1>5, <3>1, SubSeqEmpty DEF Caller
      <4> QED BY <1>1, <4>1
    <3>2. CASE Len(stack) # 0
      <4>1. Len(stack) - 1 \in 0 .. Len(stack)
        BY <1>1, <3>2
      <4> QED BY <1>5, <4>1 DEF Caller
    <3> QED BY <3>1, <3>2
  <2>2. \A k \in 1 .. n : stack[k] \in Frame
    BY <1>1, ElementOfSeq
  <2>3. Len(stack') = n /\ \A k \in 1 .. n : stack'[k] = stack[k]
    BY <1>1, <2>1, <2>2, SubSeqProperties
  <2>4. i \in 1 .. n /\ i \in 1 .. Len(stack)
    BY <1>1, <2>3
  <2> QED BY <1>2, <2>3, <2>4
<1>6. ASSUME NEW f, Sound(image, tree', f), stack # << >>, SetTop(f)
      PROVE  Sound(image, tree', stack'[i])
  <2>1. /\ Len(stack') = Len(stack)
        /\ \A k \in 1 .. Len(stack) : stack'[k] = IF k = Len(stack) THEN f ELSE stack[k]
    BY <1>1, <1>6 DEF SetTop
  <2> QED BY <1>2, <1>6, <2>1
<1>7. ASSUME NEW f, Sound(image, tree', f), stack' = Append(stack, f)
      PROVE  Sound(image, tree', stack'[i])
  <2>1. /\ Len(stack') = Len(stack) + 1 /\ stack'[Len(stack) + 1] = f
        /\ \A k \in 1 .. Len(stack) : stack'[k] = stack[k]
    BY <1>1, <1>7
  <2>2. i \in 1 .. Len(stack) \/ i = Len(stack) + 1
    BY <1>1, <2>1
  <2> QED BY <1>2, <1>7, <2>1, <2>2
<1> QED BY <1>3, <1>4, <1>5, <1>6, <1>7

\* The steps of a call outside populate_path.
CallPart ==
  \/ OpenNotAFile \/ OpenFile \/ WriteRegion \/ WriteCutRegion \/ FinishFile
  \/ ScanTree \/ NextSparse

\* Every step of the program only loads.
LEMMA NextLoads ==
  ASSUME IInv, [AnyNext]_vars
  PROVE  OnlyLoads(tree, tree')
<1>1. CASE tree' = tree
  BY <1>1 DEF OnlyLoads
<1>2. CASE ParseDisk
  BY <1>2 DEF ParseDisk, IInv, StartsEmpty, EmptyTree, OnlyLoads
<1>3. CASE PopulateDirectory /\ ~Borrowed
  <2> DEFINE l == image.listing[tree[Stem].val.address]
  <2>1. Stem \in Path /\ IsLoaded(tree, Parent(Stem))
    BY <1>3, StemIsGrounded DEF PopulateDirectory, AtDirectory
  <2>2. Stem \in DOMAIN tree /\ tree[Stem].kind = "SparseDir"
    BY <1>3 DEF PopulateDirectory, AtDirectory, Cached
  <2>3. l \in Seq(DirEntry)
    <3>1. tree[Stem] \in FileObject
      BY <2>2 DEF IInv, TypeOK
    <3>2. tree[Stem].val \in DirEntry
      BY <2>2, <3>1 DEF FileObject
    <3>3. tree[Stem].val.address \in Addr
      BY <3>2 DEF DirEntry
    <3> QED BY <3>3, ImageHasListings
  <2>4. tree' = InsertDirectory(tree, Stem, l)
    BY <1>3 DEF PopulateDirectory
  <2> HIDE DEF l
  <2>5. /\ \A q \in DOMAIN tree \ {Stem} : tree'[q] = tree[q]
        /\ IsLoaded(tree', Stem) /\ Grows(tree, tree')
    BY <2>1, <2>2, <2>3, <2>4, ShapeOfTree, InsertKeepsShape
  <2> QED BY <2>2, <2>5 DEF OnlyLoads, Grows, IsLoaded
<1>4. CASE PopulatePath /\ ~(PopulateDirectory /\ ~Borrowed)
  BY <1>1, <1>4
     DEF PopulatePath, PopulateCached, NextLevel, PopulateFile, PopulateOk,
         PopulateThroughFile, PopulateMissing, PopulateDirectory, PopulateUnreadable,
         Return, Panic
<1>5. CASE \/ CallPart
           \/ \E p \in Path : CallGetFile(p) \/ CallEntries(p)
           \/ ParseDiskFails \/ UNCHANGED vars
  BY <1>1, <1>5
     DEF CallPart, OpenNotAFile, OpenFile, WriteRegion, WriteCutRegion, FinishFile,
         ScanTree, NextSparse, CallGetFile, CallEntries, ParseDiskFails, vars,
         Return, Panic
<1> QED BY <1>2, <1>3, <1>4, <1>5 DEF AnyNext, Step, CallPart

\* A get_file stands before a loaded directory or a file when it is populated.
LEMMA LevelUpIsSound ==
  ASSUME NEW img, NEW t, NEW f \in Grounded(t), f.pc = "populate",
         f.level <= Len(f.target), IsLoaded(t, SubSeq(f.target, 1, f.level)),
         f.op = "entries" => Sound(img, t, f)
  PROVE  Sound(img, t, [f EXCEPT !.level = @ + 1])
<1> DEFINE g == [f EXCEPT !.level = @ + 1]
<1>1. f \in Frame /\ Len(f.target) \in Nat /\ f.target \in Path /\ f.level \in Nat \ {0}
  BY LenProperties DEF Grounded, Frame, Path
<1>2. /\ g.op = f.op /\ g.pc = f.pc /\ g.arg = f.arg /\ g.todo = f.todo
      /\ g.target = f.target /\ g.level = f.level + 1
  BY <1>1 DEF Frame
<1> HIDE DEF g
<1>3. f.op = "get_file" /\ g.level > Len(g.target) => t[g.arg].kind # "SparseDir"
  <2> SUFFICES ASSUME f.op = "get_file", g.level > Len(f.target)
               PROVE  t[g.arg].kind # "SparseDir"
    BY <1>2
  <2>1. f.level = Len(f.target) /\ f.target = f.arg
    BY <1>1, <1>2 DEF Grounded
  <2>2. SubSeq(f.target, 1, f.level) = g.arg
    BY <1>1, <1>2, <2>1, WholeAndEmptyPrefix
  <2> QED BY <2>2 DEF IsLoaded
<1>4. Sound(img, t, g)
  BY <1>2, <1>3 DEF Sound
<1> QED BY <1>4 DEF g

\* So does a get_file that has found its file.
LEMMA LevelEndIsSound ==
  ASSUME NEW img, NEW t, NEW f \in Grounded(t), f.pc = "populate",
         t[f.target].kind = "File", f.op = "entries" => Sound(img, t, f)
  PROVE  Sound(img, t, [f EXCEPT !.level = Len(f.target) + 1])
<1> DEFINE g == [f EXCEPT !.level = Len(f.target) + 1]
<1>1. f \in Frame
  BY DEF Grounded
<1>2. /\ g.op = f.op /\ g.pc = f.pc /\ g.arg = f.arg /\ g.todo = f.todo
      /\ g.target = f.target
  BY <1>1 DEF Frame
<1> HIDE DEF g
<1>3. Sound(img, t, g)
  BY <1>2 DEF Sound, Grounded
<1> QED BY <1>3 DEF g

\* get_file opens the file with all of its regions left, and writes one of them.
LEMMA WritesAreSound ==
  ASSUME NEW img, NEW t, NEW f \in Grounded(t), f.op = "get_file", NEW n \in Nat,
         t[f.arg].kind = "File", n <= img.extent[t[f.arg].val.address]
  PROVE  /\ Sound(img, t, [f EXCEPT !.pc = "write", !.left = n])
         /\ Sound(img, t, [f EXCEPT !.left = n])
<1> DEFINE g == [f EXCEPT !.pc = "write", !.left = n]
           h == [f EXCEPT !.left = n]
<1>1. f \in Frame
  BY DEF Grounded
<1>2. /\ g.op = "get_file" /\ g.arg = f.arg /\ g.left = n
      /\ h.op = "get_file" /\ h.arg = f.arg /\ h.left = n
  BY <1>1 DEF Frame
<1> HIDE DEF g, h
<1>3. Sound(img, t, g) /\ Sound(img, t, h)
  BY <1>2 DEF Sound
<1> QED BY <1>3 DEF g, h

\* entries takes up cached directories that begin with its prefix.
LEMMA TargetsAreSound ==
  ASSUME NEW img, NEW t, NEW a, NEW todo, NEW p \in todo,
         \A q \in todo : q \in DOMAIN t /\ t[q].kind # "File" /\ PathIsPrefix(a, q)
  PROVE  Sound(img, t, [op |-> "entries", arg |-> a, pc |-> "populate", target |-> p,
                        level |-> 1, todo |-> todo \ {p}, left |-> 0])
BY DEF Sound

\* The steps of populate_path keep the calls in agreement with the disc.
LEMMA PopulateIsSound ==
  ASSUME IInv, CallsAreSound, PopulatePath
  PROVE  CallsAreSound'
<1>1. /\ Populating /\ stack # << >>
      /\ Top \in Grounded(tree) /\ Top \in Frame /\ Top.pc = "populate"
      /\ Top.level <= Len(Top.target) /\ Sound(image, tree, Top)
  <2>1. Populating /\ stack # << >>
    BY DEF PopulatePath, Populating, PopulateCached, PopulateFile, PopulateThroughFile,
           StopsAtFile, PopulateMissing, PopulateDirectory, PopulateUnreadable, AtDirectory
  <2>2. Len(stack) \in 1 .. Len(stack)
    BY <2>1, StackSteps DEF IInv, CallsAreGrounded
  <2> QED BY <2>1, <2>2, TopIsGrounded DEF Populating, CallsAreSound, Top
<1>2. OnlyLoads(tree, tree')
  BY NextLoads DEF AnyNext, Step
<1>3. ASSUME NEW out, Return(out) PROVE CallsAreSound'
  BY <1>2, <1>3, CallsStaySound DEF Return
<1>4. ASSUME Panic PROVE CallsAreSound'
  BY <1>2, <1>4, CallsStaySound DEF Panic
<1>5. CASE PopulateCached
  <2>1. Sound(image, tree', [Top EXCEPT !.level = @ + 1])
    <3>1. tree' = tree /\ IsLoaded(tree, SubSeq(Top.target, 1, Top.level))
      BY <1>5 DEF PopulateCached, Cached, IsLoaded, Stem
    <3> QED BY <1>1, <3>1, LevelUpIsSound
  <2> QED BY <1>1, <1>2, <1>5, <2>1, CallsStaySound DEF PopulateCached, NextLevel
<1>6. CASE PopulateFile
  <2>1. Sound(image, tree', [Top EXCEPT !.level = Len(Top.target) + 1])
    <3>1. tree' = tree /\ tree[Top.target].kind = "File"
      BY <1>6 DEF PopulateFile, StopsAtFile, Cached
    <3> QED BY <1>1, <3>1, LevelEndIsSound
  <2> QED BY <1>1, <1>2, <1>6, <2>1, CallsStaySound DEF PopulateFile, PopulateOk
<1>7. CASE PopulateThroughFile
  BY <1>3, <1>7 DEF PopulateThroughFile
<1>8. CASE PopulateMissing
  BY <1>3, <1>4, <1>8 DEF PopulateMissing
<1>9. CASE PopulateDirectory /\ Borrowed
  BY <1>4, <1>9 DEF PopulateDirectory
<1>10. CASE PopulateDirectory /\ ~Borrowed
  <2>1. IsLoaded(tree', Stem) /\ image' = image /\ NextLevel
    <3>1. Cached("SparseDir") /\ NextLevel /\ image' = image
          /\ tree' = InsertDirectory(tree, Stem, image.listing[tree[Stem].val.address])
      BY <1>10 DEF PopulateDirectory, AtDirectory
    <3> QED BY <3>1 DEF InsertDirectory, IsLoaded, LoadedDir
  <2>2. Top \in Grounded(tree') /\ Sound(image, tree', Top)
    <3>1. Grows(tree, tree')
      BY NextIInv DEF AnyNext, Step
    <3> QED BY <1>1, <1>2, <3>1, SoundLoads, GroundedGrows
  <2>3. Sound(image, tree', [Top EXCEPT !.level = @ + 1])
    BY <1>1, <2>1, <2>2, LevelUpIsSound DEF Stem
  <2> QED BY <1>1, <1>2, <2>1, <2>3, CallsStaySound DEF NextLevel
<1>11. CASE PopulateUnreadable
  BY <1>3, <1>4, <1>11 DEF PopulateUnreadable
<1> QED BY <1>5, <1>6, <1>7, <1>8, <1>9, <1>10, <1>11 DEF PopulatePath

\* The paths that a scan selects are cached and begin with the prefix.
LEMMA SparseEntriesMatch ==
  ASSUME NEW a, NEW q \in SparseEntries(a)
  PROVE  q \in DOMAIN tree /\ tree[q].kind # "File" /\ PathIsPrefix(a, q)
BY DEF SparseEntries, Matching

\* The other steps of a call keep the calls in agreement with the disc.
LEMMA CallPartIsSound ==
  ASSUME IInv, CallsAreSound, CallPart
  PROVE  CallsAreSound'
<1>1. /\ stack # << >> /\ Top \in Grounded(tree) /\ Top \in Frame
      /\ Sound(image, tree, Top)
  <2>1. stack # << >>
    BY DEF CallPart, OpenNotAFile, OpenFile, ReadyToOpen, WriteRegion, WriteCutRegion,
           FinishFile, Writing, ScanTree, NextSparse, Running
  <2>2. Len(stack) \in 1 .. Len(stack)
    BY <2>1, StackSteps DEF IInv, CallsAreGrounded
  <2> QED BY <2>1, <2>2, TopIsGrounded DEF CallsAreSound, Top
<1>2. OnlyLoads(tree, tree')
  BY NextLoads DEF AnyNext, Step, CallPart
<1>3. ASSUME NEW out, Return(out) PROVE CallsAreSound'
  BY <1>2, <1>3, CallsStaySound DEF Return
<1>4. ASSUME Panic PROVE CallsAreSound'
  BY <1>2, <1>4, CallsStaySound DEF Panic
<1>5. ASSUME NEW f, SetTop(f), UNCHANGED <<image, tree>>, Sound(image, tree, f)
      PROVE  CallsAreSound'
  BY <1>1, <1>2, <1>5, CallsStaySound
<1>6. ASSUME NEW todo, PopulateNext(todo), UNCHANGED <<image, tree>>,
             \A q \in todo : /\ q \in DOMAIN tree /\ tree[q].kind # "File"
                            /\ PathIsPrefix(Top.arg, q)
      PROVE  CallsAreSound'
  <2>1. PICK p \in todo :
          SetTop([op |-> "entries", arg |-> Top.arg, pc |-> "populate",
                  target |-> p, level |-> 1, todo |-> todo \ {p}, left |-> 0])
    BY <1>6 DEF PopulateNext
  <2>2. Sound(image, tree, [op |-> "entries", arg |-> Top.arg, pc |-> "populate",
                  target |-> p, level |-> 1, todo |-> todo \ {p}, left |-> 0])
    BY <1>6, TargetsAreSound
  <2> QED BY <1>5, <1>6, <2>1, <2>2
<1>7. CASE OpenNotAFile
  BY <1>3, <1>4, <1>7 DEF OpenNotAFile
<1>8. CASE OpenFile
  <2> DEFINE extent == image.extent[tree[Top.arg].val.address]
  <2>1. Top.op = "get_file" /\ Top.arg \in DOMAIN tree /\ tree[Top.arg].kind = "File"
    BY <1>8 DEF OpenFile, ReadyToOpen, Running, IsCachedFile
  <2>2. extent \in Nat \cup {NoExtent}
    <3>1. tree[Top.arg] \in FileObject
      BY <2>1 DEF IInv, TypeOK
    <3>2. tree[Top.arg].val \in DirEntry
      BY <2>1, <3>1 DEF FileObject
    <3>3. tree[Top.arg].val.address \in Addr
      BY <3>2 DEF DirEntry
    <3> QED BY <3>3 DEF IInv, TypeOK, Image
  <2>3. CASE extent = NoExtent
    BY <1>3, <1>8, <2>3 DEF OpenFile
  <2>4. CASE extent # NoExtent
    <3>1. SetTop([Top EXCEPT !.pc = "write", !.left = extent])
          /\ UNCHANGED <<image, tree>>
      BY <1>8, <2>4 DEF OpenFile
    <3>2. PICK n \in Nat : n = extent
      BY <2>2, <2>4
    <3>3. n <= extent
      BY <3>2
    <3>4. Sound(image, tree, [Top EXCEPT !.pc = "write", !.left = n])
      BY <1>1, <2>1, <3>3, WritesAreSound
    <3> QED BY <1>5, <3>1, <3>2, <3>4
  <2> QED BY <2>3, <2>4
<1>9. CASE WriteRegion
  <2>1. CASE Return(Outcome("StdError", Top.arg))
    BY <1>3, <2>1
  <2>2. CASE SetTop([Top EXCEPT !.left = @ - 1]) /\ UNCHANGED <<image, phase, tree, faults>>
    <3>1. /\ Top.left \in Nat /\ Top.left > 0
          /\ Top.op = "get_file" /\ tree[Top.arg].kind = "File" /\ Top.arg \in DOMAIN tree
          /\ Top.left <= image.extent[tree[Top.arg].val.address]
      BY <1>1, <1>9 DEF WriteRegion, Writing, Running, Frame, Grounded, Sound
    <3>2. image.extent[tree[Top.arg].val.address] \in Nat \cup {NoExtent}
      <4>1. tree[Top.arg] \in FileObject
        BY <3>1 DEF IInv, TypeOK
      <4>2. tree[Top.arg].val \in DirEntry
        BY <3>1, <4>1 DEF FileObject
      <4>3. tree[Top.arg].val.address \in Addr
        BY <4>2 DEF DirEntry
      <4> QED BY <4>3 DEF IInv, TypeOK, Image
    <3>3. PICK n \in Nat : n = Top.left - 1
      BY <3>1
    <3>4. n <= image.extent[tree[Top.arg].val.address]
      BY <3>1, <3>2, <3>3 DEF NoExtent
    <3>5. Sound(image, tree, [Top EXCEPT !.left = n])
      BY <1>1, <3>1, <3>4, WritesAreSound
    <3>6. [Top EXCEPT !.left = @ - 1] = [Top EXCEPT !.left = n]
      BY <3>3
    <3> QED BY <1>5, <2>2, <3>5, <3>6
  <2> QED BY <1>9, <2>1, <2>2 DEF WriteRegion
<1>10. CASE WriteCutRegion
  BY <1>4, <1>10 DEF WriteCutRegion
<1>11. CASE FinishFile
  BY <1>3, <1>11 DEF FinishFile
<1>12. CASE ScanTree
  <2>1. CASE SparseEntries(Top.arg) = {}
    BY <1>3, <1>12, <2>1 DEF ScanTree
  <2>2. CASE SparseEntries(Top.arg) # {}
    BY <1>6, <1>12, <2>2, SparseEntriesMatch DEF ScanTree
  <2> QED BY <2>1, <2>2
<1>13. CASE NextSparse
  <2>1. Top.op = "entries" /\ Top.pc = "populate" /\ UNCHANGED <<image, tree>>
    BY <1>13 DEF NextSparse, Running
  <2>2. CASE Top.todo = {}
    <3> DEFINE g == [Top EXCEPT !.pc = "scan"]
    <3>1. g.op = "entries" /\ g.pc = "scan"
      BY <1>1, <2>1 DEF Frame
    <3> HIDE DEF g
    <3>2. Sound(image, tree, g)
      BY <3>1 DEF Sound
    <3> QED BY <1>5, <1>13, <2>1, <2>2, <3>2 DEF NextSparse, g
  <2>3. CASE Top.todo # {}
    BY <1>1, <1>6, <1>13, <2>1, <2>3 DEF NextSparse, Sound
  <2> QED BY <2>2, <2>3
<1> QED BY <1>7, <1>8, <1>9, <1>10, <1>11, <1>12, <1>13 DEF CallPart

\* Every step keeps the calls in agreement with the disc.
LEMMA NextIsSound ==
  ASSUME IInv, CallsAreSound, [AnyNext]_vars
  PROVE  CallsAreSound'
<1>1. OnlyLoads(tree, tree')
  BY NextLoads
<1>2. CASE ParseDisk \/ ParseDiskFails \/ UNCHANGED vars
  BY <1>1, <1>2, CallsStaySound DEF ParseDisk, ParseDiskFails, vars
<1>3. ASSUME NEW p \in Path, CallGetFile(p) PROVE CallsAreSound'
  <2> DEFINE f == [op |-> "get_file", arg |-> p, pc |-> "populate",
                   target |-> p, level |-> 1, todo |-> {}, left |-> 0]
  <2>1. stack' = Append(stack, f) /\ UNCHANGED <<image, tree>> /\ phase = "open"
    BY <1>3 DEF CallGetFile, MayCall
  <2>2. f.op = "get_file" /\ f.pc = "populate" /\ f.level = 1 /\ f.target = p /\ f.arg = p
    OBVIOUS
  <2> HIDE DEF f
  <2>3. 1 > Len(p) => tree[p].kind # "SparseDir"
    <3>1. 1 > Len(p) => p = ROOT_PATH
      BY EmptySeq, LenProperties DEF Path, ROOT_PATH
    <3> QED BY <2>1, <3>1 DEF IInv, TreeShape, IsLoaded
  <2>4. Sound(image, tree, f)
    BY <2>2, <2>3 DEF Sound
  <2> QED BY <1>1, <2>1, <2>4, CallsStaySound
<1>4. ASSUME NEW p, CallEntries(p) PROVE CallsAreSound'
  <2> DEFINE f == [op |-> "entries", arg |-> p, pc |-> "scan",
                   target |-> << >>, level |-> 1, todo |-> {}, left |-> 0]
  <2>1. stack' = Append(stack, f) /\ UNCHANGED <<image, tree>>
    BY <1>4 DEF CallEntries
  <2>2. Sound(image, tree, f)
    BY DEF Sound
  <2> QED BY <1>1, <2>1, <2>2, CallsStaySound
<1>5. CASE PopulatePath
  BY <1>5, PopulateIsSound
<1>6. CASE CallPart
  BY <1>6, CallPartIsSound
<1> QED BY <1>2, <1>3, <1>4, <1>5, <1>6 DEF AnyNext, Step, CallPart

\* The calls in progress agree with the disc, those that wait included: none has
\* more regions left to write than its file has, and entries populates cached
\* directories that begin with its prefix.
THEOREM CallSoundness == Spec => []CallsAreSound
<1>1. Init => CallsAreSound
  BY DEF Init, CallsAreSound
<1>2. IInv /\ CallsAreSound /\ [Next]_vars => CallsAreSound'
  BY NextIsSound, NextIsAny
<1> QED BY <1>1, <1>2, Inductive, PTL DEF Spec

\* All three invariants: the tree and the calls agree with each other and with
\* the disc.
MInv == IInv /\ TreeMatchesDisc /\ CallsAreSound

\* Every step of the disc, with any path, keeps them.
LEMMA NextKeepsMInv == MInv /\ [AnyNext]_vars => MInv'
BY NextIInv, NextMatches, NextIsSound DEF MInv

===============================================================================
