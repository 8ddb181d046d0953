-------------------------- MODULE TransparencyProofs --------------------------
(***************************************************************************)
(* FileTree implements DiscService, for every set of names, addresses and  *)
(* images and every nesting of calls: whatever was asked before, an answer *)
(* is one that the disc without a cache gives.  A step of FileTree is a    *)
(* step of DiscService when a call begins or ends, and none otherwise.     *)
(***************************************************************************)
EXTENDS DiscAgreementProofs

-----------------------------------------------------------------------------
(* The words of DiscService *)

\* DiscService speaks of listings, walks and paths as FileTree does.
LEMMA SameNames ==
  ASSUME NEW l, NEW n
  PROVE  /\ Service!Named(l, n) = Named(l, n)
         /\ Service!LastNamed(l, n) = LastNamed(l, n)
<1>1. Service!Named(l, n) = Named(l, n)
  BY DEF Service!Named, Named
<1> QED BY <1>1 DEF Service!LastNamed, LastNamed

\* Both mean the same by a directory of the disc,
LEMMA SameDirectory ==
  ASSUME NEW img, NEW p, NEW d
  PROVE  Service!DirectoryAt(img, p, d) <=> DirectoryAt(img, p, d)
<1>1. ASSUME NEW w PROVE Service!IsWalk(img, p, w) <=> IsWalk(img, p, w)
  BY SameNames DEF Service!IsWalk, IsWalk
<1> QED BY <1>1 DEF Service!DirectoryAt, DirectoryAt

\* by the entry of a path,
LEMMA SameEntry ==
  ASSUME NEW img, NEW p, NEW e
  PROVE  Service!EntryAt(img, p, e) <=> EntryAt(img, p, e)
BY SameNames, SameDirectory DEF Service!EntryAt, EntryAt

\* by a path that exists,
LEMMA SameOnDisc ==
  ASSUME NEW img, NEW p
  PROVE  Service!OnDisc(img, p) <=> OnDisc(img, p)
BY SameNames, SameDirectory DEF Service!OnDisc, OnDisc

\* by the order of paths and the prefix test,
LEMMA SameOrder ==
  ASSUME NEW p, NEW q
  PROVE  /\ Service!PathLess(p, q) <=> PathLess(p, q)
         /\ Service!PathIsPrefix(p, q) <=> PathIsPrefix(p, q)
<1>1. ASSUME NEW a, NEW b
      PROVE  /\ Service!NameLess(a, b) <=> NameLess(a, b)
             /\ Service!NameIsPrefix(a, b) <=> NameIsPrefix(a, b)
  BY DEF Service!NameLess, NameLess, Service!NameIsPrefix, NameIsPrefix
<1> QED BY <1>1 DEF Service!PathLess, PathLess, Service!PathIsPrefix, PathIsPrefix

\* and by images and entries.
LEMMA SameSets ==
  Service!Image = Image /\ Service!DirEntry = DirEntry /\ Service!NoExtent = NoExtent
BY DEF Service!Image, Image, Service!DirEntry, DirEntry, Service!NoExtent, NoExtent,
       Service!Retrieval, Retrieval

-----------------------------------------------------------------------------
(* Requests *)

RequestOf(f) == [op |-> f.op, arg |-> f.arg]

RequestsOf(s) == [i \in 1 .. Len(s) |-> RequestOf(s[i])]

Request == [op : {"get_file", "entries"}, arg : Path]

\* Each call in progress has one request, in the same place.
LEMMA RequestsOfCalls ==
  ASSUME NEW s \in Seq(Frame)
  PROVE  /\ RequestsOf(s) \in Seq(Request) /\ Len(RequestsOf(s)) = Len(s)
         /\ Len(s) \in Nat
         /\ \A i \in 1 .. Len(s) : RequestsOf(s)[i] = RequestOf(s[i])
<1>1. Len(s) \in Nat /\ \A i \in 1 .. Len(s) : s[i] \in Frame
  BY LenProperties, ElementOfSeq
<1>2. \A i \in 1 .. Len(s) : RequestOf(s[i]) \in Request
  BY <1>1 DEF RequestOf, Request, Frame
<1> QED BY <1>1, <1>2 DEF RequestsOf

\* The requests of the calls in progress follow the calls: one more, one less,
\* or another frame for the same request.
LEMMA RequestsFollow ==
  ASSUME NEW s \in Seq(Frame)
  PROVE  /\ \A f \in Frame : RequestsOf(Append(s, f)) = Append(RequestsOf(s), RequestOf(f))
         /\ s # << >> =>
              /\ RequestsOf(s) # << >>
              /\ RequestsOf(s)[Len(s)] = RequestOf(s[Len(s)])
              /\ RequestsOf(SubSeq(s, 1, Len(s) - 1)) =
                   SubSeq(RequestsOf(s), 1, Len(RequestsOf(s)) - 1)
              /\ \A f \in Frame : RequestOf(f) = RequestOf(s[Len(s)]) =>
                   RequestsOf([s EXCEPT ![Len(s)] = f]) = RequestsOf(s)
<1> DEFINE r == RequestsOf(s)
<1>1. /\ r \in Seq(Request) /\ Len(r) = Len(s) /\ Len(s) \in Nat
      /\ \A i \in 1 .. Len(s) : r[i] = RequestOf(s[i]) /\ r[i] \in Request
      /\ \A i \in 1 .. Len(s) : s[i] \in Frame
  BY RequestsOfCalls, ElementOfSeq
<1> HIDE DEF r
<1>2. ASSUME NEW f \in Frame
      PROVE  RequestsOf(Append(s, f)) = Append(r, RequestOf(f))
  <2> DEFINE u == Append(s, f)
             v == Append(r, RequestOf(f))
  <2>1. /\ u \in Seq(Frame) /\ Len(u) = Len(s) + 1 /\ u[Len(s) + 1] = f
        /\ \A i \in 1 .. Len(s) : u[i] = s[i]
    BY <1>1, AppendProperties
  <2>2. RequestOf(f) \in Request
    BY DEF RequestOf, Request, Frame
  <2>3. /\ v \in Seq(Request) /\ Len(v) = Len(s) + 1
        /\ v[Len(s) + 1] = RequestOf(f)
        /\ \A i \in 1 .. Len(s) : v[i] = r[i]
    BY <1>1, <2>2, AppendProperties
  <2> HIDE DEF u, v
  <2>4. /\ RequestsOf(u) \in Seq(Request) /\ Len(RequestsOf(u)) = Len(s) + 1
        /\ \A i \in 1 .. Len(s) + 1 : RequestsOf(u)[i] = RequestOf(u[i])
    BY <2>1, RequestsOfCalls
  <2>5. \A i \in 1 .. Len(s) + 1 : RequestsOf(u)[i] = v[i]
    BY <1>1, <2>1, <2>3, <2>4
  <2>6. RequestsOf(u) = v
    BY <2>3, <2>4, <2>5, SeqEqual
  <2> QED BY <2>6 DEF u, v
<1>3. ASSUME s # << >>
      PROVE  Len(s) \in 1 .. Len(s) /\ r # << >> /\ r[Len(s)] = RequestOf(s[Len(s)])
  <2>1. Len(s) \in 1 .. Len(s)
    BY <1>1, <1>3, EmptySeq
  <2> QED BY <1>1, <2>1
<1>4. ASSUME s # << >>
      PROVE  RequestsOf(SubSeq(s, 1, Len(s) - 1)) = SubSeq(r, 1, Len(r) - 1)
  <2>1. PICK n \in Nat : n = Len(s) - 1 /\ n <= Len(s)
    <3>1. Len(s) >= 1
      BY <1>1, <1>3, <1>4
    <3>2. Len(s) - 1 \in Nat /\ Len(s) - 1 <= Len(s)
      BY <1>1, <3>1
    <3> QED BY <3>2
  <2>2. \A i \in 1 .. n : s[i] \in Frame /\ r[i] \in Request /\ r[i] = RequestOf(s[i])
    BY <1>1, <2>1
  <2> DEFINE u == SubSeq(s, 1, n)
             v == SubSeq(r, 1, n)
  <2>3. /\ u \in Seq(Frame) /\ Len(u) = n /\ \A i \in 1 .. n : u[i] = s[i]
    BY <2>2, SubSeqProperties
  <2>4. /\ v \in Seq(Request) /\ Len(v) = n /\ \A i \in 1 .. n : v[i] = r[i]
    BY <2>2, SubSeqProperties
  <2> HIDE DEF u, v
  <2>5. /\ RequestsOf(u) \in Seq(Request) /\ Len(RequestsOf(u)) = n
        /\ \A i \in 1 .. n : RequestsOf(u)[i] = RequestOf(u[i])
    BY <2>3, RequestsOfCalls
  <2>6. RequestsOf(u) = v
    BY <2>2, <2>3, <2>4, <2>5, SeqEqual
  <2>7. Len(s) - 1 = n /\ Len(r) - 1 = n
    BY <1>1, <2>1
  <2> QED BY <2>6, <2>7 DEF u, v
<1>5. ASSUME NEW f \in Frame, s # << >>, RequestOf(f) = RequestOf(s[Len(s)])
      PROVE  RequestsOf([s EXCEPT ![Len(s)] = f]) = r
  <2> DEFINE u == [s EXCEPT ![Len(s)] = f]
  <2>1. /\ u \in Seq(Frame) /\ Len(u) = Len(s)
        /\ \A i \in 1 .. Len(s) : u[i] = IF i = Len(s) THEN f ELSE s[i]
    BY <1>3, <1>5, ExceptSeq
  <2> HIDE DEF u
  <2>2. /\ RequestsOf(u) \in Seq(Request) /\ Len(RequestsOf(u)) = Len(s)
        /\ \A i \in 1 .. Len(s) : RequestsOf(u)[i] = RequestOf(u[i])
    BY <2>1, RequestsOfCalls
  <2>3. \A i \in 1 .. Len(s) : RequestsOf(u)[i] = r[i]
    BY <1>1, <1>5, <2>1, <2>2
  <2>4. RequestsOf(u) = r
    BY <1>1, <2>2, <2>3, SeqEqual
  <2> QED BY <2>4 DEF u
<1> QED BY <1>2, <1>3, <1>4, <1>5 DEF r

-----------------------------------------------------------------------------
(* How a step of FileTree looks to the clients *)

\* The refinement mapping takes the calls to their requests.
LEMMA RequestsAre == Requests = RequestsOf(stack) /\ Requests' = RequestsOf(stack')
BY DEF Requests, RequestsOf, RequestOf

\* The innermost call and its request.
LEMMA TopRequest ==
  ASSUME MInv, stack # << >>
  PROVE  /\ stack \in Seq(Frame) /\ Top \in Frame /\ Top \in Grounded(tree)
         /\ Sound(image, tree, Top) /\ Top.arg \in Path
         /\ Requests # << >> /\ Len(Requests) = Len(stack) /\ Len(stack) \in Nat \ {0}
         /\ Requests[Len(Requests)] = RequestOf(Top)
<1>1. stack \in Seq(Frame) /\ Top \in Frame /\ Top \in Grounded(tree) /\ Top.arg \in Path
  BY TopIsGrounded DEF MInv, IInv, TypeOK, Frame
<1>2. Len(stack) \in Nat \ {0} /\ Len(stack) \in 1 .. Len(stack)
  BY <1>1, LenProperties, EmptySeq
<1>3. Sound(image, tree, Top)
  BY <1>2 DEF MInv, CallsAreSound, Top
<1> QED BY <1>1, <1>2, <1>3, RequestsAre, RequestsOfCalls, RequestsFollow DEF Top

\* A frame that changes within its call is nothing to the client.
LEMMA Advances ==
  ASSUME MInv, stack # << >>, NEW f \in Frame, SetTop(f), RequestOf(f) = RequestOf(Top),
         UNCHANGED <<image, phase, reply>>
  PROVE  UNCHANGED Service!sVars
<1>1. stack \in Seq(Frame)
  BY TopRequest
<1>2. Requests' = Requests
  BY <1>1, RequestsAre, RequestsFollow DEF SetTop, Top
<1>3. Status' = Status
  BY DEF Status
<1> QED BY <1>2, <1>3 DEF Service!sVars

\* A call that returns an outcome the disc allows is an answer.
LEMMA Answers ==
  ASSUME MInv, stack # << >>, phase = "open", NEW out, Return(out),
         Service!IsAnswer(RequestOf(Top), out)
  PROVE  Service!Answer
<1>1. /\ stack \in Seq(Frame) /\ Requests # << >>
      /\ Requests[Len(Requests)] = RequestOf(Top)
  BY TopRequest
<1>2. Requests' = SubSeq(Requests, 1, Len(Requests) - 1)
  BY <1>1, RequestsAre, RequestsFollow DEF Return, Caller
<1>3. Status = "open" /\ Status' = Status /\ image' = image
  BY DEF Status, Return
<1>4. /\ reply'.op = RequestOf(Top).op /\ reply'.arg = RequestOf(Top).arg
      /\ reply'.out = out
  BY DEF Return, RequestOf
<1> QED BY <1>1, <1>2, <1>3, <1>4 DEF Service!Answer

\* A panic that the disc allows ends the program.
LEMMA Aborts ==
  ASSUME MInv, stack # << >>, phase = "open", Panic, Service!MayAbort(RequestOf(Top))
  PROVE  Service!Abort
<1>1. Requests # << >> /\ Requests[Len(Requests)] = RequestOf(Top)
  BY TopRequest
<1>2. Requests' = << >>
  <2>1. stack' = << >>
    BY DEF Panic
  <2>2. Len(RequestsOf(<< >>)) = 0 /\ RequestsOf(<< >>) \in Seq(Request)
    BY EmptySeq, RequestsOfCalls
  <2> QED BY <2>1, <2>2, RequestsAre, EmptySeq
<1>3. Status = "open" /\ Status' = "ended" /\ image' = image
  BY DEF Status, Panic
<1>4. reply'.out.tag = "Panic"
  BY DEF Panic, Outcome
<1> QED BY <1>1, <1>2, <1>3, <1>4 DEF Service!Abort

\* A panic within a call that a Write made.
LEMMA AbortsWithin ==
  ASSUME MInv, stack # << >>, phase = "open", Panic, Borrowed, Top.pc # "write"
  PROVE  Service!Abort
<1>1. Len(Requests) = Len(stack) /\ Len(stack) \in Nat \ {0}
  BY TopRequest
<1>2. PICK i \in 1 .. Len(stack) : stack[i].pc = "write"
  BY DEF Borrowed
<1>3. i # Len(stack)
  BY <1>2 DEF Top
<1>4. Len(Requests) > 1
  BY <1>1, <1>2, <1>3
<1> QED BY <1>4, Aborts DEF Service!MayAbort

\* The disc is opened, or not.
LEMMA Opening ==
  ASSUME MInv, ParseDisk \/ ParseDiskFails
  PROVE  Service!Open
<1>1. Requests' = Requests
  BY RequestsAre DEF ParseDisk, ParseDiskFails
<1>2. Status = "closed"
  BY DEF ParseDisk, ParseDiskFails, Status
<1>3. Status' = IF image.readable[image.root] = "Ok" THEN "open" ELSE "ended"
  BY DEF ParseDisk, ParseDiskFails, Status
<1>4. UNCHANGED <<image, reply>>
  BY DEF ParseDisk, ParseDiskFails
<1> QED BY <1>1, <1>2, <1>3, <1>4 DEF Service!Open

\* A client calls, at most MaxDepth deep.
LEMMA Calling ==
  ASSUME MInv,
         \/ \E p \in FilePaths : CallGetFile(p)
         \/ \E p \in Prefixes : CallEntries(p)
  PROVE  Service!Call
<1>1. MayCall /\ UNCHANGED <<image, phase, reply>>
  BY DEF CallGetFile, CallEntries
<1>2. stack \in Seq(Frame) /\ Len(Requests) = Len(stack)
  BY RequestsAre, RequestsOfCalls DEF MInv, IInv, TypeOK
<1>3. Len(Requests) < MaxDepth
  <2>1. CASE stack = << >>
    <3>1. Len(stack) = 0
      BY <2>1
    <3> QED BY <1>2, <3>1, MaxDepthAssumption
  <2>2. CASE stack # << >>
    BY <1>1, <1>2, <2>2 DEF MayCall
  <2> QED BY <2>1, <2>2
<1>4. Status = "open" /\ Status' = Status
  BY <1>1 DEF MayCall, Status
<1>5. ASSUME NEW p \in FilePaths, CallGetFile(p)
      PROVE  Requests' = Append(Requests, [op |-> "get_file", arg |-> p])
  <2> DEFINE f == [op |-> "get_file", arg |-> p, pc |-> "populate",
                   target |-> p, level |-> 1, todo |-> {}, left |-> 0]
  <2>1. f \in Frame /\ RequestOf(f) = [op |-> "get_file", arg |-> p]
    BY PathsAssumption DEF Frame, RequestOf
  <2>2. stack' = Append(stack, f)
    BY <1>5 DEF CallGetFile
  <2> HIDE DEF f
  <2> QED BY <1>2, <2>1, <2>2, RequestsAre, RequestsFollow
<1>6. ASSUME NEW p \in Prefixes, CallEntries(p)
      PROVE  Requests' = Append(Requests, [op |-> "entries", arg |-> p])
  <2> DEFINE f == [op |-> "entries", arg |-> p, pc |-> "scan",
                   target |-> << >>, level |-> 1, todo |-> {}, left |-> 0]
  <2>1. f \in Frame /\ RequestOf(f) = [op |-> "entries", arg |-> p]
    BY PathsAssumption, EmptySeq DEF Frame, RequestOf, Path
  <2>2. stack' = Append(stack, f)
    BY <1>6 DEF CallEntries
  <2> HIDE DEF f
  <2> QED BY <1>2, <2>1, <2>2, RequestsAre, RequestsFollow
<1> QED BY <1>1, <1>3, <1>4, <1>5, <1>6 DEF Service!Call

-----------------------------------------------------------------------------
(* The outcomes of get_file *)

\* A prefix of a path: its length, its last name and what is above it.
LEMMA PrefixEnds ==
  ASSUME NEW p \in Path, NEW j \in 1 .. Len(p)
  PROVE  /\ SubSeq(p, 1, j)[Len(SubSeq(p, 1, j))] = p[j]
         /\ Len(SubSeq(p, 1, j)) = j
         /\ SubSeq(SubSeq(p, 1, j), 1, Len(SubSeq(p, 1, j)) - 1) = SubSeq(p, 1, j - 1)
         /\ j # Len(p) => SubSeq(p, 1, j) # p
         /\ j - 1 \in 0 .. Len(p) /\ j - 1 # Len(p) /\ j - 1 + 1 = j
<1>1. Len(p) \in Nat /\ p \in Seq(Name) /\ \A i \in 1 .. Len(p) : p[i] \in Name
  BY LenProperties, ElementOfSeq DEF Path
<1>2. \A i \in 1 .. j : p[i] \in Name
  BY <1>1
<1>3. Len(SubSeq(p, 1, j)) = j /\ \A i \in 1 .. j : SubSeq(p, 1, j)[i] = p[i]
  BY <1>1, <1>2, SubSeqProperties
<1>4. Parent(SubSeq(p, 1, j)) = SubSeq(p, 1, j - 1)
  BY PrefixOfPath
<1>5. j \in 1 .. j /\ j - 1 \in 0 .. Len(p) /\ j - 1 # Len(p) /\ j - 1 + 1 = j
  BY <1>1
<1> QED BY <1>3, <1>4, <1>5 DEF Parent

\* The entry of a prefix of the path decides the outcome: a directory that
\* cannot be retrieved, a file in the way, or the file itself.
LEMMA EntryDecides ==
  ASSUME NEW p \in Path, NEW j \in 1 .. Len(p), NEW e, NEW out,
         EntryAt(image, SubSeq(p, 1, j), e),
         \/ /\ e.dir
            /\ image.readable[e.address] \in {"LookupError", "ContextError"}
            /\ out.tag = image.readable[e.address] /\ out.val = SubSeq(p, 1, j)
         \/ /\ ~e.dir /\ SubSeq(p, 1, j) # p
            /\ out.tag = "InvalidTarget" /\ out.val = SubSeq(p, 1, j)
         \/ /\ ~e.dir /\ SubSeq(p, 1, j) = p
            /\ IF image.extent[e.address] = NoExtent
                 THEN out.tag = "LookupError" /\ out.val = p
                 ELSE \/ out.tag = "Ok" /\ out.val = e
                      \/ /\ image.extent[e.address] > 0
                         /\ out.tag = "StdError" /\ out.val = p
  PROVE  Service!FileOutcome(p, out)
<1>1. PICK d \in Addr :
        /\ DirectoryAt(image, SubSeq(p, 1, j - 1), d)
        /\ Named(image.listing[d], p[j]) # {}
        /\ e = LastNamed(image.listing[d], p[j])
  BY PrefixEnds DEF EntryAt
<1>2. PICK k : k = j - 1
  OBVIOUS
<1>3. k \in 0 .. Len(p) /\ k # Len(p) /\ k + 1 = j
  BY <1>2, PrefixEnds
<1>4. Service!DirectoryAt(image, Service!Upto(p, k), d)
  BY <1>1, <1>2, SameDirectory DEF Service!Upto
<1>5. Service!FileOutcomeAt(p, k, d, out)
  <2>1. /\ Service!Upto(p, k + 1) = SubSeq(p, 1, j) /\ p[k + 1] = p[j]
        /\ Service!NoExtent = NoExtent
    BY <1>3, SameSets DEF Service!Upto
  <2>2. /\ Service!Named(image.listing[d], p[j]) # {}
        /\ Service!LastNamed(image.listing[d], p[j]) = e
    BY <1>1, SameNames
  <2> QED BY <1>3, <2>1, <2>2 DEF Service!FileOutcomeAt
<1> QED BY <1>3, <1>4, <1>5 DEF Service!FileOutcome

\* A loaded directory is a directory of the disc.
LEMMA LoadedIsDirectory ==
  ASSUME MInv, NEW p, IsLoaded(tree, p)
  PROVE  \E d \in Addr : DirectoryAt(image, p, d) /\ tree[p].val = image.listing[d]
BY DEF MInv, TreeMatchesDisc, IsLoaded

\* The last name of an uncached path is not in its loaded parent's listing.
LEMMA UncachedIsUnnamed ==
  ASSUME MInv, NEW p \in Path, NEW n \in Name, IsLoaded(tree, p),
         Append(p, n) \notin DOMAIN tree
  PROVE  Named(tree[p].val, n) = {}
<1> SUFFICES ASSUME NEW i \in Named(tree[p].val, n) PROVE FALSE
  OBVIOUS
<1>1. i \in 1 .. Len(tree[p].val) /\ tree[p].val[i].name = n
  BY DEF Named
<1>2. Append(p, n) \in ChildPaths(p, tree[p].val)
  BY <1>1 DEF ChildPaths
<1> QED BY <1>2 DEF MInv, IInv, TreeShape, IsLoaded

\* A call that populates stands at a prefix of its target.
LEMMA StemIsPrefix ==
  ASSUME MInv, Populating
  PROVE  /\ Top.level \in 1 .. Len(Top.target) /\ Top.target \in Path
         /\ Stem = SubSeq(Top.target, 1, Top.level)
         /\ stack # << >> /\ phase = "open" /\ Top.pc = "populate"
         /\ Top \in Frame /\ Top \in Grounded(tree) /\ Sound(image, tree, Top)
         /\ Top.op \in {"get_file", "entries"}
         /\ Top.op = "get_file" => Top.target = Top.arg
<1>1. /\ stack # << >> /\ phase = "open" /\ Top.pc = "populate" /\ Top.level <= Len(Top.target)
  BY DEF Populating
<1>2. Top \in Frame /\ Top \in Grounded(tree) /\ Sound(image, tree, Top)
  BY <1>1, TopRequest
<1>3. Top.level \in Nat \ {0} /\ Top.target \in Path /\ Top.op \in {"get_file", "entries"}
  BY <1>2 DEF Frame
<1>4. Len(Top.target) \in Nat
  BY <1>3, LenProperties DEF Path
<1> QED BY <1>1, <1>2, <1>3, <1>4 DEF Stem, Grounded

\* A name that is missing from a directory: reported if nothing else is in it.
LEMMA MissingDecides ==
  ASSUME MInv, NEW p \in Path, NEW j \in 1 .. Len(p),
         IsLoaded(tree, SubSeq(p, 1, j - 1)), SubSeq(p, 1, j) \notin DOMAIN tree
  PROVE  IF tree[SubSeq(p, 1, j - 1)].val = << >>
           THEN Service!FileOutcome(p, Outcome("MissingTarget", SubSeq(p, 1, j)))
           ELSE Service!MissingAmongOthers(p)
<1> DEFINE above == SubSeq(p, 1, j - 1)
<1>1. PICK d \in Addr : DirectoryAt(image, above, d) /\ tree[above].val = image.listing[d]
  BY LoadedIsDirectory
<1>2. p[j] \in Name /\ above \in Path /\ Append(above, p[j]) = SubSeq(p, 1, j)
  <2>1. /\ SubSeq(p, 1, j) \in Path /\ SubSeq(p, 1, j) # ROOT_PATH
        /\ Parent(SubSeq(p, 1, j)) = above
    BY PrefixOfPath
  <2>2. SubSeq(p, 1, j)[Len(SubSeq(p, 1, j))] = p[j]
    BY PrefixEnds
  <2> QED BY <2>1, <2>2, ParentOfPath
<1>3. Named(image.listing[d], p[j]) = {}
  BY <1>1, <1>2, UncachedIsUnnamed
<1>4. PICK k : k = j - 1
  OBVIOUS
<1>5. Len(p) \in Nat
  BY LenProperties DEF Path
<1>6. k \in 0 .. Len(p) /\ k \in 0 .. Len(p) - 1 /\ k # Len(p) /\ k + 1 = j
  BY <1>4, <1>5
<1>7. Service!DirectoryAt(image, Service!Upto(p, k), d)
  BY <1>1, <1>4, SameDirectory DEF Service!Upto
<1>8. Service!Named(image.listing[d], p[k + 1]) = {}
  BY <1>3, <1>6, SameNames
<1>9. CASE tree[above].val = << >>
  <2> DEFINE out == Outcome("MissingTarget", SubSeq(p, 1, j))
  <2>1. out.tag = "MissingTarget" /\ out.val = Service!Upto(p, k + 1)
    BY <1>6 DEF Outcome, Service!Upto
  <2>2. image.listing[d] = << >>
    BY <1>1, <1>9
  <2> HIDE DEF out
  <2>3. Service!FileOutcomeAt(p, k, d, out)
    BY <1>6, <1>8, <2>1, <2>2 DEF Service!FileOutcomeAt
  <2>4. Service!FileOutcome(p, out)
    BY <1>6, <1>7, <2>3 DEF Service!FileOutcome
  <2> QED BY <1>9, <2>4 DEF out
<1>10. CASE tree[above].val # << >>
  <2>1. image.listing[d] # << >>
    BY <1>1, <1>10
  <2> QED BY <1>6, <1>7, <1>8, <1>10, <2>1 DEF Service!MissingAmongOthers
<1> QED BY <1>9, <1>10

\* A directory in the file's place.
LEMMA DirectoryDecides ==
  ASSUME MInv, NEW p \in Path, IsLoaded(tree, p)
  PROVE  Service!FileOutcome(p, Outcome("InvalidTarget", p))
<1>1. PICK d \in Addr : DirectoryAt(image, p, d)
  BY LoadedIsDirectory
<1>2. Len(p) \in 0 .. Len(p)
  BY LenProperties DEF Path
<1>3. Service!DirectoryAt(image, Service!Upto(p, Len(p)), d)
  BY <1>1, SameDirectory, WholeAndEmptyPrefix DEF Service!Upto
<1>4. Service!FileOutcomeAt(p, Len(p), d, Outcome("InvalidTarget", p))
  BY DEF Service!FileOutcomeAt, Outcome
<1> QED BY <1>2, <1>3, <1>4 DEF Service!FileOutcome

\* Everything above a cached path is loaded.
LEMMA AncestorsLoaded ==
  ASSUME IInv, NEW p \in DOMAIN tree, NEW k \in 0 .. Len(p) - 1
  PROVE  IsLoaded(tree, SubSeq(p, 1, k))
<1>1. p \in Path /\ Len(p) \in Nat
  BY LenProperties DEF IInv, TypeOK, Path
<1>2. ASSUME NEW j \in 1 .. Len(p), SubSeq(p, 1, j) \in DOMAIN tree
      PROVE  IsLoaded(tree, SubSeq(p, 1, j - 1))
  BY <1>1, <1>2, PrefixOfPath DEF IInv, TreeShape
<1> DEFINE Bad == {n \in Nat : \E i \in 0 .. Len(p) - 1 :
                      n = Len(p) - 1 - i /\ ~IsLoaded(tree, SubSeq(p, 1, i))}
<1> SUFFICES ASSUME ~IsLoaded(tree, SubSeq(p, 1, k)) PROVE FALSE
  OBVIOUS
<1>3. Bad \subseteq Nat /\ Bad # {}
  <2>1. Len(p) - 1 - k \in Nat
    BY <1>1
  <2> QED BY <2>1
<1>4. PICK n \in Bad : \A m \in Bad : ~(<<m, n>> \in OpToRel(<, Nat))
  BY <1>3, NatLessThanWellFounded, WFMin
<1>5. \A m \in Bad : ~(m < n)
  <2>1. \A m \in Bad : m \in Nat
    BY <1>3
  <2> QED BY <1>4, <2>1, Zenon DEF OpToRel
<1>6. PICK i \in 0 .. Len(p) - 1 :
        n = Len(p) - 1 - i /\ ~IsLoaded(tree, SubSeq(p, 1, i))
  BY <1>4
<1>7. PICK j \in Nat : j = i + 1
  OBVIOUS
<1>8. j \in 1 .. Len(p) /\ j - 1 = i
  BY <1>1, <1>6, <1>7
<1>9. SubSeq(p, 1, j) \in DOMAIN tree
  <2>1. CASE j = Len(p)
    BY <1>1, <2>1, WholeAndEmptyPrefix
  <2>2. CASE j # Len(p)
    <3>1. j \in 0 .. Len(p) - 1 /\ Len(p) - 1 - j \in Nat /\ Len(p) - 1 - j < n
      BY <1>1, <1>6, <1>7, <1>8, <2>2
    <3>2. Len(p) - 1 - j \notin Bad
      BY <1>5, <3>1
    <3>3. IsLoaded(tree, SubSeq(p, 1, j))
      BY <3>1, <3>2
    <3> QED BY <3>3 DEF IsLoaded
  <2> QED BY <2>1, <2>2
<1> QED BY <1>2, <1>6, <1>8, <1>9

\* entries populates cached directories only, so it finds all of its way loaded.
LEMMA EntriesFindTheirWay ==
  ASSUME MInv, Populating, Top.op = "entries"
  PROVE  /\ Stem \in DOMAIN tree /\ tree[Stem].kind # "File"
         /\ Stem = Top.target \/ IsLoaded(tree, Stem)
         /\ PathIsPrefix(Top.arg, Top.target)
<1>1. /\ Top.level \in 1 .. Len(Top.target) /\ Top.target \in Path
      /\ Stem = SubSeq(Top.target, 1, Top.level)
  BY StemIsPrefix
<1>2. /\ Top.target \in DOMAIN tree /\ tree[Top.target].kind # "File"
      /\ PathIsPrefix(Top.arg, Top.target)
  BY StemIsPrefix DEF Sound
<1>3. CASE Top.level = Len(Top.target)
  <2>1. Stem = Top.target
    BY <1>1, <1>3, WholeAndEmptyPrefix
  <2> QED BY <1>2, <2>1
<1>4. CASE Top.level # Len(Top.target)
  <2>1. Len(Top.target) \in Nat
    BY <1>1, LenProperties DEF Path
  <2>2. Top.level \in 0 .. Len(Top.target) - 1
    BY <1>1, <1>4, <2>1
  <2>3. IsLoaded(tree, Stem)
    BY <1>1, <1>2, <2>2, AncestorsLoaded DEF MInv
  <2> QED BY <1>2, <2>3 DEF IsLoaded
<1> QED BY <1>3, <1>4

\* Every step of populate_path is a step of the disc's service, or none.
LEMMA PopulateRefines ==
  ASSUME MInv, PopulatePath
  PROVE  Service!Next \/ UNCHANGED Service!sVars
<1>1. Populating
  BY DEF PopulatePath, Populating, PopulateCached, PopulateFile, PopulateThroughFile,
         StopsAtFile, PopulateMissing, PopulateDirectory, PopulateUnreadable, AtDirectory
<1>2. /\ Top.level \in 1 .. Len(Top.target) /\ Top.target \in Path
      /\ Stem = SubSeq(Top.target, 1, Top.level)
      /\ stack # << >> /\ phase = "open" /\ Top.pc = "populate"
      /\ Top \in Frame /\ Top.op \in {"get_file", "entries"}
      /\ Top.op = "get_file" => Top.target = Top.arg
  BY <1>1, StemIsPrefix
<1>3. IInv /\ IsLoaded(tree, ParentPath) /\ ParentPath = SubSeq(Top.target, 1, Top.level - 1)
  BY <1>1, StemIsGrounded DEF MInv, ParentPath
<1>4. ASSUME NEW out, Return(out), Top.op = "get_file", Service!FileOutcome(Top.arg, out)
      PROVE  Service!Next
  <2>1. Service!IsAnswer(RequestOf(Top), out)
    BY <1>4 DEF Service!IsAnswer, RequestOf
  <2> QED BY <1>2, <1>4, <2>1, Answers DEF Service!Next
<1>5. ASSUME Panic, Service!MayAbort(RequestOf(Top))
      PROVE  Service!Next
  BY <1>2, <1>5, Aborts DEF Service!Next
<1>6. CASE PopulateCached
  <2>1. /\ [Top EXCEPT !.level = @ + 1] \in Frame
        /\ RequestOf([Top EXCEPT !.level = @ + 1]) = RequestOf(Top)
    BY <1>2 DEF Frame, RequestOf
  <2> QED BY <1>2, <1>6, <2>1, Advances DEF PopulateCached, NextLevel
<1>7. CASE PopulateFile
  <2>1. Len(Top.target) + 1 \in Nat \ {0}
    BY <1>2, LenProperties DEF Path
  <2>2. /\ [Top EXCEPT !.level = Len(Top.target) + 1] \in Frame
        /\ RequestOf([Top EXCEPT !.level = Len(Top.target) + 1]) = RequestOf(Top)
    BY <1>2, <2>1 DEF Frame, RequestOf
  <2> QED BY <1>2, <1>7, <2>2, Advances DEF PopulateFile, PopulateOk
<1>8. CASE PopulateThroughFile
  <2>1. /\ Stem \in DOMAIN tree /\ tree[Stem].kind = "File" /\ Stem # Top.target
        /\ Return(Outcome("InvalidTarget", Stem))
    BY <1>8 DEF PopulateThroughFile, StopsAtFile, Cached
  <2>2. Top.op = "get_file"
    BY <1>1, <1>2, <2>1, EntriesFindTheirWay
  <2>3. EntryAt(image, Stem, tree[Stem].val) /\ ~tree[Stem].val.dir
    BY <2>1, CachedEntry DEF MInv
  <2>4. Service!FileOutcome(Top.arg, Outcome("InvalidTarget", Stem))
    <3> DEFINE out == Outcome("InvalidTarget", Stem)
    <3>1. out.tag = "InvalidTarget" /\ out.val = Stem
      BY DEF Outcome
    <3>2. /\ Top.arg \in Path /\ Top.level \in 1 .. Len(Top.arg)
          /\ Stem = SubSeq(Top.arg, 1, Top.level) /\ Stem # Top.arg
      BY <1>2, <2>1, <2>2
    <3> HIDE DEF out
    <3>3. Service!FileOutcome(Top.arg, out)
      BY <2>3, <3>1, <3>2, EntryDecides
    <3> QED BY <3>3 DEF out
  <2> QED BY <1>4, <2>1, <2>2, <2>4
<1>9. CASE PopulateMissing
  <2>1. Stem \notin DOMAIN tree
    BY <1>9 DEF PopulateMissing
  <2>2. Top.op = "get_file"
    BY <1>1, <1>2, <2>1, EntriesFindTheirWay
  <2>3. IF tree[ParentPath].val = << >>
          THEN Service!FileOutcome(Top.arg, Outcome("MissingTarget", Stem))
          ELSE Service!MissingAmongOthers(Top.arg)
    BY <1>2, <1>3, <2>1, <2>2, MissingDecides
  <2>4. CASE tree[ParentPath].val = << >>
    <3>1. Return(Outcome("MissingTarget", Stem))
      BY <1>3, <1>9, <2>4 DEF PopulateMissing, IsLoaded
    <3> QED BY <1>4, <2>2, <2>3, <2>4, <3>1
  <2>5. CASE tree[ParentPath].val # << >>
    <3>1. Panic
      BY <1>3, <1>9, <2>5 DEF PopulateMissing, IsLoaded
    <3>2. Service!MayAbort(RequestOf(Top))
      BY <2>2, <2>3, <2>5 DEF Service!MayAbort, RequestOf
    <3> QED BY <1>5, <3>1, <3>2
  <2> QED BY <2>4, <2>5
<1>10. CASE PopulateDirectory
  <2>1. CASE Borrowed
    <3>1. Panic
      BY <1>10, <2>1 DEF PopulateDirectory
    <3> QED BY <1>2, <2>1, <3>1, AbortsWithin DEF Service!Next
  <2>2. CASE ~Borrowed
    <3>1. /\ [Top EXCEPT !.level = @ + 1] \in Frame
          /\ RequestOf([Top EXCEPT !.level = @ + 1]) = RequestOf(Top)
      BY <1>2 DEF Frame, RequestOf
    <3> QED BY <1>2, <1>10, <2>2, <3>1, Advances DEF PopulateDirectory, NextLevel
  <2> QED BY <2>1, <2>2
<1>11. CASE PopulateUnreadable
  <2>1. PICK o \in Retrieval \ {"Ok"} :
          AtDirectory(o) /\ IF o = "Panic" THEN Panic ELSE Return(Outcome(o, Stem))
    BY <1>11 DEF PopulateUnreadable
  <2> DEFINE e == tree[Stem].val
  <2>2. /\ Stem \in DOMAIN tree /\ tree[Stem].kind = "SparseDir"
        /\ image.readable[e.address] = o
    BY <2>1 DEF AtDirectory, Cached
  <2>3. e \in DirEntry /\ e.address \in Addr /\ EntryAt(image, Stem, e) /\ e.dir
    BY <2>2, CachedEntry DEF MInv
  <2>4. CASE o = "Panic"
    <3>1. Service!MayAbort(RequestOf(Top))
      BY <2>2, <2>3, <2>4 DEF Service!MayAbort
    <3> QED BY <1>5, <2>1, <2>4, <3>1
  <2>5. CASE o # "Panic" /\ Top.op = "get_file"
    <3>1. o \in {"LookupError", "ContextError"}
      BY <2>1, <2>5 DEF Retrieval
    <3>2. Service!FileOutcome(Top.arg, Outcome(o, Stem))
      <4> DEFINE out == Outcome(o, Stem)
      <4>1. out.tag = image.readable[e.address] /\ out.val = Stem
        BY <2>2 DEF Outcome
      <4>2. image.readable[e.address] \in {"LookupError", "ContextError"}
        BY <2>2, <3>1
      <4>3. /\ Top.arg \in Path /\ Top.level \in 1 .. Len(Top.arg)
            /\ Stem = SubSeq(Top.arg, 1, Top.level)
        BY <1>2, <2>5
      <4> HIDE DEF out, e
      <4>4. Service!FileOutcome(Top.arg, out)
        BY <2>3, <4>1, <4>2, <4>3, EntryDecides
      <4> QED BY <4>4 DEF out
    <3> QED BY <1>4, <2>1, <2>5, <3>2
  <2>6. CASE o # "Panic" /\ Top.op = "entries"
    <3>1. o \in {"LookupError", "ContextError"} /\ Return(Outcome(o, Stem))
      BY <2>1, <2>6 DEF Retrieval
    <3>2. Stem = Top.target /\ PathIsPrefix(Top.arg, Stem)
      BY <1>1, <2>2, <2>6, EntriesFindTheirWay DEF IsLoaded
    <3>3. Service!Unreadable(Top.arg, Stem, o)
      BY <2>2, <2>3, <3>2, SameOrder, SameEntry, SameSets DEF Service!Unreadable
    <3>4. Service!IsAnswer(RequestOf(Top), Outcome(o, Stem))
      BY <2>6, <3>1, <3>3 DEF Service!IsAnswer, Service!EntriesOutcome, RequestOf, Outcome
    <3> QED BY <1>2, <3>1, <3>4, Answers DEF Service!Next
  <2> QED BY <1>2, <2>4, <2>5, <2>6
<1> QED BY <1>6, <1>7, <1>8, <1>9, <1>10, <1>11 DEF PopulatePath

\* The entry of the cached file that get_file is about to write or writes.
LEMMA OpenedFile ==
  ASSUME MInv, stack # << >>, Top.op = "get_file", IsCachedFile(Top.arg)
  PROVE  /\ Top.arg \in Path /\ Len(Top.arg) \in 1 .. Len(Top.arg)
         /\ SubSeq(Top.arg, 1, Len(Top.arg)) = Top.arg
         /\ tree[Top.arg].val \in DirEntry /\ tree[Top.arg].val.address \in Addr
         /\ EntryAt(image, Top.arg, tree[Top.arg].val) /\ ~tree[Top.arg].val.dir
         /\ image.extent[tree[Top.arg].val.address] \in Nat \cup {NoExtent}
<1>1. /\ tree[Top.arg].val \in DirEntry /\ tree[Top.arg].val.address \in Addr
      /\ EntryAt(image, Top.arg, tree[Top.arg].val) /\ ~tree[Top.arg].val.dir
  BY CachedEntry DEF MInv, IsCachedFile
<1>2. Top.arg \in Path /\ Top.arg # ROOT_PATH
  BY <1>1, TopRequest DEF EntryAt, ROOT_PATH
<1>3. Len(Top.arg) \in 1 .. Len(Top.arg) /\ SubSeq(Top.arg, 1, Len(Top.arg)) = Top.arg
  BY <1>2, ParentOfPath, WholeAndEmptyPrefix
<1>4. image.extent[tree[Top.arg].val.address] \in Nat \cup {NoExtent}
  BY <1>1 DEF MInv, IInv, TypeOK, Image
<1> QED BY <1>1, <1>2, <1>3, <1>4

\* What becomes of the file that the path names: not found by the map, written,
\* or given up after a failed write.
LEMMA FileDecides ==
  ASSUME MInv, stack # << >>, phase = "open", Top.op = "get_file", IsCachedFile(Top.arg),
         NEW out, Return(out),
         IF image.extent[tree[Top.arg].val.address] = NoExtent
           THEN out = Outcome("LookupError", Top.arg)
           ELSE \/ out = Outcome("Ok", tree[Top.arg].val)
                \/ /\ image.extent[tree[Top.arg].val.address] > 0
                   /\ out = Outcome("StdError", Top.arg)
  PROVE  Service!Next
<1> DEFINE e == tree[Top.arg].val
<1>1. /\ Top.arg \in Path /\ Len(Top.arg) \in 1 .. Len(Top.arg)
      /\ SubSeq(Top.arg, 1, Len(Top.arg)) = Top.arg
      /\ EntryAt(image, Top.arg, e) /\ ~e.dir
  BY OpenedFile
<1>2. IF image.extent[e.address] = NoExtent
        THEN out.tag = "LookupError" /\ out.val = Top.arg
        ELSE \/ out.tag = "Ok" /\ out.val = e
             \/ /\ image.extent[e.address] > 0
                /\ out.tag = "StdError" /\ out.val = Top.arg
  BY DEF Outcome
<1> HIDE DEF e
<1>3. PICK j \in 1 .. Len(Top.arg) : j = Len(Top.arg)
  BY <1>1
<1>4. Service!FileOutcome(Top.arg, out)
  BY <1>1, <1>2, <1>3, EntryDecides
<1>5. Service!IsAnswer(RequestOf(Top), out)
  BY <1>4 DEF Service!IsAnswer, RequestOf
<1> QED BY <1>5, Answers DEF Service!Next

\* Every step of get_file after populate_path is a step of the service, or none.
LEMMA GetFileRefines ==
  ASSUME MInv, OpenNotAFile \/ OpenFile \/ WriteRegion \/ WriteCutRegion \/ FinishFile
  PROVE  Service!Next \/ UNCHANGED Service!sVars
<1>1. stack # << >> /\ phase = "open" /\ Top.op = "get_file"
  BY DEF OpenNotAFile, OpenFile, ReadyToOpen, WriteRegion, WriteCutRegion, FinishFile,
         Writing, Running
<1>2. /\ Top \in Frame /\ Top \in Grounded(tree) /\ Sound(image, tree, Top)
      /\ Top.arg \in Path
  BY <1>1, TopRequest
<1>3. CASE OpenNotAFile
  <2>1. Top.level > Len(Top.target) /\ ~IsCachedFile(Top.arg)
    BY <1>3 DEF OpenNotAFile, ReadyToOpen, Populated
  <2>2. Top.arg \in DOMAIN tree /\ tree[Top.arg].kind # "SparseDir"
    BY <1>1, <1>2, <2>1 DEF Grounded, Sound
  <2>3. tree[Top.arg] \in FileObject
    BY <2>2 DEF MInv, IInv, TypeOK
  <2>4. IsLoaded(tree, Top.arg)
    BY <2>1, <2>2, <2>3 DEF IsCachedFile, FileObject, IsLoaded
  <2>5. Return(Outcome("InvalidTarget", Top.arg))
    BY <1>3, <2>2 DEF OpenNotAFile
  <2>6. Service!FileOutcome(Top.arg, Outcome("InvalidTarget", Top.arg))
    BY <1>2, <2>4, DirectoryDecides
  <2>7. Service!IsAnswer(RequestOf(Top), Outcome("InvalidTarget", Top.arg))
    BY <1>1, <2>6 DEF Service!IsAnswer, RequestOf
  <2> QED BY <1>1, <2>5, <2>7, Answers DEF Service!Next
<1>4. CASE OpenFile
  <2>1. IsCachedFile(Top.arg)
    BY <1>4 DEF OpenFile
  <2>2. CASE image.extent[tree[Top.arg].val.address] = NoExtent
    <3>1. Return(Outcome("LookupError", Top.arg))
      BY <1>4, <2>2 DEF OpenFile
    <3> QED BY <1>1, <2>1, <2>2, <3>1, FileDecides
  <2>3. CASE image.extent[tree[Top.arg].val.address] # NoExtent
    <3>1. PICK n \in Nat : n = image.extent[tree[Top.arg].val.address]
      BY <1>1, <2>1, <2>3, OpenedFile
    <3>2. /\ SetTop([Top EXCEPT !.pc = "write", !.left = n])
          /\ UNCHANGED <<image, phase, reply>>
      BY <1>4, <2>3, <3>1 DEF OpenFile
    <3>3. /\ [Top EXCEPT !.pc = "write", !.left = n] \in Frame
          /\ RequestOf([Top EXCEPT !.pc = "write", !.left = n]) = RequestOf(Top)
      BY <1>2 DEF Frame, RequestOf
    <3> QED BY <1>1, <3>2, <3>3, Advances
  <2> QED BY <2>2, <2>3
<1>5. ASSUME Writing
      PROVE  /\ IsCachedFile(Top.arg) /\ Top.left \in Nat
             /\ image.extent[tree[Top.arg].val.address] \in Nat
             /\ Top.left <= image.extent[tree[Top.arg].val.address]
  <2>1. /\ IsCachedFile(Top.arg) /\ Top.left \in Nat
        /\ Top.left <= image.extent[tree[Top.arg].val.address]
    BY <1>2, <1>5 DEF Writing, Running, Grounded, Sound, Frame, IsCachedFile
  <2>2. image.extent[tree[Top.arg].val.address] \in Nat \cup {NoExtent}
    BY <1>1, <2>1, OpenedFile
  <2> QED BY <2>1, <2>2 DEF NoExtent
<1>6. \A n \in Nat : n # NoExtent
  BY DEF NoExtent
<1>7. CASE WriteRegion
  <2>1. Writing /\ Top.left > 0
    BY <1>7 DEF WriteRegion
  <2>2. CASE Return(Outcome("StdError", Top.arg))
    <3>1. image.extent[tree[Top.arg].val.address] > 0
      BY <1>5, <2>1
    <3>2. image.extent[tree[Top.arg].val.address] # NoExtent
      BY <1>5, <1>6, <2>1
    <3> QED BY <1>1, <1>5, <2>1, <2>2, <3>1, <3>2, FileDecides
  <2>3. CASE SetTop([Top EXCEPT !.left = @ - 1]) /\ UNCHANGED <<image, phase, tree, faults, reply>>
    <3>1. PICK n \in Nat : n = Top.left - 1
      BY <1>5, <2>1
    <3>2. SetTop([Top EXCEPT !.left = n])
      BY <2>3, <3>1
    <3>3. /\ [Top EXCEPT !.left = n] \in Frame
          /\ RequestOf([Top EXCEPT !.left = n]) = RequestOf(Top)
      BY <1>2 DEF Frame, RequestOf
    <3> QED BY <1>1, <2>3, <3>2, <3>3, Advances
  <2> QED BY <1>7, <2>2, <2>3 DEF WriteRegion
<1>8. CASE WriteCutRegion
  <2>1. /\ Writing /\ Panic
        /\ Top.left > 0 /\ <<tree[Top.arg].val.address, Top.left>> \in image.cut
    BY <1>8 DEF WriteCutRegion, IsCut
  <2>2. Top.left \in 1 .. image.extent[tree[Top.arg].val.address]
    BY <1>5, <2>1
  <2>3. /\ tree[Top.arg].val \in DirEntry /\ EntryAt(image, Top.arg, tree[Top.arg].val)
        /\ ~tree[Top.arg].val.dir
    BY <1>1, <1>5, <2>1, OpenedFile
  <2>4. Service!MayAbort(RequestOf(Top))
    BY <1>1, <2>1, <2>2, <2>3, SameSets, SameEntry DEF Service!MayAbort, RequestOf
  <2> QED BY <1>1, <2>1, <2>4, Aborts DEF Service!Next
<1>9. CASE FinishFile
  <2>1. Writing /\ Return(Outcome("Ok", tree[Top.arg].val))
    BY <1>9 DEF FinishFile
  <2>2. image.extent[tree[Top.arg].val.address] # NoExtent
    BY <1>5, <1>6, <2>1
  <2> QED BY <1>1, <1>5, <2>1, <2>2, FileDecides
<1> QED BY <1>3, <1>4, <1>7, <1>8, <1>9

-----------------------------------------------------------------------------
(* The outcomes of entries *)

\* Whatever lies between the first name that begins with x and another such name
\* begins with x as well.
LEMMA PrefixesAreTogether ==
  ASSUME NEW x \in Seq(Nat), NEW y \in Seq(Nat), NEW m \in Seq(Nat),
         NameIsPrefix(x, m), y = m \/ NameLess(y, m), ~NameLess(y, x)
  PROVE  NameIsPrefix(x, y)
<1>1. /\ Len(x) \in Nat /\ Len(y) \in Nat /\ Len(m) \in Nat
      /\ \A i \in 1 .. Len(x) : x[i] \in Nat
      /\ \A i \in 1 .. Len(y) : y[i] \in Nat
      /\ \A i \in 1 .. Len(m) : m[i] \in Nat
  BY LenProperties, ElementOfSeq
<1>2. CASE y = m
  BY <1>2
<1>3. CASE NameLess(y, m)
  <2>1. PICK n \in 0 .. Len(y) :
          /\ n < Len(m) /\ \A i \in 1 .. n : y[i] = m[i]
          /\ n < Len(y) => y[n + 1] < m[n + 1]
    BY <1>3 DEF NameLess
  <2>2. Len(x) <= Len(m) /\ \A i \in 1 .. Len(x) : x[i] = m[i]
    BY DEF NameIsPrefix
  <2>3. CASE Len(x) <= n
    <3>1. Len(x) <= Len(y) /\ \A i \in 1 .. Len(x) : i \in 1 .. n
      BY <1>1, <2>1, <2>3
    <3> QED BY <2>1, <2>2, <3>1 DEF NameIsPrefix
  <2>4. CASE n < Len(x)
    <3>1. n + 1 \in 1 .. Len(x) /\ x[n + 1] = m[n + 1]
      BY <1>1, <2>1, <2>2, <2>4
    <3>2. \A i \in 1 .. n : y[i] = x[i]
      BY <1>1, <2>1, <2>2, <2>4
    <3>3. n < Len(y) => y[n + 1] < x[n + 1]
      BY <2>1, <3>1
    <3> QED BY <2>1, <2>4, <3>2, <3>3 DEF NameLess
  <2> QED BY <1>1, <2>1, <2>3, <2>4
<1> QED BY <1>2, <1>3

\* A name that begins with another is not less than it.
LEMMA PrefixIsNotLess ==
  ASSUME NEW x \in Seq(Nat), NEW m \in Seq(Nat), NameIsPrefix(x, m)
  PROVE  ~NameLess(m, x)
<1> SUFFICES ASSUME NameLess(m, x) PROVE FALSE
  OBVIOUS
<1>1. PICK n \in 0 .. Len(m) :
        /\ n < Len(x)
        /\ n < Len(m) => m[n + 1] < x[n + 1]
  BY DEF NameLess
<1>2. /\ Len(x) \in Nat /\ Len(m) \in Nat /\ Len(x) <= Len(m)
      /\ \A i \in 1 .. Len(x) : x[i] = m[i] /\ x[i] \in Nat
  BY LenProperties, ElementOfSeq DEF NameIsPrefix
<1>3. n + 1 \in 1 .. Len(x) /\ n < Len(m)
  BY <1>1, <1>2
<1> QED BY <1>1, <1>2, <1>3

\* What entries selects is cached and begins with the prefix.
LEMMA MatchingMatches ==
  ASSUME NEW a, NEW k \in Matching(a)
  PROVE  k \in DOMAIN tree /\ ~PathLess(k, a) /\ PathIsPrefix(a, k)
BY DEF Matching

\* Without a prefix it is everything that is cached.
LEMMA MatchingOfRoot ==
  Matching(<< >>) = DOMAIN tree
<1>1. ASSUME NEW p PROVE ~PathLess(p, << >>) /\ PathIsPrefix(<< >>, p)
  BY DEF PathLess, PathIsPrefix
<1> QED BY <1>1 DEF Matching

\* The order and the prefix test for a prefix of one segment.
LEMMA RootIsLess ==
  ASSUME NEW x
  PROVE  PathLess(<< >>, <<x>>)
<1>1. Len(<< >>) = 0 /\ Len(<<x>>) = 1
  OBVIOUS
<1>2. 0 \in 0 .. Len(<< >>) /\ 0 < Len(<<x>>) /\ 1 .. 0 = {} /\ ~(0 < Len(<< >>))
  BY <1>1
<1> QED BY <1>2 DEF PathLess

\* Any other path compares by its first segment.
LEMMA FirstSegment ==
  ASSUME NEW x, NEW p \in Path, p # << >>
  PROVE  /\ Len(p) \in Nat \ {0} /\ p[1] \in Name
         /\ PathLess(p, <<x>>) <=> NameLess(p[1], x)
         /\ PathIsPrefix(<<x>>, p) <=> NameIsPrefix(x, p[1])
<1>1. Len(<<x>>) = 1 /\ <<x>>[1] = x /\ Len(p) \in Nat
  BY LenProperties DEF Path
<1>2. Len(p) \in Nat \ {0} /\ p[1] \in Name
  <2>1. Len(p) # 0
    BY EmptySeq DEF Path
  <2>2. 1 \in 1 .. Len(p)
    BY <1>1, <2>1
  <2> QED BY <1>1, <2>1, <2>2, ElementOfSeq DEF Path
<1>3. PathLess(p, <<x>>) <=> NameLess(p[1], x)
  <2>1. \A n \in 0 .. Len(p) : n < 1 <=> n = 0
    BY <1>1
  <2>2. 0 \in 0 .. Len(p)
    BY <1>2
  <2>3. PathLess(p, <<x>>) <=> \E n \in 0 .. Len(p) : n = 0 /\ NameLess(p[1], x)
    <3>1. ASSUME NEW n \in 0 .. Len(p), n = 0
          PROVE  /\ n < Len(p) /\ n < Len(<<x>>) /\ 1 .. n = {}
                 /\ p[n + 1] = p[1] /\ <<x>>[n + 1] = x
      BY <1>1, <1>2, <3>1
    <3> QED BY <1>1, <2>1, <3>1 DEF PathLess
  <2> QED BY <2>2, <2>3
<1>4. PathIsPrefix(<<x>>, p) <=> NameIsPrefix(x, p[1])
  <2>1. (IF Len(<<x>>) < Len(p) THEN Len(<<x>>) ELSE Len(p)) = 1
    BY <1>1, <1>2
  <2>2. 1 .. 1 - 1 = {} /\ 1 > 0
    OBVIOUS
  <2> QED BY <1>1, <2>1, <2>2 DEF PathIsPrefix
<1> QED BY <1>2, <1>3, <1>4

\* With a prefix of one segment it is everything cached whose first segment
\* begins with it.
LEMMA MatchingOfOne ==
  ASSUME MInv, NEW x \in Name
  PROVE  \A k \in DOMAIN tree :
           k # << >> /\ NameIsPrefix(x, k[1]) => k \in Matching(<<x>>)
<1> SUFFICES ASSUME NEW k \in DOMAIN tree, k # << >>, NameIsPrefix(x, k[1])
             PROVE  k \in Matching(<<x>>)
  OBVIOUS
<1>1. DOMAIN tree \subseteq Path /\ Name \subseteq Seq(Nat)
  BY NameAssumption DEF MInv, IInv, TypeOK
<1>2. k[1] \in Name /\ Len(k) \in Nat \ {0} /\ (PathLess(k, <<x>>) <=> NameLess(k[1], x))
  <2>1. k \in Path
    BY <1>1
  <2> QED BY <2>1, FirstSegment
<1>3. ~PathLess(k, <<x>>)
  BY <1>1, <1>2, PrefixIsNotLess
<1>4. ASSUME NEW j \in DOMAIN tree, ~PathLess(j, <<x>>), j = k \/ PathLess(j, k)
      PROVE  PathIsPrefix(<<x>>, j)
  <2>1. j # << >>
    BY <1>4, RootIsLess
  <2>2. /\ j[1] \in Name /\ Len(j) \in Nat \ {0}
        /\ ~NameLess(j[1], x)
        /\ PathIsPrefix(<<x>>, j) <=> NameIsPrefix(x, j[1])
    <3>1. j \in Path
      BY <1>1
    <3> QED BY <1>4, <2>1, <3>1, FirstSegment
  <2>3. j[1] = k[1] \/ NameLess(j[1], k[1])
    <3>1. CASE j = k
      BY <3>1
    <3>2. CASE PathLess(j, k)
      <4>1. PICK n \in 0 .. Len(j) :
              /\ n < Len(k)
              /\ \A i \in 1 .. n : j[i] = k[i]
              /\ n < Len(j) => NameLess(j[n + 1], k[n + 1])
        BY <3>2 DEF PathLess
      <4>2. CASE n = 0
        BY <2>2, <4>1, <4>2
      <4>3. CASE n # 0
        <5>1. 1 \in 1 .. n
          BY <2>2, <4>1, <4>3
        <5> QED BY <4>1, <5>1
      <4> QED BY <4>2, <4>3
    <3> QED BY <1>4, <3>1, <3>2
  <2>4. NameIsPrefix(x, j[1])
    BY <1>1, <1>2, <2>2, <2>3, PrefixesAreTogether
  <2> QED BY <2>2, <2>4
<1> QED BY <1>3, <1>4 DEF Matching

\* When nothing that matches is sparse, a directory that matches is loaded, so
\* its children are cached.
LEMMA LoadedMatch ==
  ASSUME MInv, phase = "open", NEW a, SparseEntries(a) = {}, NEW p \in Matching(a),
         NEW d \in Addr, DirectoryAt(image, p, d)
  PROVE  \A i \in 1 .. Len(image.listing[d]) :
           Append(p, image.listing[d][i].name) \in DOMAIN tree
<1>1. /\ p \in DOMAIN tree /\ tree[p].kind # "SparseDir" /\ p \in Path
      /\ image \in Image /\ tree[p] \in FileObject
  BY MatchingMatches DEF SparseEntries, MInv, IInv, TypeOK
<1>2. tree[p].kind # "File"
  <2> SUFFICES ASSUME tree[p].kind = "File" PROVE FALSE
    OBVIOUS
  <2>1. EntryAt(image, p, tree[p].val) /\ ~tree[p].val.dir
    BY <1>1, CachedEntry DEF MInv
  <2>2. p # ROOT_PATH
    BY <2>1 DEF EntryAt, ROOT_PATH
  <2>3. PICK e : EntryAt(image, p, e) /\ e.dir
    BY <1>1, <2>2, DirectoryHasEntry
  <2> QED BY <1>1, <2>1, <2>3, OneEntry
<1>3. IsLoaded(tree, p)
  BY <1>1, <1>2 DEF FileObject, IsLoaded
<1>4. PICK b \in Addr : DirectoryAt(image, p, b) /\ tree[p].val = image.listing[b]
  BY <1>3, LoadedIsDirectory
<1>5. tree[p].val = image.listing[d]
  BY <1>1, <1>4, OneDirectory
<1>6. ChildPaths(p, image.listing[d]) \subseteq DOMAIN tree
  BY <1>3, <1>5 DEF MInv, IInv, TreeShape, IsLoaded
<1> QED BY <1>6 DEF ChildPaths

\* Everything in the cache is on the disc.
LEMMA CachedIsOnDisc ==
  ASSUME MInv, NEW p \in DOMAIN tree
  PROVE  OnDisc(image, p)
<1>1. p \in Path /\ image \in Image
  BY DEF MInv, IInv, TypeOK
<1>2. \A e : EntryAt(image, p, e) => OnDisc(image, p)
  BY DEF EntryAt, OnDisc
<1>3. CASE tree[p].kind # "LoadedDir"
  BY <1>2, <1>3, CachedEntry DEF MInv
<1>4. CASE tree[p].kind = "LoadedDir" /\ p # ROOT_PATH
  <2>1. PICK d \in Addr : DirectoryAt(image, p, d)
    BY <1>4, LoadedIsDirectory DEF IsLoaded
  <2>2. PICK e : EntryAt(image, p, e)
    BY <1>1, <1>4, <2>1, DirectoryHasEntry
  <2> QED BY <1>2, <2>2
<1>5. CASE p = ROOT_PATH
  BY <1>5 DEF OnDisc, ROOT_PATH
<1> QED BY <1>3, <1>4, <1>5

\* A path that something is added to still begins where it did.
LEMMA ChildBegins ==
  ASSUME NEW p \in Path, p # << >>, NEW n \in Name
  PROVE  Append(p, n) # << >> /\ Append(p, n)[1] = p[1]
<1>1. Len(p) \in Nat /\ Len(p) # 0
  BY LenProperties, EmptySeq DEF Path
<1>2. 1 \in 1 .. Len(p)
  BY <1>1
<1>3. Append(p, n)[1] = p[1]
  BY <1>2, AppendProperties DEF Path
<1> QED BY <1>3, ChildOfPath DEF ROOT_PATH

\* When nothing sparse is left, what matches a prefix of at most one segment is
\* all that the disc holds under it.
LEMMA Completeness ==
  ASSUME MInv, phase = "open", NEW a \in Path, Len(a) <= 1, SparseEntries(a) = {}
  PROVE  Service!Complete(a, Matching(a))
<1> DEFINE root == image.listing[image.root]
<1>1. /\ image \in Image /\ image.root \in Addr /\ DOMAIN tree \subseteq Path
      /\ a \in Seq(Name) /\ Len(a) \in Nat
  BY LenProperties DEF MInv, IInv, TypeOK, Image, Path
<1>2. ASSUME NEW d \in Addr, NEW i \in 1 .. Len(image.listing[d])
      PROVE  image.listing[d][i].name \in Name
  <2>1. image.listing[d] \in Seq(DirEntry)
    BY <1>1 DEF Image
  <2>2. image.listing[d][i] \in DirEntry
    BY <2>1, ElementOfSeq
  <2> QED BY <2>2 DEF DirEntry
\* The root and its children are cached.
<1>3. IsLoaded(tree, ROOT_PATH)
  BY DEF MInv, IInv, TreeShape
<1>4. \A i \in 1 .. Len(root) : << root[i].name >> \in DOMAIN tree
  <2>1. PICK d \in Addr : DirectoryAt(image, ROOT_PATH, d) /\ tree[ROOT_PATH].val = image.listing[d]
    BY <1>3, LoadedIsDirectory
  <2>2. ROOT_PATH \in Path
    BY EmptySeq DEF Path, ROOT_PATH
  <2>3. tree[ROOT_PATH].val = root
    BY <1>1, <2>1, <2>2, RootIsDirectory, OneDirectory
  <2>4. ChildPaths(ROOT_PATH, root) \subseteq DOMAIN tree
    BY <1>3, <2>3 DEF MInv, IInv, TreeShape, IsLoaded
  <2>5. \A n : Append(ROOT_PATH, n) = <<n>>
    BY DEF ROOT_PATH
  <2> QED BY <2>4, <2>5 DEF ChildPaths
<1> HIDE DEF root
<1>5. CASE a = << >>
  <2>1. Matching(a) = DOMAIN tree
    BY <1>5, MatchingOfRoot
  <2>2. << >> \in Matching(a)
    BY <1>3, <2>1 DEF IsLoaded, ROOT_PATH
  <2>3. \A i \in 1 .. Len(root) : << root[i].name >> \in Matching(a)
    BY <1>4, <2>1
  <2>4. Service!Closed(Matching(a))
    BY <2>1, SameDirectory, LoadedMatch DEF Service!Closed
  <2> QED BY <2>2, <2>3, <2>4 DEF Service!Complete, root
<1>6. CASE a # << >>
  <2>1. PICK x \in Name : a = <<x>>
    <3>1. Len(a) = 1
      <4>1. Len(a) # 0
        BY <1>1, <1>6, EmptySeq
      <4>2. PICK n \in Nat : n = Len(a)
        BY <1>1
      <4>3. n <= 1 /\ n # 0
        BY <4>1, <4>2
      <4>4. n = 1
        BY <4>3
      <4> QED BY <4>2, <4>4
    <3>2. a[1] \in Name
      BY <1>1, <3>1, ElementOfSeq
    <3>3. a = << a[1] >>
      BY <1>1, <3>1, <3>2
    <3> QED BY <3>2, <3>3
  <2>2. ASSUME NEW k \in Matching(a)
        PROVE  k \in Path /\ k # << >> /\ NameIsPrefix(x, k[1])
    <3>1. k \in Path /\ ~PathLess(k, <<x>>) /\ PathIsPrefix(<<x>>, k)
      BY <1>1, <2>1, <2>2, MatchingMatches
    <3>2. k # << >>
      BY <3>1, RootIsLess
    <3> QED BY <3>1, <3>2, FirstSegment
  <2>3. ASSUME NEW i \in 1 .. Len(root), PathIsPrefix(a, << root[i].name >>)
        PROVE  << root[i].name >> \in Matching(a)
    <3> DEFINE k == << root[i].name >>
    <3>1. k \in DOMAIN tree /\ k \in Path /\ k # << >> /\ k[1] = root[i].name
      BY <1>1, <1>4
    <3> HIDE DEF k
    <3>2. NameIsPrefix(x, k[1])
      <4>1. PathIsPrefix(<<x>>, k)
        BY <2>1, <2>3 DEF k
      <4> QED BY <3>1, <4>1, FirstSegment
    <3> QED BY <2>1, <3>1, <3>2, MatchingOfOne DEF k
  <2>4. ASSUME NEW k \in Matching(a), NEW d \in Addr, DirectoryAt(image, k, d),
               NEW i \in 1 .. Len(image.listing[d])
        PROVE  Append(k, image.listing[d][i].name) \in Matching(a)
    <3> DEFINE n == image.listing[d][i].name
    <3>1. n \in Name /\ Append(k, n) \in DOMAIN tree
      BY <1>2, <2>4, LoadedMatch
    <3> HIDE DEF n
    <3>2. Append(k, n) # << >> /\ Append(k, n)[1] = k[1] /\ NameIsPrefix(x, k[1])
      BY <2>2, <3>1, ChildBegins
    <3>3. Append(k, n) \in Matching(a)
      BY <2>1, <3>1, <3>2, MatchingOfOne
    <3> QED BY <3>3 DEF n
  <2>5. Service!Closed(Matching(a))
    BY <2>4, SameDirectory DEF Service!Closed
  <2> QED BY <1>6, <2>3, <2>5, SameOrder DEF Service!Complete, root
<1> QED BY <1>5, <1>6

\* Every step of entries around populate_path is a step of the service, or none.
LEMMA EntriesRefines ==
  ASSUME MInv, ScanTree \/ NextSparse
  PROVE  Service!Next \/ UNCHANGED Service!sVars
<1>1. stack # << >> /\ phase = "open" /\ Top.op = "entries"
  BY DEF ScanTree, NextSparse, Running
<1>2. /\ Top \in Frame /\ Top \in Grounded(tree) /\ Sound(image, tree, Top)
      /\ Top.arg \in Path
  BY <1>1, TopRequest
<1>3. ASSUME NEW todo \in SUBSET Path, PopulateNext(todo), UNCHANGED <<image, phase, reply>>
      PROVE  UNCHANGED Service!sVars
  <2>1. PICK p \in todo :
          SetTop([op |-> "entries", arg |-> Top.arg, pc |-> "populate",
                  target |-> p, level |-> 1, todo |-> todo \ {p}, left |-> 0])
    BY <1>3 DEF PopulateNext
  <2> DEFINE f == [op |-> "entries", arg |-> Top.arg, pc |-> "populate",
                   target |-> p, level |-> 1, todo |-> todo \ {p}, left |-> 0]
  <2>2. f \in Frame /\ RequestOf(f) = RequestOf(Top)
    BY <1>1, <1>2 DEF Frame, RequestOf
  <2> QED BY <1>1, <1>3, <2>1, <2>2, Advances
<1>4. CASE ScanTree
  <2>1. CASE SparseEntries(Top.arg) # {}
    <3>1. SparseEntries(Top.arg) \in SUBSET Path
      BY DEF SparseEntries, Matching, MInv, IInv, TypeOK
    <3> QED BY <1>3, <1>4, <2>1, <3>1 DEF ScanTree
  <2>2. CASE SparseEntries(Top.arg) = {}
    <3> DEFINE out == Outcome("Ok", Matching(Top.arg))
    <3>1. Return(out)
      BY <1>4, <2>2 DEF ScanTree
    <3>2. out.tag = "Ok" /\ out.val = Matching(Top.arg)
      BY DEF Outcome
    <3> HIDE DEF out
    <3>3. \A p \in Matching(Top.arg) :
            /\ Service!OnDisc(image, p) /\ ~Service!PathLess(p, Top.arg)
            /\ Service!PathIsPrefix(Top.arg, p)
      BY MatchingMatches, CachedIsOnDisc, SameOnDisc, SameOrder
    <3>4. Len(Top.arg) <= 1 => Service!Complete(Top.arg, Matching(Top.arg))
      BY <1>1, <1>2, <2>2, Completeness
    <3>5. Service!EntriesOutcome(Top.arg, out)
      BY <3>2, <3>3, <3>4 DEF Service!EntriesOutcome
    <3>6. Service!IsAnswer(RequestOf(Top), out)
      BY <1>1, <3>5 DEF Service!IsAnswer, RequestOf
    <3> QED BY <1>1, <3>1, <3>6, Answers DEF Service!Next
  <2> QED BY <2>1, <2>2
<1>5. CASE NextSparse
  <2>1. UNCHANGED <<image, phase, reply>>
    BY <1>5 DEF NextSparse
  <2>2. CASE Top.todo = {}
    <3>1. /\ [Top EXCEPT !.pc = "scan"] \in Frame
          /\ RequestOf([Top EXCEPT !.pc = "scan"]) = RequestOf(Top)
      BY <1>2 DEF Frame, RequestOf
    <3> QED BY <1>1, <1>5, <2>1, <2>2, <3>1, Advances DEF NextSparse
  <2>3. CASE Top.todo # {}
    <3>1. Top.todo \in SUBSET Path
      BY <1>2 DEF Frame
    <3> QED BY <1>3, <1>5, <2>1, <2>3, <3>1 DEF NextSparse
  <2> QED BY <2>2, <2>3
<1> QED BY <1>4, <1>5

-----------------------------------------------------------------------------

\* The initial states of FileTree are initial states of DiscService.
LEMMA InitRefines == Init => Service!Init
<1> SUFFICES ASSUME Init PROVE Service!Init
  OBVIOUS
<1>1. Requests = << >>
  <2>1. stack = << >> /\ << >> \in Seq(Frame)
    BY EmptySeq DEF Init
  <2>2. RequestsOf(<< >>) \in Seq(Request) /\ Len(RequestsOf(<< >>)) = 0
    BY <2>1, RequestsOfCalls
  <2> QED BY <2>1, <2>2, RequestsAre, EmptySeq
<1>2. Status = "closed" /\ image \in Images /\ reply = NoReply
  BY DEF Init, Status
<1> QED BY <1>1, <1>2 DEF Service!Init, NoReply

\* Every step of FileTree is a step of DiscService, or none.
LEMMA NextRefines == MInv /\ [Next]_vars => [Service!Next]_(Service!sVars)
<1> SUFFICES ASSUME MInv, [Next]_vars PROVE Service!Next \/ UNCHANGED Service!sVars
  OBVIOUS
<1>1. CASE UNCHANGED vars
  <2>1. Requests' = Requests /\ Status' = Status
    BY <1>1, RequestsAre DEF vars, Status
  <2> QED BY <1>1, <2>1 DEF vars, Service!sVars
<1>2. CASE ParseDisk \/ ParseDiskFails
  BY <1>2, Opening DEF Service!Next
<1>3. CASE (\E p \in FilePaths : CallGetFile(p)) \/ (\E p \in Prefixes : CallEntries(p))
  BY <1>3, Calling DEF Service!Next
<1>4. CASE PopulatePath
  BY <1>4, PopulateRefines
<1>5. CASE OpenNotAFile \/ OpenFile \/ WriteRegion \/ WriteCutRegion \/ FinishFile
  BY <1>5, GetFileRefines
<1>6. CASE ScanTree \/ NextSparse
  BY <1>6, EntriesRefines
<1> QED BY <1>1, <1>2, <1>3, <1>4, <1>5, <1>6 DEF Next, Step

\* The cache of NewMapDisk is transparent: whatever was asked before and however
\* calls nest, every answer of get_file and entries is one that the disc without
\* a cache gives, and a panic comes only where DiscService lets it.
THEOREM Transparency == Spec => CacheIsTransparent
<1>1. Init => Service!Init
  BY InitRefines
<1>2. IInv /\ TreeMatchesDisc /\ CallsAreSound /\ [Next]_vars
        => [Service!Next]_(Service!sVars)
  BY NextRefines DEF MInv
<1> QED BY <1>1, <1>2, Inductive, DiscAgreement, CallSoundness, PTL
        DEF Spec, CacheIsTransparent, Service!Spec

===============================================================================
