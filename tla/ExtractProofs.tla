---------------------------- MODULE ExtractProofs ----------------------------
(***************************************************************************)
(* Proofs about Extract, for every set of names, images and destinations   *)
(* and any number of runs, failed or killed between any two steps.         *)
(***************************************************************************)
EXTENDS Extract, DiscAgreementProofs

-----------------------------------------------------------------------------
(* The inductive invariant *)

\* What destinations are made of.
Component == HostComponent \cup {NoLeaf}

Job == [verb  : {"none", "extract", "all", "list"}, arg : Path, to : Seq(Component),
        pc    : {"idle", "load", "keys", "listing", "next", "folder", "create", "read",
                 "inf"},
        queue : SUBSET Path, path : Path, dest : Seq(Component)]

\* The contents of the host's files have their types.
FilesTyped ==
  \A p \in DOMAIN host : /\ host[p].kind \in {"dir", "data", "inf"}
                         /\ host[p].of \in Seq(DirEntry)

\* The variables of the tool have their types.
HostTyped ==
  /\ FilesTyped
  /\ job \in Job
  /\ exit \in {"none", "Ok", "Panic", "Killed"}
  /\ runs \in 0 .. MaxRuns

\* Between its calls to the disc the tool has none in progress, and the disc
\* stays open until the run ends.
JobMatchesCalls ==
  /\ job.pc = "load" => phase = "new"
  /\ job.pc \notin {"idle", "load"} => phase = "open"
  /\ job.pc \notin {"listing", "read"} => stack = << >>
  /\ job.pc = "listing" => Len(stack) = 1 /\ Top.op = "entries"
  /\ job.pc = "read" => Len(stack) = 1 /\ Top.op = "get_file" /\ Top.arg = job.path

\* What the command asks for, and no more, is in the queue; a run that extracts has
\* a destination.
JobFollowsVerb ==
  /\ job.verb \in {"extract", "all"} => job.to # << >>
  /\ job.verb = "extract" => job.queue \subseteq {job.arg}
  /\ job.verb = "list" => job.queue = {}
  /\ job.verb = "none" => job.pc = "idle"
  /\ job.pc \in {"keys", "listing"} => job.verb \in {"all", "list"}
  /\ job.pc \in {"folder", "create", "read", "inf"} =>
       /\ job.verb \in {"extract", "all"}
       /\ job.dest # << >>
       /\ job.verb = "extract" => job.queue = {}

Copies(n, e) == [i \in 1 .. n |-> e]

\* The file being written has the regions that get_file has passed on, and all of
\* them when its metadata are about to be written.
DataIsWritten ==
  /\ job.pc = "read" =>
       /\ Is("data", job.dest)
       /\ Top.pc # "write" => host[job.dest].of = << >>
       /\ Top.pc = "write" =>
            LET e == tree[job.path].val
            IN  host[job.dest].of = Copies(image.extent[e.address] - Top.left, e)
  /\ job.pc = "inf" =>
       /\ reply.out.val \in DirEntry
       /\ EntryAt(image, job.path, reply.out.val) /\ ~reply.out.val.dir
       /\ IsWhole(job.dest, reply.out.val)

\* The file at job.path and its metadata are at job.dest.
Extracted ==
  \E e \in DirEntry :
    /\ EntryAt(image, job.path, e) /\ ~e.dir
    /\ job.dest = Inf(job.dest) \/ IsWhole(job.dest, e)
    /\ host[Inf(job.dest)] = InfFile(<<e>>)

\* `extract' is done when its queue is empty again, and exits well only then.
DoneIsExtracted ==
  /\ exit = "Ok" => job.pc = "idle"
  /\ job.verb = "extract" =>
       (exit = "Ok" \/ (job.pc = "next" /\ job.queue = {}) => Extracted)

HInv ==
  /\ MInv
  /\ HostTyped
  /\ JobMatchesCalls
  /\ JobFollowsVerb
  /\ DataIsWritten
  /\ DoneIsExtracted

-----------------------------------------------------------------------------
(* The disc within a run *)

\* A run starts with a disc of its own on the same image.
LEMMA FreshMInv ==
  ASSUME MInv, image' = image, phase' = "new", tree' = EmptyTree, faults' = {}, stack' = << >>
  PROVE  MInv'
<1>1. image' \in Image /\ DOMAIN tree' = {}
  BY DEF MInv, IInv, TypeOK, EmptyTree
<1>2. TypeOK'
  BY <1>1, EmptySeq DEF TypeOK
<1>3. TreeShape' /\ StartsEmpty'
  BY <1>1 DEF TreeShape, StartsEmpty
<1>4. CallsAreGrounded'
  BY EmptySeq DEF CallsAreGrounded
<1>5. TreeMatchesDisc'
  BY <1>1 DEF TreeMatchesDisc
<1>6. CallsAreSound'
  BY DEF CallsAreSound
<1> QED BY <1>2, <1>3, <1>4, <1>5, <1>6 DEF MInv, IInv

\* A run that is killed drops its calls.
LEMMA DroppedMInv ==
  ASSUME MInv, UNCHANGED <<image, phase, tree, faults>>, stack' = << >>
  PROVE  MInv'
<1>1. IInv'
  <2>1. stack' \in Seq(Grounded(tree))
    BY EmptySeq
  <2> QED BY <2>1, LeavesTree DEF MInv
<1>2. TreeMatchesDisc'
  BY DEF MInv, TreeMatchesDisc
<1>3. CallsAreSound'
  BY DEF CallsAreSound
<1> QED BY <1>1, <1>2, <1>3 DEF MInv

\* With one call in progress, the call that returns is the last, and one that
\* advances stays the only one.
LEMMA OnlyCall ==
  ASSUME MInv, Len(stack) = 1
  PROVE  /\ stack # << >> /\ Caller = << >> /\ Top = stack[1] /\ Top \in Frame
         /\ Top \in Grounded(tree) /\ Sound(image, tree, Top)
         /\ \A f \in Frame : SetTop(f) =>
              stack' # << >> /\ Len(stack') = 1 /\ stack'[Len(stack')] = f
<1>1. stack \in Seq(Frame) /\ stack # << >>
  <2>1. stack \in Seq(Frame)
    BY DEF MInv, IInv, TypeOK
  <2>2. Len(<< >>) = 0
    BY EmptySeq
  <2>3. stack # << >>
    BY <2>2
  <2> QED BY <2>1, <2>3
<1>2. Top \in Grounded(tree) /\ Top \in Frame
  BY <1>1, TopIsGrounded DEF MInv
<1>3. Caller = << >>
  BY <1>1, SubSeqEmpty DEF Caller
<1>4. Sound(image, tree, Top)
  BY DEF MInv, CallsAreSound, Top
<1>5. ASSUME NEW f \in Frame, SetTop(f)
      PROVE  stack' # << >> /\ Len(stack') = 1 /\ stack'[Len(stack')] = f
  <2>1. 1 \in 1 .. Len(stack)
    OBVIOUS
  <2>2. Len(stack') = 1 /\ stack'[1] = f
    BY <1>1, <1>5, <2>1, ExceptSeq DEF SetTop
  <2> QED BY <2>2
<1> QED BY <1>1, <1>2, <1>3, <1>4, <1>5 DEF Top

\* A call that returns an error or panics.
Fails == Panic \/ \E out : Return(out) /\ out.tag # "Ok"

\* It was the last one, and the program knows.
LEMMA FailsEnds ==
  ASSUME MInv, Len(stack) = 1, Fails
  PROVE  stack' = << >> /\ reply'.out.tag # "Ok" /\ image' = image
BY OnlyCall DEF Fails, Panic, Return, Outcome

\* What a step of populate_path can come to.
LEMMA PopulateOutcomes ==
  ASSUME MInv, Len(stack) = 1, PopulatePath
  PROVE  /\ Top.pc = "populate"
         /\ \/ Fails
            \/ \E f \in Frame :
                 /\ SetTop(f) /\ f.op = Top.op /\ f.arg = Top.arg /\ f.pc = "populate"
                 /\ UNCHANGED <<image, phase>>
<1>1. Populating /\ Top \in Frame /\ Top.pc = "populate" /\ Top.target \in Path
  BY OnlyCall
     DEF PopulatePath, Populating, PopulateCached, PopulateFile, PopulateThroughFile,
         StopsAtFile, PopulateMissing, PopulateDirectory, PopulateUnreadable,
         AtDirectory, Frame
<1>2. ASSUME NextLevel, UNCHANGED <<image, phase>>
      PROVE  \E f \in Frame :
               /\ SetTop(f) /\ f.op = Top.op /\ f.arg = Top.arg /\ f.pc = "populate"
               /\ UNCHANGED <<image, phase>>
  <2> DEFINE f == [Top EXCEPT !.level = @ + 1]
  <2>1. f \in Frame /\ f.op = Top.op /\ f.arg = Top.arg /\ f.pc = "populate"
    BY <1>1 DEF Frame
  <2>2. SetTop(f)
    BY <1>2 DEF NextLevel
  <2> QED BY <1>2, <2>1, <2>2
<1>3. CASE PopulateCached
  BY <1>1, <1>2, <1>3 DEF PopulateCached
<1>4. CASE PopulateFile
  <2> DEFINE f == [Top EXCEPT !.level = Len(Top.target) + 1]
  <2>1. Len(Top.target) + 1 \in Nat \ {0}
    BY <1>1, LenProperties DEF Path
  <2>2. f \in Frame /\ f.op = Top.op /\ f.arg = Top.arg /\ f.pc = "populate"
    BY <1>1, <2>1 DEF Frame
  <2>3. SetTop(f) /\ UNCHANGED <<image, phase>>
    BY <1>4 DEF PopulateFile, PopulateOk
  <2> QED BY <1>1, <2>2, <2>3
<1>5. CASE PopulateThroughFile
  BY <1>1, <1>5 DEF PopulateThroughFile, Fails, Outcome
<1>6. CASE PopulateMissing
  BY <1>1, <1>6 DEF PopulateMissing, Fails, Outcome
<1>7. CASE PopulateDirectory
  BY <1>1, <1>2, <1>7 DEF PopulateDirectory, Fails
<1>8. CASE PopulateUnreadable
  BY <1>1, <1>8 DEF PopulateUnreadable, Fails, Outcome
<1> QED BY <1>3, <1>4, <1>5, <1>6, <1>7, <1>8 DEF PopulatePath

\* What a step of entries can come to: it goes on, fails, or lists paths.
LEMMA EntriesOutcomes ==
  ASSUME MInv, Len(stack) = 1, Top.op = "entries", Step
  PROVE  /\ image' = image
         /\ \/ stack' = << >> /\ reply'.out.tag # "Ok"
            \/ /\ stack' # << >> /\ Len(stack') = 1 /\ stack'[Len(stack')].op = "entries"
               /\ phase' = phase
            \/ /\ stack' = << >> /\ reply'.out.tag = "Ok" /\ phase' = phase
               /\ reply'.out.val \subseteq Path
<1>1. Top \in Frame /\ stack # << >> /\ Caller = << >>
  BY OnlyCall
<1>2. ASSUME NEW f \in Frame, SetTop(f), f.op = "entries", UNCHANGED <<image, phase>>
      PROVE  /\ stack' # << >> /\ Len(stack') = 1 /\ stack'[Len(stack')].op = "entries"
             /\ phase' = phase /\ image' = image
  BY <1>2, OnlyCall
<1>3. CASE PopulatePath
  BY <1>2, <1>3, PopulateOutcomes, FailsEnds
<1>4. ASSUME NEW todo \in SUBSET Path, PopulateNext(todo), UNCHANGED <<image, phase>>
      PROVE  \E f \in Frame : SetTop(f) /\ f.op = "entries"
  <2>1. PICK p \in todo :
          SetTop([op |-> "entries", arg |-> Top.arg, pc |-> "populate",
                  target |-> p, level |-> 1, todo |-> todo \ {p}, left |-> 0])
    BY <1>4 DEF PopulateNext
  <2> DEFINE f == [op |-> "entries", arg |-> Top.arg, pc |-> "populate",
                   target |-> p, level |-> 1, todo |-> todo \ {p}, left |-> 0]
  <2>2. f \in Frame /\ f.op = "entries"
    BY <1>1 DEF Frame
  <2> QED BY <2>1, <2>2
<1>5. CASE ScanTree
  <2>1. SparseEntries(Top.arg) \subseteq Path /\ Matching(Top.arg) \subseteq Path
    BY DEF SparseEntries, Matching, MInv, IInv, TypeOK
  <2>2. CASE SparseEntries(Top.arg) = {}
    BY <1>1, <1>5, <2>1, <2>2 DEF ScanTree, Return, Outcome
  <2>3. CASE SparseEntries(Top.arg) # {}
    BY <1>2, <1>4, <1>5, <2>1, <2>3 DEF ScanTree
  <2> QED BY <2>2, <2>3
<1>6. CASE NextSparse
  <2>1. UNCHANGED <<image, phase>>
    BY <1>6 DEF NextSparse
  <2>2. CASE Top.todo = {}
    <3>1. [Top EXCEPT !.pc = "scan"] \in Frame /\ [Top EXCEPT !.pc = "scan"].op = "entries"
      BY <1>1 DEF Frame
    <3> QED BY <1>2, <1>6, <2>1, <2>2, <3>1 DEF NextSparse
  <2>3. CASE Top.todo # {}
    <3>1. Top.todo \in SUBSET Path
      BY <1>1 DEF Frame
    <3> QED BY <1>2, <1>4, <1>6, <2>1, <2>3, <3>1 DEF NextSparse
  <2> QED BY <2>2, <2>3
<1>7. CASE OpenNotAFile \/ OpenFile \/ WriteRegion \/ WriteCutRegion \/ FinishFile
  BY <1>7 DEF OpenNotAFile, OpenFile, ReadyToOpen, WriteRegion, WriteCutRegion,
              FinishFile, Writing, Running
<1> QED BY <1>3, <1>5, <1>6, <1>7 DEF Step

\* What a step of get_file can come to: it goes on populating, fails, opens the
\* file, writes a region, or returns the file's entry.
LEMMA GetFileOutcomes ==
  ASSUME MInv, Len(stack) = 1, Top.op = "get_file", Step
  PROVE  /\ image' = image
         /\ \/ stack' = << >> /\ reply'.out.tag # "Ok"
            \/ \E f \in Frame :
                 /\ stack' # << >> /\ Len(stack') = 1 /\ stack'[Len(stack')] = f
                 /\ f.op = "get_file" /\ f.arg = Top.arg /\ phase' = phase
                 /\ \/ Top.pc = "populate" /\ f.pc = "populate"
                    \/ /\ Top.pc = "populate" /\ f.pc = "write" /\ tree' = tree
                       /\ IsCachedFile(Top.arg)
                       /\ f.left = image.extent[tree[Top.arg].val.address]
                    \/ /\ Top.pc = "write" /\ f.pc = "write" /\ tree' = tree
                       /\ Top.left > 0 /\ f.left = Top.left - 1
            \/ /\ stack' = << >> /\ Top.pc = "write" /\ Top.left = 0
               /\ UNCHANGED <<phase, tree>>
               /\ reply'.out = Outcome("Ok", tree[Top.arg].val)
<1>1. Top \in Frame /\ Top \in Grounded(tree) /\ stack # << >>
  BY OnlyCall
<1>2. CASE PopulatePath
  BY <1>2, OnlyCall, PopulateOutcomes, FailsEnds
<1>3. CASE Fails
  BY <1>3, FailsEnds
<1>4. CASE OpenNotAFile
  BY <1>3, <1>4 DEF OpenNotAFile, Fails, Outcome
<1>5. CASE WriteCutRegion
  BY <1>3, <1>5 DEF WriteCutRegion, Fails
<1>6. CASE OpenFile
  <2> DEFINE n == image.extent[tree[Top.arg].val.address]
             f == [Top EXCEPT !.pc = "write", !.left = n]
  <2>1. CASE n = NoExtent
    BY <1>3, <1>6, <2>1 DEF OpenFile, Fails, Outcome
  <2>2. CASE n # NoExtent
    <3>1. /\ Top.pc = "populate" /\ SetTop(f) /\ UNCHANGED <<image, phase, tree>>
          /\ IsCachedFile(Top.arg)
      BY <1>6, <2>2 DEF OpenFile, ReadyToOpen, Running
    <3>2. tree[Top.arg].val.address \in Addr
      BY <1>6, CachedEntry DEF OpenFile, IsCachedFile, MInv
    <3>3. n \in Nat
      BY <2>2, <3>2 DEF MInv, IInv, TypeOK, Image
    <3>4. f \in Frame /\ f.op = "get_file" /\ f.arg = Top.arg /\ f.pc = "write" /\ f.left = n
      BY <1>1, <3>3 DEF Frame
    <3> QED BY <3>1, <3>4, OnlyCall
  <2> QED BY <2>1, <2>2
<1>7. CASE WriteRegion
  <2> DEFINE f == [Top EXCEPT !.left = @ - 1]
  <2>1. Top.pc = "write" /\ Top.left > 0
    BY <1>7 DEF WriteRegion, Writing, Running
  <2>2. CASE Return(Outcome("StdError", Top.arg))
    BY <1>3, <2>2 DEF Fails, Outcome
  <2>3. CASE SetTop(f) /\ UNCHANGED <<image, phase, tree, faults, reply>>
    <3>1. Top.left - 1 \in Nat
      BY <1>1, <2>1 DEF Frame
    <3>2. /\ f \in Frame /\ f.op = "get_file" /\ f.arg = Top.arg /\ f.pc = "write"
          /\ f.left = Top.left - 1
      BY <1>1, <2>1, <3>1 DEF Frame
    <3> QED BY <2>1, <2>3, <3>2, OnlyCall
  <2> QED BY <1>7, <2>2, <2>3 DEF WriteRegion
<1>8. CASE FinishFile
  BY <1>8, OnlyCall DEF FinishFile, Writing, Running, Return
<1>9. CASE ScanTree \/ NextSparse
  BY <1>9 DEF ScanTree, NextSparse, Running
<1> QED BY <1>2, <1>4, <1>5, <1>6, <1>7, <1>8, <1>9 DEF Step

-----------------------------------------------------------------------------
(* Host files *)

\* One more region of the same file.
LEMMA CopiesGrow ==
  ASSUME NEW n \in Nat, NEW e \in DirEntry
  PROVE  /\ Copies(n, e) \in Seq(DirEntry)
         /\ Append(Copies(n, e), e) = Copies(n + 1, e)
         /\ Copies(0, e) = << >>
<1>1. ASSUME NEW m \in Nat
      PROVE  /\ Copies(m, e) \in Seq(DirEntry) /\ Len(Copies(m, e)) = m
             /\ \A i \in 1 .. m : Copies(m, e)[i] = e
  <2>1. /\ Copies(m, e) \in [1 .. m -> DirEntry] /\ DOMAIN Copies(m, e) = 1 .. m
        /\ \A i \in 1 .. m : Copies(m, e)[i] = e
    BY DEF Copies
  <2>2. Copies(m, e) \in Seq(DirEntry)
    BY <2>1, SeqDef
  <2> QED BY <2>1, <2>2, LenProperties
<1> DEFINE s == Append(Copies(n, e), e)
<1>2. /\ s \in Seq(DirEntry) /\ Len(s) = n + 1
      /\ \A i \in 1 .. n : s[i] = e
      /\ s[n + 1] = e
  BY <1>1, AppendProperties
<1> HIDE DEF s
<1>3. \A i \in 1 .. n + 1 : s[i] = e /\ Copies(n + 1, e)[i] = e
  BY <1>1, <1>2
<1>4. s = Copies(n + 1, e)
  BY <1>1, <1>2, <1>3, SeqEqual
<1>5. Copies(0, e) = << >>
  BY <1>1, EmptySeq
<1> QED BY <1>1, <1>4, <1>5 DEF s

\* The files after one is put among them.
LEMMA PutFile ==
  ASSUME FilesTyped, NEW p, NEW kind \in {"data", "inf"}, NEW of \in Seq(DirEntry),
         host' = Put(host, p, [kind |-> kind, of |-> of])
  PROVE  /\ DOMAIN host' = DOMAIN host \cup {p}
         /\ host'[p].kind = kind /\ host'[p].of = of
         /\ \A q \in DOMAIN host \ {p} : host'[q] = host[q]
         /\ FilesTyped'
<1> DEFINE c == [kind |-> kind, of |-> of]
<1>1. c.kind = kind /\ c.of = of /\ host' = Put(host, p, c)
  OBVIOUS
<1> HIDE DEF c
<1>2. /\ DOMAIN host' = DOMAIN host \cup {p} /\ host'[p] = c
      /\ \A q \in DOMAIN host \ {p} : host'[q] = host[q]
  BY <1>1 DEF Put
<1>3. FilesTyped'
  BY <1>1, <1>2 DEF FilesTyped
<1> QED BY <1>1, <1>2, <1>3

\* The folders of a destination that is a path.
LEMMA FolderAbove ==
  ASSUME NEW dest \in Seq(Component), dest # << >>
  PROVE  Ancestors(Folder(dest)) \subseteq Ancestors(dest) \ {dest}
<1>1. /\ Len(dest) \in Nat \ {0} /\ DOMAIN dest = 1 .. Len(dest)
      /\ \A i \in 1 .. Len(dest) : dest[i] \in Component
  BY EmptySeq, LenProperties, ElementOfSeq
<1>2. ASSUME NEW p \in Ancestors(Folder(dest))
      PROVE  p \in Ancestors(dest) \ {dest}
  <2>1. PICK m \in Int : m < Len(dest) /\ Folder(dest) = SubSeq(dest, 1, m)
    <3>1. Len(dest) - 1 \in Int /\ Len(dest) - 2 \in Int
      BY <1>1
    <3>2. \/ Folder(dest) = SubSeq(dest, 1, Len(dest) - 1)
          \/ Folder(dest) = SubSeq(dest, 1, Len(dest) - 2)
      BY DEF Folder
    <3> QED BY <1>1, <3>1, <3>2
  <2>2. PICK k \in 1 .. Len(Folder(dest)) : p = SubSeq(Folder(dest), 1, k)
    BY DEF Ancestors
  <2>3. \A i \in 1 .. m : dest[i] \in Component
    BY <1>1, <2>1
  <2>4. /\ Folder(dest) \in Seq(Component)
        /\ Len(Folder(dest)) = IF 1 <= m THEN m - 1 + 1 ELSE 0
        /\ \A i \in 1 .. m - 1 + 1 : Folder(dest)[i] = dest[1 + i - 1]
    BY <2>1, <2>3, SubSeqProperties
  <2>5. m \in Nat /\ 1 <= k /\ k <= m /\ k \in Nat
    BY <2>2, <2>4
  <2>6. \A i \in 1 .. m : Folder(dest)[i] = dest[i] /\ dest[i] \in Component
    <3>1. ASSUME NEW i \in 1 .. m
          PROVE  Folder(dest)[i] = dest[i] /\ dest[i] \in Component
      <4>1. 1 + i - 1 = i /\ i \in 1 .. m - 1 + 1
        BY <2>5
      <4> QED BY <2>3, <2>4, <4>1
    <3> QED BY <3>1
  <2>7. /\ p \in Seq(Component) /\ Len(p) = k
        /\ \A i \in 1 .. k : p[i] = Folder(dest)[i]
    BY <2>2, <2>5, <2>6, SubSeqProperties
  <2>8. /\ SubSeq(dest, 1, k) \in Seq(Component) /\ Len(SubSeq(dest, 1, k)) = k
        /\ \A i \in 1 .. k : SubSeq(dest, 1, k)[i] = dest[i]
    BY <2>5, <2>6, SubSeqProperties
  <2>9. p = SubSeq(dest, 1, k)
    <3>1. \A i \in 1 .. k : p[i] = SubSeq(dest, 1, k)[i]
      BY <2>5, <2>6, <2>7, <2>8
    <3> HIDE DEF Folder
    <3> QED BY <2>7, <2>8, <3>1, SeqEqual
  <2>10. k \in 1 .. Len(dest) /\ p # dest
    BY <1>1, <2>1, <2>5, <2>7
  <2> QED BY <2>9, <2>10 DEF Ancestors
<1> QED BY <1>2

-----------------------------------------------------------------------------
(* The steps of a run *)

\* Whatever the disc does in a run, the tree and the calls stay in agreement.
LEMMA DiscStep ==
  ASSUME HInv, [AnyNext]_vars
  PROVE  MInv'
BY NextKeepsMInv DEF HInv

\* A run may end badly at any point: nothing is claimed of what it leaves.
LEMMA EndsBadly ==
  ASSUME HInv, MInv', FilesTyped', NEW s \in {"Panic", "Killed"}, EndRun(s), stack' = << >>
  PROVE  HInv'
<1>1. /\ job' \in Job /\ job'.pc = "idle" /\ exit' = s /\ runs' = runs
      /\ job'.verb = job.verb /\ job'.to = job.to /\ job'.queue = job.queue
      /\ job'.arg = job.arg
  BY DEF HInv, HostTyped, Job, EndRun
<1>2. HostTyped'
  BY <1>1 DEF HInv, HostTyped
<1>3. JobMatchesCalls' /\ DataIsWritten' /\ DoneIsExtracted'
  BY <1>1 DEF JobMatchesCalls, DataIsWritten, DoneIsExtracted
<1>4. JobFollowsVerb'
  BY <1>1 DEF HInv, JobFollowsVerb
<1> QED BY <1>2, <1>3, <1>4 DEF HInv

\* The same when the host's files stay as they are.
LEMMA EndsBadlyAtOnce ==
  ASSUME HInv, MInv', host' = host, NEW s \in {"Panic", "Killed"}, EndRun(s), stack' = << >>
  PROVE  HInv'
<1>1. FilesTyped'
  BY DEF HInv, HostTyped, FilesTyped
<1> QED BY <1>1, EndsBadly

\* The program is started.
LEMMA StartRunKeepsHInv ==
  ASSUME HInv, NEW verb \in {"extract", "all", "list"}, NEW arg \in Path,
         NEW to \in Seq(Component), verb \in {"extract", "all"} => to # << >>,
         StartRun(verb, arg, to)
  PROVE  HInv'
<1>1. MInv'
  BY FreshMInv DEF HInv, StartRun
<1>2. << >> \in Path /\ << >> \in Seq(Component)
  BY EmptySeq DEF Path
<1>3. /\ job' \in Job /\ job'.pc = "load" /\ job'.verb = verb /\ job'.to = to
      /\ job'.arg = arg /\ job'.queue = {}
  BY <1>2 DEF StartRun, NoJob, Job
<1>4. HostTyped'
  <2>1. runs' \in 0 .. MaxRuns
    BY ExtractAssumption DEF StartRun, HInv, HostTyped
  <2> QED BY <1>3, <2>1 DEF StartRun, HInv, HostTyped, FilesTyped
<1>5. JobMatchesCalls' /\ DataIsWritten' /\ DoneIsExtracted'
  BY <1>3 DEF StartRun, JobMatchesCalls, DataIsWritten, DoneIsExtracted
<1>6. JobFollowsVerb'
  BY <1>3 DEF JobFollowsVerb
<1> QED BY <1>1, <1>4, <1>5, <1>6 DEF HInv

\* parse, and main's test of its warnings.
LEMMA LoadKeepsHInv == HInv /\ Load => HInv'
<1> SUFFICES ASSUME HInv, Load PROVE HInv'
  OBVIOUS
<1>1. MInv'
  BY DiscStep DEF Load, AnyNext
<1>2. stack' = << >> /\ host' = host /\ exit # "Ok" /\ job \in Job /\ job.pc = "load"
  BY DEF Load, At, ParseDisk, ParseDiskFails, HInv, JobMatchesCalls, DoneIsExtracted,
         HostTyped
<1>3. CASE phase' # "open" \/ faults' # {}
  BY <1>1, <1>2, <1>3, EndsBadlyAtOnce DEF Load
<1>4. CASE phase' = "open" /\ faults' = {} /\ job.verb = "extract"
  <2>1. /\ job' \in Job /\ job'.pc = "next" /\ job'.verb = "extract" /\ job'.to = job.to
        /\ job'.arg = job.arg /\ job'.queue = {job.arg} /\ exit' = exit /\ runs' = runs
    <3>1. /\ job' = [job EXCEPT !.pc = "next", !.queue = {job.arg}]
          /\ exit' = exit /\ runs' = runs
      BY <1>4 DEF Load
    <3>2. {job.arg} \in SUBSET Path
      BY <1>2 DEF Job
    <3> QED BY <1>2, <1>4, <3>1, <3>2 DEF Job
  <2>2. HostTyped'
    BY <1>2, <2>1 DEF HInv, HostTyped, FilesTyped
  <2>3. JobMatchesCalls' /\ DataIsWritten' /\ DoneIsExtracted'
    BY <1>2, <1>4, <2>1 DEF JobMatchesCalls, DataIsWritten, DoneIsExtracted
  <2>4. JobFollowsVerb'
    BY <1>4, <2>1 DEF HInv, JobFollowsVerb
  <2> QED BY <1>1, <2>2, <2>3, <2>4 DEF HInv
<1>5. CASE phase' = "open" /\ faults' = {} /\ job.verb # "extract"
  <2>1. /\ job' \in Job /\ job'.pc = "keys" /\ job'.verb = job.verb /\ job'.to = job.to
        /\ job'.arg = job.arg /\ job'.queue = job.queue /\ exit' = exit /\ runs' = runs
    BY <1>2, <1>5 DEF Load, Goto, Job
  <2>2. HostTyped'
    BY <1>2, <2>1 DEF HInv, HostTyped, FilesTyped
  <2>3. JobMatchesCalls' /\ DataIsWritten' /\ DoneIsExtracted'
    BY <1>2, <1>5, <2>1 DEF JobMatchesCalls, DataIsWritten, DoneIsExtracted
  <2>4. JobFollowsVerb'
    BY <1>2, <1>5, <2>1 DEF HInv, JobFollowsVerb, Job
  <2> QED BY <1>1, <2>2, <2>3, <2>4 DEF HInv
<1> QED BY <1>3, <1>4, <1>5

\* The keys of the disc are asked for.
LEMMA AskKeysKeepsHInv == HInv /\ AskKeys => HInv'
<1> SUFFICES ASSUME HInv, AskKeys PROVE HInv'
  OBVIOUS
<1>1. /\ host' = host /\ exit # "Ok" /\ job \in Job /\ job.pc = "keys" /\ phase = "open"
      /\ stack = << >> /\ CallEntries(job.arg) /\ job.arg \in Path
  BY DEF AskKeys, At, HInv, JobMatchesCalls, DoneIsExtracted, HostTyped, Job
<1>2. MInv'
  BY <1>1, DiscStep DEF AnyNext
<1>3. /\ job' \in Job /\ job'.pc = "listing" /\ job'.verb = job.verb /\ job'.to = job.to
      /\ job'.arg = job.arg /\ job'.queue = job.queue /\ exit' = exit /\ runs' = runs
  BY <1>1 DEF AskKeys, Goto, Job
<1>4. HostTyped'
  BY <1>1, <1>3 DEF HInv, HostTyped, FilesTyped
<1>5. JobMatchesCalls'
  <2> DEFINE f == [op |-> "entries", arg |-> job.arg, pc |-> "scan",
                   target |-> << >>, level |-> 1, todo |-> {}, left |-> 0]
  <2>1. phase' = "open" /\ stack' = Append(<< >>, f)
    BY <1>1 DEF CallEntries
  <2>2. f.op = "entries"
    OBVIOUS
  <2> HIDE DEF f
  <2>3. Len(stack') = 1 /\ stack'[1] = f
    BY <2>1
  <2> QED BY <1>3, <2>1, <2>2, <2>3 DEF JobMatchesCalls, Top
<1>6. DataIsWritten' /\ DoneIsExtracted'
  BY <1>1, <1>3 DEF DataIsWritten, DoneIsExtracted
<1>7. JobFollowsVerb'
  BY <1>1, <1>3 DEF HInv, JobFollowsVerb
<1> QED BY <1>2, <1>4, <1>5, <1>6, <1>7 DEF HInv

\* entries runs, ends the run, or fills the queue.
LEMMA ListingKeepsHInv == HInv /\ Listing => HInv'
<1> SUFFICES ASSUME HInv, Listing PROVE HInv'
  OBVIOUS
<1>1. /\ host' = host /\ exit # "Ok" /\ job \in Job /\ job.pc = "listing"
      /\ phase = "open" /\ Len(stack) = 1 /\ Top.op = "entries" /\ Step /\ MInv
      /\ job.verb \in {"all", "list"}
  BY DEF Listing, At, HInv, JobMatchesCalls, JobFollowsVerb, DoneIsExtracted, HostTyped
<1>2. MInv'
  BY <1>1, DiscStep DEF AnyNext
<1>3. CASE stack' = << >> /\ reply'.out.tag # "Ok"
  BY <1>1, <1>2, <1>3, EndsBadlyAtOnce DEF Listing
<1>4. CASE /\ stack' # << >> /\ Len(stack') = 1 /\ stack'[Len(stack')].op = "entries"
           /\ phase' = phase
  <2>1. job' = job /\ exit' = exit /\ runs' = runs
    BY <1>4 DEF Listing
  <2>2. HostTyped'
    BY <1>1, <2>1 DEF HInv, HostTyped, FilesTyped
  <2>3. JobMatchesCalls' /\ DataIsWritten' /\ DoneIsExtracted'
    BY <1>1, <1>4, <2>1 DEF JobMatchesCalls, DataIsWritten, DoneIsExtracted, Top
  <2>4. JobFollowsVerb'
    BY <2>1 DEF HInv, JobFollowsVerb
  <2> QED BY <1>2, <2>2, <2>3, <2>4 DEF HInv
<1>5. CASE /\ stack' = << >> /\ reply'.out.tag = "Ok" /\ phase' = phase
           /\ reply'.out.val \subseteq Path
  <2> DEFINE queue == IF job.verb = "all" THEN reply'.out.val ELSE {}
  <2>1. /\ job' = [job EXCEPT !.pc = "next", !.queue = queue]
        /\ exit' = exit /\ runs' = runs /\ queue \in SUBSET Path
        /\ job.verb = "list" => queue = {}
    BY <1>5 DEF Listing
  <2> HIDE DEF queue
  <2>2. /\ job' \in Job /\ job'.pc = "next" /\ job'.verb = job.verb /\ job'.to = job.to
        /\ job'.arg = job.arg /\ job'.queue = queue
    BY <1>1, <2>1 DEF Job
  <2>3. HostTyped'
    BY <1>1, <2>1, <2>2 DEF HInv, HostTyped, FilesTyped
  <2>4. JobMatchesCalls' /\ DataIsWritten' /\ DoneIsExtracted'
    BY <1>1, <1>5, <2>1, <2>2 DEF JobMatchesCalls, DataIsWritten, DoneIsExtracted
  <2>5. JobFollowsVerb'
    BY <1>1, <2>1, <2>2 DEF HInv, JobFollowsVerb
  <2> QED BY <1>2, <2>3, <2>4, <2>5 DEF HInv
<1> QED BY <1>1, <1>3, <1>4, <1>5, EntriesOutcomes

\* The steps of the tool between its calls leave the disc as it is.
LEMMA DiscRests ==
  ASSUME HInv, UNCHANGED vars
  PROVE  MInv'
BY DiscStep

\* A path is taken from the queue.
LEMMA NextPathKeepsHInv == HInv /\ NextPath => HInv'
<1> SUFFICES ASSUME HInv, NextPath PROVE HInv'
  OBVIOUS
<1>1. PICK p \in job.queue :
        job' = [job EXCEPT !.pc = "folder", !.path = p, !.queue = @ \ {p},
                  !.dest = IF job.verb = "all" THEN HostPath(job.to, p) ELSE job.to]
  BY DEF NextPath
<1>2. /\ UNCHANGED <<vars, host, exit, runs>> /\ exit # "Ok" /\ job \in Job
      /\ job.pc = "next" /\ phase = "open" /\ stack = << >> /\ p \in Path
  BY DEF NextPath, At, HInv, JobMatchesCalls, DoneIsExtracted, HostTyped, Job
<1>3. MInv'
  BY <1>2, DiscRests
<1>4. /\ job.verb \in {"extract", "all"} /\ job.to # << >>
      /\ job.verb = "extract" => job.queue \ {p} = {}
  BY <1>1, <1>2 DEF HInv, JobFollowsVerb, Job
<1> DEFINE dest == IF job.verb = "all" THEN HostPath(job.to, p) ELSE job.to
           host_names == IF p = ROOT_PATH THEN <<NoLeaf>>
                         ELSE [i \in 1 .. Len(p) |-> HostName[p[i]]]
<1>5. host_names \in Seq(Component)
  <2>1. CASE p = ROOT_PATH
    <3>1. NoLeaf \in Component
      BY DEF Component
    <3> QED BY <2>1, <3>1
  <2>2. CASE p # ROOT_PATH
    <3>1. Len(p) \in Nat /\ \A i \in 1 .. Len(p) : p[i] \in Name
      BY <1>2, LenProperties, ElementOfSeq DEF Path
    <3>2. [i \in 1 .. Len(p) |-> HostName[p[i]]] \in [1 .. Len(p) -> Component]
      BY <3>1, ExtractAssumption DEF Component
    <3> QED BY <2>2, <3>1, <3>2, SeqDef
  <2> QED BY <2>1, <2>2
<1>6. dest \in Seq(Component) /\ dest # << >>
  <2>1. job.to \in Seq(Component)
    BY <1>2 DEF Job
  <2> HIDE DEF host_names
  <2>2. job.to \o host_names \in Seq(Component) /\ job.to \o host_names # << >>
    BY <1>4, <1>5, <2>1, ConcatProperties, ConcatEqualIffEmpty
  <2>3. HostPath(job.to, p) = job.to \o host_names
    BY DEF HostPath, host_names
  <2> QED BY <1>4, <2>1, <2>2, <2>3
<1> HIDE DEF dest
<1>7. /\ job' \in Job /\ job'.pc = "folder" /\ job'.verb = job.verb /\ job'.to = job.to
      /\ job'.arg = job.arg /\ job'.queue = job.queue \ {p} /\ job'.dest = dest
  <2>1. job' = [job EXCEPT !.pc = "folder", !.path = p, !.queue = job.queue \ {p},
                  !.dest = dest]
    BY <1>1, <1>2 DEF dest, Job
  <2>2. job.queue \ {p} \in SUBSET Path
    BY <1>2 DEF Job
  <2> QED BY <1>2, <1>6, <2>1, <2>2 DEF Job
<1>8. HostTyped'
  BY <1>2, <1>7 DEF HInv, HostTyped, FilesTyped
<1>9. JobMatchesCalls' /\ DataIsWritten' /\ DoneIsExtracted'
  BY <1>2, <1>7 DEF JobMatchesCalls, DataIsWritten, DoneIsExtracted, vars
<1>10. JobFollowsVerb'
  BY <1>4, <1>6, <1>7 DEF HInv, JobFollowsVerb
<1> QED BY <1>3, <1>8, <1>9, <1>10 DEF HInv

\* The queue is empty and the run ends well.
LEMMA FinishKeepsHInv == HInv /\ Finish => HInv'
<1> SUFFICES ASSUME HInv, Finish PROVE HInv'
  OBVIOUS
<1>1. /\ UNCHANGED <<vars, host, runs>> /\ exit' = "Ok" /\ job \in Job /\ job.pc = "next"
      /\ job.queue = {} /\ stack = << >>
  BY DEF Finish, EndRun, At, HInv, JobMatchesCalls, HostTyped
<1>2. MInv'
  BY <1>1, DiscRests
<1>3. /\ job' \in Job /\ job'.pc = "idle" /\ job'.verb = job.verb /\ job'.to = job.to
      /\ job'.arg = job.arg /\ job'.queue = job.queue /\ job'.dest = job.dest
      /\ job'.path = job.path
  BY <1>1 DEF Finish, EndRun, Job
<1>4. HostTyped'
  BY <1>1, <1>3 DEF HInv, HostTyped, FilesTyped
<1>5. JobMatchesCalls' /\ DataIsWritten'
  BY <1>1, <1>3 DEF JobMatchesCalls, DataIsWritten, vars
<1>6. JobFollowsVerb'
  BY <1>3 DEF HInv, JobFollowsVerb
<1>7. DoneIsExtracted'
  <2>1. job.verb = "extract" => Extracted
    BY <1>1 DEF HInv, DoneIsExtracted
  <2>2. Extracted => Extracted'
    BY <1>1, <1>3 DEF Extracted, IsWhole, Is, vars
  <2> QED BY <1>3, <2>1, <2>2 DEF DoneIsExtracted
<1> QED BY <1>2, <1>4, <1>5, <1>6, <1>7 DEF HInv

\* create_dir_all adds a folder, or has them all.
LEMMA MakeFolderKeepsHInv == HInv /\ (MakeFolder \/ FolderMade) => HInv'
<1> SUFFICES ASSUME HInv, MakeFolder \/ FolderMade PROVE HInv'
  OBVIOUS
<1>1. /\ UNCHANGED vars /\ exit # "Ok" /\ job \in Job /\ job.pc = "folder"
      /\ phase = "open" /\ stack = << >> /\ FilesTyped
  BY DEF MakeFolder, FolderMade, At, HInv, JobMatchesCalls, DoneIsExtracted, HostTyped
<1>2. MInv'
  BY <1>1, DiscRests
<1>3. /\ job' \in Job /\ job'.pc \in {"folder", "create"} /\ job'.verb = job.verb
      /\ job'.to = job.to /\ job'.arg = job.arg /\ job'.queue = job.queue
      /\ job'.dest = job.dest /\ exit' = exit /\ runs' = runs
  BY <1>1 DEF MakeFolder, FolderMade, Goto, Job
<1>4. FilesTyped'
  <2>1. HostDir.kind = "dir" /\ HostDir.of \in Seq(DirEntry)
    BY EmptySeq DEF HostDir
  <2>2. CASE host' = host
    BY <1>1, <2>2 DEF FilesTyped
  <2>3. ASSUME NEW p, host' = Put(host, p, HostDir) PROVE FilesTyped'
    BY <1>1, <2>1, <2>3 DEF Put, FilesTyped
  <2> QED BY <2>2, <2>3 DEF MakeFolder, FolderMade
<1>5. HostTyped'
  BY <1>3, <1>4 DEF HInv, HostTyped
<1>6. JobMatchesCalls' /\ DataIsWritten' /\ DoneIsExtracted'
  BY <1>1, <1>3 DEF JobMatchesCalls, DataIsWritten, DoneIsExtracted, vars
<1>7. JobFollowsVerb'
  BY <1>1, <1>3 DEF HInv, JobFollowsVerb
<1> QED BY <1>2, <1>5, <1>6, <1>7 DEF HInv

\* The file is created, or truncated, and get_file called.
LEMMA CreateFileKeepsHInv == HInv /\ CreateFile => HInv'
<1> SUFFICES ASSUME HInv, CreateFile PROVE HInv'
  OBVIOUS
<1>1. /\ exit # "Ok" /\ job \in Job /\ job.pc = "create" /\ phase = "open"
      /\ stack = << >> /\ FilesTyped /\ job.path \in Path /\ CallGetFile(job.path)
  BY DEF CreateFile, At, HInv, JobMatchesCalls, DoneIsExtracted, HostTyped, Job
<1>2. MInv'
  BY <1>1, DiscStep DEF AnyNext
<1>3. /\ job' \in Job /\ job'.pc = "read" /\ job'.verb = job.verb /\ job'.to = job.to
      /\ job'.arg = job.arg /\ job'.queue = job.queue /\ job'.dest = job.dest
      /\ job'.path = job.path /\ exit' = exit /\ runs' = runs
  BY <1>1 DEF CreateFile, Goto, Job
<1>4. /\ FilesTyped' /\ job.dest \in DOMAIN host' /\ host'[job.dest].kind = "data"
      /\ host'[job.dest].of = << >>
  <2>1. << >> \in Seq(DirEntry)
    BY EmptySeq
  <2>2. host' = Put(host, job.dest, [kind |-> "data", of |-> << >>])
    BY DEF CreateFile, DataFile
  <2> QED BY <1>1, <2>1, <2>2, PutFile
<1>5. HostTyped'
  BY <1>3, <1>4 DEF HInv, HostTyped
<1> DEFINE f == [op |-> "get_file", arg |-> job.path, pc |-> "populate",
                 target |-> job.path, level |-> 1, todo |-> {}, left |-> 0]
<1>6. /\ phase' = "open" /\ stack' = Append(<< >>, f)
      /\ f.op = "get_file" /\ f.arg = job.path /\ f.pc = "populate"
  BY <1>1 DEF CallGetFile
<1> HIDE DEF f
<1>7. Len(stack') = 1 /\ Top' = f
  BY <1>6 DEF Top
<1>8. JobMatchesCalls' /\ DoneIsExtracted'
  BY <1>1, <1>3, <1>6, <1>7 DEF JobMatchesCalls, DoneIsExtracted
<1>9. DataIsWritten'
  BY <1>3, <1>4, <1>6, <1>7 DEF DataIsWritten, Is
<1>10. JobFollowsVerb'
  BY <1>1, <1>3 DEF HInv, JobFollowsVerb
<1> QED BY <1>2, <1>5, <1>8, <1>9, <1>10 DEF HInv

\* get_file goes on, passes on a region, or returns.
LEMMA ReadFileKeepsHInv == HInv /\ ReadFile => HInv'
<1> SUFFICES ASSUME HInv, ReadFile PROVE HInv'
  OBVIOUS
<1> DEFINE e == tree[job.path].val
           n == image.extent[e.address]
<1>1. /\ exit # "Ok" /\ job \in Job /\ job.pc = "read" /\ phase = "open"
      /\ Len(stack) = 1 /\ Top.op = "get_file" /\ Top.arg = job.path
      /\ FilesTyped /\ Step /\ MInv /\ AfterStep
  BY DEF ReadFile, At, HInv, JobMatchesCalls, DoneIsExtracted, HostTyped
<1>2. MInv'
  BY <1>1, DiscStep DEF AnyNext
<1>3. /\ Top \in Frame /\ Top \in Grounded(tree) /\ Sound(image, tree, Top) /\ stack # << >>
  BY <1>1, OnlyCall
<1>4. /\ Is("data", job.dest)
      /\ Top.pc # "write" => host[job.dest].of = << >>
      /\ Top.pc = "write" => host[job.dest].of = Copies(n - Top.left, e)
  BY <1>1 DEF HInv, DataIsWritten
<1>5. ASSUME Top.pc = "write"
      PROVE  /\ e \in DirEntry /\ EntryAt(image, job.path, e) /\ ~e.dir
             /\ Top.left \in Nat /\ n \in Nat /\ Top.left <= n
  <2>1. job.path \in DOMAIN tree /\ tree[job.path].kind = "File" /\ Top.left <= n
    BY <1>1, <1>3, <1>5 DEF Grounded, Sound
  <2>2. /\ e \in DirEntry /\ e.address \in Addr /\ EntryAt(image, job.path, e) /\ ~e.dir
    BY <1>1, <2>1, CachedEntry DEF MInv
  <2>3. Top.left \in Nat
    BY <1>3 DEF Frame
  <2>4. n \in Nat \cup {-1}
    BY <1>1, <2>2 DEF MInv, IInv, TypeOK, Image, NoExtent
  <2> QED BY <2>1, <2>2, <2>3, <2>4
<1>6. host' = IF Top.pc = "write" /\ Top.left > 0 /\ stack' # << >>
                THEN Put(host, job.dest, [kind |-> "data",
                                          of |-> Append(host[job.dest].of, e)])
                ELSE host
  BY <1>1, <1>3 DEF ReadFile, Writes, Writing, Running, DataFile
<1> HIDE DEF e, n
<1>7. CASE stack' = << >> /\ reply'.out.tag # "Ok"
  BY <1>1, <1>2, <1>6, <1>7, EndsBadlyAtOnce DEF AfterStep
<1>8. ASSUME NEW f \in Frame, stack' # << >>, Len(stack') = 1, stack'[Len(stack')] = f,
             f.op = "get_file", f.arg = Top.arg, phase' = phase,
             \/ f.pc = "populate" /\ host' = host
             \/ /\ f.pc = "write" /\ UNCHANGED <<image, tree>> /\ f.left \in 0 .. n
                /\ FilesTyped' /\ Is("data", job.dest)'
                /\ host'[job.dest].of = Copies(n - f.left, e),
             f.pc = "populate" => host[job.dest].of = << >>
      PROVE  HInv'
  <2>1. UNCHANGED <<job, exit, runs>> /\ Top' = f
    BY <1>1, <1>8 DEF AfterStep, Top
  <2>2. HostTyped'
    BY <1>1, <1>8, <2>1 DEF HInv, HostTyped, FilesTyped
  <2>3. JobMatchesCalls' /\ DoneIsExtracted'
    BY <1>1, <1>8, <2>1 DEF JobMatchesCalls, DoneIsExtracted
  <2>4. JobFollowsVerb'
    BY <2>1 DEF HInv, JobFollowsVerb
  <2>5. DataIsWritten'
    <3>1. CASE f.pc = "populate"
      BY <1>1, <1>4, <1>8, <2>1, <3>1 DEF DataIsWritten, Is
    <3>2. CASE f.pc = "write"
      <4>1. e = (tree[job.path].val)' /\ n = (image.extent[tree[job.path].val.address])'
        BY <1>8, <2>1, <3>2 DEF e, n
      <4> QED BY <1>1, <1>8, <2>1, <3>2, <4>1 DEF DataIsWritten
    <3> QED BY <1>8, <3>1, <3>2
  <2> QED BY <1>2, <2>2, <2>3, <2>4, <2>5 DEF HInv
<1>9. ASSUME NEW f \in Frame, stack' # << >>, Len(stack') = 1, stack'[Len(stack')] = f,
             f.op = "get_file", f.arg = Top.arg, phase' = phase,
             Top.pc = "populate", f.pc = "populate"
      PROVE  HInv'
  BY <1>4, <1>6, <1>8, <1>9
<1>10. ASSUME NEW f \in Frame, stack' # << >>, Len(stack') = 1, stack'[Len(stack')] = f,
              f.op = "get_file", f.arg = Top.arg, phase' = phase, image' = image,
              Top.pc = "populate", f.pc = "write", tree' = tree, IsCachedFile(Top.arg),
              f.left = image.extent[tree[Top.arg].val.address]
       PROVE  HInv'
  <2>1. host' = host /\ f.left = n /\ f.left \in Nat
    BY <1>1, <1>6, <1>10 DEF Frame, e, n
  <2>2. Top' = f /\ job' = job
    BY <1>1, <1>10 DEF Top, AfterStep
  <2>3. e \in DirEntry
    BY <1>1, <1>10, CachedEntry DEF MInv, IsCachedFile, e
  <2>4. host[job.dest].of = Copies(n - f.left, e)
    <3>1. n - f.left = 0
      BY <2>1
    <3> QED BY <1>4, <1>10, <2>3, <3>1, CopiesGrow
  <2>5. FilesTyped' /\ Is("data", job.dest)'
    BY <1>1, <1>4, <2>1, <2>2 DEF FilesTyped, Is
  <2> QED BY <1>8, <1>10, <2>1, <2>4, <2>5
<1>11. ASSUME NEW f \in Frame, stack' # << >>, Len(stack') = 1, stack'[Len(stack')] = f,
              f.op = "get_file", f.arg = Top.arg, phase' = phase, image' = image,
              Top.pc = "write", f.pc = "write", tree' = tree,
              Top.left > 0, f.left = Top.left - 1
       PROVE  HInv'
  <2>1. PICK k \in Nat : k = n - Top.left
    BY <1>5, <1>11
  <2>2. n - f.left = k + 1 /\ f.left \in 0 .. n
    BY <1>5, <1>11, <2>1
  <2>3. /\ Append(host[job.dest].of, e) = Copies(k + 1, e)
        /\ Copies(k + 1, e) \in Seq(DirEntry)
    <3>1. host[job.dest].of = Copies(k, e)
      BY <1>4, <1>11, <2>1
    <3>2. e \in DirEntry /\ k \in Nat /\ k + 1 \in Nat
      BY <1>5, <1>11
    <3>3. Append(Copies(k, e), e) = Copies(k + 1, e)
      BY <3>2, CopiesGrow
    <3>4. Copies(k + 1, e) \in Seq(DirEntry)
      BY <3>2, CopiesGrow
    <3> QED BY <3>1, <3>3, <3>4
  <2>4. host' = Put(host, job.dest, [kind |-> "data", of |-> Copies(k + 1, e)])
    BY <1>6, <1>11, <2>3
  <2>5. /\ FilesTyped' /\ job.dest \in DOMAIN host' /\ host'[job.dest].kind = "data"
        /\ host'[job.dest].of = Copies(k + 1, e)
    BY <1>1, <2>3, <2>4, PutFile
  <2>6. job' = job
    BY <1>11 DEF AfterStep, ReadFile
  <2>7. Is("data", job.dest)'
    BY <2>5, <2>6 DEF Is
  <2> QED BY <1>8, <1>11, <2>2, <2>5, <2>7
<1>12. CASE /\ stack' = << >> /\ Top.pc = "write" /\ Top.left = 0
            /\ UNCHANGED <<phase, tree>> /\ image' = image
            /\ reply'.out = Outcome("Ok", tree[Top.arg].val)
  <2>1. host' = host /\ reply'.out.tag = "Ok" /\ reply'.out.val = e
    BY <1>1, <1>6, <1>12 DEF Outcome, e
  <2>2. /\ job' \in Job /\ job'.pc = "inf" /\ job'.verb = job.verb /\ job'.to = job.to
        /\ job'.arg = job.arg /\ job'.queue = job.queue /\ job'.dest = job.dest
        /\ job'.path = job.path /\ exit' = exit /\ runs' = runs
    BY <1>1, <1>12, <2>1 DEF AfterStep, Goto, Job
  <2>3. HostTyped'
    BY <1>1, <2>1, <2>2 DEF HInv, HostTyped, FilesTyped
  <2>4. JobMatchesCalls' /\ DoneIsExtracted'
    BY <1>1, <1>12, <2>2 DEF JobMatchesCalls, DoneIsExtracted
  <2>5. JobFollowsVerb'
    BY <1>1, <2>2 DEF HInv, JobFollowsVerb
  <2>6. IsWhole(job.dest, e)
    <3>1. n - Top.left = n
      BY <1>5, <1>12
    <3> QED BY <1>4, <1>12, <3>1 DEF IsWhole, Copies, n
  <2>7. DataIsWritten'
    BY <1>5, <1>12, <2>1, <2>2, <2>6 DEF DataIsWritten, IsWhole, Is
  <2> QED BY <1>2, <2>3, <2>4, <2>5, <2>7 DEF HInv
<1> QED BY <1>1, <1>7, <1>9, <1>10, <1>11, <1>12, GetFileOutcomes

\* The metadata is written.
LEMMA WriteInfKeepsHInv == HInv /\ WriteInf => HInv'
<1> SUFFICES ASSUME HInv, WriteInf PROVE HInv'
  OBVIOUS
<1>0. PICK e \in DirEntry : e = reply.out.val
  BY DEF WriteInf, At, HInv, DataIsWritten
<1>1. /\ UNCHANGED vars /\ exit # "Ok" /\ job \in Job /\ job.pc = "inf"
      /\ phase = "open" /\ stack = << >> /\ FilesTyped
      /\ EntryAt(image, job.path, e) /\ ~e.dir /\ IsWhole(job.dest, e)
  BY <1>0 DEF WriteInf, At, HInv, JobMatchesCalls, DoneIsExtracted, HostTyped, DataIsWritten
<1>2. host' = Put(host, Inf(job.dest), InfFile(<<e>>))
  BY <1>0 DEF WriteInf
<1>3. MInv'
  BY <1>1, DiscRests
<1>4. /\ job' \in Job /\ job'.pc = "next" /\ job'.verb = job.verb /\ job'.to = job.to
      /\ job'.arg = job.arg /\ job'.queue = job.queue /\ job'.dest = job.dest
      /\ job'.path = job.path /\ exit' = exit /\ runs' = runs
  BY <1>1 DEF WriteInf, Goto, Job
<1>5. /\ FilesTyped' /\ DOMAIN host' = DOMAIN host \cup {Inf(job.dest)}
      /\ \A q \in DOMAIN host \ {Inf(job.dest)} : host'[q] = host[q]
  <2>1. <<e>> \in Seq(DirEntry)
    OBVIOUS
  <2>2. host' = Put(host, Inf(job.dest), [kind |-> "inf", of |-> <<e>>])
    BY <1>2 DEF InfFile
  <2> QED BY <1>1, <2>1, <2>2, PutFile
<1>6. HostTyped'
  BY <1>4, <1>5 DEF HInv, HostTyped
<1>7. JobMatchesCalls' /\ DataIsWritten'
  BY <1>1, <1>4 DEF JobMatchesCalls, DataIsWritten, vars
<1>8. JobFollowsVerb'
  BY <1>1, <1>4 DEF HInv, JobFollowsVerb
<1>9. DoneIsExtracted'
  <2>1. host'[Inf(job.dest)] = InfFile(<<e>>)
    BY <1>2 DEF Put
  <2>2. job.dest = Inf(job.dest) \/ IsWhole(job.dest, e)'
    <3>1. CASE job.dest # Inf(job.dest)
      BY <1>1, <1>4, <1>5, <3>1 DEF IsWhole, Is, vars
    <3> QED BY <3>1
  <2>3. Extracted'
    BY <1>1, <1>4, <2>1, <2>2 DEF Extracted, vars
  <2> QED BY <1>1, <1>4, <2>3 DEF DoneIsExtracted
<1> QED BY <1>3, <1>6, <1>7, <1>8, <1>9 DEF HInv

\* A file operation of the host fails.
LEMMA HostFailureKeepsHInv ==
  ASSUME HInv, FolderFails \/ CreateFails \/ InfFails
  PROVE  HInv'
<1>1. UNCHANGED vars /\ EndRun("Panic")
  BY DEF FolderFails, CreateFails, InfFails
<1>2. MInv' /\ stack' = << >>
  BY <1>1, DiscRests
     DEF vars, FolderFails, CreateFails, InfFails, At, HInv, JobMatchesCalls
<1>3. CASE host' = host
  BY <1>1, <1>2, <1>3, EndsBadlyAtOnce
<1>4. CASE host' # host
  <2>1. host' = Put(host, Inf(job.dest), [kind |-> "inf", of |-> << >>])
    BY <1>4 DEF FolderFails, CreateFails, InfFails, InfFile
  <2>2. FilesTyped'
    BY <2>1, EmptySeq, PutFile DEF HInv, HostTyped
  <2> QED BY <1>1, <1>2, <2>2, EndsBadly
<1> QED BY <1>3, <1>4

\* The program is killed.
LEMMA KillKeepsHInv == HInv /\ Kill => HInv'
<1> SUFFICES ASSUME HInv, Kill PROVE HInv'
  OBVIOUS
<1>1. MInv'
  BY DroppedMInv DEF HInv, Kill
<1> QED BY <1>1, EndsBadlyAtOnce DEF Kill

\* A step that is none of the program's.
LEMMA StutterKeepsHInv == HInv /\ UNCHANGED allVars => HInv'
<1> SUFFICES ASSUME HInv, UNCHANGED allVars PROVE HInv'
  OBVIOUS
<1>1. UNCHANGED vars /\ UNCHANGED hostVars
  BY DEF allVars
<1>2. MInv'
  BY <1>1, DiscRests
<1>3. HostTyped' /\ JobMatchesCalls' /\ JobFollowsVerb' /\ DataIsWritten' /\ DoneIsExtracted'
  BY <1>1 DEF vars, hostVars, HInv, HostTyped, FilesTyped, JobMatchesCalls, JobFollowsVerb,
              DataIsWritten, DoneIsExtracted, Extracted, Is, IsWhole, Top
<1> QED BY <1>2, <1>3 DEF HInv

\* The invariant holds before the first run.
LEMMA HostInitHInv == HostInit => HInv
<1> SUFFICES ASSUME HostInit PROVE HInv
  OBVIOUS
<1>1. Init /\ DOMAIN host = {} /\ job = NoJob /\ exit = "none" /\ runs = 0
  BY DEF HostInit
<1>2. MInv
  <2>1. TreeMatchesDisc /\ CallsAreSound
    BY <1>1 DEF Init, EmptyTree, TreeMatchesDisc, CallsAreSound
  <2> QED BY <1>1, <2>1, InitIInv DEF MInv
<1>3. job \in Job /\ job.pc = "idle" /\ job.verb = "none" /\ job.queue = {}
  <2>1. << >> \in Path /\ << >> \in Seq(Component)
    BY EmptySeq DEF Path
  <2> QED BY <1>1, <2>1 DEF NoJob, Job
<1>4. HostTyped
  BY <1>1, <1>3, ExtractAssumption DEF HostTyped, FilesTyped
<1>5. JobMatchesCalls /\ JobFollowsVerb /\ DataIsWritten /\ DoneIsExtracted
  BY <1>1, <1>3 DEF Init, JobMatchesCalls, JobFollowsVerb, DataIsWritten, DoneIsExtracted
<1> QED BY <1>2, <1>4, <1>5 DEF HInv

\* Every step keeps the invariant.
LEMMA HostNextHInv == HInv /\ [HostNext]_allVars => HInv'
<1> SUFFICES ASSUME HInv, [HostNext]_allVars PROVE HInv'
  OBVIOUS
<1>1. \A to \in Dests : to \in Seq(Component) /\ to # << >>
  <2>1. HostComponent \subseteq Component
    BY DEF Component
  <2> QED BY <2>1, ExtractAssumption, SeqMonotonic
<1>2. ASSUME NEW p \in FilePaths, NEW to \in Dests, StartRun("extract", p, to)
      PROVE  HInv'
  BY <1>1, <1>2, StartRunKeepsHInv, PathsAssumption
<1>3. ASSUME NEW to \in Dests, StartRun("all", ROOT_PATH, to)
      PROVE  HInv'
  <2>1. ROOT_PATH \in Path
    BY EmptySeq DEF ROOT_PATH, Path
  <2> QED BY <1>1, <1>3, <2>1, StartRunKeepsHInv
<1>4. ASSUME NEW p \in Prefixes, StartRun("list", p, << >>)
      PROVE  HInv'
  <2>1. << >> \in Seq(Component)
    BY EmptySeq
  <2> QED BY <1>4, <2>1, StartRunKeepsHInv, PathsAssumption
<1>5. CASE RunStep
  BY <1>5, LoadKeepsHInv, AskKeysKeepsHInv, ListingKeepsHInv, NextPathKeepsHInv,
     FinishKeepsHInv, MakeFolderKeepsHInv, CreateFileKeepsHInv, ReadFileKeepsHInv,
     WriteInfKeepsHInv, HostFailureKeepsHInv
     DEF RunStep, WriteFile
<1> QED BY <1>2, <1>3, <1>4, <1>5, KillKeepsHInv, StutterKeepsHInv DEF HostNext

\* The invariant holds in every state of every sequence of runs.
THEOREM HostInductive == HostSpec => []HInv
<1>1. HostInit => HInv
  BY HostInitHInv
<1>2. HInv /\ [HostNext]_allVars => HInv'
  BY HostNextHInv
<1> QED BY <1>1, <1>2, PTL DEF HostSpec

-----------------------------------------------------------------------------
(* What follows *)

\* The variables of the tool and of its disc have their types.
THEOREM HostTyping == HostSpec => []HostTypeOK
<1>1. HInv => HostTypeOK
  BY DEF HInv, MInv, IInv, HostTyped, FilesTyped, HostTypeOK, Job
<1> QED BY <1>1, HostInductive, PTL

\* A run of `extract' that ends well has put the file of the disc, whole, and its
\* metadata at the destination, whatever earlier runs have left there.
THEOREM CompleteExtraction == HostSpec => []SuccessIsComplete
<1>1. HInv => SuccessIsComplete
  BY DEF HInv, DoneIsExtracted, Extracted, SuccessIsComplete
<1> QED BY <1>1, HostInductive, PTL

\* Metadata is written last: when an .inf file gets its contents, the data they
\* describe are all there.
THEOREM MetadataLast == HostSpec => MetadataFollowsData
<1> DEFINE A == \A p \in DOMAIN host' : \A e \in DirEntry :
                  host'[p] = InfFile(<<e>>) /\ (p \notin DOMAIN host \/ host[p] # host'[p])
                    => IsWhole(job.dest, e) /\ p = Inf(job.dest)
<1>1. HInv /\ [HostNext]_allVars => [A]_host
  <2> SUFFICES ASSUME HInv, [HostNext]_allVars, host' # host,
                      NEW p \in DOMAIN host', NEW e \in DirEntry,
                      host'[p] = InfFile(<<e>>),
                      p \notin DOMAIN host \/ host[p] # host'[p]
               PROVE  IsWhole(job.dest, e) /\ p = Inf(job.dest)
    OBVIOUS
  <2>1. InfFile(<<e>>).kind = "inf" /\ InfFile(<<e>>).of = <<e>>
    BY DEF InfFile
  <2>2. CASE MakeFolder
    BY <2>1, <2>2 DEF MakeFolder, Put, HostDir
  <2>3. CASE CreateFile
    BY <2>1, <2>3 DEF CreateFile, Put, DataFile
  <2>4. CASE ReadFile
    BY <2>1, <2>4 DEF ReadFile, Put, DataFile
  <2>5. CASE WriteInf
    <3>1. job.pc = "inf" /\ host' = Put(host, Inf(job.dest), InfFile(<<reply.out.val>>))
      BY <2>5 DEF WriteInf, At
    <3>2. p = Inf(job.dest)
      BY <3>1 DEF Put
    <3>3. InfFile(<<reply.out.val>>).of = <<e>>
      BY <2>1, <3>1, <3>2 DEF Put
    <3>4. reply.out.val = e
      BY <3>3 DEF InfFile
    <3> QED BY <3>1, <3>2, <3>4 DEF HInv, DataIsWritten
  <2>6. CASE InfFails
    <3>1. host'[p] = InfFile(<< >>)
      BY <2>6 DEF InfFails, Put
    <3> QED BY <2>1, <3>1 DEF InfFile
  <2> QED BY <2>2, <2>3, <2>4, <2>5, <2>6
          DEF HostNext, RunStep, WriteFile, StartRun, Load, AskKeys, Listing, NextPath,
              Finish, FolderMade, FolderFails, CreateFails, Kill,
              allVars, hostVars
<1> QED BY <1>1, HostInductive, PTL DEF HostSpec, MetadataFollowsData

\* However a run goes, it removes nothing and touches nothing but the destination,
\* its .inf file and the folders the destination lies in.
THEOREM OnlyDestination == HostSpec => OnlyTheDestinationChanges
<1> DEFINE A == /\ DOMAIN host \subseteq DOMAIN host'
                /\ \A p \in DOMAIN host' :
                     \/ p \in DOMAIN host /\ host'[p] = host[p]
                     \/ p \in {job.dest, Inf(job.dest)} /\ host'[p].kind # "dir"
                     \/ /\ p \notin DOMAIN host
                        /\ p \in Ancestors(job.dest) \ {job.dest}
                        /\ host'[p] = HostDir
<1>1. ASSUME NEW p, NEW c, c.kind # "dir", p \in {job.dest, Inf(job.dest)},
             host' = Put(host, p, c)
      PROVE  A
  BY <1>1 DEF Put
<1>2. HInv /\ [HostNext]_allVars => [A]_host
  <2> SUFFICES ASSUME HInv, [HostNext]_allVars, host' # host PROVE A
    OBVIOUS
  <2>1. \A of : DataFile(of).kind # "dir" /\ InfFile(of).kind # "dir"
    BY DEF DataFile, InfFile
  <2>2. CASE MakeFolder
    <3>1. job.dest \in Seq(Component) /\ job.dest # << >>
      BY <2>2 DEF MakeFolder, At, HInv, HostTyped, Job, JobFollowsVerb
    <3>2. Ancestors(Folder(job.dest)) \subseteq Ancestors(job.dest) \ {job.dest}
      BY <3>1, FolderAbove
    <3>3. PICK p \in Ancestors(Folder(job.dest)) \ DOMAIN host : host' = Put(host, p, HostDir)
      BY <2>2 DEF MakeFolder
    <3> QED BY <3>2, <3>3 DEF Put
  <2>3. CASE CreateFile
    BY <1>1, <2>1, <2>3 DEF CreateFile
  <2>4. CASE ReadFile
    BY <1>1, <2>1, <2>4 DEF ReadFile
  <2>5. CASE WriteInf \/ InfFails
    BY <1>1, <2>1, <2>5 DEF WriteInf, InfFails
  <2> QED BY <2>2, <2>3, <2>4, <2>5
          DEF HostNext, RunStep, WriteFile, StartRun, Load, AskKeys, Listing, NextPath,
              Finish, FolderMade, FolderFails, CreateFails, Kill,
              allVars, hostVars
<1> QED BY <1>2, HostInductive, PTL DEF HostSpec, OnlyTheDestinationChanges

===============================================================================
