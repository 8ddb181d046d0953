------------------------------- MODULE FileTree -------------------------------
(***************************************************************************)
(* NewMapDisk and its lazily filled file tree                              *)
(* (lib/src/new_map/new_map_disk.rs).                                      *)
(*                                                                         *)
(* The disc is read-only and the program has one thread, but a call is a   *)
(* sequence of steps: it walks its path one segment at a time, may stop    *)
(* half-way with an error and leaves the levels it has loaded behind for   *)
(* the calls that follow.  A call can also run inside another one:         *)
(* get_file hands the regions of a file to a caller-supplied Write while   *)
(* it still borrows the tree, and that Write may call the disk again.      *)
(* `stack' holds the calls in progress, the innermost last.                *)
(***************************************************************************)
EXTENDS DiscImage, PathOrder

CONSTANTS
  Images,    \* the images parse may be given
  FilePaths, \* the paths the clients ask get_file for
  Prefixes,  \* the prefixes they ask entries for (<< >> for None)
  MaxDepth   \* bound on calls nested through Write

ASSUME NameAssumption == Name \subseteq Seq(Nat)
ASSUME ImagesAssumption == Images \subseteq Image
ASSUME PathsAssumption == FilePaths \subseteq Path /\ Prefixes \subseteq Path
ASSUME MaxDepthAssumption == MaxDepth \in Nat \ {0}

VARIABLES
  image,   \* NewMapDisk.image with the map that locates things in it
  phase,   \* new, open, failed (parse returned Err) or panicked
  tree,    \* NewMapDisk.tree: a function on the paths it has keys for
  faults,  \* NewMapDisk.faults: the addresses whose warnings it records
  stack,   \* calls in progress, outermost first
  reply    \* the last call that ended, with its outcome

vars == <<image, phase, tree, faults, stack, reply>>

-----------------------------------------------------------------------------
(* filesystem::FileObject *)

SparseDir(e) == [kind |-> "SparseDir", val |-> e]
File(e)      == [kind |-> "File", val |-> e]
LoadedDir(l) == [kind |-> "LoadedDir", val |-> l]

FileObject == [kind : {"SparseDir", "File"}, val : DirEntry]
                \cup [kind : {"LoadedDir"}, val : Seq(DirEntry)]

\* insert_dir_entry: the object a directory entry is cached as.
DirEntryObject(e) == IF e.dir THEN SparseDir(e) ELSE File(e)

\* The paths of the children of directory p with listing l.
ChildPaths(p, l) == {Append(p, l[i].name) : i \in 1 .. Len(l)}

\* Mutant: the first of several entries with one name is kept.
FirstEntryWins(t, p, l) ==
  [q \in DOMAIN t \cup ChildPaths(p, l) |->
     IF q \in DOMAIN t THEN t[q]
     ELSE DirEntryObject(l[CHOOSE i \in Named(l, q[Len(q)]) :
                              \A j \in Named(l, q[Len(q)]) : i <= j])]

\* The tree after insert_dir_entry for every child of p, in listing order.
InsertChildren(t, p, l) ==
  [q \in DOMAIN t \cup ChildPaths(p, l) |->
     IF q \in ChildPaths(p, l)
       THEN DirEntryObject(LastNamed(l, q[Len(q)]))
       ELSE t[q]]

\* Mutant: the children are left for later.
DirectoryWithoutChildren(t, p, l) ==
  [q \in DOMAIN t \cup {p} |-> IF q = p THEN LoadedDir(l) ELSE t[q]]

\* The tree after the children of p and then p itself are inserted.
InsertDirectory(t, p, l) ==
  LET filled == InsertChildren(t, p, l)
  IN  [q \in DOMAIN filled \cup {p} |->
         IF q = p THEN LoadedDir(l) ELSE filled[q]]

EmptyTree == [p \in {} |-> LoadedDir(<< >>)]

-----------------------------------------------------------------------------
(* Calls *)

NoReply == [op |-> "none", arg |-> << >>, out |-> [tag |-> "none", val |-> << >>]]

Outcome(tag, val) == [tag |-> tag, val |-> val]

Top == stack[Len(stack)]

Caller == SubSeq(stack, 1, Len(stack) - 1)

\* A get_file that is writing holds a shared borrow of the tree.
Borrowed == \E i \in 1 .. Len(stack) : stack[i].pc = "write"

Running(op, pc) ==
  /\ phase = "open"
  /\ stack # << >>
  /\ Top.op = op
  /\ Top.pc = pc

Populating ==
  /\ phase = "open"
  /\ stack # << >>
  /\ Top.pc = "populate"
  /\ Top.level <= Len(Top.target)

\* populate_path(Top.target) has returned Ok.
Populated == Top.level > Len(Top.target)

SetTop(frame) == stack' = [stack EXCEPT ![Len(stack)] = frame]

\* The innermost call returns; its caller resumes after the Write call.
Return(out) ==
  /\ stack' = Caller
  /\ reply' = [op |-> Top.op, arg |-> Top.arg, out |-> out]
  /\ UNCHANGED <<image, phase, tree, faults>>

\* A panic unwinds through every call in progress and ends the program.
Panic ==
  /\ phase' = "panicked"
  /\ stack' = << >>
  /\ reply' = [op |-> Top.op, arg |-> Top.arg, out |-> Outcome("Panic", << >>)]
  /\ UNCHANGED <<image, tree, faults>>

-----------------------------------------------------------------------------
(* NewMapDisk::parse, from the point where the map is known *)

\* create_initial_file_tree: the root directory is loaded and its children
\* cached; only its warnings become the disk's.
ParseDisk ==
  /\ phase = "new"
  /\ image.readable[image.root] = "Ok"
  /\ tree' = InsertDirectory(EmptyTree, ROOT_PATH, image.listing[image.root])
  /\ faults' = {image.root} \cap image.warned
  /\ phase' = "open"
  /\ UNCHANGED <<image, stack, reply>>

ParseDiskFails ==
  /\ phase = "new"
  /\ image.readable[image.root] # "Ok"
  /\ phase' = IF image.readable[image.root] = "Panic" THEN "panicked" ELSE "failed"
  /\ UNCHANGED <<image, tree, faults, stack, reply>>

\* A client calls the disk, from outside or from within a Write.
MayCall ==
  /\ phase = "open"
  /\ stack # << >> => Top.pc = "write" /\ Len(stack) < MaxDepth

CallGetFile(p) ==
  /\ MayCall
  /\ stack' = Append(stack, [op |-> "get_file", arg |-> p, pc |-> "populate",
                             target |-> p, level |-> 1, todo |-> {}, left |-> 0])
  /\ UNCHANGED <<image, phase, tree, faults, reply>>

CallEntries(prefix) ==
  /\ MayCall
  /\ stack' = Append(stack, [op |-> "entries", arg |-> prefix, pc |-> "scan",
                             target |-> << >>, level |-> 1, todo |-> {}, left |-> 0])
  /\ UNCHANGED <<image, phase, tree, faults, reply>>

-----------------------------------------------------------------------------
(* populate_path: one action per way an iteration of its loop can go *)

Stem == SubSeq(Top.target, 1, Top.level)

ParentPath == Parent(Stem)

Cached(kind) == Stem \in DOMAIN tree /\ tree[Stem].kind = kind

NextLevel == SetTop([Top EXCEPT !.level = @ + 1])

\* The target is reached (or is a file): populate_path returns Ok.
PopulateOk == SetTop([Top EXCEPT !.level = Len(Top.target) + 1])

\* Mutant: a sparse directory is taken for a loaded one.
SkipsSparse ==
  /\ Populating
  /\ Cached("LoadedDir") \/ Cached("SparseDir")
  /\ NextLevel
  /\ UNCHANGED <<image, phase, tree, faults, reply>>

\* Some(LoadedDir): nothing to do at this level.
PopulateCached ==
  /\ Populating
  /\ Cached("LoadedDir")
  /\ NextLevel
  /\ UNCHANGED <<image, phase, tree, faults, reply>>

\* Some(File).  A cached sparse entry always has the DIR attribute, because
\* insert_dir_entry chose it so; the check after the match repeats this.
StopsAtFile ==
  /\ Populating
  /\ Cached("File")

PopulateFile ==
  /\ StopsAtFile
  /\ Stem = Top.target
  /\ PopulateOk
  /\ UNCHANGED <<image, phase, tree, faults, reply>>

PopulateThroughFile ==
  /\ StopsAtFile
  /\ Stem # Top.target
  /\ Return(Outcome("InvalidTarget", Stem))

\* Mutant: without the borrow error, the parent's children are cached again.
RecachesSiblings ==
  /\ Populating
  /\ Stem \notin DOMAIN tree
  /\ tree' = InsertChildren(tree, ParentPath, tree[ParentPath].val)
  /\ stack' = Caller
  /\ reply' = [op |-> Top.op, arg |-> Top.arg, out |-> Outcome("MissingTarget", Stem)]
  /\ UNCHANGED <<image, phase, faults>>

\* Mutant: a missing path counts as populated.
IgnoresMissing ==
  /\ Populating
  /\ Stem \notin DOMAIN tree
  /\ PopulateOk
  /\ UNCHANGED <<image, phase, tree, faults, reply>>

\* None.  Indexing the tree with parent_path panics if the key is missing.
\* Under a loaded parent the arm still runs inside the match on
\* `self.tree.borrow()', so the borrow_mut for the parent's first child panics;
\* a parent without children has none to insert and no entry to find.
PopulateMissing ==
  /\ Populating
  /\ Stem \notin DOMAIN tree
  /\ IF ParentPath \notin DOMAIN tree
       THEN Panic
       ELSE IF tree[ParentPath].kind # "LoadedDir"
         THEN Return(Outcome("InvalidTarget", Stem))
         ELSE IF tree[ParentPath].val # << >>
           THEN Panic
           ELSE Return(Outcome("MissingTarget", Stem))

\* Some(SparseDir) of a directory: it is retrieved from the image.
AtDirectory(outcome) ==
  /\ Populating
  /\ Cached("SparseDir")
  /\ image.readable[tree[Stem].val.address] = outcome

\* The children are inserted, then the directory; both need the tree mutably.
PopulateDirectory ==
  /\ AtDirectory("Ok")
  /\ IF Borrowed
       THEN Panic
       ELSE /\ tree' = InsertDirectory(tree, Stem,
                                       image.listing[tree[Stem].val.address])
            /\ NextLevel
            /\ UNCHANGED <<image, phase, faults, reply>>

PopulateUnreadable ==
  \E outcome \in Retrieval \ {"Ok"} :
    /\ AtDirectory(outcome)
    /\ IF outcome = "Panic" THEN Panic ELSE Return(Outcome(outcome, Stem))

PopulatePath ==
  \/ PopulateCached
  \/ PopulateFile
  \/ PopulateThroughFile
  \/ PopulateMissing
  \/ PopulateDirectory
  \/ PopulateUnreadable

-----------------------------------------------------------------------------
(* get_file, after populate_path *)

ReadyToOpen == Running("get_file", "populate") /\ Populated

IsCachedFile(p) == p \in DOMAIN tree /\ tree[p].kind = "File"

\* Indexing the tree with the path panics if the key is missing.
OpenNotAFile ==
  /\ ReadyToOpen
  /\ ~IsCachedFile(Top.arg)
  /\ IF Top.arg \notin DOMAIN tree
       THEN Panic
       ELSE Return(Outcome("InvalidTarget", Top.arg))

\* get_file_regions fails, or the file is written while the tree is borrowed.
OpenFile ==
  /\ ReadyToOpen
  /\ IsCachedFile(Top.arg)
  /\ LET extent == image.extent[tree[Top.arg].val.address]
     IN  IF extent = NoExtent
           THEN Return(Outcome("LookupError", Top.arg))
           ELSE /\ SetTop([Top EXCEPT !.pc = "write", !.left = extent])
                /\ UNCHANGED <<image, phase, tree, faults, reply>>

Writing == Running("get_file", "write")

\* Slicing the image by a region beyond its end panics.
IsCut == Top.left > 0 /\ <<tree[Top.arg].val.address, Top.left>> \in image.cut

\* Mutant: one region too many.
WritesOneMore ==
  /\ Writing
  /\ Top.left >= 0
  /\ SetTop([Top EXCEPT !.left = @ - 1])
  /\ UNCHANGED <<image, phase, tree, faults, reply>>

\* Mutant: a write that stops short counts as the end of the file.
WritesShort ==
  /\ Writing
  /\ Top.left > 0
  /\ ~IsCut
  /\ \/ /\ SetTop([Top EXCEPT !.left = @ - 1])
        /\ UNCHANGED <<image, phase, tree, faults, reply>>
     \/ Return(Outcome("Ok", tree[Top.arg].val))

\* dest.write_all for the next region succeeds, or fails with StdError.
WriteRegion ==
  /\ Writing
  /\ Top.left > 0
  /\ ~IsCut
  /\ \/ /\ SetTop([Top EXCEPT !.left = @ - 1])
        /\ UNCHANGED <<image, phase, tree, faults, reply>>
     \/ Return(Outcome("StdError", Top.arg))

WriteCutRegion ==
  /\ Writing
  /\ IsCut
  /\ Panic

FinishFile ==
  /\ Writing
  /\ Top.left = 0
  /\ Return(Outcome("Ok", tree[Top.arg].val))

-----------------------------------------------------------------------------
(* entries *)

\* The keys left by skip_while(k < prefix) and take_while(is_prefix).
Matching(prefix) ==
  {k \in DOMAIN tree :
     /\ ~PathLess(k, prefix)
     /\ \A j \in DOMAIN tree :
          /\ ~PathLess(j, prefix)
          /\ j = k \/ PathLess(j, k)
          => PathIsPrefix(prefix, j)}

\* Mutant: loaded directories are expanded again.
DirectoryEntries(prefix) == {k \in Matching(prefix) : tree[k].kind # "File"}

SparseEntries(prefix) == {k \in Matching(prefix) : tree[k].kind = "SparseDir"}

IsLeast(p, paths) == \A q \in paths \ {p} : PathLess(p, q)

\* The paths are populated in key order.
PopulateNext(todo) ==
  \E p \in todo :
    /\ IsLeast(p, todo)
    /\ SetTop([op |-> "entries", arg |-> Top.arg, pc |-> "populate",
               target |-> p, level |-> 1, todo |-> todo \ {p}, left |-> 0])

\* One round of the loop: collect the sparse entries, or stop without any.
ScanTree ==
  /\ Running("entries", "scan")
  /\ IF SparseEntries(Top.arg) = {}
       THEN Return(Outcome("Ok", Matching(Top.arg)))
       ELSE /\ PopulateNext(SparseEntries(Top.arg))
            /\ UNCHANGED <<image, phase, tree, faults, reply>>

\* Mutant: entries makes one round only.
OneRound ==
  /\ Running("entries", "populate")
  /\ Populated
  /\ IF Top.todo = {}
       THEN Return(Outcome("Ok", Matching(Top.arg)))
       ELSE /\ PopulateNext(Top.todo)
            /\ UNCHANGED <<image, phase, tree, faults, reply>>

\* populate_path succeeded for one entry of the round.
NextSparse ==
  /\ Running("entries", "populate")
  /\ Populated
  /\ IF Top.todo = {}
       THEN SetTop([Top EXCEPT !.pc = "scan"])
       ELSE PopulateNext(Top.todo)
  /\ UNCHANGED <<image, phase, tree, faults, reply>>

-----------------------------------------------------------------------------

Init ==
  /\ image \in Images
  /\ phase = "new"
  /\ tree = EmptyTree
  /\ faults = {}
  /\ stack = << >>
  /\ reply = NoReply

\* A step of the innermost call.
Step ==
  \/ PopulatePath
  \/ OpenNotAFile
  \/ OpenFile
  \/ WriteRegion
  \/ WriteCutRegion
  \/ FinishFile
  \/ ScanTree
  \/ NextSparse

Next ==
  \/ ParseDisk
  \/ ParseDiskFails
  \/ \E p \in FilePaths : CallGetFile(p)
  \/ \E p \in Prefixes : CallEntries(p)
  \/ Step

Spec == Init /\ [][Next]_vars

\* A call that has begun keeps running: there is no one to wait for.
FairSpec == Spec /\ WF_vars(Step)

-----------------------------------------------------------------------------
(* Properties *)

Frame == [op : {"get_file", "entries"}, arg : Path,
          pc : {"populate", "write", "scan"}, target : Path, level : Nat \ {0},
          todo : SUBSET Path, left : Nat]

(***************************************************************************)
(* Every variable has its type: the image never changes into something     *)
(* else, the tree maps paths to file objects, and frames are well formed.  *)
(***************************************************************************)
TypeOK ==
  /\ image \in Image
  /\ phase \in {"new", "open", "failed", "panicked"}
  /\ DOMAIN tree \subseteq Path
  /\ \A p \in DOMAIN tree : tree[p] \in FileObject
  /\ faults \subseteq image.warned
  /\ stack \in Seq(Frame)

IsLoaded(t, p) == p \in DOMAIN t /\ t[p].kind = "LoadedDir"

(***************************************************************************)
(* The tree is closed under its own structure: the parent of every cached  *)
(* path is a loaded directory, and every child of a loaded directory is    *)
(* cached.  This is what makes indexing the tree with parent_path and with *)
(* path safe, and the None arm of populate_path mean `not on the disc'.    *)
(***************************************************************************)
TreeShape ==
  /\ phase = "open" => IsLoaded(tree, ROOT_PATH)
  /\ \A p \in DOMAIN tree : p # ROOT_PATH => IsLoaded(tree, Parent(p))
  /\ \A p \in DOMAIN tree : tree[p].kind = "LoadedDir" =>
       ChildPaths(p, tree[p].val) \subseteq DOMAIN tree

(***************************************************************************)
(* Whatever the history of calls, half-way failures included, a cached     *)
(* object is what the image itself says of its path: a loaded directory is *)
(* the listing of the directory reached by walking the path on the disc,   *)
(* a sparse directory or a file is the entry its parent ends up with.      *)
(***************************************************************************)
TreeMatchesDisc ==
  \A p \in DOMAIN tree :
    IF tree[p].kind = "LoadedDir"
      THEN \E d \in Addr : DirectoryAt(image, p, d) /\ tree[p].val = image.listing[d]
      ELSE /\ EntryAt(image, p, tree[p].val)
           /\ (tree[p].kind = "SparseDir") = tree[p].val.dir

\* The frames a call may be in while the tree is t.
Grounded(t) ==
  {f \in Frame :
     /\ f.pc \in (IF f.op = "get_file" THEN {"populate", "write"}
                                       ELSE {"populate", "scan"})
     /\ f.op = "get_file" => f.target = f.arg
     /\ f.pc = "populate" /\ f.level <= Len(f.target) =>
          \A k \in 0 .. f.level - 1 : IsLoaded(t, SubSeq(f.target, 1, k))
     /\ f.op = "get_file" /\ f.level > Len(f.target) => f.arg \in DOMAIN t
     /\ f.pc = "write" =>
          /\ f.level > Len(f.target)
          /\ f.arg \in DOMAIN t /\ t[f.arg].kind = "File"}

(***************************************************************************)
(* The calls in progress agree with the tree, those that wait for a nested *)
(* one included: a call that populates its way down has every level above  *)
(* it loaded, so that the parent is there when the next segment is looked  *)
(* up.  With TypeOK and TreeShape this is inductive.                       *)
(***************************************************************************)
CallsAreGrounded == stack \in Seq(Grounded(tree))

\* What more holds of a call f while the image is img and the tree is t.
Sound(img, t, f) ==
  /\ f.op = "get_file" /\ f.level > Len(f.target) => t[f.arg].kind # "SparseDir"
  /\ f.pc = "write" => f.left <= img.extent[t[f.arg].val.address]
  /\ f.op = "entries" /\ f.pc = "populate" =>
       \A p \in f.todo \cup {f.target} :
         p \in DOMAIN t /\ t[p].kind # "File" /\ PathIsPrefix(f.arg, p)

(***************************************************************************)
(* The calls in progress agree with the disc as well, those that wait for  *)
(* a nested one included: get_file stands before a loaded directory or a   *)
(* file once its path is populated and has no more regions left to write   *)
(* than the file has, and entries populates cached directories that begin  *)
(* with its prefix only.  With IInv and TreeMatchesDisc this is inductive. *)
(***************************************************************************)
CallsAreSound == \A i \in 1 .. Len(stack) : Sound(image, tree, stack[i])

\* Before parse has filled it the tree is empty.
StartsEmpty == phase = "new" => tree = EmptyTree

IInv == TypeOK /\ TreeShape /\ CallsAreGrounded /\ StartsEmpty

(***************************************************************************)
(* When populate_path has succeeded for a get_file, its path has a key, so *)
(* the tree can be indexed without a check, as the comment in get_file     *)
(* claims; and the file being written stays cached as that file while the  *)
(* Write calls the disc again.                                             *)
(***************************************************************************)
PopulatedHasKey ==
  \A i \in 1 .. Len(stack) :
    stack[i].op = "get_file" /\ stack[i].level > Len(stack[i].target) =>
      /\ stack[i].arg \in DOMAIN tree
      /\ stack[i].pc = "write" => IsCachedFile(stack[i].arg)

\* Every path keeps its key; every object but a sparse directory stays.
Grows(t, u) ==
  \A p \in DOMAIN t : p \in DOMAIN u /\ (t[p].kind # "SparseDir" => u[p] = t[p])

(***************************************************************************)
(* The cache only grows: no step removes a path, turns a loaded directory  *)
(* back into a sparse one, or changes what a file's path stands for.       *)
(***************************************************************************)
CacheOnlyGrows == [][Grows(tree, tree')]_tree

\* Calls and answers as the clients see them.
Requests == [i \in 1 .. Len(stack) |-> [op |-> stack[i].op, arg |-> stack[i].arg]]

Status == CASE phase = "new" -> "closed"
            [] phase = "open" -> "open"
            [] OTHER -> "ended"

Service == INSTANCE DiscService WITH
             status <- Status, calls <- Requests, answer <- reply

(***************************************************************************)
(* The cache is transparent: whatever was asked before, every answer is    *)
(* one the uncached disc gives, and the program ends in a panic only where *)
(* DiscService allows it.                                                  *)
(***************************************************************************)
CacheIsTransparent == Service!Spec

(***************************************************************************)
(* Every call returns, entries' loop included, on an image whose           *)
(* directories do not contain themselves, unless a Write keeps calling the *)
(* disc for ever.                                                          *)
(***************************************************************************)
CallsReturn ==
  <>[][stack # << >> => Len(stack') <= Len(stack)]_stack
    => ((stack # << >>) ~> (stack = << >>))

-----------------------------------------------------------------------------
(* What the documentation says and the code does not do *)

\* One real prefix test: p has every segment of prefix, the last one perhaps
\* longer.
BeginsWith(prefix, p) ==
  /\ Len(prefix) <= Len(p)
  /\ PathIsPrefix(prefix, p)

(***************************************************************************)
(* populate_path documents IoError::MissingTarget for a path that does not *)
(* exist on the disc.  The code panics instead whenever the directory that *)
(* should hold the missing name has any entry.                             *)
(***************************************************************************)
MissingPathIsReported ==
  reply.op = "get_file" /\ ~OnDisc(image, reply.arg) => reply.out.tag # "Panic"

(***************************************************************************)
(* The CLI documents its list command as `List files on the disk image     *)
(* that begin with the given prefix'.  Below a directory that no earlier   *)
(* call has loaded, the code lists nothing; and it lists a path that is    *)
(* shorter than the prefix, if that path's last segment begins with the    *)
(* prefix's segment at that place.                                         *)
(***************************************************************************)
ListsTheMatches ==
  reply.op = "entries" /\ reply.out.tag = "Ok" =>
    /\ \A p \in reply.out.val : BeginsWith(reply.arg, p)
    /\ \A p \in FilePaths :
         OnDisc(image, p) /\ BeginsWith(reply.arg, p) => p \in reply.out.val

===============================================================================
