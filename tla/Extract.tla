------------------------------ MODULE Extract ------------------------------
(***************************************************************************)
(* The command line tool (cli/src/main.rs): what one run of the program    *)
(* after another leaves on the host's file system.                         *)
(*                                                                         *)
(* A run loads the disc and makes FileTree's calls; the files it writes    *)
(* stay when it ends, whether it succeeds, panics or is killed, and the    *)
(* next run finds them.  All runs are given the same image.  Every call of *)
(* the host's file system may fail, and a run may be killed at any step.   *)
(*                                                                         *)
(* A host path is a sequence of names with a stem and an extension.  A     *)
(* data file holds, region by region, the directory entry of the ADFS file *)
(* the bytes are from; an .inf file holds the entry it describes.          *)
(***************************************************************************)
EXTENDS FileTree

CONSTANTS
  Dests,       \* destinations the tool is asked for
  HostName,    \* the name convert_path_to_os makes of an ADFS name
  MaxRuns      \* bound on the runs of the program

\* A component of a host path.
HostComponent == [stem : STRING, ext : STRING]

ASSUME ExtractAssumption ==
  /\ MaxRuns \in Nat
  /\ Dests \subseteq Seq(HostComponent) \ {<< >>}
  /\ HostName \in [Name -> HostComponent]
  /\ MaxDepth = 1

VARIABLES
  host,  \* the host's file system: a function on the paths that exist
  job,   \* what the run is doing
  exit,  \* how the last run ended: Ok, Panic or Killed, and none before
  runs   \* runs begun

hostVars == <<host, job, exit, runs>>
allVars == <<vars, hostVars>>

HostDir == [kind |-> "dir", of |-> << >>]
DataFile(entries) == [kind |-> "data", of |-> entries]
InfFile(entries) == [kind |-> "inf", of |-> entries]

\* The last component of a host path that ends in a slash.
NoLeaf == [stem |-> "", ext |-> ""]

NoJob == [verb |-> "none", arg |-> << >>, to |-> << >>, pc |-> "idle",
          queue |-> {}, path |-> << >>, dest |-> << >>]

-----------------------------------------------------------------------------
(* Host paths and files *)

\* Mutant: all of the destination is taken for a folder.
WholePath(dest) == dest

\* `folder.pop()': a trailing slash goes together with the name before it.
Folder(dest) ==
  SubSeq(dest, 1, Len(dest) - IF dest[Len(dest)] = NoLeaf THEN 2 ELSE 1)

\* `set_extension("inf")'.
Inf(dest) == [dest EXCEPT ![Len(dest)].ext = "inf"]

\* `destination.join(convert_path_to_os(path))'; joining nothing adds a slash.
HostPath(folder, path) ==
  folder \o (IF path = ROOT_PATH THEN <<NoLeaf>>
             ELSE [i \in 1 .. Len(path) |-> HostName[path[i]]])

Ancestors(p) == {SubSeq(p, 1, k) : k \in 1 .. Len(p)}

Is(kind, p) == p \in DOMAIN host /\ host[p].kind = kind

\* The files after one is created or overwritten.
Put(files, p, content) ==
  [q \in DOMAIN files \cup {p} |-> IF q = p THEN content ELSE files[q]]

-----------------------------------------------------------------------------
(* A run *)

At(pc) == job.pc = pc

Goto(pc) == job' = [job EXCEPT !.pc = pc] /\ UNCHANGED <<exit, runs>>

EndRun(status) ==
  /\ job' = [job EXCEPT !.pc = "idle"]
  /\ exit' = status
  /\ UNCHANGED runs

\* The program is started; nothing of an earlier run's disc is left.
StartRun(verb, arg, to) ==
  /\ At("idle")
  /\ runs < MaxRuns
  /\ job' = [NoJob EXCEPT !.verb = verb, !.arg = arg, !.to = to, !.pc = "load"]
  /\ exit' = "none"
  /\ runs' = runs + 1
  /\ phase' = "new" /\ tree' = EmptyTree /\ faults' = {}
  /\ stack' = << >> /\ reply' = NoReply
  /\ UNCHANGED <<image, host>>

\* main: any warning of the root directory ends the run.
Load ==
  /\ At("load")
  /\ ParseDisk \/ ParseDiskFails
  /\ IF phase' # "open" \/ faults' # {}
       THEN EndRun("Panic")
       ELSE IF job.verb = "extract"
         THEN /\ job' = [job EXCEPT !.pc = "next", !.queue = {job.arg}]
              /\ UNCHANGED <<exit, runs>>
         ELSE Goto("keys")
  /\ UNCHANGED host

\* List and ExtractAll begin with entries.
AskKeys ==
  /\ At("keys")
  /\ CallEntries(job.arg)
  /\ Goto("listing")
  /\ UNCHANGED host

\* A step of entries; its error is unwrapped.  List prints what it returns.
Listing ==
  /\ At("listing")
  /\ Step
  /\ UNCHANGED <<host>>
  /\ IF stack' # << >>
       THEN UNCHANGED <<job, exit, runs>>
       ELSE IF reply'.out.tag # "Ok"
         THEN EndRun("Panic")
         ELSE /\ job' = [job EXCEPT !.pc = "next",
                                    !.queue = IF job.verb = "all" THEN reply'.out.val
                                                                  ELSE {}]
              /\ UNCHANGED <<exit, runs>>

-----------------------------------------------------------------------------
(* write_file_plus_metadata *)

\* Mutant: the path stays queued.
NextPathAgain ==
  /\ At("next")
  /\ \E p \in job.queue :
       /\ IsLeast(p, job.queue)
       /\ job' = [job EXCEPT !.pc = "folder", !.path = p,
                    !.dest = IF job.verb = "all" THEN HostPath(job.to, p) ELSE job.to]
  /\ UNCHANGED <<vars, host, exit, runs>>

\* extract_disk takes the paths in key order.
NextPath ==
  /\ At("next")
  /\ \E p \in job.queue :
       /\ IsLeast(p, job.queue)
       /\ job' = [job EXCEPT !.pc = "folder", !.path = p, !.queue = @ \ {p},
                    !.dest = IF job.verb = "all" THEN HostPath(job.to, p) ELSE job.to]
  /\ UNCHANGED <<vars, host, exit, runs>>

Finish ==
  /\ At("next")
  /\ job.queue = {}
  /\ EndRun("Ok")
  /\ UNCHANGED <<vars, host>>

\* `create_dir_all(&folder).unwrap()' makes the missing folders one by one,
\* the outermost first.
MakeFolder ==
  /\ At("folder")
  /\ \E p \in Ancestors(Folder(job.dest)) \ DOMAIN host :
       /\ \A q \in Ancestors(p) \ {p} : Is("dir", q)
       /\ host' = Put(host, p, HostDir)
  /\ UNCHANGED <<vars, job, exit, runs>>

FolderMade ==
  /\ At("folder")
  /\ \A p \in Ancestors(Folder(job.dest)) : Is("dir", p)
  /\ Goto("create")
  /\ UNCHANGED <<vars, host>>

\* A folder cannot be made, or a file has its name.
FolderFails ==
  /\ At("folder")
  /\ \E p \in Ancestors(Folder(job.dest)) : ~Is("dir", p)
  /\ EndRun("Panic")
  /\ UNCHANGED <<vars, host>>

CanCreate == job.dest[Len(job.dest)] # NoLeaf /\ ~Is("dir", job.dest)

\* Mutant: the file is opened at its end.
OpenToAppend ==
  /\ At("create")
  /\ CanCreate
  /\ host' = IF Is("data", job.dest) THEN host ELSE Put(host, job.dest, DataFile(<< >>))
  /\ CallGetFile(job.path)
  /\ Goto("read")

\* `File::create(&destination)' truncates the file, before the disc is asked
\* whether it has one to put there.
CreateFile ==
  /\ At("create")
  /\ CanCreate
  /\ host' = Put(host, job.dest, DataFile(<< >>))
  /\ CallGetFile(job.path)
  /\ Goto("read")

\* The error is returned to main or extract_disk, which panics.
CreateFails ==
  /\ At("create")
  /\ EndRun("Panic")
  /\ UNCHANGED <<vars, host>>

\* A region of the file is written in this step; what a failing write leaves
\* of a region is not counted.
Writes == Writing /\ Top.left > 0 /\ stack' # << >>

\* get_file goes on, or returns: its error ends the run.
AfterStep ==
  IF stack' # << >>
    THEN UNCHANGED <<job, exit, runs>>
    ELSE IF reply'.out.tag = "Ok" THEN Goto("inf") ELSE EndRun("Panic")

\* A step of get_file with the file as its Write.
ReadFile ==
  /\ At("read")
  /\ Step
  /\ host' = IF Writes
               THEN Put(host, job.dest,
                        DataFile(Append(host[job.dest].of, tree[Top.arg].val)))
               ELSE host
  /\ AfterStep

\* `fs::write' of the entry that get_file has returned.
WriteInf ==
  /\ At("inf")
  /\ ~Is("dir", Inf(job.dest))
  /\ host' = Put(host, Inf(job.dest), InfFile(<<reply.out.val>>))
  /\ Goto("next")
  /\ UNCHANGED vars

\* It fails at once or when the file has been truncated.
InfFails ==
  /\ At("inf")
  /\ \/ UNCHANGED host
     \/ /\ ~Is("dir", Inf(job.dest))
        /\ host' = Put(host, Inf(job.dest), InfFile(<< >>))
  /\ EndRun("Panic")
  /\ UNCHANGED vars

\* The user or the system ends the program between any two steps.
Kill ==
  /\ ~At("idle")
  /\ EndRun("Killed")
  /\ stack' = << >>
  /\ UNCHANGED <<image, phase, tree, faults, reply, host>>

-----------------------------------------------------------------------------

HostInit ==
  /\ Init
  /\ host = [p \in {} |-> HostDir]
  /\ job = NoJob
  /\ exit = "none"
  /\ runs = 0

WriteFile ==
  \/ MakeFolder \/ FolderMade \/ FolderFails
  \/ CreateFile \/ CreateFails
  \/ ReadFile
  \/ WriteInf \/ InfFails

RunStep == Load \/ AskKeys \/ Listing \/ NextPath \/ Finish \/ WriteFile

HostNext ==
  \/ \E p \in FilePaths, to \in Dests : StartRun("extract", p, to)
  \/ \E to \in Dests : StartRun("all", ROOT_PATH, to)
  \/ \E p \in Prefixes : StartRun("list", p, << >>)
  \/ RunStep
  \/ Kill

HostSpec == HostInit /\ [][HostNext]_allVars

\* A run that has begun keeps running.
FairHostSpec == HostSpec /\ WF_allVars(RunStep)

-----------------------------------------------------------------------------
(* Properties *)

(***************************************************************************)
(* Every variable has its type; the tree is FileTree's, which TypeOK types.*)
(***************************************************************************)
HostTypeOK ==
  /\ TypeOK
  /\ \A p \in DOMAIN host : /\ host[p].kind \in {"dir", "data", "inf"}
                            /\ host[p].of \in Seq(DirEntry)
  /\ job.verb \in {"none", "extract", "all", "list"}
  /\ job.pc \in {"idle", "load", "keys", "listing", "next", "folder", "create", "read", "inf"}
  /\ job.queue \subseteq Path
  /\ exit \in {"none", "Ok", "Panic", "Killed"}
  /\ runs \in 0 .. MaxRuns

\* A file has all the regions of an ADFS file and nothing else.
IsWhole(p, e) ==
  /\ Is("data", p)
  /\ host[p].of = [i \in 1 .. image.extent[e.address] |-> e]

(***************************************************************************)
(* A run of `extract' that ends well has put at the destination exactly    *)
(* the file the disc has at the path, and its metadata beside it, whatever *)
(* earlier runs, failed or killed half-way, have left there.  Only a       *)
(* destination whose own name ends in .inf has lost the data in the end:   *)
(* the metadata has replaced it.                                           *)
(***************************************************************************)
SuccessIsComplete ==
  exit = "Ok" /\ job.verb = "extract" =>
    \E e \in DirEntry :
      /\ EntryAt(image, job.path, e) /\ ~e.dir
      /\ job.dest = Inf(job.dest) \/ IsWhole(job.dest, e)
      /\ host[Inf(job.dest)] = InfFile(<<e>>)

(***************************************************************************)
(* Metadata is written last: when the contents of an .inf file appear, the *)
(* data they describe are all there.                                       *)
(***************************************************************************)
MetadataFollowsData ==
  [][\A p \in DOMAIN host' : \A e \in DirEntry :
       host'[p] = InfFile(<<e>>) /\ (p \notin DOMAIN host \/ host[p] # host'[p])
         => IsWhole(job.dest, e) /\ p = Inf(job.dest)]_host

(***************************************************************************)
(* Whatever way a run goes, it removes nothing, touches no file but the    *)
(* destination and its .inf file, and makes no folder but those the        *)
(* destination lies in.                                                    *)
(***************************************************************************)
OnlyTheDestinationChanges ==
  [][/\ DOMAIN host \subseteq DOMAIN host'
     /\ \A p \in DOMAIN host' :
          \/ p \in DOMAIN host /\ host'[p] = host[p]
          \/ p \in {job.dest, Inf(job.dest)} /\ host'[p].kind # "dir"
          \/ /\ p \notin DOMAIN host
             /\ p \in Ancestors(job.dest) \ {job.dest}
             /\ host'[p] = HostDir]_host

(***************************************************************************)
(* Every run ends, on an image whose directories do not contain            *)
(* themselves.                                                             *)
(***************************************************************************)
RunEnds == (job.pc # "idle") ~> (job.pc = "idle")

============================================================================
