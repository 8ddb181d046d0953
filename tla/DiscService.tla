----------------------------- MODULE DiscService -----------------------------
(***************************************************************************)
(* What a disc promises to its clients, with no cache: every answer is a   *)
(* function of the image alone.  Calls nest, because the Write a get_file  *)
(* is given may call the disc again; the innermost call answers first.     *)
(*                                                                         *)
(* Two of the promises are weaker than the documentation's, because the    *)
(* code keeps no more: a path that does not exist may end the program, and *)
(* entries is complete only for prefixes of at most one segment.           *)
(***************************************************************************)
EXTENDS DiscImage, PathOrder

CONSTANTS Images, FilePaths, Prefixes, MaxDepth

VARIABLES
  image,  \* the image, fixed
  status, \* closed, open or ended
  calls,  \* requests in progress: records [op, arg]
  answer  \* the last call that ended, with its outcome

sVars == <<image, status, calls, answer>>

-----------------------------------------------------------------------------

Upto(p, k) == SubSeq(p, 1, k)

(***************************************************************************)
(* The outcome of get_file(p).  The readable directories of p end at some  *)
(* level k; the next segment decides.                                      *)
(***************************************************************************)
FileOutcomeAt(p, k, d, out) ==
  IF k = Len(p) THEN out.tag = "InvalidTarget" /\ out.val = p
  ELSE LET l == image.listing[d]
           stem == Upto(p, k + 1)
       IN  IF Named(l, p[k + 1]) = {}
             THEN /\ out.tag = "MissingTarget" /\ out.val = stem
                  /\ l = << >>
             ELSE LET e == LastNamed(l, p[k + 1])
                  IN  \/ /\ e.dir
                         /\ image.readable[e.address] \in {"LookupError", "ContextError"}
                         /\ out.tag = image.readable[e.address] /\ out.val = stem
                      \/ /\ ~e.dir /\ stem # p
                         /\ out.tag = "InvalidTarget" /\ out.val = stem
                      \/ /\ ~e.dir /\ stem = p
                         /\ IF image.extent[e.address] = NoExtent
                              THEN out.tag = "LookupError" /\ out.val = p
                              ELSE \/ out.tag = "Ok" /\ out.val = e
                                   \/ /\ image.extent[e.address] > 0
                                      /\ out.tag = "StdError" /\ out.val = p

FileOutcome(p, out) ==
  \E k \in 0 .. Len(p) : \E d \in Addr :
    DirectoryAt(image, Upto(p, k), d) /\ FileOutcomeAt(p, k, d, out)

-----------------------------------------------------------------------------

\* A set of paths that holds, with a directory, everything below it.
Closed(paths) ==
  \A p \in paths : \A d \in Addr :
    DirectoryAt(image, p, d) =>
      \A i \in 1 .. Len(image.listing[d]) :
        Append(p, image.listing[d][i].name) \in paths

\* Everything whose path begins with a prefix of at most one segment.
Complete(prefix, paths) ==
  /\ prefix = << >> => << >> \in paths
  /\ \A i \in 1 .. Len(image.listing[image.root]) :
       LET child == << image.listing[image.root][i].name >>
       IN  PathIsPrefix(prefix, child) => child \in paths
  /\ Closed(paths)

\* A directory that begins with the prefix cannot be retrieved, with outcome o.
Unreadable(prefix, p, o) ==
  /\ PathIsPrefix(prefix, p)
  /\ \E e \in DirEntry :
       EntryAt(image, p, e) /\ e.dir /\ image.readable[e.address] = o

EntriesOutcome(prefix, out) ==
  \/ /\ out.tag = "Ok"
     /\ \A p \in out.val :
          OnDisc(image, p) /\ ~PathLess(p, prefix) /\ PathIsPrefix(prefix, p)
     /\ Len(prefix) <= 1 => Complete(prefix, out.val)
  \/ /\ out.tag \in {"LookupError", "ContextError"}
     /\ Unreadable(prefix, out.val, out.tag)

-----------------------------------------------------------------------------

Init ==
  /\ image \in Images
  /\ status = "closed"
  /\ calls = << >>
  /\ answer = [op |-> "none", arg |-> << >>, out |-> [tag |-> "none", val |-> << >>]]

Open ==
  /\ status = "closed"
  /\ status' = IF image.readable[image.root] = "Ok" THEN "open" ELSE "ended"
  /\ UNCHANGED <<image, calls, answer>>

Call ==
  /\ status = "open"
  /\ Len(calls) < MaxDepth
  /\ \/ \E p \in FilePaths : calls' = Append(calls, [op |-> "get_file", arg |-> p])
     \/ \E p \in Prefixes : calls' = Append(calls, [op |-> "entries", arg |-> p])
  /\ UNCHANGED <<image, status, answer>>

\* Request r may end with outcome out.
IsAnswer(r, out) ==
  \/ r.op = "get_file" /\ FileOutcome(r.arg, out)
  \/ r.op = "entries" /\ EntriesOutcome(r.arg, out)

Answer ==
  /\ status = "open"
  /\ calls # << >>
  /\ calls' = SubSeq(calls, 1, Len(calls) - 1)
  /\ answer'.op = calls[Len(calls)].op
  /\ answer'.arg = calls[Len(calls)].arg
  /\ IsAnswer(calls[Len(calls)], answer'.out)
  /\ UNCHANGED <<image, status>>

\* The level-k directory of p has entries, but none for the next segment.
MissingAmongOthers(p) ==
  \E k \in 0 .. Len(p) - 1 : \E d \in Addr :
    /\ DirectoryAt(image, Upto(p, k), d)
    /\ image.listing[d] # << >>
    /\ Named(image.listing[d], p[k + 1]) = {}

(***************************************************************************)
(* The program may end in a panic: a call within a Write, a missing path,  *)
(* a directory that cannot be retrieved without one, or a file that lies   *)
(* beyond the end of the image.                                            *)
(***************************************************************************)
MayAbort(r) ==
  \/ Len(calls) > 1
  \/ r.op = "get_file" /\ MissingAmongOthers(r.arg)
  \/ \E a \in Addr : image.readable[a] = "Panic"
  \/ r.op = "get_file" /\ \E e \in DirEntry :
       /\ EntryAt(image, r.arg, e)
       /\ ~e.dir
       /\ \E n \in 1 .. image.extent[e.address] : <<e.address, n>> \in image.cut

Abort ==
  /\ status = "open"
  /\ calls # << >>
  /\ MayAbort(calls[Len(calls)])
  /\ status' = "ended"
  /\ calls' = << >>
  /\ answer'.out.tag = "Panic"
  /\ UNCHANGED image

Next == Open \/ Call \/ Answer \/ Abort

Spec == Init /\ [][Next]_sVars

==============================================================================
