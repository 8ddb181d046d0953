------------------------------ MODULE DiscImage ------------------------------
(***************************************************************************)
(* What a disc image holds, as far as the file tree of NewMapDisk can see  *)
(* it (lib/src/directory.rs, lib/src/new_map/new_map_disk.rs), and what a  *)
(* path means on it.                                                       *)
(*                                                                         *)
(* Addresses are indirect disc addresses (DiscPosition).  Finding and      *)
(* parsing the bytes behind an address is the business of the map; here an *)
(* image says how that ends: readable[a] for NewMapDisk::retrieve_directory *)
(* and extent[a], the number of regions, for NewMap::get_file_regions.  The *)
(* map is not checked against the length of the image, and sorting spreads *)
(* an object in any order over it: `cut' has the regions that lie beyond   *)
(* its end, each with its address and its place counted from the last one. *)
(***************************************************************************)
EXTENDS Integers, Sequences

CONSTANTS
  Name,  \* valid ranges of FixedLenStrings
  Addr   \* indirect disc addresses

\* directory::DirEntry: the name, the DIR attribute and the address.
DirEntry == [name : Name, dir : BOOLEAN, address : Addr]

\* How retrieve_directory ends: a Directory, an IoError, a parse error, or a
\* panic (the contiguity assertion, a start beyond the image).
Retrieval == {"Ok", "LookupError", "ContextError", "Panic"}

\* get_file_regions returned an IoError instead of a list of regions.
NoExtent == -1

Image == [root     : Addr,
          listing  : [Addr -> Seq(DirEntry)],
          readable : [Addr -> Retrieval],
          warned   : SUBSET Addr,
          extent   : [Addr -> Nat \cup {NoExtent}],
          cut      : SUBSET (Addr \X Nat)]

Path == Seq(Name)

-----------------------------------------------------------------------------

\* The positions of a directory listing that hold the given name.
Named(entries, name) == {i \in 1 .. Len(entries) : entries[i].name = name}

\* The entry that a listing inserted in order leaves under a name: the last.
LastNamed(entries, name) ==
  entries[CHOOSE i \in Named(entries, name) :
            \A j \in Named(entries, name) : j <= i]

(***************************************************************************)
(* w names the directories met on the way down p, the root directory       *)
(* first: every segment of p is a readable directory of the one before.    *)
(***************************************************************************)
IsWalk(img, p, w) ==
  /\ w \in [0 .. Len(p) -> Addr]
  /\ w[0] = img.root
  /\ \A k \in 1 .. Len(p) :
       /\ Named(img.listing[w[k - 1]], p[k]) # {}
       /\ LET e == LastNamed(img.listing[w[k - 1]], p[k])
          IN  /\ e.dir
              /\ img.readable[e.address] = "Ok"
              /\ w[k] = e.address

\* p is, on the image, a readable directory with address d.
DirectoryAt(img, p, d) ==
  \E w \in [0 .. Len(p) -> Addr] : IsWalk(img, p, w) /\ w[Len(p)] = d

\* p is, on the image, named by the entry e of its parent directory.
EntryAt(img, p, e) ==
  /\ p # << >>
  /\ \E d \in Addr :
       /\ DirectoryAt(img, SubSeq(p, 1, Len(p) - 1), d)
       /\ Named(img.listing[d], p[Len(p)]) # {}
       /\ e = LastNamed(img.listing[d], p[Len(p)])

\* p exists on the image.
OnDisc(img, p) ==
  \/ p = << >>
  \/ \E d \in Addr :
       /\ DirectoryAt(img, SubSeq(p, 1, Len(p) - 1), d)
       /\ Named(img.listing[d], p[Len(p)]) # {}

==============================================================================
