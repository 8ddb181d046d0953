------------------------------ MODULE MCFileTree ------------------------------
(***************************************************************************)
(* Small instances of FileTree.  Names are one or two characters, one of   *)
(* them a proper prefix of another; addresses 0, 1 and 2 are directories   *)
(* at most three levels deep and address 3 is the file.                    *)
(***************************************************************************)
EXTENDS FileTree, TLC

A  == << 1 >>
AB == << 1, 2 >>
B  == << 2 >>

MCName == {A, AB, B}
MCAddr == 0 .. 3

Dir(name, a) == [name |-> name, dir |-> TRUE, address |-> a]
Fil(name) == [name |-> name, dir |-> FALSE, address |-> 3]

\* Root directories: empty, ordinary, two directories of which one name begins
\* with the other, and the same name twice in both orders.
Roots == {<< >>,
          << Dir(A, 1), Fil(B) >>,
          << Dir(A, 1), Dir(AB, 2) >>,
          << Dir(A, 1), Fil(A) >>,
          << Fil(A), Dir(A, 1), Dir(B, 2) >>}

\* Listings of directory 1: empty, a file, a further level.
Firsts == {<< >>, << Dir(A, 2), Fil(B) >>}

Seconds == {<< >>, << Fil(B) >>}

AllOk == [a \in MCAddr |-> "Ok"]

Retrievals == {AllOk,
               [AllOk EXCEPT ![0] = "LookupError"],
               [AllOk EXCEPT ![1] = "ContextError"],
               [AllOk EXCEPT ![1] = "Panic"],
               [AllOk EXCEPT ![2] = "LookupError"]}

MakeImage(r, f, s, readable, n, cut) ==
  [root     |-> 0,
   listing  |-> (0 :> r) @@ (1 :> f) @@ (2 :> s) @@ (3 :> << >>),
   readable |-> readable,
   warned   |-> {0, 1},
   extent   |-> [a \in MCAddr |-> IF a = 3 THEN n ELSE 0],
   cut      |-> cut]

\* Images on which nothing can fail but what the calls themselves do.
SoundImages ==
  {MakeImage(r, f, s, AllOk, 1, {}) : r \in Roots, f \in Firsts, s \in Seconds}

\* The sound ones, each pattern of failures on two of them, and the file without
\* a location, empty, with two regions or with one beyond the end of the image.
MCImages ==
  SoundImages
  \cup {MakeImage(r, << Dir(A, 2), Fil(B) >>, << Fil(B) >>, readable, 1, {}) :
     r \in {<< Dir(A, 1), Fil(B) >>, << Fil(A), Dir(A, 1), Dir(B, 2) >>},
     readable \in Retrievals}
  \cup {MakeImage(<< Dir(A, 1), Fil(B) >>, << Dir(A, 2), Fil(B) >>, << Fil(B) >>,
                 AllOk, n, cut) :
     n \in {NoExtent, 0, 1, 2}, cut \in {{}, {<<3, 1>>}, {<<3, 2>>}}}

MCPaths == {<< >>, <<A>>, <<AB>>, <<B>>, <<A, A>>, <<A, B>>, <<A, A, B>>, <<B, B>>}

MCPrefixes == {<< >>, <<A>>, <<A, B>>}
ListPrefixes == {<< >>, <<A>>, <<B>>, <<A, A>>, <<A, B>>}
NoPrefixes == {}

==============================================================================
