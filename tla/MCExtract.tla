----------------------------- MODULE MCExtract -----------------------------
(***************************************************************************)
(* Small instances of Extract: a disc with a file in the root and one in a *)
(* directory, sound or with one thing wrong with it.  The destinations are *)
(* a file, one that shares its .inf file, that .inf file itself, and a     *)
(* file in a folder in a folder that has the first one's name.             *)
(***************************************************************************)
EXTENDS Extract, TLC

A == << 1 >>
B == << 2 >>

MCName == {A, B}
MCAddr == 0 .. 3

Dir(name, a) == [name |-> name, dir |-> TRUE, address |-> a]
Fil(name, a) == [name |-> name, dir |-> FALSE, address |-> a]

AllOk == [a \in MCAddr |-> "Ok"]

\* The file in the root has n regions, the one in the directory two.
MakeImage(readable, warned, n, cut) ==
  [root     |-> 0,
   listing  |-> (0 :> << Dir(A, 1), Fil(B, 2) >>) @@ (1 :> << Fil(B, 3) >>)
                  @@ (2 :> << >>) @@ (3 :> << >>),
   readable |-> readable,
   warned   |-> warned,
   extent   |-> (0 :> 0) @@ (1 :> 0) @@ (2 :> n) @@ (3 :> 2),
   cut      |-> cut]

SoundImages == {MakeImage(AllOk, {}, 1, {})}

MCImages ==
  SoundImages \cup {MakeImage(AllOk, {}, 0, {<<3, 1>>}), MakeImage(AllOk, {0}, 1, {}),
              MakeImage([AllOk EXCEPT ![1] = "ContextError"], {1}, NoExtent, {}),
              MakeImage([AllOk EXCEPT ![0] = "LookupError"], {}, 1, {})}

MCPaths == {<<A>>, <<B>>, <<A, B>>, <<A, A>>}
MCPrefixes == {<< >>, <<A>>}

Host(stem, ext) == [stem |-> stem, ext |-> ext]

MCHostName == (A :> Host("a", "")) @@ (B :> Host("b", ""))

MCDests == {<<Host("a", "txt")>>, <<Host("a", "dat")>>, <<Host("a", "inf")>>,
            <<Host("a", "txt"), Host("b", ""), Host("c", "")>>}

============================================================================
