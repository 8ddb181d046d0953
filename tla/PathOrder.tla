------------------------------ MODULE PathOrder ------------------------------
(***************************************************************************)
(* The order and the prefix test of ADFS names and paths                   *)
(* (lib/src/filesystem/fixed_len_string.rs and path.rs).                   *)
(*                                                                         *)
(* A name is the valid range of a FixedLenString: a sequence of character  *)
(* codes.  FixedLenString compares, orders and hashes by that range only,  *)
(* so the padding after the terminator is not represented.  A path is a    *)
(* sequence of names; the root `$' is the empty sequence.                  *)
(***************************************************************************)
EXTENDS Integers, Sequences

ROOT_PATH == << >>

\* u8 as char, is_control: a byte is taken for the Latin-1 character.
IsControl(c) == c < 32 \/ c \in 127 .. 159

\* FixedLenString::valid_range: a field up to its first control character.
ValidRange(field) ==
  SubSeq(field, 1,
         CHOOSE n \in 0 .. Len(field) :
           /\ \A i \in 1 .. n : ~IsControl(field[i])
           /\ n < Len(field) => IsControl(field[n + 1]))

\* The path one level up.
Parent(p) == SubSeq(p, 1, Len(p) - 1)

\* FixedLenString::is_prefix.
NameIsPrefix(a, b) ==
  /\ Len(a) <= Len(b)
  /\ \A i \in 1 .. Len(a) : a[i] = b[i]

\* FixedLenString::cmp: lexicographic, a proper prefix is smaller.
NameLess(a, b) ==
  \E n \in 0 .. Len(a) :
    /\ n < Len(b)
    /\ \A i \in 1 .. n : a[i] = b[i]
    /\ n < Len(a) => a[n + 1] < b[n + 1]

\* The derived order of Path(Vec<FixedLenString>): the key order of FileTree.
PathLess(p, q) ==
  \E n \in 0 .. Len(p) :
    /\ n < Len(q)
    /\ \A i \in 1 .. n : p[i] = q[i]
    /\ n < Len(p) => NameLess(p[n + 1], q[n + 1])

(***************************************************************************)
(* Path::is_prefix.  The two paths are zipped, so the comparison stops at  *)
(* the end of the shorter one, and only the last zipped pair is compared   *)
(* by prefix.  A path shorter than the prefix is therefore compared on its *)
(* own segments only.                                                      *)
(***************************************************************************)
PathIsPrefix(p, q) ==
  LET n == IF Len(p) < Len(q) THEN Len(p) ELSE Len(q)
  IN  /\ \A i \in 1 .. n - 1 : p[i] = q[i]
      /\ n > 0 => NameIsPrefix(p[n], q[n])

==============================================================================
