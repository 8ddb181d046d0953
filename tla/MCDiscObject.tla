---------------------------- MODULE MCDiscObject ----------------------------
(***************************************************************************)
(* Small instances of DiscObject: three zones of six, eight and eight map  *)
(* bits, two bytes of the disc to a bit, sectors of four bytes, and blocks *)
(* of at least three bits with ids 0 to 3; also two of these zones on a    *)
(* disc whose record has three.                                            *)
(***************************************************************************)
EXTENDS DiscObject, SequencesExt

\* A zone divided into blocks of the given lengths with the given ids.
ZoneOf(lengths, ids) ==
  LET first(i) == FoldLeft(LAMBDA n, l : n + l, 0, SubSeq(lengths, 1, i - 1))
  IN  [p \in {first(i) : i \in 1 .. Len(lengths)} |->
         LET i == CHOOSE i \in 1 .. Len(lengths) : first(i) = p
         IN  [id |-> ids[i], map_length |-> lengths[i], free_space |-> ids[i] = 0]]

ZonesOf(lengths, ids) ==
  {ZoneOf(lengths, f) : f \in [1 .. Len(lengths) -> ids]}

MCMaps ==
  {(0 :> a) @@ (1 :> b) @@ (2 :> c) :
     a \in ZonesOf(<<3, 3>>, 0 .. 3),
     b \in ZonesOf(<<5, 3>>, {0, 2, 3}),
     c \in ZonesOf(<<8>>, {0, 2, 3})}
  \cup {(0 :> a) @@ (1 :> b) :
          a \in ZonesOf(<<3, 3>>, {2, 3}), b \in ZonesOf(<<5, 3>>, {0, 2, 3})}

\* The addresses with a value in their lowest byte, one of them with a bit set
\* that belongs to neither of their parts.
Address(id, low) == id * 256 + low
Flagged(address) == 2^23 + address

Ask(kind, address, len) == [kind |-> kind, address |-> address, len |-> len]

MCRequests ==
  {Ask("file", Address(id, low), len) :
     id \in 1 .. 3, low \in {0, 1, 3}, len \in {5, 14}}
  \cup {Ask("file", Address(3, 2), 0), Ask("file", Flagged(Address(1, 3)), 5)}
  \cup {Ask("directory", Address(id, low), 0) : id \in {2, 3}, low \in {1, 3}}

\* A free chain in zone 0 whose first link has the value of an object's id.
LinkedMaps ==
  {(0 :> [p \in {0, 3} |-> [id |-> IF p = 0 THEN 3 ELSE 0, map_length |-> 3,
                            free_space |-> TRUE]])
   @@ (1 :> b) @@ (2 :> c) :
     b \in ZonesOf(<<5, 3>>, {0, 2, 3}),
     c \in ZonesOf(<<8>>, {0, 2, 3})}
==============================================================================
