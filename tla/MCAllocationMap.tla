-------------------------- MODULE MCAllocationMap --------------------------
(***************************************************************************)
(* Small instances of AllocationMap: a stream of three bytes behind a      *)
(* header of four, most with one of them trailing and ids of two bits, and *)
(* with free links to nowhere, to before the map, to positions 0, 3 and 6  *)
(* and to beyond its end.  A FragmentId has three bits.                    *)
(***************************************************************************)
EXTENDS AllocationMap

\* The places of the 1s in the last bits of the map and in what follows it.
Endings == {{}, {12, 15, 20}, {10, 11, 14, 16}}

\* Every content of the first nine bits, followed by one of the endings.
MCBits ==
  {[i \in 0 .. StreamBits - 1 |->
      IF i <= 8 THEN f[i] ELSE IF i \in ending THEN 1 ELSE 0] :
     f \in [0 .. 8 -> {0, 1}], ending \in Endings}

Read(link, len, trailing) ==
  [free_link |-> link, fragment_id_length |-> len, trailing_bytes |-> trailing]

\* 24 + p is the link to position p.  Ids without bits, as long as a FragmentId,
\* longer, and longer than the stream; trailing bytes that leave no map, more
\* than there are, and fewer than none.
MCParams ==
  {Read(link, 2, 1) : link \in {0, 23, 24, 27, 30, 40}}
  \cup {Read(24, len, 1) : len \in {0, 3, 5, 25}}
  \cup {Read(24, 2, trailing) : trailing \in {-1, 0, 3, 4}}

MCBuilds == BOOLEAN

\* The streams of a map of one byte that is divided into blocks without a rest,
\* beginning at the positions of starts, with ids of one bit.
ShortMap == 8

WellFormedBits ==
  {b \in {[i \in 0 .. StreamBits - 1 |-> IF i < ShortMap THEN f[i] ELSE 0] :
           f \in [0 .. ShortMap - 1 -> {0, 1}]} :
     \E starts \in SUBSET (0 .. ShortMap - 1) :
       /\ 0 \in starts
       /\ \A p \in starts :
            LET next == {q \in starts \cup {ShortMap} : q > p}
            IN  \E n \in next :
                  /\ \A q \in next : n <= q
                  /\ n - 1 > p
                  /\ b[n - 1] = 1
                  /\ \A i \in p + 1 .. n - 2 : b[i] = 0}

WellFormed == {Read(0, 1, 0)}

ReleaseBuild == {FALSE}
==============================================================================
