------------------------- MODULE AllocationMapProofs -------------------------
(***************************************************************************)
(* Proofs about AllocationMap, for streams of every size and content,      *)
(* every length of an id, every number of trailing bytes, every free link  *)
(* and both kinds of build.  IInv adds to the                              *)
(* type invariant how much of the map is left while blocks are digested    *)
(* and what has been flagged while the free chain is walked; it is         *)
(* inductive and every invariant of the runs follows from it.              *)
(***************************************************************************)
EXTENDS AllocationMap, FiniteSetTheorems, WellFoundedInduction, TLAPS

-----------------------------------------------------------------------------
(* Ids: the words of up to 16 bits *)

\* The powers of two up to the longest id.
LEMMA PowersOfTwo ==
  ASSUME NEW k \in 0 .. 15
  PROVE  2^k \in Nat \ {0} /\ 2^(k + 1) = 2 * 2^k
<1>1. CASE k = 0
  BY <1>1, 2^0 = 1, 2^1 = 2
<1>2. CASE k = 1
  BY <1>2, 2^1 = 2, 2^2 = 4
<1>3. CASE k = 2
  BY <1>3, 2^2 = 4, 2^3 = 8
<1>4. CASE k = 3
  BY <1>4, 2^3 = 8, 2^4 = 16
<1>5. CASE k = 4
  BY <1>5, 2^4 = 16, 2^5 = 32
<1>6. CASE k = 5
  BY <1>6, 2^5 = 32, 2^6 = 64
<1>7. CASE k = 6
  BY <1>7, 2^6 = 64, 2^7 = 128
<1>8. CASE k = 7
  BY <1>8, 2^7 = 128, 2^8 = 256
<1>9. CASE k = 8
  BY <1>9, 2^8 = 256, 2^9 = 512
<1>10. CASE k = 9
  BY <1>10, 2^9 = 512, 2^10 = 1024
<1>11. CASE k = 10
  BY <1>11, 2^10 = 1024, 2^11 = 2048
<1>12. CASE k = 11
  BY <1>12, 2^11 = 2048, 2^12 = 4096
<1>13. CASE k = 12
  BY <1>13, 2^12 = 4096, 2^13 = 8192
<1>14. CASE k = 13
  BY <1>14, 2^13 = 8192, 2^14 = 16384
<1>15. CASE k = 14
  BY <1>15, 2^14 = 16384, 2^15 = 32768
<1>16. CASE k = 15
  BY <1>16, 2^15 = 32768, 2^16 = 65536
<1> QED
  BY <1>1, <1>2, <1>3, <1>4, <1>5, <1>6, <1>7, <1>8,
     <1>9, <1>10, <1>11, <1>12, <1>13, <1>14, <1>15, <1>16

\* Reading a word beyond its lowest bit is reading the word without it.
LEMMA WithoutLowestBit ==
  ASSUME NEW b \in {0, 1}, NEW v \in Nat, NEW q \in Nat \ {0}
  PROVE  (b + 2 * v) \div (2 * q) = v \div q
<1> DEFINE d == v \div q
           r == v % q
<1>1. d \in Nat /\ r \in Nat /\ r < q /\ v = q * d + r
  BY SMTT(30)
<1> HIDE DEF d, r
<1>2. 2 * r + b < 2 * q /\ 2 * r + b \in Nat
  BY <1>1
<1>3. b + 2 * v = (2 * q) * d + (2 * r + b)
  BY <1>1
<1>4. (b + 2 * v) \div (2 * q) = d
  BY <1>1, <1>2, <1>3, SMTT(30)
<1> QED BY <1>4 DEF d

\* v is the word of k bits whose bits are those of f.
IsWordOf(v, k, f) ==
  /\ v \in 0 .. 2^k - 1
  /\ \A n \in 0 .. k - 1 : (v \div 2^n) % 2 = f[n]

\* Any bits, up to as many as an id has, are the bits of some word.
LEMMA WordExists ==
  ASSUME NEW l \in 0 .. 16, NEW g \in [0 .. l - 1 -> {0, 1}]
  PROVE  \E v : IsWordOf(v, l, g)
<1> DEFINE Has(k) == \A f \in [0 .. k - 1 -> {0, 1}] : \E v : IsWordOf(v, k, f)
           Bad == {k \in 0 .. 16 : ~Has(k)}
<1>1. Has(0)
  <2>1. 2^0 = 1
    BY SMT
  <2>2. \A f : IsWordOf(0, 0, f)
    BY <2>1 DEF IsWordOf
  <2> QED BY <2>2
<1>2. ASSUME NEW k \in 0 .. 15, Has(k) PROVE Has(k + 1)
  <2>0. (k + 1) - 1 = k /\ k \in 0 .. 15
    OBVIOUS
  <2> SUFFICES ASSUME NEW f \in [0 .. k -> {0, 1}]
               PROVE  \E v : IsWordOf(v, k + 1, f)
    BY <2>0, Zenon
  <2> DEFINE t == [n \in 0 .. k - 1 |-> f[n + 1]]
  <2>1. t \in [0 .. k - 1 -> {0, 1}]
    OBVIOUS
  <2>2. PICK w : IsWordOf(w, k, t)
    BY <1>2, <2>1
  <2>3. w \in Nat /\ w < 2^k /\ 2^k \in Nat /\ 2^(k + 1) = 2 * 2^k
    <3>1. 2^k \in Nat \ {0} /\ 2^(k + 1) = 2 * 2^k
      BY <2>0, PowersOfTwo, Zenon
    <3>2. w \in 0 .. 2^k - 1
      BY <2>2 DEF IsWordOf
    <3> QED BY <3>1, <3>2
  <2>4. f[0] \in {0, 1}
    OBVIOUS
  <2> DEFINE v == f[0] + 2 * w
  <2>5. v \in 0 .. 2^(k + 1) - 1
    BY <2>3, <2>4
  <2>6. ASSUME NEW n \in 0 .. k PROVE (v \div 2^n) % 2 = f[n]
    <3>1. CASE n = 0
      <4>1. 2^0 = 1
        BY SMT
      <4> QED BY <2>3, <2>4, <3>1, <4>1
    <3>2. CASE n # 0
      <4>1. PICK m \in 0 .. k - 1 : n = m + 1
        <5>1. n - 1 \in 0 .. k - 1 /\ n = (n - 1) + 1
          BY <3>2
        <5> QED BY <5>1
      <4>2. 2^m \in Nat \ {0} /\ 2^n = 2 * 2^m
        <5>1. m \in 0 .. 15
          OBVIOUS
        <5> QED BY <4>1, <5>1, PowersOfTwo, Zenon
      <4>3. v \div 2^n = w \div 2^m
        <5>1. (f[0] + 2 * w) \div (2 * 2^m) = w \div 2^m
          BY <2>3, <2>4, <4>2, WithoutLowestBit
        <5> QED BY <4>2, <5>1, Zenon
      <4>4. (w \div 2^m) % 2 = t[m]
        BY <2>2 DEF IsWordOf
      <4>5. t[m] = f[n]
        BY <4>1, Zenon
      <4> QED BY <4>3, <4>4, <4>5
    <3> QED BY <3>1, <3>2
  <2> HIDE DEF v
  <2> QED BY <2>0, <2>5, <2>6, Zenon DEF IsWordOf
<1> HIDE DEF Has
<1>3. Bad = {}
  <2> SUFFICES ASSUME Bad # {} PROVE FALSE
    OBVIOUS
  <2>0. Bad \subseteq Nat /\ Bad # {}
    OBVIOUS
  <2>1. PICK k \in Bad : \A j \in Bad : ~(<<j, k>> \in OpToRel(<, Nat))
    BY <2>0, NatLessThanWellFounded, WFMin
  <2>2. \A j \in Bad : ~(j < k)
    <3>1. \A j \in Bad : j \in Nat
      OBVIOUS
    <3> QED BY <2>1, <3>1, Zenon DEF OpToRel
  <2>3. k # 0
    BY <1>1
  <2>4. k - 1 \in 0 .. 15 /\ (k - 1) + 1 = k /\ k - 1 < k
    BY <2>3
  <2>5. Has(k - 1)
    BY <2>2, <2>4
  <2> QED BY <1>2, <2>4, <2>5
<1> QED BY <1>3 DEF Has

\* The id that is read where a block begins is a number, whatever its length.
LEMMA IdIsNat ==
  ASSUME NEW b, NEW p, idlen \in Nat
  PROVE  IdAt(b, p) \in Nat
<1>1. PICK w \in 0 .. 16 : w = IdWidth
  BY SizesAssumption DEF IdWidth
<1> DEFINE g == [n \in 0 .. w - 1 |-> IdBit(b, p, n)]
<1>2. g \in [0 .. w - 1 -> {0, 1}]
  BY DEF IdBit
<1>3. PICK v : IsWordOf(v, w, g)
  BY <1>2, WordExists, Zenon
<1>4. v \in 0 .. 2^w - 1 /\ \A n \in 0 .. w - 1 : (v \div 2^n) % 2 = IdBit(b, p, n)
  BY <1>3 DEF IsWordOf
<1>5. IdAt(b, p) \in 0 .. 2^w - 1
  BY <1>1, <1>4, Zenon DEF IdAt
<1>6. 2^w \in Nat
  <2>1. CASE w = 16
    BY <2>1, 2^16 = 65536
  <2>2. CASE w # 16
    <3>1. w \in 0 .. 15
      BY <2>2
    <3> QED BY <3>1, PowersOfTwo, Zenon
  <2> QED BY <2>1, <2>2
<1> QED BY <1>5, <1>6

-----------------------------------------------------------------------------
(* The inductive invariant *)

(***************************************************************************)
(* What is left of the map while blocks are digested: bits_remaining never *)
(* reaches beyond the map, and the loop drops one bit for every block.     *)
(***************************************************************************)
Digested ==
  /\ remaining > 0 => pos + remaining <= MapBits
  /\ MapBits - pos <= remaining + Cardinality(DOMAIN fragments)
  /\ pc \in {"link", "chain", "done"} => remaining = 0

\* Every flagged block is linked to by the header or by a flagged block.
FlaggedAreLinked ==
  \A p \in FreeBlocks :
    IsLinked(p) \/ \E q \in FreeBlocks : q < p /\ Successor(q) = p

(***************************************************************************)
(* What walk_free_chain has flagged when it stands at cursor: the chain up *)
(* to cursor, which is its last block and has a successor still to come.   *)
(***************************************************************************)
Walked ==
  /\ pc \in {"digest", "link"} => FreeBlocks = {}
  /\ pc \in {"link", "chain"} => free_link # 0
  /\ pc = "chain" =>
       /\ \E p \in FreeBlocks : IsLinked(p)
       /\ cursor \in FreeBlocks
       /\ fragments[cursor].id # 0
       /\ \A p \in FreeBlocks : p <= cursor
       /\ \A p \in FreeBlocks \ {cursor} :
            fragments[p].id # 0 /\ Successor(p) \in FreeBlocks
       /\ FlaggedAreLinked

IInv ==
  /\ TypeOK
  /\ BlocksTile
  /\ BlocksBeginInMap
  /\ Digested
  /\ Walked
  /\ FreeBlocksAreTheChain

-----------------------------------------------------------------------------
(* Digesting blocks *)

\* The sizes of the stream, of the map that is read from it, and of an id.
LEMMA Sizes ==
  ASSUME params \in Params
  PROVE  /\ MapBits \in Nat /\ StreamBits \in Nat
         /\ StreamBits + 8 * Start <= 2^15 /\ Start \in Nat
         /\ idlen \in Nat
<1>1. /\ params.trailing_bytes \in Int /\ params.fragment_id_length \in Nat
  BY ParamsAssumption DEF AllocationParsingParams
<1>2. MapBits \in Nat
  BY <1>1, SizesAssumption DEF MapBits
<1> QED BY <1>1, <1>2, SizesAssumption DEF StreamBits, idlen

\* The parameters of a map do not change.
LEMMA SameParams ==
  ASSUME params' = params
  PROVE  MapBits' = MapBits /\ idlen' = idlen /\ free_link' = free_link
BY DEF MapBits, idlen, free_link

\* The map has finitely many blocks.
LEMMA FinitelyManyBlocks ==
  ASSUME TypeOK
  PROVE  IsFiniteSet(DOMAIN fragments) /\ Cardinality(DOMAIN fragments) \in Nat
<1>1. IsFiniteSet(0 .. StreamBits - 1)
  BY Sizes, FS_Interval DEF TypeOK
<1>2. IsFiniteSet(DOMAIN fragments)
  BY <1>1, FS_Subset DEF TypeOK
<1> QED BY <1>2, FS_CardinalityType

\* The invariant holds before the parser has read anything.
LEMMA InitIInv == Init => IInv
<1> SUFFICES ASSUME Init PROVE IInv
  OBVIOUS
<1>1. /\ DOMAIN fragments = {} /\ pos = 0 /\ remaining = MapBits /\ cursor = 0
      /\ params \in Params
  BY DEF Init
<1>2. FreeBlocks = {}
  BY <1>1 DEF FreeBlocks
<1>3. TypeOK
  <2>1. bits \in [0 .. StreamBits - 1 -> {0, 1}]
    BY BitsAssumption DEF Init, StreamBits
  <2>2. pos \in 0 .. StreamBits /\ remaining \in 0 .. MapBits /\ cursor \in 0 .. StreamBits
    BY <1>1, Sizes
  <2>3. /\ pc \in {"digest", "failed"} /\ error \in {"none", "Panic"}
        /\ (pc = "failed") = (error # "none")
    BY DEF Init
  <2> QED BY <1>1, <2>1, <2>2, <2>3 DEF Init, TypeOK
<1>4. BlocksTile /\ BlocksBeginInMap
  BY <1>1 DEF BlocksTile, BlocksBeginInMap
<1>5. Digested
  BY <1>1, Sizes, FS_EmptySet DEF Digested, Init
<1>6. Walked /\ FreeBlocksAreTheChain
  BY <1>2 DEF Walked, FreeBlocksAreTheChain, Init
<1> QED BY <1>3, <1>4, <1>5, <1>6 DEF IInv

\* A round of the loop reads one block, which lies right behind the others.
LEMMA DigestBlockKeepsIInv ==
  ASSUME IInv, DigestBlock
  PROVE  IInv'
<1>1. PICK e \in 0 .. StreamBits - 1 :
        /\ EndsAt(bits, pos, e)
        /\ fragments' = [p \in DOMAIN fragments \cup {pos} |->
                           IF p = pos THEN Block(bits, pos, e) ELSE fragments[p]]
        /\ remaining' = Deduct(remaining, BlockLength(pos, e))
        /\ pos' = e + 1
  BY DEF DigestBlock
<1>2. /\ pc = "digest" /\ pc' = pc /\ remaining > 0
      /\ bits' = bits /\ params' = params /\ overflow_checks' = overflow_checks
      /\ cursor' = cursor /\ error' = error /\ params \in Params
      /\ MapBits' = MapBits
  BY SameParams DEF DigestBlock, input, IInv, TypeOK
<1>3. /\ bits \in [0 .. StreamBits - 1 -> {0, 1}] /\ pos \in Nat
      /\ remaining \in 0 .. MapBits /\ DOMAIN fragments \subseteq 0 .. StreamBits - 1
      /\ \A p \in DOMAIN fragments : fragments[p] \in FragmentBlock
  BY <1>2, Sizes DEF IInv, TypeOK
<1>4. pos < MapBits /\ pos + remaining <= MapBits
  BY <1>2, <1>3, Sizes DEF IInv, Digested
<1>5. e \in Nat /\ pos + idlen <= e /\ e < StreamBits
  BY <1>1, <1>3, <1>2, Sizes DEF EndsAt
<1>6. /\ Block(bits, pos, e) \in FragmentBlock
      /\ Block(bits, pos, e).map_length = e - pos + 1
      /\ Block(bits, pos, e).free_space = FALSE
  <2>1. IdAt(bits, pos) \in Nat
    BY <1>3, <1>5, <1>2, Sizes, IdIsNat
  <2>2. BlockLength(pos, e) \in Nat \ {0} /\ BlockLength(pos, e) = e - pos + 1
    BY <1>3, <1>5, <1>2, Sizes DEF BlockLength
  <2> QED BY <2>1, <2>2 DEF Block, FragmentBlock
<1>7. /\ DOMAIN fragments' = DOMAIN fragments \cup {pos}
      /\ fragments'[pos] = Block(bits, pos, e)
      /\ \A p \in DOMAIN fragments : p # pos => fragments'[p] = fragments[p]
  BY <1>1
<1>8. \A p \in DOMAIN fragments :
        /\ p \in Nat /\ fragments[p].map_length \in Nat \ {0}
        /\ p + fragments[p].map_length <= pos
  <2> SUFFICES ASSUME NEW p \in DOMAIN fragments
               PROVE  /\ p \in Nat /\ fragments[p].map_length \in Nat \ {0}
                      /\ p + fragments[p].map_length <= pos
    OBVIOUS
  <2>1. p \in Nat /\ fragments[p].map_length \in Nat \ {0}
    BY <1>3, <1>2, Sizes DEF FragmentBlock
  <2>2. p .. p + fragments[p].map_length - 1 \subseteq 0 .. pos - 1
    BY DEF IInv, BlocksTile, Extent
  <2>3. p + fragments[p].map_length - 1 \in p .. p + fragments[p].map_length - 1
    BY <2>1
  <2>4. p + fragments[p].map_length - 1 \in 0 .. pos - 1
    BY <2>2, <2>3
  <2> QED BY <1>3, <2>1, <2>4
<1>9. pos \notin DOMAIN fragments
  BY <1>3, <1>8
<1>10. /\ remaining' \in 0 .. MapBits
       /\ remaining' > 0 => pos' + remaining' <= MapBits
       /\ remaining + pos <= remaining' + pos' + 1
  BY <1>1, <1>3, <1>4, <1>5, <1>2, Sizes DEF Deduct, BlockLength
<1>11. TypeOK'
  <2>1. \A p \in DOMAIN fragments' : fragments'[p] \in FragmentBlock
    BY <1>3, <1>6, <1>7
  <2>2. DOMAIN fragments' \subseteq 0 .. StreamBits - 1
    <3>1. pos \in 0 .. StreamBits - 1
      BY <1>2, <1>3, <1>5, Sizes
    <3> QED BY <1>3, <1>7, <3>1
  <2>3. pos' \in 0 .. StreamBits
    BY <1>1, <1>5, <1>2, Sizes
  <2> QED BY <1>2, <1>10, <2>1, <2>2, <2>3 DEF IInv, TypeOK
<1>12. BlocksTile'
  <2>0. PICK at : at = pos
    OBVIOUS
  <2>1. /\ \A p \in DOMAIN fragments : Extent(p)' = Extent(p)
        /\ Extent(at)' = at .. e
    <3>1. \A p \in DOMAIN fragments : fragments'[p] = fragments[p]
      BY <1>7, <1>9
    <3>2. at + fragments'[at].map_length - 1 = e
      BY <1>3, <1>5, <1>6, <1>7, <2>0
    <3> QED BY <3>1, <3>2, Zenon DEF Extent
  <2>2. \A p \in DOMAIN fragments : Extent(p) \subseteq 0 .. pos - 1
    BY DEF IInv, BlocksTile
  <2>3. at .. e \subseteq 0 .. pos' - 1 /\ 0 .. pos - 1 \subseteq 0 .. pos' - 1
    BY <1>1, <1>3, <1>5, <2>0, <1>2, Sizes
  <2>4. \A p \in DOMAIN fragments' : Extent(p)' \subseteq 0 .. pos' - 1
    BY <1>7, <2>0, <2>1, <2>2, <2>3, Zenon
  <2>5. ASSUME NEW b \in 0 .. pos' - 1
        PROVE  \E p \in DOMAIN fragments' : b \in Extent(p)'
    <3>1. CASE b \in 0 .. pos - 1
      <4>1. PICK p \in DOMAIN fragments : b \in Extent(p)
        BY <3>1 DEF IInv, BlocksTile
      <4> QED BY <1>7, <2>1, <4>1
    <3>2. CASE b \notin 0 .. pos - 1
      <4>1. b \in at .. e
        BY <1>1, <1>3, <1>5, <2>0, <3>2, <1>2, Sizes
      <4> QED BY <1>7, <2>0, <2>1, <4>1
    <3> QED BY <3>1, <3>2
  <2>6. \A p \in DOMAIN fragments : Extent(p) \cap (at .. e) = {}
    BY <1>3, <2>0, <2>2
  <2>7. \A p, q \in DOMAIN fragments' : p # q => Extent(p)' \cap Extent(q)' = {}
    <3> SUFFICES ASSUME NEW p \in DOMAIN fragments', NEW q \in DOMAIN fragments', p # q
                 PROVE  Extent(p)' \cap Extent(q)' = {}
      OBVIOUS
    <3>1. CASE p \in DOMAIN fragments /\ q \in DOMAIN fragments
      BY <2>1, <3>1 DEF IInv, BlocksTile
    <3>2. CASE p = at /\ q \in DOMAIN fragments
      BY <2>1, <2>6, <3>2
    <3>3. CASE p \in DOMAIN fragments /\ q = at
      BY <2>1, <2>6, <3>3
    <3> QED BY <1>7, <2>0, <3>1, <3>2, <3>3
  <2> QED BY <2>4, <2>5, <2>7 DEF BlocksTile
<1>13. BlocksBeginInMap'
  BY <1>2, <1>4, <1>7 DEF IInv, BlocksBeginInMap
<1>14. Digested'
  <2>1. Cardinality(DOMAIN fragments') = Cardinality(DOMAIN fragments) + 1
    BY <1>7, <1>9, FinitelyManyBlocks, FS_AddElement DEF IInv
  <2>2. Cardinality(DOMAIN fragments) \in Nat
    BY FinitelyManyBlocks DEF IInv
  <2>3. MapBits - pos <= remaining + Cardinality(DOMAIN fragments)
    BY DEF IInv, Digested
  <2>4. pos' \in Nat /\ remaining' \in Nat
    BY <1>1, <1>5, <1>10, <1>2, Sizes
  <2>5. MapBits - pos' <= remaining' + (Cardinality(DOMAIN fragments) + 1)
    <3>1. PICK c \in Nat, p \in Nat, r \in Nat :
            c = Cardinality(DOMAIN fragments) /\ p = pos' /\ r = remaining'
      BY <2>2, <2>4
    <3>2. pos \in Nat /\ remaining \in Nat /\ MapBits \in Nat
      BY <1>3, <1>2, Sizes
    <3>3. remaining + pos <= r + p + 1 /\ MapBits - pos <= remaining + c
      BY <1>10, <2>3, <3>1
    <3>4. MapBits - p <= r + (c + 1)
      BY <3>2, <3>3
    <3> QED BY <3>1, <3>4
  <2> QED BY <1>2, <1>10, <2>1, <2>5 DEF Digested
<1>15. FreeBlocks' = {}
  <2>1. \A p \in DOMAIN fragments : ~fragments[p].free_space
    BY <1>2 DEF IInv, Walked, FreeBlocks
  <2> QED BY <1>6, <1>7, <2>1 DEF FreeBlocks
<1>16. Walked' /\ FreeBlocksAreTheChain'
  BY <1>2, <1>15 DEF Walked, FreeBlocksAreTheChain
<1> QED BY <1>11, <1>12, <1>13, <1>14, <1>16 DEF IInv

\* The other steps of the loop leave the blocks alone.
LEMMA EndOfDigestKeepsIInv ==
  ASSUME IInv, DigestFails \/ DigestPanics \/ EndDigest
  PROVE  IInv'
<1>1. /\ pc = "digest" /\ UNCHANGED <<bits, params, overflow_checks>>
      /\ UNCHANGED <<pos, remaining, fragments, cursor, MapBits, free_link>>
  BY SameParams DEF DigestFails, DigestPanics, EndDigest, Fail, input
<1>2. /\ UNCHANGED <<DOMAIN fragments, FreeBlocks>>
      /\ BlocksTile' /\ BlocksBeginInMap' /\ FreeBlocks = {}
  BY <1>1 DEF IInv, BlocksTile, BlocksBeginInMap, FreeBlocks, Extent, Walked
<1>3. CASE DigestFails \/ DigestPanics
  <2>1. pc' = "failed" /\ error' \in {"UnexpectedEof", "Panic"}
    BY <1>3 DEF DigestFails, DigestPanics, Fail
  <2>2. TypeOK'
    BY <1>1, <2>1 DEF IInv, TypeOK
  <2>3. Digested'
    BY <1>1, <2>1 DEF IInv, Digested
  <2>4. Walked' /\ FreeBlocksAreTheChain'
    BY <2>1 DEF Walked, FreeBlocksAreTheChain
  <2> QED BY <1>2, <2>2, <2>3, <2>4 DEF IInv
<1>4. CASE EndDigest
  <2>1. /\ remaining = 0 /\ pc' = (IF free_link = 0 THEN "done" ELSE "link")
        /\ error' = error
    BY <1>4 DEF EndDigest
  <2>2. TypeOK'
    BY <1>1, <2>1 DEF IInv, TypeOK
  <2>3. Digested'
    BY <1>1, <2>1 DEF IInv, Digested
  <2>4. Walked' /\ FreeBlocksAreTheChain'
    BY <1>1, <1>2, <2>1 DEF Walked, FreeBlocksAreTheChain
  <2> QED BY <1>2, <2>2, <2>3, <2>4 DEF IInv
<1> QED BY <1>3, <1>4

-----------------------------------------------------------------------------
(* Walking the free chain *)

\* Flagging a block changes nothing but its flag.
LEMMA FlagEffect ==
  ASSUME TypeOK, NEW p \in DOMAIN fragments, Flag(p)
  PROVE  /\ DOMAIN fragments' = DOMAIN fragments
         /\ FreeBlocks' = FreeBlocks \cup {p}
         /\ \A q \in DOMAIN fragments :
              /\ fragments'[q] \in FragmentBlock
              /\ fragments'[q].id = fragments[q].id
              /\ fragments'[q].map_length = fragments[q].map_length
<1>1. fragments' = [fragments EXCEPT ![p].free_space = TRUE]
  BY DEF Flag
<1>2. \A q \in DOMAIN fragments : fragments[q] \in FragmentBlock
  BY DEF TypeOK
<1>3. DOMAIN fragments' = DOMAIN fragments
  BY <1>1
<1>4. \A q \in DOMAIN fragments :
        q # p => fragments'[q] = fragments[q]
  BY <1>1
<1>5. fragments'[p] = [fragments[p] EXCEPT !.free_space = TRUE]
  BY <1>1
<1>6. /\ fragments'[p] \in FragmentBlock
      /\ fragments'[p].id = fragments[p].id
      /\ fragments'[p].map_length = fragments[p].map_length
      /\ fragments'[p].free_space = TRUE
  BY <1>2, <1>5 DEF FragmentBlock
<1>7. FreeBlocks' = FreeBlocks \cup {p}
  BY <1>3, <1>4, <1>6 DEF FreeBlocks
<1> QED BY <1>2, <1>3, <1>4, <1>6, <1>7

\* What does not depend on the flags is kept by a visit.
LEMMA VisitKeepsBlocks ==
  ASSUME IInv, NEW p \in DOMAIN fragments, Visit(p), pc \in {"link", "chain"}
  PROVE  TypeOK' /\ BlocksTile' /\ BlocksBeginInMap' /\ Digested'
<1>1. /\ UNCHANGED <<bits, params, overflow_checks, pos, remaining, error, MapBits>>
      /\ cursor' = p /\ pc' \in {"chain", "done"}
  BY SameParams DEF Visit, input
<1>2. TypeOK /\ Flag(p)
  BY DEF IInv, Visit
<1>3. /\ DOMAIN fragments' = DOMAIN fragments
      /\ \A q \in DOMAIN fragments :
           /\ fragments'[q] \in FragmentBlock
           /\ fragments'[q].map_length = fragments[q].map_length
  BY <1>2, FlagEffect
<1>4. TypeOK'
  <2>1. cursor' \in 0 .. StreamBits
    BY <1>1, <1>2, Sizes DEF TypeOK
  <2> QED BY <1>1, <1>3, <2>1 DEF IInv, TypeOK
<1>5. \A q \in DOMAIN fragments : Extent(q)' = Extent(q)
  BY <1>3 DEF Extent
<1>6. BlocksTile'
  BY <1>1, <1>3, <1>5 DEF IInv, BlocksTile
<1>7. BlocksBeginInMap'
  BY <1>1, <1>3 DEF IInv, BlocksBeginInMap
<1>8. Digested'
  BY <1>1, <1>3 DEF IInv, Digested
<1> QED BY <1>4, <1>6, <1>7, <1>8

(***************************************************************************)
(* A visit of p continues the chain when everything flagged before lies    *)
(* before p and has its successor flagged or in p.                         *)
(***************************************************************************)
LEMMA VisitContinuesChain ==
  ASSUME IInv, NEW p \in DOMAIN fragments, Visit(p), pc \in {"link", "chain"},
         \E q \in FreeBlocks \cup {p} : IsLinked(q),
         \A q \in FreeBlocks :
           /\ q < p
           /\ fragments[q].id # 0
           /\ Successor(q) \in FreeBlocks \cup {p},
         FlaggedAreLinked,
         IsLinked(p) \/ \E q \in FreeBlocks : Successor(q) = p
  PROVE  IInv'
<1>1. /\ free_link # 0 /\ cursor' = p
      /\ pc' = (IF fragments[p].id = 0 THEN "done" ELSE "chain")
      /\ free_link' = free_link
      /\ \A q : IsLinked(q)' = IsLinked(q)
  BY SameParams DEF IInv, Walked, Visit, input, IsLinked
<1>2. TypeOK /\ Flag(p)
  BY DEF IInv, Visit
<1>3. /\ DOMAIN fragments' = DOMAIN fragments
      /\ FreeBlocks' = FreeBlocks \cup {p}
      /\ \A q \in DOMAIN fragments : fragments'[q].id = fragments[q].id
  BY <1>2, FlagEffect
<1>4. FreeBlocks \subseteq DOMAIN fragments /\ DOMAIN fragments \subseteq Nat
  BY <1>2, Sizes DEF FreeBlocks, TypeOK
<1>5. /\ \A q \in FreeBlocks' : fragments'[q].id = fragments[q].id
      /\ \A q \in FreeBlocks' : Successor(q)' = Successor(q)
  BY <1>3, <1>4 DEF Successor
<1>6. FlaggedAreLinked'
  <2> SUFFICES ASSUME NEW r \in FreeBlocks'
               PROVE  \/ IsLinked(r)'
                      \/ \E q \in FreeBlocks' : q < r /\ Successor(q)' = r
    BY DEF FlaggedAreLinked
  <2>1. CASE r \in FreeBlocks
    <3>1. CASE IsLinked(r)
      BY <1>1, <3>1
    <3>2. CASE ~IsLinked(r)
      <4>1. PICK q \in FreeBlocks : q < r /\ Successor(q) = r
        BY <2>1, <3>2 DEF FlaggedAreLinked
      <4> QED BY <1>3, <1>5, <4>1
    <3> QED BY <3>1, <3>2
  <2>2. CASE r = p
    BY <1>1, <1>3, <1>5, <2>2
  <2> QED BY <1>3, <2>1, <2>2
<1>7. Walked'
  <2>1. ASSUME pc' = "chain"
        PROVE  /\ \E q \in FreeBlocks' : IsLinked(q)'
               /\ p \in FreeBlocks'
               /\ fragments'[p].id # 0
               /\ \A q \in FreeBlocks' : q <= p
               /\ \A q \in FreeBlocks' \ {p} :
                    fragments'[q].id # 0 /\ Successor(q)' \in FreeBlocks'
    BY <1>1, <1>3, <1>4, <1>5, <2>1
  <2> QED BY <1>1, <1>6, <2>1 DEF Walked
<1>8. FreeBlocksAreTheChain'
  <2> SUFFICES ASSUME pc' = "done", free_link' # 0
               PROVE  /\ \E q \in FreeBlocks' : IsLinked(q)'
                      /\ \A q \in FreeBlocks' :
                           fragments'[q].id # 0 => Successor(q)' \in FreeBlocks'
                      /\ FlaggedAreLinked'
                      /\ Cardinality({q \in FreeBlocks' : fragments'[q].id = 0}) = 1
    BY <1>1 DEF FreeBlocksAreTheChain, FlaggedAreLinked
  <2>1. fragments[p].id = 0
    BY <1>1
  <2>2. \A q \in FreeBlocks' : fragments'[q].id = 0 <=> q = p
    BY <1>3, <1>4, <1>5, <2>1
  <2>3. {q \in FreeBlocks' : fragments'[q].id = 0} = {p}
    BY <1>3, <2>2
  <2>4. Cardinality({p}) = 1
    BY FS_Singleton
  <2>5. \A q \in FreeBlocks' :
          fragments'[q].id # 0 => Successor(q)' \in FreeBlocks'
    BY <1>3, <1>5, <2>2
  <2> QED BY <1>1, <1>3, <1>6, <2>3, <2>4, <2>5
<1> QED BY <1>7, <1>8, VisitKeepsBlocks DEF IInv

\* A difference that wraps leads beyond the sector, which is far shorter than
\* the range of a free link.
LEMMA LinkIsInSector ==
  ASSUME TypeOK, LinkTarget \in DOMAIN fragments
  PROVE  IsLinked(LinkTarget)
<1>1. 2^15 = 32768 /\ 2^16 = 65536
  BY SMT
<1>2. PICK f \in Nat, n \in Nat, m \in Nat :
        /\ f = free_link /\ n = Start /\ m = StreamBits
        /\ f < 32768 /\ m + 8 * n <= 32768
  <2>1. free_link \in 0 .. 2^15 - 1
    BY ParamsAssumption DEF TypeOK, AllocationParsingParams, free_link
  <2>2. free_link \in Nat /\ free_link < 32768
    BY <1>1, <2>1
  <2> QED BY <1>1, <2>2, Sizes DEF TypeOK
<1>3. PICK d \in Int : d = LinkDifference /\ d = 8 + f - 8 * n
  BY <1>2 DEF LinkDifference
<1>4. PICK t \in Nat : t = LinkTarget /\ t < m
  BY <1>2, Sizes DEF TypeOK
<1>5. t = d % 65536
  <2>1. LinkTarget = LinkDifference % 2^16
    BY DEF LinkTarget
  <2>2. LinkDifference % 2^16 = LinkDifference % 65536
    BY <1>1
  <2>3. LinkDifference % 65536 = d % 65536
    BY <1>3
  <2> QED BY <1>4, <2>1, <2>2, <2>3
<1>6. CASE d >= 0
  <2>1. d < 65536
    BY <1>2, <1>3
  <2>2. t = d
    BY <1>5, <1>6, <2>1
  <2>3. 8 * n + t = 8 + f
    BY <1>3, <2>2
  <2> QED BY <1>2, <1>4, <2>3 DEF IsLinked
<1>7. CASE d < 0
  <2>1. d + 65536 >= m /\ -65536 <= d
    BY <1>2, <1>3
  <2>2. t = d + 65536
    BY <1>5, <1>7, <2>1, SMTT(30)
  <2> QED BY <1>4, <2>1, <2>2
<1> QED BY <1>6, <1>7

\* The first link: nothing has been flagged.
LEMMA FollowFreeLinkKeepsIInv ==
  ASSUME IInv, FollowFreeLink
  PROVE  IInv'
<1>1. LinkTarget \in DOMAIN fragments /\ Visit(LinkTarget) /\ pc = "link"
  BY DEF FollowFreeLink
<1>2. FreeBlocks = {}
  BY <1>1 DEF IInv, Walked
<1>3. FlaggedAreLinked
  BY <1>2 DEF FlaggedAreLinked
<1>4. IsLinked(LinkTarget)
  BY <1>1, LinkIsInSector DEF IInv
<1> QED BY <1>1, <1>2, <1>3, <1>4, VisitContinuesChain

\* A further link leads forward, for the id of a block with a successor is
\* not 0, and so to a block that is not flagged.
LEMMA NextIsAhead ==
  ASSUME IInv, pc = "chain", NextFree \in DOMAIN fragments
  PROVE  /\ NextFree > cursor
         /\ \A q \in FreeBlocks : q < NextFree
         /\ NextFree \notin FreeBlocks
<1>1. cursor \in DOMAIN fragments /\ cursor \in Nat
  BY Sizes DEF IInv, Walked, FreeBlocks, TypeOK
<1>2. fragments[cursor].id \in Nat \ {0}
  BY <1>1 DEF IInv, TypeOK, FragmentBlock, Walked
<1>3. NextFree > cursor
  BY <1>1, <1>2 DEF NextFree
<1>4. \A q \in FreeBlocks : q \in Nat /\ q <= cursor
  BY Sizes DEF IInv, Walked, FreeBlocks, TypeOK
<1>5. NextFree \in Nat
  BY <1>1, <1>2 DEF NextFree
<1> QED BY <1>1, <1>3, <1>4, <1>5

\* Following a link of the free chain keeps the invariant.
LEMMA FollowChainKeepsIInv ==
  ASSUME IInv, FollowChain
  PROVE  IInv'
<1>1. NextFree \in DOMAIN fragments /\ Visit(NextFree) /\ pc = "chain"
  BY DEF FollowChain
<1>2. /\ \E q \in FreeBlocks : IsLinked(q)
      /\ cursor \in FreeBlocks
      /\ fragments[cursor].id # 0
      /\ \A q \in FreeBlocks \ {cursor} :
           fragments[q].id # 0 /\ Successor(q) \in FreeBlocks
      /\ FlaggedAreLinked
  BY <1>1 DEF IInv, Walked
<1>3. Successor(cursor) = NextFree
  BY DEF Successor, NextFree
<1>4. \A q \in FreeBlocks : q < NextFree
  BY <1>1, NextIsAhead
<1> QED BY <1>1, <1>2, <1>3, <1>4, VisitContinuesChain

\* A link that leads to no block ends parse with an error.
LEMMA BrokenLinkKeepsIInv ==
  ASSUME IInv, FreeLinkFails \/ ChainBreaks
  PROVE  IInv'
<1>1. /\ pc \in {"link", "chain"} /\ pc' = "failed"
      /\ error' \in {"InvalidFreeLink", "BrokenFreeChain", "Panic"}
      /\ UNCHANGED <<bits, params, overflow_checks, pos, remaining, fragments, cursor>>
      /\ UNCHANGED <<MapBits, free_link>>
  BY SameParams DEF FreeLinkFails, ChainBreaks, Fail, input
<1>2. TypeOK'
  BY <1>1 DEF IInv, TypeOK
<1>3. BlocksTile' /\ BlocksBeginInMap'
  BY <1>1 DEF IInv, BlocksTile, BlocksBeginInMap, Extent
<1>4. Digested'
  BY <1>1 DEF IInv, Digested
<1>5. Walked' /\ FreeBlocksAreTheChain'
  BY <1>1 DEF Walked, FreeBlocksAreTheChain
<1> QED BY <1>2, <1>3, <1>4, <1>5 DEF IInv

\* So does every step of the parser.
LEMMA NextKeepsIInv == IInv /\ [Next]_vars => IInv'
<1> SUFFICES ASSUME IInv, [Next]_vars PROVE IInv'
  OBVIOUS
<1>1. CASE UNCHANGED vars
  BY <1>1 DEF vars, input, IInv, TypeOK, BlocksTile, BlocksBeginInMap, Digested,
     Walked, FreeBlocksAreTheChain, FlaggedAreLinked, Extent, FreeBlocks, Successor,
     IsLinked, MapBits, free_link
<1>2. CASE DigestBlock
  BY <1>2, DigestBlockKeepsIInv
<1>3. CASE DigestFails \/ DigestPanics \/ EndDigest
  BY <1>3, EndOfDigestKeepsIInv
<1>4. CASE FollowFreeLink
  BY <1>4, FollowFreeLinkKeepsIInv
<1>5. CASE FollowChain
  BY <1>5, FollowChainKeepsIInv
<1>6. CASE FreeLinkFails \/ ChainBreaks
  BY <1>6, BrokenLinkKeepsIInv
<1> QED BY <1>1, <1>2, <1>3, <1>4, <1>5, <1>6 DEF Next

(***************************************************************************)
(* The strengthened invariant holds of every run of parse, whatever the    *)
(* stream, the header's free link, the length of an id and the trailing    *)
(* bytes are.                                                              *)
(***************************************************************************)
THEOREM Inductive == Spec => []IInv
<1>1. Init => IInv
  BY InitIInv
<1>2. IInv /\ [Next]_vars => IInv'
  BY NextKeepsIInv
<1> QED BY <1>1, <1>2, PTL DEF Spec

-----------------------------------------------------------------------------
(* The properties that follow *)

\* Type correctness of parse and of walk_free_chain.
THEOREM Typing == Spec => []TypeOK
<1>1. IInv => TypeOK
  BY DEF IInv
<1> QED BY <1>1, Inductive, PTL

\* AllocationMap::parse: the blocks read so far tile what has been read.
THEOREM Tiling == Spec => []BlocksTile
<1>1. IInv => BlocksTile
  BY DEF IInv
<1> QED BY <1>1, Inductive, PTL

\* AllocationMap::parse takes no block out of the trailing bytes.
THEOREM Beginnings == Spec => []BlocksBeginInMap
<1>1. IInv => BlocksBeginInMap
  BY DEF IInv
<1> QED BY <1>1, Inductive, PTL

\* The loop of AllocationMap::parse leaves at most one bit of the map unread
\* for every block.
THEOREM BoundedLoss == Spec => []LossIsBounded
<1>1. IInv => LossIsBounded
  <2> SUFFICES ASSUME IInv, pc \in {"link", "chain", "done"}
               PROVE  MapBits - pos <= Cardinality(DOMAIN fragments)
    BY DEF LossIsBounded
  <2>1. remaining = 0 /\ MapBits - pos <= remaining + Cardinality(DOMAIN fragments)
    BY DEF IInv, Digested
  <2>2. Cardinality(DOMAIN fragments) \in Nat
    BY FinitelyManyBlocks DEF IInv
  <2> QED BY <2>1, <2>2
<1> QED BY <1>1, Inductive, PTL

\* When walk_free_chain returns, the flagged blocks are the free chain.
THEOREM ExactChain == Spec => []FreeBlocksAreTheChain
<1>1. IInv => FreeBlocksAreTheChain
  BY DEF IInv
<1> QED BY <1>1, Inductive, PTL

\* walk_free_chain never comes back to a block, whatever the ids are: the
\* reason why its loop ends.
THEOREM ForwardWalk == Spec => ChainGoesForward
<1>1. IInv /\ [Next]_vars =>
        [pc = "chain" /\ cursor' # cursor =>
           cursor' > cursor /\ ~fragments[cursor'].free_space]_vars
  <2> SUFFICES ASSUME IInv, [Next]_vars, pc = "chain", cursor' # cursor
               PROVE  cursor' > cursor /\ ~fragments[cursor'].free_space
    OBVIOUS
  <2>1. FollowChain
    BY DEF Next, vars, DigestBlock, DigestFails, DigestPanics, EndDigest, FollowFreeLink,
       FreeLinkFails, ChainBreaks, Fail
  <2>2. NextFree \in DOMAIN fragments /\ cursor' = NextFree
    BY <2>1 DEF FollowChain, Visit
  <2>3. NextFree > cursor /\ NextFree \notin FreeBlocks
    BY <2>2, NextIsAhead
  <2> QED BY <2>2, <2>3 DEF FreeBlocks
<1> QED BY <1>1, Inductive, PTL DEF Spec, ChainGoesForward
==============================================================================
