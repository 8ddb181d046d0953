---------------------------- MODULE AllocationMap ----------------------------
(***************************************************************************)
(* The allocation map of one zone (lib/src/new_map/allocation_map.rs and   *)
(* fragment_block.rs): the bit stream is digested into fragment blocks,    *)
(* one step per block, and then the free chain is walked, one step per     *)
(* link.                                                                   *)
(*                                                                         *)
(* Positions count bits from the start of the map.  The stream goes on     *)
(* behind the map with the zone's trailing bytes, which the loop must not  *)
(* take blocks from but into which a block may run.  The record on the     *)
(* disc that says how long an id is and how many bytes are trailing is not *)
(* validated: an id may have no bits, or more than a FragmentId, and the   *)
(* trailing bytes may be more than there are.                              *)
(***************************************************************************)
EXTENDS Integers, FiniteSets

CONSTANTS
  StreamBytes,   \* input.len(): the bytes of the sector from the map on
  Start,         \* starting_point: the bytes of the sector before the map
  FragmentBits,  \* the bits of a FragmentId, 16 in the code
  UsizeRange,    \* the values of usize, 2^64 in the code
  Bits,          \* the contents the stream may have
  Params,        \* the AllocationParsingParams the sector may be read with
  Builds         \* the builds: TRUE if arithmetic overflow panics, as in debug

\* A zone_spare below 32 makes trailing_bytes wrap, which is the same to the
\* length of the map as a few bytes less than none.
AllocationParsingParams ==
  [free_link : 0 .. 2^15 - 1, fragment_id_length : Nat, trailing_bytes : Int]

\* The sector has at most 4096 bytes.
ASSUME SizesAssumption ==
  /\ StreamBytes \in Nat
  /\ Start \in Nat
  /\ 8 * (Start + StreamBytes) <= 2^15
  /\ FragmentBits \in 1 .. 16
  /\ UsizeRange \in Nat \ {0}
ASSUME BitsAssumption == Bits \subseteq [0 .. 8 * StreamBytes - 1 -> {0, 1}]
ASSUME ParamsAssumption == Params \subseteq AllocationParsingParams
ASSUME BuildsAssumption == Builds \subseteq BOOLEAN

VARIABLES
  bits,             \* the stream
  params,           \* what the sector is read with
  overflow_checks,  \* the build that runs
  pc,               \* digest, link, chain, done or failed
  pos,              \* position of the stream
  remaining,        \* bits_remaining
  fragments,        \* AllocationMap.fragments, a function on block positions
  cursor,           \* cursor_position
  error             \* the Fault parse fails with, or Panic

input == <<bits, params, overflow_checks>>

vars == <<input, pc, pos, remaining, fragments, cursor, error>>

StreamBits == 8 * StreamBytes

idlen == params.fragment_id_length

free_link == params.free_link

-----------------------------------------------------------------------------
(* FragmentBlock::parse *)

\* The bits of an id that is longer than a FragmentId are or-ed into it anew.
IdBit(b, p, n) ==
  IF \E k \in 0 .. idlen - 1 : k % FragmentBits = n /\ b[p + k] = 1 THEN 1 ELSE 0

IdWidth == IF idlen < FragmentBits THEN idlen ELSE FragmentBits

\* The id is built from the stream least significant bit first.
IdAt(b, p) ==
  CHOOSE v \in 0 .. 2^IdWidth - 1 :
    \A n \in 0 .. IdWidth - 1 : (v \div 2^n) % 2 = IdBit(b, p, n)

\* e is the place of the 1 that ends the block beginning at p.
EndsAt(b, p, e) ==
  /\ e \in p + idlen .. StreamBits - 1
  /\ b[e] = 1
  /\ \A i \in p + idlen .. e - 1 : b[i] = 0

\* The bit behind the last one of a FragmentId is read, and shifted too far.
ShiftOverflows ==
  overflow_checks /\ idlen > FragmentBits /\ pos + FragmentBits < StreamBits

\* Mutant: the terminating 1 is not counted.
LengthToEnd(p, e) == e - p

\* The terminating 1 is part of the length.
BlockLength(p, e) == e - p + 1

Block(b, p, e) ==
  [id |-> IdAt(b, p), map_length |-> BlockLength(p, e), free_space |-> FALSE]

-----------------------------------------------------------------------------
(* AllocationMap::parse *)

\* 8 * (input.len() - trailing_bytes): without checks, the map of a sector with
\* too few bytes goes on behind the end of the stream.
MapBits == (8 * (StreamBytes - params.trailing_bytes)) % UsizeRange

LengthUnderflows == overflow_checks /\ params.trailing_bytes > StreamBytes

\* A build with checks has panicked on a zone_spare below 32 before.
Init ==
  /\ bits \in Bits
  /\ params \in Params
  /\ overflow_checks \in Builds
  /\ overflow_checks => params.trailing_bytes >= 0
  /\ pc = IF LengthUnderflows THEN "failed" ELSE "digest"
  /\ pos = 0
  /\ remaining = MapBits
  /\ fragments = [p \in {} |-> 0]
  /\ cursor = 0
  /\ error = IF LengthUnderflows THEN "Panic" ELSE "none"

\* Mutants: a difference below zero, one bit too few, one too many.
DeductUnsaturated(r, length) == r - (length + 1)
DeductTooLittle(r, length) == IF r > length - 1 THEN r - (length - 1) ELSE 0
DeductTooMuch(r, length) == IF r > length + 2 THEN r - (length + 2) ELSE 0

\* saturating_sub of the block's length and another 1.
Deduct(r, length) == IF r > length + 1 THEN r - (length + 1) ELSE 0

\* One round of the loop.
DigestBlock ==
  /\ pc = "digest"
  /\ remaining > 0
  /\ ~ShiftOverflows
  /\ \E e \in 0 .. StreamBits - 1 :
       /\ EndsAt(bits, pos, e)
       /\ fragments' = [p \in DOMAIN fragments \cup {pos} |->
                          IF p = pos THEN Block(bits, pos, e) ELSE fragments[p]]
       /\ remaining' = Deduct(remaining, BlockLength(pos, e))
       /\ pos' = e + 1
  /\ UNCHANGED <<input, pc, cursor, error>>

Fail(fault) ==
  /\ pc' = "failed"
  /\ error' = fault
  /\ UNCHANGED <<input, pos, remaining, fragments, cursor>>

\* The stream ends inside a block.
DigestFails ==
  /\ pc = "digest"
  /\ remaining > 0
  /\ ~ShiftOverflows
  /\ \A e \in 0 .. StreamBits - 1 : ~EndsAt(bits, pos, e)
  /\ Fail("UnexpectedEof")

\* Reading an id panics.
DigestPanics ==
  /\ pc = "digest"
  /\ remaining > 0
  /\ ShiftOverflows
  /\ Fail("Panic")

\* A free link of 0 means there are no free blocks.
EndDigest ==
  /\ pc = "digest"
  /\ remaining = 0
  /\ pc' = IF free_link = 0 THEN "done" ELSE "link"
  /\ UNCHANGED <<input, pos, remaining, fragments, cursor, error>>

-----------------------------------------------------------------------------
(* AllocationMap::walk_free_chain *)

\* Mutant: the link is taken to count from the beginning of the sector.
LinkFromSector == free_link - 8 * Start

\* free_link counts from the second byte of the sector, positions from the
\* start of the map; the subtraction is on u16.
LinkDifference == 8 + free_link - 8 * Start

LinkTarget == LinkDifference % 2^16

LinkOverflows == overflow_checks /\ LinkDifference < 0

Flag(p) == fragments' = [fragments EXCEPT ![p].free_space = TRUE]

\* The block at p is on the free chain; the walk stops at a block with id 0.
Visit(p) ==
  /\ Flag(p)
  /\ cursor' = p
  /\ pc' = IF fragments[p].id = 0 THEN "done" ELSE "chain"
  /\ UNCHANGED <<input, pos, remaining, error>>

FollowFreeLink ==
  /\ pc = "link"
  /\ ~LinkOverflows
  /\ LinkTarget \in DOMAIN fragments
  /\ Visit(LinkTarget)

FreeLinkFails ==
  /\ pc = "link"
  /\ LinkOverflows \/ LinkTarget \notin DOMAIN fragments
  /\ Fail(IF LinkOverflows THEN "Panic" ELSE "InvalidFreeLink")

\* Mutant: the link is taken for a position.
LinkIsPosition == fragments[cursor].id

\* cursor_id + cursor_position.
NextFree == cursor + fragments[cursor].id

FollowChain ==
  /\ pc = "chain"
  /\ NextFree \in DOMAIN fragments
  /\ Visit(NextFree)

ChainBreaks ==
  /\ pc = "chain"
  /\ NextFree \notin DOMAIN fragments
  /\ Fail("BrokenFreeChain")

Next ==
  \/ DigestBlock
  \/ DigestFails
  \/ DigestPanics
  \/ EndDigest
  \/ FollowFreeLink
  \/ FreeLinkFails
  \/ FollowChain
  \/ ChainBreaks

Spec == Init /\ [][Next]_vars

\* parse is one call of a program with one thread: it keeps running.
FairSpec == Spec /\ WF_vars(Next)

-----------------------------------------------------------------------------
(* Properties *)

FragmentBlock ==
  [id : Nat, map_length : Nat \ {0}, free_space : BOOLEAN]

(***************************************************************************)
(* Every variable has its type; a failed parse, and no other, has an error.*)
(***************************************************************************)
TypeOK ==
  /\ bits \in [0 .. StreamBits - 1 -> {0, 1}]
  /\ params \in Params
  /\ overflow_checks \in Builds
  /\ pc \in {"digest", "link", "chain", "done", "failed"}
  /\ pos \in 0 .. StreamBits
  /\ remaining \in 0 .. MapBits
  /\ DOMAIN fragments \subseteq 0 .. StreamBits - 1
  /\ \A p \in DOMAIN fragments : fragments[p] \in FragmentBlock
  /\ cursor \in 0 .. StreamBits
  /\ error \in {"none", "UnexpectedEof", "InvalidFreeLink", "BrokenFreeChain", "Panic"}
  /\ (pc = "failed") = (error # "none")

\* The allocation units the block at p stands for.
Extent(p) == p .. p + fragments[p].map_length - 1

(***************************************************************************)
(* The blocks tile the part of the stream that has been digested: every    *)
(* bit before the position of the stream belongs to exactly one block, so  *)
(* no two blocks of a zone claim the same space on the disc.               *)
(***************************************************************************)
BlocksTile ==
  /\ \A p \in DOMAIN fragments : Extent(p) \subseteq 0 .. pos - 1
  /\ \A b \in 0 .. pos - 1 : \E p \in DOMAIN fragments : b \in Extent(p)
  /\ \A p, q \in DOMAIN fragments : p # q => Extent(p) \cap Extent(q) = {}

(***************************************************************************)
(* A block always begins inside the map, even when it runs into the        *)
(* trailing bytes: the zone's tail is never taken for blocks of its own.   *)
(***************************************************************************)
BlocksBeginInMap == \A p \in DOMAIN fragments : p < MapBits

(***************************************************************************)
(* What the loop leaves unread is bounded: at most one bit of the map for  *)
(* every block that was digested.                                          *)
(***************************************************************************)
LossIsBounded ==
  pc \in {"link", "chain", "done"} =>
    MapBits - pos <= Cardinality(DOMAIN fragments)

FreeBlocks == {p \in DOMAIN fragments : fragments[p].free_space}

Successor(p) == p + fragments[p].id

\* The header links to p: both count to the same bit of the sector.
IsLinked(p) == 8 * Start + p = 8 + free_link

(***************************************************************************)
(* A map that parses has flagged exactly its free chain: the block the     *)
(* header links to, counting bits from the second byte of the sector, and  *)
(* the blocks linked from flagged ones, up to one without a successor.     *)
(***************************************************************************)
FreeBlocksAreTheChain ==
  pc = "done" =>
    IF free_link = 0 THEN FreeBlocks = {}
    ELSE /\ \E p \in FreeBlocks : IsLinked(p)
         /\ \A p \in FreeBlocks : fragments[p].id # 0 => Successor(p) \in FreeBlocks
         /\ \A p \in FreeBlocks :
              IsLinked(p) \/ \E q \in FreeBlocks : q < p /\ Successor(q) = p
         /\ Cardinality({p \in FreeBlocks : fragments[p].id = 0}) = 1

(***************************************************************************)
(* The walk only goes forward and never comes back to a block it flagged,  *)
(* whatever the ids on the disc are.                                       *)
(***************************************************************************)
ChainGoesForward ==
  [][pc = "chain" /\ cursor' # cursor =>
       cursor' > cursor /\ ~fragments[cursor'].free_space]_vars

\* Parsing a map ends, also with a length or a free chain made up by a damaged
\* disc.
ParseEnds == <>(pc \in {"done", "failed"})

-----------------------------------------------------------------------------
(* What the documentation says and the code does not do *)

(***************************************************************************)
(* `The allocation map contains no gaps - every bit within it assigns disk *)
(* space to some fragment.'  The loop counts the terminating 1 of every    *)
(* block twice and stops early.                                            *)
(***************************************************************************)
EveryBitIsAssigned ==
  pc = "done" =>
    \A b \in 0 .. MapBits - 1 : \E p \in DOMAIN fragments : b \in Extent(p)

==============================================================================
