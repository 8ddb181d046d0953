------------------------------ MODULE DiscObject ------------------------------
(***************************************************************************)
(* From an indirect disc address to bytes of the image                     *)
(* (lib/src/new_map/disc_object.rs, NewMap::get_disc_object and            *)
(* get_file_regions in new_map.rs, the offsets of disc_record.rs and the   *)
(* use retrieve_directory makes of them).                                  *)
(*                                                                         *)
(* The object of an address is the concatenation of all fragment blocks    *)
(* with its id, over all zones.  get_disc_regions streams its regions      *)
(* through two scans, one region per step here: the first drops the bytes  *)
(* before the asked sector, the second keeps the bytes of the asked length.*)
(***************************************************************************)
EXTENDS Integers, Sequences, FiniteSets, Functions

CONSTANTS
  NumZones,      \* DiscRecord.num_zones
  IdsPerZone,    \* DiscRecord::ids_per_zone
  FirstZoneBits, \* map bits of zone 0, which also holds the disc record
  ZoneBits,      \* map bits of the other zones
  BytesPerBit,   \* DiscRecord::bytes_per_map_bit
  SectorSize,    \* DiscRecord::sector_size_in_bytes
  DirLength,     \* Directory::LENGTH: the bytes asked for and asserted
  DirExtent,     \* the bytes Directory::parse reads from the first of them on
  Maps,          \* the maps parsed: per zone, AllocationMap.fragments
  Requests       \* what is looked up: records [kind, address, len]

\* Sectors and the bytes of a map bit are powers of two, the latter 0 where the
\* power wraps.  ids_per_zone is not 0: the map of the first zone has parsed, so
\* that zone_spare leaves 473 bits of a sector or more, and an id has at most 255.
ASSUME GeometryAssumption ==
  /\ NumZones \in 0 .. 255
  /\ IdsPerZone \in Nat \ {0}
  /\ FirstZoneBits \in Nat /\ ZoneBits \in Nat
  /\ BytesPerBit \in Nat /\ SectorSize \in Nat \ {0}
  /\ BytesPerBit % SectorSize = 0 \/ SectorSize % BytesPerBit = 0
  /\ DirLength \in Nat \ {0} /\ DirExtent \in Nat

\* There is a zone for each that the boot block counts in a byte; the disc record
\* may count others.  A block begins inside the map of its zone and may reach
\* beyond it.
ASSUME MapsAssumption ==
  \A b \in Maps :
    /\ DOMAIN b \subseteq 0 .. 254
    /\ \A zone \in DOMAIN b : \A p \in DOMAIN b[zone] :
         /\ p \in 0 .. (IF zone = 0 THEN FirstZoneBits ELSE ZoneBits) - 1
         /\ b[zone][p].id \in Nat /\ b[zone][p].map_length \in Nat

ASSUME RequestsAssumption ==
  Requests \subseteq [kind : {"file", "directory"}, address : Nat, len : Nat]

VARIABLES
  blocks,   \* NewMap.blocks: zone index -> position -> fragment block
  request,  \* the address (a DiscPosition) and the length
  pc,       \* lookup, stream or done
  regions,  \* DiscObject.regions: byte ranges of the image, end exclusive
  next,     \* the region the iterator is at
  offset,   \* offset_remaining of the first scan
  budget,   \* length_remaining of the second scan
  found,    \* the non-empty regions produced so far
  outcome   \* none, Some, Missing (MissingFragment), OutOfBounds or Panic

vars == <<blocks, request, pc, regions, next, offset, budget, found, outcome>>

\* usize, much narrower than the machine's; only its wrapping is used.
UsizeRange == 65536

-----------------------------------------------------------------------------
(* DiscPosition *)

\* fragment: bits 8 to 22.
Fragment(address) == (address \div 256) % 2^15

\* sector_idx: sectors are counted from 1, 0 is the first as well.
SectorIdx(address) == LET n == address % 256 IN IF n = 0 THEN 0 ELSE n - 1

-----------------------------------------------------------------------------
(* DiscRecord *)

\* zone_size_in_bytes, with and without the disc record.
FirstZoneSize == BytesPerBit * FirstZoneBits
ZoneSize == BytesPerBit * ZoneBits

\* Mutant: every zone is taken to be as long as the first.
ZoneOffsetLikeFirst(zone) == zone * FirstZoneSize

\* get_zone_offset.
ZoneOffset(zone) ==
  IF zone = 0 THEN 0 ELSE (zone - 1) * ZoneSize + FirstZoneSize

-----------------------------------------------------------------------------
(* NewMap::get_disc_object and DiscObject::new *)

SYSTEM_FRAGMENT == 2

\* The blocks with an id, each with its zone: get_fragments over all zones.
Fragments(b, id) ==
  {f \in (DOMAIN b) \X UNION {DOMAIN b[z] : z \in DOMAIN b} :
     f[2] \in DOMAIN b[f[1]] /\ b[f[1]][f[2]].id = id}

\* div_ceil(num_zones, 2) for the object that carries the map, else the id's.
StartingZone(id) ==
  IF id = SYSTEM_FRAGMENT THEN (NumZones + 1) \div 2 ELSE id \div IdsPerZone

AdjustedZone(id, zone) == (zone - StartingZone(id)) % UsizeRange

\* Mutant: position counts before the zone does.
BeforeByPosition(id, f, g) ==
  \/ f[2] < g[2]
  \/ f[2] = g[2] /\ AdjustedZone(id, f[1]) < AdjustedZone(id, g[1])

\* The order of sort_blocks: by adjusted zone, then by position.
Before(id, f, g) ==
  \/ AdjustedZone(id, f[1]) < AdjustedZone(id, g[1])
  \/ f[1] = g[1] /\ f[2] < g[2]

\* The i-th fragment has i - 1 others before it.
SortedFragments(b, id) ==
  LET S == Fragments(b, id)
  IN  [i \in 1 .. Cardinality(S) |->
         CHOOSE f \in S : Cardinality({g \in S : Before(id, g, f)}) = i - 1]

\* The byte range of the block at position p of a zone.
ByteRange(b, zone, p) ==
  [start |-> BytesPerBit * p + ZoneOffset(zone),
   end   |-> BytesPerBit * (p + b[zone][p].map_length) + ZoneOffset(zone)]

ObjectRegions(b, id) ==
  LET fragments == SortedFragments(b, id)
  IN  [i \in 1 .. Len(fragments) |-> ByteRange(b, fragments[i][1], fragments[i][2])]

RangeSize(r) == r.end - r.start

\* The size of the first k ranges, for every k.
SizeUpTo(rs) ==
  LET size[k \in 0 .. Len(rs)] == IF k = 0 THEN 0 ELSE size[k - 1] + RangeSize(rs[k])
  IN  size

Size(rs) == SizeUpTo(rs)[Len(rs)]

-----------------------------------------------------------------------------

Init ==
  /\ blocks \in Maps
  /\ request \in Requests
  /\ pc = "lookup"
  /\ regions = << >>
  /\ next = 1
  /\ offset = 0
  /\ budget = 0
  /\ found = << >>
  /\ outcome = "none"

\* The id of the object asked for.
Id == Fragment(request.address)

\* The length asked for: a directory has a fixed one.
Length == IF request.kind = "directory" THEN DirLength ELSE request.len

LookUp ==
  /\ pc = "lookup"
  /\ Fragments(blocks, Id) # {}
  /\ regions' = ObjectRegions(blocks, Id)
  /\ offset' = SectorIdx(request.address) * SectorSize
  /\ budget' = Length
  /\ pc' = "stream"
  /\ UNCHANGED <<blocks, request, next, found, outcome>>

Finish(result) ==
  /\ pc' = "done"
  /\ outcome' = result
  /\ UNCHANGED <<blocks, request, regions, next, offset, budget, found>>

LookUpFails ==
  /\ pc = "lookup"
  /\ Fragments(blocks, Id) = {}
  /\ Finish("Missing")

Least2(a, b) == IF a <= b THEN a ELSE b

\* Mutant: a range shorter than n is advanced beyond its end.
DroppedUnbounded(r, n) == [r EXCEPT !.start = @ + n]

\* What is left of a range when the first n bytes are dropped (advance_range),
\* and when only the first n are kept (trim_range).
Dropped(r, n) == [r EXCEPT !.start = @ + Least2(RangeSize(r), n)]
Kept(r, n) == [r EXCEPT !.end = r.start + Least2(RangeSize(r), n)]

Emit(r) == found' = IF RangeSize(r) = 0 THEN found ELSE Append(found, r)

\* Mutant: the budget is charged for the range before it is advanced.
StreamChargesDropped ==
  /\ pc = "stream"
  /\ next <= Len(regions)
  /\ LET r == regions[next]
         advanced == Dropped(r, offset)
     IN  /\ offset' = offset - Least2(RangeSize(r), offset)
         /\ budget' = budget - Least2(RangeSize(r), budget)
         /\ Emit(Kept(advanced, budget))
  /\ next' = next + 1
  /\ UNCHANGED <<blocks, request, pc, regions, outcome>>

\* Both scans and the filter take one region.
StreamRegion ==
  /\ pc = "stream"
  /\ next <= Len(regions)
  /\ LET r == regions[next]
         advanced == Dropped(r, offset)
         trimmed == Kept(advanced, budget)
     IN  /\ offset' = offset - (RangeSize(r) - RangeSize(advanced))
         /\ budget' = budget - RangeSize(trimmed)
         /\ Emit(trimmed)
  /\ next' = next + 1
  /\ UNCHANGED <<blocks, request, pc, regions, outcome>>

AllStreamed == pc = "stream" /\ next > Len(regions)

Enough == Size(found) >= Length

\* Mutant: a directory may lie in several regions.
EndsAnyway == AllStreamed /\ Finish(IF Enough THEN "Some" ELSE "OutOfBounds")

\* retrieve_directory asserts that the first region holds the directory.
EndStream ==
  /\ AllStreamed
  /\ Finish(IF ~Enough THEN "OutOfBounds"
            ELSE IF request.kind = "directory" /\ RangeSize(found[1]) < DirLength
              THEN "Panic" ELSE "Some")

Next ==
  \/ LookUp
  \/ LookUpFails
  \/ StreamRegion
  \/ EndStream

Spec == Init /\ [][Next]_vars

-----------------------------------------------------------------------------
(* Properties *)

ByteRanges == [start : Nat, end : Nat]

(***************************************************************************)
(* Every variable has its type; ranges never run backwards.                *)
(***************************************************************************)
TypeOK ==
  /\ blocks \in Maps
  /\ request \in Requests
  /\ pc \in {"lookup", "stream", "done"}
  /\ regions \in Seq(ByteRanges)
  /\ next \in 1 .. Len(regions) + 1
  /\ offset \in Nat
  /\ budget \in Nat
  /\ found \in Seq(ByteRanges)
  /\ \A i \in 1 .. Len(found) : found[i].start < found[i].end
  /\ outcome \in {"none", "Some", "Missing", "OutOfBounds", "Panic"}

\* The range that holds the i-th byte of some ranges.
Holder(rs, i) == CHOOSE k \in 1 .. Len(rs) : i \in SizeUpTo(rs)[k - 1] + 1 .. SizeUpTo(rs)[k]

\* The addresses of the bytes of some ranges, in order.
Bytes(rs) ==
  [i \in 1 .. Size(rs) |->
     LET k == Holder(rs, i) IN rs[k].start + (i - SizeUpTo(rs)[k - 1]) - 1]

\* Where the asked bytes begin in the object, and its i-th byte from there.
Skipped == SectorIdx(request.address) * SectorSize
Asked(i) == Bytes(regions)[Skipped + i]

(***************************************************************************)
(* The regions handed out are exactly the asked bytes of the object, in    *)
(* order, wherever the sector and the length fall in its fragments; and    *)
(* nothing is handed out only when the object is too short.                *)
(***************************************************************************)
RegionsAreTheSlice ==
  /\ outcome = "Some" =>
       /\ Size(found) = Length
       /\ \A i \in 1 .. Length : Bytes(found)[i] = Asked(i)
  /\ outcome = "OutOfBounds" => Size(regions) < Skipped + Length

\* What the sizes of blocks and sectors are multiples of.
Unit == Least2(BytesPerBit, SectorSize)

RoundedUp(n) == Unit * ((n + Unit - 1) \div Unit)

(***************************************************************************)
(* A directory is read linearly from the start of its first region, for    *)
(* longer than retrieve_directory has asserted that this region is.  What  *)
(* is read is the object's own, in order, as far as the asserted length    *)
(* rounded up to whole units goes: all of it on a disc with a unit of 16   *)
(* bytes or more.                                                          *)
(***************************************************************************)
DirectoryIsContiguous ==
  request.kind = "directory" /\ outcome = "Some" =>
    \A i \in 1 .. Least2(DirExtent, RoundedUp(DirLength)) :
      Asked(i) = found[1].start + i - 1

\* The byte addresses of a range.
Extent(r) == r.start .. r.end - 1

\* Every block ends inside its zone and before the next one begins.
Divided ==
  \A zone \in DOMAIN blocks : \A p \in DOMAIN blocks[zone] :
    LET end == p + blocks[zone][p].map_length
    IN  /\ end <= IF zone = 0 THEN FirstZoneBits ELSE ZoneBits
        /\ \A q \in DOMAIN blocks[zone] : p < q => end <= q

(***************************************************************************)
(* On a disc whose zones are divided into blocks, no byte of the image is  *)
(* in an object twice, and none is in two objects: the zones' offsets and  *)
(* sizes agree, and sorting the blocks repeats none.                       *)
(***************************************************************************)
ObjectsAreDisjoint ==
  Divided =>
    \A i \in 1 .. Len(regions) :
      /\ \A j \in 1 .. Len(regions) \ {i} :
           Extent(regions[i]) \cap Extent(regions[j]) = {}
      /\ \A id \in {Fragment(r.address) : r \in Requests} \ {Id} :
           \A f \in Fragments(blocks, id) :
             Extent(regions[i]) \cap Extent(ByteRange(blocks, f[1], f[2])) = {}

(***************************************************************************)
(* An object begins in its own zone whenever it has a block there, so that *)
(* sector 0 of a file or directory is where the formatter put it, however  *)
(* its other blocks are spread.                                            *)
(***************************************************************************)
BeginsInOwnZone ==
  regions # << >> =>
    LET home == StartingZone(Id)
        own == {f \in Fragments(blocks, Id) : f[1] = home}
    IN  own # {} =>
          \E f \in own :
            /\ \A g \in own : f[2] <= g[2]
            /\ regions[1] = ByteRange(blocks, f[1], f[2])

-----------------------------------------------------------------------------
(* What the documentation says and the code does not do *)

\* parse_format_f reads the map at the start of this zone.
MapZone == NumZones \div 2

(***************************************************************************)
(* `The beginning of object 2 is the set of map blocks, which begin at the *)
(* halfway zone.'  With an odd number of zones, sort_blocks rounds up and  *)
(* parse_format_f rounds down.                                             *)
(***************************************************************************)
MapBlocksComeFirst ==
  /\ regions # << >>
  /\ Id = SYSTEM_FRAGMENT
  /\ \E f \in Fragments(blocks, Id) : f[1] = MapZone
  => regions[1].start >= ZoneOffset(MapZone)

(***************************************************************************)
(* Blocks on the free chain `are actually representing free space'.  Their *)
(* id is the distance to the next free block, and get_fragments takes it   *)
(* for the id of an object.                                                *)
(***************************************************************************)
FreeSpaceIsNoObject ==
  pc = "stream" =>
    \A f \in Fragments(blocks, Id) : ~blocks[f[1]][f[2]].free_space

===============================================================================
