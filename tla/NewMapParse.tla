----------------------------- MODULE NewMapParse -----------------------------
(***************************************************************************)
(* How NewMapDisk::parse finds the map of an image: formats E and F and    *)
(* the automatic choice between them (lib/src/new_map/new_map_disk.rs,     *)
(* new_map.rs, map_block.rs and disc_record.rs).  What follows, the root   *)
(* directory, is FileTree's ParseDisk.                                     *)
(*                                                                         *)
(* The stream is a sequence of pages of the smallest sector size; a sector *)
(* is one or more pages.  A page tells what parsing a map block that       *)
(* begins there finds: the disc record behind the header, the cross check  *)
(* byte, whether the zone check holds, and how AllocationMap::parse ends   *)
(* (AllocationMap models it).                                              *)
(***************************************************************************)
EXTENDS Integers, Sequences

CONSTANTS
  Builds,    \* the builds: TRUE if arithmetic overflow panics, as in debug
  UsizePages,  \* the pages that usize counts: a byte position is below 2^64
  BootPage,  \* the page that holds BOOT_BLOCK_OFFSET
  Images,    \* images: records [length, boot, page]
  Formats    \* the formats asked for

(***************************************************************************)
(* DiscRecord: what parsing the map uses of its fields, none of which is   *)
(* validated but the sector size.  sector is sector_size_in_bytes, first   *)
(* and zone are zone_size_in_bytes with and without the disc record, in    *)
(* pages and as they come out where arithmetic wraps.  fits is the last    *)
(* zone whose offset get_zone_offset computes without an overflow.  It is  *)
(* 0 if zone_trailing_bytes underflows (a zone_spare below 32, a narrow    *)
(* record), if allocation_map_size does (a zone_spare as large as the      *)
(* sector), if bytes_per_map_bit is a power of two no usize holds, or if   *)
(* its product with the first zone's size is; beyond fits, the product or  *)
(* the sum of the zones before overflows.                                  *)
(***************************************************************************)
DiscRecord ==
  {r \in [num_zones : Nat, sector : Nat \ {0}, first : Nat, zone : Nat,
          narrow : BOOLEAN, fits : Nat] :
     /\ r.narrow => r.fits = 0
     /\ r.fits > 0 => (r.fits - 1) * r.zone + r.first < UsizePages}

\* DiscRecord::parse fails: an unacceptable sector size, and one whose power of
\* two no usize holds (log2_sec_size from 64 on), so that it is 0 if it wraps.
NoRecord == [num_zones |-> 0, sector |-> 0, first |-> 0, zone |-> 0,
             narrow |-> FALSE, fits |-> 0]
HugeSector == [NoRecord EXCEPT !.num_zones = 1]

Unparsed == {NoRecord, HugeSector}

Page == [record : DiscRecord \cup Unparsed, cross_check : 0 .. 255,
         check_holds : BOOLEAN, map : {"Ok", "Error", "Panic"}]

ASSUME BuildsAssumption == Builds \subseteq BOOLEAN
ASSUME UsizeAssumption == UsizePages \in Nat \ {0}
ASSUME BootPageAssumption == BootPage \in Nat
ASSUME FormatsAssumption == Formats \subseteq {"E", "F", "Automatic"}
ASSUME ImagesAssumption ==
  \A img \in Images :
    /\ img.length \in Nat
    /\ img.boot \in DiscRecord \cup Unparsed
    /\ img.page \in [0 .. img.length - 1 -> Page]

VARIABLES
  overflow_checks,  \* the build that runs
  image,
  format,      \* the format asked for
  attempt,     \* the format being parsed, E or F
  pc,          \* boot, first, zones, failed or done
  pos,         \* position of the stream
  zone_count,  \* num_zones of the boot block
  record,      \* NewMap.disc_record
  blocks,      \* NewMap.blocks: the page each zone's block was read from
  faults,      \* the warnings of this attempt
  outcome      \* none, Ok, Error, Panic, or BothFail, the panic of automatic mode

\* What parse is given and run by.
input == <<overflow_checks, image, format>>

vars == <<input, attempt, pc, pos, zone_count, record, blocks, faults, outcome>>

EXPECTED_CROSS_CHECK == 255

ZoneCheckFailure(zone) == [kind |-> "ZoneCheckFailure", zone |-> zone]
CrossCheckFailure == [kind |-> "CrossCheckFailure", zone |-> 0]

\* DiscRecord::get_zone_offset, where overflow wraps.
ZoneOffset(rec, zone) ==
  IF zone = 0 THEN 0 ELSE ((zone - 1) * rec.zone + rec.first) % UsizePages

-----------------------------------------------------------------------------

Init ==
  /\ overflow_checks \in Builds
  /\ image \in Images
  /\ format \in Formats
  /\ attempt = IF format = "F" THEN "F" ELSE "E"
  /\ pc = IF format = "F" THEN "boot" ELSE "first"
  /\ pos = 0
  /\ zone_count = 1
  /\ record = NoRecord
  /\ blocks = << >>
  /\ faults = {}
  /\ outcome = "none"

AttemptFails ==
  /\ pc' = "failed"
  /\ UNCHANGED <<input, attempt, pos, zone_count, record, blocks, faults, outcome>>

End(result) ==
  /\ pc' = "done"
  /\ outcome' = result
  /\ UNCHANGED <<input, attempt, pos, zone_count, record, blocks, faults>>

-----------------------------------------------------------------------------
(* parse_format_f, up to the first map block *)

AtBoot == pc = "boot"

\* The zone the map begins with.
MapZone(rec) == rec.num_zones \div 2

\* Parsing a record panics in test_sector_size.
RecordPanics(rec) == overflow_checks /\ rec = HugeSector

\* Computing where the map begins overflows.
OffsetPanics(rec) == overflow_checks /\ MapZone(rec) > rec.fits

\* get_boot_block skips to its offset without a check, and what it finds there
\* may make the arithmetic panic.
BootPanics ==
  /\ AtBoot
  /\ image.length > BootPage => RecordPanics(image.boot) \/ OffsetPanics(image.boot)
  /\ End("Panic")

MapOffset == ZoneOffset(image.boot, MapZone(image.boot))

\* Mutant: the stream is moved without a look at what is left of it.
TakeUnchecked == TRUE

\* `take(offset)' succeeds.
TakeSucceeds == pos + MapOffset <= image.length

\* There is no boot block, or the map begins beyond the stream.
BootFails ==
  /\ AtBoot
  /\ image.length > BootPage
  /\ ~RecordPanics(image.boot) /\ ~OffsetPanics(image.boot)
  /\ image.boot \in Unparsed \/ ~TakeSucceeds
  /\ AttemptFails

\* The boot block is read from a copy of the stream.
ReadBoot ==
  /\ AtBoot
  /\ image.length > BootPage
  /\ image.boot \notin Unparsed
  /\ ~OffsetPanics(image.boot)
  /\ TakeSucceeds
  /\ pos' = pos + MapOffset
  /\ zone_count' = image.boot.num_zones
  /\ pc' = "first"
  /\ UNCHANGED <<input, attempt, record, blocks, faults, outcome>>

-----------------------------------------------------------------------------
(* MapBlock::parse_with_disc_record and MapBlock::parse *)

\* AllocationParsingParams::new computes zone_trailing_bytes.
ParamsPanic(rec) == overflow_checks /\ rec.narrow

\* Mutant: a sector may end beyond the stream.
BlockBegins(rec, m) ==
  /\ ~ParamsPanic(rec)
  /\ pos < image.length
  /\ image.page[pos].map = m

\* The block at the position, read as the record says, is of kind m.
BlockIs(rec, m) ==
  /\ ~ParamsPanic(rec)
  /\ pos + rec.sector <= image.length
  /\ image.page[pos].map = m

\* Slicing the stream by the sector size panics, or what follows it does.
BlockPanics(rec) ==
  \/ pos + rec.sector > image.length
  \/ ParamsPanic(rec)
  \/ BlockIs(rec, "Panic")

\* Mutant: the zone check is made for the first block only.
TestFirstChecksum(zone) ==
  IF image.page[pos].check_holds \/ zone > 0 THEN {} ELSE {ZoneCheckFailure(zone)}

TestChecksum(zone) ==
  IF image.page[pos].check_holds THEN {} ELSE {ZoneCheckFailure(zone)}

\* parse_format_e adds the cross check of its only block.
CrossCheck ==
  IF attempt = "E" /\ image.page[pos].cross_check # EXPECTED_CROSS_CHECK
    THEN {CrossCheckFailure} ELSE {}

AtFirst == pc = "first"

\* A stream that is at its end has no header; one with a header has a record.
HasRecord == pos < image.length /\ image.page[pos].record \notin Unparsed

FirstBlockFails ==
  /\ AtFirst
  /\ IF HasRecord
       THEN BlockIs(image.page[pos].record, "Error")
       ELSE pos < image.length => ~RecordPanics(image.page[pos].record)
  /\ AttemptFails

FirstBlockPanics ==
  /\ AtFirst
  /\ IF HasRecord
       THEN BlockPanics(image.page[pos].record)
       ELSE pos < image.length /\ RecordPanics(image.page[pos].record)
  /\ End("Panic")

FirstBlock ==
  /\ AtFirst
  /\ HasRecord
  /\ BlockIs(image.page[pos].record, "Ok")
  /\ record' = image.page[pos].record
  /\ blocks' = <<pos>>
  /\ faults' = TestChecksum(0) \cup CrossCheck
  /\ pos' = pos + image.page[pos].record.sector
  /\ pc' = "zones"
  /\ UNCHANGED <<input, attempt, zone_count, outcome>>

\* Mutant: the first block is not counted.
OneZoneMore == pc = "zones" /\ attempt = "F" /\ Len(blocks) <= zone_count

\* The loop over 1 .. zone_count of parse_format_f.
AtZone == pc = "zones" /\ attempt = "F" /\ Len(blocks) < zone_count

ZoneFails ==
  /\ AtZone
  /\ BlockIs(record, "Error")
  /\ AttemptFails

ZonePanics ==
  /\ AtZone
  /\ BlockPanics(record)
  /\ End("Panic")

Zone ==
  /\ AtZone
  /\ BlockIs(record, "Ok")
  /\ blocks' = Append(blocks, pos)
  /\ faults' = faults \cup TestChecksum(Len(blocks))
  /\ pos' = pos + record.sector
  /\ UNCHANGED <<input, attempt, pc, zone_count, record, outcome>>

MapComplete ==
  /\ pc = "zones"
  /\ ~AtZone
  /\ End("Ok")

-----------------------------------------------------------------------------
(* The formats *)

\* Mutant: the second attempt goes on behind what the first one has read.
FallBackWithoutReset ==
  /\ pc = "failed"
  /\ format = "Automatic" /\ attempt = "E"
  /\ attempt' = "F"
  /\ pc' = "boot"
  /\ pos' = IF image.length = 0 THEN 0 ELSE 1
  /\ UNCHANGED <<input, zone_count, record, blocks, faults, outcome>>

\* Mutant: every failed attempt is followed by another.
FallBackAgain ==
  /\ pc = "failed"
  /\ format = "Automatic"
  /\ attempt' = "F"
  /\ pc' = "boot"
  /\ pos' = 0
  /\ UNCHANGED <<input, zone_count, record, blocks, faults, outcome>>

\* The stream is reset before format F is tried.
FallBack ==
  /\ pc = "failed"
  /\ format = "Automatic" /\ attempt = "E"
  /\ attempt' = "F"
  /\ pc' = "boot"
  /\ pos' = 0
  /\ UNCHANGED <<input, zone_count, record, blocks, faults, outcome>>

\* With an explicit format the error is returned; when both formats fail, the
\* automatic mode panics.
GiveUp ==
  /\ pc = "failed"
  /\ format = "Automatic" => attempt = "F"
  /\ End(IF format = "Automatic" THEN "BothFail" ELSE "Error")

Next ==
  \/ BootPanics \/ BootFails \/ ReadBoot
  \/ FirstBlockFails \/ FirstBlockPanics \/ FirstBlock
  \/ ZoneFails \/ ZonePanics \/ Zone
  \/ MapComplete \/ FallBack \/ GiveUp

Spec == Init /\ [][Next]_vars

\* parse is one call of a program with one thread: it keeps running.
FairSpec == Spec /\ WF_vars(Next)

-----------------------------------------------------------------------------
(* Properties *)

Fault == [kind : {"ZoneCheckFailure", "CrossCheckFailure"}, zone : Nat]

(***************************************************************************)
(* Every variable has its type, and the stream never leaves the image.     *)
(***************************************************************************)
TypeOK ==
  /\ format \in Formats
  /\ attempt \in {"E", "F"}
  /\ pc \in {"boot", "first", "zones", "failed", "done"}
  /\ pos \in 0 .. image.length
  /\ zone_count \in Nat
  /\ record \in DiscRecord \cup {NoRecord}
  /\ overflow_checks \in Builds
  /\ \A i \in 1 .. Len(blocks) : blocks[i] \in 0 .. image.length - 1
  /\ faults \subseteq Fault
  /\ outcome \in {"none", "Ok", "Error", "Panic", "BothFail"}
  /\ (pc = "done") = (outcome # "none")

\* Where a format's map begins in an image and how many blocks it has.
MapStart(img, f) ==
  IF f = "E" THEN 0 ELSE ZoneOffset(img.boot, img.boot.num_zones \div 2)
MapZones(img, f) ==
  IF f = "E" \/ img.boot.num_zones = 0 THEN 1 ELSE img.boot.num_zones

\* The pages the blocks of a format's map would be read from, in order.
MapPages(img, f) ==
  [i \in 1 .. MapZones(img, f) |->
     MapStart(img, f) + (i - 1) * img.page[MapStart(img, f)].record.sector]

\* An image holds a whole map of a format.
HoldsMap(img, f) ==
  /\ f = "F" => img.length > BootPage /\ img.boot \notin Unparsed
  /\ MapStart(img, f) < img.length
  /\ img.page[MapStart(img, f)].record \notin Unparsed
  /\ \A i \in 1 .. MapZones(img, f) :
       /\ MapPages(img, f)[i] + img.page[MapStart(img, f)].record.sector <= img.length
       /\ img.page[MapPages(img, f)[i]].map = "Ok"

\* The arithmetic of a build that checks for overflow fails on the boot block or
\* on the record of the map.
Overflows(img, f) ==
  \/ f = "F" /\ img.boot.num_zones \div 2 > img.boot.fits
  \/ MapStart(img, f) < img.length /\ img.page[MapStart(img, f)].record.narrow

Finds(img, f) == HoldsMap(img, f) /\ ~(overflow_checks /\ Overflows(img, f))

(***************************************************************************)
(* A map that is returned is the one of its format: a single block at the  *)
(* beginning for format E, consecutive sectors from the middle zone on for *)
(* format F, in number the boot block's zones, whatever an attempt made    *)
(* before has read of the stream.  All its blocks are whole and inside the *)
(* image, with the sector size of the map's own disc record, which need    *)
(* not be the boot block's.  A build that checks for overflow returns no   *)
(* map that it came to by an offset that wrapped.                          *)
(***************************************************************************)
MapIsWhereTheFormatSays ==
  outcome = "Ok" =>
    /\ Finds(image, attempt)
    /\ blocks = MapPages(image, attempt)
    /\ record = image.page[MapStart(image, attempt)].record

(***************************************************************************)
(* The automatic mode takes format E when it can read such a map, and      *)
(* otherwise finds every map that format F would find, unless the attempt  *)
(* at format E ends in a panic, from which nothing recovers.               *)
(***************************************************************************)
AutomaticFindsTheMap ==
  format = "Automatic" =>
    /\ outcome = "Ok" /\ attempt = "F" => ~HoldsMap(image, "E")
    /\ outcome \notin {"none", "Ok"} =>
         /\ ~Finds(image, "E")
         /\ Finds(image, "F") => outcome = "Panic" /\ attempt = "E"

(***************************************************************************)
(* The warnings of a map that is returned are those of its own zones, all  *)
(* of them, and none of an attempt that failed before.                     *)
(***************************************************************************)
DamagedZonesAreWarned ==
  outcome = "Ok" =>
    faults = {ZoneCheckFailure(i - 1) :
                i \in {j \in 1 .. Len(blocks) : ~image.page[blocks[j]].check_holds}}
             \cup (IF attempt = "E" /\ image.page[0].cross_check # EXPECTED_CROSS_CHECK
                     THEN {CrossCheckFailure} ELSE {})

(***************************************************************************)
(* An image that is long enough for its map, and whose allocation maps do  *)
(* not panic, makes parsing panic in no format: slicing a sector off the   *)
(* stream is unchecked, and this is what it relies on.  A build that       *)
(* checks for overflow also panics on a disc record with an absurd sector  *)
(* size, on a boot block from which the offset of the map overflows, be it *)
(* in zone_spare, log2_bytes_per_mapbit or the products of the zones, and  *)
(* on a map whose own zone_spare is below 32; a release build panics on    *)
(* none of these.                                                          *)
(***************************************************************************)
PanicsAreExplained ==
  outcome = "Panic" =>
    \/ attempt = "F" /\ image.length <= BootPage
    \/ overflow_checks /\ attempt = "F" /\ image.boot = HugeSector
    \/ overflow_checks /\ Overflows(image, attempt)
    \/ /\ overflow_checks
       /\ image.page[MapStart(image, attempt)].record = HugeSector
    \/ \E i \in 1 .. MapZones(image, attempt) :
         LET p == MapPages(image, attempt)[i]
         IN  \/ p + image.page[MapStart(image, attempt)].record.sector > image.length
             \/ image.page[p].map = "Panic"

(***************************************************************************)
(* Parsing ends, also when it falls back to the other format.              *)
(***************************************************************************)
ParseEnds == <>(outcome # "none")

===============================================================================
