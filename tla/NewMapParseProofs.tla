--------------------------- MODULE NewMapParseProofs ---------------------------
(***************************************************************************)
(* Proofs about NewMapParse, for every set of images, every position of    *)
(* the boot block, every format and both kinds of build.  IInv says what   *)
(* the attempt being made has found so far and what is known of the one    *)
(* before it; it is inductive and the invariants of the run follow.        *)
(***************************************************************************)
EXTENDS NewMapParse, SequenceTheorems, TLAPS

-----------------------------------------------------------------------------
(* The inductive invariant *)

\* Where the map of the attempt being made begins.
Begin == MapStart(image, attempt)

\* Format F has a boot block, the number of zones is its, and this build can
\* compute where the map begins.
BootRead ==
  attempt = "F" =>
    /\ image.length > BootPage
    /\ image.boot \notin Unparsed
    /\ zone_count = image.boot.num_zones
    /\ ~OffsetPanics(image.boot)

\* The warnings about the blocks read so far.
Warnings ==
  {ZoneCheckFailure(i - 1) :
     i \in {j \in 1 .. Len(blocks) : ~image.page[blocks[j]].check_holds}}
  \cup (IF attempt = "E" /\ image.page[0].cross_check # EXPECTED_CROSS_CHECK
          THEN {CrossCheckFailure} ELSE {})

\* The blocks read so far are whole, one behind the other from Begin on.
BlocksInOrder ==
  \A i \in 1 .. Len(blocks) :
    /\ blocks[i] = Begin + (i - 1) * record.sector
    /\ blocks[i] + record.sector <= image.length
    /\ image.page[blocks[i]].map = "Ok"

(***************************************************************************)
(* A first part of the map of the format that is being tried has been      *)
(* read: the record is that of its first page, and the stream stands       *)
(* behind the last block.                                                  *)
(***************************************************************************)
Found ==
  /\ BootRead
  /\ Begin < image.length
  /\ record = image.page[Begin].record
  /\ record \notin Unparsed
  /\ ~ParamsPanic(record)
  /\ blocks \in Seq(Nat)
  /\ Len(blocks) \in 1 .. MapZones(image, attempt)
  /\ BlocksInOrder
  /\ pos = Begin + Len(blocks) * record.sector
  /\ faults = Warnings

\* What the place in parse says of what has been read.
Progress ==
  /\ pc = "boot" => attempt = "F" /\ pos = 0
  /\ pc = "first" => BootRead /\ pos = Begin
  /\ pc = "zones" => Found
  /\ outcome = "Ok" => Found /\ Len(blocks) = MapZones(image, attempt)

(***************************************************************************)
(* What a failure says of the image: it holds no map of the format that    *)
(* was tried, or none that this build can read.                            *)
(***************************************************************************)
Failures ==
  /\ pc = "failed" \/ outcome \in {"Error", "BothFail"} => ~HoldsMap(image, attempt)
  /\ outcome = "Panic" => ~Finds(image, attempt)
  /\ outcome = "Error" => format # "Automatic"
  /\ outcome = "BothFail" => attempt = "F"
  /\ format # "Automatic" => attempt = format
  /\ format = "Automatic" /\ attempt = "F" => ~HoldsMap(image, "E")

IInv ==
  /\ image \in Images
  /\ TypeOK
  /\ Progress
  /\ Failures
  /\ PanicsAreExplained

-----------------------------------------------------------------------------
(* Images and their maps *)

\* The fields of a record, parsed or not.
LEMMA RecordTypes ==
  ASSUME NEW rec \in DiscRecord \cup Unparsed
  PROVE  /\ rec.num_zones \in Nat /\ rec.sector \in Nat
         /\ rec.first \in Nat /\ rec.zone \in Nat /\ rec.narrow \in BOOLEAN
         /\ rec.fits \in Nat
         /\ rec \notin Unparsed => rec \in DiscRecord /\ rec.sector > 0
<1>1. CASE rec \in DiscRecord
  BY <1>1 DEF DiscRecord
<1>2. CASE rec = NoRecord
  BY <1>2 DEF NoRecord, Unparsed
<1>3. CASE rec = HugeSector
  <2>1. /\ HugeSector.num_zones = 1 /\ HugeSector.sector = 0
        /\ HugeSector.first = 0 /\ HugeSector.zone = 0
        /\ HugeSector.narrow = FALSE /\ HugeSector.fits = 0
    BY DEF HugeSector, NoRecord
  <2>2. /\ rec.num_zones \in Nat /\ rec.sector \in Nat
        /\ rec.first \in Nat /\ rec.zone \in Nat /\ rec.fits \in Nat
    BY <1>3, <2>1
  <2>3. rec.narrow \in BOOLEAN
    BY <1>3, <2>1, Zenon
  <2>4. rec \in Unparsed
    BY <1>3 DEF Unparsed
  <2> QED BY <2>2, <2>3, <2>4
<1> QED BY <1>1, <1>2, <1>3 DEF Unparsed

\* The zones of a record begin at a natural number of pages.
LEMMA ZoneOffsetIsNat ==
  ASSUME NEW rec \in DiscRecord \cup Unparsed
  PROVE  ZoneOffset(rec, rec.num_zones \div 2) \in Nat
<1>1. PICK z \in Nat : z = rec.num_zones \div 2
  BY RecordTypes
<1>2. CASE z = 0
  BY <1>1, <1>2 DEF ZoneOffset
<1>3. CASE z # 0
  <2>1. z - 1 \in Nat /\ rec.zone \in Nat /\ rec.first \in Nat
    BY <1>1, <1>3, RecordTypes
  <2>2. (z - 1) * rec.zone \in Nat
    BY <2>1
  <2>3. (z - 1) * rec.zone + rec.first \in Nat
    BY <2>1, <2>2
  <2>4. ((z - 1) * rec.zone + rec.first) % UsizePages \in Nat
    BY <2>3, UsizeAssumption
  <2>5. ZoneOffset(rec, z) = ((z - 1) * rec.zone + rec.first) % UsizePages
    BY <1>3 DEF ZoneOffset
  <2> QED BY <1>1, <2>4, <2>5, Zenon
<1> QED BY <1>2, <1>3

\* What an image is made of.
LEMMA ImageTypes ==
  ASSUME NEW img \in Images, NEW f \in {"E", "F"}
  PROVE  /\ img.length \in Nat
         /\ img.boot \in DiscRecord \cup Unparsed
         /\ img.page \in [0 .. img.length - 1 -> Page]
         /\ MapStart(img, f) \in Nat
         /\ MapZones(img, f) \in Nat \ {0}
<1>1. /\ img.length \in Nat
      /\ img.boot \in DiscRecord \cup Unparsed
      /\ img.page \in [0 .. img.length - 1 -> Page]
  BY ImagesAssumption
<1>2. MapStart(img, f) \in Nat
  BY <1>1, ZoneOffsetIsNat DEF MapStart
<1>3. MapZones(img, f) \in Nat \ {0}
  BY <1>1, RecordTypes DEF MapZones
<1> QED BY <1>1, <1>2, <1>3

\* What a page of an image is made of.
LEMMA PageTypes ==
  ASSUME NEW img \in Images, NEW p \in Nat, p < img.length
  PROVE  /\ img.page[p].record \in DiscRecord \cup Unparsed
         /\ img.page[p].cross_check \in 0 .. 255
         /\ img.page[p].check_holds \in BOOLEAN
         /\ img.page[p].map \in {"Ok", "Error", "Panic"}
<1>1. img.length \in Nat /\ img.page \in [0 .. img.length - 1 -> Page]
  BY ImagesAssumption
<1>2. img.page[p] \in Page
  BY <1>1
<1> QED BY <1>2 DEF Page

\* The page of the i-th block of a map.
LEMMA MapPagesAt ==
  ASSUME NEW img, NEW f, NEW i \in 1 .. MapZones(img, f)
  PROVE  MapPages(img, f)[i] =
           MapStart(img, f) + (i - 1) * img.page[MapStart(img, f)].record.sector
BY DEF MapPages

\* A block that is not whole or not sound is missing from the map.
LEMMA BadBlock ==
  ASSUME NEW img, NEW f, NEW i \in 1 .. MapZones(img, f),
         \/ ~(MapPages(img, f)[i] + img.page[MapStart(img, f)].record.sector <= img.length)
         \/ img.page[MapPages(img, f)[i]].map # "Ok"
  PROVE  ~HoldsMap(img, f)
BY DEF HoldsMap

-----------------------------------------------------------------------------
(* The ways an attempt ends *)

\* The invariant holds before anything is read.
LEMMA InitIInv == Init => IInv
<1> SUFFICES ASSUME Init PROVE IInv
  OBVIOUS
<1>1. image.length \in Nat
  BY ImagesAssumption DEF Init
<1>2. TypeOK
  <2>1. /\ pos \in 0 .. image.length /\ zone_count \in Nat
        /\ \A i \in 1 .. Len(blocks) : blocks[i] \in 0 .. image.length - 1
        /\ faults \subseteq Fault /\ record \in DiscRecord \cup {NoRecord}
    BY <1>1 DEF Init
  <2> QED BY <2>1, FormatsAssumption DEF Init, TypeOK
<1>3. Progress
  BY DEF Init, Progress, BootRead, Begin, MapStart
<1>4. Failures
  BY FormatsAssumption DEF Init, Failures
<1>5. PanicsAreExplained
  BY DEF Init, PanicsAreExplained
<1> QED BY <1>2, <1>3, <1>4, <1>5 DEF IInv, Init

\* A failed attempt has shown that there is no map of its format.
LEMMA FailedAttempt ==
  ASSUME IInv, pc \in {"boot", "first", "zones"}, AttemptFails,
         ~HoldsMap(image, attempt)
  PROVE  IInv'
<1>1. /\ pc' = "failed" /\ outcome' = outcome /\ outcome = "none"
      /\ UNCHANGED <<overflow_checks, image, format, attempt, pos, zone_count, record,
                     blocks, faults>>
  BY DEF AttemptFails, input, IInv, TypeOK
<1>2. image' \in Images /\ TypeOK'
  BY <1>1 DEF IInv, TypeOK
<1>3. Progress'
  BY <1>1 DEF Progress
<1>4. ~HoldsMap(image', attempt')
  BY <1>1
<1>5. Failures'
  BY <1>1, <1>4 DEF IInv, Failures
<1>6. PanicsAreExplained'
  BY <1>1 DEF PanicsAreExplained
<1> QED BY <1>2, <1>3, <1>5, <1>6 DEF IInv

\* A panic has shown that there is no map that this build can read.
LEMMA PanickedAttempt ==
  ASSUME IInv, pc \in {"boot", "first", "zones"}, End("Panic"),
         ~Finds(image, attempt), PanicsAreExplained'
  PROVE  IInv'
<1>1. /\ pc' = "done" /\ outcome' = "Panic"
      /\ UNCHANGED <<overflow_checks, image, format, attempt, pos, zone_count, record,
                     blocks, faults>>
  BY DEF End, input
<1>2. image' \in Images /\ TypeOK'
  BY <1>1 DEF IInv, TypeOK
<1>3. Progress'
  BY <1>1 DEF Progress
<1>4. ~Finds(image, attempt)'
  BY <1>1 DEF Finds
<1>5. Failures'
  BY <1>1, <1>4 DEF IInv, Failures
<1> QED BY <1>2, <1>3, <1>5 DEF IInv

-----------------------------------------------------------------------------
(* get_boot_block and the way to the map *)

\* Reading the boot block, or failing to.
LEMMA BootStepsKeepIInv ==
  ASSUME IInv, BootPanics \/ BootFails \/ ReadBoot
  PROVE  IInv'
<1>1. /\ pc = "boot" /\ attempt = "F" /\ pos = 0
      /\ image \in Images /\ BootPage \in Nat
  BY BootPageAssumption DEF BootPanics, BootFails, ReadBoot, AtBoot, IInv, Progress
<1>2. /\ image.length \in Nat /\ image.boot \in DiscRecord \cup Unparsed
      /\ MapStart(image, "F") \in Nat
  BY <1>1, ImageTypes
<1>3. MapOffset = MapStart(image, "F") /\ MapOffset = Begin
  BY <1>1 DEF MapOffset, MapZone, MapStart, Begin
<1>4. CASE BootPanics
  <2>1. /\ End("Panic")
        /\ image.length > BootPage =>
             RecordPanics(image.boot) \/ OffsetPanics(image.boot)
    BY <1>4 DEF BootPanics
  <2>2. OffsetPanics(image.boot) => overflow_checks /\ Overflows(image, "F")
    BY DEF OffsetPanics, MapZone, Overflows
  <2>3. RecordPanics(image.boot) => overflow_checks /\ image.boot = HugeSector
    BY DEF RecordPanics
  <2>4. ~Finds(image, attempt)
    BY <1>1, <1>2, <2>1, <2>2, <2>3 DEF Finds, HoldsMap, Unparsed
  <2>5. PanicsAreExplained'
    <3>1. UNCHANGED <<overflow_checks, image, attempt>>
      BY <2>1 DEF End, input
    <3> QED BY <1>1, <1>2, <2>1, <2>2, <2>3, <3>1 DEF PanicsAreExplained
  <2> QED BY <1>1, <2>1, <2>4, <2>5, PanickedAttempt
<1>5. CASE BootFails
  <2>1. /\ AttemptFails
        /\ image.boot \in Unparsed \/ ~TakeSucceeds
    BY <1>5 DEF BootFails
  <2>2. ~HoldsMap(image, attempt)
    BY <1>1, <1>2, <1>3, <2>1 DEF HoldsMap, TakeSucceeds
  <2> QED BY <1>1, <2>1, <2>2, FailedAttempt
<1>6. CASE ReadBoot
  <2>1. /\ image.length > BootPage /\ image.boot \notin Unparsed
        /\ pos + MapOffset <= image.length /\ pos' = pos + MapOffset
        /\ zone_count' = image.boot.num_zones /\ pc' = "first"
        /\ ~OffsetPanics(image.boot)
        /\ UNCHANGED <<overflow_checks, image, format, attempt, record, blocks, faults,
                       outcome>>
    BY <1>6 DEF ReadBoot, TakeSucceeds, input
  <2>2. pos' = Begin' /\ pos' \in 0 .. image.length
    BY <1>1, <1>2, <1>3, <2>1 DEF Begin
  <2>3. zone_count' \in Nat
    BY <1>2, <2>1, RecordTypes
  <2>4. TypeOK'
    BY <1>1, <2>1, <2>2, <2>3 DEF IInv, TypeOK
  <2>5. Progress'
    <3>1. outcome' = "none"
      BY <1>1, <2>1 DEF IInv, TypeOK
    <3> QED BY <2>1, <2>2, <3>1 DEF Progress, BootRead, OffsetPanics, MapZone
  <2>6. Failures' /\ PanicsAreExplained'
    <3>1. outcome' = "none"
      BY <1>1, <2>1 DEF IInv, TypeOK
    <3> QED BY <2>1, <3>1 DEF IInv, Failures, PanicsAreExplained
  <2> QED BY <1>1, <2>1, <2>4, <2>5, <2>6 DEF IInv
<1> QED BY <1>4, <1>5, <1>6

-----------------------------------------------------------------------------
(* Reading a block *)

(***************************************************************************)
(* A block that makes parsing panic is one that cannot be read: it does    *)
(* not fit, the arithmetic of its record fails, or its map panics.  Here p *)
(* is the page of the i-th block of the map.                               *)
(***************************************************************************)
LEMMA BlockPanicKeepsIInv ==
  ASSUME IInv, pc \in {"first", "zones"}, End("Panic"),
         Begin < image.length,
         NEW i \in 1 .. MapZones(image, attempt),
         pos = MapPages(image, attempt)[i],
         BlockPanics(image.page[Begin].record)
  PROVE  IInv'
<1> DEFINE rec == image.page[Begin].record
<1>1. \/ pos + rec.sector > image.length
      \/ overflow_checks /\ rec.narrow
      \/ image.page[pos].map = "Panic"
  BY DEF BlockPanics, ParamsPanic, BlockIs
<1>2. pos \in Nat /\ image.length \in Nat /\ rec.sector \in Nat
  <2>1. image \in Images /\ attempt \in {"E", "F"} /\ pos \in 0 .. image.length
    BY DEF IInv, TypeOK
  <2>2. image.length \in Nat /\ Begin \in Nat
    BY <2>1, ImageTypes DEF Begin
  <2>3. rec.sector \in Nat
    BY <2>1, <2>2, PageTypes, RecordTypes
  <2> QED BY <2>1, <2>2, <2>3
<1>3. CASE overflow_checks /\ rec.narrow
  <2>1. Overflows(image, attempt)
    BY <1>3 DEF Overflows, Begin
  <2>2. ~Finds(image, attempt)
    BY <1>3, <2>1 DEF Finds
  <2>3. PanicsAreExplained'
    <3>1. UNCHANGED <<overflow_checks, image, attempt>>
      BY DEF End, input
    <3> QED BY <1>3, <2>1, <3>1 DEF PanicsAreExplained
  <2> QED BY <2>2, <2>3, PanickedAttempt
<1>4. CASE ~(overflow_checks /\ rec.narrow)
  <2>1. \/ pos + rec.sector > image.length
        \/ image.page[pos].map = "Panic"
    BY <1>1, <1>4
  <2>2. \/ ~(pos + rec.sector <= image.length)
        \/ image.page[pos].map # "Ok"
    BY <1>2, <2>1
  <2>3. ~HoldsMap(image, attempt)
    BY <2>2, BadBlock DEF Begin
  <2>4. PanicsAreExplained'
    <3>1. UNCHANGED <<overflow_checks, image, attempt>>
      BY DEF End, input
    <3> QED BY <2>1, <3>1 DEF PanicsAreExplained, Begin
  <2> QED BY <2>3, <2>4, PanickedAttempt DEF Finds
<1> QED BY <1>3, <1>4

\* The first block of a map begins where the map does.
LEMMA FirstPage ==
  ASSUME IInv, Begin < image.length
  PROVE  /\ 1 \in 1 .. MapZones(image, attempt)
         /\ MapPages(image, attempt)[1] = Begin
         /\ Begin \in Nat /\ image.length \in Nat
         /\ image.page[Begin].record \in DiscRecord \cup Unparsed
<1>1. image \in Images /\ attempt \in {"E", "F"}
  BY DEF IInv, TypeOK
<1>2. MapZones(image, attempt) \in Nat \ {0} /\ Begin \in Nat /\ image.length \in Nat
  BY <1>1, ImageTypes DEF Begin
<1>3. image.page[Begin].record \in DiscRecord \cup Unparsed
  BY <1>1, <1>2, PageTypes
<1>4. (1 - 1) * image.page[Begin].record.sector = 0
  BY <1>3, RecordTypes
<1>5. MapPages(image, attempt)[1] = Begin + (1 - 1) * image.page[Begin].record.sector
  BY <1>2, MapPagesAt DEF Begin
<1> QED BY <1>2, <1>3, <1>4, <1>5

\* A map block in which the disc record cannot be read.
LEMMA FirstBlockFailsKeepsIInv ==
  ASSUME IInv, FirstBlockFails \/ FirstBlockPanics
  PROVE  IInv'
<1>1. /\ pc = "first" /\ pos = Begin
      /\ image \in Images /\ attempt \in {"E", "F"}
  BY DEF FirstBlockFails, FirstBlockPanics, AtFirst, IInv, Progress, TypeOK
<1>2. ~HasRecord => ~HoldsMap(image, attempt)
  BY <1>1 DEF HasRecord, HoldsMap, Begin
<1>3. CASE FirstBlockFails
  <2>1. AttemptFails /\ (HasRecord => BlockIs(image.page[pos].record, "Error"))
    BY <1>3 DEF FirstBlockFails
  <2>2. ASSUME HasRecord PROVE ~HoldsMap(image, attempt)
    <3>1. Begin < image.length /\ image.page[Begin].map = "Error"
      BY <1>1, <2>1, <2>2 DEF HasRecord, BlockIs
    <3>2. 1 \in 1 .. MapZones(image, attempt) /\ MapPages(image, attempt)[1] = Begin
      BY <3>1, FirstPage
    <3> QED BY <3>1, <3>2, BadBlock
  <2> QED BY <1>1, <1>2, <2>1, <2>2, FailedAttempt
<1>4. CASE FirstBlockPanics
  <2>1. End("Panic")
    BY <1>4 DEF FirstBlockPanics
  <2>2. CASE HasRecord
    <3>1. Begin < image.length /\ BlockPanics(image.page[Begin].record)
      BY <1>1, <1>4, <2>2 DEF FirstBlockPanics, HasRecord
    <3>2. /\ 1 \in 1 .. MapZones(image, attempt)
          /\ pos = MapPages(image, attempt)[1]
      BY <1>1, <3>1, FirstPage
    <3> QED BY <1>1, <2>1, <3>1, <3>2, BlockPanicKeepsIInv
  <2>3. CASE ~HasRecord
    <3>1. overflow_checks /\ image.page[Begin].record = HugeSector
      BY <1>1, <1>4, <2>3 DEF FirstBlockPanics, RecordPanics
    <3>2. ~Finds(image, attempt)
      BY <1>2, <2>3 DEF Finds
    <3>3. PanicsAreExplained'
      <4>1. UNCHANGED <<overflow_checks, image, attempt>>
        BY <2>1 DEF End, input
      <4> QED BY <3>1, <4>1 DEF PanicsAreExplained, Begin
    <3> QED BY <1>1, <2>1, <3>2, <3>3, PanickedAttempt
  <2> QED BY <2>2, <2>3
<1> QED BY <1>3, <1>4

\* What a successful step of the loop leaves alone.
LEMMA StillReading ==
  ASSUME IInv, pc \in {"first", "zones"}, pc' = "zones",
         UNCHANGED <<overflow_checks, image, format, attempt, zone_count, outcome>>,
         record' \in DiscRecord, pos' \in 0 .. image.length,
         \A i \in 1 .. Len(blocks') : blocks'[i] \in 0 .. image.length - 1,
         faults' \subseteq Fault, Found'
  PROVE  IInv'
<1>1. outcome' = "none"
  BY DEF IInv, TypeOK
<1>2. TypeOK'
  BY <1>1 DEF IInv, TypeOK
<1>3. Progress'
  BY <1>1 DEF Progress
<1>4. Failures' /\ PanicsAreExplained'
  BY <1>1 DEF IInv, Failures, PanicsAreExplained
<1> QED BY <1>2, <1>3, <1>4 DEF IInv

\* A map block in which the disc record is read.
LEMMA FirstBlockKeepsIInv ==
  ASSUME IInv, FirstBlock
  PROVE  IInv'
<1> DEFINE rec == image.page[Begin].record
<1>0. BlockIs(rec, "Ok")
  BY DEF FirstBlock, AtFirst, IInv, Progress
<1>1. /\ pc = "first" /\ pos = Begin /\ BootRead
      /\ image \in Images /\ attempt \in {"E", "F"}
      /\ Begin < image.length /\ rec \notin Unparsed
      /\ Begin + rec.sector <= image.length /\ image.page[Begin].map = "Ok"
      /\ record' = rec /\ blocks' = <<Begin>> /\ pos' = Begin + rec.sector
      /\ faults' = TestChecksum(0) \cup CrossCheck /\ pc' = "zones"
      /\ UNCHANGED <<overflow_checks, image, format, attempt, zone_count, outcome>>
  BY DEF FirstBlock, AtFirst, IInv, Progress, TypeOK, HasRecord, BlockIs, input
<1>2. /\ 1 \in 1 .. MapZones(image, attempt) /\ Begin \in Nat /\ image.length \in Nat
      /\ rec \in DiscRecord /\ rec.sector \in Nat \ {0}
  BY <1>1, FirstPage, RecordTypes
<1>3. Begin' = Begin
  BY <1>1 DEF Begin
<1>4. blocks' \in Seq(Nat) /\ Len(blocks') = 1 /\ blocks'[1] = Begin
  BY <1>1, <1>2
<1>5. BlocksInOrder'
  <2>1. (1 - 1) * rec.sector = 0
    BY <1>2
  <2>2. Begin = Begin + (1 - 1) * rec.sector
    BY <1>2, <2>1
  <2>3. \A i \in 1 .. Len(blocks') : i = 1
    BY <1>4
  <2>4. /\ blocks'[1] = Begin' + (1 - 1) * record'.sector
        /\ blocks'[1] + record'.sector <= image'.length
        /\ image'.page[blocks'[1]].map = "Ok"
    BY <1>1, <1>3, <1>4, <2>2, Zenon
  <2> QED BY <2>3, <2>4, Zenon DEF BlocksInOrder
<1>6. pos' = Begin' + Len(blocks') * record'.sector
  <2>1. Begin + rec.sector = Begin + 1 * rec.sector
    BY <1>2
  <2> QED BY <1>1, <1>3, <1>4, <2>1, Zenon
<1>7. faults' = Warnings'
  <2> DEFINE bad == {j \in 1 .. 1 : ~image.page[<<Begin>>[j]].check_holds}
  <2>1. bad = IF image.page[Begin].check_holds THEN {} ELSE {1}
    OBVIOUS
  <2>2. {ZoneCheckFailure(i - 1) : i \in bad} = TestChecksum(0)
    BY <1>1, <2>1 DEF TestChecksum
  <2>3. CrossCheck = IF attempt = "E" /\ image.page[0].cross_check # EXPECTED_CROSS_CHECK
                       THEN {CrossCheckFailure} ELSE {}
    BY <1>1 DEF CrossCheck, Begin, MapStart
  <2> QED BY <1>1, <1>4, <2>2, <2>3 DEF Warnings
<1>8. Found'
  <2>1. BootRead'
    BY <1>1 DEF BootRead, OffsetPanics, MapZone
  <2>2. /\ Begin' < image'.length /\ record' = image'.page[Begin'].record
        /\ record' \notin Unparsed /\ Len(blocks') \in 1 .. MapZones(image', attempt')
    BY <1>1, <1>2, <1>3, <1>4
  <2>3. ~ParamsPanic(record)'
    <3>1. ~ParamsPanic(rec)
      BY <1>0 DEF BlockIs
    <3> QED BY <1>1, <3>1 DEF ParamsPanic
  <2> QED BY <1>4, <1>5, <1>6, <1>7, <2>1, <2>2, <2>3 DEF Found, ParamsPanic
<1>9. /\ pos' \in 0 .. image.length
      /\ \A i \in 1 .. Len(blocks') : blocks'[i] \in 0 .. image.length - 1
  BY <1>1, <1>2, <1>4
<1>10. faults' \subseteq Fault
  BY <1>1 DEF TestChecksum, CrossCheck, ZoneCheckFailure, CrossCheckFailure, Fault
<1> QED BY <1>1, <1>2, <1>8, <1>9, <1>10, StillReading

-----------------------------------------------------------------------------
(* The loop over the zones *)

\* Where the loop stands: at the next block of the map, which has one more.
LEMMA AtNextZone ==
  ASSUME IInv, AtZone
  PROVE  /\ image \in Images /\ attempt = "F" /\ Found
         /\ Len(blocks) \in Nat \ {0} /\ Begin \in Nat /\ image.length \in Nat
         /\ record = image.page[Begin].record /\ record \in DiscRecord
         /\ record.sector \in Nat \ {0}
         /\ Len(blocks) + 1 \in 1 .. MapZones(image, attempt)
         /\ pos = MapPages(image, attempt)[Len(blocks) + 1]
         /\ pos \in 0 .. image.length
<1>1. /\ image \in Images /\ attempt = "F" /\ Found /\ Len(blocks) < zone_count
      /\ pos \in 0 .. image.length
  BY DEF AtZone, IInv, Progress, TypeOK
<1>2. /\ Begin \in Nat /\ image.length \in Nat /\ MapZones(image, "F") \in Nat \ {0}
      /\ image.boot \in DiscRecord \cup Unparsed
  BY <1>1, ImageTypes DEF Begin
<1>3. /\ Begin < image.length /\ record = image.page[Begin].record
      /\ record \notin Unparsed /\ zone_count = image.boot.num_zones
      /\ Len(blocks) \in 1 .. MapZones(image, "F")
      /\ pos = Begin + Len(blocks) * record.sector
  BY <1>1 DEF Found, BootRead
<1>4. record \in DiscRecord /\ record.sector \in Nat \ {0}
  BY <1>1, <1>2, <1>3, PageTypes, RecordTypes
<1>5. image.boot.num_zones \in Nat
  BY <1>2, RecordTypes
<1>6. Len(blocks) \in Nat \ {0} /\ Len(blocks) + 1 \in 1 .. MapZones(image, "F")
  BY <1>1, <1>2, <1>3, <1>5 DEF MapZones
<1>7. MapPages(image, "F")[Len(blocks) + 1]
        = Begin + ((Len(blocks) + 1) - 1) * record.sector
  BY <1>1, <1>3, <1>6, MapPagesAt DEF Begin
<1>8. (Len(blocks) + 1) - 1 = Len(blocks)
  BY <1>6
<1> QED BY <1>1, <1>2, <1>3, <1>4, <1>6, <1>7, <1>8

\* A zone that does not parse.
LEMMA ZoneFailsKeepsIInv ==
  ASSUME IInv, ZoneFails \/ ZonePanics
  PROVE  IInv'
<1>1. AtZone /\ pc = "zones"
  BY DEF ZoneFails, ZonePanics, AtZone
<1>2. /\ Begin < image.length /\ record = image.page[Begin].record
      /\ Len(blocks) + 1 \in 1 .. MapZones(image, attempt)
      /\ pos = MapPages(image, attempt)[Len(blocks) + 1]
  BY <1>1, AtNextZone DEF Found
<1>3. CASE ZoneFails
  <2>1. AttemptFails /\ image.page[pos].map = "Error"
    BY <1>3 DEF ZoneFails, BlockIs
  <2>2. ~HoldsMap(image, attempt)
    BY <1>2, <2>1, BadBlock
  <2> QED BY <1>1, <2>1, <2>2, FailedAttempt
<1>4. CASE ZonePanics
  BY <1>1, <1>2, <1>4, BlockPanicKeepsIInv DEF ZonePanics
<1> QED BY <1>3, <1>4

\* One more block is read.
LEMMA ZoneKeepsIInv ==
  ASSUME IInv, Zone
  PROVE  IInv'
<1>1. /\ AtZone /\ pc = "zones" /\ pc' = pc
      /\ pos + record.sector <= image.length /\ image.page[pos].map = "Ok"
      /\ blocks' = Append(blocks, pos)
      /\ faults' = faults \cup TestChecksum(Len(blocks))
      /\ pos' = pos + record.sector
      /\ UNCHANGED <<overflow_checks, image, format, attempt, zone_count, record, outcome>>
  BY DEF Zone, AtZone, BlockIs, input
<1> DEFINE k == Len(blocks)
<1>2. /\ image \in Images /\ attempt = "F" /\ Found
      /\ k \in Nat \ {0} /\ Begin \in Nat /\ image.length \in Nat
      /\ record \in DiscRecord /\ record.sector \in Nat \ {0}
      /\ k + 1 \in 1 .. MapZones(image, attempt)
      /\ pos \in 0 .. image.length
  BY <1>1, AtNextZone
<1>3. Begin' = Begin
  BY <1>1 DEF Begin
<1>4. /\ blocks' \in Seq(Nat) /\ Len(blocks') = k + 1 /\ blocks'[k + 1] = pos
      /\ \A i \in 1 .. k : blocks'[i] = blocks[i]
  <2>1. blocks \in Seq(Nat) /\ pos \in Nat
    BY <1>2 DEF Found
  <2> QED BY <1>1, <2>1, AppendProperties
<1>5. pos = Begin + k * record.sector
  BY <1>2 DEF Found
<1> HIDE DEF k
<1>6. BlocksInOrder'
  <2> SUFFICES ASSUME NEW i \in 1 .. k + 1
               PROVE  /\ blocks'[i] = Begin + (i - 1) * record.sector
                      /\ blocks'[i] + record.sector <= image.length
                      /\ image.page[blocks'[i]].map = "Ok"
    BY <1>1, <1>3, <1>4, Zenon DEF BlocksInOrder
  <2>1. CASE i = k + 1
    <3>1. i - 1 = k
      BY <1>2, <2>1
    <3> QED BY <1>1, <1>4, <1>5, <2>1, <3>1, Zenon
  <2>2. CASE i # k + 1
    <3>1. i \in 1 .. k
      BY <1>2, <2>2
    <3>2. /\ blocks[i] = Begin + (i - 1) * record.sector
          /\ blocks[i] + record.sector <= image.length
          /\ image.page[blocks[i]].map = "Ok"
      BY <1>2, <3>1 DEF Found, BlocksInOrder, k
    <3> QED BY <1>4, <3>1, <3>2, Zenon
  <2> QED BY <2>1, <2>2
<1>7. pos' = Begin' + Len(blocks') * record'.sector
  <2>1. pos + record.sector = Begin + (k + 1) * record.sector
    BY <1>2, <1>5
  <2> QED BY <1>1, <1>3, <1>4, <2>1, Zenon
<1>8. faults' = Warnings'
  <2> DEFINE bad == {j \in 1 .. k : ~image.page[blocks[j]].check_holds}
             more == {j \in 1 .. k + 1 : ~image.page[blocks'[j]].check_holds}
             cross == IF attempt = "E" /\ image.page[0].cross_check # EXPECTED_CROSS_CHECK
                        THEN {CrossCheckFailure} ELSE {}
  <2>1. faults = {ZoneCheckFailure(i - 1) : i \in bad} \cup cross
    BY <1>2 DEF Found, Warnings, k
  <2>2. more = bad \cup (IF image.page[pos].check_holds THEN {} ELSE {k + 1})
    <3>1. \A j \in 1 .. k + 1 : j \in 1 .. k \/ j = k + 1
      BY <1>2
    <3>2. 1 .. k \subseteq 1 .. k + 1 /\ k + 1 \in 1 .. k + 1 /\ k + 1 \notin 1 .. k
      BY <1>2
    <3> QED BY <1>4, <3>1, <3>2
  <2>3. Warnings' = {ZoneCheckFailure(i - 1) : i \in more} \cup cross
    BY <1>1, <1>4 DEF Warnings
  <2>4. TestChecksum(k) = {ZoneCheckFailure(i - 1) :
                             i \in IF image.page[pos].check_holds THEN {} ELSE {k + 1}}
    <3>1. (k + 1) - 1 = k
      BY <1>2
    <3> QED BY <3>1 DEF TestChecksum
  <2>5. faults' = faults \cup TestChecksum(k)
    BY <1>1 DEF k
  <2> HIDE DEF bad, more, cross
  <2> QED BY <2>1, <2>2, <2>3, <2>4, <2>5
<1>9. Found'
  <2>1. BootRead'
    BY <1>1, <1>2 DEF Found, BootRead, OffsetPanics, MapZone
  <2>2. /\ Begin' < image'.length /\ record' = image'.page[Begin'].record
        /\ record' \notin Unparsed /\ Len(blocks') \in 1 .. MapZones(image', attempt')
    BY <1>1, <1>2, <1>3, <1>4 DEF Found
  <2>3. ~ParamsPanic(record)'
    BY <1>1, <1>2 DEF Found, ParamsPanic
  <2> QED BY <1>4, <1>6, <1>7, <1>8, <2>1, <2>2, <2>3 DEF Found, ParamsPanic
<1>10. /\ pos' \in 0 .. image.length
       /\ \A i \in 1 .. Len(blocks') : blocks'[i] \in 0 .. image.length - 1
  <2>1. pos + record.sector \in 0 .. image.length /\ pos \in 0 .. image.length - 1
    BY <1>1, <1>2
  <2>2. \A i \in 1 .. k : blocks[i] \in 0 .. image.length - 1
    BY DEF IInv, TypeOK, k
  <2>3. \A i \in 1 .. k + 1 : i \in 1 .. k \/ i = k + 1
    BY <1>2
  <2> QED BY <1>1, <1>4, <2>1, <2>2, <2>3
<1>11. faults' \subseteq Fault
  <2>1. ZoneCheckFailure(k) \in Fault
    BY <1>2 DEF ZoneCheckFailure, Fault
  <2> QED BY <1>1, <2>1 DEF IInv, TypeOK, TestChecksum, k
<1> QED BY <1>1, <1>2, <1>9, <1>10, <1>11, StillReading

\* All zones have parsed.
LEMMA MapCompleteKeepsIInv ==
  ASSUME IInv, MapComplete
  PROVE  IInv'
<1>1. /\ pc = "zones" /\ ~AtZone /\ Found /\ pc' = "done" /\ outcome' = "Ok"
      /\ image \in Images /\ attempt \in {"E", "F"}
      /\ UNCHANGED <<overflow_checks, image, format, attempt, pos, zone_count, record,
                     blocks, faults>>
  BY DEF MapComplete, End, input, IInv, Progress, TypeOK
<1>2. Len(blocks) = MapZones(image, attempt)
  <2>1. Len(blocks) \in 1 .. MapZones(image, attempt) /\ MapZones(image, attempt) \in Nat
    BY <1>1, ImageTypes DEF Found
  <2>2. CASE attempt = "E"
    BY <2>1, <2>2 DEF MapZones
  <2>3. CASE attempt = "F"
    <3>1. ~(Len(blocks) < zone_count) /\ zone_count = image.boot.num_zones
      BY <1>1, <2>3 DEF AtZone, Found, BootRead
    <3>2. image.boot.num_zones \in Nat
      BY <1>1, ImageTypes, RecordTypes
    <3>3. MapZones(image, attempt) =
            IF image.boot.num_zones = 0 THEN 1 ELSE image.boot.num_zones
      BY <2>3 DEF MapZones
    <3>4. ~(Len(blocks) < image.boot.num_zones)
      BY <3>1
    <3>5. CASE image.boot.num_zones = 0
      BY <2>1, <3>3, <3>5
    <3>6. CASE image.boot.num_zones # 0
      <4>1. MapZones(image, attempt) = image.boot.num_zones
        BY <3>3, <3>6
      <4>2. PICK n \in Nat, z \in Nat : n = Len(blocks) /\ z = image.boot.num_zones
        BY <2>1, <3>2
      <4>3. n \in 1 .. z /\ ~(n < z)
        BY <2>1, <3>4, <4>1, <4>2, Zenon
      <4>4. n = z
        BY <4>3
      <4> QED BY <4>1, <4>2, <4>4
    <3> QED BY <3>5, <3>6
  <2> QED BY <1>1, <2>2, <2>3
<1>3. Found'
  BY <1>1 DEF Found, BootRead, Begin, BlocksInOrder, Warnings, OffsetPanics, MapZone,
     ParamsPanic
<1>4. Progress'
  BY <1>1, <1>2, <1>3 DEF Progress
<1>5. TypeOK'
  BY <1>1 DEF IInv, TypeOK
<1>6. Failures' /\ PanicsAreExplained'
  BY <1>1 DEF IInv, Failures, PanicsAreExplained
<1> QED BY <1>1, <1>4, <1>5, <1>6 DEF IInv

-----------------------------------------------------------------------------
(* After a failed attempt *)

\* The attempt at format F begins with what the one at format E has shown.
LEMMA FallBackKeepsIInv ==
  ASSUME IInv, FallBack
  PROVE  IInv'
<1>1. /\ pc = "failed" /\ format = "Automatic" /\ attempt = "E"
      /\ attempt' = "F" /\ pc' = "boot" /\ pos' = 0 /\ outcome = "none"
      /\ UNCHANGED <<overflow_checks, image, format, zone_count, record, blocks, faults,
                     outcome>>
  BY DEF FallBack, input, IInv, TypeOK
<1>2. ~HoldsMap(image, "E") /\ image \in Images
  BY <1>1 DEF IInv, Failures
<1>3. TypeOK'
  <2>1. 0 \in 0 .. image.length
    BY <1>2, ImageTypes
  <2> QED BY <1>1, <2>1 DEF IInv, TypeOK
<1>4. Progress'
  BY <1>1 DEF Progress
<1>5. Failures' /\ PanicsAreExplained'
  BY <1>1, <1>2 DEF IInv, Failures, PanicsAreExplained
<1> QED BY <1>1, <1>2, <1>3, <1>4, <1>5 DEF IInv

\* A format is given up for good.
LEMMA GiveUpKeepsIInv ==
  ASSUME IInv, GiveUp
  PROVE  IInv'
<1>1. /\ pc = "failed" /\ (format = "Automatic" => attempt = "F")
      /\ pc' = "done" /\ outcome = "none"
      /\ outcome' = (IF format = "Automatic" THEN "BothFail" ELSE "Error")
      /\ UNCHANGED <<overflow_checks, image, format, attempt, pos, zone_count, record,
                     blocks, faults>>
  BY DEF GiveUp, End, input, IInv, TypeOK
<1>2. TypeOK'
  BY <1>1 DEF IInv, TypeOK
<1>3. Progress' /\ PanicsAreExplained'
  BY <1>1 DEF Progress, PanicsAreExplained
<1>4. ~HoldsMap(image', attempt')
  BY <1>1 DEF IInv, Failures
<1>5. Failures'
  BY <1>1, <1>4 DEF IInv, Failures
<1> QED BY <1>1, <1>2, <1>3, <1>5 DEF IInv

\* Every step of the parser keeps the invariant.
LEMMA NextKeepsIInv == IInv /\ [Next]_vars => IInv'
<1> SUFFICES ASSUME IInv, [Next]_vars PROVE IInv'
  OBVIOUS
<1>1. CASE UNCHANGED vars
  BY <1>1 DEF vars, input, IInv, TypeOK, Progress, Failures, PanicsAreExplained, Found,
     BootRead, Begin, BlocksInOrder, Warnings, Finds, OffsetPanics, MapZone, ParamsPanic
<1>2. CASE BootPanics \/ BootFails \/ ReadBoot
  BY <1>2, BootStepsKeepIInv
<1>3. CASE FirstBlockFails \/ FirstBlockPanics
  BY <1>3, FirstBlockFailsKeepsIInv
<1>4. CASE FirstBlock
  BY <1>4, FirstBlockKeepsIInv
<1>5. CASE ZoneFails \/ ZonePanics
  BY <1>5, ZoneFailsKeepsIInv
<1>6. CASE Zone
  BY <1>6, ZoneKeepsIInv
<1>7. CASE MapComplete
  BY <1>7, MapCompleteKeepsIInv
<1>8. CASE FallBack
  BY <1>8, FallBackKeepsIInv
<1>9. CASE GiveUp
  BY <1>9, GiveUpKeepsIInv
<1> QED BY <1>1, <1>2, <1>3, <1>4, <1>5, <1>6, <1>7, <1>8, <1>9 DEF Next

(***************************************************************************)
(* The strengthened invariant holds of every call of parse, on any image.  *)
(***************************************************************************)
THEOREM Inductive == Spec => []IInv
<1>1. Init => IInv
  BY InitIInv
<1>2. IInv /\ [Next]_vars => IInv'
  BY NextKeepsIInv
<1> QED BY <1>1, <1>2, PTL DEF Spec

-----------------------------------------------------------------------------
(* The properties that follow *)

\* Type correctness; the stream of NewMapDisk::parse stays inside the image.
THEOREM Typing == Spec => []TypeOK
<1>1. IInv => TypeOK
  BY DEF IInv
<1> QED BY <1>1, Inductive, PTL

\* The map that NewMapDisk::parse returns is the one of its format, whole and in
\* its place.
THEOREM RightMap == Spec => []MapIsWhereTheFormatSays
<1>1. IInv => MapIsWhereTheFormatSays
  <2> SUFFICES ASSUME IInv, outcome = "Ok"
               PROVE  /\ Finds(image, attempt)
                      /\ blocks = MapPages(image, attempt)
                      /\ record = image.page[MapStart(image, attempt)].record
    BY DEF MapIsWhereTheFormatSays
  <2>1. /\ Found /\ Len(blocks) = MapZones(image, attempt)
        /\ image \in Images /\ attempt \in {"E", "F"}
    BY DEF IInv, Progress, TypeOK
  <2> DEFINE n == MapZones(image, attempt)
  <2>2. /\ record = image.page[Begin].record /\ record \notin Unparsed
        /\ Begin < image.length /\ BootRead /\ blocks \in Seq(Nat)
        /\ \A i \in 1 .. n :
             /\ blocks[i] = Begin + (i - 1) * record.sector
             /\ blocks[i] + record.sector <= image.length
             /\ image.page[blocks[i]].map = "Ok"
    BY <2>1 DEF Found, BlocksInOrder
  <2>3. \A i \in 1 .. n : MapPages(image, attempt)[i] = blocks[i]
    <3> SUFFICES ASSUME NEW i \in 1 .. n PROVE MapPages(image, attempt)[i] = blocks[i]
      OBVIOUS
    <3>1. MapPages(image, attempt)[i]
            = Begin + (i - 1) * image.page[Begin].record.sector
      BY MapPagesAt DEF Begin
    <3> QED BY <2>2, <3>1
  <2>4. blocks = MapPages(image, attempt)
    <3>1. blocks = [i \in 1 .. n |-> blocks[i]]
      BY <2>1, <2>2
    <3>2. MapPages(image, attempt) = [i \in 1 .. n |-> MapPages(image, attempt)[i]]
      BY DEF MapPages
    <3> QED BY <2>3, <3>1, <3>2
  <2>5. HoldsMap(image, attempt)
    BY <2>2, <2>3 DEF HoldsMap, BootRead, Begin
  <2>6. ~(overflow_checks /\ Overflows(image, attempt))
    BY <2>1, <2>2 DEF Found, BootRead, Begin, Overflows, OffsetPanics, MapZone, ParamsPanic
  <2>7. Finds(image, attempt)
    BY <2>5, <2>6 DEF Finds
  <2> QED BY <2>2, <2>4, <2>7 DEF Begin
<1> QED BY <1>1, Inductive, PTL

\* The automatic mode prefers format E and misses no map of format F but through
\* a panic at the attempt before.
THEOREM AutomaticMode == Spec => []AutomaticFindsTheMap
<1>1. IInv => AutomaticFindsTheMap
  <2> SUFFICES ASSUME IInv, format = "Automatic"
               PROVE  /\ outcome = "Ok" /\ attempt = "F" => ~HoldsMap(image, "E")
                      /\ outcome \notin {"none", "Ok"} =>
                           /\ ~Finds(image, "E")
                           /\ Finds(image, "F") => outcome = "Panic" /\ attempt = "E"
    BY DEF AutomaticFindsTheMap
  <2>1. /\ attempt \in {"E", "F"}
        /\ outcome \in {"none", "Ok", "Error", "Panic", "BothFail"}
    BY DEF IInv, TypeOK
  <2>2. attempt = "F" => ~HoldsMap(image, "E") /\ ~Finds(image, "E")
    BY DEF IInv, Failures, Finds
  <2>3. CASE outcome = "Panic"
    <3>1. ~Finds(image, attempt)
      BY <2>3 DEF IInv, Failures
    <3> QED BY <2>1, <2>2, <2>3, <3>1
  <2>4. CASE outcome = "BothFail"
    <3>1. attempt = "F" /\ ~Finds(image, "F")
      BY <2>4 DEF IInv, Failures, Finds
    <3> QED BY <2>2, <2>4, <3>1
  <2>5. outcome # "Error"
    BY DEF IInv, Failures
  <2> QED BY <2>1, <2>2, <2>3, <2>4, <2>5
<1> QED BY <1>1, Inductive, PTL

\* The warnings of a map that is returned are those of its own zones.
THEOREM ExactWarnings == Spec => []DamagedZonesAreWarned
<1>1. IInv => DamagedZonesAreWarned
  BY DEF IInv, Progress, Found, Warnings, DamagedZonesAreWarned
<1> QED BY <1>1, Inductive, PTL

\* Parsing panics for the reasons that are listed and no other.
THEOREM ExplainedPanics == Spec => []PanicsAreExplained
<1>1. IInv => PanicsAreExplained
  BY DEF IInv
<1> QED BY <1>1, Inductive, PTL
==============================================================================
