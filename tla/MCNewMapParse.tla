---------------------------- MODULE MCNewMapParse ----------------------------
(***************************************************************************)
(* Small instances of NewMapParse: images of up to seven pages, the boot   *)
(* block in page 1, the map behind it, sectors of one or two pages, up to  *)
(* four zones of two pages each.                                           *)
(***************************************************************************)
EXTENDS NewMapParse

Rec(num_zones, sector) ==
  [num_zones |-> num_zones, sector |-> sector, first |-> 2, zone |-> 2,
   narrow |-> FALSE, fits |-> 127]

Narrow(rec) == [rec EXCEPT !.narrow = TRUE, !.fits = 0]

\* A power of two that wraps to zero: every zone begins where the image does.
ZeroUnit(rec) == [rec EXCEPT !.first = 0, !.zone = 0, !.fits = 0]

\* zone_spare leaves the first zone a page less than nothing, the others three.
Spare(rec) == [rec EXCEPT !.first = UsizePages - 1, !.zone = 3, !.fits = 0]

\* Zones so large that the sum of them wraps.
Vast(rec) == [rec EXCEPT !.zone = UsizePages - 1, !.fits = 1]

MakePage(rec, cross, holds, m) ==
  [record |-> rec, cross_check |-> cross, check_holds |-> holds, map |-> m]

\* A page of the map of a sound disc, and what may be wrong with one.
SoundPage(rec) == MakePage(rec, 255, TRUE, "Ok")
Damaged(rec) ==
  {SoundPage(rec), MakePage(rec, 255, FALSE, "Ok"), MakePage(rec, 255, TRUE, "Error"),
   MakePage(rec, 255, TRUE, "Panic"), MakePage(NoRecord, 255, TRUE, "Ok"),
   MakePage(HugeSector, 255, TRUE, "Ok")}

\* The page format E looks at.
Fronts ==
  {MakePage(NoRecord, 0, FALSE, "Error"), MakePage(HugeSector, 0, FALSE, "Error"),
   MakePage(Rec(1, 1), 255, TRUE, "Ok"), MakePage(Narrow(Rec(1, 1)), 255, TRUE, "Ok"),
   MakePage(Rec(1, 2), 7, FALSE, "Ok"), MakePage(Rec(1, 2), 255, TRUE, "Error"),
   MakePage(Rec(1, 1), 255, TRUE, "Panic")}

\* What the boot block may hold.
Boots ==
  {NoRecord, HugeSector, Rec(0, 1), Rec(3, 1), Rec(4, 2), Narrow(Rec(1, 1)),
   Narrow(Rec(3, 1)), ZeroUnit(Rec(2, 1)), Spare(Rec(4, 1)), Vast(Rec(3, 1)),
   Vast(Rec(4, 1))}

\* One page of the map may be damaged, and the boot block may disagree with it.
Image(n, boot, front, rec, bad, damage) ==
  [length |-> n, boot |-> boot,
   page |-> [p \in 0 .. n - 1 |->
               IF p = 0 THEN front ELSE IF p = bad THEN damage ELSE SoundPage(rec)]]

MCImages ==
  {Image(n, boot, front, Rec(3, 1), bad, damage) :
     n \in {0, 1, 2, 3, 5, 7}, boot \in Boots,
     front \in Fronts, bad \in {2, 3, 4}, damage \in Damaged(Rec(3, 1))}
  \cup
  {Image(n, Rec(2, 2), front, Rec(2, 2), bad, damage) :
     n \in {5, 6}, front \in Fronts, bad \in {2, 4}, damage \in Damaged(Rec(2, 2))}

MCBuilds == BOOLEAN

MCFormats == {"E", "F", "Automatic"}

==============================================================================
