-------------------------------- MODULE Listing --------------------------------
(***************************************************************************)
(* From the bytes of a root directory to a path and back: the directory is *)
(* read (lib/src/directory.rs), the tool ends if it has a warning, list    *)
(* prints the paths of its entries, and the user types one of these lines, *)
(* or something else, as the path to extract (cli/src/main.rs).  Directory *)
(* and PathText model the conversions; the entries are files, so that the  *)
(* root directory is the whole tree.                                       *)
(*                                                                         *)
(* The bytes that are read need not be bytes that were written: one of     *)
(* them may have changed, or a directory was replaced by a newer one of    *)
(* which only the front has reached the disc.                              *)
(***************************************************************************)
EXTENDS Directory

CONSTANT Sessions  \* records [written, read, text]: the directories that were
                   \* written, the bytes that are read, what the user may type

LENGTH == 46 + DIRECTORY_CAPACITY * ENTRY_LENGTH

DirectoryBytes == [1 .. LENGTH -> 0 .. 255]

\* No sign of damage to a directory as a whole is among the faults.
Harmless(fs) == \A f \in fs : f.kind = "InvalidAttr"

\* What a filing system writes.
Undamaged(w) ==
  LET parsed == ParseDirectory(w) IN parsed.ok /\ Harmless(parsed.faults)

OneByteMayDiffer(d, w) == \E i \in 1 .. LENGTH : \A j \in (1 .. LENGTH) \ {i} : d[j] = w[j]

\* Only the first n bytes of the new version have reached the disc.
PartlyWritten(d, old, new) ==
  \E n \in 0 .. LENGTH : \A j \in 1 .. LENGTH : d[j] = IF j <= n THEN new[j] ELSE old[j]

\* A path argument is a str: no continuation byte without a byte of its character
\* before it.
IsText(text) ==
  /\ text \in Seq(0 .. 255)
  /\ \A i \in 1 .. Len(text) : IsContinuation(text[i]) => i > 1 /\ text[i - 1] >= 128

\* A version has another sequence number than the one it replaces.
ASSUME SessionsAssumption ==
  \A s \in Sessions :
    /\ s.read \in DirectoryBytes
    /\ IsText(s.text)
    /\ \A w \in s.written : w \in DirectoryBytes /\ Undamaged(w)
    /\ \/ \E w \in s.written : s.written = {w} /\ OneByteMayDiffer(s.read, w)
       \/ \E old, new \in s.written :
            s.written = {old, new} /\ old[1] # new[1] /\ PartlyWritten(s.read, old, new)

VARIABLES
  session,
  stage,    \* start, read, failed (an error), panicked, listed or typed
  entries,  \* Directory.entries
  faults,   \* the warnings of the directory
  lines,    \* what list has printed
  typed,    \* the path argument of extract
  path      \* what try_from_str makes of it

vars == <<session, stage, entries, faults, lines, typed, path>>

Init ==
  /\ session \in Sessions
  /\ stage = "start"
  /\ entries = << >>
  /\ faults = {}
  /\ lines = {}
  /\ typed = << >>
  /\ path = NoPath

ReadDirectory ==
  /\ stage = "start"
  /\ LET parsed == ParseDirectory(session.read)
     IN  /\ stage' = IF parsed.ok THEN "read" ELSE "failed"
         /\ entries' = parsed.entries
         /\ faults' = parsed.faults
  /\ UNCHANGED <<session, lines, typed, path>>

\* main panics on any warning of parse.
Explode ==
  /\ stage = "read"
  /\ faults # {}
  /\ stage' = "panicked"
  /\ UNCHANGED <<session, entries, faults, lines, typed, path>>

\* The keys of the tree.
Keys == {ROOT_PATH} \cup {<<entries[i].name>> : i \in 1 .. Len(entries)}

\* NewMapDisk::entries for list, whose lines are printed with Display.
List ==
  /\ stage = "read"
  /\ faults = {}
  /\ stage' = "listed"
  /\ lines' = {PrintPath(k) : k \in Keys}
  /\ UNCHANGED <<session, entries, faults, typed, path>>

\* The next run's path argument.
Type(text) ==
  /\ stage = "listed"
  /\ stage' = "typed"
  /\ typed' = text
  /\ path' = TryFromStr(text)
  /\ UNCHANGED <<session, entries, faults, lines>>

Next ==
  \/ ReadDirectory
  \/ Explode
  \/ List
  \/ \E text \in lines \cup {session.text} : Type(text)

Spec == Init /\ [][Next]_vars

-----------------------------------------------------------------------------
(* Properties *)

(***************************************************************************)
(* Every variable has its type; the names of entries and of what was typed *)
(* have one to ten bytes.                                                  *)
(***************************************************************************)
TypeOK ==
  /\ stage \in {"start", "read", "failed", "panicked", "listed", "typed"}
  /\ Len(entries) <= DIRECTORY_CAPACITY
  /\ \A i \in 1 .. Len(entries) :
       /\ Len(entries[i].name) \in 1 .. MAX_SEGMENT_LENGTH
       /\ Len(entries[i].fields) = 16
  /\ path.ok => \A i \in 1 .. Len(path.path) :
                  Len(path.path[i]) \in 1 .. MAX_SEGMENT_LENGTH

\* The directory was read without a sign of damage to it as a whole.
Quiet == Harmless(faults)

(***************************************************************************)
(* A directory of which one byte has changed is an error, has a warning or *)
(* still has the entries that were written.  Only a change that moves the  *)
(* first empty name, and with it the end of what the check byte covers,    *)
(* may go unnoticed.                                                       *)
(***************************************************************************)
DamageIsNoticed ==
  stage = "read" /\ Quiet =>
    \A w \in session.written :
      LET old == ParseDirectory(w).entries
      IN  Cardinality(session.written) = 1 /\ Len(entries) = Len(old) => entries = old

(***************************************************************************)
(* A directory of which the front is new and the rest is old is an error   *)
(* or has a warning, unless it has the entries of one of the two: the      *)
(* sequence numbers at its ends tell, also when the check byte does not.   *)
(***************************************************************************)
TornWritesAreNoticed ==
  stage = "read" /\ Quiet /\ Cardinality(session.written) = 2 =>
    \E w \in session.written : entries = ParseDirectory(w).entries

\* The bytes that count: all but those of the slots behind the last entry, of
\* which the first one has an empty name.
SameButStaleSlots(d, w) ==
  LET end == 5 + CountKept(w) * ENTRY_LENGTH
  IN  /\ \A i \in 1 .. end : d[i] = w[i]
      /\ \A i \in LENGTH - 40 .. LENGTH : d[i] = w[i]
      /\ CountKept(w) < DIRECTORY_CAPACITY => IsControl(d[end + 1])

(***************************************************************************)
(* What deleted entries have left behind the last entry plays no part: it  *)
(* adds no entry and no warning and does not disturb the check byte.       *)
(***************************************************************************)
StaleSlotsPlayNoPart ==
  stage = "read" =>
    \A w \in session.written :
      SameButStaleSlots(session.read, w) =>
        LET parsed == ParseDirectory(w)
        IN  entries = parsed.entries /\ faults = parsed.faults

\* The places of the separators, and the segment behind one of them.
Dots(text) == {i \in 2 .. Len(text) : text[i] = DIR_SEPARATOR}

SegmentAfter(text, i) ==
  LET next == CHOOSE j \in i + 1 .. Len(text) + 1 :
                /\ j \in Dots(text) \cup {Len(text) + 1}
                /\ \A k \in i + 1 .. j - 1 : k \notin Dots(text)
  IN  SubSeq(text, i + 1, next - 1)

\* A path text: the root and one to ten allowed bytes behind every separator,
\* the last of which may have nothing behind it.
IsPathText(text) ==
  /\ text # << >> /\ text[1] = ROOT_SYMBOL
  /\ Len(text) > 1 => text[2] = DIR_SEPARATOR
  /\ \A i \in 2 .. Len(text) : i \in Dots(text) \/ ~EndsSegment(text[i])
  /\ \A i \in Dots(text) :
       i < Len(text) => Len(SegmentAfter(text, i)) \in 1 .. MAX_SEGMENT_LENGTH

\* No byte that ends a name on the disc.
HasNoTerminator(bytes) == \A i \in 1 .. Len(bytes) : ~IsControl(bytes[i])

(***************************************************************************)
(* try_from_str accepts nothing but path texts, and every path text that   *)
(* has no terminator in it; of what it accepts it finds the segments, all  *)
(* of them and in order, and every one without a terminator whole. What it *)
(* should do with the others is the subject of TerminatorsAreRefused.      *)
(***************************************************************************)
TextDenotesItsPath ==
  stage = "typed" =>
    /\ path.ok => IsPathText(typed)
    /\ IsPathText(typed) /\ HasNoTerminator(typed) => path.ok
    /\ path.ok =>
         LET starts == Dots(typed) \ {Len(typed)}
         IN  /\ Len(path.path) = Cardinality(starts)
             /\ \A i \in starts :
                  HasNoTerminator(SegmentAfter(typed, i)) =>
                    path.path[Cardinality({j \in starts : j <= i})]
                      = SegmentAfter(typed, i)

\* Printable ASCII that is neither forbidden nor escaped.
IsPlain(name) ==
  \A i \in 1 .. Len(name) : name[i] \in (32 .. 126) \ (FORBIDDEN_CHARS \cup {39, 92})

(***************************************************************************)
(* A listed line typed as the path to extract is the path of its entry if  *)
(* the entry's name is plain, and never otherwise: it is no path, or the   *)
(* path of something else.                                                 *)
(***************************************************************************)
PlainNamesReadBack ==
  stage = "typed" =>
    \A i \in 1 .. Len(entries) :
      typed = PrintPath(<<entries[i].name>>) =>
        (path = [ok |-> TRUE, path |-> <<entries[i].name>>]) = IsPlain(entries[i].name)

-----------------------------------------------------------------------------
(* What the documentation says and the code does not do *)

(***************************************************************************)
(* "any control character representing a terminator", says the type's      *)
(* comment (fixed_len_string.rs:16-18), and parse_from_byte_str "does stop *)
(* early should a terminator be encountered", "load-bearing for rejecting  *)
(* invalid Path values" (37-40): no text with a terminator in it is a path.*)
(* It stops at is_ascii_control (45); len cuts names at is_control (81),   *)
(* which the bytes 80 to 9F of UTF-8 text are too.                         *)
(***************************************************************************)
TerminatorsAreRefused ==
  stage = "typed" /\ path.ok => HasNoTerminator(typed)
===============================================================================
