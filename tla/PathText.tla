------------------------------- MODULE PathText -------------------------------
(***************************************************************************)
(* Paths as text: Path::try_from_str, which reads what a user typed, and   *)
(* Display, which prints a path (lib/src/filesystem/path.rs and            *)
(* fixed_len_string.rs).                                                   *)
(*                                                                         *)
(* A text is the sequence of its UTF-8 bytes.  Names on a disc are bytes   *)
(* of any kind, but names with characters of three or four UTF-8 bytes are *)
(* left out: the bytes E0 to FF are printed as single invalid ones.        *)
(***************************************************************************)
EXTENDS PathOrder

ROOT_SYMBOL == 36    \* $
DIR_SEPARATOR == 46  \* .

MAX_SEGMENT_LENGTH == 10

\* The bytes of $%&*#@"|^.:
FORBIDDEN_CHARS == {36, 37, 38, 42, 35, 64, 34, 124, 94, 46, 58}

\* is_ascii_control is narrower than IsControl, with which names are cut.
IsAsciiControl(c) == c < 32 \/ c = 127

EndsSegment(c) == IsAsciiControl(c) \/ c \in FORBIDDEN_CHARS

NoPath == [ok |-> FALSE, path |-> ROOT_PATH]

-----------------------------------------------------------------------------
(* Path::from_bytes *)

\* The first byte from p on that cannot belong to a name, or the text's end.
NextEndChar(text, p) ==
  CHOOSE e \in p .. Len(text) + 1 :
    /\ e <= Len(text) => EndsSegment(text[e])
    /\ \A i \in p .. e - 1 : ~EndsSegment(text[i])

\* Mutant: a name that is too long is read up to the next separator.
UnboundedLength(text, p) == NextEndChar(text, p) - p

\* FixedLenString::parse_from_byte_str at p: the bytes it takes, 0 if it fails.
SegmentLength(text, p) ==
  IF NextEndChar(text, p) - p > MAX_SEGMENT_LENGTH
    THEN MAX_SEGMENT_LENGTH ELSE NextEndChar(text, p) - p

\* A separator with a segment behind it.
SegmentAt(text, p) ==
  /\ p <= Len(text)
  /\ text[p] = DIR_SEPARATOR
  /\ SegmentLength(text, p + 1) # 0

\* Where the parser stands behind each segment: a separator without a segment
\* behind it is not consumed.
Stops(text) ==
  LET stop[k \in 0 .. Len(text)] ==
        CASE k = 0 -> 2
          [] k > 0 /\ SegmentAt(text, stop[k - 1]) ->
               stop[k - 1] + 1 + SegmentLength(text, stop[k - 1] + 1)
          [] OTHER -> stop[k - 1]
  IN  stop

CountSegments(text) ==
  CHOOSE n \in 0 .. Len(text) :
    /\ \A k \in 0 .. n - 1 : SegmentAt(text, Stops(text)[k])
    /\ ~SegmentAt(text, Stops(text)[n])

\* Path::try_from_str: the root, segments, and maybe one separator more.
TryFromStr(text) ==
  IF text = << >> \/ Head(text) # ROOT_SYMBOL
    THEN NoPath
    ELSE LET stop == Stops(text)
             n == CountSegments(text)
         IN  IF SubSeq(text, stop[n], Len(text)) \in {<< >>, <<DIR_SEPARATOR>>}
               THEN [ok   |-> TRUE,
                     path |-> [k \in 1 .. n |->
                                 ValidRange(SubSeq(text, stop[k - 1] + 1, stop[k] - 1))]]
               ELSE NoPath

-----------------------------------------------------------------------------
(* Display *)

REPLACEMENT == 65533

IsLead(c) == c \in 194 .. 223
IsContinuation(c) == c \in 128 .. 191

HexDigit(d) == IF d < 10 THEN 48 + d ELSE 87 + d

Places == <<4096, 256, 16, 1>>

\* The digits of a number below 65536, from its first place on.
Hex(n) ==
  LET first == CHOOSE f \in 1 .. 4 : /\ \A g \in 1 .. f - 1 : n < Places[g]
                                     /\ f < 4 => n >= Places[f]
  IN  [k \in 1 .. 5 - first |-> HexDigit((n \div Places[first + k - 1]) % 16)]

\* str::escape_default of a character: quotes and the backslash are escaped, and
\* what is not ASCII is printed as \u{..}.  A name has no control characters.
EscapeDefault(c) ==
  CASE c \in {34, 39, 92} -> <<92, c>>
    [] c > 126 -> <<92, 117, 123>> \o Hex(c) \o <<125>>
    [] OTHER -> <<c>>

\* The second byte of a character.
IsSecond(name, i) ==
  /\ i \in 2 .. Len(name)
  /\ IsLead(name[i - 1])
  /\ IsContinuation(name[i])

\* String::from_utf8_lossy: the character whose first byte is at i.
Character(name, i) ==
  CASE name[i] < 128 -> name[i]
    [] name[i] >= 128 /\ IsSecond(name, i + 1) -> (name[i] - 192) * 64 + name[i + 1] - 128
    [] OTHER -> REPLACEMENT

\* What is printed at a byte: the character that begins with it, escaped.
Printed(name, i) ==
  IF IsSecond(name, i) THEN << >> ELSE EscapeDefault(Character(name, i))

\* Mutant: names are printed as they are.
PrintVerbatim(name) == name

\* FixedLenString's Display.
PrintName(name) ==
  LET upTo[i \in 0 .. Len(name)] ==
        IF i = 0 THEN << >> ELSE upTo[i - 1] \o Printed(name, i)
  IN  upTo[Len(name)]

\* Path's Display.
PrintPath(path) ==
  LET Segment[i \in 0 .. Len(path)] ==
        IF i = 0 THEN <<ROOT_SYMBOL>>
                 ELSE Segment[i - 1] \o <<DIR_SEPARATOR>> \o PrintName(path[i])
  IN  Segment[Len(path)]

===============================================================================
