------------------------------- MODULE Directory -------------------------------
(***************************************************************************)
(* Directory::parse (lib/src/directory.rs): from the bytes of a directory  *)
(* to its entries and warnings, with the check byte.                       *)
(*                                                                         *)
(* Everything has its real size but the number of entries a directory has  *)
(* room for, which is 77 in the code.  The fields of an entry behind its   *)
(* name (load, exec, len, address, attributes) stay the bytes they are.    *)
(***************************************************************************)
EXTENDS PathText, FiniteSets

CONSTANT DIRECTORY_CAPACITY

ASSUME CapacityAssumption == DIRECTORY_CAPACITY \in Nat \ {0}

ENTRY_LENGTH == 26

\* "Hugo" and "Nick".
MagicStrings == {<<72, 117, 103, 111>>, <<78, 105, 99, 107>>}

EntryData(d, i) == SubSeq(d, 6 + (i - 1) * ENTRY_LENGTH, 5 + i * ENTRY_LENGTH)
TailData(d) ==
  SubSeq(d, 6 + DIRECTORY_CAPACITY * ENTRY_LENGTH, 46 + DIRECTORY_CAPACITY * ENTRY_LENGTH)

-----------------------------------------------------------------------------
(* DirHeader, DirEntry and DirTail *)

HeaderParses(d) == SubSeq(d, 2, 5) \in MagicStrings

DirEntry(data) ==
  [name   |-> ValidRange(SubSeq(data, 1, MAX_SEGMENT_LENGTH)),
   fields |-> SubSeq(data, MAX_SEGMENT_LENGTH + 1, ENTRY_LENGTH)]

\* Attributes::from_bits knows six bits.
HasInvalidAttr(e) == e.fields[Len(e.fields)] > 63

\* The last mark and the reserved bytes are 0.  The parent follows.
TailParses(t) ==
  /\ Len(t) = 41
  /\ SubSeq(t, 1, 3) = <<0, 0, 0>>
  /\ SubSeq(t, 37, 40) \in MagicStrings

TailName(t) == ValidRange(SubSeq(t, 26, 35))
EndSeqNum(t) == t[36]
CheckByte(t) == t[41]

-----------------------------------------------------------------------------
(* compute_checksum: the accumulator is the set of its bits *)

ByteBits(b) == {i \in 0 .. 7 : (b \div 2^i) % 2 = 1}

\* u32::from_le_bytes of a word, or a single byte.
WordBits(w) == UNION {{8 * (j - 1) + i : i \in ByteBits(w[j])} : j \in 1 .. Len(w)}

Xor(a, b) == (a \ b) \cup (b \ a)

RotateRight(a, n) == {(i + 32 - n) % 32 : i \in a}

Accumulate(a, w) == Xor(RotateRight(a, 13), WordBits(w))

\* as_chunks and as_rchunks: whole words, with the odd bytes behind or before.
Words(s, skip) == [k \in 1 .. Len(s) \div 4 |-> SubSeq(s, skip + 4 * k - 3, skip + 4 * k)]
Bytes(s) == [k \in 1 .. Len(s) |-> <<s[k]>>]
Odd(s) == Len(s) % 4

\* Mutant: the bytes that do not fill a word are left out.
WholeChunks(s) == Words(s, 0)

Chunks(s) == Words(s, 0) \o Bytes(SubSeq(s, Len(s) - Odd(s) + 1, Len(s)))

RChunks(s) == Bytes(SubSeq(s, 1, Odd(s))) \o Words(s, Odd(s))

\* The header and the entries that are kept, and the tail without its first
\* byte and its last word.
CheckedFront(d, count) == SubSeq(d, 1, 5 + count * ENTRY_LENGTH)
CheckedChunks(d, count) ==
  Chunks(CheckedFront(d, count)) \o RChunks(SubSeq(TailData(d), 2, 37))

\* The accumulator behind each chunk.
Accumulator(ws) ==
  LET a[k \in 0 .. Len(ws)] == IF k = 0 THEN {} ELSE Accumulate(a[k - 1], ws[k])
  IN  a

\* The four bytes of an accumulator, xor-ed into one.
BytesWith(a, i) == {j \in 0 .. 3 : i + 8 * j \in a}
FoldBytes(a) == {i \in 0 .. 7 : Cardinality(BytesWith(a, i)) % 2 = 1}

Checksum(d, count) ==
  LET ws == CheckedChunks(d, count)
  IN  FoldBytes(Accumulator(ws)[Len(ws)])

-----------------------------------------------------------------------------
(* Directory::parse *)

Slots == 1 .. DIRECTORY_CAPACITY

IsEmptySlot(d, i) == DirEntry(EntryData(d, i)).name = << >>

\* Mutant: entries behind an empty one are kept, in number at least.
CountNamed(d) == Cardinality({i \in Slots : ~IsEmptySlot(d, i)})

\* Entries are kept up to the first one without a name.
CountKept(d) ==
  CHOOSE n \in 0 .. DIRECTORY_CAPACITY :
    /\ \A i \in 1 .. n : ~IsEmptySlot(d, i)
    /\ n < DIRECTORY_CAPACITY => IsEmptySlot(d, n + 1)

InvalidAttr(name, slot) == [kind |-> "InvalidAttr", path |-> <<name>>, slot |-> slot]
SequenceNumberMismatch == [kind |-> "SequenceNumberMismatch", path |-> ROOT_PATH, slot |-> 0]
CheckByteFailure(name) == [kind |-> "CheckByteFailure", path |-> <<name>>, slot |-> 0]

\* Mutant: the attributes of every slot are tested.
AttrFaultsOfAll(d, count) ==
  {InvalidAttr(DirEntry(EntryData(d, i)).name, i) :
     i \in {j \in Slots : HasInvalidAttr(DirEntry(EntryData(d, j)))}}

AttrFaults(d, count) ==
  {InvalidAttr(DirEntry(EntryData(d, i)).name, i) :
     i \in {j \in 1 .. count : HasInvalidAttr(DirEntry(EntryData(d, j)))}}

\* Mutant: the sequence numbers are not compared.
AnySequence(d) == {}

SequenceFaults(d) ==
  IF d[1] # EndSeqNum(TailData(d)) THEN {SequenceNumberMismatch} ELSE {}

CheckFaults(d, count) ==
  IF Checksum(d, count) # ByteBits(CheckByte(TailData(d)))
    THEN {CheckByteFailure(TailName(TailData(d)))} ELSE {}

DirectoryError == [ok |-> FALSE, entries |-> << >>, faults |-> {}]

ParseDirectory(d) ==
  IF ~HeaderParses(d) \/ ~TailParses(TailData(d))
    THEN DirectoryError
    ELSE LET count == CountKept(d)
         IN  [ok      |-> TRUE,
              entries |-> [i \in 1 .. count |-> DirEntry(EntryData(d, i))],
              faults  |-> AttrFaults(d, count) \cup SequenceFaults(d)
                            \cup CheckFaults(d, count)]

===============================================================================
