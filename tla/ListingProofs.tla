----------------------------- MODULE ListingProofs -----------------------------
(***************************************************************************)
(* Proofs about Listing, for directories with room for any number of       *)
(* entries, for whatever has become of their bytes and for whatever text   *)
(* is typed: what the check byte and the sequence numbers notice, that     *)
(* what deleted entries have left behind plays no part, which path a text  *)
(* denotes, and which of the names that are listed can be typed.           *)
(***************************************************************************)
EXTENDS Listing, SequenceTheorems, FiniteSetTheorems, WellFoundedInduction, TLAPS

Byte == 0 .. 255
C == DIRECTORY_CAPACITY

-----------------------------------------------------------------------------
(* Recursive functions on the positions of a sequence *)

\* A set of numbers has a least one.
LEMMA LeastOf ==
  ASSUME NEW T, T \subseteq Nat, T # {}
  PROVE  \E n \in T : \A m \in T : n <= m
<1>1. PICK n \in T : \A m \in T : ~(<<m, n>> \in OpToRel(<, Nat))
  BY NatLessThanWellFounded, WFMin
<1>2. \A m \in T : ~(m < n)
  <2>1. \A m \in T : m \in Nat
    OBVIOUS
  <2> QED BY <1>1, <2>1, Zenon DEF OpToRel
<1> QED BY <1>2

\* f begins with b, and g makes of each of its values the next one, up to n.
Iterates(f, b, g, n) ==
  /\ f[0] = b
  /\ \A k \in 1 .. n : f[k] = g[k][f[k - 1]]

\* Whatever is made step by step exists.
LEMMA Iteration ==
  ASSUME NEW n \in Nat, NEW S, NEW b \in S, NEW g \in [1 .. n -> [S -> S]]
  PROVE  \E f \in [0 .. n -> S] : Iterates(f, b, g, n)
<1> DEFINE Bad == {m \in 0 .. n : ~\E f \in [0 .. m -> S] : Iterates(f, b, g, m)}
<1>1. Bad = {}
  <2> SUFFICES ASSUME Bad # {} PROVE FALSE
    OBVIOUS
  <2>1. Bad \subseteq Nat /\ Bad # {}
    OBVIOUS
  <2>2. PICK m \in Bad : \A l \in Bad : m <= l
    BY <2>1, LeastOf, Zenon
  <2>3. m # 0
    <3>1. [k \in 0 .. 0 |-> b] \in [0 .. 0 -> S] /\ Iterates([k \in 0 .. 0 |-> b], b, g, 0)
      BY DEF Iterates
    <3> QED BY <2>2, <3>1
  <2>4. m \in 1 .. n /\ m - 1 \in 0 .. n /\ m - 1 < m
    BY <2>2, <2>3
  <2>5. PICK f \in [0 .. m - 1 -> S] : Iterates(f, b, g, m - 1)
    BY <2>2, <2>4
  <2> DEFINE e == [k \in 0 .. m |-> IF k = m THEN g[m][f[m - 1]] ELSE f[k]]
  <2>6. e \in [0 .. m -> S]
    BY <2>4, <2>5
  <2>7. Iterates(e, b, g, m)
    <3>1. e[0] = b
      BY <2>4, <2>5 DEF Iterates
    <3>2. ASSUME NEW k \in 1 .. m PROVE e[k] = g[k][e[k - 1]]
      <4>1. k - 1 \in 0 .. m /\ k - 1 # m /\ k \in 0 .. m
        BY <2>4
      <4>2. e[k - 1] = f[k - 1]
        BY <4>1
      <4>3. CASE k = m
        BY <4>1, <4>2, <4>3
      <4>4. CASE k # m
        <5>1. k \in 1 .. m - 1
          BY <2>4, <4>4
        <5> QED BY <2>5, <4>1, <4>2, <4>4, <5>1 DEF Iterates
      <4> QED BY <4>3, <4>4
    <3> HIDE DEF e
    <3> QED BY <3>1, <3>2 DEF Iterates
  <2> QED BY <2>2, <2>6, <2>7
<1> QED BY <1>1

\* What is made step by step stays in a set that the steps do not leave.
LEMMA IterationStays ==
  ASSUME NEW n \in Nat, NEW S, NEW f, f[0] \in S,
         \A k \in 1 .. n : f[k - 1] \in S => f[k] \in S
  PROVE  \A k \in 0 .. n : f[k] \in S
<1> DEFINE Bad == {m \in 0 .. n : f[m] \notin S}
<1>1. Bad = {}
  <2> SUFFICES ASSUME Bad # {} PROVE FALSE
    OBVIOUS
  <2>1. Bad \subseteq Nat /\ Bad # {}
    OBVIOUS
  <2>2. PICK m \in Bad : \A l \in Bad : m <= l
    BY <2>1, LeastOf, Zenon
  <2>3. m # 0
    BY <2>2
  <2>4. m \in 1 .. n /\ m - 1 \in 0 .. n /\ m - 1 < m
    BY <2>2, <2>3
  <2>5. f[m - 1] \in S
    BY <2>2, <2>4
  <2> QED BY <2>2, <2>4, <2>5
<1> QED BY <1>1

\* What holds of 0 and passes from each number to the next one holds up to n.
LEMMA StepByStep ==
  ASSUME NEW n \in Nat, NEW T, 0 \in T, \A k \in 1 .. n : k - 1 \in T => k \in T
  PROVE  \A k \in 0 .. n : k \in T
<1> DEFINE f == [k \in 0 .. n |-> k]
<1>1. \A k \in 0 .. n : f[k] = k
  OBVIOUS
<1>2. \A k \in 1 .. n : k \in 0 .. n /\ k - 1 \in 0 .. n
  OBVIOUS
<1>3. 0 \in 0 .. n
  OBVIOUS
<1> HIDE DEF f
<1>4. f[0] \in T /\ \A k \in 1 .. n : f[k - 1] \in T => f[k] \in T
  BY <1>1, <1>2, <1>3
<1>5. \A k \in 0 .. n : f[k] \in T
  BY <1>4, IterationStays
<1> QED BY <1>1, <1>5

-----------------------------------------------------------------------------
(* The parts of a directory *)

\* The room in a directory and its length.
LEMMA Sizes ==
  C \in Nat \ {0} /\ LENGTH = 46 + C * 26 /\ LENGTH \in Nat
BY CapacityAssumption DEF C, LENGTH, ENTRY_LENGTH

\* The bytes of a directory.
LEMMA BytesOf ==
  ASSUME NEW d \in DirectoryBytes
  PROVE  \A i \in 1 .. LENGTH : d[i] \in Byte
BY Sizes DEF DirectoryBytes, Byte

\* A part of a directory has the bytes of the directory.
LEMMA PartOf ==
  ASSUME NEW d \in DirectoryBytes, NEW m \in 1 .. LENGTH, NEW n \in m .. LENGTH
  PROVE  /\ SubSeq(d, m, n) \in Seq(Byte)
         /\ Len(SubSeq(d, m, n)) = n - m + 1
         /\ \A k \in 1 .. n - m + 1 : SubSeq(d, m, n)[k] = d[m + k - 1]
<1>1. m \in Int /\ n \in Int /\ m <= n
  BY Sizes
<1>2. \A i \in m .. n : d[i] \in Byte
  BY BytesOf, Sizes
<1> QED BY <1>1, <1>2, SubSeqProperties

\* A part of a directory is the same in another one that has the same bytes there.
LEMMA SamePart ==
  ASSUME NEW d \in DirectoryBytes, NEW w \in DirectoryBytes,
         NEW m \in 1 .. LENGTH, NEW n \in m .. LENGTH,
         \A j \in m .. n : d[j] = w[j]
  PROVE  SubSeq(d, m, n) = SubSeq(w, m, n)
<1> DEFINE s == SubSeq(d, m, n)
           t == SubSeq(w, m, n)
<1>1. /\ s \in Seq(Byte) /\ t \in Seq(Byte)
      /\ Len(s) = n - m + 1 /\ Len(t) = n - m + 1
      /\ \A k \in 1 .. n - m + 1 : s[k] = d[m + k - 1] /\ t[k] = w[m + k - 1]
  BY PartOf
<1>2. \A k \in 1 .. n - m + 1 : m + k - 1 \in m .. n
  BY Sizes
<1> HIDE DEF s, t
<1>3. \A k \in 1 .. Len(s) : s[k] = t[k]
  BY <1>1, <1>2
<1>4. s = t
  BY <1>1, <1>3, SeqEqual
<1> QED BY <1>4 DEF s, t

\* The bytes of an entry lie where the entries before it end.
LEMMA SlotPlace ==
  ASSUME NEW i \in 1 .. C
  PROVE  /\ 6 + (i - 1) * 26 \in 1 .. LENGTH
         /\ 5 + i * 26 \in 6 + (i - 1) * 26 .. LENGTH
         /\ 5 + i * 26 < LENGTH - 40
         /\ (5 + i * 26) - (6 + (i - 1) * 26) + 1 = 26
<1>1. i \in Nat /\ i >= 1 /\ i <= C /\ C \in Nat
  BY Sizes
<1> QED BY <1>1, Sizes

\* Entries are the same in two directories that agree on their bytes.
LEMMA SameSlots ==
  ASSUME NEW d \in DirectoryBytes, NEW w \in DirectoryBytes, NEW n \in 0 .. C,
         \A j \in 6 .. 5 + n * 26 : d[j] = w[j]
  PROVE  \A i \in 1 .. n : EntryData(d, i) = EntryData(w, i)
<1> SUFFICES ASSUME NEW i \in 1 .. n PROVE EntryData(d, i) = EntryData(w, i)
  OBVIOUS
<1>1. n \in Nat /\ n <= C /\ i \in Nat /\ 1 <= i /\ i <= n /\ i \in 1 .. C
  BY Sizes
<1>2. 6 + (i - 1) * 26 \in 1 .. LENGTH /\ 5 + i * 26 \in 6 + (i - 1) * 26 .. LENGTH
  BY <1>1, SlotPlace
<1>3. \A j \in 6 + (i - 1) * 26 .. 5 + i * 26 : j \in 6 .. 5 + n * 26
  BY <1>1
<1>4. \A j \in 6 + (i - 1) * 26 .. 5 + i * 26 : d[j] = w[j]
  BY <1>3
<1> QED BY <1>2, <1>4, SamePart DEF EntryData, ENTRY_LENGTH

\* The tail is the last 41 bytes.
LEMMA TailBytes ==
  ASSUME NEW d \in DirectoryBytes
  PROVE  /\ TailData(d) \in Seq(Byte)
         /\ Len(TailData(d)) = 41
         /\ \A k \in 1 .. 41 : TailData(d)[k] = d[LENGTH - 41 + k]
<1> DEFINE m == 6 + C * 26
           n == 46 + C * 26
<1>1. m \in 1 .. LENGTH /\ n \in m .. LENGTH /\ n - m + 1 = 41 /\ m = LENGTH - 40
  BY Sizes
<1>2. TailData(d) = SubSeq(d, m, n)
  BY DEF TailData, ENTRY_LENGTH, C
<1> HIDE DEF m, n
<1>3. /\ SubSeq(d, m, n) \in Seq(Byte) /\ Len(SubSeq(d, m, n)) = n - m + 1
      /\ \A k \in 1 .. n - m + 1 : SubSeq(d, m, n)[k] = d[m + k - 1]
  BY <1>1, PartOf
<1>4. \A k \in 1 .. 41 : m + k - 1 = LENGTH - 41 + k
  BY <1>1, Sizes
<1>5. TailData(d) \in Seq(Byte) /\ Len(TailData(d)) = 41
  BY <1>1, <1>2, <1>3, Zenon
<1>6. \A k \in 1 .. 41 : TailData(d)[k] = d[m + k - 1]
  BY <1>1, <1>2, <1>3, Zenon
<1> QED BY <1>4, <1>5, <1>6

\* Two directories that agree on the last 41 bytes have the same tail.
LEMMA SameTail ==
  ASSUME NEW d \in DirectoryBytes, NEW w \in DirectoryBytes,
         \A j \in LENGTH - 40 .. LENGTH : d[j] = w[j]
  PROVE  TailData(d) = TailData(w)
<1>1. 6 + C * 26 \in 1 .. LENGTH /\ 46 + C * 26 \in 6 + C * 26 .. LENGTH
  BY Sizes
<1>2. \A j \in 6 + C * 26 .. 46 + C * 26 : d[j] = w[j]
  BY Sizes
<1> QED BY <1>1, <1>2, SamePart DEF TailData, ENTRY_LENGTH, C

\* Two directories that agree on the magic string have a header or none.
LEMMA SameHeader ==
  ASSUME NEW d \in DirectoryBytes, NEW w \in DirectoryBytes,
         \A j \in 2 .. 5 : d[j] = w[j]
  PROVE  HeaderParses(d) = HeaderParses(w)
<1>1. 2 \in 1 .. LENGTH /\ 5 \in 2 .. LENGTH
  BY Sizes
<1> QED BY <1>1, SamePart DEF HeaderParses

-----------------------------------------------------------------------------
(* Which entries are kept *)

\* n entries have a name, and there is no room for another or its name is empty.
IsCount(d, n) ==
  /\ n \in 0 .. C
  /\ \A i \in 1 .. n : ~IsEmptySlot(d, i)
  /\ n < C => IsEmptySlot(d, n + 1)

\* The number of entries kept.
LEMMA Kept ==
  ASSUME NEW d
  PROVE  IsCount(d, CountKept(d))
<1> DEFINE Ends == {n \in 0 .. C : n < C => IsEmptySlot(d, n + 1)}
<1>1. C \in Ends /\ Ends \subseteq Nat
  BY Sizes
<1>2. PICK n \in Ends : \A m \in Ends : n <= m
  BY <1>1, LeastOf
<1>3. ASSUME NEW i \in 1 .. n, IsEmptySlot(d, i) PROVE FALSE
  <2>1. n \in Nat /\ n <= C /\ i - 1 \in 0 .. C /\ i - 1 < n /\ (i - 1) + 1 = i
    BY Sizes
  <2>2. i - 1 \in Ends
    BY <1>3, <2>1
  <2>3. n <= i - 1
    BY <1>2, <2>2
  <2> QED BY <2>1, <2>3
<1>4. IsCount(d, n)
  BY <1>2, <1>3 DEF IsCount
<1>5. CountKept(d) = CHOOSE m \in 0 .. C : IsCount(d, m)
  BY DEF CountKept, IsCount, C
<1> QED BY <1>4, <1>5 DEF IsCount

\* No other number is that of the entries kept.
LEMMA OneCount ==
  ASSUME NEW d, NEW n, IsCount(d, n)
  PROVE  CountKept(d) = n
<1> DEFINE k == CountKept(d)
<1>1. IsCount(d, k)
  BY Kept
<1> HIDE DEF k
<1>2. n \in Nat /\ k \in Nat /\ n <= C /\ k <= C
  BY <1>1, Sizes DEF IsCount
<1>3. ~(k < n)
  <2> SUFFICES ASSUME k < n PROVE FALSE
    OBVIOUS
  <2>1. k + 1 \in 1 .. n /\ k < C
    BY <1>2, Sizes
  <2> QED BY <1>1, <2>1 DEF IsCount
<1>4. ~(n < k)
  <2> SUFFICES ASSUME n < k PROVE FALSE
    OBVIOUS
  <2>1. n + 1 \in 1 .. k /\ n < C
    BY <1>2, Sizes
  <2> QED BY <1>1, <2>1 DEF IsCount
<1>5. k = n
  BY <1>2, <1>3, <1>4
<1> QED BY <1>5 DEF k


-----------------------------------------------------------------------------
(* What is parsed *)

EntriesOf(d, n) == [i \in 1 .. n |-> DirEntry(EntryData(d, i))]

\* What parse returns of a directory that is none or of one that is.
LEMMA Parsed ==
  ASSUME NEW d
  PROVE  /\ ParseDirectory(d).ok <=> HeaderParses(d) /\ TailParses(TailData(d))
         /\ ~ParseDirectory(d).ok => ParseDirectory(d) = DirectoryError
         /\ ParseDirectory(d).ok =>
              ParseDirectory(d) =
                [ok      |-> TRUE,
                 entries |-> EntriesOf(d, CountKept(d)),
                 faults  |-> AttrFaults(d, CountKept(d)) \cup SequenceFaults(d)
                               \cup CheckFaults(d, CountKept(d))]
<1>1. CASE HeaderParses(d) /\ TailParses(TailData(d))
  BY <1>1 DEF ParseDirectory, EntriesOf
<1>2. CASE ~(HeaderParses(d) /\ TailParses(TailData(d)))
  BY <1>2 DEF ParseDirectory, DirectoryError
<1> QED BY <1>1, <1>2

\* The length of what is kept is the number of entries.
LEMMA KeptEntries ==
  ASSUME NEW d, ParseDirectory(d).ok
  PROVE  /\ ParseDirectory(d).entries = EntriesOf(d, CountKept(d))
         /\ Len(ParseDirectory(d).entries) = CountKept(d)
<1>1. ParseDirectory(d).entries = EntriesOf(d, CountKept(d))
  BY Parsed
<1>2. CountKept(d) \in Nat
  BY Kept, Sizes DEF IsCount
<1>3. Len(EntriesOf(d, CountKept(d))) = CountKept(d)
  BY <1>2 DEF EntriesOf
<1> QED BY <1>1, <1>3

\* Entries are the same in two directories that keep as many and agree on them.
LEMMA SameEntries ==
  ASSUME NEW d \in DirectoryBytes, NEW w \in DirectoryBytes,
         ParseDirectory(d).ok, ParseDirectory(w).ok,
         CountKept(d) = CountKept(w),
         \A j \in 6 .. 5 + CountKept(w) * 26 : d[j] = w[j]
  PROVE  ParseDirectory(d).entries = ParseDirectory(w).entries
<1>1. CountKept(w) \in 0 .. C
  BY Kept DEF IsCount
<1>2. \A i \in 1 .. CountKept(w) : EntryData(d, i) = EntryData(w, i)
  BY <1>1, SameSlots
<1>3. EntriesOf(d, CountKept(w)) = EntriesOf(w, CountKept(w))
  BY <1>2 DEF EntriesOf
<1> QED BY <1>3, KeptEntries

\* A directory has no warning as a whole when its two sequence numbers agree and
\* its check byte is right.
LEMMA HarmlessMeans ==
  ASSUME NEW d, ParseDirectory(d).ok, Harmless(ParseDirectory(d).faults)
  PROVE  /\ d[1] = EndSeqNum(TailData(d))
         /\ Checksum(d, CountKept(d)) = ByteBits(CheckByte(TailData(d)))
<1>1. \A f \in SequenceFaults(d) \cup CheckFaults(d, CountKept(d)) : f.kind = "InvalidAttr"
  BY Parsed DEF Harmless
<1>2. SequenceNumberMismatch \notin SequenceFaults(d)
  BY <1>1 DEF SequenceNumberMismatch
<1>3. CheckByteFailure(TailName(TailData(d))) \notin CheckFaults(d, CountKept(d))
  BY <1>1 DEF CheckByteFailure
<1> QED BY <1>2, <1>3 DEF SequenceFaults, CheckFaults

-----------------------------------------------------------------------------
(* Stale slots *)

\* A name that begins with a control character is empty.
LEMMA ControlEndsName ==
  ASSUME NEW f \in Seq(Byte), Len(f) = 10, IsControl(f[1])
  PROVE  ValidRange(f) = << >>
<1> DEFINE P(n) == /\ \A i \in 1 .. n : ~IsControl(f[i])
                   /\ n < Len(f) => IsControl(f[n + 1])
<1>1. 0 \in 0 .. Len(f) /\ P(0)
  OBVIOUS
<1>2. \A n \in 0 .. Len(f) : P(n) => n = 0
  <2> SUFFICES ASSUME NEW n \in 0 .. Len(f), P(n), n # 0 PROVE FALSE
    OBVIOUS
  <2>1. 1 \in 1 .. n
    OBVIOUS
  <2> QED BY <2>1
<1>3. (CHOOSE n \in 0 .. Len(f) : P(n)) = 0
  <2> HIDE DEF P
  <2> QED BY <1>1, <1>2
<1>4. ValidRange(f) = SubSeq(f, 1, 0)
  BY <1>3 DEF ValidRange
<1> QED BY <1>4, SubSeqEmpty

\* The name of a slot is empty if its first byte is a control character.
LEMMA ControlEmptiesSlot ==
  ASSUME NEW d \in DirectoryBytes, NEW i \in 1 .. C, IsControl(d[6 + (i - 1) * 26])
  PROVE  IsEmptySlot(d, i)
<1> DEFINE m == 6 + (i - 1) * 26
           n == 5 + i * 26
           e == EntryData(d, i)
<1>1. m \in 1 .. LENGTH /\ n \in m .. LENGTH /\ n - m + 1 = 26
  BY SlotPlace
<1>2. e = SubSeq(d, m, n)
  BY DEF EntryData, ENTRY_LENGTH
<1>3. m \in Nat
  BY Sizes
<1> HIDE DEF m, n
<1>4. e \in Seq(Byte) /\ Len(e) = 26 /\ e[1] = d[m]
  <2>1. 1 \in 1 .. n - m + 1 /\ m + 1 - 1 = m
    BY <1>1, <1>3
  <2> HIDE DEF e
  <2> QED BY <1>1, <1>2, <2>1, PartOf
<1> HIDE DEF e
<1>5. \A j \in 1 .. 10 : e[j] \in Byte
  <2> SUFFICES ASSUME NEW j \in 1 .. 10 PROVE e[j] \in Byte
    OBVIOUS
  <2>1. j \in 1 .. Len(e)
    BY <1>4
  <2> QED BY <1>4, <2>1, ElementOfSeq
<1>6. /\ SubSeq(e, 1, 10) \in Seq(Byte) /\ Len(SubSeq(e, 1, 10)) = 10
      /\ SubSeq(e, 1, 10)[1] = e[1]
  BY <1>5, SubSeqProperties
<1>7. ValidRange(SubSeq(e, 1, 10)) = << >>
  BY <1>4, <1>6, ControlEndsName DEF m
<1> QED BY <1>7 DEF IsEmptySlot, DirEntry, MAX_SEGMENT_LENGTH, e

\* Two directories that differ in stale slots only are parsed alike.
LEMMA StaleSlotsDoNotCount ==
  ASSUME NEW d \in DirectoryBytes, NEW w \in DirectoryBytes, SameButStaleSlots(d, w)
  PROVE  ParseDirectory(d) = ParseDirectory(w)
<1> DEFINE n == CountKept(w)
<1>1. IsCount(w, n) /\ n \in 0 .. C /\ n \in Nat
  BY Kept, Sizes DEF IsCount
<1> HIDE DEF n
<1>2. /\ \A j \in 1 .. 5 + n * 26 : d[j] = w[j]
      /\ \A j \in LENGTH - 40 .. LENGTH : d[j] = w[j]
      /\ n < C => IsControl(d[6 + n * 26])
  <2>1. (5 + n * 26) + 1 = 6 + n * 26
    BY <1>1
  <2> QED BY <2>1 DEF SameButStaleSlots, ENTRY_LENGTH, n, C
<1>3. \A i \in 1 .. n : EntryData(d, i) = EntryData(w, i)
  BY <1>1, <1>2, SameSlots
<1>4. IsCount(d, n)
  <2>1. \A i \in 1 .. n : ~IsEmptySlot(d, i)
    BY <1>1, <1>3 DEF IsCount, IsEmptySlot
  <2>2. ASSUME n < C PROVE IsEmptySlot(d, n + 1)
    <3>1. n + 1 \in 1 .. C /\ (n + 1) - 1 = n
      BY <1>1, <2>2, Sizes
    <3> QED BY <1>2, <2>2, <3>1, ControlEmptiesSlot
  <2> QED BY <1>1, <2>1, <2>2 DEF IsCount
<1>5. CountKept(d) = n /\ CountKept(w) = n
  BY <1>4, OneCount DEF n
<1>6. TailData(d) = TailData(w)
  BY <1>2, SameTail
<1>7. HeaderParses(d) = HeaderParses(w) /\ d[1] = w[1]
  BY <1>1, <1>2, SameHeader
<1>8. AttrFaults(d, n) = AttrFaults(w, n)
  BY <1>3 DEF AttrFaults
<1>9. Checksum(d, n) = Checksum(w, n)
  <2>1. 5 + n * 26 \in 1 .. LENGTH /\ 1 \in 1 .. LENGTH
    BY <1>1, Sizes
  <2>2. CheckedFront(d, n) = CheckedFront(w, n)
    BY <1>2, <2>1, SamePart DEF CheckedFront, ENTRY_LENGTH
  <2> QED BY <1>6, <2>2 DEF Checksum, CheckedChunks
<1>10. SequenceFaults(d) = SequenceFaults(w) /\ CheckFaults(d, n) = CheckFaults(w, n)
  BY <1>6, <1>7, <1>9 DEF SequenceFaults, CheckFaults
<1>11. EntriesOf(d, n) = EntriesOf(w, n)
  BY <1>3 DEF EntriesOf
<1> QED BY <1>5, <1>6, <1>7, <1>8, <1>10, <1>11, Parsed

-----------------------------------------------------------------------------
(* Torn writes *)

\* A directory whose front is new and whose rest is old has the sequence numbers
\* of both, unless it has all that is kept of one of them.
LEMMA SequenceNumbersTell ==
  ASSUME NEW d \in DirectoryBytes, NEW old \in DirectoryBytes, NEW new \in DirectoryBytes,
         Undamaged(old), Undamaged(new), old[1] # new[1], PartlyWritten(d, old, new),
         ParseDirectory(d).ok, Harmless(ParseDirectory(d).faults)
  PROVE  \/ ParseDirectory(d).entries = ParseDirectory(old).entries
         \/ ParseDirectory(d).entries = ParseDirectory(new).entries
<1>1. PICK n \in 0 .. LENGTH :
        \A j \in 1 .. LENGTH : d[j] = IF j <= n THEN new[j] ELSE old[j]
  BY DEF PartlyWritten
<1>2. n \in Nat /\ n <= LENGTH
  BY Sizes
<1>3. CASE n = 0
  <2>1. \A j \in 1 .. LENGTH : d[j] = old[j]
    BY <1>1, <1>3
  <2>2. d = old
    <3>1. d = [j \in 1 .. LENGTH |-> d[j]] /\ old = [j \in 1 .. LENGTH |-> old[j]]
      BY DEF DirectoryBytes
    <3>2. [j \in 1 .. LENGTH |-> d[j]] = [j \in 1 .. LENGTH |-> old[j]]
      BY <2>1
    <3> QED BY <3>1, <3>2, Zenon
  <2> QED BY <2>2
<1>4. CASE n \in 1 .. LENGTH - 6
  <2>1. EndSeqNum(TailData(d)) = d[LENGTH - 5] /\ EndSeqNum(TailData(old)) = old[LENGTH - 5]
    <3>1. LENGTH - 41 + 36 = LENGTH - 5
      BY Sizes
    <3> QED BY <3>1, TailBytes DEF EndSeqNum
  <2>2. d[1] = new[1] /\ d[LENGTH - 5] = old[LENGTH - 5]
    BY <1>1, <1>4, Sizes
  <2>3. d[1] = EndSeqNum(TailData(d)) /\ old[1] = EndSeqNum(TailData(old))
    BY HarmlessMeans DEF Undamaged
  <2> QED BY <2>1, <2>2, <2>3
<1>5. CASE n >= LENGTH - 5
  <2>1. \A j \in 1 .. LENGTH - 5 : d[j] = new[j]
    BY <1>1, <1>2, <1>5, Sizes
  <2>2. \A i \in 1 .. C : EntryData(d, i) = EntryData(new, i)
    <3>1. C \in 0 .. C /\ \A j \in 6 .. 5 + C * 26 : j \in 1 .. LENGTH - 5
      BY Sizes
    <3> QED BY <2>1, <3>1, SameSlots
  <2> DEFINE k == CountKept(new)
  <2>3. IsCount(new, k) /\ k \in 0 .. C
    BY Kept DEF IsCount
  <2> HIDE DEF k
  <2>4. IsCount(d, k)
    <3>1. /\ k \in Nat /\ k <= C /\ k < C => k + 1 \in 1 .. C
          /\ \A i \in 1 .. k : i \in 1 .. C
      BY <2>3, Sizes
    <3> QED BY <2>2, <2>3, <3>1 DEF IsCount, IsEmptySlot
  <2>5. CountKept(d) = CountKept(new)
    BY <2>4, OneCount DEF k
  <2>6. \A j \in 6 .. 5 + CountKept(new) * 26 : d[j] = new[j]
    <3>1. \A j \in 6 .. 5 + k * 26 : j \in 1 .. LENGTH - 5
      BY <2>3, Sizes
    <3> QED BY <2>1, <3>1 DEF k
  <2> QED BY <2>5, <2>6, SameEntries DEF Undamaged
<1> QED BY <1>2, <1>3, <1>4, <1>5, Sizes

-----------------------------------------------------------------------------
(* The check byte: bits *)

\* The values of the bits of a byte.
LEMMA PowersOfTwo ==
  /\ 2^0 = 1 /\ 2^1 = 2 /\ 2^2 = 4 /\ 2^3 = 8
  /\ 2^4 = 16 /\ 2^5 = 32 /\ 2^6 = 64 /\ 2^7 = 128
  /\ \A n \in 0 .. 7 : 2^n \in {1, 2, 4, 8, 16, 32, 64, 128}
<1>1. /\ 2^0 = 1 /\ 2^1 = 2 /\ 2^2 = 4 /\ 2^3 = 8
      /\ 2^4 = 16 /\ 2^5 = 32 /\ 2^6 = 64 /\ 2^7 = 128
  OBVIOUS
<1>2. \A n \in 0 .. 7 : n \in {0, 1, 2, 3, 4, 5, 6, 7}
  OBVIOUS
<1> QED BY <1>1, <1>2, ZenonT(60)

\* The bits of a byte are its binary digits.
LEMMA BitOfByte ==
  ASSUME NEW u
  PROVE  \A i \in 0 .. 7 : i \in ByteBits(u) <=> (u \div 2^i) % 2 = 1
BY DEF ByteBits

\* A number is what is left when its last digit is cut off, and the digit.
LEMMA LastDigit ==
  ASSUME NEW x \in Nat
  PROVE  x = 2 * (x \div 2) + (x % 2)
OBVIOUS

\* Numbers with the same last digit and the same others are the same.
LEMMA SameDigits ==
  ASSUME NEW x \in Nat, NEW y \in Nat, x \div 2 = y \div 2, x % 2 = y % 2
  PROVE  x = y
BY LastDigit

\* A byte without its last digits.
LEMMA HalvesOfByte ==
  ASSUME NEW x \in Byte
  PROVE  /\ x \in Nat /\ x \div 2 \in Nat /\ x \div 4 \in Nat /\ x \div 8 \in Nat
         /\ x \div 16 \in Nat /\ x \div 32 \in Nat /\ x \div 64 \in Nat
         /\ x \div 4 = (x \div 2) \div 2
         /\ x \div 8 = (x \div 4) \div 2
         /\ x \div 16 = (x \div 8) \div 2
         /\ x \div 32 = (x \div 16) \div 2
         /\ x \div 64 = (x \div 32) \div 2
         /\ x \div 128 = (x \div 64) \div 2
<1>1. /\ x \in Nat /\ x \div 2 \in Nat /\ x \div 4 \in Nat /\ x \div 8 \in Nat
      /\ x \div 16 \in Nat /\ x \div 32 \in Nat /\ x \div 64 \in Nat
  BY DEF Byte
<1>2. x \div 4 = (x \div 2) \div 2
  BY <1>1
<1>3. x \div 8 = (x \div 4) \div 2
  BY <1>1
<1>4. x \div 16 = (x \div 8) \div 2
  BY <1>1
<1>5. x \div 32 = (x \div 16) \div 2
  BY <1>1
<1>6. x \div 64 = (x \div 32) \div 2
  BY <1>1
<1>7. x \div 128 = (x \div 64) \div 2
  BY <1>1
<1> QED BY <1>1, <1>2, <1>3, <1>4, <1>5, <1>6, <1>7, Zenon

\* Different bytes have different bits.
LEMMA BitsTellBytes ==
  ASSUME NEW u \in Byte, NEW v \in Byte, ByteBits(u) = ByteBits(v)
  PROVE  u = v
<1>1. \A n \in 0 .. 7 : (u \div 2^n) % 2 = (v \div 2^n) % 2
  <2> SUFFICES ASSUME NEW n \in 0 .. 7 PROVE (u \div 2^n) % 2 = (v \div 2^n) % 2
    OBVIOUS
  <2>1. 2^n \in {1, 2, 4, 8, 16, 32, 64, 128}
    BY PowersOfTwo
  <2>2. u \div 2^n \in Nat /\ v \div 2^n \in Nat
    BY <2>1 DEF Byte
  <2>3. (u \div 2^n) % 2 \in {0, 1} /\ (v \div 2^n) % 2 \in {0, 1}
    BY <2>2
  <2>4. (u \div 2^n) % 2 = 1 <=> (v \div 2^n) % 2 = 1
    BY BitOfByte
  <2> QED BY <2>3, <2>4
<1>0. /\ u % 2 = v % 2
      /\ (u \div 2) % 2 = (v \div 2) % 2
      /\ (u \div 4) % 2 = (v \div 4) % 2
      /\ (u \div 8) % 2 = (v \div 8) % 2
      /\ (u \div 16) % 2 = (v \div 16) % 2
      /\ (u \div 32) % 2 = (v \div 32) % 2
      /\ (u \div 64) % 2 = (v \div 64) % 2
      /\ (u \div 128) % 2 = (v \div 128) % 2
  <2>1. u \div 1 = u /\ v \div 1 = v
    BY DEF Byte
  <2> QED BY <1>1, <2>1, PowersOfTwo
<1>2. u \div 128 = v \div 128
  <2>1. u \div 128 \in 0 .. 1 /\ v \div 128 \in 0 .. 1
    BY DEF Byte
  <2> QED BY <1>0, <2>1
<1>3. u \div 64 = v \div 64
  <2>1. (u \div 64) \div 2 = (v \div 64) \div 2
    BY <1>2, HalvesOfByte
  <2> QED BY <1>0, <2>1, HalvesOfByte, SameDigits
<1>4. u \div 32 = v \div 32
  <2>1. (u \div 32) \div 2 = (v \div 32) \div 2
    BY <1>3, HalvesOfByte
  <2> QED BY <1>0, <2>1, HalvesOfByte, SameDigits
<1>5. u \div 16 = v \div 16
  <2>1. (u \div 16) \div 2 = (v \div 16) \div 2
    BY <1>4, HalvesOfByte
  <2> QED BY <1>0, <2>1, HalvesOfByte, SameDigits
<1>6. u \div 8 = v \div 8
  <2>1. (u \div 8) \div 2 = (v \div 8) \div 2
    BY <1>5, HalvesOfByte
  <2> QED BY <1>0, <2>1, HalvesOfByte, SameDigits
<1>7. u \div 4 = v \div 4
  <2>1. (u \div 4) \div 2 = (v \div 4) \div 2
    BY <1>6, HalvesOfByte
  <2> QED BY <1>0, <2>1, HalvesOfByte, SameDigits
<1>8. u \div 2 = v \div 2
  <2>1. (u \div 2) \div 2 = (v \div 2) \div 2
    BY <1>7, HalvesOfByte
  <2> QED BY <1>0, <2>1, HalvesOfByte, SameDigits
<1>9. u \in Nat /\ v \in Nat
  BY HalvesOfByte
<1>10. u % 2 = v % 2
  BY <1>0
<1> QED BY <1>8, <1>9, <1>10, SameDigits

\* A word or a single byte.
IsChunk(w) == w \in Seq(Byte) /\ Len(w) \in 1 .. 4

\* The bits of a chunk are those of its bytes, one byte behind the other.
LEMMA BitOfChunk ==
  ASSUME NEW w, IsChunk(w)
  PROVE  /\ WordBits(w) \subseteq 0 .. 31
         /\ \A j \in 1 .. Len(w) : \A i \in 0 .. 7 :
              8 * (j - 1) + i \in WordBits(w) <=> i \in ByteBits(w[j])
<1>1. \A j \in 1 .. Len(w) : ByteBits(w[j]) \subseteq 0 .. 7
  BY DEF ByteBits
<1>2. \A x : x \in WordBits(w) <=>
               \E j \in 1 .. Len(w) : \E i \in ByteBits(w[j]) : x = 8 * (j - 1) + i
  <2> DEFINE B(j) == {8 * (j - 1) + i : i \in ByteBits(w[j])}
  <2>1. WordBits(w) = UNION {B(j) : j \in 1 .. Len(w)}
    BY DEF WordBits
  <2>2. \A x : \A j : x \in B(j) <=> \E i \in ByteBits(w[j]) : x = 8 * (j - 1) + i
    OBVIOUS
  <2> HIDE DEF B
  <2>3. \A x : x \in WordBits(w) <=> \E j \in 1 .. Len(w) : x \in B(j)
    BY <2>1, Zenon
  <2> QED BY <2>2, <2>3, Zenon
<1>3. \A j \in 1 .. Len(w) : j \in 1 .. 4
  <2>1. PICK n \in 1 .. 4 : n = Len(w)
    BY DEF IsChunk
  <2>2. \A j \in 1 .. n : j \in 1 .. 4
    OBVIOUS
  <2> QED BY <2>1, <2>2
<1>4. WordBits(w) \subseteq 0 .. 31
  <2> SUFFICES ASSUME NEW x \in WordBits(w) PROVE x \in 0 .. 31
    OBVIOUS
  <2>1. PICK j \in 1 .. Len(w) : \E i \in ByteBits(w[j]) : x = 8 * (j - 1) + i
    BY <1>2
  <2>2. PICK i \in ByteBits(w[j]) : x = 8 * (j - 1) + i
    BY <2>1
  <2>3. i \in 0 .. 7 /\ j \in 1 .. 4
    BY <1>1, <1>3
  <2> QED BY <2>2, <2>3
<1>5. ASSUME NEW j \in 1 .. Len(w), NEW i \in 0 .. 7, 8 * (j - 1) + i \in WordBits(w)
      PROVE  i \in ByteBits(w[j])
  <2>1. PICK k \in 1 .. Len(w) : \E h \in ByteBits(w[k]) : 8 * (j - 1) + i = 8 * (k - 1) + h
    BY <1>2, <1>5
  <2>2. PICK h \in ByteBits(w[k]) : 8 * (j - 1) + i = 8 * (k - 1) + h
    BY <2>1
  <2>3. j \in 1 .. 4 /\ k \in 1 .. 4 /\ h \in 0 .. 7
    BY <1>1, <1>3
  <2>4. j = k /\ i = h
    BY <2>2, <2>3
  <2> QED BY <2>4
<1>6. ASSUME NEW j \in 1 .. Len(w), NEW i \in 0 .. 7, i \in ByteBits(w[j])
      PROVE  8 * (j - 1) + i \in WordBits(w)
  BY <1>2, <1>6
<1> QED BY <1>4, <1>5, <1>6

\* Eight places in a row of an accumulator, which is a ring.
Arc(s) == {(s + t) % 32 : t \in 0 .. 7}

\* A difference that is not empty and no wider than a byte.
IsBurst(x) == x # {} /\ \E s \in 0 .. 31 : x \subseteq Arc(s)

\* Two chunks that differ in one byte differ by a burst.
LEMMA OneByteIsABurst ==
  ASSUME NEW x, NEW y, IsChunk(x), IsChunk(y), Len(x) = Len(y),
         NEW b \in 1 .. Len(x), x[b] # y[b],
         \A j \in 1 .. Len(x) : j # b => x[j] = y[j]
  PROVE  IsBurst(Xor(WordBits(x), WordBits(y)))
<1> DEFINE X == Xor(WordBits(x), WordBits(y))
           s == 8 * (b - 1)
<1>1. b \in 1 .. 4 /\ s \in 0 .. 24 /\ \A j \in 1 .. Len(x) : j \in 1 .. 4
  BY DEF IsChunk
<1>2. x[b] \in Byte /\ y[b] \in Byte
  BY ElementOfSeq DEF IsChunk
<1>3. PICK i : ~(i \in ByteBits(x[b]) <=> i \in ByteBits(y[b]))
  <2>1. ByteBits(x[b]) # ByteBits(y[b])
    BY <1>2, BitsTellBytes
  <2> QED BY <2>1
<1>4. i \in 0 .. 7
  BY <1>3 DEF ByteBits
<1>5. s + i \in X
  <2>1. /\ s + i \in WordBits(x) <=> i \in ByteBits(x[b])
        /\ s + i \in WordBits(y) <=> i \in ByteBits(y[b])
    BY <1>4, BitOfChunk
  <2> QED BY <1>3, <2>1 DEF Xor
<1>6. ASSUME NEW p \in X PROVE p \in Arc(s)
  <2>1. p \in WordBits(x) \cup WordBits(y) /\ p \in 0 .. 31
    BY BitOfChunk DEF Xor
  <2>2. PICK j \in 1 .. Len(x) : \E h \in 0 .. 7 : p = 8 * (j - 1) + h
    BY <2>1 DEF WordBits, ByteBits
  <2>3. PICK h \in 0 .. 7 : p = 8 * (j - 1) + h
    BY <2>2
  <2>4. j = b
    <3> SUFFICES ASSUME j # b PROVE FALSE
      OBVIOUS
    <3>1. /\ p \in WordBits(x) <=> h \in ByteBits(x[j])
          /\ p \in WordBits(y) <=> h \in ByteBits(y[j])
      BY <2>3, BitOfChunk
    <3>2. x[j] = y[j]
      OBVIOUS
    <3> QED BY <3>1, <3>2 DEF Xor
  <2>5. p = (s + h) % 32
    BY <1>1, <2>3, <2>4
  <2> QED BY <2>5 DEF Arc
<1>7. X # {} /\ X \subseteq Arc(s) /\ s \in 0 .. 31
  BY <1>1, <1>5, <1>6
<1> HIDE DEF s
<1> QED BY <1>7 DEF IsBurst

\* A burst stays one when the ring is rotated.
LEMMA RotatedBurst ==
  ASSUME NEW x, IsBurst(x)
  PROVE  IsBurst(RotateRight(x, 13))
<1>1. PICK s \in 0 .. 31 : x \subseteq Arc(s)
  BY DEF IsBurst
<1> DEFINE r == (s + 19) % 32
<1>2. r \in 0 .. 31
  OBVIOUS
<1>3. ASSUME NEW p \in x PROVE (p + 32 - 13) % 32 \in Arc(r)
  <2>1. PICK t \in 0 .. 7 : p = (s + t) % 32
    BY <1>1 DEF Arc
  <2>2. (p + 32 - 13) % 32 = (r + t) % 32
    BY <2>1
  <2> QED BY <2>2 DEF Arc
<1>4. RotateRight(x, 13) \subseteq Arc(r)
  BY <1>3 DEF RotateRight
<1>5. RotateRight(x, 13) # {}
  BY DEF RotateRight, IsBurst
<1> QED BY <1>2, <1>4, <1>5 DEF IsBurst

\* The next chunk keeps the difference of two accumulators, rotated.
LEMMA DifferenceIsRotated ==
  ASSUME NEW a \in SUBSET (0 .. 31), NEW b \in SUBSET (0 .. 31), NEW w
  PROVE  Xor(Accumulate(a, w), Accumulate(b, w)) = RotateRight(Xor(a, b), 13)
<1> DEFINE A == RotateRight(a, 13)
           B == RotateRight(b, 13)
<1>1. Xor(Accumulate(a, w), Accumulate(b, w)) = Xor(A, B)
  BY DEF Accumulate, Xor
<1>2. \A p, q \in 0 .. 31 : (p + 32 - 13) % 32 = (q + 32 - 13) % 32 => p = q
  OBVIOUS
<1>3. Xor(A, B) \subseteq RotateRight(Xor(a, b), 13)
  BY DEF Xor, RotateRight
<1>4. RotateRight(Xor(a, b), 13) \subseteq Xor(A, B)
  <2> SUFFICES ASSUME NEW p \in Xor(a, b) PROVE (p + 32 - 13) % 32 \in Xor(A, B)
    BY DEF RotateRight
  <2>1. CASE p \in a /\ p \notin b
    <3>1. (p + 32 - 13) % 32 \in A
      BY <2>1 DEF RotateRight
    <3>2. (p + 32 - 13) % 32 \notin B
      BY <1>2, <2>1 DEF RotateRight
    <3> QED BY <3>1, <3>2 DEF Xor
  <2>2. CASE p \in b /\ p \notin a
    <3>1. (p + 32 - 13) % 32 \in B
      BY <2>2 DEF RotateRight
    <3>2. (p + 32 - 13) % 32 \notin A
      BY <1>2, <2>2 DEF RotateRight
    <3> QED BY <3>1, <3>2 DEF Xor
  <2> QED BY <2>1, <2>2 DEF Xor
<1> QED BY <1>1, <1>3, <1>4

\* Two accumulators that differ by a burst have different check bytes.
LEMMA BurstsAreTold ==
  ASSUME NEW a \in SUBSET (0 .. 31), NEW b \in SUBSET (0 .. 31), IsBurst(Xor(a, b))
  PROVE  FoldBytes(a) # FoldBytes(b)
<1>1. PICK p \in Xor(a, b), s \in 0 .. 31 : Xor(a, b) \subseteq Arc(s)
  BY DEF IsBurst
<1>2. p \in 0 .. 31
  BY DEF Xor
<1> DEFINE i == p % 8
           k == p \div 8
           A == BytesWith(a, i)
           B == BytesWith(b, i)
<1>3. i \in 0 .. 7 /\ k \in 0 .. 3 /\ p = i + 8 * k
  BY <1>2
<1>4. \A j \in 0 .. 3 : j # k => i + 8 * j \notin Xor(a, b)
  <2> SUFFICES ASSUME NEW j \in 0 .. 3, j # k, i + 8 * j \in Xor(a, b) PROVE FALSE
    OBVIOUS
  <2>1. PICK t \in 0 .. 7 : p = (s + t) % 32
    BY <1>1 DEF Arc
  <2>2. PICK u \in 0 .. 7 : i + 8 * j = (s + u) % 32
    BY <1>1 DEF Arc
  <2> HIDE DEF i, k
  <2>3. i + 8 * k = (s + t) % 32
    BY <1>3, <2>1
  <2> QED BY <1>3, <2>2, <2>3
<1> HIDE DEF i, k
<1>5. k \in A <=> k \notin B
  BY <1>1, <1>3 DEF Xor, BytesWith
<1>6. \A j \in 0 .. 3 : j # k => (j \in A <=> j \in B)
  BY <1>4 DEF Xor, BytesWith
<1>7. /\ IsFiniteSet(A) /\ IsFiniteSet(B)
      /\ Cardinality(A) \in Nat /\ Cardinality(B) \in Nat
  <2>1. IsFiniteSet(0 .. 3)
    <3>1. 0 \in Int /\ 3 \in Int
      OBVIOUS
    <3> QED BY <3>1, FS_Interval, Zenon
  <2>2. A \subseteq 0 .. 3 /\ B \subseteq 0 .. 3
    BY DEF BytesWith
  <2> HIDE DEF A, B
  <2> QED BY <2>1, <2>2, FS_Subset, FS_CardinalityType
<1>8. A = B \cup {k} \/ B = A \cup {k}
  <2>1. A \subseteq 0 .. 3 /\ B \subseteq 0 .. 3
    BY DEF BytesWith
  <2> HIDE DEF A, B
  <2> QED BY <1>3, <1>5, <1>6, <2>1
<1>9. /\ i \in FoldBytes(a) <=> Cardinality(A) % 2 = 1
      /\ i \in FoldBytes(b) <=> Cardinality(B) % 2 = 1
  BY <1>3 DEF FoldBytes
<1> HIDE DEF A, B
<1>10. Cardinality(A) = Cardinality(B) + 1 \/ Cardinality(B) = Cardinality(A) + 1
  BY <1>5, <1>7, <1>8, FS_AddElement
<1>11. Cardinality(A) % 2 # Cardinality(B) % 2
  BY <1>7, <1>10
<1>12. Cardinality(A) % 2 \in {0, 1} /\ Cardinality(B) % 2 \in {0, 1}
  BY <1>7
<1> QED BY <1>9, <1>11, <1>12

-----------------------------------------------------------------------------
(* The check byte: chunks and their accumulation *)

Bits == SUBSET (0 .. 31)

\* All of a sequence are chunks.
AreChunks(ws) == ws \in Seq(Seq(Byte)) /\ \A k \in 1 .. Len(ws) : IsChunk(ws[k])

\* z accumulates the first n chunks.
Accumulates(z, ws, n) ==
  /\ z \in [0 .. n -> Bits]
  /\ z[0] = {}
  /\ \A k \in 1 .. n : z[k] = Accumulate(z[k - 1], ws[k])

\* An accumulator stays one of 32 bits.
LEMMA AccumulateType ==
  ASSUME NEW a \in Bits, NEW w, IsChunk(w)
  PROVE  Accumulate(a, w) \in Bits
<1>1. RotateRight(a, 13) \subseteq 0 .. 31
  BY DEF RotateRight, Bits
<1>2. WordBits(w) \subseteq 0 .. 31
  BY BitOfChunk
<1> QED BY <1>1, <1>2 DEF Accumulate, Xor, Bits

\* The accumulator behind each chunk follows from the one before it.
LEMMA AccumulatorSteps ==
  ASSUME NEW ws, AreChunks(ws)
  PROVE  Accumulates(Accumulator(ws), ws, Len(ws))
<1> DEFINE g == [k \in 1 .. Len(ws) |-> [x \in Bits |-> Accumulate(x, ws[k])]]
           Def(a) ==
             a = [k \in 0 .. Len(ws) |-> IF k = 0 THEN {} ELSE Accumulate(a[k - 1], ws[k])]
           s == CHOOSE a : Def(a)
<1>1. Len(ws) \in Nat /\ {} \in Bits
  BY DEF AreChunks, Bits
<1>2. \A k \in 1 .. Len(ws) : \A x \in Bits : Accumulate(x, ws[k]) \in Bits
  BY AccumulateType DEF AreChunks
<1>3. g \in [1 .. Len(ws) -> [Bits -> Bits]]
  BY <1>2
<1>4. PICK f \in [0 .. Len(ws) -> Bits] : Iterates(f, {}, g, Len(ws))
  BY <1>1, <1>3, Iteration, Zenon
<1>5. f[0] = {} /\ \A k \in 1 .. Len(ws) : f[k] = Accumulate(f[k - 1], ws[k])
  <2>1. \A k \in 1 .. Len(ws) : f[k] = g[k][f[k - 1]] /\ f[k - 1] \in Bits
    <3>1. \A k \in 1 .. Len(ws) : k - 1 \in 0 .. Len(ws)
      BY <1>1
    <3> QED BY <1>4, <3>1 DEF Iterates
  <2>2. \A k \in 1 .. Len(ws) : \A x \in Bits : g[k][x] = Accumulate(x, ws[k])
    OBVIOUS
  <2> HIDE DEF g
  <2> QED BY <1>4, <2>1, <2>2 DEF Iterates
<1>6. Def(f)
  <2>1. \A k \in 0 .. Len(ws) : k # 0 => k \in 1 .. Len(ws)
    BY <1>1
  <2>2. \A k \in 0 .. Len(ws) : f[k] = IF k = 0 THEN {} ELSE Accumulate(f[k - 1], ws[k])
    BY <1>5, <2>1
  <2>3. f = [k \in 0 .. Len(ws) |-> f[k]]
    BY <1>4
  <2> QED BY <2>2, <2>3
<1>7. Def(s)
  <2> HIDE DEF Def
  <2> QED BY <1>6
<1>8. Accumulator(ws) = s
  BY DEF Accumulator
<1> HIDE DEF s
<1>9. s[0] = {} /\ \A k \in 1 .. Len(ws) : s[k] = Accumulate(s[k - 1], ws[k])
  <2>1. 0 \in 0 .. Len(ws)
    BY <1>1
  <2>2. s[0] = {}
    BY <1>7, <2>1
  <2>3. ASSUME NEW k \in 1 .. Len(ws) PROVE s[k] = Accumulate(s[k - 1], ws[k])
    <3>1. k \in 0 .. Len(ws) /\ k # 0
      BY <1>1
    <3>2. s[k] = IF k = 0 THEN {} ELSE Accumulate(s[k - 1], ws[k])
      BY <1>7, <3>1
    <3> QED BY <3>1, <3>2
  <2> QED BY <2>2, <2>3
<1>10. \A k \in 0 .. Len(ws) : s[k] \in Bits
  <2>1. s[0] \in Bits /\ \A k \in 1 .. Len(ws) : s[k - 1] \in Bits => s[k] \in Bits
    BY <1>1, <1>2, <1>9
  <2> QED BY <1>1, <2>1, IterationStays
<1>11. s \in [0 .. Len(ws) -> Bits]
  <2>1. s = [k \in 0 .. Len(ws) |-> s[k]]
    BY <1>7
  <2> QED BY <1>10, <2>1
<1> QED BY <1>8, <1>9, <1>11 DEF Accumulates

\* Two sequences of chunks that differ in one chunk, and there in one byte.
DifferInOneByte(x, y) ==
  /\ Len(x) = Len(y)
  /\ \E k \in 1 .. Len(x) :
       /\ \A j \in 1 .. Len(x) : j # k => x[j] = y[j]
       /\ Len(x[k]) = Len(y[k])
       /\ \E b \in 1 .. Len(x[k]) :
            /\ x[k][b] # y[k][b]
            /\ \A j \in 1 .. Len(x[k]) : j # b => x[k][j] = y[k][j]

\* Two sequences of chunks that differ in one byte have different check bytes.
LEMMA OneByteIsTold ==
  ASSUME NEW x, NEW y, AreChunks(x), AreChunks(y), DifferInOneByte(x, y)
  PROVE  FoldBytes(Accumulator(x)[Len(x)]) # FoldBytes(Accumulator(y)[Len(y)])
<1> DEFINE A == Accumulator(x)
           B == Accumulator(y)
           N == Len(x)
<1>1. N \in Nat /\ Len(y) = N
  BY DEF AreChunks, DifferInOneByte
<1>2. Accumulates(A, x, N) /\ Accumulates(B, y, N)
  BY <1>1, AccumulatorSteps
<1>3. PICK k \in 1 .. N :
        /\ \A j \in 1 .. N : j # k => x[j] = y[j]
        /\ Len(x[k]) = Len(y[k])
        /\ \E b \in 1 .. Len(x[k]) :
             /\ x[k][b] # y[k][b]
             /\ \A j \in 1 .. Len(x[k]) : j # b => x[k][j] = y[k][j]
  BY DEF DifferInOneByte
<1>4. IsChunk(x[k]) /\ IsChunk(y[k])
  BY <1>1 DEF AreChunks
<1>5. IsBurst(Xor(WordBits(x[k]), WordBits(y[k])))
  BY <1>3, <1>4, OneByteIsABurst
<1> HIDE DEF A, B, N
<1>6. \A j \in 0 .. N : A[j] \in Bits /\ B[j] \in Bits
  BY <1>2 DEF Accumulates
<1>7. \A j \in 1 .. N :
        A[j] = Accumulate(A[j - 1], x[j]) /\ B[j] = Accumulate(B[j - 1], y[j])
  BY <1>2 DEF Accumulates
<1> DEFINE Early == {n \in 0 .. k - 1 : A[n] # B[n]}
<1>8. Early = {}
  <2> SUFFICES ASSUME Early # {} PROVE FALSE
    OBVIOUS
  <2>0. Early \subseteq Nat /\ Early # {}
    OBVIOUS
  <2>1. PICK n \in Early : \A m \in Early : n <= m
    BY <2>0, LeastOf, Zenon
  <2>2. n # 0
    BY <1>2 DEF Accumulates
  <2>3. n - 1 \in 0 .. k - 1 /\ n \in 1 .. N /\ n # k /\ n - 1 < n
    BY <1>1, <2>2
  <2>4. A[n - 1] = B[n - 1]
    BY <2>1, <2>3
  <2>5. x[n] = y[n]
    BY <1>3, <2>3
  <2> QED BY <1>7, <2>1, <2>3, <2>4, <2>5
<1> DEFINE Late == {n \in k .. N : ~IsBurst(Xor(A[n], B[n]))}
<1>9. Late = {}
  <2> SUFFICES ASSUME Late # {} PROVE FALSE
    OBVIOUS
  <2>0. Late \subseteq Nat /\ Late # {}
    BY <1>1
  <2>1. PICK n \in Late : \A m \in Late : n <= m
    BY <2>0, LeastOf, Zenon
  <2>2. n \in 1 .. N /\ n - 1 \in 0 .. N /\ n - 1 < n
    BY <1>1
  <2>3. CASE n = k
    <3>1. A[n - 1] = B[n - 1]
      BY <1>1, <1>8, <2>3
    <3>2. Xor(A[n], B[n]) = Xor(WordBits(x[n]), WordBits(y[n]))
      BY <1>7, <2>2, <3>1 DEF Accumulate, Xor
    <3> QED BY <1>5, <2>1, <2>3, <3>2
  <2>4. CASE n # k
    <3>1. n - 1 \in k .. N
      BY <1>1, <2>4
    <3>2. IsBurst(Xor(A[n - 1], B[n - 1]))
      BY <2>1, <2>2, <3>1
    <3>3. x[n] = y[n]
      BY <1>3, <2>2, <2>4
    <3>4. Xor(A[n], B[n]) = RotateRight(Xor(A[n - 1], B[n - 1]), 13)
      BY <1>6, <1>7, <2>2, <3>3, DifferenceIsRotated DEF Bits
    <3> QED BY <2>1, <3>2, <3>4, RotatedBurst
  <2> QED BY <2>3, <2>4
<1>10. N \in k .. N
  BY <1>1
<1>11. IsBurst(Xor(A[N], B[N])) /\ A[N] \in Bits /\ B[N] \in Bits
  BY <1>1, <1>6, <1>9, <1>10
<1>12. FoldBytes(A[N]) # FoldBytes(B[N])
  BY <1>11, BurstsAreTold DEF Bits
<1> QED BY <1>1, <1>12 DEF A, B, N

-----------------------------------------------------------------------------
(* The check byte: what is accumulated *)

\* A sequence that has chunks at all places.
LEMMA ChunksAre ==
  ASSUME NEW ws, NEW n \in Nat, ws = [k \in 1 .. n |-> ws[k]],
         \A k \in 1 .. n : IsChunk(ws[k])
  PROVE  AreChunks(ws) /\ Len(ws) = n
<1>1. \A k \in 1 .. n : ws[k] \in Seq(Byte)
  BY DEF IsChunk
<1>2. ws \in [1 .. n -> Seq(Byte)]
  BY <1>1
<1>3. ws \in Seq(Seq(Byte)) /\ Len(ws) = n
  BY <1>2
<1> QED BY <1>3 DEF AreChunks

\* The whole words of some bytes, the first of which are skipped.
LEMMA WordsOf ==
  ASSUME NEW s \in Seq(Byte), NEW skip \in 0 .. Odd(s)
  PROVE  /\ AreChunks(Words(s, skip)) /\ Len(Words(s, skip)) = Len(s) \div 4
         /\ \A k \in 1 .. Len(s) \div 4 :
              /\ Words(s, skip)[k] \in Seq(Byte)
              /\ Len(Words(s, skip)[k]) = 4
              /\ \A b \in 1 .. 4 :
                   /\ Words(s, skip)[k][b] = s[skip + 4 * (k - 1) + b]
                   /\ skip + 4 * (k - 1) + b \in 1 .. Len(s)
<1> DEFINE n == Len(s) \div 4
           W == Words(s, skip)
<1>1. /\ Len(s) \in Nat /\ n \in Nat /\ skip \in Nat
      /\ Len(s) = 4 * n + Odd(s) /\ skip <= Odd(s) /\ Odd(s) \in Nat
  BY DEF Odd
<1>2. W = [k \in 1 .. n |-> SubSeq(s, skip + 4 * k - 3, skip + 4 * k)]
  BY DEF Words
<1> HIDE DEF n
<1>3. ASSUME NEW k \in 1 .. n
      PROVE  /\ W[k] \in Seq(Byte) /\ Len(W[k]) = 4
             /\ \A b \in 1 .. 4 :
                  W[k][b] = s[skip + 4 * (k - 1) + b] /\ skip + 4 * (k - 1) + b \in 1 .. Len(s)
  <2> DEFINE f == skip + 4 * k - 3
             l == skip + 4 * k
  <2>1. /\ f \in Int /\ l \in Int /\ f <= l /\ l - f + 1 = 4
        /\ f >= 1 /\ l <= Len(s)
    BY <1>1
  <2>2. \A i \in f .. l : s[i] \in Byte
    <3> SUFFICES ASSUME NEW i \in f .. l PROVE s[i] \in Byte
      OBVIOUS
    <3>1. i \in 1 .. Len(s)
      BY <1>1, <2>1
    <3> QED BY <3>1, ElementOfSeq
  <2>3. W[k] = SubSeq(s, f, l)
    BY <1>2
  <2>4. \A b \in 1 .. 4 : f + b - 1 = skip + 4 * (k - 1) + b /\ f + b - 1 \in 1 .. Len(s)
    BY <1>1, <2>1
  <2> HIDE DEF f, l, W
  <2>5. /\ SubSeq(s, f, l) \in Seq(Byte) /\ Len(SubSeq(s, f, l)) = 4
        /\ \A b \in 1 .. 4 : SubSeq(s, f, l)[b] = s[f + b - 1]
    BY <2>1, <2>2, SubSeqProperties
  <2> QED BY <2>3, <2>4, <2>5
<1>4. W = [k \in 1 .. n |-> W[k]]
  BY <1>2
<1> HIDE DEF W
<1>5. \A k \in 1 .. n : IsChunk(W[k])
  BY <1>3 DEF IsChunk
<1>6. AreChunks(W) /\ Len(W) = n
  BY <1>1, <1>4, <1>5, ChunksAre
<1> QED BY <1>3, <1>6 DEF n, W

\* Single bytes as chunks.
LEMMA BytesAre ==
  ASSUME NEW s \in Seq(Byte)
  PROVE  /\ AreChunks(Bytes(s)) /\ Len(Bytes(s)) = Len(s)
         /\ \A k \in 1 .. Len(s) :
              /\ Bytes(s)[k] = <<s[k]>> /\ Len(Bytes(s)[k]) = 1 /\ Bytes(s)[k][1] = s[k]
<1> DEFINE B == Bytes(s)
<1>1. B = [k \in 1 .. Len(s) |-> <<s[k]>>] /\ Len(s) \in Nat
  BY DEF Bytes
<1>2. ASSUME NEW k \in 1 .. Len(s)
      PROVE  B[k] = <<s[k]>> /\ Len(B[k]) = 1 /\ B[k][1] = s[k] /\ IsChunk(B[k])
  <2>1. s[k] \in Byte
    BY ElementOfSeq
  <2>2. B[k] = <<s[k]>>
    BY <1>1
  <2>3. <<s[k]>> \in Seq(Byte) /\ Len(<<s[k]>>) = 1
    BY <2>1
  <2> QED BY <2>2, <2>3 DEF IsChunk
<1>3. B = [k \in 1 .. Len(s) |-> B[k]]
  BY <1>1
<1> HIDE DEF B
<1>4. AreChunks(B) /\ Len(B) = Len(s)
  BY <1>1, <1>2, <1>3, ChunksAre
<1> QED BY <1>2, <1>4 DEF B

\* Chunks behind chunks are chunks, and a difference in one part is one of the whole.
LEMMA ConcatChunks ==
  ASSUME NEW x, NEW y, AreChunks(x), AreChunks(y)
  PROVE  /\ AreChunks(x \o y)
         /\ Len(x \o y) = Len(x) + Len(y)
         /\ \A k \in 1 .. Len(x) : (x \o y)[k] = x[k]
         /\ \A k \in 1 .. Len(y) : (x \o y)[Len(x) + k] = y[k]
<1>1. /\ x \in Seq(Seq(Byte)) /\ y \in Seq(Seq(Byte))
      /\ Len(x) \in Nat /\ Len(y) \in Nat
  BY DEF AreChunks
<1>2. /\ x \o y \in Seq(Seq(Byte))
      /\ Len(x \o y) = Len(x) + Len(y)
      /\ \A i \in 1 .. Len(x) + Len(y) :
           (x \o y)[i] = IF i <= Len(x) THEN x[i] ELSE y[i - Len(x)]
  BY <1>1, ConcatProperties
<1> DEFINE z == x \o y
<1> HIDE DEF z
<1>3. \A i \in 1 .. Len(x) + Len(y) : z[i] = IF i <= Len(x) THEN x[i] ELSE y[i - Len(x)]
  BY <1>2 DEF z
<1>4. ASSUME NEW k \in 1 .. Len(x) PROVE z[k] = x[k]
  <2>1. k \in 1 .. Len(x) + Len(y) /\ k <= Len(x)
    BY <1>1
  <2> QED BY <1>3, <2>1
<1>5. ASSUME NEW k \in 1 .. Len(y) PROVE z[Len(x) + k] = y[k]
  <2>1. Len(x) + k \in 1 .. Len(x) + Len(y) /\ ~(Len(x) + k <= Len(x)) /\ (Len(x) + k) - Len(x) = k
    BY <1>1
  <2> QED BY <1>3, <2>1
<1>6. ASSUME NEW i \in 1 .. Len(x) + Len(y) PROVE IsChunk(z[i])
  <2>1. CASE i <= Len(x)
    <3>1. i \in 1 .. Len(x)
      BY <1>1, <2>1
    <3> QED BY <1>3, <2>1, <3>1 DEF AreChunks
  <2>2. CASE ~(i <= Len(x))
    <3>1. i - Len(x) \in 1 .. Len(y)
      BY <1>1, <2>2
    <3> QED BY <1>3, <2>2, <3>1 DEF AreChunks
  <2> QED BY <2>1, <2>2
<1> QED BY <1>2, <1>4, <1>5, <1>6 DEF AreChunks, z

\* The same chunks behind a difference leave it one.
LEMMA DifferenceAhead ==
  ASSUME NEW x, NEW y, NEW r, AreChunks(x), AreChunks(y), AreChunks(r),
         DifferInOneByte(x, y)
  PROVE  DifferInOneByte(x \o r, y \o r)
<1> DEFINE X == x \o r
           Y == y \o r
<1>1. /\ Len(x) \in Nat /\ Len(r) \in Nat /\ Len(y) = Len(x)
      /\ Len(X) = Len(x) + Len(r) /\ Len(Y) = Len(X)
      /\ \A k \in 1 .. Len(x) : X[k] = x[k] /\ Y[k] = y[k]
      /\ \A k \in 1 .. Len(r) : X[Len(x) + k] = r[k] /\ Y[Len(x) + k] = r[k]
  <2>1. Len(x) \in Nat /\ Len(r) \in Nat /\ Len(y) = Len(x)
    BY DEF AreChunks, DifferInOneByte
  <2>2. /\ Len(X) = Len(x) + Len(r)
        /\ \A k \in 1 .. Len(x) : X[k] = x[k]
        /\ \A k \in 1 .. Len(r) : X[Len(x) + k] = r[k]
    BY ConcatChunks
  <2>3. /\ Len(Y) = Len(y) + Len(r)
        /\ \A k \in 1 .. Len(y) : Y[k] = y[k]
        /\ \A k \in 1 .. Len(r) : Y[Len(y) + k] = r[k]
    BY ConcatChunks
  <2> HIDE DEF X, Y
  <2> QED BY <2>1, <2>2, <2>3
<1>2. PICK k \in 1 .. Len(x) :
        /\ \A j \in 1 .. Len(x) : j # k => x[j] = y[j]
        /\ Len(x[k]) = Len(y[k])
        /\ \E b \in 1 .. Len(x[k]) :
             /\ x[k][b] # y[k][b]
             /\ \A j \in 1 .. Len(x[k]) : j # b => x[k][j] = y[k][j]
  BY DEF DifferInOneByte
<1> HIDE DEF X, Y
<1>3. k \in 1 .. Len(X) /\ X[k] = x[k] /\ Y[k] = y[k]
  BY <1>1
<1>4. ASSUME NEW j \in 1 .. Len(X), j # k PROVE X[j] = Y[j]
  <2>1. CASE j \in 1 .. Len(x)
    BY <1>1, <1>2, <1>4, <2>1
  <2>2. CASE j \notin 1 .. Len(x)
    <3>1. j - Len(x) \in 1 .. Len(r) /\ j = Len(x) + (j - Len(x))
      BY <1>1, <2>2
    <3> QED BY <1>1, <3>1
  <2> QED BY <2>1, <2>2
<1>5. DifferInOneByte(X, Y)
  <2>1. /\ Len(X[k]) = Len(Y[k])
        /\ \E b \in 1 .. Len(X[k]) :
             /\ X[k][b] # Y[k][b]
             /\ \A j \in 1 .. Len(X[k]) : j # b => X[k][j] = Y[k][j]
    BY <1>2, <1>3
  <2>2. /\ Len(X) = Len(Y) /\ k \in 1 .. Len(X)
        /\ \A j \in 1 .. Len(X) : j # k => X[j] = Y[j]
    BY <1>1, <1>3, <1>4
  <2> QED BY <2>1, <2>2, Zenon DEF DifferInOneByte
<1> QED BY <1>5 DEF X, Y

\* So do the same chunks ahead of it.
LEMMA DifferenceBehind ==
  ASSUME NEW x, NEW y, NEW r, AreChunks(x), AreChunks(y), AreChunks(r),
         DifferInOneByte(x, y)
  PROVE  DifferInOneByte(r \o x, r \o y)
<1> DEFINE X == r \o x
           Y == r \o y
<1>1. /\ Len(x) \in Nat /\ Len(r) \in Nat /\ Len(y) = Len(x)
      /\ Len(X) = Len(r) + Len(x) /\ Len(Y) = Len(X)
      /\ \A k \in 1 .. Len(r) : X[k] = r[k] /\ Y[k] = r[k]
      /\ \A k \in 1 .. Len(x) : X[Len(r) + k] = x[k] /\ Y[Len(r) + k] = y[k]
  <2>1. Len(x) \in Nat /\ Len(r) \in Nat /\ Len(y) = Len(x)
    BY DEF AreChunks, DifferInOneByte
  <2>2. /\ Len(X) = Len(r) + Len(x)
        /\ \A k \in 1 .. Len(r) : X[k] = r[k]
        /\ \A k \in 1 .. Len(x) : X[Len(r) + k] = x[k]
    BY ConcatChunks
  <2>3. /\ Len(Y) = Len(r) + Len(y)
        /\ \A k \in 1 .. Len(r) : Y[k] = r[k]
        /\ \A k \in 1 .. Len(y) : Y[Len(r) + k] = y[k]
    BY ConcatChunks
  <2> HIDE DEF X, Y
  <2> QED BY <2>1, <2>2, <2>3
<1>2. PICK k \in 1 .. Len(x) :
        /\ \A j \in 1 .. Len(x) : j # k => x[j] = y[j]
        /\ Len(x[k]) = Len(y[k])
        /\ \E b \in 1 .. Len(x[k]) :
             /\ x[k][b] # y[k][b]
             /\ \A j \in 1 .. Len(x[k]) : j # b => x[k][j] = y[k][j]
  BY DEF DifferInOneByte
<1> HIDE DEF X, Y
<1> DEFINE m == Len(r) + k
<1>3. m \in 1 .. Len(X) /\ X[m] = x[k] /\ Y[m] = y[k]
  BY <1>1
<1>4. ASSUME NEW j \in 1 .. Len(X), j # m PROVE X[j] = Y[j]
  <2>1. CASE j \in 1 .. Len(r)
    BY <1>1, <2>1
  <2>2. CASE j \notin 1 .. Len(r)
    <3>1. j - Len(r) \in 1 .. Len(x) /\ j = Len(r) + (j - Len(r)) /\ j - Len(r) # k
      BY <1>1, <1>4, <2>2
    <3>2. x[j - Len(r)] = y[j - Len(r)]
      BY <1>2, <3>1
    <3> QED BY <1>1, <3>1, <3>2
  <2> QED BY <2>1, <2>2
<1> HIDE DEF m
<1>5. DifferInOneByte(X, Y)
  <2>1. /\ Len(X[m]) = Len(Y[m])
        /\ \E b \in 1 .. Len(X[m]) :
             /\ X[m][b] # Y[m][b]
             /\ \A j \in 1 .. Len(X[m]) : j # b => X[m][j] = Y[m][j]
    BY <1>2, <1>3
  <2>2. /\ Len(X) = Len(Y) /\ m \in 1 .. Len(X)
        /\ \A j \in 1 .. Len(X) : j # m => X[j] = Y[j]
    BY <1>1, <1>3, <1>4
  <2> QED BY <2>1, <2>2, Zenon DEF DifferInOneByte
<1> QED BY <1>5 DEF X, Y

\* The parts of the bytes ahead of the tail: whole words and the odd bytes behind.
LEMMA ChunksOf ==
  ASSUME NEW s \in Seq(Byte)
  PROVE  /\ SubSeq(s, Len(s) - Odd(s) + 1, Len(s)) \in Seq(Byte)
         /\ Len(SubSeq(s, Len(s) - Odd(s) + 1, Len(s))) = Odd(s)
         /\ \A k \in 1 .. Odd(s) :
              SubSeq(s, Len(s) - Odd(s) + 1, Len(s))[k] = s[4 * (Len(s) \div 4) + k]
         /\ Len(s) \in Nat /\ Odd(s) \in 0 .. 3 /\ Len(s) = 4 * (Len(s) \div 4) + Odd(s)
         /\ AreChunks(Words(s, 0))
         /\ AreChunks(Bytes(SubSeq(s, Len(s) - Odd(s) + 1, Len(s))))
         /\ AreChunks(Chunks(s))
<1> DEFINE m == Len(s) - Odd(s) + 1
           n == Len(s)
           q == Len(s) \div 4
<1>1. /\ n \in Nat /\ q \in Nat /\ Odd(s) \in 0 .. 3 /\ n = 4 * q + Odd(s)
  BY DEF Odd
<1>2. m \in Int /\ m = 4 * q + 1 /\ m >= 1
  BY <1>1
<1>3. \A i \in m .. n : s[i] \in Byte
  <2> SUFFICES ASSUME NEW i \in m .. n PROVE s[i] \in Byte
    OBVIOUS
  <2>1. i \in 1 .. Len(s)
    BY <1>1, <1>2
  <2> QED BY <2>1, ElementOfSeq
<1> HIDE DEF m, q
<1>4. /\ SubSeq(s, m, n) \in Seq(Byte)
      /\ Len(SubSeq(s, m, n)) = IF m <= n THEN n - m + 1 ELSE 0
      /\ \A k \in 1 .. n - m + 1 : SubSeq(s, m, n)[k] = s[m + k - 1]
  BY <1>1, <1>2, <1>3, SubSeqProperties
<1>5. Len(SubSeq(s, m, n)) = Odd(s) /\ n - m + 1 = Odd(s)
  BY <1>1, <1>2, <1>4
<1>6. \A k \in 1 .. Odd(s) : SubSeq(s, m, n)[k] = s[4 * q + k]
  <2>1. \A k \in 1 .. Odd(s) : m + k - 1 = 4 * q + k
    BY <1>1, <1>2
  <2> QED BY <1>4, <1>5, <2>1
<1>7. AreChunks(Words(s, 0))
  <2>1. 0 \in 0 .. Odd(s)
    BY <1>1
  <2> QED BY <2>1, WordsOf
<1>8. AreChunks(Bytes(SubSeq(s, m, n)))
  BY <1>4, BytesAre
<1>9. AreChunks(Chunks(s))
  <2>1. Chunks(s) = Words(s, 0) \o Bytes(SubSeq(s, m, n))
    BY DEF Chunks, m
  <2> QED BY <1>7, <1>8, <2>1, ConcatChunks
<1> QED BY <1>1, <1>4, <1>5, <1>6, <1>7, <1>8, <1>9 DEF m, q

\* One byte is in one chunk.
LEMMA OneChunkDiffers ==
  ASSUME NEW s \in Seq(Byte), NEW t \in Seq(Byte), Len(s) = Len(t),
         NEW p \in 1 .. Len(s), s[p] # t[p],
         \A j \in 1 .. Len(s) : j # p => s[j] = t[j]
  PROVE  DifferInOneByte(Chunks(s), Chunks(t))
<1> DEFINE n == Len(s)
           q == Len(s) \div 4
           o == Odd(s)
           V == Words(s, 0)
           W == Words(t, 0)
           e == SubSeq(s, n - o + 1, n)
           f == SubSeq(t, n - o + 1, n)
           D == Bytes(e)
           E == Bytes(f)
<1>1. Odd(t) = o
  BY DEF Odd
<1>2. Chunks(s) = V \o D /\ Chunks(t) = W \o E
  BY <1>1 DEF Chunks
<1>3. /\ e \in Seq(Byte) /\ f \in Seq(Byte) /\ Len(e) = o /\ Len(f) = o
      /\ \A k \in 1 .. o : e[k] = s[4 * q + k] /\ f[k] = t[4 * q + k]
      /\ n \in Nat /\ o \in 0 .. 3 /\ n = 4 * q + o
      /\ AreChunks(V) /\ AreChunks(W) /\ AreChunks(D) /\ AreChunks(E)
  <2>1. /\ e \in Seq(Byte) /\ Len(e) = o
        /\ \A k \in 1 .. o : e[k] = s[4 * q + k]
        /\ n \in Nat /\ o \in 0 .. 3 /\ n = 4 * q + o
        /\ AreChunks(V) /\ AreChunks(D)
    BY ChunksOf
  <2>2. /\ f \in Seq(Byte) /\ Len(f) = o
        /\ \A k \in 1 .. o : f[k] = t[4 * q + k]
        /\ AreChunks(W) /\ AreChunks(E)
    <3>1. /\ SubSeq(t, Len(t) - Odd(t) + 1, Len(t)) = f /\ Len(t) \div 4 = q
          /\ Bytes(SubSeq(t, Len(t) - Odd(t) + 1, Len(t))) = E /\ Odd(t) = o
      BY <1>1
    <3> HIDE DEF f, q, o, E
    <3> QED BY <3>1, ChunksOf
  <2> HIDE DEF e, f, D, E, V, W, q, o
  <2> QED BY <2>1, <2>2
<1>4. q \in Nat
  BY <1>3
<1>5. /\ Len(V) = q /\ Len(W) = q
      /\ \A k \in 1 .. q :
           /\ V[k] \in Seq(Byte) /\ W[k] \in Seq(Byte) /\ Len(V[k]) = 4 /\ Len(W[k]) = 4
           /\ \A b \in 1 .. 4 : /\ V[k][b] = s[4 * (k - 1) + b]
                                /\ W[k][b] = t[4 * (k - 1) + b]
  <2>1. 0 \in 0 .. Odd(s) /\ 0 \in 0 .. Odd(t)
    BY <1>1, <1>3
  <2>2. /\ Len(V) = q
        /\ \A k \in 1 .. q :
             /\ V[k] \in Seq(Byte) /\ Len(V[k]) = 4
             /\ \A b \in 1 .. 4 : V[k][b] = s[0 + 4 * (k - 1) + b]
    BY <2>1, WordsOf
  <2>3. /\ Len(W) = q
        /\ \A k \in 1 .. q :
             /\ W[k] \in Seq(Byte) /\ Len(W[k]) = 4
             /\ \A b \in 1 .. 4 : W[k][b] = t[0 + 4 * (k - 1) + b]
    <3>1. Len(t) \div 4 = q
      OBVIOUS
    <3> HIDE DEF q
    <3> QED BY <2>1, <3>1, WordsOf
  <2>4. \A k \in 1 .. q : \A b \in 1 .. 4 : 0 + 4 * (k - 1) + b = 4 * (k - 1) + b
    BY <1>4
  <2> HIDE DEF V, W, q
  <2> QED BY <1>4, <2>2, <2>3, <2>4
<1>6. /\ Len(D) = o /\ Len(E) = o
      /\ \A k \in 1 .. o : /\ D[k] = <<e[k]>> /\ Len(D[k]) = 1 /\ D[k][1] = e[k]
                           /\ E[k] = <<f[k]>> /\ Len(E[k]) = 1 /\ E[k][1] = f[k]
  <2>1. /\ e \in Seq(Byte) /\ f \in Seq(Byte) /\ Len(e) = o /\ Len(f) = o
    BY <1>3
  <2> HIDE DEF e, f, o
  <2>2. /\ Len(D) = o
        /\ \A k \in 1 .. o : D[k] = <<e[k]>> /\ Len(D[k]) = 1 /\ D[k][1] = e[k]
    BY <2>1, BytesAre
  <2>3. /\ Len(E) = o
        /\ \A k \in 1 .. o : E[k] = <<f[k]>> /\ Len(E[k]) = 1 /\ E[k][1] = f[k]
    BY <2>1, BytesAre
  <2> HIDE DEF D, E
  <2> QED BY <2>2, <2>3
<1> HIDE DEF n, q, o, V, W, e, f, D, E
<1>7. CASE p <= 4 * q
  <2>1. D = E
    <3>1. \A k \in 1 .. o : 4 * q + k \in 1 .. Len(s) /\ 4 * q + k # p
      BY <1>3, <1>4, <1>7 DEF n
    <3>2. \A k \in 1 .. Len(e) : e[k] = f[k]
      BY <1>3, <3>1
    <3>3. e = f
      BY <1>3, <3>2, SeqEqual
    <3> QED BY <3>3 DEF D, E
  <2>2. PICK k \in 1 .. q, b \in 1 .. 4 : p = 4 * (k - 1) + b
    <3>1. p \in Nat /\ 1 <= p
      BY <1>3 DEF n
    <3>2. PICK u \in Nat, v \in 0 .. 3 : p - 1 = 4 * u + v
      <4>1. (p - 1) \div 4 \in Nat /\ (p - 1) % 4 \in 0 .. 3
        BY <3>1
      <4>2. p - 1 = 4 * ((p - 1) \div 4) + ((p - 1) % 4)
        BY <3>1
      <4> QED BY <4>1, <4>2
    <3>3. PICK r \in Nat : r = q
      BY <1>4
    <3>4. u + 1 \in 1 .. r /\ v + 1 \in 1 .. 4 /\ p = 4 * ((u + 1) - 1) + (v + 1)
      BY <1>7, <3>1, <3>2, <3>3
    <3> QED BY <3>3, <3>4
  <2>3. V[k][b] # W[k][b]
    BY <1>5, <2>2
  <2>4. ASSUME NEW j \in 1 .. q, NEW c \in 1 .. 4, j # k \/ c # b
        PROVE  V[j][c] = W[j][c]
    <3>1. 4 * (j - 1) + c \in 1 .. Len(s) /\ 4 * (j - 1) + c # p
      BY <1>3, <1>4, <2>2, <2>4 DEF n
    <3> QED BY <1>5, <3>1
  <2>5. ASSUME NEW j \in 1 .. q, j # k PROVE V[j] = W[j]
    <3>1. /\ V[j] \in Seq(Byte) /\ W[j] \in Seq(Byte) /\ Len(V[j]) = 4 /\ Len(W[j]) = 4
      BY <1>5
    <3>2. \A c \in 1 .. Len(V[j]) : V[j][c] = W[j][c]
      BY <2>4, <2>5, <3>1
    <3> QED BY <3>1, <3>2, SeqEqual
  <2>6. DifferInOneByte(V, W)
    <3>1. Len(V[k]) = 4 /\ Len(W[k]) = 4 /\ k \in 1 .. Len(V) /\ Len(V) = Len(W)
      BY <1>5
    <3>2. \A j \in 1 .. Len(V) : j # k => V[j] = W[j]
      BY <1>5, <2>5
    <3>3. \A c \in 1 .. Len(V[k]) : c # b => V[k][c] = W[k][c]
      BY <2>4, <3>1
    <3>4. b \in 1 .. Len(V[k])
      BY <3>1
    <3>5. \E c \in 1 .. Len(V[k]) :
            /\ V[k][c] # W[k][c]
            /\ \A j \in 1 .. Len(V[k]) : j # c => V[k][j] = W[k][j]
      BY <2>3, <3>3, <3>4
    <3> QED BY <3>1, <3>2, <3>5, Zenon DEF DifferInOneByte
  <2> QED BY <1>2, <1>3, <2>1, <2>6, DifferenceAhead
<1>8. CASE p > 4 * q
  <2>1. V = W
    <3>1. ASSUME NEW k \in 1 .. q PROVE V[k] = W[k]
      <4>1. \A c \in 1 .. 4 : 4 * (k - 1) + c \in 1 .. Len(s) /\ 4 * (k - 1) + c # p
        BY <1>3, <1>4, <1>8 DEF n
      <4>2. \A c \in 1 .. 4 : V[k][c] = W[k][c]
        BY <1>5, <4>1
      <4>3. /\ V[k] \in Seq(Byte) /\ W[k] \in Seq(Byte) /\ Len(V[k]) = 4 /\ Len(W[k]) = 4
        BY <1>5
      <4> QED BY <4>2, <4>3, SeqEqual
    <3>2. V \in Seq(Seq(Byte)) /\ W \in Seq(Seq(Byte))
      BY <1>3 DEF AreChunks
    <3> QED BY <1>5, <3>1, <3>2, SeqEqual
  <2> DEFINE k == p - 4 * q
  <2>2. k \in 1 .. o /\ p = 4 * q + k
    BY <1>3, <1>4, <1>8 DEF n
  <2> HIDE DEF k
  <2>3. D[k][1] # E[k][1] /\ Len(D[k]) = 1 /\ Len(E[k]) = 1
    BY <1>3, <1>6, <2>2
  <2>4. ASSUME NEW j \in 1 .. o, j # k PROVE D[j] = E[j]
    <3>1. 4 * q + j \in 1 .. Len(s) /\ 4 * q + j # p
      BY <1>3, <1>4, <2>2, <2>4 DEF n
    <3>2. e[j] = f[j]
      BY <1>3, <3>1
    <3> QED BY <1>6, <3>2
  <2>5. DifferInOneByte(D, E)
    <3>1. k \in 1 .. Len(D) /\ Len(D) = Len(E) /\ Len(D[k]) = Len(E[k])
      BY <1>6, <2>2, <2>3
    <3>2. \A j \in 1 .. Len(D) : j # k => D[j] = E[j]
      BY <1>6, <2>4
    <3>3. \A c \in 1 .. Len(D[k]) : c = 1
      BY <2>3
    <3>4. 1 \in 1 .. Len(D[k])
      BY <2>3
    <3>5. \E c \in 1 .. Len(D[k]) :
            /\ D[k][c] # E[k][c]
            /\ \A j \in 1 .. Len(D[k]) : j # c => D[k][j] = E[k][j]
      BY <2>3, <3>3, <3>4
    <3> QED BY <3>1, <3>2, <3>5, Zenon DEF DifferInOneByte
  <2> QED BY <1>2, <1>3, <2>1, <2>5, DifferenceBehind
<1>9. p \in Nat /\ 4 * q \in Nat
  BY <1>3, <1>4 DEF n
<1> QED BY <1>7, <1>8, <1>9

\* The bytes of the tail that are accumulated are chunks.
LEMMA RChunksAre ==
  ASSUME NEW s \in Seq(Byte)
  PROVE  AreChunks(RChunks(s))
<1>1. Odd(s) \in 0 .. Odd(s) /\ Odd(s) \in Nat /\ Odd(s) <= Len(s) /\ Len(s) \in Nat
  BY DEF Odd
<1>2. AreChunks(Words(s, Odd(s)))
  BY <1>1, WordsOf
<1>3. \A i \in 1 .. Odd(s) : s[i] \in Byte
  BY <1>1, ElementOfSeq
<1>4. SubSeq(s, 1, Odd(s)) \in Seq(Byte)
  BY <1>1, <1>3, SubSeqProperties
<1>5. AreChunks(Bytes(SubSeq(s, 1, Odd(s))))
  BY <1>4, BytesAre
<1> QED BY <1>2, <1>5, ConcatChunks DEF RChunks

\* One byte ahead of the tail changes the check byte.
LEMMA ChecksumTells ==
  ASSUME NEW d \in DirectoryBytes, NEW w \in DirectoryBytes, NEW n \in 0 .. C,
         NEW i \in 1 .. 5 + n * 26, d[i] # w[i],
         \A j \in (1 .. LENGTH) \ {i} : d[j] = w[j]
  PROVE  Checksum(d, n) # Checksum(w, n)
<1> DEFINE m == 5 + n * 26
           s == SubSeq(d, 1, m)
           t == SubSeq(w, 1, m)
           r == RChunks(SubSeq(TailData(d), 2, 37))
<1>1. 1 \in 1 .. LENGTH /\ m \in 1 .. LENGTH /\ m < LENGTH - 40 /\ m \in Nat
  <2>1. n \in Nat /\ n <= C
    BY Sizes
  <2> QED BY <2>1, Sizes
<1>2. \A j \in LENGTH - 40 .. LENGTH : j \in 1 .. LENGTH /\ j # i
  BY <1>1, Sizes
<1>3. TailData(d) = TailData(w)
  BY <1>2, SameTail
<1>4. CheckedChunks(d, n) = Chunks(s) \o r /\ CheckedChunks(w, n) = Chunks(t) \o r
  BY <1>3 DEF CheckedChunks, CheckedFront, ENTRY_LENGTH
<1>5. i \in 1 .. m /\ i \in 1 .. LENGTH
  BY <1>1, Sizes
<1> HIDE DEF m
<1>6. /\ s \in Seq(Byte) /\ Len(s) = m - 1 + 1
      /\ \A k \in 1 .. m - 1 + 1 : s[k] = d[1 + k - 1]
  BY <1>1, PartOf
<1>7. /\ t \in Seq(Byte) /\ Len(t) = m - 1 + 1
      /\ \A k \in 1 .. m - 1 + 1 : t[k] = w[1 + k - 1]
  BY <1>1, PartOf
<1> HIDE DEF s, t
<1>8. m - 1 + 1 = m /\ \A k \in 1 .. m : 1 + k - 1 = k
  BY <1>1
<1>9. /\ Len(s) = m /\ Len(t) = m
      /\ \A k \in 1 .. m : s[k] = d[k] /\ t[k] = w[k]
  BY <1>6, <1>7, <1>8
<1>10. \A k \in 1 .. m : k # i => s[k] = t[k]
  <2> SUFFICES ASSUME NEW k \in 1 .. m, k # i PROVE s[k] = t[k]
    OBVIOUS
  <2>1. k \in (1 .. LENGTH) \ {i}
    BY <1>1, Sizes
  <2> QED BY <1>9, <2>1
<1>11. DifferInOneByte(Chunks(s), Chunks(t))
  <2>1. i \in 1 .. Len(s) /\ s[i] # t[i] /\ Len(s) = Len(t)
    BY <1>5, <1>9
  <2>2. \A j \in 1 .. Len(s) : j # i => s[j] = t[j]
    BY <1>9, <1>10
  <2> QED BY <1>6, <1>7, <2>1, <2>2, OneChunkDiffers
<1>12. AreChunks(r)
  <2>1. TailData(d) \in Seq(Byte) /\ Len(TailData(d)) = 41
    BY TailBytes
  <2>2. \A j \in 2 .. 37 : TailData(d)[j] \in Byte
    <3>1. \A j \in 2 .. 37 : j \in 1 .. Len(TailData(d))
      BY <2>1
    <3> QED BY <2>1, <3>1, ElementOfSeq
  <2>3. SubSeq(TailData(d), 2, 37) \in Seq(Byte)
    BY <2>2, SubSeqProperties
  <2> QED BY <2>3, RChunksAre
<1> HIDE DEF r
<1>13. AreChunks(Chunks(s)) /\ AreChunks(Chunks(t))
  BY <1>6, <1>7, ChunksOf
<1>14. /\ AreChunks(Chunks(s) \o r) /\ AreChunks(Chunks(t) \o r)
       /\ DifferInOneByte(Chunks(s) \o r, Chunks(t) \o r)
  BY <1>11, <1>12, <1>13, ConcatChunks, DifferenceAhead
<1> QED BY <1>4, <1>14, OneByteIsTold DEF Checksum

\* A directory of which one byte has changed, and not the number of its entries,
\* has its entries or a warning.
LEMMA ChangedByteIsNoticed ==
  ASSUME NEW d \in DirectoryBytes, NEW w \in DirectoryBytes,
         Undamaged(w), OneByteMayDiffer(d, w),
         ParseDirectory(d).ok, Harmless(ParseDirectory(d).faults),
         Len(ParseDirectory(d).entries) = Len(ParseDirectory(w).entries)
  PROVE  ParseDirectory(d).entries = ParseDirectory(w).entries
<1>1. PICK i \in 1 .. LENGTH : \A j \in (1 .. LENGTH) \ {i} : d[j] = w[j]
  BY DEF OneByteMayDiffer
<1> DEFINE n == CountKept(w)
<1>2. CountKept(d) = n
  BY KeptEntries DEF Undamaged
<1>3. n \in 0 .. C
  BY Kept DEF IsCount
<1>4. \A j \in 6 .. 5 + n * 26 : j \in 1 .. LENGTH
  BY <1>3, Sizes
<1>5. CASE i \in 6 .. 5 + n * 26 /\ d[i] # w[i]
  <2>1. i \in 1 .. 5 + n * 26
    BY <1>3, <1>5, Sizes
  <2>2. Checksum(d, n) # Checksum(w, n)
    BY <1>1, <1>3, <1>5, <2>1, ChecksumTells
  <2>3. \A j \in LENGTH - 40 .. LENGTH : j \in 1 .. LENGTH /\ j # i
    BY <1>3, <1>5, Sizes
  <2>4. TailData(d) = TailData(w)
    BY <1>1, <2>3, SameTail
  <2>5. /\ Checksum(d, n) = ByteBits(CheckByte(TailData(d)))
        /\ Checksum(w, n) = ByteBits(CheckByte(TailData(w)))
    BY <1>2, HarmlessMeans DEF Undamaged
  <2> QED BY <2>2, <2>4, <2>5
<1>6. CASE ~(i \in 6 .. 5 + n * 26 /\ d[i] # w[i])
  <2>1. \A j \in 6 .. 5 + CountKept(w) * 26 : d[j] = w[j]
    BY <1>1, <1>4, <1>6
  <2> QED BY <1>2, <2>1, SameEntries DEF Undamaged
<1> QED BY <1>5, <1>6

-----------------------------------------------------------------------------
(* Reading a path *)

\* The bytes of a segment: the parser takes ten at most, and all up to one that ends it.
LEMMA SegmentIs ==
  ASSUME NEW t \in Seq(Byte), NEW p \in 1 .. Len(t) + 1
  PROVE  /\ SegmentLength(t, p) \in 0 .. 10
         /\ p + SegmentLength(t, p) <= Len(t) + 1
         /\ \A i \in p .. p + SegmentLength(t, p) - 1 : ~EndsSegment(t[i])
         /\ \/ SegmentLength(t, p) = 10
            \/ p + SegmentLength(t, p) = Len(t) + 1
            \/ EndsSegment(t[p + SegmentLength(t, p)])
<1> DEFINE N == Len(t)
           Ends == {e \in p .. N + 1 : e <= N => EndsSegment(t[e])}
<1>1. N \in Nat /\ p \in Nat /\ p >= 1 /\ N + 1 \in Ends /\ Ends \subseteq Nat
  OBVIOUS
<1>2. PICK e \in Ends : \A l \in Ends : e <= l
  BY <1>1, LeastOf, Zenon
<1> DEFINE IsEnd(x) == /\ x <= Len(t) => EndsSegment(t[x])
                       /\ \A i \in p .. x - 1 : ~EndsSegment(t[i])
<1>3. IsEnd(e)
  <2>1. ASSUME NEW i \in p .. e - 1, EndsSegment(t[i]) PROVE FALSE
    <3>1. i \in Ends /\ i < e
      BY <1>1, <1>2, <2>1
    <3> QED BY <1>1, <1>2, <3>1
  <2> QED BY <1>2, <2>1
<1> DEFINE x == NextEndChar(t, p)
<1>4. x = CHOOSE z \in p .. Len(t) + 1 : IsEnd(z)
  BY DEF NextEndChar
<1>5. x \in p .. Len(t) + 1 /\ IsEnd(x)
  <2> HIDE DEF IsEnd, x
  <2> QED BY <1>2, <1>3, <1>4
<1> HIDE DEF x
<1>6. SegmentLength(t, p) = IF x - p > 10 THEN 10 ELSE x - p
  BY DEF SegmentLength, MAX_SEGMENT_LENGTH, x
<1> DEFINE L == SegmentLength(t, p)
<1>7. L \in 0 .. 10 /\ p + L <= x /\ (L = 10 \/ p + L = x)
  BY <1>1, <1>5, <1>6
<1> HIDE DEF L
<1>8. \A i \in p .. p + L - 1 : i \in p .. x - 1
  BY <1>1, <1>5, <1>7
<1> QED BY <1>1, <1>5, <1>7, <1>8 DEF L

\* Where the parser stands behind a segment that may be there.
Behind(t, x) ==
  IF SegmentAt(t, x) THEN x + 1 + SegmentLength(t, x + 1) ELSE x

\* A separator with a segment behind it is followed by that segment.
LEMMA SegmentBehind ==
  ASSUME NEW t \in Seq(Byte), NEW x \in 2 .. Len(t) + 1, SegmentAt(t, x)
  PROVE  /\ x <= Len(t) /\ t[x] = DIR_SEPARATOR
         /\ Behind(t, x) \in x + 2 .. x + 11 /\ Behind(t, x) <= Len(t) + 1
         /\ \A i \in x + 1 .. Behind(t, x) - 1 : ~EndsSegment(t[i])
<1> DEFINE L == SegmentLength(t, x + 1)
<1>1. x <= Len(t) /\ t[x] = DIR_SEPARATOR /\ L # 0
  BY DEF SegmentAt
<1>2. x + 1 \in 1 .. Len(t) + 1
  BY <1>1
<1>3. L \in 0 .. 10 /\ (x + 1) + L <= Len(t) + 1
  BY <1>2, SegmentIs
<1>4. \A i \in x + 1 .. (x + 1) + L - 1 : ~EndsSegment(t[i])
  BY <1>2, SegmentIs
<1>5. Behind(t, x) = x + 1 + L
  BY DEF Behind
<1> HIDE DEF L
<1> QED BY <1>1, <1>3, <1>4, <1>5

\* The parser starts behind the root and takes a segment after the other.
LEMMA StopsFollow ==
  ASSUME NEW t \in Seq(Byte), t # << >>
  PROVE  /\ Stops(t)[0] = 2
         /\ \A k \in 1 .. Len(t) : Stops(t)[k] = Behind(t, Stops(t)[k - 1])
         /\ \A k \in 0 .. Len(t) : Stops(t)[k] \in 2 .. Len(t) + 1
<1> DEFINE N == Len(t)
           S == 2 .. Len(t) + 1
           g == [k \in 1 .. Len(t) |-> [x \in S |-> Behind(t, x)]]
           Def(f) ==
             f = [k \in 0 .. Len(t) |->
                    CASE k = 0 -> 2
                      [] k > 0 /\ SegmentAt(t, f[k - 1]) ->
                           f[k - 1] + 1 + SegmentLength(t, f[k - 1] + 1)
                      [] OTHER -> f[k - 1]]
<1>1. N \in Nat /\ 2 \in S
  OBVIOUS
<1>2. \A x \in S : Behind(t, x) \in S
  <2> SUFFICES ASSUME NEW x \in S PROVE Behind(t, x) \in S
    OBVIOUS
  <2>1. CASE SegmentAt(t, x)
    BY <2>1, SegmentBehind
  <2>2. CASE ~SegmentAt(t, x)
    BY <2>2 DEF Behind
  <2> QED BY <2>1, <2>2
<1>3. g \in [1 .. Len(t) -> [S -> S]]
  BY <1>2
<1>4. PICK f \in [0 .. Len(t) -> S] : Iterates(f, 2, g, Len(t))
  BY <1>1, <1>3, Iteration, Zenon
<1>5. f[0] = 2 /\ \A k \in 1 .. Len(t) : f[k] = Behind(t, f[k - 1])
  <2>0. \A k \in 1 .. Len(t) : k - 1 \in 0 .. Len(t)
    BY <1>1
  <2>1. \A k \in 1 .. Len(t) : f[k] = g[k][f[k - 1]] /\ f[k - 1] \in S
    <3> HIDE DEF g, S
    <3> QED BY <1>4, <2>0 DEF Iterates
  <2>2. \A k \in 1 .. Len(t) : \A x \in S : g[k][x] = Behind(t, x)
    OBVIOUS
  <2> HIDE DEF g, S
  <2> QED BY <1>4, <2>1, <2>2 DEF Iterates
<1>6. Def(f)
  <2>1. \A k \in 0 .. Len(t) :
          f[k] = CASE k = 0 -> 2
                   [] k > 0 /\ SegmentAt(t, f[k - 1]) ->
                        f[k - 1] + 1 + SegmentLength(t, f[k - 1] + 1)
                   [] OTHER -> f[k - 1]
    <3> SUFFICES ASSUME NEW k \in 0 .. Len(t)
                 PROVE  f[k] = CASE k = 0 -> 2
                                 [] k > 0 /\ SegmentAt(t, f[k - 1]) ->
                                      f[k - 1] + 1 + SegmentLength(t, f[k - 1] + 1)
                                 [] OTHER -> f[k - 1]
      OBVIOUS
    <3>1. CASE k = 0
      BY <1>5, <3>1
    <3>2. CASE k # 0
      <4>1. k > 0 /\ f[k] = Behind(t, f[k - 1])
        BY <1>5, <3>2
      <4> QED BY <4>1, <3>2 DEF Behind
    <3> QED BY <3>1, <3>2
  <2>2. f = [k \in 0 .. Len(t) |-> f[k]]
    BY <1>4
  <2> QED BY <2>1, <2>2
<1> DEFINE s == Stops(t)
<1>7. Def(s)
  <2>1. s = CHOOSE a : Def(a)
    BY DEF Stops
  <2> HIDE DEF Def, s
  <2> QED BY <1>6, <2>1
<1> HIDE DEF s
<1>8. s[0] = 2
  <2>1. 0 \in 0 .. Len(t)
    BY <1>1
  <2> QED BY <1>7, <2>1
<1>9. \A k \in 1 .. Len(t) : s[k] = Behind(t, s[k - 1])
  <2> SUFFICES ASSUME NEW k \in 1 .. Len(t) PROVE s[k] = Behind(t, s[k - 1])
    OBVIOUS
  <2>1. k \in 0 .. Len(t) /\ k # 0 /\ k > 0
    OBVIOUS
  <2>2. s[k] = CASE k = 0 -> 2
                 [] k > 0 /\ SegmentAt(t, s[k - 1]) ->
                      s[k - 1] + 1 + SegmentLength(t, s[k - 1] + 1)
                 [] OTHER -> s[k - 1]
    BY <1>7, <2>1
  <2> QED BY <2>1, <2>2 DEF Behind
<1>10. \A k \in 0 .. Len(t) : s[k] \in S
  <2>1. s[0] \in S
    BY <1>1, <1>8
  <2>2. \A k \in 1 .. Len(t) : s[k - 1] \in S => s[k] \in S
    BY <1>2, <1>9
  <2> HIDE DEF S
  <2> QED BY <1>1, <2>1, <2>2, IterationStays
<1> QED BY <1>8, <1>9, <1>10 DEF s

\* What CountSegments chooses: there are n segments and no other behind them.
IsSegmentCount(t, n) ==
  /\ n \in 0 .. Len(t)
  /\ \A k \in 0 .. n - 1 : SegmentAt(t, Stops(t)[k])
  /\ ~SegmentAt(t, Stops(t)[n])

\* Each segment takes the parser at least two bytes further, so that it stops.
LEMMA SegmentsCounted ==
  ASSUME NEW t \in Seq(Byte), t # << >>
  PROVE  IsSegmentCount(t, CountSegments(t))
<1> DEFINE N == Len(t)
           s == Stops(t)
           Ends == {n \in 0 .. Len(t) : ~SegmentAt(t, s[n])}
<1>0. N \in Nat /\ Ends \subseteq Nat
  OBVIOUS
<1>1. Ends # {}
  <2> SUFFICES ASSUME \A n \in 0 .. N : SegmentAt(t, s[n]) PROVE FALSE
    OBVIOUS
  <2> DEFINE Far == {n \in 0 .. N : ~(s[n] >= 2 + n)}
  <2>1. Far = {}
    <3> SUFFICES ASSUME Far # {} PROVE FALSE
      OBVIOUS
    <3>1. Far \subseteq Nat /\ Far # {}
      OBVIOUS
    <3>2. PICK m \in Far : \A l \in Far : m <= l
      BY <3>1, LeastOf, Zenon
    <3>3. m # 0
      BY <3>2, StopsFollow
    <3>4. m \in 1 .. N /\ m - 1 \in 0 .. N /\ m - 1 < m
      BY <3>2, <3>3
    <3>5. s[m - 1] >= 2 + (m - 1) /\ s[m - 1] \in 2 .. N + 1 /\ s[m] = Behind(t, s[m - 1])
      BY <3>2, <3>4, StopsFollow
    <3>6. Behind(t, s[m - 1]) \in s[m - 1] + 2 .. s[m - 1] + 11
      BY <3>4, <3>5, SegmentBehind
    <3> HIDE DEF s
    <3> QED BY <3>2, <3>4, <3>5, <3>6
  <2>2. N \in 0 .. N
    BY <1>0
  <2>3. s[N] >= 2 + N /\ s[N] \in 2 .. N + 1
    BY <2>1, <2>2, StopsFollow
  <2> HIDE DEF s
  <2> QED BY <1>0, <2>3
<1>2. PICK n \in Ends : \A l \in Ends : n <= l
  BY <1>0, <1>1, LeastOf, Zenon
<1>3. IsSegmentCount(t, n)
  <2>1. ASSUME NEW k \in 0 .. n - 1, ~SegmentAt(t, s[k]) PROVE FALSE
    <3>1. k \in Ends /\ k < n
      BY <1>2, <2>1
    <3> QED BY <1>2, <3>1
  <2> QED BY <1>2, <2>1 DEF IsSegmentCount
<1>4. CountSegments(t) = CHOOSE m \in 0 .. Len(t) : IsSegmentCount(t, m)
  BY DEF CountSegments, IsSegmentCount
<1> QED BY <1>3, <1>4 DEF IsSegmentCount

\* There is only one number of segments.
LEMMA OneSegmentCount ==
  ASSUME NEW t \in Seq(Byte), t # << >>, NEW n, IsSegmentCount(t, n)
  PROVE  CountSegments(t) = n
<1> DEFINE m == CountSegments(t)
<1>1. IsSegmentCount(t, m)
  BY SegmentsCounted
<1> HIDE DEF m
<1>2. n \in Nat /\ m \in Nat
  BY <1>1 DEF IsSegmentCount
<1>3. ~(m < n)
  BY <1>1, <1>2 DEF IsSegmentCount
<1>4. ~(n < m)
  BY <1>1, <1>2 DEF IsSegmentCount
<1> QED BY <1>2, <1>3, <1>4 DEF m

\* The parser goes forward from segment to segment.
LEMMA StopsAscend ==
  ASSUME NEW t \in Seq(Byte), t # << >>
  PROVE  LET n == CountSegments(t)
             s == Stops(t)
         IN  /\ n \in 0 .. Len(t)
             /\ \A k \in 0 .. n : s[k] \in 2 .. Len(t) + 1
             /\ \A k \in 1 .. n : SegmentAt(t, s[k - 1]) /\ s[k] = Behind(t, s[k - 1])
             /\ \A j, k \in 0 .. n : j < k => s[j] < s[k]
<1> DEFINE n == CountSegments(t)
           s == Stops(t)
<1>1. n \in 0 .. Len(t) /\ \A k \in 0 .. n - 1 : SegmentAt(t, s[k])
  BY SegmentsCounted DEF IsSegmentCount
<1>2. /\ \A k \in 0 .. Len(t) : s[k] \in 2 .. Len(t) + 1
      /\ \A k \in 1 .. Len(t) : s[k] = Behind(t, s[k - 1])
  BY StopsFollow
<1> HIDE DEF n, s
<1>3. \A k \in 0 .. n : s[k] \in 2 .. Len(t) + 1
  BY <1>1, <1>2
<1>4. \A k \in 1 .. n : SegmentAt(t, s[k - 1]) /\ s[k] = Behind(t, s[k - 1])
  BY <1>1, <1>2
<1>5. ASSUME NEW k \in 1 .. n PROVE s[k - 1] < s[k]
  <2>1. s[k - 1] \in 2 .. Len(t) + 1
    BY <1>1, <1>3
  <2>2. Behind(t, s[k - 1]) \in s[k - 1] + 2 .. s[k - 1] + 11
    BY <1>4, <2>1, SegmentBehind
  <2> QED BY <1>4, <2>1, <2>2
<1>6. ASSUME NEW j \in 0 .. n PROVE \A k \in 0 .. n : j < k => s[j] < s[k]
  <2> DEFINE Bad == {k \in 0 .. n : j < k /\ ~(s[j] < s[k])}
  <2> SUFFICES ASSUME Bad # {} PROVE FALSE
    OBVIOUS
  <2>1. Bad \subseteq Nat /\ Bad # {}
    BY <1>1
  <2>2. PICK k \in Bad : \A l \in Bad : k <= l
    BY <2>1, LeastOf, Zenon
  <2>3. k \in 1 .. n /\ k - 1 \in 0 .. n /\ k - 1 < k /\ j <= k - 1 /\ j \in Nat
    BY <1>1, <2>2
  <2>4. s[k - 1] < s[k] /\ s[k] \in Int /\ s[k - 1] \in Int /\ s[j] \in Int
    BY <1>3, <1>5, <2>2, <2>3
  <2>5. j = k - 1 \/ s[j] < s[k - 1]
    BY <2>2, <2>3
  <2> QED BY <2>2, <2>3, <2>4, <2>5
<1> QED BY <1>1, <1>3, <1>4, <1>6 DEF n, s

\* Every byte the parser has passed lies from one of its stops to the next.
LEMMA StopsCover ==
  ASSUME NEW t \in Seq(Byte), t # << >>,
         NEW i \in 2 .. Stops(t)[CountSegments(t)] - 1
  PROVE  \E k \in 1 .. CountSegments(t) : Stops(t)[k - 1] <= i /\ i < Stops(t)[k]
<1> DEFINE n == CountSegments(t)
           s == Stops(t)
           Past == {k \in 0 .. n : i < s[k]}
<1>1. /\ n \in 0 .. Len(t) /\ s[0] = 2
      /\ \A k \in 0 .. n : s[k] \in 2 .. Len(t) + 1
  BY StopsAscend, StopsFollow
<1>2. n \in Past /\ Past \subseteq Nat
  BY <1>1
<1>3. PICK k \in Past : \A l \in Past : k <= l
  BY <1>2, LeastOf, Zenon
<1> HIDE DEF n, s
<1>4. k # 0
  BY <1>1, <1>3 DEF n, s
<1>5. k \in 1 .. n /\ k - 1 \in 0 .. n /\ k - 1 < k
  BY <1>1, <1>3, <1>4
<1>6. ~(i < s[k - 1]) /\ s[k - 1] \in Int
  BY <1>1, <1>3, <1>5
<1>7. i \in Int
  BY DEF n, s
<1> QED BY <1>3, <1>5, <1>6, <1>7 DEF n, s

\* The parser has come to the end of the text, but for a separator.
AtEnd(t, e) == e = Len(t) + 1 \/ (e = Len(t) /\ t[e] = DIR_SEPARATOR)

SegmentsOf(t) ==
  [k \in 1 .. CountSegments(t) |->
     ValidRange(SubSeq(t, Stops(t)[k - 1] + 1, Stops(t)[k] - 1))]

\* What the parser returns.
LEMMA Accepted ==
  ASSUME NEW t \in Seq(Byte)
  PROVE  /\ TryFromStr(t).ok \in BOOLEAN
         /\ t = << >> => ~TryFromStr(t).ok
         /\ t # << >> =>
              (TryFromStr(t).ok
                 <=> t[1] = ROOT_SYMBOL /\ AtEnd(t, Stops(t)[CountSegments(t)]))
         /\ TryFromStr(t).ok => TryFromStr(t) = [ok |-> TRUE, path |-> SegmentsOf(t)]
         /\ ~TryFromStr(t).ok => TryFromStr(t) = NoPath
<1>1. CASE t = << >> \/ Head(t) # ROOT_SYMBOL
  <2>1. TryFromStr(t) = NoPath
    BY <1>1 DEF TryFromStr
  <2>2. t # << >> => t[1] # ROOT_SYMBOL
    BY <1>1
  <2> QED BY <2>1, <2>2 DEF NoPath
<1>2. CASE ~(t = << >> \/ Head(t) # ROOT_SYMBOL)
  <2> DEFINE e == Stops(t)[CountSegments(t)]
             s == SubSeq(t, e, Len(t))
  <2>1. t # << >> /\ t[1] = ROOT_SYMBOL
    BY <1>2
  <2>2. e \in 2 .. Len(t) + 1
    BY <2>1, StopsAscend
  <2>3. s \in {<< >>, <<DIR_SEPARATOR>>} <=> AtEnd(t, e)
    <3> HIDE DEF e
    <3>1. e \in Int /\ Len(t) \in Nat /\ \A i \in e .. Len(t) : t[i] \in Byte
      BY <2>2
    <3>2. /\ s \in Seq(Byte)
          /\ Len(s) = IF e <= Len(t) THEN Len(t) - e + 1 ELSE 0
          /\ \A i \in 1 .. Len(t) - e + 1 : s[i] = t[e + i - 1]
      BY <3>1, SubSeqProperties
    <3> HIDE DEF s
    <3>3. CASE e = Len(t) + 1
      BY <3>1, <3>2, <3>3 DEF AtEnd
    <3>4. CASE e = Len(t)
      <4>1. Len(s) = 1 /\ s[1] = t[e]
        BY <3>1, <3>2, <3>4
      <4>2. s = <<DIR_SEPARATOR>> <=> s[1] = DIR_SEPARATOR
        BY <3>2, <4>1
      <4> QED BY <3>1, <3>4, <4>1, <4>2 DEF AtEnd
    <3>5. CASE e < Len(t)
      <4>0. Len(s) # 0 /\ Len(s) # 1
        BY <3>1, <3>2, <3>5
      <4>1. Len(s) # Len(<< >>) /\ Len(s) # Len(<<DIR_SEPARATOR>>)
        BY <4>0
      <4>2. s # << >> /\ s # <<DIR_SEPARATOR>>
        BY <4>1, Zenon
      <4>3. ~AtEnd(t, e)
        BY <3>1, <3>5 DEF AtEnd
      <4> QED BY <4>2, <4>3
    <3> QED BY <2>2, <3>1, <3>3, <3>4, <3>5
  <2>4. TryFromStr(t) = IF s \in {<< >>, <<DIR_SEPARATOR>>}
                          THEN [ok |-> TRUE, path |-> SegmentsOf(t)] ELSE NoPath
    BY <1>2 DEF TryFromStr, SegmentsOf
  <2> HIDE DEF s, e
  <2>5. NoPath.ok = FALSE /\ [ok |-> TRUE, path |-> SegmentsOf(t)].ok = TRUE
    BY DEF NoPath
  <2> QED BY <2>1, <2>3, <2>4, <2>5 DEF e
<1> QED BY <1>1, <1>2

\* The segment behind a separator ends before the next one.
LEMMA SegmentAfterIs ==
  ASSUME NEW t \in Seq(Byte), NEW i \in Dots(t), NEW e \in i + 1 .. Len(t) + 1,
         e \in Dots(t) \cup {Len(t) + 1},
         \A k \in i + 1 .. e - 1 : k \notin Dots(t)
  PROVE  SegmentAfter(t, i) = SubSeq(t, i + 1, e - 1)
<1> DEFINE IsNext(j) == /\ j \in Dots(t) \cup {Len(t) + 1}
                        /\ \A k \in i + 1 .. j - 1 : k \notin Dots(t)
           x == CHOOSE j \in i + 1 .. Len(t) + 1 : IsNext(j)
<1>1. IsNext(e)
  OBVIOUS
<1>2. x \in i + 1 .. Len(t) + 1 /\ IsNext(x)
  <2> HIDE DEF IsNext
  <2> QED BY <1>1
<1>3. SegmentAfter(t, i) = SubSeq(t, i + 1, x - 1)
  BY DEF SegmentAfter
<1> HIDE DEF x
<1>4. i \in Nat /\ Len(t) \in Nat /\ x \in Nat /\ e \in Nat
  BY <1>2 DEF Dots
<1>5. ~(x < e)
  BY <1>2, <1>4
<1>6. ~(e < x)
  BY <1>1, <1>2, <1>4
<1>7. x = e
  BY <1>4, <1>5, <1>6
<1> QED BY <1>3, <1>7

\* There is a separator or the text's end behind every separator.
LEMMA NextDot ==
  ASSUME NEW t \in Seq(Byte), NEW i \in Dots(t)
  PROVE  \E e \in i + 1 .. Len(t) + 1 :
           /\ e \in Dots(t) \cup {Len(t) + 1}
           /\ \A k \in i + 1 .. e - 1 : k \notin Dots(t)
<1> DEFINE Next1 == {e \in i + 1 .. Len(t) + 1 : e \in Dots(t) \cup {Len(t) + 1}}
<1>1. i \in 2 .. Len(t) /\ Len(t) \in Nat
  BY DEF Dots
<1>2. Len(t) + 1 \in Next1 /\ Next1 \subseteq Nat
  BY <1>1
<1>3. PICK e \in Next1 : \A l \in Next1 : e <= l
  BY <1>2, LeastOf, Zenon
<1>4. ASSUME NEW k \in i + 1 .. e - 1, k \in Dots(t) PROVE FALSE
  <2>1. k \in Next1 /\ k < e
    BY <1>1, <1>3, <1>4
  <2> QED BY <1>1, <1>3, <2>1
<1> QED BY <1>3, <1>4

\* A separator ends a segment.
LEMMA SeparatorEnds == EndsSegment(DIR_SEPARATOR)
BY DEF EndsSegment, FORBIDDEN_CHARS, DIR_SEPARATOR

\* In an accepted text the parser stops at the separators and at the end.
LEMMA StopsAreDots ==
  ASSUME NEW t \in Seq(Byte), t # << >>, t[1] = ROOT_SYMBOL,
         AtEnd(t, Stops(t)[CountSegments(t)])
  PROVE  LET n == CountSegments(t)
             s == Stops(t)
         IN  /\ IsPathText(t)
             /\ Dots(t) \ {Len(t)} = {s[k - 1] : k \in 1 .. n}
             /\ \A k \in 1 .. n :
                  SegmentAfter(t, s[k - 1]) = SubSeq(t, s[k - 1] + 1, s[k] - 1)
<1> DEFINE n == CountSegments(t)
           s == Stops(t)
           N == Len(t)
<1>0. N \in Nat /\ N >= 1
  BY EmptySeq
<1>1. /\ n \in 0 .. N /\ s[0] = 2 /\ AtEnd(t, s[n])
      /\ \A k \in 0 .. n : s[k] \in 2 .. N + 1
      /\ \A k \in 1 .. n : SegmentAt(t, s[k - 1]) /\ s[k] = Behind(t, s[k - 1])
  BY StopsAscend, StopsFollow
<1>2. \A i \in 2 .. s[n] - 1 : \E k \in 1 .. n : s[k - 1] <= i /\ i < s[k]
  BY StopsCover
<1> HIDE DEF n, s
<1>3. ASSUME NEW k \in 1 .. n
      PROVE  /\ s[k - 1] \in Dots(t) /\ s[k - 1] < N
             /\ s[k] \in s[k - 1] + 2 .. s[k - 1] + 11
             /\ \A i \in s[k - 1] + 1 .. s[k] - 1 : ~EndsSegment(t[i])
  <2>1. k - 1 \in 0 .. n /\ k \in 0 .. n
    BY <1>1
  <2> DEFINE x == s[k - 1]
  <2>2. x \in 2 .. N + 1 /\ SegmentAt(t, x) /\ s[k] = Behind(t, x) /\ s[k] \in 2 .. N + 1
    BY <1>1, <2>1
  <2> HIDE DEF x
  <2>3. /\ x <= N /\ t[x] = DIR_SEPARATOR
        /\ s[k] \in x + 2 .. x + 11
        /\ \A i \in x + 1 .. s[k] - 1 : ~EndsSegment(t[i])
    BY <2>2, SegmentBehind
  <2>4. x \in Dots(t) /\ x < N
    BY <2>2, <2>3, <1>0 DEF Dots
  <2> QED BY <2>3, <2>4 DEF x
<1>4. ASSUME NEW k \in 0 .. n PROVE s[k] \in Dots(t) \cup {N + 1}
  <2>1. CASE k = n
    BY <1>0, <1>1, <2>1 DEF AtEnd, Dots
  <2>2. CASE k # n
    <3>1. k + 1 \in 1 .. n /\ (k + 1) - 1 = k
      BY <1>1, <2>2
    <3> QED BY <1>3, <3>1
  <2> QED BY <2>1, <2>2
<1>5. ASSUME NEW i \in 2 .. s[n] - 1
      PROVE  (\E k \in 1 .. n : i = s[k - 1]) \/ ~EndsSegment(t[i])
  <2>1. PICK k \in 1 .. n : s[k - 1] <= i /\ i < s[k]
    BY <1>2
  <2>2. k - 1 \in 0 .. n /\ k \in 0 .. n /\ s[k - 1] \in Int /\ s[k] \in Int
    BY <1>1
  <2>3. i = s[k - 1] \/ i \in s[k - 1] + 1 .. s[k] - 1
    BY <2>1, <2>2
  <2> QED BY <1>3, <2>3
<1>6. \A i \in 2 .. N : i \in 2 .. s[n] - 1 \/ (i = N /\ t[i] = DIR_SEPARATOR)
  <2>1. s[n] \in 2 .. N + 1
    BY <1>1
  <2> QED BY <1>0, <1>1, <2>1 DEF AtEnd
<1>7. ASSUME NEW i \in 2 .. N PROVE i \in Dots(t) \/ ~EndsSegment(t[i])
  <2>1. CASE i \in 2 .. s[n] - 1
    BY <1>3, <1>5, <2>1
  <2>2. CASE i = N /\ t[i] = DIR_SEPARATOR
    BY <2>2 DEF Dots
  <2> QED BY <1>6, <2>1, <2>2
<1>8. Dots(t) \ {N} = {s[k - 1] : k \in 1 .. n}
  <2>1. ASSUME NEW i \in Dots(t) \ {N} PROVE \E k \in 1 .. n : i = s[k - 1]
    <3>1. i \in 2 .. N /\ t[i] = DIR_SEPARATOR /\ i # N
      BY DEF Dots
    <3>2. i \in 2 .. s[n] - 1
      BY <1>6, <3>1
    <3> QED BY <1>5, <3>1, <3>2, SeparatorEnds
  <2>2. ASSUME NEW k \in 1 .. n PROVE s[k - 1] \in Dots(t) \ {N}
    BY <1>0, <1>3
  <2> QED BY <2>1, <2>2, Zenon
<1>9. ASSUME NEW k \in 1 .. n
      PROVE  /\ SegmentAfter(t, s[k - 1]) = SubSeq(t, s[k - 1] + 1, s[k] - 1)
             /\ Len(SegmentAfter(t, s[k - 1])) \in 1 .. 10
  <2> DEFINE x == s[k - 1]
             e == s[k]
  <2>1. /\ x \in Dots(t) /\ x < N /\ e \in x + 2 .. x + 11
        /\ \A i \in x + 1 .. e - 1 : ~EndsSegment(t[i])
    BY <1>3
  <2>2. e \in Dots(t) \cup {N + 1} /\ e \in 2 .. N + 1
    BY <1>1, <1>4
  <2>3. x \in 2 .. N
    BY <2>1 DEF Dots
  <2> HIDE DEF x, e
  <2>4. e \in x + 1 .. N + 1
    BY <2>1, <2>2, <2>3, <1>0
  <2>5. \A i \in x + 1 .. e - 1 : i \notin Dots(t)
    BY <2>1, SeparatorEnds DEF Dots
  <2>6. SegmentAfter(t, x) = SubSeq(t, x + 1, e - 1)
    BY <2>1, <2>2, <2>4, <2>5, SegmentAfterIs
  <2>7. Len(SubSeq(t, x + 1, e - 1)) = e - 1 - x
    <3>1. \A i \in x + 1 .. e - 1 : t[i] \in Byte
      BY <2>3, <2>4, <1>0
    <3>2. x + 1 \in Int /\ e - 1 \in Int /\ x + 1 <= e - 1
      BY <2>1, <2>3, <2>4
    <3>3. Len(SubSeq(t, x + 1, e - 1)) = (e - 1) - (x + 1) + 1
      BY <3>1, <3>2, SubSeqProperties
    <3> QED BY <3>2, <3>3, <2>3, <2>4
  <2>8. e - 1 - x \in 1 .. 10
    BY <2>1, <2>3
  <2> QED BY <2>6, <2>7, <2>8 DEF x, e
<1>10. N > 1 => t[2] = DIR_SEPARATOR
  <2>1. CASE n = 0
    BY <1>0, <1>1, <2>1 DEF AtEnd
  <2>2. CASE n # 0
    <3>1. 1 \in 1 .. n /\ 1 - 1 = 0
      BY <1>1, <2>2
    <3>2. s[0] \in Dots(t)
      BY <1>3, <3>1
    <3> QED BY <1>1, <3>2 DEF Dots
  <2> QED BY <2>1, <2>2
<1>11. \A i \in Dots(t) : i < N => Len(SegmentAfter(t, i)) \in 1 .. 10
  <2> SUFFICES ASSUME NEW i \in Dots(t), i < N PROVE Len(SegmentAfter(t, i)) \in 1 .. 10
    OBVIOUS
  <2>1. i \in Dots(t) \ {N}
    BY <1>0
  <2>2. PICK k \in 1 .. n : i = s[k - 1]
    BY <1>8, <2>1
  <2> QED BY <1>9, <2>2
<1>12. IsPathText(t)
  BY <1>7, <1>10, <1>11 DEF IsPathText, MAX_SEGMENT_LENGTH
<1> QED BY <1>8, <1>9, <1>12 DEF n, s

\* The parser takes the segments of a path text one after the other to its end.
LEMMA PathTextAccepted ==
  ASSUME NEW t \in Seq(Byte), IsPathText(t)
  PROVE  AtEnd(t, Stops(t)[CountSegments(t)])
<1> DEFINE n == CountSegments(t)
           s == Stops(t)
           N == Len(t)
           S == Dots(t) \cup {N + 1}
<1>0. t # << >> /\ N \in Nat /\ N >= 1 /\ (N > 1 => t[2] = DIR_SEPARATOR)
  BY EmptySeq DEF IsPathText
<1>1. ASSUME NEW x \in Dots(t), x < N PROVE SegmentAt(t, x) /\ Behind(t, x) \in S
  <2>1. PICK e \in x + 1 .. N + 1 : /\ e \in Dots(t) \cup {N + 1}
                                    /\ \A k \in x + 1 .. e - 1 : k \notin Dots(t)
    BY NextDot
  <2>2. x \in 2 .. N /\ t[x] = DIR_SEPARATOR
    BY DEF Dots
  <2>3. e - 1 - x \in 1 .. 10
    <3>1. SegmentAfter(t, x) = SubSeq(t, x + 1, e - 1)
      BY <2>1, SegmentAfterIs
    <3>2. Len(SubSeq(t, x + 1, e - 1)) = IF x + 1 <= e - 1 THEN (e - 1) - (x + 1) + 1 ELSE 0
      <4>1. \A i \in x + 1 .. e - 1 : t[i] \in Byte
        BY <2>1, <2>2, <1>0
      <4>2. x + 1 \in Int /\ e - 1 \in Int
        BY <2>1, <2>2
      <4> QED BY <4>1, <4>2, SubSeqProperties
    <3>3. Len(SegmentAfter(t, x)) \in 1 .. 10
      BY <1>1 DEF IsPathText, MAX_SEGMENT_LENGTH
    <3> QED BY <3>1, <3>2, <3>3, <2>1, <2>2
  <2>4. \A i \in x + 1 .. e - 1 : ~EndsSegment(t[i])
    BY <1>0, <2>1, <2>2 DEF IsPathText
  <2>5. e = N + 1 \/ EndsSegment(t[e])
    BY <2>1, SeparatorEnds DEF Dots
  <2> DEFINE L == SegmentLength(t, x + 1)
  <2>6. /\ L \in 0 .. 10 /\ (x + 1) + L <= N + 1
        /\ \A i \in x + 1 .. (x + 1) + L - 1 : ~EndsSegment(t[i])
        /\ L = 10 \/ (x + 1) + L = N + 1 \/ EndsSegment(t[(x + 1) + L])
    <3>1. x + 1 \in 1 .. N + 1
      BY <1>0, <2>2
    <3> QED BY <3>1, SegmentIs
  <2> HIDE DEF L
  <2>7. x \in Int /\ e \in Int /\ e <= N + 1 /\ L \in Int
    BY <1>0, <2>1, <2>2, <2>6
  <2>8. ~((x + 1) + L > e)
    <3> SUFFICES ASSUME (x + 1) + L > e PROVE FALSE
      OBVIOUS
    <3>1. e \in x + 1 .. (x + 1) + L - 1 /\ e # N + 1
      BY <1>0, <2>1, <2>6, <2>7
    <3> QED BY <2>5, <2>6, <3>1
  <2>9. ~((x + 1) + L < e)
    <3> SUFFICES ASSUME (x + 1) + L < e PROVE FALSE
      OBVIOUS
    <3>1. (x + 1) + L \in x + 1 .. e - 1 /\ L # 10 /\ (x + 1) + L # N + 1
      BY <1>0, <2>3, <2>6, <2>7
    <3> QED BY <2>4, <2>6, <3>1
  <2>10. (x + 1) + L = e /\ L # 0
    BY <2>3, <2>7, <2>8, <2>9
  <2>11. SegmentAt(t, x)
    BY <2>2, <2>10 DEF SegmentAt, L
  <2>12. Behind(t, x) = (x + 1) + L
    BY <2>11 DEF Behind, L
  <2> QED BY <2>1, <2>10, <2>11, <2>12
<1>2. /\ n \in 0 .. N /\ s[0] = 2 /\ ~SegmentAt(t, s[n])
      /\ \A k \in 0 .. n : s[k] \in 2 .. N + 1
      /\ \A k \in 1 .. n : SegmentAt(t, s[k - 1]) /\ s[k] = Behind(t, s[k - 1])
  BY <1>0, StopsAscend, StopsFollow, SegmentsCounted DEF IsSegmentCount
<1> HIDE DEF n, s
<1>3. s[0] \in S
  BY <1>0, <1>2 DEF Dots
<1>4. ASSUME NEW k \in 1 .. n, s[k - 1] \in S PROVE s[k] \in S
  <2> DEFINE x == s[k - 1]
  <2>1. x \in 2 .. N + 1 /\ SegmentAt(t, x) /\ s[k] = Behind(t, x)
    BY <1>2
  <2> HIDE DEF x
  <2>2. x <= N /\ Behind(t, x) \in x + 2 .. x + 11 /\ Behind(t, x) <= N + 1
    BY <2>1, SegmentBehind
  <2>3. x # N + 1 /\ x < N
    BY <1>0, <2>1, <2>2
  <2>4. x \in Dots(t)
    BY <1>4, <2>3 DEF x
  <2> QED BY <1>1, <2>1, <2>3, <2>4
<1>5. s[n] \in S
  <2>1. n \in Nat /\ n \in 0 .. n
    BY <1>2
  <2> HIDE DEF S
  <2>2. \A k \in 0 .. n : s[k] \in S
    BY <1>3, <1>4, <2>1, IterationStays
  <2> QED BY <2>1, <2>2
<1>6. s[n] = N + 1 \/ (s[n] \in Dots(t) /\ ~(s[n] < N))
  BY <1>1, <1>2, <1>5
<1>7. CASE s[n] = N + 1
  BY <1>7 DEF AtEnd, n, s
<1>8. CASE s[n] \in Dots(t) /\ ~(s[n] < N)
  <2>1. s[n] = N /\ t[s[n]] = DIR_SEPARATOR
    BY <1>0, <1>8 DEF Dots
  <2> QED BY <2>1 DEF AtEnd, n, s
<1> QED BY <1>6, <1>7, <1>8

\* n different values.
LEMMA CountValues ==
  ASSUME NEW n \in Nat, NEW a, \A j, k \in 1 .. n : j < k => a[j] # a[k]
  PROVE  Cardinality({a[k] : k \in 1 .. n}) = n
<1> DEFINE S == {a[k] : k \in 1 .. n}
           f == [k \in 1 .. n |-> a[k]]
<1>1. f \in Bijection(1 .. n, S)
  <2>1. f \in [1 .. n -> S]
    OBVIOUS
  <2>2. ASSUME NEW j \in 1 .. n, NEW k \in 1 .. n, f[j] = f[k] PROVE j = k
    <3>1. a[j] = a[k] /\ ~(j < k) /\ ~(k < j)
      BY <2>2
    <3> QED BY <3>1
  <2>3. \A v \in S : \E k \in 1 .. n : f[k] = v
    OBVIOUS
  <2> HIDE DEF f, S
  <2> QED BY <2>1, <2>2, <2>3 DEF Bijection, Injection, Surjection, IsInjective
<1>2. ExistsBijection(1 .. n, S)
  BY <1>1 DEF ExistsBijection
<1> HIDE DEF S
<1>3. Cardinality(S) = n
  BY <1>2, FS_CountingElements
<1> QED BY <1>3 DEF S

\* The segment behind a separator is text.
LEMMA SegmentIsText ==
  ASSUME NEW t \in Seq(Byte), NEW i \in Dots(t)
  PROVE  SegmentAfter(t, i) \in Seq(Byte)
<1>1. PICK e \in i + 1 .. Len(t) + 1 : /\ e \in Dots(t) \cup {Len(t) + 1}
                                       /\ \A k \in i + 1 .. e - 1 : k \notin Dots(t)
  BY NextDot
<1>2. SegmentAfter(t, i) = SubSeq(t, i + 1, e - 1)
  BY <1>1, SegmentAfterIs
<1>3. i \in Nat /\ e \in Nat /\ Len(t) \in Nat /\ e - 1 <= Len(t)
  BY <1>1 DEF Dots
<1>4. \A k \in i + 1 .. e - 1 : t[k] \in Byte
  BY <1>3
<1> QED BY <1>2, <1>3, <1>4, SubSeqProperties

\* A path text denotes its segments in order, and no other text is a path.
LEMMA TextDenotes ==
  ASSUME NEW t \in Seq(Byte)
  PROVE  /\ TryFromStr(t).ok = IsPathText(t)
         /\ TryFromStr(t).ok =>
              LET starts == Dots(t) \ {Len(t)}
              IN  /\ Len(TryFromStr(t).path) = Cardinality(starts)
                  /\ \A i \in starts :
                       TryFromStr(t).path[Cardinality({j \in starts : j <= i})]
                         = ValidRange(SegmentAfter(t, i))
<1> DEFINE n == CountSegments(t)
           s == Stops(t)
<1>1. TryFromStr(t).ok => t # << >> /\ t[1] = ROOT_SYMBOL /\ AtEnd(t, s[n])
  BY Accepted
<1>2. TryFromStr(t).ok => IsPathText(t)
  BY <1>1, StopsAreDots
<1>3. IsPathText(t) => TryFromStr(t).ok
  <2> SUFFICES ASSUME IsPathText(t) PROVE TryFromStr(t).ok
    OBVIOUS
  <2>1. t # << >> /\ t[1] = ROOT_SYMBOL
    BY DEF IsPathText
  <2>2. AtEnd(t, s[n])
    BY PathTextAccepted
  <2> QED BY <2>1, <2>2, Accepted
<1>4. TryFromStr(t).ok \in BOOLEAN /\ IsPathText(t) \in BOOLEAN
  BY Accepted DEF IsPathText
<1> SUFFICES ASSUME TryFromStr(t).ok
             PROVE  LET starts == Dots(t) \ {Len(t)}
                    IN  /\ Len(TryFromStr(t).path) = Cardinality(starts)
                        /\ \A i \in starts :
                             TryFromStr(t).path[Cardinality({j \in starts : j <= i})]
                               = ValidRange(SegmentAfter(t, i))
  BY <1>2, <1>3, <1>4
<1> DEFINE starts == Dots(t) \ {Len(t)}
           a == [k \in 1 .. n |-> s[k - 1]]
<1>5. /\ starts = {s[k - 1] : k \in 1 .. n}
      /\ \A k \in 1 .. n : SegmentAfter(t, s[k - 1]) = SubSeq(t, s[k - 1] + 1, s[k] - 1)
  BY <1>1, StopsAreDots
<1>6. /\ n \in Nat
      /\ \A k \in 0 .. n : s[k] \in Int
      /\ \A j, k \in 0 .. n : j < k => s[j] < s[k]
  BY <1>1, StopsAscend
<1>7. TryFromStr(t).path = [k \in 1 .. n |-> ValidRange(SubSeq(t, s[k - 1] + 1, s[k] - 1))]
  <2>1. TryFromStr(t) = [ok |-> TRUE, path |-> SegmentsOf(t)]
    BY Accepted
  <2>2. TryFromStr(t).path = SegmentsOf(t)
    BY <2>1
  <2> QED BY <2>2 DEF SegmentsOf
<1> HIDE DEF n, s
<1>8. \A j, k \in 1 .. n : /\ a[k] = s[k - 1] /\ a[k] \in Int
                           /\ j < k => a[j] < a[k]
  <2> SUFFICES ASSUME NEW j \in 1 .. n, NEW k \in 1 .. n
               PROVE  /\ a[k] = s[k - 1] /\ a[k] \in Int
                      /\ j < k => a[j] < a[k]
    OBVIOUS
  <2>1. j - 1 \in 0 .. n /\ k - 1 \in 0 .. n /\ (j < k => j - 1 < k - 1)
    BY <1>6
  <2> QED BY <1>6, <2>1
<1> DEFINE Upto(k) == {a[j] : j \in 1 .. k}
<1>9. starts = Upto(n)
  BY <1>5
<1> HIDE DEF a, starts
<1>10. ASSUME NEW k \in 0 .. n PROVE Cardinality(Upto(k)) = k
  <2>1. k \in Nat /\ \A i, j \in 1 .. k : i < j => a[i] # a[j]
    <3>1. \A i \in 1 .. k : i \in 1 .. n
      BY <1>6
    <3> QED BY <1>6, <1>8, <3>1
  <2> QED BY <2>1, CountValues
<1>11. Len(TryFromStr(t).path) = Cardinality(starts)
  BY <1>6, <1>7, <1>9, <1>10
<1>12. ASSUME NEW i \in starts
       PROVE  TryFromStr(t).path[Cardinality({j \in starts : j <= i})]
                = ValidRange(SegmentAfter(t, i))
  <2>1. PICK k \in 1 .. n : i = a[k]
    BY <1>9
  <2>2. {j \in starts : j <= i} = Upto(k)
    <3>1. ASSUME NEW j \in starts, j <= i PROVE j \in Upto(k)
      <4>1. PICK l \in 1 .. n : j = a[l]
        BY <1>9
      <4>2. ~(k < l)
        BY <1>8, <2>1, <3>1, <4>1
      <4>3. l \in 1 .. k
        BY <4>2, <1>6
      <4> QED BY <4>1, <4>3
    <3>2. ASSUME NEW j \in Upto(k) PROVE j \in starts /\ j <= i
      <4>1. PICK l \in 1 .. k : j = a[l]
        BY <3>2
      <4>2. l \in 1 .. n /\ (l = k \/ l < k)
        BY <1>6
      <4> QED BY <1>8, <1>9, <2>1, <4>1, <4>2
    <3> QED BY <3>1, <3>2
  <2>3. Cardinality({j \in starts : j <= i}) = k
    BY <1>6, <1>10, <2>2
  <2>4. TryFromStr(t).path[k] = ValidRange(SubSeq(t, s[k - 1] + 1, s[k] - 1))
    BY <1>7
  <2>5. SegmentAfter(t, i) = SubSeq(t, s[k - 1] + 1, s[k] - 1)
    BY <1>5, <1>8, <2>1
  <2> QED BY <2>3, <2>4, <2>5
<1> QED BY <1>11, <1>12 DEF starts

-----------------------------------------------------------------------------
(* Names *)

Printable == {c \in Nat : 32 <= c /\ c <= 126}

\* The valid range of a field are its bytes up to the first control character.
LEMMA ValidRangeIs ==
  ASSUME NEW f \in Seq(Byte)
  PROVE  LET v == ValidRange(f)
         IN  /\ v \in Seq(Byte) /\ Len(v) <= Len(f)
             /\ \A i \in 1 .. Len(v) : v[i] = f[i] /\ ~IsControl(v[i])
             /\ Len(v) < Len(f) => IsControl(f[Len(v) + 1])
<1> DEFINE Ends == {n \in 0 .. Len(f) : n < Len(f) => IsControl(f[n + 1])}
           IsEnd(n) == /\ \A i \in 1 .. n : ~IsControl(f[i])
                       /\ n < Len(f) => IsControl(f[n + 1])
           x == CHOOSE n \in 0 .. Len(f) : IsEnd(n)
<1>1. Len(f) \in Nat /\ Len(f) \in Ends /\ Ends \subseteq Nat
  OBVIOUS
<1>2. PICK n \in Ends : \A l \in Ends : n <= l
  BY <1>1, LeastOf, Zenon
<1>3. IsEnd(n)
  <2>1. ASSUME NEW i \in 1 .. n, IsControl(f[i]) PROVE FALSE
    <3>1. n \in Nat /\ n <= Len(f) /\ i - 1 \in 0 .. Len(f) /\ i - 1 < n /\ (i - 1) + 1 = i
      BY <1>1, <1>2
    <3>2. i - 1 \in Ends
      BY <2>1, <3>1
    <3>3. n <= i - 1
      BY <1>2, <3>2
    <3> QED BY <3>1, <3>3
  <2> QED BY <1>2, <2>1
<1>4. x \in 0 .. Len(f) /\ IsEnd(x)
  <2> HIDE DEF IsEnd
  <2> QED BY <1>2, <1>3
<1>5. ValidRange(f) = SubSeq(f, 1, x)
  BY DEF ValidRange
<1> HIDE DEF x
<1>6. 1 \in Int /\ x \in Int /\ \A i \in 1 .. x : f[i] \in Byte
  BY <1>1, <1>4
<1>7. /\ SubSeq(f, 1, x) \in Seq(Byte)
      /\ Len(SubSeq(f, 1, x)) = IF 1 <= x THEN x - 1 + 1 ELSE 0
      /\ \A i \in 1 .. x - 1 + 1 : SubSeq(f, 1, x)[i] = f[1 + i - 1]
  BY <1>6, SubSeqProperties
<1> DEFINE v == SubSeq(f, 1, x)
<1>8. v \in Seq(Byte) /\ Len(v) = x
  BY <1>4, <1>6, <1>7
<1>9. \A i \in 1 .. x : v[i] = f[i]
  <2>1. \A i \in 1 .. x : i \in 1 .. x - 1 + 1 /\ 1 + i - 1 = i
    BY <1>6
  <2> QED BY <1>7, <2>1
<1> HIDE DEF v
<1> QED BY <1>1, <1>4, <1>5, <1>8, <1>9 DEF v

\* A field without a control character is all valid.
LEMMA AllIsValid ==
  ASSUME NEW f \in Seq(Byte), \A i \in 1 .. Len(f) : ~IsControl(f[i])
  PROVE  ValidRange(f) = f
<1> DEFINE v == ValidRange(f)
<1>1. /\ v \in Seq(Byte) /\ Len(v) <= Len(f)
      /\ \A i \in 1 .. Len(v) : v[i] = f[i]
      /\ Len(v) < Len(f) => IsControl(f[Len(v) + 1])
  BY ValidRangeIs
<1> HIDE DEF v
<1>2. Len(v) = Len(f)
  <2>1. Len(v) \in Nat /\ Len(f) \in Nat
    BY <1>1
  <2>2. Len(v) < Len(f) => Len(v) + 1 \in 1 .. Len(f)
    BY <2>1
  <2> QED BY <1>1, <2>1, <2>2
<1>3. v = f
  BY <1>1, <1>2, SeqEqual
<1> QED BY <1>3 DEF v

\* A name as an entry has it.
IsName(m) ==
  /\ m \in Seq(Byte)
  /\ Len(m) \in 1 .. 10
  /\ \A i \in 1 .. Len(m) : ~IsControl(m[i])

\* A field of one to ten bytes that does not begin with a control character is a name.
LEMMA NameOfField ==
  ASSUME NEW f \in Seq(Byte), Len(f) \in 1 .. 10, ~IsControl(f[1])
  PROVE  IsName(ValidRange(f))
<1>0. PICK v : v = ValidRange(f)
  OBVIOUS
<1>1. /\ v \in Seq(Byte) /\ Len(v) <= Len(f)
      /\ \A i \in 1 .. Len(v) : v[i] = f[i] /\ ~IsControl(v[i])
      /\ Len(v) < Len(f) => IsControl(f[Len(v) + 1])
  BY <1>0, ValidRangeIs
<1>2. Len(v) \in Nat /\ Len(f) \in 1 .. 10
  BY <1>1
<1>3. Len(v) # 0
  <2> SUFFICES ASSUME Len(v) = 0 PROVE FALSE
    OBVIOUS
  <2>1. Len(v) < Len(f) /\ Len(v) + 1 = 1
    BY <1>2
  <2> QED BY <1>1, <2>1
<1>4. Len(v) \in 1 .. 10
  <2>1. \A l \in Nat, k \in 1 .. 10 : l <= k /\ l # 0 => l \in 1 .. 10
    OBVIOUS
  <2> QED BY <1>1, <1>2, <1>3, <2>1, Zenon
<1>5. IsName(v)
  BY <1>1, <1>4 DEF IsName
<1> QED BY <1>0, <1>5

\* The entries that are kept have names and the other fields.
LEMMA EntryNames ==
  ASSUME NEW d \in DirectoryBytes, ParseDirectory(d).ok
  PROVE  /\ Len(ParseDirectory(d).entries) \in 0 .. C
         /\ \A i \in 1 .. Len(ParseDirectory(d).entries) :
              /\ IsName(ParseDirectory(d).entries[i].name)
              /\ Len(ParseDirectory(d).entries[i].fields) = 16
<1> DEFINE es == ParseDirectory(d).entries
           n == CountKept(d)
<1>1. es = EntriesOf(d, n) /\ Len(es) = n
  BY KeptEntries
<1>2. n \in 0 .. C /\ \A i \in 1 .. n : ~IsEmptySlot(d, i)
  BY Kept DEF IsCount
<1> HIDE DEF n, es
<1>3. ASSUME NEW i \in 1 .. n
      PROVE  IsName(es[i].name) /\ Len(es[i].fields) = 16
  <2> DEFINE b == EntryData(d, i)
             f == SubSeq(b, 1, 10)
  <2>1. i \in 1 .. C
    BY <1>2, Sizes
  <2>2. b \in Seq(Byte) /\ Len(b) = 26
    <3>1. /\ 6 + (i - 1) * 26 \in 1 .. LENGTH
          /\ 5 + i * 26 \in 6 + (i - 1) * 26 .. LENGTH
          /\ (5 + i * 26) - (6 + (i - 1) * 26) + 1 = 26
      BY <2>1, SlotPlace
    <3>2. b = SubSeq(d, 6 + (i - 1) * 26, 5 + i * 26)
      BY DEF EntryData, ENTRY_LENGTH
    <3> QED BY <3>1, <3>2, PartOf
  <2>3. es[i].name = ValidRange(f) /\ es[i].fields = SubSeq(b, 11, 26)
    BY <1>1 DEF EntriesOf, DirEntry, MAX_SEGMENT_LENGTH, ENTRY_LENGTH
  <2>4. es[i].name # << >>
    BY <1>1, <1>2 DEF EntriesOf, IsEmptySlot
  <2> HIDE DEF b
  <2>5. f \in Seq(Byte) /\ Len(f) = 10
    <3>1. \A k \in 1 .. 10 : k \in 1 .. Len(b)
      BY <2>2
    <3>3. \A k \in 1 .. 10 : b[k] \in Byte
      BY <2>2, <3>1, ElementOfSeq
    <3>2. f \in Seq(Byte) /\ Len(f) = 10 - 1 + 1
      BY <3>3, SubSeqProperties
    <3> QED BY <3>2
  <2>6. Len(SubSeq(b, 11, 26)) = 16
    <3>1. \A k \in 11 .. 26 : k \in 1 .. Len(b)
      BY <2>2
    <3>3. \A k \in 11 .. 26 : b[k] \in Byte
      BY <2>2, <3>1, ElementOfSeq
    <3>2. Len(SubSeq(b, 11, 26)) = 26 - 11 + 1
      BY <3>3, SubSeqProperties
    <3> QED BY <3>2
  <2> HIDE DEF f
  <2>0. PICK v : v = ValidRange(f)
    OBVIOUS
  <2>7. /\ v \in Seq(Byte) /\ Len(v) <= 10
        /\ \A k \in 1 .. Len(v) : ~IsControl(v[k])
    BY <2>0, <2>5, ValidRangeIs
  <2>8. v # << >>
    BY <2>0, <2>3, <2>4
  <2>9. Len(v) \in 1 .. 10
    <3>1. Len(v) # 0
      BY <2>7, <2>8, EmptySeq
    <3>2. Len(v) \in Nat
      BY <2>7
    <3>3. \A l \in Nat : l <= 10 /\ l # 0 => l \in 1 .. 10
      OBVIOUS
    <3> QED BY <2>7, <3>1, <3>2, <3>3, Zenon
  <2>10. IsName(v)
    BY <2>7, <2>9 DEF IsName
  <2> QED BY <2>0, <2>3, <2>6, <2>10
<1> QED BY <1>1, <1>2, <1>3 DEF es

-----------------------------------------------------------------------------
(* Printing a path *)

\* A sequence of one, and two sequences of printable characters one behind the other.
LEMMA PrintableConcat ==
  ASSUME NEW a \in Seq(Printable), NEW b \in Seq(Printable)
  PROVE  a \o b \in Seq(Printable)
OBVIOUS

\* The digits of a number are printable.
LEMMA HexIsPrintable ==
  ASSUME NEW n \in Nat
  PROVE  Hex(n) \in Seq(Printable)
<1> DEFINE IsFirst(f) == /\ \A g \in 1 .. f - 1 : n < Places[g]
                         /\ f < 4 => n >= Places[f]
           first == CHOOSE f \in 1 .. 4 : IsFirst(f)
<1>1. Places[1] = 4096 /\ Places[2] = 256 /\ Places[3] = 16 /\ Places[4] = 1
  BY DEF Places
<1>2. \E f \in 1 .. 4 : IsFirst(f)
  <2>1. CASE n >= Places[1]
    <3>1. IsFirst(1)
      BY <2>1
    <3> QED BY <3>1
  <2>2. CASE n < Places[1] /\ n >= Places[2]
    <3>1. IsFirst(2)
      BY <2>2
    <3> QED BY <3>1
  <2>3. CASE n < Places[1] /\ n < Places[2] /\ n >= Places[3]
    <3>1. \A g \in 1 .. 3 - 1 : g = 1 \/ g = 2
      OBVIOUS
    <3>2. IsFirst(3)
      BY <2>3, <3>1
    <3> QED BY <3>2
  <2>4. CASE n < Places[1] /\ n < Places[2] /\ n < Places[3]
    <3>1. \A g \in 1 .. 4 - 1 : g = 1 \/ g = 2 \/ g = 3
      OBVIOUS
    <3>2. IsFirst(4)
      BY <2>4, <3>1
    <3> QED BY <3>2
  <2> HIDE DEF IsFirst
  <2>5. \A g \in 1 .. 3 : n >= Places[g] \/ n < Places[g]
    BY <1>1
  <2> QED BY <2>1, <2>2, <2>3, <2>4, <2>5
<1>3. first \in 1 .. 4
  <2> HIDE DEF IsFirst
  <2> QED BY <1>2
<1>4. Hex(n) = [k \in 1 .. 5 - first |-> HexDigit((n \div Places[first + k - 1]) % 16)]
  BY DEF Hex
<1> HIDE DEF first
<1>5. ASSUME NEW k \in 1 .. 5 - first
      PROVE  HexDigit((n \div Places[first + k - 1]) % 16) \in Printable
  <2>1. PICK j \in {1, 2, 3, 4} : j = first + k - 1
    BY <1>3
  <2>2. PICK p \in {1, 16, 256, 4096} : p = Places[j]
    BY <1>1
  <2>3. n \div p \in Nat
    BY <2>2
  <2>4. PICK c \in 0 .. 15 : c = (n \div p) % 16
    BY <2>3
  <2>5. HexDigit(c) \in Printable
    BY DEF HexDigit, Printable
  <2> QED BY <2>1, <2>2, <2>4, <2>5
<1>6. \A k \in 1 .. 5 - first : Hex(n)[k] \in Printable
  BY <1>4, <1>5
<1>7. Hex(n) = [k \in 1 .. 5 - first |-> Hex(n)[k]]
  BY <1>4
<1>8. 5 - first \in Nat
  BY <1>3
<1> QED BY <1>6, <1>7, <1>8, SeqDef

\* What is escaped is printable.
LEMMA EscapeIsPrintable ==
  ASSUME NEW c \in Nat, 32 <= c
  PROVE  EscapeDefault(c) \in Seq(Printable)
<1>1. CASE c \in {34, 39, 92}
  <2>1. EscapeDefault(c) = <<92, c>>
    BY <1>1 DEF EscapeDefault
  <2>2. 92 \in Printable /\ c \in Printable
    BY <1>1 DEF Printable
  <2> QED BY <2>1, <2>2
<1>2. CASE c > 126
  <2>1. <<92, 117, 123>> \in Seq(Printable) /\ <<125>> \in Seq(Printable)
    BY DEF Printable
  <2>2. Hex(c) \in Seq(Printable)
    BY HexIsPrintable
  <2>3. <<92, 117, 123>> \o Hex(c) \o <<125>> \in Seq(Printable)
    BY <2>1, <2>2, PrintableConcat
  <2>4. EscapeDefault(c) = <<92, 117, 123>> \o Hex(c) \o <<125>>
    BY <1>2 DEF EscapeDefault
  <2> QED BY <2>3, <2>4
<1>3. CASE c \notin {34, 39, 92} /\ c <= 126
  <2>1. EscapeDefault(c) = <<c>>
    BY <1>3 DEF EscapeDefault
  <2> QED BY <1>3, <2>1 DEF Printable
<1> QED BY <1>1, <1>2, <1>3

\* The bytes of a name are printed with printable characters.
LEMMA NameIsPrintable ==
  ASSUME NEW m, IsName(m), NEW i \in 1 .. Len(m)
  PROVE  Printed(m, i) \in Seq(Printable)
<1>0. m \in Seq(Byte) /\ m[i] \in Byte /\ ~IsControl(m[i])
  BY ElementOfSeq DEF IsName
<1>1. PICK c \in Nat : c = m[i] /\ 32 <= c /\ c < 256
  <2>1. \A x \in Byte : ~IsControl(x) => x \in Nat /\ 32 <= x /\ x < 256
    BY DEF IsControl, Byte
  <2> QED BY <1>0, <2>1
<1>2. CASE IsSecond(m, i)
  <2>1. Printed(m, i) = << >>
    BY <1>2 DEF Printed
  <2> QED BY <2>1, EmptySeq
<1>3. ASSUME ~IsSecond(m, i)
      PROVE  \E e \in Nat : e = Character(m, i) /\ 32 <= e
  <2>1. CASE c < 128
    <3>1. Character(m, i) = c
      BY <1>1, <2>1 DEF Character
    <3> QED BY <1>1, <3>1
  <2>2. CASE ~(c < 128) /\ IsSecond(m, i + 1)
    <3>1. c \in 194 .. 223 /\ m[i + 1] \in 128 .. 191
      <4>1. (i + 1) - 1 = i
        OBVIOUS
      <4> QED BY <1>1, <2>2, <4>1 DEF IsSecond, IsLead, IsContinuation
    <3>2. PICK b \in 128 .. 191 : b = m[i + 1]
      BY <3>1
    <3>3. Character(m, i) = (c - 192) * 64 + b - 128
      BY <1>1, <2>2, <3>2 DEF Character
    <3>4. (c - 192) * 64 + b - 128 \in 128 .. 2047
      BY <3>1
    <3> QED BY <3>3, <3>4
  <2>3. CASE ~(c < 128) /\ ~IsSecond(m, i + 1)
    <3>1. Character(m, i) = REPLACEMENT
      BY <1>1, <2>3 DEF Character
    <3> QED BY <3>1 DEF REPLACEMENT
  <2> QED BY <2>1, <2>2, <2>3
<1>4. CASE ~IsSecond(m, i)
  <2>1. PICK e \in Nat : e = Character(m, i) /\ 32 <= e
    BY <1>3, <1>4
  <2>2. EscapeDefault(e) \in Seq(Printable)
    BY <2>1, EscapeIsPrintable
  <2> QED BY <1>4, <2>1, <2>2 DEF Printed
<1> QED BY <1>2, <1>4

\* u is what is printed of a name up to each of its bytes.
PrintsUpTo(u, m) ==
  /\ u \in [0 .. Len(m) -> Seq(Printable)]
  /\ u[0] = << >>
  /\ \A i \in 1 .. Len(m) : u[i] = u[i - 1] \o Printed(m, i)

\* A name is printed byte after byte.
LEMMA NamePrints ==
  ASSUME NEW m, IsName(m)
  PROVE  \E u : PrintsUpTo(u, m) /\ PrintName(m) = u[Len(m)]
<1> DEFINE S == Seq(Printable)
           g == [k \in 1 .. Len(m) |-> [x \in S |-> x \o Printed(m, k)]]
           Def(f) == f = [i \in 0 .. Len(m) |->
                            IF i = 0 THEN << >> ELSE f[i - 1] \o Printed(m, i)]
<1>1. Len(m) \in Nat /\ << >> \in S
  BY DEF IsName
<1>2. \A k \in 1 .. Len(m) : \A x \in S : x \o Printed(m, k) \in S
  BY NameIsPrintable, PrintableConcat
<1>3. g \in [1 .. Len(m) -> [S -> S]]
  BY <1>2
<1>4. PICK f \in [0 .. Len(m) -> S] : Iterates(f, << >>, g, Len(m))
  BY <1>1, <1>3, Iteration, Zenon
<1>5. f[0] = << >> /\ \A k \in 1 .. Len(m) : f[k] = f[k - 1] \o Printed(m, k)
  <2>1. \A k \in 1 .. Len(m) : f[k] = g[k][f[k - 1]] /\ f[k - 1] \in S
    <3>1. \A k \in 1 .. Len(m) : k - 1 \in 0 .. Len(m)
      BY <1>1
    <3> QED BY <1>4, <3>1 DEF Iterates
  <2>2. \A k \in 1 .. Len(m) : \A x \in S : g[k][x] = x \o Printed(m, k)
    OBVIOUS
  <2> HIDE DEF g, S
  <2> QED BY <1>4, <2>1, <2>2 DEF Iterates
<1>6. Def(f)
  <2>1. \A i \in 0 .. Len(m) : f[i] = IF i = 0 THEN << >> ELSE f[i - 1] \o Printed(m, i)
    <3> SUFFICES ASSUME NEW i \in 0 .. Len(m)
                 PROVE  f[i] = IF i = 0 THEN << >> ELSE f[i - 1] \o Printed(m, i)
      OBVIOUS
    <3>1. i # 0 => i \in 1 .. Len(m)
      BY <1>1
    <3> QED BY <1>5, <3>1
  <2>2. f = [i \in 0 .. Len(m) |-> f[i]]
    BY <1>4
  <2> QED BY <2>1, <2>2
<1> DEFINE u == CHOOSE f2 : Def(f2)
<1>7. Def(u)
  <2> HIDE DEF Def
  <2> QED BY <1>6
<1>8. PrintName(m) = u[Len(m)]
  BY DEF PrintName
<1> HIDE DEF u
<1>9. u[0] = << >>
  <2>1. 0 \in 0 .. Len(m)
    BY <1>1
  <2> QED BY <1>7, <2>1
<1>10. \A i \in 1 .. Len(m) : u[i] = u[i - 1] \o Printed(m, i)
  <2> SUFFICES ASSUME NEW i \in 1 .. Len(m) PROVE u[i] = u[i - 1] \o Printed(m, i)
    OBVIOUS
  <2>1. i \in 0 .. Len(m) /\ i # 0
    BY <1>1
  <2>2. u[i] = IF i = 0 THEN << >> ELSE u[i - 1] \o Printed(m, i)
    BY <1>7, <2>1
  <2> QED BY <2>1, <2>2
<1>11. \A i \in 0 .. Len(m) : u[i] \in S
  <2>1. u[0] \in S
    BY <1>1, <1>9
  <2>2. \A i \in 1 .. Len(m) : u[i - 1] \in S => u[i] \in S
    BY <1>2, <1>10
  <2> HIDE DEF S
  <2> QED BY <1>1, <2>1, <2>2, IterationStays
<1>12. u \in [0 .. Len(m) -> S]
  <2>1. u = [i \in 0 .. Len(m) |-> u[i]]
    BY <1>7
  <2> HIDE DEF S
  <2> QED BY <1>11, <2>1
<1>13. PrintsUpTo(u, m)
  BY <1>9, <1>10, <1>12 DEF PrintsUpTo
<1> QED BY <1>8, <1>13

\* The lines that are printed of the root and of an entry.
LEMMA PathPrints ==
  /\ PrintPath(ROOT_PATH) = <<ROOT_SYMBOL>>
  /\ \A m : PrintPath(<<m>>) = <<ROOT_SYMBOL>> \o <<DIR_SEPARATOR>> \o PrintName(m)
<1> DEFINE Def(f, path1) ==
      f = [i \in 0 .. Len(path1) |->
             IF i = 0 THEN <<ROOT_SYMBOL>>
                      ELSE f[i - 1] \o <<DIR_SEPARATOR>> \o PrintName(path1[i])]
<1>1. \A p : PrintPath(p) = (CHOOSE f : Def(f, p))[Len(p)]
  BY DEF PrintPath
<1>2. PrintPath(ROOT_PATH) = <<ROOT_SYMBOL>>
  <2> DEFINE f == [i \in 0 .. 0 |-> <<ROOT_SYMBOL>>]
             u == CHOOSE e : Def(e, << >>)
  <2>1. Def(f, << >>)
    OBVIOUS
  <2>2. Def(u, << >>)
    <3> HIDE DEF Def, f
    <3> QED BY <2>1
  <2>3. PrintPath(ROOT_PATH) = u[0]
    BY <1>1 DEF ROOT_PATH
  <2> HIDE DEF u
  <2> QED BY <2>2, <2>3
<1>3. ASSUME NEW m
      PROVE  PrintPath(<<m>>) = <<ROOT_SYMBOL>> \o <<DIR_SEPARATOR>> \o PrintName(m)
  <2> DEFINE t == <<ROOT_SYMBOL>> \o <<DIR_SEPARATOR>> \o PrintName(m)
             f == [i \in 0 .. 1 |-> IF i = 0 THEN <<ROOT_SYMBOL>> ELSE t]
             u == CHOOSE e : Def(e, <<m>>)
  <2>1. Def(f, <<m>>)
    <3>1. 0 .. Len(<<m>>) = {0, 1} /\ 0 .. 1 = {0, 1} /\ <<m>>[1] = m
      OBVIOUS
    <3>2. f[0] = <<ROOT_SYMBOL>>
      OBVIOUS
    <3>3. \A i \in {0, 1} :
            f[i] = IF i = 0 THEN <<ROOT_SYMBOL>>
                            ELSE f[i - 1] \o <<DIR_SEPARATOR>> \o PrintName(<<m>>[i])
      BY <3>1, <3>2
    <3>4. f = [i \in {0, 1} |-> f[i]]
      BY <3>1
    <3> HIDE DEF f
    <3> QED BY <3>1, <3>3, <3>4
  <2>2. Def(u, <<m>>)
    <3> HIDE DEF Def, f
    <3> QED BY <2>1
  <2>3. PrintPath(<<m>>) = u[1]
    BY <1>1
  <2> HIDE DEF u
  <2>4. 0 \in 0 .. Len(<<m>>) /\ 1 \in 0 .. Len(<<m>>) /\ <<m>>[1] = m /\ 1 - 1 = 0
    OBVIOUS
  <2>5. u[0] = <<ROOT_SYMBOL>>
    BY <2>2, <2>4
  <2>6. u[1] = u[0] \o <<DIR_SEPARATOR>> \o PrintName(m)
    <3>1. \A i \in 0 .. Len(<<m>>) :
            u[i] = IF i = 0 THEN <<ROOT_SYMBOL>>
                            ELSE u[i - 1] \o <<DIR_SEPARATOR>> \o PrintName(<<m>>[i])
      BY <2>2, Zenon
    <3>2. 1 # 0
      OBVIOUS
    <3>3. u[1] = u[1 - 1] \o <<DIR_SEPARATOR>> \o PrintName(<<m>>[1])
      BY <2>4, <3>1, <3>2, Zenon
    <3> QED BY <2>4, <3>3, Zenon
  <2> QED BY <2>3, <2>5, <2>6
<1> QED BY <1>2, <1>3

\* What is printable is a text without control characters.
LEMMA PrintableText ==
  ASSUME NEW t \in Seq(Printable)
  PROVE  /\ t \in Seq(Byte) /\ IsText(t)
         /\ \A i \in 1 .. Len(t) : t[i] \in Printable /\ ~IsControl(t[i])
<1>1. \A i \in 1 .. Len(t) : t[i] \in Printable
  BY ElementOfSeq
<1>2. \A c \in Printable : c \in Byte /\ ~IsControl(c) /\ ~IsContinuation(c)
  BY DEF Printable, Byte, IsControl, IsContinuation
<1>3. t \in Seq(Byte)
  BY <1>1, <1>2, SeqMonotonic
<1> QED BY <1>1, <1>2, <1>3 DEF IsText, Byte

\* The line that is printed of an entry.
LEMMA LineOfName ==
  ASSUME NEW m, IsName(m)
  PROVE  LET t == PrintPath(<<m>>)
             p == PrintName(m)
         IN  /\ p \in Seq(Printable)
             /\ t \in Seq(Printable)
             /\ Len(t) = 2 + Len(p)
             /\ t[1] = ROOT_SYMBOL /\ t[2] = DIR_SEPARATOR
             /\ \A i \in 1 .. Len(p) : t[2 + i] = p[i]
<1>1. PICK u : PrintsUpTo(u, m) /\ PrintName(m) = u[Len(m)]
  BY NamePrints
<1>2. Len(m) \in 0 .. Len(m)
  BY DEF IsName
<1>3. PICK p \in Seq(Printable) : p = PrintName(m)
  BY <1>1, <1>2 DEF PrintsUpTo
<1>4. <<ROOT_SYMBOL>> \in Seq(Printable) /\ <<DIR_SEPARATOR>> \in Seq(Printable)
  BY DEF ROOT_SYMBOL, DIR_SEPARATOR, Printable
<1>5. PICK b \in Seq(Printable) : b = <<ROOT_SYMBOL>> \o <<DIR_SEPARATOR>>
  BY <1>4, PrintableConcat
<1>6. Len(b) = 2 /\ b[1] = ROOT_SYMBOL /\ b[2] = DIR_SEPARATOR
  BY <1>5
<1>7. PrintPath(<<m>>) = b \o p
  BY <1>3, <1>5, PathPrints
<1>8. /\ b \o p \in Seq(Printable) /\ Len(b \o p) = Len(b) + Len(p)
      /\ \A i \in 1 .. Len(b) + Len(p) : (b \o p)[i] = IF i <= Len(b) THEN b[i] ELSE p[i - Len(b)]
  BY ConcatProperties
<1>9. PICK t \in Seq(Printable) : t = b \o p
  BY <1>8
<1>10. /\ Len(t) = 2 + Len(p) /\ Len(p) \in Nat
       /\ \A i \in 1 .. 2 + Len(p) : t[i] = IF i <= 2 THEN b[i] ELSE p[i - 2]
  BY <1>6, <1>8, <1>9
<1>11. t[1] = ROOT_SYMBOL /\ t[2] = DIR_SEPARATOR
  BY <1>6, <1>10
<1>12. \A i \in 1 .. Len(p) : t[2 + i] = p[i]
  <2>1. \A i \in 1 .. Len(p) : 2 + i \in 1 .. 2 + Len(p) /\ ~(2 + i <= 2) /\ (2 + i) - 2 = i
    BY <1>10
  <2> QED BY <1>10, <2>1
<1> QED BY <1>3, <1>7, <1>9, <1>10, <1>11, <1>12

\* The bytes of plain names.
LEMMA PlainBytes ==
  ASSUME NEW m, IsPlain(m), NEW i \in 1 .. Len(m)
  PROVE  \E c \in Nat : /\ c = m[i] /\ 32 <= c /\ c <= 126
                       /\ c \notin {34, 39, 92} /\ ~EndsSegment(c)
<1>1. \A x \in (32 .. 126) \ (FORBIDDEN_CHARS \cup {39, 92}) :
        /\ x \in Nat /\ 32 <= x /\ x <= 126
        /\ x \notin {34, 39, 92} /\ ~EndsSegment(x)
  BY DEF FORBIDDEN_CHARS, EndsSegment, IsAsciiControl
<1>2. m[i] \in (32 .. 126) \ (FORBIDDEN_CHARS \cup {39, 92})
  BY DEF IsPlain
<1> QED BY <1>1, <1>2, Zenon

\* A plain name is printed as it is.
LEMMA PlainIsVerbatim ==
  ASSUME NEW m, IsName(m), IsPlain(m)
  PROVE  PrintName(m) = m
<1>1. m \in Seq(Byte) /\ Len(m) \in Nat
  BY DEF IsName
<1>2. ASSUME NEW i \in 1 .. Len(m) PROVE Printed(m, i) = <<m[i]>>
  <2>1. PICK c \in Nat : /\ c = m[i] /\ 32 <= c /\ c <= 126
                         /\ c \notin {34, 39, 92}
    BY PlainBytes
  <2>2. ~IsSecond(m, i)
    <3>1. \A x \in Nat : x <= 126 => ~IsContinuation(x)
      BY DEF IsContinuation
    <3>2. ~IsContinuation(m[i])
      BY <2>1, <3>1
    <3> QED BY <3>2 DEF IsSecond
  <2>3. Character(m, i) = c
    BY <2>1 DEF Character
  <2>4. EscapeDefault(c) = <<c>>
    BY <2>1 DEF EscapeDefault
  <2> QED BY <2>1, <2>2, <2>3, <2>4 DEF Printed
<1>3. PICK u : PrintsUpTo(u, m) /\ PrintName(m) = u[Len(m)]
  BY NamePrints
<1> DEFINE T == {k \in 0 .. Len(m) : Len(u[k]) = k /\ \A j \in 1 .. k : u[k][j] = m[j]}
<1>4. 0 \in T
  BY <1>1, <1>3 DEF PrintsUpTo
<1>5. ASSUME NEW k \in 1 .. Len(m), k - 1 \in T PROVE k \in T
  <2>0. k - 1 \in 0 .. Len(m) /\ k \in 0 .. Len(m)
    BY <1>1
  <2>1. PICK a \in Seq(Printable) : a = u[k - 1]
    BY <1>3, <2>0 DEF PrintsUpTo
  <2>2. u[k] = a \o <<m[k]>>
    BY <1>2, <1>3, <2>1 DEF PrintsUpTo
  <2>3. Len(a) = k - 1 /\ \A j \in 1 .. k - 1 : a[j] = m[j]
    BY <1>5, <2>1
  <2>4. u[k] = Append(a, m[k])
    BY <2>1, <2>2
  <2>5. a \in Seq(Printable \cup {m[k]}) /\ m[k] \in Printable \cup {m[k]}
    BY <2>1, SeqMonotonic
  <2>6. /\ Len(Append(a, m[k])) = Len(a) + 1
        /\ \A j \in 1 .. Len(a) : Append(a, m[k])[j] = a[j]
        /\ Append(a, m[k])[Len(a) + 1] = m[k]
    BY <2>5, AppendProperties
  <2>7. Len(u[k]) = k /\ u[k][k] = m[k] /\ \A j \in 1 .. k - 1 : u[k][j] = m[j]
    BY <1>1, <2>3, <2>4, <2>6
  <2>8. \A j \in 1 .. k : j = k \/ j \in 1 .. k - 1
    BY <1>1
  <2>9. \A j \in 1 .. k : u[k][j] = m[j]
    BY <2>7, <2>8
  <2> QED BY <1>1, <2>7, <2>9
<1> HIDE DEF T
<1>6. Len(m) \in T
  <2>1. \A k \in 0 .. Len(m) : k \in T
    BY <1>1, <1>4, <1>5, StepByStep
  <2> QED BY <1>1, <2>1
<1>7. PICK p \in Seq(Printable) : p = u[Len(m)]
  BY <1>1, <1>3 DEF PrintsUpTo
<1>8. Len(p) = Len(m) /\ \A j \in 1 .. Len(p) : p[j] = m[j]
  BY <1>6, <1>7 DEF T
<1>9. p \in Seq(Byte)
  BY PrintableText
<1>10. p = m
  BY <1>1, <1>8, <1>9, SeqEqual
<1> QED BY <1>3, <1>7, <1>10

\* A plain name typed as it is listed is read as that name.
LEMMA PlainReadsBack ==
  ASSUME NEW m, IsName(m), IsPlain(m)
  PROVE  TryFromStr(PrintPath(<<m>>)) = [ok |-> TRUE, path |-> <<m>>]
<1>1. m \in Seq(Byte) /\ Len(m) \in 1 .. 10 /\ \A i \in 1 .. Len(m) : ~IsControl(m[i])
  BY DEF IsName
<1>2. PICK t : t = PrintPath(<<m>>)
  OBVIOUS
<1>3. /\ t \in Seq(Byte) /\ Len(t) = 2 + Len(m)
      /\ t[1] = ROOT_SYMBOL /\ t[2] = DIR_SEPARATOR
      /\ \A i \in 1 .. Len(m) : t[2 + i] = m[i]
  BY <1>2, LineOfName, PlainIsVerbatim, PrintableText
<1>4. \A i \in 1 .. Len(m) : ~EndsSegment(m[i])
  BY PlainBytes
<1> DEFINE L == SegmentLength(t, 3)
<1>5. L = Len(m)
  <2>1. 3 \in 1 .. Len(t) + 1
    BY <1>1, <1>3
  <2>2. /\ L \in 0 .. 10 /\ 3 + L <= Len(t) + 1
        /\ L = 10 \/ 3 + L = Len(t) + 1 \/ EndsSegment(t[3 + L])
    BY <1>3, <2>1, SegmentIs
  <2> HIDE DEF L
  <2>6. PICK l \in 0 .. 10, n \in 1 .. 10 : l = L /\ n = Len(m)
    BY <1>1, <2>2
  <2>7. Len(t) = 2 + n /\ l <= n
    BY <1>3, <2>2, <2>6
  <2>3. l = L /\ n = Len(m) /\ l <= n
    BY <2>6, <2>7
  <2>4. l < n => ~EndsSegment(t[3 + l])
    <3>1. l < n => 1 + l \in 1 .. n /\ 2 + (1 + l) = 3 + l
      OBVIOUS
    <3> QED BY <1>3, <1>4, <2>3, <3>1
  <2>8. l = 10 \/ 3 + l = Len(t) + 1 \/ EndsSegment(t[3 + l])
    BY <2>2, <2>3
  <2>5. ~(l < n)
    BY <2>4, <2>7, <2>8
  <2> QED BY <2>3, <2>5
<1> HIDE DEF L
<1>6. t # << >>
  BY <1>3, EmptySeq
<1>7. SegmentAt(t, 2) /\ Behind(t, 2) = 3 + Len(m)
  <2>1. 2 <= Len(t) /\ 2 + 1 = 3 /\ L # 0
    BY <1>1, <1>3, <1>5
  <2>2. SegmentAt(t, 2)
    BY <1>3, <2>1 DEF SegmentAt, L
  <2> QED BY <1>5, <2>1, <2>2 DEF Behind, L
<1>8. Stops(t)[0] = 2 /\ Stops(t)[1] = 3 + Len(m)
  <2>1. 1 \in 1 .. Len(t) /\ 1 - 1 = 0
    BY <1>1, <1>3
  <2>2. Stops(t)[0] = 2 /\ Stops(t)[1] = Behind(t, Stops(t)[1 - 1])
    BY <1>3, <1>6, <2>1, StopsFollow
  <2> QED BY <1>7, <2>1, <2>2
<1>9. CountSegments(t) = 1
  <2>1. ~SegmentAt(t, 3 + Len(m))
    BY <1>1, <1>3 DEF SegmentAt
  <2>2. 1 \in 0 .. Len(t) /\ \A k \in 0 .. 1 - 1 : k = 0
    BY <1>1, <1>3
  <2>3. IsSegmentCount(t, 1)
    BY <1>7, <1>8, <2>1, <2>2 DEF IsSegmentCount
  <2> QED BY <1>3, <1>6, <2>3, OneSegmentCount
<1>10. AtEnd(t, Stops(t)[CountSegments(t)])
  BY <1>1, <1>3, <1>8, <1>9 DEF AtEnd
<1>11. TryFromStr(t) = [ok |-> TRUE, path |-> SegmentsOf(t)]
  BY <1>3, <1>6, <1>10, Accepted
<1>12. SubSeq(t, 2 + 1, 3 + Len(m) - 1) = m
  <2>1. PICK n \in 1 .. 10 : n = Len(m)
    BY <1>1
  <2>2. 2 + 1 = 3 /\ 3 + Len(m) - 1 = 2 + n
    BY <2>1
  <2>3. \A i \in 3 .. 2 + n : i \in 1 .. Len(t)
    BY <1>3, <2>1
  <2>4. \A i \in 3 .. 2 + n : t[i] \in Byte
    BY <1>3, <2>3, ElementOfSeq
  <2>5. /\ SubSeq(t, 3, 2 + n) \in Seq(Byte)
        /\ Len(SubSeq(t, 3, 2 + n)) = IF 3 <= 2 + n THEN (2 + n) - 3 + 1 ELSE 0
        /\ \A i \in 1 .. (2 + n) - 3 + 1 : SubSeq(t, 3, 2 + n)[i] = t[3 + i - 1]
    BY <2>4, SubSeqProperties
  <2>6. PICK s \in Seq(Byte) : s = SubSeq(t, 3, 2 + n)
    BY <2>5
  <2>7. Len(s) = n /\ \A i \in 1 .. n : s[i] = t[2 + i]
    <3>1. (2 + n) - 3 + 1 = n /\ 3 <= 2 + n /\ \A i \in 1 .. n : 3 + i - 1 = 2 + i
      OBVIOUS
    <3> QED BY <2>5, <2>6, <3>1
  <2>8. s = m
    BY <1>1, <1>3, <2>1, <2>7, SeqEqual
  <2> QED BY <2>2, <2>6, <2>8
<1>13. SegmentsOf(t) = <<m>>
  <2>1. ValidRange(m) = m
    BY <1>1, AllIsValid
  <2>2. SegmentsOf(t) =
          [k \in 1 .. 1 |-> ValidRange(SubSeq(t, Stops(t)[k - 1] + 1, Stops(t)[k] - 1))]
    BY <1>9 DEF SegmentsOf
  <2>3. \A k \in 1 .. 1 : k - 1 = 0 /\ k = 1
    OBVIOUS
  <2>4. \A k \in 1 .. 1 :
          ValidRange(SubSeq(t, Stops(t)[k - 1] + 1, Stops(t)[k] - 1)) = m
    <3> SUFFICES ASSUME NEW k \in 1 .. 1
                 PROVE  ValidRange(SubSeq(t, Stops(t)[k - 1] + 1, Stops(t)[k] - 1)) = m
      OBVIOUS
    <3>1. Stops(t)[k - 1] = 2 /\ Stops(t)[k] = 3 + Len(m)
      BY <1>8, <2>3
    <3>2. SubSeq(t, Stops(t)[k - 1] + 1, Stops(t)[k] - 1) = m
      BY <1>12, <3>1
    <3> QED BY <2>1, <3>2, Zenon
  <2>5. SegmentsOf(t) = [k \in 1 .. 1 |-> m]
    BY <2>2, <2>4
  <2> QED BY <2>5
<1> QED BY <1>2, <1>11, <1>13

\* A printable byte that ends no segment is printed as it is or behind a backslash, and
\* as it is only if it is plain.
LEMMA PrintsItself ==
  ASSUME NEW m, IsName(m), NEW i \in 1 .. Len(m),
         m[i] \in Printable, ~EndsSegment(m[i])
  PROVE  \/ Printed(m, i) = <<m[i]>> /\ m[i] \in (32 .. 126) \ (FORBIDDEN_CHARS \cup {39, 92})
         \/ Printed(m, i) = <<92, m[i]>>
<1>1. PICK c \in Nat : c = m[i] /\ 32 <= c /\ c <= 126 /\ c \notin FORBIDDEN_CHARS
  BY DEF Printable, EndsSegment
<1>2. \A x \in Nat : x <= 126 => ~IsContinuation(x)
  BY DEF IsContinuation
<1>3. ~IsContinuation(m[i])
  BY <1>1, <1>2
<1>4. ~IsSecond(m, i)
  BY <1>3 DEF IsSecond
<1>5. Character(m, i) = c
  BY <1>1 DEF Character
<1>6. Printed(m, i) = EscapeDefault(c)
  BY <1>4, <1>5 DEF Printed
<1>7. CASE c \in {34, 39, 92}
  <2>1. EscapeDefault(c) = <<92, c>>
    <3>1. ~(c > 126)
      BY <1>1
    <3> QED BY <1>7, <3>1 DEF EscapeDefault
  <2>2. Printed(m, i) = <<92, m[i]>>
    BY <1>1, <1>6, <2>1, Zenon
  <2> QED BY <2>2
<1>8. CASE c \notin {34, 39, 92}
  <2>1. EscapeDefault(c) = <<c>>
    BY <1>1, <1>8 DEF EscapeDefault
  <2>2. c \in (32 .. 126) \ (FORBIDDEN_CHARS \cup {39, 92})
    <3>0. 32 <= c /\ c <= 126
      BY <1>1
    <3>1. c \in 32 .. 126
      BY <3>0
    <3>2. c \notin FORBIDDEN_CHARS \cup {39, 92}
      BY <1>1, <1>8
    <3> QED BY <3>1, <3>2
  <2>3. Printed(m, i) = <<m[i]>>
    BY <1>1, <1>6, <2>1, Zenon
  <2> QED BY <1>1, <2>2, <2>3, Zenon
<1> QED BY <1>7, <1>8

\* What is read back as the name it was printed from is at most a separator longer.
LEMMA ReadBackIsPrefix ==
  ASSUME NEW m, IsName(m),
         TryFromStr(PrintPath(<<m>>)) = [ok |-> TRUE, path |-> <<m>>]
  PROVE  LET p == PrintName(m)
         IN  /\ \A i \in 1 .. Len(m) : m[i] \in Printable /\ ~EndsSegment(m[i])
             /\ \/ Len(p) = Len(m)
                \/ Len(p) = Len(m) + 1 /\ p[Len(p)] = DIR_SEPARATOR
<1>1. m \in Seq(Byte) /\ Len(m) \in 1 .. 10
  BY DEF IsName
<1>2. PICK t, p : t = PrintPath(<<m>>) /\ p = PrintName(m)
  OBVIOUS
<1>3. /\ p \in Seq(Printable) /\ t \in Seq(Printable) /\ Len(t) = 2 + Len(p)
      /\ t[1] = ROOT_SYMBOL /\ t[2] = DIR_SEPARATOR
      /\ \A i \in 1 .. Len(p) : t[2 + i] = p[i]
  BY <1>2, LineOfName
<1>4. /\ t \in Seq(Byte) /\ t # << >>
      /\ \A i \in 1 .. Len(t) : t[i] \in Printable /\ ~IsControl(t[i])
  BY <1>3, PrintableText, EmptySeq
<1>5. TryFromStr(t) = [ok |-> TRUE, path |-> <<m>>]
  BY <1>2
<1>6. SegmentsOf(t) = <<m>> /\ AtEnd(t, Stops(t)[CountSegments(t)])
  BY <1>4, <1>5, Accepted
<1>7. PICK n \in Nat : n = CountSegments(t)
  BY <1>4, StopsAscend
<1>8. n = 1
  <2>1. SegmentsOf(t) = [k \in 1 .. n |->
                           ValidRange(SubSeq(t, Stops(t)[k - 1] + 1, Stops(t)[k] - 1))]
    BY <1>7 DEF SegmentsOf
  <2>2. Len(SegmentsOf(t)) = n
    BY <2>1
  <2>3. Len(<<m>>) = 1
    OBVIOUS
  <2> QED BY <1>6, <2>2, <2>3, Zenon
<1>9. /\ Stops(t)[0] = 2 /\ SegmentAt(t, 2) /\ Stops(t)[1] = Behind(t, 2)
  <2>1. 1 \in 1 .. CountSegments(t) /\ 1 - 1 = 0 /\ 1 \in 1 .. Len(t)
    BY <1>3, <1>7, <1>8
  <2>2. SegmentAt(t, Stops(t)[1 - 1]) /\ Stops(t)[1] = Behind(t, Stops(t)[1 - 1])
    BY <1>4, <2>1, StopsAscend
  <2>3. Stops(t)[0] = 2
    BY <1>4, StopsFollow
  <2> QED BY <2>1, <2>2, <2>3
<1>10. PICK e \in Nat : e = Stops(t)[1]
  <2>1. 1 \in 0 .. Len(t)
    BY <1>3
  <2>2. Stops(t)[1] \in 2 .. Len(t) + 1
    BY <1>4, <2>1, StopsFollow
  <2> QED BY <2>2
<1>11. /\ e \in 4 .. 13 /\ e <= Len(t) + 1
       /\ \A i \in 3 .. e - 1 : ~EndsSegment(t[i])
  <2>1. 2 \in 2 .. Len(t) + 1
    BY <1>3
  <2>2. /\ Behind(t, 2) \in 2 + 2 .. 2 + 11 /\ Behind(t, 2) <= Len(t) + 1
        /\ \A i \in 2 + 1 .. Behind(t, 2) - 1 : ~EndsSegment(t[i])
    BY <1>4, <1>9, <2>1, SegmentBehind
  <2> QED BY <1>9, <1>10, <2>2
<1>12. PICK s : s = SubSeq(t, 3, e - 1)
  OBVIOUS
<1>13. /\ s \in Seq(Byte) /\ Len(s) = e - 3
       /\ \A i \in 1 .. Len(s) : s[i] = t[2 + i]
       /\ \A i \in 1 .. Len(s) : 2 + i \in 3 .. e - 1 /\ 2 + i \in 1 .. Len(t)
  <2>1. \A i \in 3 .. e - 1 : i \in 1 .. Len(t)
    BY <1>3, <1>11
  <2>2. 3 \in Int /\ e - 1 \in Int /\ \A i \in 3 .. e - 1 : t[i] \in Byte
    BY <1>4, <1>11, <2>1, ElementOfSeq
  <2>3. /\ SubSeq(t, 3, e - 1) \in Seq(Byte)
        /\ Len(SubSeq(t, 3, e - 1)) = IF 3 <= e - 1 THEN (e - 1) - 3 + 1 ELSE 0
        /\ \A i \in 1 .. (e - 1) - 3 + 1 : SubSeq(t, 3, e - 1)[i] = t[3 + i - 1]
    BY <2>2, SubSeqProperties
  <2>4. 3 <= e - 1 /\ (e - 1) - 3 + 1 = e - 3 /\ \A i \in 1 .. e - 3 : 3 + i - 1 = 2 + i
    BY <1>11
  <2>5. \A i \in 1 .. e - 3 : 2 + i \in 3 .. e - 1
    BY <1>11
  <2> QED BY <1>12, <2>1, <2>3, <2>4, <2>5
<1>14. s = m
  <2>1. ValidRange(s) = s
    BY <1>4, <1>13, AllIsValid
  <2>2. \A k \in 1 .. 1 : k - 1 = 0 /\ k = 1
    OBVIOUS
  <2>3. SegmentsOf(t)[1] = ValidRange(SubSeq(t, Stops(t)[1 - 1] + 1, Stops(t)[1] - 1))
    BY <1>7, <1>8 DEF SegmentsOf
  <2>4. Stops(t)[1 - 1] + 1 = 3 /\ Stops(t)[1] - 1 = e - 1
    BY <1>9, <1>10
  <2>5. SegmentsOf(t)[1] = ValidRange(s)
    BY <1>12, <2>3, <2>4, Zenon
  <2>6. <<m>>[1] = m
    OBVIOUS
  <2> QED BY <1>6, <2>1, <2>5, <2>6, Zenon
<1>15. \A i \in 1 .. Len(m) : m[i] \in Printable /\ ~EndsSegment(m[i])
  BY <1>4, <1>11, <1>13, <1>14
<1>16. e = Len(t) + 1 \/ (e = Len(t) /\ t[e] = DIR_SEPARATOR)
  BY <1>6, <1>7, <1>8, <1>10 DEF AtEnd
<1>17. Len(p) \in Nat /\ Len(m) = e - 3 /\ Len(t) = 2 + Len(p)
  BY <1>3, <1>13, <1>14
<1>18. CASE e = Len(t) + 1
  BY <1>2, <1>15, <1>17, <1>18
<1>19. CASE e = Len(t) /\ t[e] = DIR_SEPARATOR
  <2>1. Len(p) = Len(m) + 1 /\ Len(p) \in 1 .. Len(p) /\ 2 + Len(p) = e
    BY <1>11, <1>17, <1>19
  <2>2. p[Len(p)] = DIR_SEPARATOR
    BY <1>3, <1>19, <2>1
  <2> QED BY <1>2, <1>15, <2>1, <2>2
<1> QED BY <1>16, <1>18, <1>19

\* An escape makes the line longer, so that only a plain name is read back.
LEMMA ReadBackIsPlain ==
  ASSUME NEW m, IsName(m),
         TryFromStr(PrintPath(<<m>>)) = [ok |-> TRUE, path |-> <<m>>]
  PROVE  IsPlain(m)
<1>1. m \in Seq(Byte) /\ Len(m) \in 1 .. 10 /\ Len(m) \in Nat
  BY DEF IsName
<1>2. PICK u : PrintsUpTo(u, m) /\ PrintName(m) = u[Len(m)]
  BY NamePrints
<1>3. ASSUME NEW i \in 1 .. Len(m)
      PROVE  \/ Printed(m, i) = <<m[i]>> /\ m[i] \in (32 .. 126) \ (FORBIDDEN_CHARS \cup {39, 92})
             \/ Printed(m, i) = <<92, m[i]>>
  BY ReadBackIsPrefix, PrintsItself
<1>4. \A i \in 1 .. Len(m) : m[i] \in Printable /\ ~EndsSegment(m[i])
  BY ReadBackIsPrefix
<1> DEFINE Escaped(k) == \E i \in 1 .. k : Printed(m, i) = <<92, m[i]>>
           T == {k \in 0 .. Len(m) : /\ Len(u[k]) >= k
                                     /\ Escaped(k) => Len(u[k]) >= k + 1
                                     /\ k > 0 => u[k][Len(u[k])] = m[k]}
<1>5. 0 \in T
  <2>1. u[0] = << >> /\ 0 \in 0 .. Len(m)
    BY <1>1, <1>2 DEF PrintsUpTo
  <2>2. ~Escaped(0)
    OBVIOUS
  <2> HIDE DEF Escaped
  <2> QED BY <2>1, <2>2
<1>6. ASSUME NEW k \in 1 .. Len(m), k - 1 \in T PROVE k \in T
  <2>0. k - 1 \in 0 .. Len(m) /\ k \in 0 .. Len(m)
    BY <1>1
  <2>1. PICK a \in Seq(Printable), b \in Seq(Printable) : a = u[k - 1] /\ b = u[k]
    BY <1>2, <2>0 DEF PrintsUpTo
  <2>2. PICK x \in Seq(Printable) : x = Printed(m, k)
    BY NameIsPrintable
  <2>3. b = a \o x
    BY <1>2, <2>1, <2>2 DEF PrintsUpTo
  <2>4. /\ Len(b) = Len(a) + Len(x)
        /\ \A i \in 1 .. Len(a) + Len(x) : b[i] = IF i <= Len(a) THEN a[i] ELSE x[i - Len(a)]
    BY <2>3, ConcatProperties
  <2>5. Len(a) >= k - 1 /\ (Escaped(k - 1) => Len(a) >= k)
    <3> HIDE DEF Escaped
    <3>1. Len(a) >= k - 1 /\ (Escaped(k - 1) => Len(a) >= (k - 1) + 1)
      BY <1>6, <2>1
    <3> QED BY <2>0, <3>1
  <2>6. PICK l \in {1, 2} : l = Len(x) /\ x[l] = m[k] /\ (Printed(m, k) = <<92, m[k]>> => l = 2)
    <3>1. CASE Printed(m, k) = <<m[k]>>
      <4>1. x = <<m[k]>>
        BY <2>2, <3>1, Zenon
      <4>2. Len(x) = 1 /\ x[1] = m[k] /\ x # <<92, m[k]>>
        BY <4>1
      <4> QED BY <2>2, <4>2
    <3>2. CASE Printed(m, k) = <<92, m[k]>>
      <4>1. x = <<92, m[k]>>
        BY <2>2, <3>2, Zenon
      <4>2. Len(x) = 2 /\ x[2] = m[k]
        BY <4>1
      <4> QED BY <4>2
    <3> QED BY <1>3, <3>1, <3>2
  <2>7. PICK y \in Nat : y = Len(a)
    BY <2>1
  <2>8. Len(b) = y + l /\ b[y + l] = m[k]
    <3>1. y + l \in 1 .. y + l /\ ~(y + l <= y) /\ (y + l) - y = l
      BY <2>6, <2>7
    <3>2. Len(b) = y + l /\ b[y + l] = x[l]
      BY <2>4, <2>6, <2>7, <3>1
    <3> QED BY <2>6, <3>2
  <2>11. PICK z \in Nat : z = Len(b)
    BY <2>1
  <2>12. z = y + l /\ y >= k - 1 /\ (Escaped(k - 1) => y >= k)
    <3> HIDE DEF Escaped
    <3> QED BY <2>5, <2>7, <2>8, <2>11, Zenon
  <2>13. z >= k
    <3>1. z = y + l /\ y >= k - 1
      BY <2>12
    <3> QED BY <3>1
  <2>9. Len(b) >= k
    BY <2>11, <2>13, Zenon
  <2>10. ASSUME Escaped(k) PROVE Len(b) >= k + 1
    <3>1. PICK i \in 1 .. k : Printed(m, i) = <<92, m[i]>>
      BY <2>10
    <3>2. CASE i = k
      <4>1. Printed(m, k) = <<92, m[k]>>
        BY <3>1, <3>2, Zenon
      <4>2. l = 2
        BY <2>6, <4>1, Zenon
      <4>3. z = y + l /\ y >= k - 1
        BY <2>12
      <4>4. z >= k + 1
        BY <4>2, <4>3
      <4> QED BY <2>11, <4>4, Zenon
    <3>3. CASE i # k
      <4>1. i \in 1 .. k - 1
        BY <3>3
      <4>2. Escaped(k - 1)
        BY <3>1, <4>1
      <4> HIDE DEF Escaped
      <4>3. z = y + l /\ y >= k
        BY <2>12, <4>2
      <4>4. z >= k + 1
        BY <4>3
      <4> QED BY <2>11, <4>4, Zenon
    <3> QED BY <3>2, <3>3
  <2> HIDE DEF Escaped
  <2> QED BY <2>0, <2>1, <2>8, <2>9, <2>10
<1> HIDE DEF T
<1>7. Len(m) \in T
  <2>1. \A k \in 0 .. Len(m) : k \in T
    BY <1>1, <1>5, <1>6, StepByStep
  <2> QED BY <1>1, <2>1
<1>8. PICK p : p = PrintName(m)
  OBVIOUS
<1>9. /\ Escaped(Len(m)) => Len(p) >= Len(m) + 1
      /\ p[Len(p)] = m[Len(m)]
  <2> HIDE DEF Escaped
  <2>3. p = u[Len(m)]
    BY <1>2, <1>8, Zenon
  <2>1. Len(m) > 0
    <3>1. \A l \in 1 .. 10 : l > 0
      OBVIOUS
    <3> QED BY <1>1, <3>1, Zenon
  <2>2. /\ Escaped(Len(m)) => Len(u[Len(m)]) >= Len(m) + 1
        /\ Len(m) > 0 => u[Len(m)][Len(u[Len(m)])] = m[Len(m)]
    BY <1>7 DEF T
  <2> QED BY <2>1, <2>2, <2>3, Zenon
<1>10. \/ Len(p) = Len(m)
       \/ Len(p) = Len(m) + 1 /\ p[Len(p)] = DIR_SEPARATOR
  BY <1>8, ReadBackIsPrefix
<1>11. m[Len(m)] # DIR_SEPARATOR
  <2>1. Len(m) \in 1 .. Len(m)
    BY <1>1
  <2> QED BY <1>4, <2>1, SeparatorEnds
<1>12. Len(p) = Len(m)
  BY <1>9, <1>10, <1>11
<1>13. ~Escaped(Len(m))
  <2> HIDE DEF Escaped
  <2>1. ~(Len(m) >= Len(m) + 1)
    BY <1>1
  <2> QED BY <1>9, <1>12, <2>1
<1>14. \A i \in 1 .. Len(m) : m[i] \in (32 .. 126) \ (FORBIDDEN_CHARS \cup {39, 92})
  <2> SUFFICES ASSUME NEW i \in 1 .. Len(m)
               PROVE  m[i] \in (32 .. 126) \ (FORBIDDEN_CHARS \cup {39, 92})
    OBVIOUS
  <2>1. Printed(m, i) # <<92, m[i]>>
    BY <1>13
  <2> QED BY <1>3, <2>1, Zenon
<1> QED BY <1>14, Zenon DEF IsPlain

\* The names in the path of a text: a text is UTF-8, so that no byte between 80 and 9F
\* follows a separator, and no segment that is accepted becomes empty when it is cut.
LEMMA TextNames ==
  ASSUME NEW t, IsText(t), TryFromStr(t).ok
  PROVE  \A k \in 1 .. Len(TryFromStr(t).path) : IsName(TryFromStr(t).path[k])
<1> DEFINE n == CountSegments(t)
           s == Stops(t)
<1>1. t \in Seq(Byte) /\ \A i \in 1 .. Len(t) : IsContinuation(t[i]) => t[i - 1] >= 128
  BY DEF IsText, Byte
<1>2. TryFromStr(t).path = SegmentsOf(t) /\ t # << >>
  BY <1>1, Accepted
<1>3. n \in Nat /\ Len(SegmentsOf(t)) = n
  <2>1. n \in Nat
    BY <1>1, <1>2, StopsAscend
  <2> HIDE DEF n
  <2>2. SegmentsOf(t) = [k \in 1 .. n |-> ValidRange(SubSeq(t, s[k - 1] + 1, s[k] - 1))]
    BY DEF SegmentsOf, n
  <2> QED BY <2>1, <2>2
<1>4. ASSUME NEW k \in 1 .. n PROVE IsName(SegmentsOf(t)[k])
  <2>1. SegmentsOf(t)[k] = ValidRange(SubSeq(t, s[k - 1] + 1, s[k] - 1))
    BY <1>3 DEF SegmentsOf
  <2>2. SegmentAt(t, s[k - 1]) /\ s[k] = Behind(t, s[k - 1])
    BY <1>1, <1>2, StopsAscend
  <2>3. s[k - 1] \in 2 .. Len(t) + 1
    <3>1. k - 1 \in 0 .. n
      BY <1>3
    <3> QED BY <1>1, <1>2, <3>1, StopsAscend
  <2>4. PICK x \in 2 .. Len(t) + 1 : x = s[k - 1]
    BY <2>3
  <2>5. SegmentAt(t, x) /\ s[k] = Behind(t, x)
    BY <2>2, <2>4, Zenon
  <2>6. /\ x <= Len(t) /\ t[x] = DIR_SEPARATOR
        /\ Behind(t, x) \in x + 2 .. x + 11 /\ Behind(t, x) <= Len(t) + 1
        /\ \A i \in x + 1 .. Behind(t, x) - 1 : ~EndsSegment(t[i])
    BY <1>1, <2>5, SegmentBehind
  <2>7. PICK e \in x + 2 .. x + 11 : e = Behind(t, x)
    BY <2>6
  <2>8. e <= Len(t) + 1 /\ \A i \in x + 1 .. e - 1 : ~EndsSegment(t[i])
    BY <2>6, <2>7, Zenon
  <2>9. PICK f : f = SubSeq(t, x + 1, e - 1)
    OBVIOUS
  <2>10. f \in Seq(Byte) /\ Len(f) = e - 1 - x /\ f[1] = t[x + 1]
    <3>1. \A i \in x + 1 .. e - 1 : i \in 1 .. Len(t)
      BY <2>8
    <3>2. x + 1 \in Int /\ e - 1 \in Int /\ \A i \in x + 1 .. e - 1 : t[i] \in Byte
      BY <1>1, <3>1, ElementOfSeq
    <3>3. /\ SubSeq(t, x + 1, e - 1) \in Seq(Byte)
          /\ Len(SubSeq(t, x + 1, e - 1))
               = IF x + 1 <= e - 1 THEN (e - 1) - (x + 1) + 1 ELSE 0
          /\ \A i \in 1 .. (e - 1) - (x + 1) + 1 :
               SubSeq(t, x + 1, e - 1)[i] = t[(x + 1) + i - 1]
      BY <3>2, SubSeqProperties
    <3>4. /\ x + 1 <= e - 1 /\ (e - 1) - (x + 1) + 1 = e - 1 - x
          /\ 1 \in 1 .. e - 1 - x /\ (x + 1) + 1 - 1 = x + 1
      OBVIOUS
    <3> QED BY <2>9, <3>3, <3>4
  <2>11. Len(f) \in 1 .. 10
    <3>1. e - 1 - x \in 1 .. 10
      OBVIOUS
    <3> QED BY <2>10, <3>1
  <2>12. ~IsControl(f[1])
    <3>1. x + 1 \in x + 1 .. e - 1 /\ x + 1 \in 1 .. Len(t) /\ (x + 1) - 1 = x
      BY <2>8
    <3>2. ~EndsSegment(t[x + 1])
      BY <2>8, <3>1
    <3>3. ~IsContinuation(t[x + 1])
      <4>1. ~(DIR_SEPARATOR >= 128)
        BY DEF DIR_SEPARATOR
      <4>2. IsContinuation(t[x + 1]) => t[(x + 1) - 1] >= 128
        BY <1>1, <3>1
      <4> QED BY <2>6, <3>1, <4>1, <4>2
    <3>4. t[x + 1] \in Byte
      BY <1>1, <3>1, ElementOfSeq
    <3>5. \A c \in Byte : ~EndsSegment(c) /\ ~IsContinuation(c) => ~IsControl(c)
      BY DEF Byte, EndsSegment, IsAsciiControl, IsContinuation, IsControl
    <3> QED BY <2>10, <3>2, <3>3, <3>4, <3>5, Zenon
  <2>13. IsName(ValidRange(f))
    BY <2>10, <2>11, <2>12, NameOfField
  <2>14. SubSeq(t, s[k - 1] + 1, s[k] - 1) = f
    BY <2>4, <2>5, <2>7, <2>9, Zenon
  <2> QED BY <2>1, <2>13, <2>14, Zenon
<1> HIDE DEF n
<1> QED BY <1>2, <1>3, <1>4, Zenon

\* What is listed of the root and of entries with names is text.
LEMMA LinesAreTexts ==
  /\ IsText(PrintPath(ROOT_PATH))
  /\ \A m : IsName(m) => IsText(PrintPath(<<m>>))
<1>1. IsText(PrintPath(ROOT_PATH))
  <2>1. <<ROOT_SYMBOL>> \in Seq(Printable)
    BY DEF ROOT_SYMBOL, Printable
  <2> QED BY <2>1, PathPrints, PrintableText
<1>2. ASSUME NEW m, IsName(m) PROVE IsText(PrintPath(<<m>>))
  BY <1>2, LineOfName, PrintableText
<1> QED BY <1>1, <1>2

\* An error leaves no entries.
LEMMA ErrorHasNoEntries ==
  ASSUME NEW d, ~ParseDirectory(d).ok
  PROVE  ParseDirectory(d).entries = << >>
BY DEF ParseDirectory, DirectoryError

-----------------------------------------------------------------------------
(* The invariant *)

(***************************************************************************)
(* What is held of a directory is what parse returns of the bytes that     *)
(* were read, the lines are those of its paths, and what is typed is one   *)
(* of them or the user's own text, with the path that it denotes.          *)
(***************************************************************************)
IInv ==
  /\ session \in Sessions
  /\ stage \in {"start", "read", "failed", "panicked", "listed", "typed"}
  /\ stage = "start" => entries = << >>
  /\ stage # "start" =>
       /\ entries = ParseDirectory(session.read).entries
       /\ faults = ParseDirectory(session.read).faults
  /\ stage \in {"read", "panicked", "listed", "typed"} => ParseDirectory(session.read).ok
  /\ stage \in {"listed", "typed"} => lines = {PrintPath(k) : k \in Keys}
  /\ stage = "typed" => typed \in lines \cup {session.text}
  /\ path = IF stage = "typed" THEN TryFromStr(typed) ELSE NoPath

\* The invariant holds at first.
LEMMA InitIInv ==
  Init => IInv
BY DEF Init, IInv

\* Every step keeps the invariant.
LEMMA NextIInv ==
  IInv /\ [Next]_vars => IInv'
<1> SUFFICES ASSUME IInv, [Next]_vars PROVE IInv'
  OBVIOUS
<1>1. CASE ReadDirectory
  <2>1. stage = "start" /\ stage' \in {"read", "failed"}
    BY <1>1 DEF ReadDirectory
  <2>2. path = NoPath
    BY <2>1 DEF IInv
  <2> QED BY <1>1, <2>1, <2>2 DEF ReadDirectory, IInv
<1>2. CASE Explode
  BY <1>2 DEF Explode, IInv
<1>3. CASE List
  BY <1>3 DEF List, IInv, Keys
<1>4. ASSUME NEW text \in lines \cup {session.text}, Type(text) PROVE IInv'
  BY <1>4 DEF Type, IInv, Keys
<1>5. CASE UNCHANGED vars
  BY <1>5 DEF vars, IInv, Keys
<1> QED BY <1>1, <1>2, <1>3, <1>4, <1>5 DEF Next

\* The entries that are held have names, and what has been typed is text.
LEMMA EntriesAndTexts ==
  ASSUME IInv
  PROVE  /\ Len(entries) \in 0 .. C
         /\ \A i \in 1 .. Len(entries) :
              IsName(entries[i].name) /\ Len(entries[i].fields) = 16
         /\ stage = "typed" => IsText(typed)
<1> DEFINE d == session.read
<1>1. d \in DirectoryBytes /\ IsText(session.text)
  BY SessionsAssumption DEF IInv
<1>2. entries = << >> \/ (entries = ParseDirectory(d).entries /\ ParseDirectory(d).ok)
  BY ErrorHasNoEntries DEF IInv
<1>3. /\ Len(entries) \in 0 .. C
      /\ \A i \in 1 .. Len(entries) :
           IsName(entries[i].name) /\ Len(entries[i].fields) = 16
  <2>1. CASE entries = << >>
    <3>1. Len(entries) = 0 /\ 0 \in 0 .. C /\ 1 .. 0 = {}
      BY <2>1, CapacityAssumption DEF C
    <3> QED BY <3>1
  <2>2. CASE entries = ParseDirectory(d).entries /\ ParseDirectory(d).ok
    BY <1>1, <2>2, EntryNames
  <2> QED BY <1>2, <2>1, <2>2
<1>4. ASSUME stage = "typed" PROVE IsText(typed)
  <2>1. typed \in {PrintPath(k) : k \in Keys} \cup {session.text}
    BY <1>4 DEF IInv
  <2>2. \A k \in Keys : k = ROOT_PATH \/ \E i \in 1 .. Len(entries) : k = <<entries[i].name>>
    BY DEF Keys
  <2>3. \A k \in Keys : IsText(PrintPath(k))
    BY <1>3, <2>2, LinesAreTexts
  <2> QED BY <1>1, <2>1, <2>3
<1> QED BY <1>3, <1>4

(***************************************************************************)
(* What is held of the directory, listed and typed is what was parsed, in  *)
(* every state.                                                            *)
(***************************************************************************)
THEOREM Inductive == Spec => []IInv
<1>1. Init => IInv
  BY InitIInv
<1>2. IInv /\ [Next]_vars => IInv'
  BY NextIInv
<1> QED BY <1>1, <1>2, PTL DEF Spec

(***************************************************************************)
(* Damage to one byte of a directory of any size is an error, has a        *)
(* warning, changes the number of entries or leaves them all as they were  *)
(* written.                                                                *)
(***************************************************************************)
THEOREM NoticedDamage == Spec => []DamageIsNoticed
<1>1. IInv => DamageIsNoticed
  <2> SUFFICES ASSUME IInv, stage = "read", Quiet, NEW w \in session.written,
                      Cardinality(session.written) = 1,
                      Len(entries) = Len(ParseDirectory(w).entries)
               PROVE  entries = ParseDirectory(w).entries
    BY DEF DamageIsNoticed
  <2> DEFINE d == session.read
  <2>1. /\ session \in Sessions /\ entries = ParseDirectory(d).entries
        /\ ParseDirectory(d).ok /\ Harmless(ParseDirectory(d).faults)
    BY DEF IInv, Quiet
  <2>2. d \in DirectoryBytes /\ w \in DirectoryBytes /\ Undamaged(w)
    BY <2>1, SessionsAssumption
  <2>3. OneByteMayDiffer(d, w)
    <3>1. CASE \E v \in session.written : session.written = {v} /\ OneByteMayDiffer(d, v)
      BY <3>1
    <3>2. CASE \E old, new \in session.written :
                 session.written = {old, new} /\ old[1] # new[1] /\ PartlyWritten(d, old, new)
      <4>1. PICK old, new \in session.written : session.written = {old, new} /\ old # new
        BY <3>2
      <4>2. IsFiniteSet({old}) /\ Cardinality({old}) = 1
        BY FS_Singleton
      <4>3. Cardinality({old} \cup {new}) = 2
        <5>1. new \notin {old}
          BY <4>1
        <5>2. Cardinality({old} \cup {new}) = Cardinality({old}) + 1
          BY <4>2, <5>1, FS_AddElement, Zenon
        <5>3. 1 + 1 = 2
          OBVIOUS
        <5> QED BY <4>2, <5>2, <5>3, Zenon
      <4>4. session.written = {old} \cup {new}
        BY <4>1
      <4>5. Cardinality(session.written) = 2
        BY <4>3, <4>4, Zenon
      <4> QED BY <4>5
    <3> QED BY <2>1, <3>1, <3>2, SessionsAssumption
  <2> QED BY <2>1, <2>2, <2>3, ChangedByteIsNoticed
<1> QED BY <1>1, Inductive, PTL

(***************************************************************************)
(* A write that was cut off at any byte is an error, has a warning or left *)
(* the entries of one of the two versions.                                 *)
(***************************************************************************)
THEOREM NoticedTornWrites == Spec => []TornWritesAreNoticed
<1>1. IInv => TornWritesAreNoticed
  <2> SUFFICES ASSUME IInv, stage = "read", Quiet, Cardinality(session.written) = 2
               PROVE  \E w \in session.written : entries = ParseDirectory(w).entries
    BY DEF TornWritesAreNoticed
  <2> DEFINE d == session.read
  <2>1. /\ session \in Sessions /\ entries = ParseDirectory(d).entries
        /\ ParseDirectory(d).ok /\ Harmless(ParseDirectory(d).faults)
    BY DEF IInv, Quiet
  <2>2. d \in DirectoryBytes
    BY <2>1, SessionsAssumption
  <2>3. \A w \in session.written : w \in DirectoryBytes /\ Undamaged(w)
    BY <2>1, SessionsAssumption
  <2>4. ~\E w \in session.written : session.written = {w}
    <3> SUFFICES ASSUME NEW w, session.written = {w} PROVE FALSE
      OBVIOUS
    <3>1. Cardinality({w}) = 1
      BY FS_Singleton
    <3> QED BY <3>1
  <2>5. PICK old, new \in session.written : old[1] # new[1] /\ PartlyWritten(d, old, new)
    BY <2>1, <2>4, SessionsAssumption
  <2> QED BY <2>1, <2>2, <2>3, <2>5, SequenceNumbersTell
<1> QED BY <1>1, Inductive, PTL

(***************************************************************************)
(* Whatever lies behind the last entry, entries and warnings are the same. *)
(***************************************************************************)
THEOREM StaleSlots == Spec => []StaleSlotsPlayNoPart
<1>1. IInv => StaleSlotsPlayNoPart
  <2> SUFFICES ASSUME IInv, stage = "read", NEW w \in session.written,
                      SameButStaleSlots(session.read, w)
               PROVE  /\ entries = ParseDirectory(w).entries
                      /\ faults = ParseDirectory(w).faults
    BY DEF StaleSlotsPlayNoPart
  <2>1. session \in Sessions
    BY DEF IInv
  <2>2. session.read \in DirectoryBytes /\ w \in DirectoryBytes
    BY <2>1, SessionsAssumption
  <2>3. ParseDirectory(session.read) = ParseDirectory(w)
    BY <2>2, StaleSlotsDoNotCount
  <2> QED BY <2>3 DEF IInv
<1> QED BY <1>1, Inductive, PTL

(***************************************************************************)
(* Every variable has its type, and the names of entries and in paths have *)
(* one to ten bytes.                                                       *)
(***************************************************************************)
THEOREM Typing == Spec => []TypeOK
<1>1. IInv => TypeOK
  <2> SUFFICES ASSUME IInv PROVE TypeOK
    OBVIOUS
  <2>1. \A m : IsName(m) => Len(m) \in 1 .. MAX_SEGMENT_LENGTH
    BY DEF IsName, MAX_SEGMENT_LENGTH
  <2>2. stage \in {"start", "read", "failed", "panicked", "listed", "typed"}
    BY DEF IInv
  <2>3. /\ Len(entries) <= DIRECTORY_CAPACITY
        /\ \A i \in 1 .. Len(entries) :
             /\ Len(entries[i].name) \in 1 .. MAX_SEGMENT_LENGTH
             /\ Len(entries[i].fields) = 16
    <3>1. Len(entries) <= DIRECTORY_CAPACITY
      BY EntriesAndTexts, CapacityAssumption DEF C
    <3> QED BY <2>1, <3>1, EntriesAndTexts
  <2>4. ASSUME path.ok
        PROVE  \A i \in 1 .. Len(path.path) : Len(path.path[i]) \in 1 .. MAX_SEGMENT_LENGTH
    <3>1. stage = "typed" /\ path = TryFromStr(typed)
      BY <2>4 DEF IInv, NoPath
    <3>2. \A i \in 1 .. Len(TryFromStr(typed).path) : IsName(TryFromStr(typed).path[i])
      BY <2>4, <3>1, EntriesAndTexts, TextNames
    <3> QED BY <2>1, <3>1, <3>2
  <2> QED BY <2>2, <2>3, <2>4 DEF TypeOK
<1> QED BY <1>1, Inductive, PTL

(***************************************************************************)
(* Whatever is typed, it is read as a path only if it is a path text, and  *)
(* certainly if that text has no terminator in it; it is read as its       *)
(* segments, all of them and in order, those without a terminator whole.   *)
(***************************************************************************)
THEOREM TextPaths == Spec => []TextDenotesItsPath
<1>1. IInv => TextDenotesItsPath
  <2> SUFFICES ASSUME IInv, stage = "typed"
               PROVE  /\ path.ok => IsPathText(typed)
                      /\ IsPathText(typed) /\ HasNoTerminator(typed) => path.ok
                      /\ path.ok =>
                           LET starts == Dots(typed) \ {Len(typed)}
                           IN  /\ Len(path.path) = Cardinality(starts)
                               /\ \A i \in starts :
                                    HasNoTerminator(SegmentAfter(typed, i)) =>
                                      path.path[Cardinality({j \in starts : j <= i})]
                                        = SegmentAfter(typed, i)
    BY DEF TextDenotesItsPath
  <2>1. typed \in Seq(Byte)
    BY EntriesAndTexts DEF IsText, Byte
  <2>2. path = TryFromStr(typed)
    BY DEF IInv
  <2>3. path.ok = IsPathText(typed)
    BY <2>1, <2>2, TextDenotes
  <2>4. ASSUME NEW i \in Dots(typed), HasNoTerminator(SegmentAfter(typed, i))
        PROVE  ValidRange(SegmentAfter(typed, i)) = SegmentAfter(typed, i)
    <3>1. SegmentAfter(typed, i) \in Seq(Byte)
      BY <2>1, SegmentIsText
    <3> QED BY <2>4, <3>1, AllIsValid DEF HasNoTerminator
  <2>5. ASSUME path.ok
        PROVE  LET starts == Dots(typed) \ {Len(typed)}
               IN  /\ Len(path.path) = Cardinality(starts)
                   /\ \A i \in starts :
                        path.path[Cardinality({j \in starts : j <= i})]
                          = ValidRange(SegmentAfter(typed, i))
    BY <2>1, <2>2, <2>5, TextDenotes
  <2> QED BY <2>3, <2>4, <2>5
<1> QED BY <1>1, Inductive, PTL

(***************************************************************************)
(* A listed name can be typed as it is listed exactly if it is plain.      *)
(***************************************************************************)
THEOREM ReadBack == Spec => []PlainNamesReadBack
<1>1. IInv => PlainNamesReadBack
  <2> SUFFICES ASSUME IInv, stage = "typed", NEW i \in 1 .. Len(entries),
                      typed = PrintPath(<<entries[i].name>>)
               PROVE  (path = [ok |-> TRUE, path |-> <<entries[i].name>>])
                        = IsPlain(entries[i].name)
    BY DEF PlainNamesReadBack
  <2>1. PICK m : m = entries[i].name /\ IsName(m)
    BY EntriesAndTexts
  <2>2. path = TryFromStr(PrintPath(<<m>>))
    BY <2>1 DEF IInv
  <2>3. IsPlain(m) => path = [ok |-> TRUE, path |-> <<m>>]
    BY <2>1, <2>2, PlainReadsBack
  <2>4. path = [ok |-> TRUE, path |-> <<m>>] => IsPlain(m)
    BY <2>1, <2>2, ReadBackIsPlain
  <2>5. IsPlain(m) \in BOOLEAN
    BY DEF IsPlain
  <2> QED BY <2>1, <2>3, <2>4, <2>5
<1> QED BY <1>1, Inductive, PTL

===============================================================================
