--------------------------- MODULE DiscObjectProofs ---------------------------
(***************************************************************************)
(* Proofs about DiscObject, for every geometry of the disc, every map and  *)
(* every request.  IInv says how far the two scans of get_disc_regions     *)
(* have come in the object and which of its bytes they have handed out.    *)
(***************************************************************************)
EXTENDS DiscObject, SequenceTheorems, FiniteSetTheorems, WellFoundedInduction, TLAPS

-----------------------------------------------------------------------------
(* Sizes and bytes of ranges *)

\* Every range ends at or behind its start.
Forward(rs) == \A i \in 1 .. Len(rs) : rs[i].start <= rs[i].end

\* A set of numbers has a least one.
LEMMA LeastOf ==
  ASSUME NEW T, T \subseteq Nat, T # {}
  PROVE  \E n \in T : \A m \in T : n <= m
<1>1. PICK n \in T : \A m \in T : ~(<<m, n>> \in OpToRel(<, Nat))
  BY NatLessThanWellFounded, WFMin
<1>2. \A m \in T : ~(m < n)
  <2>1. \A m \in T : m \in Nat
    OBVIOUS
  <2> QED BY <1>1, <2>1, Zenon DEF OpToRel
<1> QED BY <1>2

\* z adds up the sizes of the first n ranges.
AddsUp(z, rs, n) ==
  /\ z \in [0 .. n -> Nat]
  /\ z[0] = 0
  /\ \A k \in 1 .. n : z[k] = z[k - 1] + RangeSize(rs[k])

\* The size of a forward range is a number.
LEMMA SizeIsNat ==
  ASSUME NEW rs \in Seq(ByteRanges), Forward(rs), NEW k \in 1 .. Len(rs)
  PROVE  RangeSize(rs[k]) \in Nat
<1>1. rs[k] \in ByteRanges
  OBVIOUS
<1>2. rs[k].start \in Nat /\ rs[k].end \in Nat /\ rs[k].start <= rs[k].end
  BY <1>1 DEF Forward, ByteRanges
<1> QED BY <1>2 DEF RangeSize

\* The sizes of the first ranges add up, however many these are.
LEMMA SizesAddUp ==
  ASSUME NEW rs \in Seq(ByteRanges), Forward(rs)
  PROVE  AddsUp(SizeUpTo(rs), rs, Len(rs))
<1> DEFINE Bad == {n \in 0 .. Len(rs) : ~\E z : AddsUp(z, rs, n)}
<1>1. Bad = {}
  <2> SUFFICES ASSUME Bad # {} PROVE FALSE
    OBVIOUS
  <2>0. Bad \subseteq Nat /\ Bad # {}
    OBVIOUS
  <2>1. PICK n \in Bad : \A m \in Bad : n <= m
    BY <2>0, LeastOf, Zenon
  <2>2. n # 0
    <3>1. AddsUp([k \in 0 .. 0 |-> 0], rs, 0)
      BY DEF AddsUp
    <3> QED BY <3>1, <2>1
  <2>3. n - 1 \in 0 .. Len(rs) /\ n \in 1 .. Len(rs) /\ n - 1 < n
    BY <2>2
  <2>4. PICK z : AddsUp(z, rs, n - 1)
    BY <2>1, <2>3
  <2> DEFINE y == [k \in 0 .. n |-> IF k = n THEN z[n - 1] + RangeSize(rs[n]) ELSE z[k]]
  <2>5. RangeSize(rs[n]) \in Nat
    BY <2>3, SizeIsNat
  <2>6. AddsUp(y, rs, n)
    <3>1. z[n - 1] \in Nat /\ z[0] = 0 /\ \A k \in 0 .. n - 1 : z[k] \in Nat
      BY <2>3, <2>4 DEF AddsUp
    <3>2. y \in [0 .. n -> Nat] /\ y[0] = 0
      BY <2>3, <2>5, <3>1
    <3>3. ASSUME NEW k \in 1 .. n PROVE y[k] = y[k - 1] + RangeSize(rs[k])
      <4>1. k - 1 \in 0 .. n /\ k - 1 # n /\ k \in 0 .. n
        BY <2>3
      <4>2. y[k - 1] = z[k - 1]
        BY <4>1
      <4>3. CASE k = n
        BY <4>1, <4>2, <4>3
      <4>4. CASE k # n
        <5>1. k \in 1 .. n - 1
          BY <2>3, <4>4
        <5> QED BY <2>4, <4>1, <4>2, <4>4, <5>1 DEF AddsUp
      <4> QED BY <4>3, <4>4
    <3> HIDE DEF y
    <3> QED BY <3>2, <3>3 DEF AddsUp
  <2> QED BY <2>6
<1>2. Len(rs) \in Nat
  OBVIOUS
<1>3. PICK z : AddsUp(z, rs, Len(rs))
  BY <1>1, <1>2
<1> DEFINE Def(s) ==
      s = [k \in 0 .. Len(rs) |-> IF k = 0 THEN 0 ELSE s[k - 1] + RangeSize(rs[k])]
<1>4. Def(z)
  BY <1>2, <1>3 DEF AddsUp
<1>5. SizeUpTo(rs) = CHOOSE s : Def(s)
  BY DEF SizeUpTo
<1>6. Def(SizeUpTo(rs))
  <2> HIDE DEF Def
  <2> QED BY <1>4, <1>5
<1> DEFINE s == SizeUpTo(rs)
<1>7. s[0] = 0 /\ \A k \in 1 .. Len(rs) : s[k] = s[k - 1] + RangeSize(rs[k])
  <2> HIDE DEF s
  <2>1. s = [k \in 0 .. Len(rs) |-> IF k = 0 THEN 0 ELSE s[k - 1] + RangeSize(rs[k])]
    BY <1>6 DEF s
  <2> QED BY <1>2, <2>1
<1> DEFINE Worse == {n \in 0 .. Len(rs) : s[n] # z[n]}
<1>8. Worse = {}
  <2> SUFFICES ASSUME Worse # {} PROVE FALSE
    OBVIOUS
  <2>0. Worse \subseteq Nat /\ Worse # {}
    OBVIOUS
  <2>1. PICK n \in Worse : \A m \in Worse : n <= m
    BY <2>0, LeastOf, Zenon
  <2>2. n # 0
    BY <1>3, <1>7 DEF AddsUp
  <2>3. n - 1 \in 0 .. Len(rs) /\ n \in 1 .. Len(rs) /\ n - 1 < n
    BY <1>2, <2>2
  <2>4. s[n - 1] = z[n - 1]
    BY <2>1, <2>3
  <2> QED BY <1>3, <1>7, <2>1, <2>3, <2>4 DEF AddsUp
<1>9. s = [k \in 0 .. Len(rs) |-> s[k]]
  <2> HIDE DEF s
  <2>1. s = [k \in 0 .. Len(rs) |-> IF k = 0 THEN 0 ELSE s[k - 1] + RangeSize(rs[k])]
    BY <1>6 DEF s
  <2> QED BY <2>1
<1> HIDE DEF s
<1>10. \A k \in 0 .. Len(rs) : s[k] = z[k] /\ s[k] \in Nat
  BY <1>3, <1>8 DEF AddsUp
<1>11. s \in [0 .. Len(rs) -> Nat]
  BY <1>9, <1>10
<1> QED BY <1>7, <1>11 DEF AddsUp, s

\* The facts about sizes that are needed of some ranges.
LEMMA Sums ==
  ASSUME NEW rs \in Seq(ByteRanges), Forward(rs)
  PROVE  /\ Len(rs) \in Nat
         /\ SizeUpTo(rs)[0] = 0
         /\ \A k \in 0 .. Len(rs) : SizeUpTo(rs)[k] \in Nat
         /\ \A k \in 1 .. Len(rs) :
              /\ SizeUpTo(rs)[k] = SizeUpTo(rs)[k - 1] + RangeSize(rs[k])
              /\ SizeUpTo(rs)[k - 1] \in Nat
              /\ RangeSize(rs[k]) \in Nat
         /\ Size(rs) \in Nat /\ Size(rs) = SizeUpTo(rs)[Len(rs)]
<1>1. AddsUp(SizeUpTo(rs), rs, Len(rs))
  BY SizesAddUp
<1>2. Len(rs) \in Nat
  OBVIOUS
<1>3. SizeUpTo(rs)[0] = 0
  BY <1>1 DEF AddsUp
<1>4. \A k \in 0 .. Len(rs) : SizeUpTo(rs)[k] \in Nat
  BY <1>1 DEF AddsUp
<1>5. ASSUME NEW k \in 1 .. Len(rs)
      PROVE  /\ SizeUpTo(rs)[k] = SizeUpTo(rs)[k - 1] + RangeSize(rs[k])
             /\ SizeUpTo(rs)[k - 1] \in Nat
             /\ RangeSize(rs[k]) \in Nat
  <2>1. k - 1 \in 0 .. Len(rs)
    BY <1>2
  <2>2. SizeUpTo(rs)[k] = SizeUpTo(rs)[k - 1] + RangeSize(rs[k])
    BY <1>1 DEF AddsUp
  <2> QED BY <1>4, <2>1, <2>2, SizeIsNat
<1> QED BY <1>2, <1>3, <1>4, <1>5 DEF Size

\* The sizes do not decrease.
LEMMA SizesGrow ==
  ASSUME NEW rs \in Seq(ByteRanges), Forward(rs),
         NEW j \in 0 .. Len(rs), NEW k \in j .. Len(rs)
  PROVE  SizeUpTo(rs)[j] <= SizeUpTo(rs)[k]
<1> DEFINE s == SizeUpTo(rs)
           Bad == {n \in j .. Len(rs) : ~(s[j] <= s[n])}
<1>0. /\ Len(rs) \in Nat
      /\ \A n \in 0 .. Len(rs) : s[n] \in Nat
      /\ \A n \in 1 .. Len(rs) : s[n] = s[n - 1] + RangeSize(rs[n])
                                 /\ RangeSize(rs[n]) \in Nat
  BY Sums
<1> HIDE DEF s
<1>1. Bad = {}
  <2> SUFFICES ASSUME Bad # {} PROVE FALSE
    OBVIOUS
  <2>0. Bad \subseteq Nat /\ Bad # {}
    OBVIOUS
  <2>1. PICK n \in Bad : \A m \in Bad : n <= m
    BY <2>0, LeastOf, Zenon
  <2>2. n # j
    BY <1>0, <2>1
  <2>3. n - 1 \in j .. Len(rs) /\ n \in 1 .. Len(rs) /\ n - 1 < n /\ n - 1 \in 0 .. Len(rs)
    BY <1>0, <2>2
  <2>4. s[j] <= s[n - 1]
    BY <2>1, <2>3
  <2>5. s[n] = s[n - 1] + RangeSize(rs[n]) /\ RangeSize(rs[n]) \in Nat /\ s[n - 1] \in Nat
    BY <1>0, <2>3
  <2>6. s[j] <= s[n]
    BY <1>0, <2>4, <2>5
  <2> QED BY <2>1, <2>6
<1> QED BY <1>1 DEF s

\* Every byte is in one of the ranges.
LEMMA HolderExists ==
  ASSUME NEW rs \in Seq(ByteRanges), Forward(rs), NEW i \in 1 .. Size(rs)
  PROVE  \E k \in 1 .. Len(rs) : i \in SizeUpTo(rs)[k - 1] + 1 .. SizeUpTo(rs)[k]
<1> DEFINE s == SizeUpTo(rs)
           T == {n \in 0 .. Len(rs) : i <= s[n]}
<1>0. /\ Len(rs) \in Nat /\ Size(rs) \in Nat /\ Size(rs) = s[Len(rs)] /\ s[0] = 0
      /\ \A n \in 0 .. Len(rs) : s[n] \in Nat
  BY Sums
<1> HIDE DEF s
<1>1. Len(rs) \in T
  BY <1>0
<1>2. PICK k \in T : \A m \in T : k <= m
  <2>1. T \subseteq Nat /\ T # {}
    BY <1>0, <1>1
  <2> QED BY <2>1, LeastOf, Zenon
<1>3. k # 0
  BY <1>0, <1>2
<1>4. k \in 1 .. Len(rs) /\ k - 1 \in 0 .. Len(rs) /\ k - 1 < k
  BY <1>0, <1>3
<1>5. s[k - 1] < i
  BY <1>0, <1>2, <1>4
<1>6. i <= s[k] /\ s[k] \in Nat /\ s[k - 1] \in Nat
  BY <1>0, <1>2, <1>4
<1>7. i \in s[k - 1] + 1 .. s[k]
  BY <1>5, <1>6
<1> QED BY <1>4, <1>7 DEF s

\* The bytes of the k-th range follow one another.
LEMMA BytesOfRange ==
  ASSUME NEW rs \in Seq(ByteRanges), Forward(rs), NEW k \in 1 .. Len(rs),
         NEW i \in SizeUpTo(rs)[k - 1] + 1 .. SizeUpTo(rs)[k]
  PROVE  /\ i \in 1 .. Size(rs)
         /\ Bytes(rs)[i] = rs[k].start + (i - SizeUpTo(rs)[k - 1]) - 1
<1> DEFINE s == SizeUpTo(rs)
<1>0. /\ Len(rs) \in Nat /\ Size(rs) \in Nat /\ Size(rs) = s[Len(rs)] /\ s[0] = 0
      /\ \A n \in 0 .. Len(rs) : s[n] \in Nat
      /\ s[k - 1] \in Nat /\ s[k] \in Nat
  <2>1. k \in 0 .. Len(rs) /\ k - 1 \in 0 .. Len(rs)
    BY Sums
  <2> QED BY <2>1, Sums
<1>1. i \in 1 .. Size(rs)
  <2>1. k \in 0 .. Len(rs) /\ Len(rs) \in k .. Len(rs)
    BY <1>0
  <2>2. s[k] <= s[Len(rs)]
    BY <2>1, SizesGrow
  <2> QED BY <1>0, <2>2
<1>2. ASSUME NEW j \in 1 .. Len(rs), i \in s[j - 1] + 1 .. s[j] PROVE j = k
  <2>0. j - 1 \in 0 .. Len(rs) /\ k - 1 \in 0 .. Len(rs) /\ j \in 0 .. Len(rs)
    BY <1>0
  <2>1. CASE j < k
    <3>1. k - 1 \in j .. Len(rs)
      BY <1>0, <2>1
    <3>2. s[j] <= s[k - 1]
      BY <2>0, <3>1, SizesGrow
    <3> QED BY <1>0, <1>2, <2>0, <3>2
  <2>2. CASE k < j
    <3>1. j - 1 \in k .. Len(rs) /\ k \in 0 .. Len(rs)
      BY <1>0, <2>2
    <3>2. s[k] <= s[j - 1]
      BY <3>1, SizesGrow
    <3>3. s[j - 1] \in Nat /\ s[j - 1] < i /\ i <= s[k] /\ i \in Nat
      BY <1>0, <1>1, <1>2, <2>0
    <3> QED BY <1>0, <3>2, <3>3
  <2> QED BY <2>1, <2>2
<1>3. Holder(rs, i) = k
  BY <1>2 DEF Holder
<1> QED BY <1>1, <1>3 DEF Bytes

\* A range behind others leaves their sizes as they are.
LEMMA SizesOfAppend ==
  ASSUME NEW rs \in Seq(ByteRanges), Forward(rs),
         NEW r \in ByteRanges, r.start <= r.end
  PROVE  /\ Append(rs, r) \in Seq(ByteRanges)
         /\ Forward(Append(rs, r))
         /\ Len(Append(rs, r)) = Len(rs) + 1
         /\ \A k \in 0 .. Len(rs) : SizeUpTo(Append(rs, r))[k] = SizeUpTo(rs)[k]
         /\ Size(Append(rs, r)) = Size(rs) + RangeSize(r)
<1> DEFINE q == Append(rs, r)
<1>1. /\ q \in Seq(ByteRanges) /\ Len(q) = Len(rs) + 1 /\ Len(rs) \in Nat
      /\ \A k \in 1 .. Len(rs) : q[k] = rs[k]
      /\ q[Len(rs) + 1] = r
  <2>1. Len(rs) \in Nat
    OBVIOUS
  <2> QED BY <2>1, AppendProperties
<1> HIDE DEF q
<1>2. Forward(q)
  <2>1. ASSUME NEW k \in 1 .. Len(q) PROVE q[k].start <= q[k].end
    <3>1. k \in 1 .. Len(rs) \/ k = Len(rs) + 1
      BY <1>1
    <3>2. CASE k \in 1 .. Len(rs)
      BY <1>1, <3>2 DEF Forward
    <3>3. CASE k = Len(rs) + 1
      BY <1>1, <3>3
    <3> QED BY <3>1, <3>2, <3>3
  <2> QED BY <2>1 DEF Forward
<1> DEFINE s == SizeUpTo(rs)
           t == SizeUpTo(q)
<1>3. /\ s[0] = 0 /\ t[0] = 0
      /\ \A k \in 1 .. Len(rs) : s[k] = s[k - 1] + RangeSize(rs[k])
      /\ \A k \in 1 .. Len(q) : t[k] = t[k - 1] + RangeSize(q[k])
      /\ Size(rs) = s[Len(rs)] /\ Size(q) = t[Len(q)]
  BY <1>1, <1>2, Sums
<1> HIDE DEF s, t
<1> DEFINE Bad == {k \in 0 .. Len(rs) : t[k] # s[k]}
<1>4. Bad = {}
  <2> SUFFICES ASSUME Bad # {} PROVE FALSE
    OBVIOUS
  <2>0. Bad \subseteq Nat /\ Bad # {}
    OBVIOUS
  <2>1. PICK k \in Bad : \A m \in Bad : k <= m
    BY <2>0, LeastOf, Zenon
  <2>2. k # 0
    BY <1>3
  <2>3. k - 1 \in 0 .. Len(rs) /\ k \in 1 .. Len(rs) /\ k - 1 < k /\ k \in 1 .. Len(q)
    BY <1>1, <2>2
  <2>4. t[k - 1] = s[k - 1]
    BY <2>1, <2>3
  <2>5. s[k] = s[k - 1] + RangeSize(rs[k]) /\ t[k] = t[k - 1] + RangeSize(q[k])
    BY <1>3, <2>3
  <2>6. q[k] = rs[k]
    BY <1>1, <2>3
  <2> QED BY <2>4, <2>5, <2>6
<1>5. \A k \in 0 .. Len(rs) : t[k] = s[k]
  BY <1>4
<1>6. t[Len(rs) + 1] = t[Len(rs)] + RangeSize(r)
  <2>1. Len(rs) + 1 \in 1 .. Len(q) /\ (Len(rs) + 1) - 1 = Len(rs)
    BY <1>1
  <2>2. t[Len(rs) + 1] = t[(Len(rs) + 1) - 1] + RangeSize(q[Len(rs) + 1])
    BY <1>3, <2>1
  <2> QED BY <1>1, <2>1, <2>2
<1>7. Len(rs) \in 0 .. Len(rs)
  BY <1>1
<1>8. Size(q) = Size(rs) + RangeSize(r)
  BY <1>1, <1>3, <1>5, <1>6, <1>7
<1> QED BY <1>1, <1>2, <1>5, <1>8 DEF q, s, t

\* A range behind others adds its bytes behind theirs.
LEMMA BytesOfAppend ==
  ASSUME NEW rs \in Seq(ByteRanges), Forward(rs),
         NEW r \in ByteRanges, r.start <= r.end
  PROVE  /\ \A i \in 1 .. Size(rs) : Bytes(Append(rs, r))[i] = Bytes(rs)[i]
         /\ \A i \in Size(rs) + 1 .. Size(rs) + RangeSize(r) :
              Bytes(Append(rs, r))[i] = r.start + (i - Size(rs)) - 1
<1> DEFINE q == Append(rs, r)
<1>1. /\ q \in Seq(ByteRanges) /\ Len(q) = Len(rs) + 1 /\ Len(rs) \in Nat
      /\ \A k \in 1 .. Len(rs) : q[k] = rs[k]
      /\ q[Len(rs) + 1] = r
  <2>1. Len(rs) \in Nat
    OBVIOUS
  <2> QED BY <2>1, AppendProperties
<1>2. /\ Forward(q)
      /\ \A k \in 0 .. Len(rs) : SizeUpTo(q)[k] = SizeUpTo(rs)[k]
      /\ Size(q) = Size(rs) + RangeSize(r)
  BY SizesOfAppend
<1>3. Size(q) = SizeUpTo(q)[Len(q)] /\ Size(rs) = SizeUpTo(rs)[Len(rs)]
  BY DEF Size
<1> HIDE DEF q
<1>4. ASSUME NEW i \in 1 .. Size(rs) PROVE Bytes(q)[i] = Bytes(rs)[i]
  <2>1. PICK k \in 1 .. Len(rs) : i \in SizeUpTo(rs)[k - 1] + 1 .. SizeUpTo(rs)[k]
    BY HolderExists
  <2>2. Bytes(rs)[i] = rs[k].start + (i - SizeUpTo(rs)[k - 1]) - 1
    BY <2>1, BytesOfRange
  <2>3. k \in 1 .. Len(q) /\ k \in 0 .. Len(rs) /\ k - 1 \in 0 .. Len(rs)
    BY <1>1
  <2>4. i \in SizeUpTo(q)[k - 1] + 1 .. SizeUpTo(q)[k]
    BY <1>2, <2>1, <2>3
  <2>5. Bytes(q)[i] = q[k].start + (i - SizeUpTo(q)[k - 1]) - 1
    BY <1>1, <1>2, <2>3, <2>4, BytesOfRange
  <2> QED BY <1>1, <1>2, <2>2, <2>3, <2>5
<1>5. ASSUME NEW i \in Size(rs) + 1 .. Size(rs) + RangeSize(r)
      PROVE  Bytes(q)[i] = r.start + (i - Size(rs)) - 1
  <2>1. /\ Len(q) \in 1 .. Len(q) /\ Len(q) - 1 = Len(rs) /\ Len(rs) \in 0 .. Len(rs)
        /\ q[Len(q)] = r
    BY <1>1
  <2>2. SizeUpTo(q)[Len(q) - 1] = Size(rs) /\ SizeUpTo(q)[Len(q)] = Size(rs) + RangeSize(r)
    BY <1>2, <1>3, <2>1
  <2>3. i \in SizeUpTo(q)[Len(q) - 1] + 1 .. SizeUpTo(q)[Len(q)]
    BY <2>2
  <2>4. Bytes(q)[i] = q[Len(q)].start + (i - SizeUpTo(q)[Len(q) - 1]) - 1
    BY <1>1, <1>2, <2>1, <2>3, BytesOfRange
  <2> QED BY <2>1, <2>2, <2>4
<1> QED BY <1>4, <1>5 DEF q

-----------------------------------------------------------------------------
(* The fragments of an object in order *)

\* An id, a sector and what is skipped are numbers.
LEMMA AddressIsNat ==
  ASSUME NEW a \in Nat
  PROVE  Fragment(a) \in Nat /\ SectorIdx(a) \in Nat /\ SectorIdx(a) * SectorSize \in Nat
<1>1. Fragment(a) \in Nat
  <2>1. a \div 256 \in Nat
    OBVIOUS
  <2>2. 2^15 = 32768
    BY SMT
  <2>3. (a \div 256) % 32768 \in Nat
    BY <2>1
  <2> QED BY <2>2, <2>3 DEF Fragment
<1>2. SectorIdx(a) \in Nat
  BY DEF SectorIdx
<1>3. SectorSize \in Nat
  BY GeometryAssumption
<1>4. \A m, n \in Nat : m * n \in Nat
  OBVIOUS
<1> QED BY <1>1, <1>2, <1>3, <1>4

\* The indices a zone may have.
Zone == 0 .. 254

\* A fragment is a block with the id, in a zone of the map.
LEMMA FragmentTypes ==
  ASSUME NEW b \in Maps, NEW id, NEW f \in Fragments(b, id)
  PROVE  /\ f = <<f[1], f[2]>>
         /\ f[1] \in Zone /\ f[1] \in DOMAIN b /\ f[1] \in Nat /\ f[1] < 256
         /\ f[2] \in DOMAIN b[f[1]] /\ f[2] \in Nat
         /\ f[2] < IF f[1] = 0 THEN FirstZoneBits ELSE ZoneBits
         /\ b[f[1]][f[2]].id = id
         /\ b[f[1]][f[2]].map_length \in Nat
<1>1. /\ f \in (DOMAIN b) \X UNION {DOMAIN b[z] : z \in DOMAIN b}
      /\ f[2] \in DOMAIN b[f[1]] /\ b[f[1]][f[2]].id = id
  BY DEF Fragments
<1>2. f = <<f[1], f[2]>> /\ f[1] \in DOMAIN b
  BY <1>1
<1>3. f[1] \in Zone /\ f[1] \in Nat /\ f[1] < 256
  <2>1. DOMAIN b \subseteq Zone
    BY MapsAssumption DEF Zone
  <2>2. \A z \in Zone : z \in Nat /\ z < 256
    BY DEF Zone
  <2> QED BY <1>2, <2>1, <2>2
<1>4. /\ f[2] \in 0 .. (IF f[1] = 0 THEN FirstZoneBits ELSE ZoneBits) - 1
      /\ b[f[1]][f[2]].map_length \in Nat
  BY <1>1, <1>2, MapsAssumption
<1>5. FirstZoneBits \in Nat /\ ZoneBits \in Nat
  BY GeometryAssumption
<1> QED BY <1>1, <1>2, <1>3, <1>4, <1>5

\* An object has finitely many fragments.
LEMMA FragmentsAreFinite ==
  ASSUME NEW b \in Maps, NEW id
  PROVE  IsFiniteSet(Fragments(b, id)) /\ Cardinality(Fragments(b, id)) \in Nat
<1> DEFINE P == 0 .. FirstZoneBits + ZoneBits
<1>1. IsFiniteSet(Zone) /\ IsFiniteSet(P)
  <2>1. 0 \in Int /\ 254 \in Int /\ FirstZoneBits + ZoneBits \in Int
    BY GeometryAssumption
  <2> QED BY <2>1, FS_Interval DEF Zone
<1>2. IsFiniteSet(Zone \X P)
  BY <1>1, FS_Product
<1>3. Fragments(b, id) \subseteq Zone \X P
  <2> SUFFICES ASSUME NEW f \in Fragments(b, id) PROVE f \in Zone \X P
    OBVIOUS
  <2>1. f = <<f[1], f[2]>> /\ f[1] \in Zone /\ f[2] \in Nat
    BY FragmentTypes
  <2>2. f[2] < IF f[1] = 0 THEN FirstZoneBits ELSE ZoneBits
    BY FragmentTypes
  <2>3. f[2] \in P
    BY <2>1, <2>2, GeometryAssumption
  <2> QED BY <2>1, <2>3
<1> QED BY <1>2, <1>3, FS_Subset, FS_CardinalityType

\* Zones keep their distances when the object's own zone is taken as the first.
LEMMA AdjustedZones ==
  ASSUME NEW id \in Nat
  PROVE  /\ StartingZone(id) \in Nat
         /\ \A y \in Zone : AdjustedZone(id, y) \in Nat
         /\ \A y, z \in Zone : AdjustedZone(id, y) = AdjustedZone(id, z) => y = z
<1>1. StartingZone(id) \in Nat
  <2>1. (NumZones + 1) \div 2 \in Nat
    BY GeometryAssumption
  <2>2. id \div IdsPerZone \in Nat
    <3>1. IdsPerZone \in Nat \ {0}
      BY GeometryAssumption
    <3>2. \A m \in Nat : \A n \in Nat \ {0} : m \div n \in Nat
      OBVIOUS
    <3> QED BY <3>1, <3>2
  <2> QED BY <2>1, <2>2 DEF StartingZone
<1>2. ASSUME NEW y \in 0 .. 254, NEW s \in Nat PROVE (y - s) % 65536 \in Nat
  OBVIOUS
<1>3. Zone \subseteq 0 .. 254
  BY DEF Zone
<1>4. \A y : AdjustedZone(id, y) = (y - StartingZone(id)) % 65536
  BY DEF AdjustedZone, UsizeRange
<1>5. ASSUME NEW y \in Zone PROVE AdjustedZone(id, y) \in Nat
  BY <1>1, <1>2, <1>3, <1>4
<1>6. ASSUME NEW y \in Zone, NEW z \in Zone, AdjustedZone(id, y) = AdjustedZone(id, z)
      PROVE  y = z
  <2>1. PICK s \in Nat : s = StartingZone(id)
    BY <1>1
  <2>2. PICK m \in 0 .. 254 : m = y
    BY <1>3
  <2>3. PICK n \in 0 .. 254 : n = z
    BY <1>3
  <2>4. (m - s) % 65536 = AdjustedZone(id, y) /\ (n - s) % 65536 = AdjustedZone(id, z)
    BY <1>4, <2>1, <2>2, <2>3
  <2>5. (m - s) % 65536 = (n - s) % 65536
    BY <1>6, <2>4
  <2>6. m = n
    BY <2>5, SMTT(60)
  <2> QED BY <2>2, <2>3, <2>6
<1> QED BY <1>1, <1>5, <1>6

\* sort_blocks compares fragments in a strict total order.
LEMMA BeforeIsOrder ==
  ASSUME NEW b \in Maps, NEW id \in Nat
  PROVE  /\ \A f \in Fragments(b, id) : ~Before(id, f, f)
         /\ \A f, g \in Fragments(b, id) : f # g => Before(id, f, g) \/ Before(id, g, f)
         /\ \A f, g, h \in Fragments(b, id) :
              Before(id, f, g) /\ Before(id, g, h) => Before(id, f, h)
<1> DEFINE A(f) == AdjustedZone(id, f[1])
<1>1. \A f \in Fragments(b, id) : A(f) \in Nat /\ f[2] \in Nat /\ f = <<f[1], f[2]>>
  <2> SUFFICES ASSUME NEW f \in Fragments(b, id)
               PROVE  A(f) \in Nat /\ f[2] \in Nat /\ f = <<f[1], f[2]>>
    OBVIOUS
  <2>1. f[1] \in Zone /\ f[2] \in Nat /\ f = <<f[1], f[2]>>
    BY FragmentTypes
  <2> QED BY <2>1, AdjustedZones
<1>2. \A f, g \in Fragments(b, id) : A(f) = A(g) => f[1] = g[1]
  <2>1. \A f \in Fragments(b, id) : f[1] \in Zone
    BY FragmentTypes
  <2>2. \A y, z \in Zone : AdjustedZone(id, y) = AdjustedZone(id, z) => y = z
    BY AdjustedZones
  <2> QED BY <2>1, <2>2
<1>3. \A f, g : f[1] = g[1] => A(f) = A(g)
  OBVIOUS
<1>4. \A f, g : Before(id, f, g) <=> A(f) < A(g) \/ (f[1] = g[1] /\ f[2] < g[2])
  BY DEF Before
<1> HIDE DEF A
<1>5. ASSUME NEW f \in Fragments(b, id) PROVE ~Before(id, f, f)
  BY <1>1, <1>4
<1>6. ASSUME NEW f \in Fragments(b, id), NEW g \in Fragments(b, id), f # g
      PROVE  Before(id, f, g) \/ Before(id, g, f)
  <2>1. A(f) \in Nat /\ A(g) \in Nat /\ f[2] \in Nat /\ g[2] \in Nat
    BY <1>1
  <2>2. CASE A(f) # A(g)
    BY <1>4, <2>1, <2>2
  <2>3. CASE A(f) = A(g)
    <3>1. f[1] = g[1]
      BY <1>2, <2>3
    <3>2. f[2] # g[2]
      BY <1>1, <1>6, <3>1
    <3> QED BY <1>4, <2>1, <3>1, <3>2
  <2> QED BY <2>2, <2>3
<1>7. ASSUME NEW f \in Fragments(b, id), NEW g \in Fragments(b, id),
             NEW h \in Fragments(b, id), Before(id, f, g), Before(id, g, h)
      PROVE  Before(id, f, h)
  <2>1. /\ A(f) \in Nat /\ A(g) \in Nat /\ A(h) \in Nat
        /\ f[2] \in Nat /\ g[2] \in Nat /\ h[2] \in Nat
    BY <1>1
  <2>2. A(f) < A(g) \/ (f[1] = g[1] /\ A(f) = A(g) /\ f[2] < g[2])
    BY <1>3, <1>4, <1>7
  <2>3. A(g) < A(h) \/ (g[1] = h[1] /\ A(g) = A(h) /\ g[2] < h[2])
    BY <1>3, <1>4, <1>7
  <2>4. A(f) < A(h) \/ (f[1] = h[1] /\ f[2] < h[2])
    BY <2>1, <2>2, <2>3
  <2> QED BY <1>4, <2>4
<1> QED BY <1>5, <1>6, <1>7

\* How many fragments come before one of them.
Rank(b, id, f) == Cardinality({g \in Fragments(b, id) : Before(id, g, f)})

\* No two fragments have the same rank, so that every rank is taken.
LEMMA RanksAreTaken ==
  ASSUME NEW b \in Maps, NEW id \in Nat, NEW i \in 1 .. Cardinality(Fragments(b, id))
  PROVE  \E f \in Fragments(b, id) : Rank(b, id, f) = i - 1
<1> DEFINE S == Fragments(b, id)
           n == Cardinality(S)
           Below(f) == {g \in S : Before(id, g, f)}
           rank == [f \in S |-> Cardinality(Below(f))]
<1>1. IsFiniteSet(S) /\ n \in Nat
  BY FragmentsAreFinite
<1>2. \A f \in S : f \notin Below(f)
  BY BeforeIsOrder
<1>3. ASSUME NEW f \in S PROVE IsFiniteSet(Below(f)) /\ Cardinality(Below(f)) \in 0 .. n - 1
  <2>1. Below(f) \in SUBSET (S \ {f})
    BY <1>2
  <2>2. IsFiniteSet(S \ {f}) /\ Cardinality(S \ {f}) = n - 1
    BY <1>1, FS_RemoveElement
  <2> HIDE DEF S, n, Below
  <2>3. IsFiniteSet(Below(f)) /\ Cardinality(Below(f)) <= n - 1
    BY <2>1, <2>2, FS_Subset
  <2>4. Cardinality(Below(f)) \in Nat
    BY <2>3, FS_CardinalityType
  <2> QED BY <1>1, <2>3, <2>4
<1>4. ASSUME NEW f \in S, NEW g \in S, Before(id, f, g)
      PROVE  Cardinality(Below(f)) # Cardinality(Below(g))
  <2>1. Below(f) \cup {f} \in SUBSET Below(g)
    BY <1>4, BeforeIsOrder
  <2>2. f \notin Below(f)
    BY <1>2
  <2> HIDE DEF S, n, Below
  <2>3. IsFiniteSet(Below(f)) /\ IsFiniteSet(Below(g))
        /\ Cardinality(Below(f)) \in Nat /\ Cardinality(Below(g)) \in Nat
    BY <1>3
  <2>4. Cardinality(Below(f) \cup {f}) = Cardinality(Below(f)) + 1
    BY <2>2, <2>3, FS_AddElement
  <2>5. Cardinality(Below(f) \cup {f}) <= Cardinality(Below(g))
    BY <2>1, <2>3, FS_Subset
  <2> QED BY <2>3, <2>4, <2>5
<1>5. \A f, g \in S : f # g => Before(id, f, g) \/ Before(id, g, f)
  BY BeforeIsOrder
<1> HIDE DEF S, n, Below
<1>6. rank \in Injection(S, 0 .. n - 1)
  <2>1. rank \in [S -> 0 .. n - 1]
    BY <1>3
  <2>2. \A f, g \in S : rank[f] = rank[g] => f = g
    BY <1>4, <1>5
  <2> HIDE DEF rank
  <2>3. IsInjective(rank)
    BY <2>1, <2>2 DEF IsInjective
  <2> QED BY <2>1, <2>3 DEF Injection
<1>7. IsFiniteSet(0 .. n - 1) /\ Cardinality(0 .. n - 1) = n
  <2>1. 0 \in Int /\ n - 1 \in Int /\ (IF 0 > n - 1 THEN 0 ELSE (n - 1) - 0 + 1) = n
    BY <1>1
  <2> QED BY <2>1, FS_Interval
<1>8. rank \in Surjection(S, 0 .. n - 1)
  <2> HIDE DEF rank
  <2>1. Cardinality(S) = n
    BY DEF n
  <2> QED BY <1>6, <1>7, <2>1, FS_Injection
<1>9. i - 1 \in 0 .. n - 1
  BY <1>1 DEF n, S
<1>10. \E f \in S : rank[f] = i - 1
  <2> HIDE DEF rank
  <2> QED BY <1>8, <1>9 DEF Surjection
<1> QED BY <1>10 DEF Rank, S, Below

\* sort_blocks returns every fragment once, in order.
LEMMA Sorted ==
  ASSUME NEW b \in Maps, NEW id \in Nat
  PROVE  /\ Cardinality(Fragments(b, id)) \in Nat
         /\ SortedFragments(b, id)
              \in [1 .. Cardinality(Fragments(b, id)) -> Fragments(b, id)]
         /\ \A i \in 1 .. Cardinality(Fragments(b, id)) :
              Rank(b, id, SortedFragments(b, id)[i]) = i - 1
<1> DEFINE n == Cardinality(Fragments(b, id))
<1>1. n \in Nat
  BY FragmentsAreFinite
<1>2. SortedFragments(b, id)
        = [i \in 1 .. n |-> CHOOSE f \in Fragments(b, id) : Rank(b, id, f) = i - 1]
  BY DEF SortedFragments, Rank
<1> DEFINE c(i) == CHOOSE f \in Fragments(b, id) : Rank(b, id, f) = i - 1
<1>3. \A i \in 1 .. n : c(i) \in Fragments(b, id) /\ Rank(b, id, c(i)) = i - 1
  BY RanksAreTaken
<1> HIDE DEF n
<1>4. \A i \in 1 .. n : SortedFragments(b, id)[i] = c(i)
  BY <1>2
<1>5. SortedFragments(b, id) \in [1 .. n -> Fragments(b, id)]
  BY <1>2, <1>3
<1> HIDE DEF c
<1>6. \A i \in 1 .. n : Rank(b, id, SortedFragments(b, id)[i]) = i - 1
  BY <1>3, <1>4
<1> QED BY <1>1, <1>5, <1>6 DEF n

-----------------------------------------------------------------------------
(* The ranges of an object *)

\* Products of numbers are numbers, and grow with their factors.
LEMMA Products ==
  ASSUME NEW c \in Nat, NEW m \in Nat, NEW n \in Nat
  PROVE  /\ c * m \in Nat
         /\ c * (m + n) = c * m + c * n
         /\ c * m <= c * (m + n)
<1>1. c * m \in Nat /\ c * n \in Nat
  OBVIOUS
<1>2. c * (m + n) = c * m + c * n
  OBVIOUS
<1> QED BY <1>1, <1>2

\* Zones follow one another on the disc: one ends where the next may begin.
LEMMA ZonesFollow ==
  ASSUME NEW y \in Nat
  PROVE  /\ ZoneOffset(y) \in Nat
         /\ \A z \in Nat : y < z =>
              ZoneOffset(y) + (IF y = 0 THEN FirstZoneSize ELSE ZoneSize) <= ZoneOffset(z)
<1>1. FirstZoneSize \in Nat /\ ZoneSize \in Nat
  BY GeometryAssumption, Products DEF FirstZoneSize, ZoneSize
<1>2. ASSUME NEW z \in Nat \ {0}
      PROVE  ZoneOffset(z) = ZoneSize * (z - 1) + FirstZoneSize /\ ZoneSize * (z - 1) \in Nat
  <2>1. (z - 1) * ZoneSize = ZoneSize * (z - 1)
    BY <1>1
  <2>2. ZoneSize * (z - 1) \in Nat
    <3>1. z - 1 \in Nat
      OBVIOUS
    <3> QED BY <1>1, <3>1, Products
  <2>3. z # 0
    OBVIOUS
  <2> QED BY <2>1, <2>2, <2>3 DEF ZoneOffset
<1>3. ZoneOffset(0) = 0
  BY DEF ZoneOffset
<1>4. ZoneOffset(y) \in Nat
  <2>1. CASE y = 0
    BY <1>3, <2>1
  <2>2. CASE y # 0
    BY <1>1, <1>2, <2>2
  <2> QED BY <2>1, <2>2
<1>5. ASSUME NEW z \in Nat, y < z
      PROVE  ZoneOffset(y) + (IF y = 0 THEN FirstZoneSize ELSE ZoneSize) <= ZoneOffset(z)
  <2>1. ZoneOffset(z) = ZoneSize * (z - 1) + FirstZoneSize /\ ZoneSize * (z - 1) \in Nat
    BY <1>2, <1>5
  <2>2. CASE y = 0
    BY <1>1, <1>3, <2>1, <2>2
  <2>3. CASE y # 0
    <3>1. ZoneOffset(y) = ZoneSize * (y - 1) + FirstZoneSize /\ ZoneSize * (y - 1) \in Nat
      BY <1>2, <2>3
    <3>2. PICK d \in Nat : z - 1 = y + d
      <4>1. (z - 1) - y \in Nat /\ z - 1 = y + ((z - 1) - y)
        BY <1>5
      <4> QED BY <4>1
    <3>3. ZoneSize * y <= ZoneSize * (z - 1)
      BY <1>1, <3>2, Products
    <3>4. ZoneSize * y = ZoneSize * (y - 1) + ZoneSize
      <4>1. y - 1 \in Nat /\ y = (y - 1) + 1
        BY <2>3
      <4>2. ZoneSize * ((y - 1) + 1) = ZoneSize * (y - 1) + ZoneSize * 1
        BY <1>1, <4>1, Products
      <4>3. ZoneSize * 1 = ZoneSize
        BY <1>1
      <4> QED BY <4>1, <4>2, <4>3
    <3>5. ZoneSize * y \in Nat
      BY <1>1, Products
    <3> QED BY <1>1, <2>1, <2>3, <3>1, <3>3, <3>4, <3>5
  <2> QED BY <2>2, <2>3
<1> QED BY <1>4, <1>5

\* The byte range of a block: where it starts, and that it ends there or behind.
LEMMA RangeOfBlock ==
  ASSUME NEW b \in Maps, NEW id, NEW f \in Fragments(b, id)
  PROVE  /\ ByteRange(b, f[1], f[2]) \in ByteRanges
         /\ ByteRange(b, f[1], f[2]).start <= ByteRange(b, f[1], f[2]).end
         /\ ByteRange(b, f[1], f[2]).start = BytesPerBit * f[2] + ZoneOffset(f[1])
         /\ ByteRange(b, f[1], f[2]).end
              = BytesPerBit * (f[2] + b[f[1]][f[2]].map_length) + ZoneOffset(f[1])
<1> DEFINE m == b[f[1]][f[2]].map_length
<1>1. f[1] \in Nat /\ f[2] \in Nat /\ m \in Nat
  BY FragmentTypes
<1>2. ByteRange(b, f[1], f[2])
        = [start |-> BytesPerBit * f[2] + ZoneOffset(f[1]),
           end   |-> BytesPerBit * (f[2] + m) + ZoneOffset(f[1])]
  BY DEF ByteRange
<1> HIDE DEF m
<1>3. ZoneOffset(f[1]) \in Nat
  BY <1>1, ZonesFollow
<1>4. /\ BytesPerBit * f[2] \in Nat
      /\ BytesPerBit * (f[2] + m) \in Nat
      /\ BytesPerBit * f[2] <= BytesPerBit * (f[2] + m)
  <2>1. BytesPerBit \in Nat /\ f[2] + m \in Nat
    BY <1>1, GeometryAssumption
  <2> QED BY <1>1, <2>1, Products
<1>5. /\ BytesPerBit * f[2] + ZoneOffset(f[1]) \in Nat
      /\ BytesPerBit * (f[2] + m) + ZoneOffset(f[1]) \in Nat
      /\ BytesPerBit * f[2] + ZoneOffset(f[1]) <= BytesPerBit * (f[2] + m) + ZoneOffset(f[1])
  BY <1>3, <1>4
<1> QED BY <1>2, <1>5 DEF ByteRanges, m

\* The regions of an object are the ranges of its fragments in their order.
LEMMA RegionsOfObject ==
  ASSUME NEW b \in Maps, NEW id \in Nat
  PROVE  /\ ObjectRegions(b, id) \in Seq(ByteRanges)
         /\ Forward(ObjectRegions(b, id))
         /\ Len(ObjectRegions(b, id)) = Cardinality(Fragments(b, id))
         /\ \A i \in 1 .. Len(ObjectRegions(b, id)) :
              /\ SortedFragments(b, id)[i] \in Fragments(b, id)
              /\ ObjectRegions(b, id)[i]
                   = ByteRange(b, SortedFragments(b, id)[i][1], SortedFragments(b, id)[i][2])
<1> DEFINE q == SortedFragments(b, id)
           n == Cardinality(Fragments(b, id))
           rs == ObjectRegions(b, id)
<1>1. n \in Nat /\ q \in [1 .. n -> Fragments(b, id)]
  BY Sorted
<1>2. rs = [i \in 1 .. Len(q) |-> ByteRange(b, q[i][1], q[i][2])]
  BY DEF ObjectRegions
<1> HIDE DEF q, n, rs
<1>3. Len(q) = n
  BY <1>1
<1>4. \A i \in 1 .. n : /\ q[i] \in Fragments(b, id)
                        /\ ByteRange(b, q[i][1], q[i][2]) \in ByteRanges
                        /\ ByteRange(b, q[i][1], q[i][2]).start
                             <= ByteRange(b, q[i][1], q[i][2]).end
  BY <1>1, RangeOfBlock
<1>5. \A i \in 1 .. n : rs[i] = ByteRange(b, q[i][1], q[i][2])
  BY <1>2, <1>3
<1>6. rs \in [1 .. n -> ByteRanges]
  BY <1>2, <1>3, <1>4
<1>7. rs \in Seq(ByteRanges) /\ Len(rs) = n
  BY <1>1, <1>6
<1>8. Forward(rs)
  BY <1>4, <1>5, <1>7 DEF Forward
<1> QED BY <1>4, <1>5, <1>7, <1>8 DEF q, n, rs

\* Different blocks of a divided map have no byte in common.
LEMMA BlocksApart ==
  ASSUME blocks \in Maps, Divided, NEW a, NEW c,
         NEW f \in Fragments(blocks, a), NEW g \in Fragments(blocks, c), f # g
  PROVE  Extent(ByteRange(blocks, f[1], f[2])) \cap Extent(ByteRange(blocks, g[1], g[2])) = {}
<1>1. ASSUME NEW i, NEW j, NEW u \in Fragments(blocks, i), NEW v \in Fragments(blocks, j),
             u[1] < v[1] \/ (u[1] = v[1] /\ u[2] < v[2])
      PROVE  ByteRange(blocks, u[1], u[2]).end <= ByteRange(blocks, v[1], v[2]).start
  <2> DEFINE m == blocks[u[1]][u[2]].map_length
  <2>1. /\ u[1] \in DOMAIN blocks /\ u[1] \in Nat /\ u[2] \in DOMAIN blocks[u[1]] /\ u[2] \in Nat
        /\ m \in Nat
        /\ v[1] \in Nat /\ v[2] \in DOMAIN blocks[v[1]] /\ v[2] \in Nat
    BY FragmentTypes
  <2>2. /\ u[2] + m <= IF u[1] = 0 THEN FirstZoneBits ELSE ZoneBits
        /\ \A q \in DOMAIN blocks[u[1]] : u[2] < q => u[2] + m <= q
    BY <2>1 DEF Divided
  <2>3. ByteRange(blocks, u[1], u[2]).end = BytesPerBit * (u[2] + m) + ZoneOffset(u[1])
    BY RangeOfBlock
  <2>4. ByteRange(blocks, v[1], v[2]).start = BytesPerBit * v[2] + ZoneOffset(v[1])
    BY RangeOfBlock
  <2> HIDE DEF m
  <2>5. ZoneOffset(u[1]) \in Nat /\ ZoneOffset(v[1]) \in Nat
    BY <2>1, ZonesFollow
  <2>6. ASSUME NEW k \in Nat, u[2] + m <= k
        PROVE  BytesPerBit * (u[2] + m) <= BytesPerBit * k
    <3>1. k - (u[2] + m) \in Nat /\ k = (u[2] + m) + (k - (u[2] + m)) /\ u[2] + m \in Nat
      BY <2>1, <2>6
    <3>2. BytesPerBit \in Nat
      BY GeometryAssumption
    <3>3. BytesPerBit * (u[2] + m) <= BytesPerBit * ((u[2] + m) + (k - (u[2] + m)))
      BY <3>1, <3>2, Products
    <3> QED BY <3>1, <3>3
  <2>7. BytesPerBit * (u[2] + m) \in Nat /\ BytesPerBit * v[2] \in Nat
    <3>1. BytesPerBit \in Nat /\ u[2] + m \in Nat
      BY <2>1, GeometryAssumption
    <3> QED BY <2>1, <3>1, Products
  <2>8. CASE u[1] = v[1] /\ u[2] < v[2]
    <3>1. u[2] + m <= v[2]
      BY <2>1, <2>2, <2>8
    <3>2. BytesPerBit * (u[2] + m) <= BytesPerBit * v[2]
      BY <2>1, <2>6, <3>1
    <3>3. ZoneOffset(u[1]) = ZoneOffset(v[1])
      BY <2>8
    <3> QED BY <2>3, <2>4, <2>5, <2>7, <3>2, <3>3
  <2>9. CASE u[1] < v[1]
    <3> DEFINE bits == IF u[1] = 0 THEN FirstZoneBits ELSE ZoneBits
    <3>1. BytesPerBit * (u[2] + m) <= BytesPerBit * bits
      <4>1. bits \in Nat
        BY GeometryAssumption
      <4> QED BY <2>2, <2>6, <4>1
    <3>2. ZoneOffset(u[1]) + BytesPerBit * bits <= ZoneOffset(v[1])
      <4>1. ZoneOffset(u[1]) + (IF u[1] = 0 THEN FirstZoneSize ELSE ZoneSize)
              <= ZoneOffset(v[1])
        BY <2>1, <2>9, ZonesFollow
      <4>2. BytesPerBit * bits = IF u[1] = 0 THEN FirstZoneSize ELSE ZoneSize
        BY DEF FirstZoneSize, ZoneSize
      <4> QED BY <4>1, <4>2
    <3>3. BytesPerBit * bits \in Nat
      <4>1. bits \in Nat /\ BytesPerBit \in Nat
        BY GeometryAssumption
      <4> QED BY <4>1, Products
    <3> HIDE DEF bits
    <3> QED BY <2>3, <2>4, <2>5, <2>7, <3>1, <3>2, <3>3
  <2> QED BY <1>1, <2>8, <2>9
<1>2. ASSUME NEW r \in ByteRanges, NEW t \in ByteRanges, r.end <= t.start
      PROVE  Extent(r) \cap Extent(t) = {} /\ Extent(t) \cap Extent(r) = {}
  BY <1>2 DEF ByteRanges, Extent
<1>3. /\ f = <<f[1], f[2]>> /\ f[1] \in Nat /\ f[2] \in Nat
      /\ g = <<g[1], g[2]>> /\ g[1] \in Nat /\ g[2] \in Nat
  BY FragmentTypes
<1>4. ByteRange(blocks, f[1], f[2]) \in ByteRanges /\ ByteRange(blocks, g[1], g[2]) \in ByteRanges
  BY RangeOfBlock
<1>5. \/ f[1] < g[1] \/ (f[1] = g[1] /\ f[2] < g[2])
      \/ g[1] < f[1] \/ (g[1] = f[1] /\ g[2] < f[2])
  <2>1. f[1] # g[1] \/ f[2] # g[2]
    BY <1>3
  <2> QED BY <1>3, <2>1
<1>6. CASE f[1] < g[1] \/ (f[1] = g[1] /\ f[2] < g[2])
  BY <1>1, <1>2, <1>4, <1>6
<1>7. CASE g[1] < f[1] \/ (g[1] = f[1] /\ g[2] < f[2])
  BY <1>1, <1>2, <1>4, <1>7
<1> QED BY <1>5, <1>6, <1>7

-----------------------------------------------------------------------------
(* The inductive invariant *)

\* How many bytes the streamed regions have.
Covered == SizeUpTo(regions)[next - 1]

(***************************************************************************)
(* How far the two scans have come: what is left to skip, what is left to  *)
(* hand out, and that the bytes handed out are the first of those asked.   *)
(***************************************************************************)
Scanned ==
  /\ offset = IF Covered <= Skipped THEN Skipped - Covered ELSE 0
  /\ Size(found) = Least2(Length, IF Covered <= Skipped THEN 0 ELSE Covered - Skipped)
  /\ budget = Length - Size(found)
  /\ \A i \in 1 .. Size(found) : Bytes(found)[i] = Asked(i)

\* What the place in the two functions says of what has been found.
Progress ==
  /\ pc = "done" <=> outcome # "none"
  /\ pc = "lookup" => next = 1
  /\ pc = "lookup" \/ outcome = "Missing" => regions = << >> /\ found = << >>
  /\ pc # "lookup" /\ outcome # "Missing" => regions = ObjectRegions(blocks, Id) /\ Scanned
  /\ outcome = "Some" =>
       Enough /\ (request.kind = "directory" => RangeSize(found[1]) >= DirLength)
  /\ outcome = "OutOfBounds" => ~Enough /\ next = Len(regions) + 1

\* The first range handed out is what one of the streamed regions has behind the
\* skipped bytes, as far as it was asked for.
FirstFound ==
  found # << >> =>
    \E k \in 1 .. next - 1 :
      /\ k <= Len(regions)
      /\ SizeUpTo(regions)[k - 1] <= Skipped
      /\ found[1].start = regions[k].start + (Skipped - SizeUpTo(regions)[k - 1])
      /\ found[1].end <= regions[k].end

IInv == TypeOK /\ Progress /\ FirstFound

\* The request's numbers.
LEMMA RequestTypes ==
  ASSUME request \in Requests
  PROVE  /\ request.kind \in {"file", "directory"}
         /\ Id \in Nat /\ Length \in Nat /\ Skipped \in Nat
         /\ request.kind = "directory" => Length = DirLength /\ Length # 0
<1>1. /\ request.kind \in {"file", "directory"}
      /\ request.address \in Nat /\ request.len \in Nat
  BY RequestsAssumption
<1>2. DirLength \in Nat \ {0}
  BY GeometryAssumption
<1> QED BY <1>1, <1>2, AddressIsNat DEF Id, Length, Skipped

\* No ranges have no bytes.
LEMMA NoRanges ==
  /\ << >> \in Seq(ByteRanges) /\ Forward(<< >>) /\ Len(<< >>) = 0
  /\ Size(<< >>) = 0 /\ SizeUpTo(<< >>)[0] = 0
<1>1. << >> \in Seq(ByteRanges) /\ Len(<< >>) = 0
  BY EmptySeq
<1>2. Forward(<< >>)
  BY <1>1 DEF Forward
<1>3. SizeUpTo(<< >>)[0] = 0
  BY <1>1, <1>2, Sums
<1> QED BY <1>1, <1>2, <1>3 DEF Size

\* The regions of the object and those handed out are forward ranges.
LEMMA Ranges ==
  ASSUME TypeOK, Progress
  PROVE  /\ regions \in Seq(ByteRanges) /\ Forward(regions)
         /\ found \in Seq(ByteRanges) /\ Forward(found)
<1>1. /\ regions \in Seq(ByteRanges) /\ found \in Seq(ByteRanges)
      /\ blocks \in Maps /\ request \in Requests
  BY DEF TypeOK
<1>2. Forward(found)
  <2>1. \A k \in 1 .. Len(found) : found[k].start < found[k].end /\ found[k] \in ByteRanges
    BY <1>1 DEF TypeOK
  <2>2. \A k \in 1 .. Len(found) : found[k].start <= found[k].end
    BY <2>1 DEF ByteRanges
  <2> QED BY <2>2 DEF Forward
<1>3. Forward(regions)
  <2>1. CASE regions = << >>
    BY <2>1, NoRanges
  <2>2. CASE regions # << >>
    <3>1. regions = ObjectRegions(blocks, Id)
      BY <2>2 DEF Progress
    <3> QED BY <1>1, <3>1, RequestTypes, RegionsOfObject
  <2> QED BY <2>1, <2>2
<1> QED BY <1>1, <1>2, <1>3

\* Before the look-up there are no regions and nothing is handed out.
LEMMA InitIInv == Init => IInv
<1> SUFFICES ASSUME Init PROVE IInv
  OBVIOUS
<1>1. << >> \in Seq(ByteRanges) /\ Len(<< >>) = 0
  BY EmptySeq
<1>2. TypeOK
  BY <1>1 DEF Init, TypeOK
<1>3. Progress
  BY DEF Init, Progress
<1>4. FirstFound
  BY DEF Init, FirstFound
<1> QED BY <1>2, <1>3, <1>4 DEF IInv

\* NewMap::get_disc_object: before the first region is streamed all is to be
\* skipped and all to be handed out.
LEMMA LookUpKeepsIInv == IInv /\ LookUp => IInv'
<1> SUFFICES ASSUME IInv, LookUp PROVE IInv'
  OBVIOUS
<1>1. /\ blocks \in Maps /\ request \in Requests /\ next = 1 /\ found = << >>
      /\ outcome = "none"
  BY DEF IInv, TypeOK, Progress, LookUp
<1>2. /\ regions' = ObjectRegions(blocks, Id) /\ offset' = Skipped /\ budget' = Length
      /\ pc' = "stream" /\ UNCHANGED <<blocks, request, next, found, outcome>>
  BY DEF LookUp, Skipped
<1>3. Id \in Nat /\ Length \in Nat /\ Skipped \in Nat
  BY <1>1, RequestTypes
<1>4. regions' \in Seq(ByteRanges) /\ Forward(regions') /\ Len(regions') \in Nat
  BY <1>1, <1>2, <1>3, RegionsOfObject
<1>5. TypeOK'
  BY <1>1, <1>2, <1>3, <1>4, EmptySeq DEF TypeOK
<1>6. Length' = Length /\ Skipped' = Skipped /\ Id' = Id
  BY <1>2 DEF Length, Skipped, Id
<1>7. Covered' = 0
  <2>1. SizeUpTo(regions')[0] = 0
    BY <1>4, Sums
  <2> QED BY <1>1, <1>2, <2>1 DEF Covered
<1>8. Size(found') = 0
  BY <1>1, <1>2, NoRanges
<1>9. Scanned'
  BY <1>2, <1>3, <1>6, <1>7, <1>8 DEF Scanned, Least2
<1>10. Progress'
  BY <1>1, <1>2, <1>6, <1>9 DEF Progress
<1>11. FirstFound'
  BY <1>1, <1>2 DEF FirstFound
<1> QED BY <1>5, <1>10, <1>11 DEF IInv

\* NewMap::get_disc_object without a block of the id: MissingFragment.
LEMMA LookUpFailsKeepsIInv == IInv /\ LookUpFails => IInv'
<1> SUFFICES ASSUME IInv, LookUpFails PROVE IInv'
  OBVIOUS
<1>1. TypeOK'
  BY DEF IInv, TypeOK, LookUpFails, Finish
<1>2. Progress'
  BY DEF IInv, Progress, LookUpFails, Finish
<1>3. FirstFound'
  BY DEF IInv, FirstFound, LookUpFails, Finish, Skipped
<1> QED BY <1>1, <1>2, <1>3 DEF IInv

\* What the two scans make of one range of size z when m bytes of it are skipped
\* and t of the rest are handed out.
LEMMA RangeCut ==
  ASSUME NEW r \in ByteRanges, r.start <= r.end, NEW o \in Nat, NEW d \in Nat
  PROVE  LET z == RangeSize(r)
             m == Least2(z, o)
             t == Least2(z - m, d)
             cut == Kept(Dropped(r, o), d)
         IN  /\ z \in Nat /\ m \in Nat /\ t \in Nat /\ m <= z /\ t <= z - m
             /\ RangeSize(Dropped(r, o)) = z - m
             /\ cut \in ByteRanges
             /\ cut.start = r.start + m /\ cut.end = r.start + m + t
             /\ RangeSize(cut) = t
<1> DEFINE z == RangeSize(r)
           m == Least2(z, o)
           t == Least2(z - m, d)
<1>1. r = [start |-> r.start, end |-> r.end] /\ r.start \in Nat /\ r.end \in Nat
  BY DEF ByteRanges
<1>2. z \in Nat /\ r.end = r.start + z
  BY <1>1 DEF RangeSize
<1> HIDE DEF z
<1>3. m \in Nat /\ m <= z /\ t \in Nat /\ t <= z - m
  BY <1>2 DEF Least2
<1>4. Dropped(r, o) = [start |-> r.start + m, end |-> r.end]
  BY <1>1 DEF Dropped, z
<1> HIDE DEF m
<1>5. RangeSize(Dropped(r, o)) = z - m
  BY <1>1, <1>2, <1>3, <1>4 DEF RangeSize
<1>6. Kept(Dropped(r, o), d) = [start |-> r.start + m, end |-> r.start + m + t]
  <2>1. Dropped(r, o).start = r.start + m
    BY <1>4
  <2>2. Least2(RangeSize(Dropped(r, o)), d) = t
    BY <1>5
  <2>3. Kept(Dropped(r, o), d)
          = [Dropped(r, o) EXCEPT !.end = Dropped(r, o).start + Least2(RangeSize(Dropped(r, o)), d)]
    BY DEF Kept
  <2> HIDE DEF t
  <2> QED BY <1>4, <2>1, <2>2, <2>3
<1> HIDE DEF t
<1> DEFINE cut == Kept(Dropped(r, o), d)
<1>7. cut.start = r.start + m /\ cut.end = r.start + m + t /\ cut \in ByteRanges
  <2>1. r.start + m \in Nat /\ r.start + m + t \in Nat
    BY <1>1, <1>3
  <2> QED BY <1>6, <2>1 DEF ByteRanges
<1> HIDE DEF cut
<1>8. RangeSize(cut) = t
  BY <1>1, <1>3, <1>7 DEF RangeSize
<1> QED BY <1>2, <1>3, <1>5, <1>7, <1>8 DEF z, m, t, cut

\* One region goes through both scans: the bytes handed out stay the first of
\* those asked, wherever the start and the end of the request fall in it.
LEMMA StreamRegionKeepsIInv == IInv /\ StreamRegion => IInv'
<1> SUFFICES ASSUME IInv, StreamRegion PROVE IInv'
  OBVIOUS
<1> DEFINE r == regions[next]
           z == RangeSize(r)
           m == Least2(z, offset)
           t == Least2(z - m, budget)
           cut == Kept(Dropped(r, offset), budget)
           c == Covered
           F == Size(found)
           L == Length
           K == Skipped
<1>1. /\ blocks \in Maps /\ request \in Requests /\ offset \in Nat /\ budget \in Nat
      /\ next \in 1 .. Len(regions) + 1 /\ pc = "stream" /\ next <= Len(regions)
      /\ outcome = "none"
  BY DEF IInv, TypeOK, Progress, StreamRegion
<1>2. /\ regions \in Seq(ByteRanges) /\ Forward(regions)
      /\ found \in Seq(ByteRanges) /\ Forward(found)
  BY Ranges DEF IInv
<1>3. regions = ObjectRegions(blocks, Id) /\ Scanned
  BY <1>1 DEF IInv, Progress
<1>4. L \in Nat /\ K \in Nat
  BY <1>1, RequestTypes
<1>5. /\ Len(regions) \in Nat /\ next \in 1 .. Len(regions)
      /\ c \in Nat /\ SizeUpTo(regions)[next] = c + z /\ z \in Nat
  <2>1. Len(regions) \in Nat
    BY <1>2
  <2>2. next \in 1 .. Len(regions)
    BY <1>1, <2>1
  <2> QED BY <1>2, <2>1, <2>2, Sums DEF Covered
<1>6. r \in ByteRanges /\ r.start \in Nat /\ r.start <= r.end
  <2>1. r \in ByteRanges /\ r.start <= r.end
    BY <1>2, <1>5 DEF Forward
  <2> QED BY <2>1 DEF ByteRanges
<1>7. /\ m \in Nat /\ t \in Nat /\ m <= z /\ t <= z - m
      /\ RangeSize(Dropped(r, offset)) = z - m
      /\ cut \in ByteRanges /\ cut.start = r.start + m /\ cut.end = r.start + m + t
      /\ RangeSize(cut) = t
  BY <1>1, <1>6, RangeCut
<1>8. /\ offset' = offset - (z - (z - m)) /\ budget' = budget - t
      /\ found' = IF t = 0 THEN found ELSE Append(found, cut)
      /\ next' = next + 1
      /\ UNCHANGED <<blocks, request, pc, regions, outcome>>
  <2>1. /\ offset' = offset - (RangeSize(r) - RangeSize(Dropped(r, offset)))
        /\ budget' = budget - RangeSize(cut)
        /\ found' = IF RangeSize(cut) = 0 THEN found ELSE Append(found, cut)
        /\ next' = next + 1
        /\ UNCHANGED <<blocks, request, pc, regions, outcome>>
    BY DEF StreamRegion, Emit
  <2> HIDE DEF cut, t, m
  <2> QED BY <1>7, <2>1
<1>9. F \in Nat
  BY <1>2, Sums
<1>10. /\ offset = IF c <= K THEN K - c ELSE 0
       /\ F = Least2(L, IF c <= K THEN 0 ELSE c - K)
       /\ budget = L - F
       /\ \A i \in 1 .. F : Bytes(found)[i] = Bytes(regions)[K + i]
  BY <1>3 DEF Scanned, Asked
<1>11. m = Least2(z, offset) /\ t = Least2(z - m, budget)
  OBVIOUS
<1>12. cut.start < cut.end \/ t = 0
  <2> HIDE DEF cut, t, m, z, r
  <2> QED BY <1>6, <1>7
<1> HIDE DEF r, z, m, t, cut, c, F, L, K
<1>13. /\ found' \in Seq(ByteRanges) /\ Size(found') = F + t
       /\ \A i \in 1 .. F : Bytes(found')[i] = Bytes(found)[i]
       /\ \A i \in F + 1 .. F + t : Bytes(found')[i] = cut.start + (i - F) - 1
       /\ \A k \in 1 .. Len(found') : found'[k].start < found'[k].end
  <2>1. CASE t = 0
    <3>1. found' = found
      BY <1>8, <2>1
    <3>2. \A i \in F + 1 .. F + t : FALSE
      BY <1>9, <2>1
    <3>3. \A k \in 1 .. Len(found) : found[k].start < found[k].end
      BY DEF IInv, TypeOK
    <3>4. Size(found') = F + t
      BY <1>9, <2>1, <3>1 DEF F
    <3> QED BY <1>2, <3>1, <3>2, <3>3, <3>4
  <2>2. CASE t # 0
    <3>1. found' = Append(found, cut)
      BY <1>8, <2>2
    <3>2. cut \in ByteRanges /\ cut.start < cut.end /\ cut.start <= cut.end
      <4>1. cut.start < cut.end
        BY <1>12, <2>2
      <4> QED BY <1>7, <4>1 DEF ByteRanges
    <3>3. /\ Append(found, cut) \in Seq(ByteRanges)
          /\ Size(Append(found, cut)) = F + t
          /\ Len(Append(found, cut)) = Len(found) + 1
      BY <1>2, <1>7, <3>2, SizesOfAppend DEF F
    <3>4. /\ \A i \in 1 .. F : Bytes(Append(found, cut))[i] = Bytes(found)[i]
          /\ \A i \in F + 1 .. F + t : Bytes(Append(found, cut))[i] = cut.start + (i - F) - 1
      BY <1>2, <1>7, <3>2, BytesOfAppend DEF F
    <3>5. ASSUME NEW k \in 1 .. Len(found')
          PROVE  found'[k].start < found'[k].end
      <4>1. Len(found) \in Nat /\ \A j \in 1 .. Len(found) : found[j].start < found[j].end
        BY <1>2 DEF IInv, TypeOK
      <4>2. CASE k \in 1 .. Len(found)
        <5>1. found'[k] = found[k]
          BY <1>2, <3>1, <3>2, <4>2, AppendProperties
        <5> QED BY <4>1, <4>2, <5>1
      <4>3. CASE k = Len(found) + 1
        <5>1. found'[k] = cut
          BY <1>2, <3>1, <3>2, <4>3, AppendProperties
        <5> QED BY <3>2, <5>1
      <4> QED BY <3>1, <3>3, <4>1, <4>2, <4>3
    <3> QED BY <3>1, <3>3, <3>4, <3>5
  <2> QED BY <2>1, <2>2
<1>14. /\ Length' = L /\ Skipped' = K /\ Id' = Id
       /\ \A i : Asked(i)' = Bytes(regions)[K + i]
  BY <1>8 DEF Length, Skipped, Id, Asked, L, K
<1>15. Covered' = c + z
  <2>1. next' - 1 = next
    BY <1>5, <1>8
  <2> QED BY <1>5, <1>8, <2>1 DEF Covered
<1>16. offset' = offset - m /\ offset' \in Nat /\ budget' = budget - t /\ budget' \in Nat
  BY <1>1, <1>5, <1>7, <1>8, <1>11 DEF Least2
<1>17. /\ offset' = IF c + z <= K THEN K - (c + z) ELSE 0
       /\ F + t = Least2(L, IF c + z <= K THEN 0 ELSE (c + z) - K)
       /\ budget' = L - (F + t)
       /\ t # 0 => c + m = K + F
  BY <1>1, <1>4, <1>5, <1>7, <1>9, <1>10, <1>11, <1>16 DEF Least2
<1>18. ASSUME NEW i \in 1 .. F + t PROVE Bytes(found')[i] = Bytes(regions)[K + i]
  <2>1. CASE i \in 1 .. F
    BY <1>10, <1>13, <2>1
  <2>2. CASE i \notin 1 .. F
    <3>1. i \in F + 1 .. F + t /\ i \in Nat /\ t # 0
      BY <1>7, <1>9, <2>2
    <3>2. Bytes(found')[i] = (r.start + m) + (i - F) - 1
      BY <1>7, <1>13, <3>1
    <3>3. K + i \in c + 1 .. c + z /\ (K + i) - c = m + (i - F)
      BY <1>4, <1>5, <1>7, <1>9, <1>17, <3>1
    <3>4. K + i \in SizeUpTo(regions)[next - 1] + 1 .. SizeUpTo(regions)[next]
      BY <1>5, <3>3 DEF c, Covered
    <3>5. Bytes(regions)[K + i] = regions[next].start + ((K + i) - SizeUpTo(regions)[next - 1]) - 1
      BY <1>2, <1>5, <3>4, BytesOfRange
    <3>6. Bytes(regions)[K + i] = r.start + (m + (i - F)) - 1
      BY <3>3, <3>5 DEF r, c, Covered
    <3> QED BY <1>6, <1>7, <1>9, <3>1, <3>2, <3>6
  <2> QED BY <2>1, <2>2
<1>19. Scanned'
  BY <1>13, <1>14, <1>15, <1>17, <1>18 DEF Scanned
<1>20. TypeOK'
  <2>1. next' \in 1 .. Len(regions') + 1
    BY <1>5, <1>8
  <2>2. /\ blocks' \in Maps /\ request' \in Requests /\ pc' = "stream" /\ outcome' = "none"
        /\ regions' \in Seq(ByteRanges)
    BY <1>1, <1>2, <1>8
  <2> QED BY <1>13, <1>16, <2>1, <2>2 DEF TypeOK
<1>21. Progress'
  <2>1. pc' = "stream" /\ outcome' = "none" /\ regions' = ObjectRegions(blocks', Id')
    BY <1>1, <1>3, <1>8, <1>14
  <2> QED BY <1>19, <2>1 DEF Progress
<1>22. FirstFound'
  <2>0. /\ regions' = regions /\ Skipped' = K /\ next' - 1 = next
        /\ Skipped = K /\ next \in 1 .. Len(regions)
    BY <1>5, <1>8, <1>14 DEF K
  <2>1. CASE found # << >>
    <3>1. PICK k \in 1 .. next - 1 :
            /\ k <= Len(regions)
            /\ SizeUpTo(regions)[k - 1] <= Skipped
            /\ found[1].start = regions[k].start + (Skipped - SizeUpTo(regions)[k - 1])
            /\ found[1].end <= regions[k].end
      BY <2>1 DEF IInv, FirstFound
    <3>2. k \in 1 .. next
      BY <2>0, <3>1
    <3>3. found'[1] = found[1]
      <4>1. CASE t = 0
        BY <1>8, <4>1
      <4>2. CASE t # 0
        <5>1. found' = Append(found, cut)
          BY <1>8, <4>2
        <5>2. 1 \in 1 .. Len(found)
          BY <1>2, <2>1, EmptySeq
        <5> QED BY <1>2, <1>7, <5>1, <5>2, AppendProperties
      <4> QED BY <4>1, <4>2
    <3> QED BY <2>0, <3>1, <3>2, <3>3, Zenon DEF FirstFound
  <2>2. CASE found = << >> /\ t # 0
    <3>1. F = 0
      BY <2>2, NoRanges DEF F
    <3>2. found' = Append(found, cut)
      BY <1>8, <2>2
    <3>3. found'[1] = cut
      <4>1. Len(found) = 0
        BY <2>2, NoRanges
      <4>2. 0 + 1 = 1
        OBVIOUS
      <4>3. found'[Len(found) + 1] = cut
        BY <1>2, <1>7, <3>2, AppendProperties
      <4> QED BY <4>1, <4>2, <4>3
    <3>4. c + m = K /\ c <= K /\ m = K - c
      BY <1>4, <1>5, <1>7, <1>17, <2>2, <3>1
    <3>5. r.end = r.start + z
      <4>1. r.start \in Nat /\ r.end \in Nat
        BY <1>6 DEF ByteRanges
      <4> QED BY <4>1 DEF z, RangeSize
    <3>6. cut.end <= r.end
      BY <1>5, <1>6, <1>7, <3>5
    <3>7. cut.start = r.start + (K - c)
      BY <1>7, <3>4
    <3>8. /\ next <= Len(regions) /\ next \in 1 .. next
          /\ SizeUpTo(regions)[next - 1] <= Skipped
          /\ cut.start = regions[next].start + (Skipped - SizeUpTo(regions)[next - 1])
          /\ cut.end <= regions[next].end
      <4>1. next <= Len(regions) /\ next \in 1 .. next
        BY <1>5
      <4>2. r = regions[next] /\ c = SizeUpTo(regions)[next - 1]
        BY DEF r, c, Covered
      <4> QED BY <2>0, <3>4, <3>6, <3>7, <4>1, <4>2
    <3> QED BY <2>0, <3>3, <3>8, Zenon DEF FirstFound
  <2>3. CASE found = << >> /\ t = 0
    BY <1>8, <2>3 DEF FirstFound
  <2> QED BY <2>1, <2>2, <2>3
<1> QED BY <1>20, <1>21, <1>22 DEF IInv

\* The length check and the assertion of retrieve_directory.
LEMMA EndStreamKeepsIInv == IInv /\ EndStream => IInv'
<1> SUFFICES ASSUME IInv, EndStream PROVE IInv'
  OBVIOUS
<1>1. /\ pc = "stream" /\ pc' = "done" /\ outcome' \in {"Some", "OutOfBounds", "Panic"}
      /\ UNCHANGED <<blocks, request, regions, next, offset, budget, found>>
      /\ next > Len(regions) /\ next \in 1 .. Len(regions) + 1
      /\ outcome' = "OutOfBounds" <=> ~Enough
      /\ outcome' = "Some" => (request.kind = "directory" => ~(RangeSize(found[1]) < DirLength))
  BY DEF IInv, TypeOK, EndStream, AllStreamed, Finish
<1>2. TypeOK'
  BY <1>1 DEF IInv, TypeOK
<1>3. regions \in Seq(ByteRanges) /\ Forward(regions) /\ found \in Seq(ByteRanges) /\ Forward(found)
  BY Ranges DEF IInv
<1>4. regions = ObjectRegions(blocks, Id) /\ Scanned
  BY <1>1 DEF IInv, Progress
<1>5. Id' = Id /\ Enough' = Enough /\ Scanned' = Scanned
  BY <1>1 DEF Id, Enough, Scanned, Length, Skipped, Covered, Asked
<1>6. next = Len(regions) + 1
  <2>1. Len(regions) \in Nat
    BY <1>3
  <2> QED BY <1>1, <2>1
<1>7. outcome' = "Some" /\ request.kind = "directory" => RangeSize(found[1]) >= DirLength
  <2> SUFFICES ASSUME outcome' = "Some", request.kind = "directory"
               PROVE  RangeSize(found[1]) >= DirLength
    OBVIOUS
  <2>1. Size(found) >= Length /\ Length = DirLength /\ Length \in Nat /\ Length # 0
    <3>1. request \in Requests
      BY DEF IInv, TypeOK
    <3> QED BY <1>1, <3>1, RequestTypes DEF Enough
  <2>2. found # << >>
    BY <2>1, NoRanges
  <2>3. 1 \in 1 .. Len(found)
    BY <1>3, <2>2, EmptySeq
  <2>4. RangeSize(found[1]) \in Nat
    BY <1>3, <2>3, SizeIsNat
  <2> QED BY <1>1, <2>1, <2>4
<1>8. Progress'
  BY <1>1, <1>4, <1>5, <1>6, <1>7 DEF Progress
<1>9. FirstFound'
  BY <1>1 DEF IInv, FirstFound, Skipped
<1> QED BY <1>2, <1>8, <1>9 DEF IInv

\* Every step keeps the invariant.
LEMMA NextKeepsIInv == IInv /\ [Next]_vars => IInv'
<1> SUFFICES ASSUME IInv, [Next]_vars PROVE IInv'
  OBVIOUS
<1>1. CASE LookUp
  BY <1>1, LookUpKeepsIInv
<1>2. CASE LookUpFails
  BY <1>2, LookUpFailsKeepsIInv
<1>3. CASE StreamRegion
  BY <1>3, StreamRegionKeepsIInv
<1>4. CASE EndStream
  BY <1>4, EndStreamKeepsIInv
<1>5. CASE UNCHANGED vars
  BY <1>5 DEF vars, IInv, TypeOK, Progress, FirstFound, Scanned, Covered, Enough, Asked,
              Skipped, Length, Id
<1> QED BY <1>1, <1>2, <1>3, <1>4, <1>5 DEF Next

\* The strengthened invariant holds of every look-up.
THEOREM Inductive == Spec => []IInv
<1>1. Init => IInv
  BY InitIInv
<1>2. IInv /\ [Next]_vars => IInv'
  BY NextKeepsIInv
<1> QED BY <1>1, <1>2, PTL DEF Spec

-----------------------------------------------------------------------------
(* The properties that follow *)

\* Type correctness: the subtractions of both scans stay at or above zero and no
\* range that is handed out is empty or runs backwards.
THEOREM Typing == Spec => []TypeOK
<1>1. IInv => TypeOK
  BY DEF IInv
<1> QED BY <1>1, Inductive, PTL

\* get_disc_regions: what is handed out is the asked bytes of the object, in order,
\* and nothing is handed out only when the object is too short.
THEOREM ExactSlice == Spec => []RegionsAreTheSlice
<1>1. IInv => RegionsAreTheSlice
  <2> SUFFICES ASSUME IInv PROVE RegionsAreTheSlice
    OBVIOUS
  <2>1. request \in Requests /\ TypeOK /\ Progress
    BY DEF IInv, TypeOK
  <2>2. Length \in Nat /\ Skipped \in Nat
    BY <2>1, RequestTypes
  <2>3. /\ regions \in Seq(ByteRanges) /\ Forward(regions)
        /\ found \in Seq(ByteRanges) /\ Forward(found)
    BY <2>1, Ranges
  <2>4. Size(found) \in Nat /\ Size(regions) \in Nat /\ Len(regions) \in Nat
    BY <2>3, Sums
  <2>5. CASE outcome = "Some"
    <3>1. pc # "lookup" /\ outcome # "Missing"
      BY <2>1, <2>5 DEF Progress
    <3>2. Scanned /\ Size(found) >= Length
      BY <2>1, <2>5, <3>1 DEF Progress, Enough
    <3>3. Size(found) = Length
      <4> DEFINE n == IF Covered <= Skipped THEN 0 ELSE Covered - Skipped
      <4>1. Size(found) = Least2(Length, n)
        BY <3>2 DEF Scanned
      <4>2. Covered \in Nat
        <5>1. next - 1 \in 0 .. Len(regions)
          BY <2>1, <2>4 DEF TypeOK
        <5> QED BY <2>3, <5>1, Sums DEF Covered
      <4>3. n \in Nat
        BY <2>2, <4>2
      <4> HIDE DEF n
      <4> QED BY <2>2, <3>2, <4>1, <4>3 DEF Least2
    <3>4. \A k \in 1 .. Length : Bytes(found)[k] = Asked(k)
      BY <3>2, <3>3 DEF Scanned
    <3> QED BY <2>5, <3>3, <3>4 DEF RegionsAreTheSlice
  <2>6. CASE outcome = "OutOfBounds"
    <3>1. pc # "lookup" /\ outcome # "Missing" /\ next = Len(regions) + 1 /\ ~Enough
      BY <2>1, <2>6 DEF Progress
    <3>2. Scanned
      BY <2>1, <3>1 DEF Progress
    <3>3. Covered = Size(regions)
      <4>1. next - 1 = Len(regions)
        BY <2>4, <3>1
      <4> QED BY <4>1 DEF Covered, Size
    <3>4. Size(found) = Least2(Length, IF Size(regions) <= Skipped THEN 0
                                       ELSE Size(regions) - Skipped)
      BY <3>2, <3>3 DEF Scanned
    <3>5. Size(found) < Length
      BY <2>2, <2>4, <3>1 DEF Enough
    <3>6. Size(regions) < Skipped + Length
      BY <2>2, <2>4, <3>4, <3>5 DEF Least2
    <3> QED BY <2>6, <3>6 DEF RegionsAreTheSlice
  <2> QED BY <2>5, <2>6 DEF RegionsAreTheSlice
<1> QED BY <1>1, Inductive, PTL

\* What has regions is the object that was looked up.
LEMMA ObjectFound ==
  ASSUME IInv, NEW i \in 1 .. Len(regions)
  PROVE  /\ blocks \in Maps /\ Id \in Nat /\ regions = ObjectRegions(blocks, Id)
         /\ SortedFragments(blocks, Id)[i] \in Fragments(blocks, Id)
         /\ regions[i] = ByteRange(blocks, SortedFragments(blocks, Id)[i][1],
                                           SortedFragments(blocks, Id)[i][2])
         /\ Rank(blocks, Id, SortedFragments(blocks, Id)[i]) = i - 1
<1>1. blocks \in Maps /\ request \in Requests
  BY DEF IInv, TypeOK
<1>2. Id \in Nat
  BY <1>1, RequestTypes
<1>3. regions # << >>
  BY EmptySeq
<1>4. regions = ObjectRegions(blocks, Id)
  BY <1>3 DEF IInv, Progress
<1> QED BY <1>1, <1>2, <1>4, RegionsOfObject, Sorted

-----------------------------------------------------------------------------
(* Whole units *)

\* n is a multiple of u.
Whole(n, u) == \E x \in Nat : n = u * x

\* Multiples add up, and a difference that is not negative is one.
LEMMA WholeSums ==
  ASSUME NEW u \in Nat, NEW m \in Nat, NEW n \in Nat, Whole(m, u), Whole(n, u)
  PROVE  Whole(m + n, u) /\ (n <= m => Whole(m - n, u))
<1>1. PICK x \in Nat : m = u * x
  BY DEF Whole
<1>2. PICK y \in Nat : n = u * y
  BY DEF Whole
<1>3. Whole(m + n, u)
  <2>1. m + n = u * (x + y) /\ x + y \in Nat
    BY <1>1, <1>2, Products
  <2> QED BY <2>1 DEF Whole
<1>4. ASSUME n <= m, x < y PROVE Whole(m - n, u)
  <2>1. y - x \in Nat /\ y = x + (y - x)
    BY <1>4
  <2>2. u * (x + (y - x)) = u * x + u * (y - x) /\ u * (y - x) \in Nat
    BY <2>1, Products
  <2>3. m - n = 0
    BY <1>1, <1>2, <1>4, <2>1, <2>2
  <2>4. u * 0 = 0
    OBVIOUS
  <2> QED BY <2>3, <2>4 DEF Whole
<1>5. ASSUME y <= x PROVE Whole(m - n, u)
  <2>1. x - y \in Nat /\ x = y + (x - y)
    BY <1>5
  <2>2. u * (y + (x - y)) = u * y + u * (x - y) /\ u * (x - y) \in Nat
    BY <2>1, Products
  <2>3. m - n = u * (x - y)
    BY <1>1, <1>2, <2>1, <2>2
  <2> QED BY <2>1, <2>3 DEF Whole
<1> QED BY <1>3, <1>4, <1>5

\* A multiple of a multiple of u is one of u.
LEMMA WholeProducts ==
  ASSUME NEW u \in Nat, NEW m \in Nat, NEW n \in Nat, Whole(m, u)
  PROVE  Whole(m * n, u) /\ Whole(n * m, u)
<1>1. PICK x \in Nat : m = u * x
  BY DEF Whole
<1>2. (u * x) * n = u * (x * n) /\ n * (u * x) = u * (x * n) /\ x * n \in Nat
  BY SMT
<1> QED BY <1>1, <1>2 DEF Whole

\* Dividing by q: the product with the quotient is not above v.
LEMMA Division ==
  ASSUME NEW v \in Nat, NEW q \in Nat \ {0}
  PROVE  /\ v \div q \in Nat /\ v % q \in Nat
         /\ q * (v \div q) <= v
         /\ v % q = 0 => v = q * (v \div q)
<1> DEFINE d == v \div q
           r == v % q
<1>1. d \in Nat /\ r \in Nat /\ r < q /\ v = q * d + r
  BY SMTT(30)
<1> HIDE DEF d, r
<1>2. q * d <= v /\ (r = 0 => v = q * d)
  BY <1>1
<1> QED BY <1>1, <1>2, Zenon DEF d, r

\* The unit divides the bytes of a map bit and those of a sector.
LEMMA UnitDivides ==
  ASSUME BytesPerBit # 0
  PROVE  Unit \in Nat \ {0} /\ Whole(BytesPerBit, Unit) /\ Whole(SectorSize, Unit)
<1>1. /\ BytesPerBit \in Nat \ {0} /\ SectorSize \in Nat \ {0}
      /\ BytesPerBit % SectorSize = 0 \/ SectorSize % BytesPerBit = 0
  BY GeometryAssumption
<1>2. ASSUME NEW n \in Nat PROVE Whole(n, n)
  <2>1. n = n * 1
    OBVIOUS
  <2> QED BY <2>1 DEF Whole
<1>3. ASSUME NEW m \in Nat \ {0}, NEW n \in Nat \ {0}, m % n = 0
      PROVE  Whole(m, n) /\ n <= m
  <2>1. m \div n \in Nat
    BY Division
  <2>2. m = n * (m \div n)
    BY <1>3, Division
  <2>3. n <= m
    <3>1. CASE m < n
      <4>1. m % n = m
        BY <3>1
      <4> QED BY <1>3, <4>1
    <3> QED BY <3>1
  <2> QED BY <2>1, <2>2, <2>3 DEF Whole
<1>4. CASE BytesPerBit % SectorSize = 0
  <2>1. Whole(BytesPerBit, SectorSize) /\ SectorSize <= BytesPerBit /\ Whole(SectorSize, SectorSize)
    BY <1>1, <1>2, <1>3, <1>4
  <2>2. Unit = SectorSize
    BY <1>1, <2>1 DEF Unit, Least2
  <2> QED BY <1>1, <2>1, <2>2
<1>5. CASE SectorSize % BytesPerBit = 0
  <2>1. Whole(SectorSize, BytesPerBit) /\ BytesPerBit <= SectorSize /\ Whole(BytesPerBit, BytesPerBit)
    BY <1>1, <1>2, <1>3, <1>5
  <2>2. Unit = BytesPerBit
    BY <2>1 DEF Unit, Least2
  <2> QED BY <1>1, <2>1, <2>2
<1> QED BY <1>1, <1>4, <1>5

\* A multiple that is not below n is not below n rounded up.
LEMMA RoundingUp ==
  ASSUME NEW u \in Nat \ {0}, NEW m \in Nat, NEW n \in Nat, Whole(m, u), n <= m
  PROVE  u * ((n + u - 1) \div u) <= m
<1>1. PICK x \in Nat : m = u * x
  BY DEF Whole
<1> DEFINE q == (n + u - 1) \div u
<1>2. q \in Nat /\ u * q <= n + u - 1
  <2>1. n + u - 1 \in Nat
    OBVIOUS
  <2>2. PICK d \in Nat : d = n + u - 1
    BY <2>1
  <2>3. d \div u \in Nat /\ u * (d \div u) <= d
    BY Division
  <2> QED BY <2>2, <2>3
<1> HIDE DEF q
<1>3. q <= x
  <2> SUFFICES ASSUME x < q PROVE FALSE
    BY <1>2
  <2>1. q - (x + 1) \in Nat /\ q = (x + 1) + (q - (x + 1)) /\ x + 1 \in Nat
    BY <1>2
  <2>2. u * (x + 1) <= u * ((x + 1) + (q - (x + 1)))
    BY <2>1, Products
  <2>3. u * (x + 1) = u * x + u * 1 /\ u * 1 = u
    BY Products
  <2>4. u * x + u <= n + u - 1
    BY <1>1, <1>2, <2>1, <2>2, <2>3
  <2> QED BY <1>1, <2>4
<1>4. u * q <= u * x
  <2>1. x - q \in Nat /\ x = q + (x - q)
    BY <1>2, <1>3
  <2>2. u * q <= u * (q + (x - q))
    BY <1>2, <2>1, Products
  <2> QED BY <2>1, <2>2
<1> QED BY <1>1, <1>4 DEF q

\* The region of a block has as many bytes as its map bits stand for.
LEMMA RegionSize ==
  ASSUME IInv, NEW k \in 1 .. Len(regions)
  PROVE  \E m \in Nat : RangeSize(regions[k]) = BytesPerBit * m
<1> DEFINE f == SortedFragments(blocks, Id)[k]
           p == f[2]
           m == blocks[f[1]][f[2]].map_length
<1>1. blocks \in Maps /\ f \in Fragments(blocks, Id) /\ regions[k] = ByteRange(blocks, f[1], f[2])
  BY ObjectFound
<1>2. /\ f[1] \in Nat /\ p \in Nat /\ m \in Nat
      /\ regions[k].start = BytesPerBit * p + ZoneOffset(f[1])
      /\ regions[k].end = BytesPerBit * (p + m) + ZoneOffset(f[1])
  BY <1>1, FragmentTypes, RangeOfBlock
<1> HIDE DEF p, m, f
<1>3. /\ BytesPerBit * (p + m) = BytesPerBit * p + BytesPerBit * m
      /\ BytesPerBit * p \in Nat /\ BytesPerBit * m \in Nat
  <2>1. BytesPerBit \in Nat
    BY GeometryAssumption
  <2> QED BY <1>2, <2>1, Products
<1>4. ZoneOffset(f[1]) \in Nat
  BY <1>2, ZonesFollow
<1>5. RangeSize(regions[k]) = BytesPerBit * m
  BY <1>2, <1>3, <1>4 DEF RangeSize
<1> QED BY <1>2, <1>5

\* So have any of the object's first regions a whole number of units.
LEMMA SizesAreWhole ==
  ASSUME IInv, BytesPerBit # 0, NEW k \in 0 .. Len(regions)
  PROVE  Whole(SizeUpTo(regions)[k], Unit)
<1> DEFINE s == SizeUpTo(regions)
           Bad == {n \in 0 .. Len(regions) : ~Whole(s[n], Unit)}
<1>1. regions \in Seq(ByteRanges) /\ Forward(regions)
  BY Ranges DEF IInv
<1>2. /\ Len(regions) \in Nat /\ s[0] = 0
      /\ \A n \in 0 .. Len(regions) : s[n] \in Nat
      /\ \A n \in 1 .. Len(regions) :
           s[n] = s[n - 1] + RangeSize(regions[n]) /\ RangeSize(regions[n]) \in Nat
  BY <1>1, Sums
<1>3. Unit \in Nat /\ Whole(BytesPerBit, Unit) /\ BytesPerBit \in Nat
  BY UnitDivides, GeometryAssumption
<1>4. \A n \in 1 .. Len(regions) : Whole(RangeSize(regions[n]), Unit)
  BY <1>3, RegionSize, WholeProducts
<1> HIDE DEF s
<1>5. Bad = {}
  <2> SUFFICES ASSUME Bad # {} PROVE FALSE
    OBVIOUS
  <2>0. Bad \subseteq Nat /\ Bad # {}
    OBVIOUS
  <2>1. PICK n \in Bad : \A m \in Bad : n <= m
    BY <2>0, LeastOf, Zenon
  <2>2. n # 0
    <3>1. Unit * 0 = 0
      BY <1>3
    <3>2. Whole(0, Unit)
      BY <3>1 DEF Whole
    <3> QED BY <1>2, <2>1, <3>2
  <2>3. n - 1 \in 0 .. Len(regions) /\ n \in 1 .. Len(regions) /\ n - 1 < n
    BY <1>2, <2>2
  <2>4. Whole(s[n - 1], Unit)
    BY <2>1, <2>3
  <2>5. /\ s[n] = s[n - 1] + RangeSize(regions[n]) /\ s[n - 1] \in Nat
        /\ RangeSize(regions[n]) \in Nat /\ Whole(RangeSize(regions[n]), Unit)
    BY <1>2, <1>4, <2>3
  <2>6. Whole(s[n], Unit)
    BY <1>3, <2>4, <2>5, WholeSums
  <2> QED BY <2>1, <2>6
<1> QED BY <1>5 DEF s

\* retrieve_directory and Directory::parse: what is read from the start of the first
\* region on is the directory, as far as the asserted length rounded up goes.
THEOREM WholeDirectory == Spec => []DirectoryIsContiguous
<1>1. IInv => DirectoryIsContiguous
  <2> SUFFICES ASSUME IInv, request.kind = "directory", outcome = "Some",
                      NEW i \in 1 .. Least2(DirExtent, RoundedUp(DirLength))
               PROVE  Asked(i) = found[1].start + i - 1
    BY DEF DirectoryIsContiguous
  <2>1. request \in Requests /\ TypeOK /\ Progress /\ FirstFound
    BY DEF IInv, TypeOK
  <2>2. Length = DirLength /\ DirLength \in Nat \ {0} /\ Skipped \in Nat /\ DirExtent \in Nat
    <3>1. DirLength \in Nat \ {0} /\ DirExtent \in Nat
      BY GeometryAssumption
    <3> QED BY <2>1, <3>1, RequestTypes
  <2>3. /\ found \in Seq(ByteRanges) /\ Forward(found)
        /\ regions \in Seq(ByteRanges) /\ Forward(regions)
    BY <2>1, Ranges
  <2>4. RangeSize(found[1]) >= DirLength /\ found # << >>
    <3>1. Size(found) >= DirLength /\ RangeSize(found[1]) >= DirLength
      BY <2>1, <2>2 DEF Progress, Enough
    <3> QED BY <2>2, <3>1, NoRanges
  <2>5. PICK k \in 1 .. next - 1 :
          /\ k <= Len(regions)
          /\ SizeUpTo(regions)[k - 1] <= Skipped
          /\ found[1].start = regions[k].start + (Skipped - SizeUpTo(regions)[k - 1])
          /\ found[1].end <= regions[k].end
    BY <2>1, <2>4 DEF FirstFound
  <2>6. k \in 1 .. Len(regions) /\ k - 1 \in 0 .. Len(regions) /\ 1 \in 1 .. Len(found)
    <3>1. Len(regions) \in Nat
      BY <2>3
    <3> QED BY <2>3, <2>4, <2>5, <3>1, EmptySeq
  <2> DEFINE s == SizeUpTo(regions)[k - 1]
             r == regions[k]
             z == RangeSize(r)
             d == Skipped - s
  <2>7. /\ r.start \in Nat /\ r.end \in Nat /\ found[1].start \in Nat /\ found[1].end \in Nat
        /\ z \in Nat /\ z = r.end - r.start
        /\ s \in Nat /\ s <= Skipped /\ d \in Nat
        /\ SizeUpTo(regions)[k] = s + z
    <3>1. r \in ByteRanges /\ found[1] \in ByteRanges
      BY <2>3, <2>6
    <3>2. s \in Nat /\ z \in Nat /\ SizeUpTo(regions)[k] = s + z
      BY <2>3, <2>6, Sums
    <3>3. r.start \in Nat /\ r.end \in Nat /\ found[1].start \in Nat /\ found[1].end \in Nat
      BY <3>1 DEF ByteRanges
    <3>4. z = r.end - r.start
      BY DEF RangeSize
    <3>5. s <= Skipped
      BY <2>5
    <3> HIDE DEF s, r, z
    <3>6. d \in Nat
      BY <2>2, <3>2, <3>5
    <3> QED BY <3>2, <3>3, <3>4, <3>5, <3>6
  <2>8. DirLength <= z - d /\ found[1].start = r.start + d
    <3>1. found[1].end - found[1].start >= DirLength
      BY <2>4 DEF RangeSize
    <3>2. found[1].start = r.start + d /\ found[1].end <= r.end
      BY <2>5
    <3> HIDE DEF r, d, s, z
    <3> QED BY <2>2, <2>7, <3>1, <3>2
  <2>9. PICK m \in Nat : z = BytesPerBit * m
    BY <2>6, RegionSize
  <2> HIDE DEF s, r, z, d
  <2>10. z - d \in Nat /\ d <= z /\ z # 0
    BY <2>2, <2>7, <2>8
  <2>11. BytesPerBit # 0
    <3>1. 0 * m = 0
      OBVIOUS
    <3> QED BY <2>9, <2>10, <3>1
  <2>12. /\ Unit \in Nat \ {0} /\ Whole(BytesPerBit, Unit) /\ Whole(SectorSize, Unit)
         /\ BytesPerBit \in Nat /\ SectorSize \in Nat
    BY <2>11, UnitDivides, GeometryAssumption
  <2>13. Whole(z, Unit) /\ Whole(d, Unit)
    <3>1. Whole(s, Unit)
      BY <2>6, <2>11, SizesAreWhole DEF s
    <3>2. Whole(Skipped, Unit)
      <4>1. SectorIdx(request.address) \in Nat
        BY <2>1, RequestsAssumption, AddressIsNat
      <4> QED BY <2>12, <4>1, WholeProducts DEF Skipped
    <3>3. Whole(d, Unit)
      BY <2>2, <2>7, <2>12, <3>1, <3>2, WholeSums DEF d
    <3> QED BY <2>9, <2>12, <3>3, WholeProducts
  <2>14. RoundedUp(DirLength) <= z - d
    <3>1. Whole(z - d, Unit)
      BY <2>7, <2>10, <2>12, <2>13, WholeSums
    <3> QED BY <2>2, <2>8, <2>10, <2>12, <3>1, RoundingUp DEF RoundedUp
  <2>15. i \in Nat /\ 1 <= i /\ i <= z - d
    <3>1. RoundedUp(DirLength) \in Int
      <4>1. (DirLength + Unit - 1) \div Unit \in Int
        <5>1. \A a \in Int : \A b \in Nat \ {0} : a \div b \in Int
          OBVIOUS
        <5>2. DirLength + Unit - 1 \in Int
          BY <2>2, <2>12
        <5> QED BY <2>12, <5>1, <5>2
      <4>2. \A a, b \in Int : a * b \in Int
        OBVIOUS
      <4> QED BY <2>12, <4>1, <4>2 DEF RoundedUp
    <3>2. Least2(DirExtent, RoundedUp(DirLength)) <= RoundedUp(DirLength)
      BY <2>2, <3>1 DEF Least2
    <3>3. Least2(DirExtent, RoundedUp(DirLength)) \in Int
      BY <2>2, <3>1 DEF Least2
    <3> QED BY <2>7, <2>14, <3>1, <3>2, <3>3
  <2>16. Skipped + i \in s + 1 .. s + z
    BY <2>2, <2>7, <2>15 DEF d
  <2>17. Bytes(regions)[Skipped + i] = r.start + ((Skipped + i) - s) - 1
    <3>1. Skipped + i \in SizeUpTo(regions)[k - 1] + 1 .. SizeUpTo(regions)[k]
      BY <2>7, <2>16 DEF s
    <3> QED BY <2>3, <2>6, <3>1, BytesOfRange DEF s, r
  <2>18. r.start + ((Skipped + i) - s) - 1 = found[1].start + i - 1
    BY <2>2, <2>7, <2>8, <2>15 DEF d
  <2> QED BY <2>17, <2>18 DEF Asked
<1> QED BY <1>1, Inductive, PTL

-----------------------------------------------------------------------------
(* The order and the disjointness of blocks *)

\* DiscObject::new: on a disc whose zones are divided into blocks the object shares
\* no byte with itself or with another object.
THEOREM NoSharedBytes == Spec => []ObjectsAreDisjoint
<1>1. IInv => ObjectsAreDisjoint
  <2> SUFFICES ASSUME IInv, Divided, NEW i \in 1 .. Len(regions)
               PROVE  /\ \A j \in 1 .. Len(regions) \ {i} :
                           Extent(regions[i]) \cap Extent(regions[j]) = {}
                      /\ \A id \in {Fragment(r.address) : r \in Requests} \ {Id} :
                           \A f \in Fragments(blocks, id) :
                             Extent(regions[i])
                               \cap Extent(ByteRange(blocks, f[1], f[2])) = {}
    BY DEF ObjectsAreDisjoint
  <2> DEFINE q(j) == SortedFragments(blocks, Id)[j]
  <2>1. /\ blocks \in Maps
        /\ q(i) \in Fragments(blocks, Id)
        /\ regions[i] = ByteRange(blocks, q(i)[1], q(i)[2])
        /\ Rank(blocks, Id, q(i)) = i - 1
    BY ObjectFound
  <2>2. ASSUME NEW j \in 1 .. Len(regions), j # i
        PROVE  Extent(regions[i]) \cap Extent(regions[j]) = {}
    <3>1. /\ q(j) \in Fragments(blocks, Id)
          /\ regions[j] = ByteRange(blocks, q(j)[1], q(j)[2])
          /\ Rank(blocks, Id, q(j)) = j - 1
      BY ObjectFound
    <3>2. q(i) # q(j)
      <4>1. i - 1 # j - 1
        BY <2>2
      <4> QED BY <2>1, <3>1, <4>1
    <3> HIDE DEF q
    <3> QED BY <2>1, <3>1, <3>2, BlocksApart
  <2>3. ASSUME NEW id, id # Id, NEW f \in Fragments(blocks, id)
        PROVE  Extent(regions[i]) \cap Extent(ByteRange(blocks, f[1], f[2])) = {}
    <3> HIDE DEF q
    <3>1. f # q(i)
      <4>1. blocks[f[1]][f[2]].id = id
        BY <2>1, FragmentTypes
      <4>2. blocks[q(i)[1]][q(i)[2]].id = Id
        BY <2>1, FragmentTypes
      <4> QED BY <2>3, <4>1, <4>2
    <3> QED BY <2>1, <3>1, BlocksApart
  <2> HIDE DEF q
  <2> QED BY <2>2, <2>3
<1> QED BY <1>1, Inductive, PTL

\* sort_blocks: an object with a block in its own zone begins with the first of
\* those blocks.
THEOREM HomeZone == Spec => []BeginsInOwnZone
<1>1. IInv => BeginsInOwnZone
  <2> DEFINE home == StartingZone(Id)
             own == {f \in Fragments(blocks, Id) : f[1] = home}
  <2> SUFFICES ASSUME IInv, regions # << >>, own # {}
               PROVE  \E f \in own : /\ \A g \in own : f[2] <= g[2]
                                     /\ regions[1] = ByteRange(blocks, f[1], f[2])
    BY DEF BeginsInOwnZone
  <2> DEFINE S == Fragments(blocks, Id)
             f == SortedFragments(blocks, Id)[1]
  <2>1. 1 \in 1 .. Len(regions)
    <3>1. regions \in Seq(ByteRanges)
      BY DEF IInv, TypeOK
    <3> QED BY <3>1, EmptySeq
  <2>2. /\ blocks \in Maps /\ Id \in Nat /\ f \in S
        /\ regions[1] = ByteRange(blocks, f[1], f[2])
        /\ Rank(blocks, Id, f) = 0
    <3>1. 1 - 1 = 0
      OBVIOUS
    <3> QED BY <2>1, <3>1, ObjectFound
  <2>3. \A g \in S : ~Before(Id, g, f)
    <3>1. {g \in S : Before(Id, g, f)} \in SUBSET S
      OBVIOUS
    <3>2. IsFiniteSet({g \in S : Before(Id, g, f)})
      <4>1. IsFiniteSet(S)
        BY <2>2, FragmentsAreFinite
      <4> HIDE DEF S, f
      <4> QED BY <3>1, <4>1, FS_Subset
    <3>3. Cardinality({g \in S : Before(Id, g, f)}) = 0
      BY <2>2 DEF Rank
    <3>4. {g \in S : Before(Id, g, f)} = {}
      <4> HIDE DEF S, f
      <4> QED BY <3>2, <3>3, FS_EmptySet
    <3> QED BY <3>4
  <2>4. home \in Nat /\ AdjustedZone(Id, home) = 0
    <3>1. home \in Nat
      BY <2>2, AdjustedZones
    <3>2. \A n \in Nat : (n - n) % 65536 = 0
      OBVIOUS
    <3> QED BY <3>1, <3>2 DEF AdjustedZone, UsizeRange
  <2>5. \A g \in S : g[1] \in Zone /\ g[2] \in Nat
    BY <2>2, FragmentTypes
  <2> HIDE DEF home, S, f
  <2>6. PICK g \in own : TRUE
    OBVIOUS
  <2>7. g \in S /\ g[1] = home
    BY <2>6 DEF S
  <2>8. f[1] = home
    <3>1. ~(AdjustedZone(Id, g[1]) < AdjustedZone(Id, f[1]))
      BY <2>3, <2>7 DEF Before
    <3>2. AdjustedZone(Id, f[1]) \in Nat
      BY <2>2, <2>5, AdjustedZones
    <3>3. AdjustedZone(Id, f[1]) = AdjustedZone(Id, g[1])
      BY <2>4, <2>7, <3>1, <3>2
    <3>4. f[1] \in Zone /\ g[1] \in Zone
      BY <2>2, <2>5, <2>7
    <3> QED BY <2>2, <2>7, <3>3, <3>4, AdjustedZones
  <2>9. ASSUME NEW h \in own PROVE f[2] <= h[2]
    <3>1. h \in S /\ h[1] = f[1]
      BY <2>8 DEF S
    <3>2. ~(h[2] < f[2])
      BY <2>3, <3>1 DEF Before
    <3> QED BY <2>2, <2>5, <3>1, <3>2
  <2>10. f \in own
    BY <2>2, <2>8 DEF S
  <2> QED BY <2>2, <2>9, <2>10
<1> QED BY <1>1, Inductive, PTL

===============================================================================
