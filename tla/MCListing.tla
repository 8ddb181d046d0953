------------------------------ MODULE MCListing ------------------------------
(***************************************************************************)
(* Small instances of Listing: directories with room for three entries and *)
(* with none, one or three of them, every byte of which may be changed and *)
(* behind every byte of which a new version may end; and all texts of up   *)
(* to three of seven pieces, and paths of up to five of four.              *)
(***************************************************************************)
EXTENDS Listing
LOCAL INSTANCE SequencesExt

MCCapacity == 3

Nulls(n) == [i \in 1 .. n |-> 0]
Letters(n) == [i \in 1 .. n |-> 97]

\* An entry with a name behind whose terminator older bytes remain.
Entry(name, load, attr) ==
  LET field == IF Len(name) = 10 THEN name
               ELSE SubSeq(name \o <<13>> \o Letters(9), 1, 10)
  IN  field \o <<load, 1, 2, 3>> \o <<4, 5, 6, 7>> \o <<9, 0, 0, 0>> \o <<1, 3, 0>> \o <<attr>>

EmptySlot == Nulls(26)

DirTail(seq) == <<0, 0, 0>> \o <<1, 2, 0>> \o Letters(4) \o Nulls(15)
               \o <<36>> \o Nulls(9) \o <<seq>> \o <<78, 105, 99, 107>> \o <<0>>

ValueOf(bits) == FoldSet(LAMBDA i, sum : sum + 2^i, 0, bits)

\* The directory with its check byte.
Sealed(d) == [d EXCEPT ![LENGTH] = ValueOf(Checksum(d, CountKept(d)))]

MakeDirectory(seq, first, second, third) ==
  Sealed(<<seq>> \o <<72, 117, 103, 111>> \o first \o second \o third \o DirTail(seq))

Empty == MakeDirectory(4, EmptySlot, EmptySlot, EmptySlot)

\* One entry, and behind the empty slot what is left of a deleted one.
One == MakeDirectory(4, Entry(<<97>>, 8, 3), EmptySlot, Entry(<<98>>, 8, 255))

Full == MakeDirectory(4, Entry(<<97>>, 8, 3), Entry(<<98, 99>>, 8, 67), Entry(Letters(10), 8, 11))

\* A version of Full in which two entries and the sequence numbers changed.
Newer(load) ==
  MakeDirectory(5, Entry(<<97>>, load, 3), Entry(<<98, 99>>, 9, 67), Entry(Letters(10), 8, 11))

Session(written, read, text) == [written |-> written, read |-> read, text |-> text]

Damaged ==
  {Session({d}, [d EXCEPT ![i] = v], <<36>>) :
     d \in {One, Full}, i \in 1 .. LENGTH, v \in {0, 32, 90, 128, 255}}
  \cup {Session({Full}, [Full EXCEPT ![i] = (@ + n) % 256], <<36>>) :
     i \in 1 .. LENGTH, n \in {1, 128}}

Torn ==
  UNION {{Session({Full, new}, SubSeq(new, 1, n) \o SubSeq(Full, n + 1, LENGTH), <<36>>) :
            n \in 0 .. LENGTH} :
         new \in {Newer(load) : load \in {9, 10, 12, 0, 24, 40, 72, 136}}}

\* Names as a disc may hold them: Latin-1 and UTF-8 letters, a quote, a backslash,
\* bytes that no text can have in a name, ten bytes.
Named(a, b, c) == MakeDirectory(4, Entry(a, 8, 3), Entry(b, 8, 3), Entry(c, 8, 3))

Listed ==
  {Session({d}, d, <<36>>) :
     d \in {Named(<<233>>, <<195, 169>>, <<97, 39>>),
            Named(<<92, 97>>, <<97, 46, 98>>, <<195, 97>>),
            Named(Letters(10), <<97, 32, 98>>, <<97, 36>>),
            Named(<<169>>, <<97, 96>>, <<97, 97, 97, 97, 97, 97, 97, 97, 97, 34>>)}}

\* $ . a, ten letters, a control character, an e with an acute accent and an A with
\* a grave one, whose second byte is 80.
Pieces == {<<36>>, <<46>>, <<97>>, Letters(10), <<9>>, <<195, 169>>, <<195, 128>>}

Sequences(S, n) == UNION {[1 .. k -> S] : k \in 0 .. n}

Texts ==
  {FlattenSeq(t) : t \in Sequences(Pieces, 3)}
  \cup {<<36>> \o FlattenSeq(t) :
          t \in Sequences({<<46>>, <<97>>, Letters(10), <<195, 128>>}, 5)}

MCSessions == Damaged \cup Torn \cup Listed \cup {Session({Empty}, Empty, t) : t \in Texts}

==============================================================================
