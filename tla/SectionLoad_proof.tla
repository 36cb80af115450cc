-------------------------- MODULE SectionLoad_proof --------------------------
(***************************************************************************)
(* Proofs about SectionLoad, for all sections and bodies, every order in   *)
(* which symbols are placed, every read failing or not, and pages that end *)
(* anywhere.                                                               *)
(***************************************************************************)
EXTENDS SectionLoad, TLAPS

(***************************************************************************)
(* Arithmetic of the boundaries that raw_get() rounds up to.               *)
(***************************************************************************)

\* What a quotient covers determines it.
LEMMA Quotient ==
  ASSUME NEW n \in Nat, NEW m \in Nat \ {0}, NEW q \in Nat, q * m <= n, n < q * m + m
  PROVE  n \div m = q
  <1> DEFINE r == n \div m
  <1>1. r \in Nat /\ r * m <= n /\ n < r * m + m
    OBVIOUS
  <1> HIDE DEF r
  <1>2. CASE r < q
    <2>1. q = r + 1 + (q - r - 1) /\ q - r - 1 \in Nat
      BY <1>1, <1>2
    <2>2. q * m >= r * m + m
      BY <1>1, <2>1
    <2> QED
      BY <1>1, <2>2
  <1>3. CASE q < r
    <2>1. r = q + 1 + (r - q - 1) /\ r - q - 1 \in Nat
      BY <1>1, <1>3
    <2>2. r * m >= q * m + m
      BY <1>1, <2>1
    <2> QED
      BY <1>1, <2>2
  <1> QED
    BY <1>1, <1>2, <1>3 DEF r

Mult(n) == \E q \in Nat : n = q * Unit

\* A rounded size covers the size and ends on a boundary.
LEMMA RoundUpCovers ==
  ASSUME NEW n \in Nat
  PROVE  RoundUp(n) \in Nat /\ RoundUp(n) >= n /\ Mult(RoundUp(n))
  <1>1. Unit \in Nat \ {0} /\ n + Unit - 1 \in Nat
    BY BoundsAssumption
  <1> DEFINE q == (n + Unit - 1) \div Unit
  <1>2. q \in Nat /\ n + Unit - 1 < q * Unit + Unit
    BY <1>1
  <1>3. RoundUp(n) = q * Unit
    BY DEF RoundUp
  <1> HIDE DEF q
  <1>4. q * Unit \in Nat
    BY <1>1, <1>2
  <1> QED
    BY <1>1, <1>2, <1>3, <1>4 DEF Mult

\* Behind a boundary a size is rounded up as it is behind the start.
LEMMA RoundUpBehind ==
  ASSUME NEW n \in Nat, NEW m \in Nat, Mult(m), m <= n
  PROVE  RoundUp(n - m) = RoundUp(n) - m
  <1>1. Unit \in Nat \ {0} /\ n + Unit - 1 \in Nat
    BY BoundsAssumption
  <1>2. PICK s \in Nat : m = s * Unit
    BY DEF Mult
  <1> DEFINE q == (n + Unit - 1) \div Unit
  <1>3. q \in Nat /\ q * Unit <= n + Unit - 1 /\ n + Unit - 1 < q * Unit + Unit
    BY <1>1
  <1>4. RoundUp(n) = q * Unit
    BY DEF RoundUp
  <1> HIDE DEF q
  <1>5. q >= s
    <2> SUFFICES ASSUME q < s PROVE FALSE
      BY <1>2, <1>3
    <2>1. s = q + 1 + (s - q - 1) /\ s - q - 1 \in Nat
      BY <1>2, <1>3
    <2>2. s * Unit >= q * Unit + Unit
      BY <1>1, <1>3, <2>1
    <2> QED
      BY <1>1, <1>2, <1>3, <2>2
  <1>6. q - s \in Nat /\ (q - s) * Unit = q * Unit - m
    BY <1>1, <1>2, <1>3, <1>5
  <1>7. n - m \in Nat /\ (n - m) + Unit - 1 \in Nat
    BY <1>1
  <1>8. ((n - m) + Unit - 1) \div Unit = q - s
    <2>1. q * Unit \in Nat
      BY <1>1, <1>3
    <2>2. (q - s) * Unit <= (n - m) + Unit - 1 /\ (n - m) + Unit - 1 < (q - s) * Unit + Unit
      BY <1>1, <1>3, <1>6, <2>1
    <2> QED
      BY <1>1, <1>6, <1>7, <2>2, Quotient
  <1> QED
    BY <1>4, <1>6, <1>8 DEF RoundUp

(***************************************************************************)
(* What a symbol asks for.                                                 *)
(***************************************************************************)

\* Masked or not, it is bytes of a section.
LEMMA BodyFields ==
  ASSUME NEW b \in Bodies
  PROVE  /\ b.sec \in 1..Len(Sections) /\ Start(b) \in Nat
         /\ Lo(b) \in Nat /\ Hi(b) \in Nat /\ Lo(b) <= Hi(b)
  <1>1. b.sec \in 1..Len(Sections) /\ b.value \in Nat /\ b.size \in Nat
    BY BodiesAssumption
  <1>2. Even(b.value) \in Nat
    BY <1>1, SMTT(30) DEF Even
  <1>3. Start(b) \in Nat /\ Lo(b) \in Nat
    BY <1>1, <1>2 DEF Start, Lo
  <1> QED
    BY <1>1, <1>3 DEF Hi

(***************************************************************************)
(* What a reservation does to a segment.                                   *)
(***************************************************************************)

\* What is in the segment stays where it is, the new bytes follow, then padding, and
\* a page may begin where the segment ended.
LEMMA ReserveGrows ==
  ASSUME NEW S, Pad \in S, bytes \in [Segments -> Seq(S)],
         NEW g \in Segments, NEW content \in Seq(S), Reserve(g, content)
  PROVE  /\ bytes' \in [Segments -> Seq(S)]
         /\ \A h \in Segments : h # g => bytes'[h] = bytes[h]
         /\ Len(bytes'[g]) = Len(bytes[g]) + RoundUp(Len(content))
         /\ \A k \in 1..Len(bytes[g]) : bytes'[g][k] = bytes[g][k]
         /\ \A k \in 1..Len(content) : bytes'[g][Len(bytes[g]) + k] = content[k]
         /\ \A k \in (Len(content) + 1)..RoundUp(Len(content)) :
              bytes'[g][Len(bytes[g]) + k] = Pad
  <1> DEFINE n == Len(content)
             pads == [i \in 1..(RoundUp(n) - n) |-> Pad]
             old == bytes[g]
  <1>1. n \in Nat /\ RoundUp(n) \in Nat /\ RoundUp(n) >= n
    BY RoundUpCovers
  <1>2. old \in Seq(S) /\ Len(old) \in Nat
    OBVIOUS
  <1>3. pads \in Seq(S) /\ Len(pads) = RoundUp(n) - n
    BY <1>1
  <1>4. /\ bytes' = [bytes EXCEPT ![g] = old \o content \o pads]
    BY DEF Reserve
  <1>5. \A k \in 1..(RoundUp(n) - n) : pads[k] = Pad
    OBVIOUS
  <1> HIDE DEF n, pads, old
  <1> DEFINE mid == old \o content
  <1>6. /\ mid \in Seq(S) /\ Len(mid) = Len(old) + n
        /\ \A k \in 1..Len(old) : mid[k] = old[k]
        /\ \A k \in 1..n : mid[Len(old) + k] = content[k]
    BY <1>1, <1>2 DEF n
  <1> HIDE DEF mid
  <1> DEFINE new == mid \o pads
  <1>7. /\ new \in Seq(S) /\ Len(new) = Len(mid) + Len(pads)
        /\ \A k \in 1..Len(mid) : new[k] = mid[k]
        /\ \A k \in 1..Len(pads) : new[Len(mid) + k] = pads[k]
    <2>1. mid \in Seq(S) /\ pads \in Seq(S)
      BY <1>3, <1>6
    <2> QED
      BY <2>1
  <1> HIDE DEF new
  <1>8. bytes'[g] = new /\ \A h \in Segments : h # g => bytes'[h] = bytes[h]
    BY <1>4 DEF new, mid
  <1>9. bytes' \in [Segments -> Seq(S)]
    BY <1>4, <1>7 DEF new, mid
  <1>10. Len(new) = Len(old) + RoundUp(n)
    BY <1>1, <1>2, <1>3, <1>6, <1>7
  <1>11. \A k \in 1..Len(old) : new[k] = old[k]
    BY <1>1, <1>2, <1>6, <1>7
  <1>12. \A k \in 1..n : new[Len(old) + k] = content[k]
    BY <1>1, <1>2, <1>6, <1>7
  <1>13. \A k \in (n + 1)..RoundUp(n) : new[Len(old) + k] = Pad
    <2> SUFFICES ASSUME NEW k \in (n + 1)..RoundUp(n) PROVE new[Len(old) + k] = Pad
      OBVIOUS
    <2>1. k - n \in 1..Len(pads) /\ Len(mid) + (k - n) = Len(old) + k
      BY <1>1, <1>2, <1>3, <1>6
    <2> QED
      BY <1>3, <1>5, <1>7, <2>1
  <1> QED
    BY <1>8, <1>9, <1>10, <1>11, <1>12, <1>13 DEF n, old

\* A page begins at the segment's old end, if it begins.
LEMMA ReserveCuts ==
  ASSUME cuts \in [Segments -> SUBSET Nat], NEW g \in Segments, NEW content,
         TableOffset(g) \in Nat, Reserve(g, content)
  PROVE  /\ cuts' \in [Segments -> SUBSET Nat]
         /\ \A h \in Segments : cuts[h] \subseteq cuts'[h]
         /\ \A h \in Segments : \A c \in cuts'[h] :
              c \in cuts[h] \/ (h = g /\ c = TableOffset(g) /\ c > 0)
  BY DEF Reserve

(***************************************************************************)
(* Types, and the place of the sections in their segments.                 *)
(***************************************************************************)
Bytes(n) == (0..n) \X (0..Len(Sections)) \X Nat
Header == [base: Nat, last: Nat, support: Segments \union {NoSegment}]
Spots(n) == [load: 1..n, sec: 1..Len(Sections), start: Nat, lo: Nat, hi: Nat,
             segment: Segments, at: Nat]
Supported(i) == shdr[i].support # NoSegment

Shape == /\ bytes \in [Segments -> Seq(Bytes(loads))]
         /\ cuts \in [Segments -> SUBSET Nat]
         /\ shdr \in [1..Len(Sections) -> Header]
         /\ placed \subseteq Spots(loads)
         /\ phase \in {"idle", "prefetch", "import"}
         /\ scan \in 1..(Len(Sections) + 1)
         /\ loads \in 0..MaxLoads
         /\ phase # "idle" => loads > 0

Ranges ==
  /\ \A i \in 1..Len(Sections) :
       /\ shdr[i].base <= shdr[i].last
       /\ Supported(i) => /\ shdr[i].support = Mapping(i)
                          /\ shdr[i].last <= TableOffset(Mapping(i))
  /\ \A g \in Segments : \A c \in cuts[g] : c <= TableOffset(g)

BInv == Shape /\ Ranges

\* The sections of the object are a list, and each has its fields.
LEMMA SectionFields ==
  /\ Len(Sections) \in Nat
  /\ \A i \in 1..Len(Sections) : Sections[i].size \in Nat
  <1> DEFINE R == [type: Types, flags: SUBSET Flags, size: Nat]
  <1>1. Sections \in Seq(R)
    BY SectionsAssumption
  <1> HIDE DEF R
  <1>2. Len(Sections) \in Nat /\ \A i \in 1..Len(Sections) : Sections[i] \in R
    BY <1>1
  <1> QED
    BY <1>2 DEF R

\* A section is mapped to a segment of the image or to none.
LEMMA Mapped ==
  /\ NoSegment \notin Segments
  /\ Pad = <<0, 0, 0>> /\ Unmapped.support = NoSegment /\ Unmapped \in Header
  /\ \A i \in 1..Len(Sections) : Mapping(i) # NoSegment => Mapping(i) \in Segments
  /\ \A i \in 1..Len(Sections) : IsData(i) => Mapping(i) \in Segments
  BY DEF NoSegment, Segments, Pad, Unmapped, Header, Mapping, IsData

\* The invariant types the variables.
LEMMA BaseTypes == BInv => TypeOK
  <1> SUFFICES ASSUME BInv PROVE TypeOK
    OBVIOUS
  <1>1. \A i \in 1..Len(Sections) : /\ shdr[i].base \in Nat /\ shdr[i].last \in Nat
                                    /\ shdr[i].support \in Segments \union {NoSegment}
    <2>1. \A i \in 1..Len(Sections) : shdr[i] \in Header
      BY DEF BInv, Shape
    <2> QED
      BY <2>1 DEF Header
  <1>2. \A p \in placed : p.load \in 1..loads /\ p.segment \in Segments /\ p.at \in Nat
    BY DEF BInv, Shape, Spots
  <1> QED
    BY <1>1, <1>2 DEF BInv, Shape, TypeOK, Bytes

\* A segment's length and a section's place are numbers.
LEMMA BaseFields ==
  ASSUME BInv
  PROVE  /\ \A g \in Segments : bytes[g] \in Seq(Bytes(loads)) /\ TableOffset(g) \in Nat
         /\ \A i \in 1..Len(Sections) :
              /\ shdr[i].base \in Nat /\ shdr[i].last \in Nat
              /\ shdr[i].support \in Segments \union {NoSegment}
         /\ Pad \in Bytes(loads)
  <1>1. \A i \in 1..Len(Sections) : /\ shdr[i].base \in Nat /\ shdr[i].last \in Nat
                                    /\ shdr[i].support \in Segments \union {NoSegment}
    BY BaseTypes DEF TypeOK
  <1>2. \A g \in Segments : bytes[g] \in Seq(Bytes(loads))
    BY DEF BInv, Shape
  <1>3. \A g \in Segments : TableOffset(g) \in Nat
    BY <1>2 DEF TableOffset
  <1>4. loads \in Nat /\ Len(Sections) \in Nat
    BY SectionFields, BoundsAssumption DEF BInv, Shape
  <1>5. Pad \in Bytes(loads)
    BY <1>4 DEF Pad, Bytes
  <1> QED
    BY <1>1, <1>2, <1>3, <1>5

(***************************************************************************)
(* Whatever a step does, it only adds to the segments, and a page begins   *)
(* nowhere but at a segment's end.                                         *)
(***************************************************************************)
Grown ==
  /\ bytes' \in [Segments -> Seq(Bytes(loads'))]
  /\ cuts' \in [Segments -> SUBSET Nat]
  /\ \A h \in Segments : /\ Len(bytes'[h]) >= TableOffset(h)
                         /\ \A k \in 1..TableOffset(h) : bytes'[h][k] = bytes[h][k]
                         /\ \A c \in cuts'[h] : c \in cuts[h] \/ c = TableOffset(h)

\* A reservation adds to one segment.
LEMMA ReservedGrown ==
  ASSUME BInv, NEW g \in Segments, NEW content \in Seq(Bytes(loads)),
         Reserve(g, content), UNCHANGED loads
  PROVE  Grown /\ Len(bytes'[g]) = TableOffset(g) + RoundUp(Len(content))
  <1>1. /\ \A h \in Segments : bytes[h] \in Seq(Bytes(loads)) /\ TableOffset(h) \in Nat
        /\ Pad \in Bytes(loads) /\ bytes \in [Segments -> Seq(Bytes(loads))]
        /\ cuts \in [Segments -> SUBSET Nat]
    BY BaseFields DEF BInv, Shape
  <1>2. /\ bytes' \in [Segments -> Seq(Bytes(loads))]
        /\ \A h \in Segments : h # g => bytes'[h] = bytes[h]
        /\ Len(bytes'[g]) = Len(bytes[g]) + RoundUp(Len(content))
        /\ \A k \in 1..Len(bytes[g]) : bytes'[g][k] = bytes[g][k]
    BY <1>1, ReserveGrows
  <1>3. /\ cuts' \in [Segments -> SUBSET Nat]
        /\ \A h \in Segments : \A c \in cuts'[h] : c \in cuts[h] \/ (h = g /\ c = TableOffset(g))
    BY <1>1, ReserveCuts
  <1>4. Len(content) \in Nat /\ RoundUp(Len(content)) \in Nat
    BY RoundUpCovers
  <1>5. \A h \in Segments : /\ Len(bytes'[h]) >= TableOffset(h)
                            /\ \A k \in 1..TableOffset(h) : bytes'[h][k] = bytes[h][k]
    <2> SUFFICES ASSUME NEW h \in Segments
                 PROVE  /\ Len(bytes'[h]) >= Len(bytes[h])
                        /\ \A k \in 1..Len(bytes[h]) : bytes'[h][k] = bytes[h][k]
      BY DEF TableOffset
    <2>1. Len(bytes[h]) \in Nat
      BY <1>1 DEF TableOffset
    <2>2. CASE h = g
      BY <1>2, <1>4, <2>1, <2>2
    <2>3. CASE h # g
      BY <1>2, <2>1, <2>3
    <2> QED
      BY <2>2, <2>3
  <1> QED
    BY <1>2, <1>3, <1>5 DEF Grown, TableOffset

\* A step that adds nothing.
LEMMA StillGrown ==
  ASSUME BInv, UNCHANGED <<bytes, cuts>>, loads' \in {loads, loads + 1}
  PROVE  Grown
  <1>1. loads \in Nat /\ loads' \in Nat /\ loads <= loads'
    BY BoundsAssumption DEF BInv, Shape
  <1>2. Bytes(loads) \subseteq Bytes(loads')
    BY <1>1 DEF Bytes
  <1>3. \A h \in Segments : bytes[h] \in Seq(Bytes(loads)) /\ TableOffset(h) \in Nat
    BY BaseFields
  <1>4. \A h \in Segments : bytes[h] \in Seq(Bytes(loads'))
    BY <1>2, <1>3
  <1> QED
    BY <1>3, <1>4 DEF Grown, TableOffset, BInv, Shape

\* Sections keep their place, lose it, or get one within the segment they are mapped to.
LEMMA RangesStay ==
  ASSUME BInv, Grown, shdr' \in [1..Len(Sections) -> Header],
         \A i \in 1..Len(Sections) :
           \/ shdr'[i] = shdr[i]
           \/ shdr'[i] = Unmapped
           \/ /\ shdr'[i].support = Mapping(i) /\ Mapping(i) \in Segments
              /\ shdr'[i].base <= shdr'[i].last
              /\ shdr'[i].last <= Len(bytes'[Mapping(i)])
  PROVE  Ranges'
  <1>1. \A g \in Segments : /\ TableOffset(g) \in Nat /\ Len(bytes'[g]) \in Nat
                            /\ Len(bytes'[g]) >= TableOffset(g)
    BY BaseFields DEF Grown, TableOffset
  <1>2. \A i \in 1..Len(Sections) :
          /\ shdr'[i].base <= shdr'[i].last
          /\ Supported(i)' => /\ shdr'[i].support = Mapping(i)
                              /\ shdr'[i].last <= Len(bytes'[Mapping(i)])
    <2> SUFFICES ASSUME NEW i \in 1..Len(Sections)
                 PROVE  /\ shdr'[i].base <= shdr'[i].last
                        /\ Supported(i)' => /\ shdr'[i].support = Mapping(i)
                                            /\ shdr'[i].last <= Len(bytes'[Mapping(i)])
      OBVIOUS
    <2>1. CASE shdr'[i] = shdr[i]
      <3>1. /\ shdr[i].base <= shdr[i].last
            /\ Supported(i) => /\ shdr[i].support = Mapping(i)
                               /\ shdr[i].last <= TableOffset(Mapping(i))
        BY DEF BInv, Ranges
      <3>2. Supported(i)' => Supported(i) /\ Mapping(i) \in Segments
        BY <2>1, <3>1, Mapped DEF Supported
      <3>3. shdr[i].last \in Nat
        BY BaseFields
      <3> QED
        BY <1>1, <2>1, <3>1, <3>2, <3>3
    <2>2. CASE shdr'[i] = Unmapped
      BY <2>2, Mapped DEF Supported, Unmapped
    <2> QED
      BY <2>1, <2>2
  <1>3. \A g \in Segments : \A c \in cuts'[g] : c <= Len(bytes'[g])
    <2> SUFFICES ASSUME NEW g \in Segments, NEW c \in cuts'[g]
                 PROVE  c <= Len(bytes'[g])
      OBVIOUS
    <2>1. c \in cuts[g] \/ c = TableOffset(g)
      BY DEF Grown
    <2>2. c \in Nat /\ (c \in cuts[g] => c <= TableOffset(g))
      BY DEF Grown, BInv, Ranges
    <2> QED
      BY <1>1, <2>1, <2>2
  <1> QED
    BY <1>2, <1>3 DEF Ranges, TableOffset

\* What prefetch() reserves.
LEMMA WholeTyped ==
  ASSUME BInv, NEW i \in 1..Len(Sections)
  PROVE  /\ Whole(i) \in Seq(Bytes(loads)) /\ Len(Whole(i)) = Sections[i].size
         /\ \A k \in 1..Sections[i].size : Whole(i)[k] = <<loads, i, k - 1>>
  <1>1. loads \in 0..loads /\ i \in 0..Len(Sections) /\ Sections[i].size \in Nat
    BY SectionFields, BoundsAssumption DEF BInv, Shape
  <1>2. \A k \in 1..Sections[i].size : <<loads, i, k - 1>> \in Bytes(loads)
    BY <1>1 DEF Bytes
  <1> HIDE DEF Bytes
  <1> QED
    BY <1>1, <1>2 DEF Whole, SectionByte

\* What is reserved for a symbol.
LEMMA ChunkTyped ==
  ASSUME BInv, NEW b \in Bodies, After(b) > Last(b)
  PROVE  LET n == After(b) - Last(b) IN
         /\ n \in Nat \ {0}
         /\ Chunk(b) \in Seq(Bytes(loads)) /\ Len(Chunk(b)) = n
         /\ \A k \in 1..n : Chunk(b)[k] = <<loads, b.sec, Last(b) - shdr[b.sec].base + k - 1>>
  <1> DEFINE n == After(b) - Last(b)
             from == Last(b) - shdr[b.sec].base
  <1>1. /\ b.sec \in 1..Len(Sections) /\ Hi(b) \in Nat
        /\ shdr[b.sec].base \in Nat /\ shdr[b.sec].last \in Nat
        /\ shdr[b.sec].base <= shdr[b.sec].last
    BY BodyFields, BaseFields DEF BInv, Ranges
  <1>2. loads \in 0..loads /\ b.sec \in 0..Len(Sections)
    BY <1>1, SectionFields, BoundsAssumption DEF BInv, Shape
  <1>3. n \in Nat \ {0} /\ from \in Nat
    BY <1>1 DEF After, Last
  <1>4. Chunk(b) = [k \in 1..n |-> <<loads, b.sec, from + k - 1>>]
    BY DEF Chunk, SectionByte
  <1> HIDE DEF n, from
  <1>5. \A k \in 1..n : <<loads, b.sec, from + k - 1>> \in Bytes(loads)
    BY <1>2, <1>3 DEF Bytes
  <1>6. /\ Chunk(b) \in Seq(Bytes(loads)) /\ Len(Chunk(b)) = n
        /\ \A k \in 1..n : Chunk(b)[k] = <<loads, b.sec, from + k - 1>>
    <2> DEFINE byte(k) == <<loads, b.sec, from + k - 1>>
    <2>1. Chunk(b) = [k \in 1..n |-> byte(k)] /\ \A k \in 1..n : byte(k) \in Bytes(loads)
      BY <1>4, <1>5
    <2> HIDE DEF byte
    <2>2. /\ Chunk(b) \in Seq(Bytes(loads)) /\ Len(Chunk(b)) = n
          /\ \A k \in 1..n : Chunk(b)[k] = byte(k)
      BY <1>3, <2>1
    <2> QED
      BY <2>2 DEF byte
  <1> QED
    BY <1>3, <1>6 DEF n, from

\* What is left of a read that failed.
LEMMA PadsTyped ==
  ASSUME BInv, NEW n \in Nat
  PROVE  LET pads == [k \in 1..n |-> Pad] IN
         /\ pads \in Seq(Bytes(loads)) /\ Len(pads) = n
         /\ \A k \in 1..n : pads[k] = Pad
  <1>1. Pad \in Bytes(loads)
    BY BaseFields
  <1> QED
    BY <1>1

\* A step that changes neither segments nor sections keeps the invariant.
LEMMA QuietBase ==
  ASSUME BInv, UNCHANGED <<bytes, cuts, shdr, loads>>, placed' \subseteq Spots(loads),
         phase' \in {"idle", phase} \/ (phase # "idle" /\ phase' = "import"),
         scan' \in 1..(Len(Sections) + 1)
  PROVE  BInv' /\ Grown
  <1>1. Grown
    BY StillGrown
  <1>2. shdr' \in [1..Len(Sections) -> Header]
    BY DEF BInv, Shape
  <1>3. Ranges'
    BY <1>1, <1>2, RangesStay
  <1>4. Shape'
    BY DEF BInv, Shape
  <1> QED
    BY <1>1, <1>3, <1>4 DEF BInv

\* A section that gets a place within its segment, as long as the segment is then.
LEMMA PlacedBase ==
  ASSUME BInv, Grown, NEW i \in 1..Len(Sections), NEW base, NEW last,
         shdr' = [shdr EXCEPT ![i] = At(Mapping(i), base, last)], Mapping(i) \in Segments,
         base \in Nat, last \in Nat, base <= last, last <= Len(bytes'[Mapping(i)]),
         UNCHANGED loads, placed' \subseteq Spots(loads),
         phase' \in {"idle", phase}, scan' \in 1..(Len(Sections) + 1)
  PROVE  BInv'
  <1> DEFINE new == At(Mapping(i), base, last)
  <1>1. /\ new \in Header /\ new.base = base /\ new.last = last
        /\ new.support = Mapping(i)
    BY DEF At, Header
  <1>2. shdr \in [1..Len(Sections) -> Header]
    BY DEF BInv, Shape
  <1> HIDE DEF new
  <1>3. shdr' = [shdr EXCEPT ![i] = new]
    BY DEF new
  <1>4. shdr' \in [1..Len(Sections) -> Header]
    BY <1>1, <1>2, <1>3
  <1>5. \A j \in 1..Len(Sections) : j # i => shdr'[j] = shdr[j]
    BY <1>2, <1>3
  <1>6. shdr'[i] = new
    BY <1>2, <1>3
  <1>7. Ranges'
    BY <1>1, <1>4, <1>5, <1>6, RangesStay
  <1>8. Shape'
    BY <1>4 DEF BInv, Shape, Grown
  <1> QED
    BY <1>7, <1>8 DEF BInv

\* The first state.
LEMMA InitBase == Init => BInv
  <1> SUFFICES ASSUME Init PROVE BInv
    OBVIOUS
  <1>1. Len(Sections) \in Nat /\ GotSize \in Nat /\ MaxLoads \in Nat
    BY SectionFields, BoundsAssumption
  <1>2. loads = 0 /\ Pad \in Bytes(loads)
    BY <1>1 DEF Init, Bytes, Pad
  <1>3. [k \in 1..GotSize |-> Pad] \in Seq(Bytes(loads)) /\ <<>> \in Seq(Bytes(loads))
    BY <1>1, <1>2
  <1>4. bytes \in [Segments -> Seq(Bytes(loads))]
    <2> DEFINE got == [k \in 1..GotSize |-> Pad]
    <2>1. bytes = [g \in Segments |-> IF g = "rodata" THEN got ELSE <<>>]
      BY DEF Init
    <2>2. got \in Seq(Bytes(loads)) /\ <<>> \in Seq(Bytes(loads))
      BY <1>3
    <2> HIDE DEF got
    <2> QED
      BY <2>1, <2>2
  <1>5. cuts \in [Segments -> SUBSET Nat] /\ \A g \in Segments : cuts[g] = {}
    BY DEF Init
  <1>6. shdr \in [1..Len(Sections) -> Header] /\ \A i \in 1..Len(Sections) : shdr[i] = Unmapped
    BY Mapped DEF Init
  <1>7. Shape
    BY <1>1, <1>2, <1>4, <1>5, <1>6 DEF Shape, Init
  <1>8. Ranges
    BY <1>5, <1>6, Mapped DEF Ranges, Supported, Unmapped
  <1> QED
    BY <1>7, <1>8 DEF BInv

\* A load begins.
LEMMA BeginBase == ASSUME BInv, Begin PROVE BInv' /\ Grown
  <1>1. loads \in Nat /\ MaxLoads \in Nat /\ Len(Sections) \in Nat
    BY SectionFields, BoundsAssumption DEF BInv, Shape
  <1>2. Grown
    BY StillGrown DEF Begin
  <1>3. /\ shdr' \in [1..Len(Sections) -> Header]
        /\ \A i \in 1..Len(Sections) : shdr'[i] = Unmapped
    BY Mapped DEF Begin
  <1>4. Ranges'
    BY <1>2, <1>3, RangesStay
  <1>5. placed' \subseteq Spots(loads')
    <2>1. Spots(loads) \subseteq Spots(loads')
      BY <1>1 DEF Spots, Begin
    <2> QED
      BY <2>1 DEF Begin, BInv, Shape
  <1>6. Shape'
    BY <1>1, <1>2, <1>3, <1>5 DEF Begin, Shape, BInv, Grown
  <1> QED
    BY <1>2, <1>4, <1>6 DEF BInv

\* A step of the scan.
LEMMA ScanBase == ASSUME BInv, Defer \/ PassOver \/ LoadData \/ Prefetched PROVE BInv' /\ Grown
  <1>1. /\ loads \in Nat /\ scan \in Nat /\ Len(Sections) \in Nat
        /\ placed \subseteq Spots(loads) /\ scan \in 1..(Len(Sections) + 1)
    BY SectionFields, BoundsAssumption DEF BInv, Shape
  <1>2. CASE Defer
    <2>1. scan \in 1..Len(Sections) /\ Mapping(scan) \in Segments
      BY <1>1, <1>2, Mapped DEF Defer
    <2>2. Grown
      BY <1>2, StillGrown DEF Defer
    <2> DEFINE end == TableOffset(Mapping(scan))
    <2>3. end \in Nat /\ end <= end /\ end <= Len(bytes'[Mapping(scan)])
      BY <1>2, <2>1, BaseFields DEF Defer, TableOffset
    <2>4. shdr' = [shdr EXCEPT ![scan] = At(Mapping(scan), end, end)]
      BY <1>2 DEF Defer, Here
    <2>5. UNCHANGED <<loads, placed, phase>> /\ scan' \in 1..(Len(Sections) + 1)
      BY <1>1, <1>2 DEF Defer
    <2> HIDE DEF end
    <2> QED
      BY <1>1, <2>1, <2>2, <2>3, <2>4, <2>5, PlacedBase
  <1>3. CASE PassOver
    BY <1>1, <1>3, QuietBase DEF PassOver
  <1>4. CASE LoadData
    <2>1. scan \in 1..Len(Sections) /\ Mapping(scan) \in Segments
      BY <1>1, <1>4, Mapped DEF LoadData
    <2> DEFINE g == Mapping(scan)
    <2>2. UNCHANGED <<loads, placed>>
      BY <1>4 DEF LoadData, End
    <2>3. TableOffset(g) \in Nat /\ Sections[scan].size \in Nat
      BY <2>1, BaseFields, SectionFields
    <2>4. CASE /\ Reserve(g, Whole(scan)) /\ shdr' = [shdr EXCEPT ![scan] = Loaded(g)]
               /\ scan' = scan + 1 /\ UNCHANGED phase
      <3>1. Grown /\ Len(bytes'[g]) = TableOffset(g) + RoundUp(Sections[scan].size)
        BY <2>1, <2>2, <2>4, ReservedGrown, WholeTyped
      <3>2. RoundUp(Sections[scan].size) \in Nat
        BY <2>3, RoundUpCovers
      <3> DEFINE base == TableOffset(g)
                 last == Len(bytes'[g])
      <3>3. shdr' = [shdr EXCEPT ![scan] = At(Mapping(scan), base, last)]
        BY <2>4 DEF Loaded, TableOffset
      <3>4. base \in Nat /\ last \in Nat /\ base <= last /\ last <= Len(bytes'[Mapping(scan)])
        BY <2>3, <3>1, <3>2
      <3> HIDE DEF base, last
      <3>5. scan' \in 1..(Len(Sections) + 1)
        BY <2>1, <2>4
      <3> QED
        BY <1>1, <2>1, <2>2, <2>4, <3>1, <3>3, <3>4, <3>5, PlacedBase
    <2>5. CASE Reserve(g, [k \in 1..Sections[scan].size |-> Pad]) /\ End
      <3>1. Grown
        BY <2>1, <2>2, <2>3, <2>5, ReservedGrown, PadsTyped
      <3>2. shdr' \in [1..Len(Sections) -> Header] /\ UNCHANGED <<shdr, scan>> /\ phase' = "idle"
        BY <2>5 DEF BInv, Shape, End
      <3>3. Ranges'
        BY <3>1, <3>2, RangesStay
      <3>4. Shape'
        BY <2>2, <3>1, <3>2 DEF BInv, Shape, Grown
      <3> QED
        BY <3>1, <3>3, <3>4 DEF BInv
    <2> QED
      BY <1>4, <2>4, <2>5 DEF LoadData
  <1>5. CASE Prefetched
    BY <1>1, <1>5, QuietBase DEF Prefetched
  <1> QED
    BY <1>2, <1>3, <1>4, <1>5

(***************************************************************************)
(* Placing a symbol.                                                       *)
(***************************************************************************)

\* The record of a symbol that is placed.
LEMMA SymbolTyped ==
  ASSUME BInv, phase = "import", NEW b \in Bodies, Fresh(b)
  PROVE  /\ b.sec \in 1..Len(Sections) /\ Lo(b) \in Nat /\ Hi(b) \in Nat /\ Lo(b) <= Hi(b)
         /\ Supported(b.sec) /\ Segment(b) = Mapping(b.sec) /\ Mapping(b.sec) \in Segments
         /\ First(b) \in Nat /\ After(b) \in Nat /\ Last(b) \in Nat
         /\ Symbol(b) \in Spots(loads)
  <1>1. /\ b.sec \in 1..Len(Sections) /\ Start(b) \in Nat
        /\ Lo(b) \in Nat /\ Hi(b) \in Nat /\ Lo(b) <= Hi(b)
    BY BodyFields
  <1>2. /\ Supported(b.sec) /\ Segment(b) = Mapping(b.sec)
        /\ shdr[b.sec].base \in Nat /\ shdr[b.sec].last \in Nat
    BY <1>1, BaseFields DEF Fresh, Supported, Segment, BInv, Ranges
  <1>3. Mapping(b.sec) \in Segments
    BY <1>1, <1>2, Mapped DEF Supported, Segment
  <1>4. First(b) \in Nat /\ After(b) \in Nat /\ Last(b) \in Nat
    BY <1>1, <1>2 DEF First, After, Last
  <1>5. loads \in 1..loads
    BY BoundsAssumption DEF BInv, Shape
  <1>6. Symbol(b) \in Spots(loads)
    BY <1>1, <1>2, <1>3, <1>4, <1>5 DEF Symbol, Spots
  <1> QED
    BY <1>1, <1>2, <1>3, <1>4, <1>6

\* A symbol is placed below the end of the segment, or the load is over.
LEMMA Located ==
  ASSUME BInv, phase = "import", NEW b \in Bodies, Fresh(b), NEW n \in Nat, Locate(b, n)
  PROVE  /\ placed' \subseteq Spots(loads) /\ phase' \in {"idle", phase}
         /\ \A p \in placed' : p \in placed \/ (p = Symbol(b) /\ First(b) < n)
  <1>1. Symbol(b) \in Spots(loads) /\ First(b) \in Nat
    BY SymbolTyped
  <1>2. placed \subseteq Spots(loads)
    BY DEF BInv, Shape
  <1>3. CASE First(b) < n /\ placed' = placed \union {Symbol(b)} /\ UNCHANGED phase
    BY <1>1, <1>2, <1>3
  <1>4. CASE phase' = "idle" /\ UNCHANGED placed
    BY <1>2, <1>4
  <1> QED
    BY <1>3, <1>4 DEF Locate

\* An import step.
LEMMA PlaceBase == ASSUME BInv, Place \/ Imported PROVE BInv' /\ Grown
  <1>1. /\ loads \in Nat /\ scan \in Nat /\ Len(Sections) \in Nat
        /\ placed \subseteq Spots(loads) /\ scan \in 1..(Len(Sections) + 1)
    BY SectionFields, BoundsAssumption DEF BInv, Shape
  <1>2. ASSUME End, UNCHANGED <<bytes, cuts, placed>>
        PROVE  BInv' /\ Grown
    BY <1>1, <1>2, QuietBase DEF End
  <1>3. ASSUME NEW b \in Bodies, PlaceHeld(b)
        PROVE  BInv' /\ Grown
    <2>1. phase = "import" /\ Fresh(b) /\ Locate(b, TableOffset(Segment(b)))
      BY <1>3 DEF PlaceHeld
    <2>2. TableOffset(Segment(b)) \in Nat
      BY <2>1, SymbolTyped, BaseFields
    <2>3. placed' \subseteq Spots(loads) /\ phase' \in {"idle", phase}
      BY <2>1, <2>2, Located
    <2>4. UNCHANGED <<bytes, cuts, scan, shdr, loads>>
      BY <1>3 DEF PlaceHeld
    <2> QED
      BY <1>1, <2>3, <2>4, QuietBase
  <1>4. ASSUME NEW b \in Bodies, PlaceAppended(b)
        PROVE  BInv' /\ Grown
    <2>1. /\ phase = "import" /\ Fresh(b) /\ After(b) > Last(b)
          /\ Reserve(Segment(b), Chunk(b)) /\ UNCHANGED <<scan, loads>>
          /\ shdr' = [shdr EXCEPT ![b.sec].last = Len(bytes'[Segment(b)])]
          /\ Locate(b, Len(bytes'[Segment(b)]))
      BY <1>4 DEF PlaceAppended, Appends
    <2>2. /\ b.sec \in 1..Len(Sections) /\ Supported(b.sec)
          /\ Segment(b) = Mapping(b.sec) /\ Mapping(b.sec) \in Segments
      BY <2>1, SymbolTyped
    <2>3. Grown
      BY <2>1, <2>2, ChunkTyped, ReservedGrown
    <2> DEFINE base == shdr[b.sec].base
               last == Len(bytes'[Mapping(b.sec)])
    <2>4. base \in Nat /\ last \in Nat /\ base <= last /\ last <= Len(bytes'[Mapping(b.sec)])
      <3>1. /\ shdr[b.sec].base <= shdr[b.sec].last
            /\ shdr[b.sec].last <= TableOffset(Mapping(b.sec))
        BY <2>2 DEF BInv, Ranges
      <3>2. last >= TableOffset(Mapping(b.sec)) /\ last \in Nat
        BY <2>2, <2>3 DEF Grown
      <3>3. base \in Nat /\ shdr[b.sec].last \in Nat /\ TableOffset(Mapping(b.sec)) \in Nat
        BY <2>2, BaseFields
      <3> QED
        BY <3>1, <3>2, <3>3
    <2>5. shdr' = [shdr EXCEPT ![b.sec] = At(Mapping(b.sec), base, last)]
      <3>1. shdr[b.sec] \in Header /\ shdr[b.sec].support = Mapping(b.sec)
        BY <2>2 DEF BInv, Shape, Ranges
      <3>2. [shdr[b.sec] EXCEPT !.last = last] = At(Mapping(b.sec), base, last)
        BY <3>1 DEF At, Header
      <3> QED
        BY <2>1, <2>2, <3>2
    <2>6. placed' \subseteq Spots(loads) /\ phase' \in {"idle", phase}
      BY <2>1, <2>2, <2>4, Located
    <2>7. scan' \in 1..(Len(Sections) + 1)
      BY <1>1, <2>1
    <2> HIDE DEF base, last
    <2> QED
      BY <2>1, <2>2, <2>3, <2>4, <2>5, <2>6, <2>7, PlacedBase
  <1>5. ASSUME NEW b \in Bodies, AppendUnread(b)
        PROVE  BInv' /\ Grown
    <2>1. /\ phase = "import" /\ Fresh(b) /\ After(b) > Last(b)
          /\ Reserve(Segment(b), [k \in 1..(After(b) - Last(b)) |-> Pad])
          /\ End /\ UNCHANGED placed
      BY <1>5 DEF AppendUnread, Appends
    <2>2. Segment(b) \in Segments /\ After(b) - Last(b) \in Nat
      BY <2>1, SymbolTyped
    <2>3. Grown
      BY <2>1, <2>2, PadsTyped, ReservedGrown DEF End
    <2>4. UNCHANGED <<scan, shdr, loads>> /\ phase' = "idle"
      BY <2>1 DEF End
    <2>5. shdr' \in [1..Len(Sections) -> Header]
      BY <2>4 DEF BInv, Shape
    <2>6. Ranges'
      BY <2>3, <2>4, <2>5, RangesStay
    <2>7. Shape'
      BY <2>1, <2>3, <2>4 DEF BInv, Shape, Grown
    <2> QED
      BY <2>3, <2>6, <2>7 DEF BInv
  <1> QED
    BY <1>2, <1>3, <1>4, <1>5 DEF Place, RefuseUnsupported, RefuseOverlap, Imported

\* Every step keeps the invariant, and only adds to the segments.
LEMMA BaseStep == ASSUME BInv, [Next]_vars PROVE BInv' /\ Grown
  <1>1. CASE UNCHANGED vars
    <2>1. placed' \subseteq Spots(loads) /\ scan' \in 1..(Len(Sections) + 1)
      BY <1>1 DEF vars, BInv, Shape
    <2> QED
      BY <1>1, <2>1, QuietBase DEF vars
  <1> QED
    BY <1>1, BeginBase, ScanBase, PlaceBase DEF Next

\* The invariant of types and places holds in every state.
THEOREM Invariance == Spec => []BInv
  <1>1. BInv /\ [Next]_vars => BInv'
    BY BaseStep
  <1> QED
    BY InitBase, <1>1, PTL DEF Spec

\* The variables always have their types.
THEOREM TypeCorrect == Spec => []TypeOK
  BY Invariance, BaseTypes, PTL

-----------------------------------------------------------------------------
(***************************************************************************)
(* Sections that prefetch() loads are in one piece.                        *)
(***************************************************************************)

\* Symbols lie within their sections.
BodiesWithin == \A b \in Bodies : Hi(b) <= Sections[b.sec].size

Extent(i) == shdr[i].last - shdr[i].base
Piece(i) == /\ Extent(i) = RoundUp(Sections[i].size)
            /\ \A c \in cuts[Mapping(i)] : ~(shdr[i].base < c /\ c < shdr[i].last)
DataPieces == \A i \in 1..Len(Sections) : Supported(i) /\ IsData(i) => Piece(i)
DInv == BInv /\ DataPieces

\* No page begins within what is there already.
LEMMA PieceStays ==
  ASSUME DInv, Grown, NEW i \in 1..Len(Sections), Supported(i), IsData(i), shdr'[i] = shdr[i]
  PROVE  Piece(i)'
  <1>1. /\ Mapping(i) \in Segments /\ shdr[i].last <= TableOffset(Mapping(i))
        /\ shdr[i].base \in Nat /\ shdr[i].last \in Nat /\ TableOffset(Mapping(i)) \in Nat
    BY Mapped, BaseFields DEF DInv, BInv, Ranges
  <1>2. Piece(i)
    BY DEF DInv, DataPieces
  <1>3. \A c \in cuts'[Mapping(i)] : ~(shdr[i].base < c /\ c < shdr[i].last)
    <2> SUFFICES ASSUME NEW c \in cuts'[Mapping(i)]
                 PROVE  ~(shdr[i].base < c /\ c < shdr[i].last)
      OBVIOUS
    <2>1. c \in cuts[Mapping(i)] \/ c = TableOffset(Mapping(i))
      BY <1>1 DEF Grown
    <2> QED
      BY <1>1, <1>2, <2>1 DEF Piece
  <1> QED
    BY <1>2, <1>3 DEF Piece, Extent

\* What is appended for a symbol never belongs to a section that was loaded whole.
LEMMA AppendedPieced ==
  ASSUME BodiesWithin, DInv, phase = "import", NEW b \in Bodies, Fresh(b), After(b) > Last(b)
  PROVE  ~IsData(b.sec)
  <1> SUFFICES ASSUME IsData(b.sec) PROVE FALSE
    OBVIOUS
  <1>1. /\ b.sec \in 1..Len(Sections) /\ Hi(b) \in Nat /\ Supported(b.sec)
        /\ shdr[b.sec].base \in Nat /\ shdr[b.sec].last \in Nat /\ Sections[b.sec].size \in Nat
    BY SymbolTyped, BaseFields, SectionFields DEF DInv
  <1>2. Extent(b.sec) = RoundUp(Sections[b.sec].size)
    BY <1>1 DEF DInv, DataPieces, Piece
  <1>3. RoundUp(Sections[b.sec].size) \in Nat /\ RoundUp(Sections[b.sec].size) >= Hi(b)
    <2>1. Hi(b) <= Sections[b.sec].size
      BY DEF BodiesWithin
    <2>2. RoundUp(Sections[b.sec].size) \in Nat /\ RoundUp(Sections[b.sec].size) >= Sections[b.sec].size
      BY <1>1, RoundUpCovers
    <2> QED
      BY <1>1, <2>1, <2>2
  <1> QED
    BY <1>1, <1>2, <1>3 DEF Extent, After, Last

\* A section loaded whole begins where its segment ended: on no page's end but its own.
LEMMA LoadedPiece ==
  ASSUME DInv, Grown, NEW i \in 1..Len(Sections), IsData(i),
         shdr'[i] = At(Mapping(i), TableOffset(Mapping(i)), Len(bytes'[Mapping(i)])),
         Len(bytes'[Mapping(i)]) = TableOffset(Mapping(i)) + RoundUp(Sections[i].size)
  PROVE  Piece(i)'
  <1> DEFINE end == TableOffset(Mapping(i))
  <1>1. /\ shdr'[i].base = end /\ shdr'[i].last = end + RoundUp(Sections[i].size)
    BY DEF At
  <1>2. Mapping(i) \in Segments /\ end \in Nat
    BY Mapped, BaseFields DEF DInv
  <1>3. Sections[i].size \in Nat /\ RoundUp(Sections[i].size) \in Nat
    BY SectionFields, RoundUpCovers
  <1>4. \A c \in cuts'[Mapping(i)] : c <= end
    BY <1>2 DEF Grown, DInv, BInv, Ranges
  <1>5. \A c \in cuts'[Mapping(i)] : c \in Nat
    BY <1>2 DEF Grown
  <1> HIDE DEF end
  <1>6. Extent(i)' = RoundUp(Sections[i].size)
    BY <1>1, <1>2, <1>3 DEF Extent
  <1> QED
    BY <1>1, <1>2, <1>4, <1>5, <1>6 DEF Piece

\* Every step leaves the sections that are loaded whole in one piece.
LEMMA PiecesStep == ASSUME BodiesWithin, DInv, [Next]_vars PROVE DInv'
  <1>1. BInv' /\ Grown
    BY BaseStep DEF DInv
  <1> SUFFICES ASSUME NEW i \in 1..Len(Sections), Supported(i)', IsData(i)
               PROVE  Piece(i)'
    BY <1>1 DEF DInv, DataPieces, IsData, Mapping
  <1>2. CASE shdr'[i] = shdr[i]
    BY <1>1, <1>2, PieceStays DEF Supported
  <1>3. CASE Begin
    <2>1. shdr'[i] = Unmapped
      BY <1>3 DEF Begin
    <2> QED
      BY <2>1, Mapped DEF Supported
  <1>4. CASE Defer
    BY <1>2, <1>4 DEF Defer, DInv, BInv, Shape
  <1>5. CASE LoadData
    <2>1. CASE End
      BY <1>2, <2>1 DEF End
    <2>2. CASE Reserve(Mapping(scan), Whole(scan)) /\ shdr' = [shdr EXCEPT ![scan] = Loaded(Mapping(scan))]
      <3>1. scan \in 1..Len(Sections) /\ Mapping(scan) \in Segments /\ IsData(scan)
        BY <1>5, Mapped DEF LoadData, DInv, BInv, Shape
      <3>2. CASE i = scan
        <4>1. shdr'[i] = At(Mapping(i), TableOffset(Mapping(i)), Len(bytes'[Mapping(i)]))
          BY <2>2, <3>1, <3>2 DEF Loaded, DInv, BInv, Shape
        <4>2. Len(bytes'[Mapping(i)]) = TableOffset(Mapping(i)) + RoundUp(Sections[i].size)
          <5>1. Reserve(Mapping(i), Whole(i)) /\ UNCHANGED loads
            BY <1>5, <2>2, <3>2 DEF LoadData, End
          <5> QED
            BY <3>1, <3>2, <5>1, ReservedGrown, WholeTyped DEF DInv
        <4> QED
          BY <1>1, <4>1, <4>2, LoadedPiece
      <3>3. CASE i # scan
        BY <1>2, <2>2, <3>1, <3>3 DEF DInv, BInv, Shape
      <3> QED
        BY <3>2, <3>3
    <2> QED
      BY <1>5, <2>1, <2>2 DEF LoadData
  <1>6. ASSUME NEW b \in Bodies, PlaceAppended(b) PROVE Piece(i)'
    <2>1. /\ phase = "import" /\ Fresh(b) /\ After(b) > Last(b)
          /\ shdr' = [shdr EXCEPT ![b.sec].last = Len(bytes'[Segment(b)])]
      BY <1>6 DEF PlaceAppended, Appends
    <2>2. ~IsData(b.sec) /\ b.sec \in 1..Len(Sections)
      BY <2>1, AppendedPieced, BodyFields
    <2>3. shdr'[i] = shdr[i]
      BY <2>1, <2>2 DEF DInv, BInv, Shape
    <2> QED
      BY <1>2, <2>3
  <1>7. CASE UNCHANGED shdr
    BY <1>2, <1>7
  <1>8. PassOver \/ Prefetched \/ Imported \/ UNCHANGED vars => UNCHANGED shdr
    BY DEF PassOver, Prefetched, Imported, End, vars
  <1>9. ASSUME NEW b \in Bodies,
               RefuseUnsupported(b) \/ PlaceHeld(b) \/ RefuseOverlap(b) \/ AppendUnread(b)
        PROVE  UNCHANGED shdr
    BY <1>9 DEF RefuseUnsupported, PlaceHeld, RefuseOverlap, AppendUnread, End
  <1> QED
    BY <1>3, <1>4, <1>5, <1>6, <1>7, <1>8, <1>9 DEF Next, Place

\* A section that prefetch() loads is in one piece, if symbols lie within sections.
THEOREM DataWhole == BodiesWithin => (Spec => []DataUncut)
  <1> SUFFICES ASSUME BodiesWithin PROVE Spec => []DataUncut
    OBVIOUS
  <1>1. Init => DInv
    <2>1. ASSUME Init, NEW i \in 1..Len(Sections) PROVE ~Supported(i)
      BY <2>1, Mapped DEF Init, Supported
    <2> QED
      BY <2>1, InitBase DEF DInv, DataPieces
  <1>2. DInv /\ [Next]_vars => DInv'
    BY PiecesStep
  <1>3. DInv => DataUncut
    BY DEF DInv, BInv, Ranges, DataPieces, Piece, DataUncut, Supported
  <1> QED
    BY <1>1, <1>2, <1>3, PTL DEF Spec

-----------------------------------------------------------------------------
(***************************************************************************)
(* What the segments hold, for objects with one section a segment of those *)
(* whose symbols are loaded one by one, and no symbol across the end of a  *)
(* reservation.                                                            *)
(***************************************************************************)

\* The segments that grow symbol by symbol.
Pieced == {"text", "bss"}

\* Of the sections in such a segment only one has contents.
OnePieced ==
  \A i, j \in 1..Len(Sections) :
    i # j /\ Mapping(i) = Mapping(j) /\ Mapping(i) \in Pieced =>
      Sections[i].size = 0 \/ Sections[j].size = 0

\* A symbol that begins before the boundary behind another's end, and ends behind that
\* end, ends behind whatever can have been loaded since: it is refused, rather than
\* answered with padding or with bytes on two pages.
Ends(b) == RoundUp(Hi(b))
NoStraddlers ==
  \A b, c, d \in Bodies :
    /\ b.sec = c.sec /\ c.sec = d.sec /\ ~IsData(c.sec)
    /\ Lo(c) < Hi(c) /\ Lo(c) < Ends(b) /\ Hi(b) < Hi(c)
    => Ends(b) < Hi(c) /\ (Ends(b) <= Lo(d) => Ends(d) < Hi(c))

WellLaid == BodiesWithin /\ OnePieced /\ NoStraddlers

ByteAt(g, n) == bytes[g][n + 1]

\* A reservation for a symbol of section i ended at r, and one for a symbol behind r
\* ended the last.
Reserved(i, r, extent) ==
  \E b \in Bodies : /\ b.sec = i /\ Ends(b) = r
                    /\ r = extent \/ \E d \in Bodies : d.sec = i /\ r <= Lo(d) /\ Ends(d) = extent

\* Offset k of section i is padding, behind the section or behind a symbol of it.
Padded(i, k, extent) ==
  IF IsData(i) THEN k >= Sections[i].size
  ELSE \E b \in Bodies : /\ b.sec = i /\ Hi(b) <= k /\ k < Ends(b)
                         /\ Reserved(i, Ends(b), extent)

\* What is loaded of a section is its bytes and padding.
Filled(i) ==
  \A k \in 0..(Extent(i) - 1) :
    \/ ByteAt(Mapping(i), shdr[i].base + k) = <<loads, i, k>>
    \/ ByteAt(Mapping(i), shdr[i].base + k) = Pad /\ Padded(i, k, Extent(i))

\* What is at offset n of a segment, if anything is, begins something or nothing.
Opens(byte) == byte = Pad \/ byte[3] = 0
Starts(g, n) == n < TableOffset(g) => Opens(ByteAt(g, n))

\* Pages begin within a section only where a reservation for it ended.
Joints(i) ==
  \A c \in cuts[Mapping(i)] :
    shdr[i].base < c /\ c < shdr[i].last => Reserved(i, c - shdr[i].base, Extent(i))

\* A section that is loaded symbol by symbol grows at the end of its segment.
Growing(i) ==
  /\ Extent(i) = 0 \/ Reserved(i, Extent(i), Extent(i))
  /\ Sections[i].size = 0 \/ phase = "prefetch" => Extent(i) = 0
  /\ Mapping(i) \in Pieced /\ (Sections[i].size > 0 \/ phase = "prefetch")
       => shdr[i].last = TableOffset(Mapping(i))
  /\ Joints(i)

Section(i) == Filled(i) /\ Starts(Mapping(i), shdr[i].last) /\ (~IsData(i) => Growing(i))

\* The sections of one such segment have the same base: where prefetch() found its end.
OneBase ==
  \A i, j \in 1..Len(Sections) :
    Supported(i) /\ Supported(j) /\ Mapping(i) = Mapping(j) /\ Mapping(i) \in Pieced
      => shdr[i].base = shdr[j].base

Laid == OneBase /\ \A i \in 1..Len(Sections) : Supported(i) => Section(i)

\* A symbol has its bytes, in one piece; one without bytes is at its place, in padding
\* or where something begins.
Kept(p) ==
  /\ p.lo <= p.hi /\ p.at < TableOffset(p.segment)
  /\ p.at + (p.hi - p.lo) <= TableOffset(p.segment)
  /\ \A k \in 0..(p.hi - p.lo - 1) : ByteAt(p.segment, p.at + k) = <<p.load, p.sec, p.lo + k>>
  /\ ByteAt(p.segment, p.at) = <<p.load, p.sec, p.lo>> \/ Opens(ByteAt(p.segment, p.at))
  /\ \A c \in cuts[p.segment] : ~(p.at < c /\ c < p.at + (p.hi - p.lo))

HInv == /\ DInv
        /\ phase # "idle" => Laid
        /\ \A p \in placed : Kept(p)

\* What a placed symbol's record has.
LEMMA SpotFields ==
  ASSUME BInv, NEW p \in placed
  PROVE  /\ p.load \in Nat \ {0} /\ p.sec \in Nat /\ p.lo \in Nat /\ p.hi \in Nat
         /\ p.segment \in Segments /\ p.at \in Nat /\ TableOffset(p.segment) \in Nat
  <1>1. p \in Spots(loads) /\ loads \in Nat /\ Len(Sections) \in Nat
    BY SectionFields, BoundsAssumption DEF BInv, Shape
  <1>2. /\ p.load \in 1..loads /\ p.sec \in 1..Len(Sections) /\ p.lo \in Nat /\ p.hi \in Nat
        /\ p.segment \in Segments /\ p.at \in Nat
    BY <1>1 DEF Spots
  <1> QED
    BY <1>1, <1>2, BaseFields

\* Whatever is added to the segments, the symbols keep what they have.
LEMMA KeptStays ==
  ASSUME BInv, Grown, NEW p \in placed, Kept(p)
  PROVE  Kept(p)'
  <1>1. /\ p.lo \in Nat /\ p.hi \in Nat /\ p.segment \in Segments /\ p.at \in Nat
        /\ TableOffset(p.segment) \in Nat
    BY SpotFields
  <1> DEFINE g == p.segment
             old == TableOffset(g)
             new == Len(bytes'[g])
  <1>2. /\ new \in Nat /\ new >= old
        /\ \A k \in 1..old : bytes'[g][k] = bytes[g][k]
        /\ \A c \in cuts'[g] : c \in Nat /\ (c \in cuts[g] \/ c = old)
    BY <1>1 DEF Grown
  <1>3. p.lo <= p.hi /\ p.at < old /\ p.at + (p.hi - p.lo) <= old
    BY DEF Kept
  <1> HIDE DEF g, old, new
  <1>4. p.at < new /\ p.at + (p.hi - p.lo) <= new
    BY <1>1, <1>2, <1>3 DEF old, g
  <1>5. \A n \in 0..(old - 1) : bytes'[g][n + 1] = bytes[g][n + 1]
    BY <1>1, <1>2 DEF old, g
  <1>6. p.at \in 0..(old - 1)
    BY <1>1, <1>3 DEF old, g
  <1>7. \A k \in 0..(p.hi - p.lo - 1) : p.at + k \in 0..(old - 1)
    BY <1>1, <1>3 DEF old, g
  <1>8. \A k \in 0..(p.hi - p.lo - 1) : bytes'[g][(p.at + k) + 1] = <<p.load, p.sec, p.lo + k>>
    BY <1>5, <1>7 DEF Kept, ByteAt, g
  <1>9. /\ bytes'[g][p.at + 1] = bytes[g][p.at + 1]
    BY <1>5, <1>6
  <1>10. \A c \in cuts'[g] : ~(p.at < c /\ c < p.at + (p.hi - p.lo))
    <2> SUFFICES ASSUME NEW c \in cuts'[g] PROVE ~(p.at < c /\ c < p.at + (p.hi - p.lo))
      OBVIOUS
    <2>1. CASE c \in cuts[g]
      BY <2>1 DEF Kept, g
    <2>2. CASE c = old
      BY <1>1, <1>3, <2>2 DEF old, g
    <2> QED
      BY <1>2, <2>1, <2>2
  <1> QED
    BY <1>3, <1>4, <1>8, <1>9, <1>10 DEF Kept, ByteAt, Opens, TableOffset, g, new

\* A section's place, in the segment it is mapped to.
LEMMA PlaceFields ==
  ASSUME BInv, NEW i \in 1..Len(Sections), Supported(i)
  PROVE  /\ Mapping(i) \in Segments /\ TableOffset(Mapping(i)) \in Nat
         /\ shdr[i].base \in Nat /\ shdr[i].last \in Nat /\ Extent(i) \in Nat
         /\ shdr[i].last = shdr[i].base + Extent(i)
         /\ shdr[i].last <= TableOffset(Mapping(i))
         /\ Sections[i].size \in Nat
  <1>1. /\ shdr[i].base \in Nat /\ shdr[i].last \in Nat /\ shdr[i].base <= shdr[i].last
        /\ shdr[i].support = Mapping(i) /\ shdr[i].last <= TableOffset(Mapping(i))
    BY BaseFields DEF BInv, Ranges
  <1>2. Mapping(i) \in Segments
    BY <1>1, Mapped DEF Supported
  <1> QED
    BY <1>1, <1>2, BaseFields, SectionFields DEF Extent

\* A section that keeps its place keeps what it holds.
LEMMA FilledStays ==
  ASSUME BInv, Grown, UNCHANGED loads, NEW i \in 1..Len(Sections), Supported(i),
         shdr'[i] = shdr[i], Filled(i)
  PROVE  Filled(i)'
  <1> DEFINE g == Mapping(i)
  <1>1. /\ g \in Segments /\ TableOffset(g) \in Nat /\ shdr[i].base \in Nat
        /\ Extent(i) \in Nat /\ shdr[i].base + Extent(i) <= TableOffset(g)
    BY PlaceFields
  <1>2. Extent(i)' = Extent(i)
    BY DEF Extent
  <1> HIDE DEF g
  <1>3. \A k \in 0..(Extent(i) - 1) :
          bytes'[g][(shdr[i].base + k) + 1] = bytes[g][(shdr[i].base + k) + 1]
    <2> SUFFICES ASSUME NEW k \in 0..(Extent(i) - 1)
                 PROVE  bytes'[g][(shdr[i].base + k) + 1] = bytes[g][(shdr[i].base + k) + 1]
      OBVIOUS
    <2>1. (shdr[i].base + k) + 1 \in 1..TableOffset(g)
      BY <1>1
    <2> QED
      BY <1>1, <2>1 DEF Grown
  <1> QED
    BY <1>2, <1>3 DEF Filled, ByteAt, g

\* What follows a section goes on beginning something, if what is added does.
LEMMA StartsStay ==
  ASSUME BInv, Grown, NEW g \in Segments, NEW n \in Nat, n <= TableOffset(g), Starts(g, n),
         n = TableOffset(g) /\ Len(bytes'[g]) > n => Opens(bytes'[g][TableOffset(g) + 1])
  PROVE  n < Len(bytes'[g]) => Opens(bytes'[g][n + 1])
  <1>1. TableOffset(g) \in Nat
    BY BaseFields
  <1>2. CASE n < TableOffset(g)
    <2>1. n + 1 \in 1..TableOffset(g)
      BY <1>1, <1>2
    <2>2. bytes'[g][n + 1] = bytes[g][n + 1]
      BY <2>1 DEF Grown
    <2> QED
      BY <1>2, <2>2 DEF Starts, ByteAt
  <1>3. CASE n = TableOffset(g)
    BY <1>3
  <1> QED
    BY <1>1, <1>2, <1>3

\* Pages that are added begin behind the sections that keep their place.
LEMMA JointsStay ==
  ASSUME BInv, Grown, NEW i \in 1..Len(Sections), Supported(i), shdr'[i] = shdr[i], Joints(i)
  PROVE  Joints(i)'
  <1>1. /\ Mapping(i) \in Segments /\ shdr[i].last <= TableOffset(Mapping(i))
        /\ shdr[i].last \in Nat /\ TableOffset(Mapping(i)) \in Nat
    BY PlaceFields
  <1>2. Extent(i)' = Extent(i)
    BY DEF Extent
  <1>3. \A c \in cuts'[Mapping(i)] : c < shdr[i].last => c \in cuts[Mapping(i)]
    BY <1>1 DEF Grown
  <1> QED
    BY <1>2, <1>3 DEF Joints

\* A section that keeps its place is as it was, if what is added to its segment begins
\* something, and does not go behind a section that may grow.
LEMMA SectionStays ==
  ASSUME BInv, Grown, UNCHANGED loads, NEW i \in 1..Len(Sections), Supported(i),
         shdr'[i] = shdr[i], Section(i), phase' = phase \/ phase' = "import",
         \/ bytes'[Mapping(i)] = bytes[Mapping(i)]
         \/ /\ Opens(bytes'[Mapping(i)][TableOffset(Mapping(i)) + 1])
               \/ shdr[i].last < TableOffset(Mapping(i))
            /\ Mapping(i) \notin Pieced \/ (Sections[i].size = 0 /\ phase = "import")
  PROVE  Section(i)'
  <1>1. /\ Mapping(i) \in Segments /\ shdr[i].last <= TableOffset(Mapping(i))
        /\ shdr[i].last \in Nat /\ TableOffset(Mapping(i)) \in Nat
    BY PlaceFields
  <1>2. Filled(i)'
    BY FilledStays DEF Section
  <1>3. Starts(Mapping(i), shdr[i].last)'
    <2>1. shdr[i].last < Len(bytes'[Mapping(i)]) =>
            Opens(bytes'[Mapping(i)][shdr[i].last + 1])
      <3>1. /\ shdr[i].last = TableOffset(Mapping(i)) /\ Len(bytes'[Mapping(i)]) > shdr[i].last
            => Opens(bytes'[Mapping(i)][TableOffset(Mapping(i)) + 1])
        BY <1>1 DEF TableOffset
      <3> QED
        BY <1>1, <3>1, StartsStay DEF Section
    <2> QED
      BY <2>1 DEF Starts, ByteAt, TableOffset, Opens
  <1>4. ASSUME ~IsData(i) PROVE Growing(i)'
    <2>1. Growing(i) /\ Extent(i)' = Extent(i)
      BY <1>4 DEF Section, Extent
    <2>2. Joints(i)'
      BY <2>1, JointsStay DEF Growing
    <2>3. Mapping(i) \in Pieced /\ (Sections[i].size > 0 \/ phase' = "prefetch")
            => shdr'[i].last = Len(bytes'[Mapping(i)])
      <3>1. Sections[i].size \in Nat
        BY SectionFields
      <3> QED
        BY <2>1, <3>1 DEF Growing, TableOffset
    <2>4. Sections[i].size = 0 \/ phase' = "prefetch" => Extent(i)' = 0
      BY <2>1 DEF Growing
    <2>5. Extent(i)' = 0 \/ Reserved(i, Extent(i), Extent(i))'
      BY <2>1 DEF Growing, Reserved
    <2> QED
      BY <2>2, <2>3, <2>4, <2>5 DEF Growing, TableOffset
  <1> QED
    BY <1>2, <1>3, <1>4 DEF Section, IsData, Mapping

\* Where nothing is added and no section moves, all is as it was.
LEMMA QuietLaid ==
  ASSUME HInv, phase # "idle", UNCHANGED <<bytes, cuts, shdr, loads>>,
         phase' = phase \/ phase' = "import"
  PROVE  Laid'
  <1>1. Grown
    BY StillGrown DEF HInv, DInv
  <1>2. OneBase'
    BY DEF HInv, Laid, OneBase, Supported, Mapping
  <1>3. \A i \in 1..Len(Sections) : Supported(i) => Section(i)'
    <2> SUFFICES ASSUME NEW i \in 1..Len(Sections), Supported(i) PROVE Section(i)'
      OBVIOUS
    <2>1. Section(i) /\ bytes'[Mapping(i)] = bytes[Mapping(i)] /\ shdr'[i] = shdr[i]
      BY DEF HInv, Laid
    <2> QED
      BY <1>1, <2>1, SectionStays DEF HInv, DInv
  <1>4. \A i \in 1..Len(Sections) : Supported(i)' => Supported(i)
    BY DEF Supported
  <1> QED
    BY <1>2, <1>3, <1>4 DEF Laid

\* prefetch() remembers the end of a segment that nothing is added to until the import.
LEMMA DeferLaid ==
  ASSUME HInv, phase = "prefetch", UNCHANGED <<bytes, cuts, phase, loads>>,
         NEW s \in 1..Len(Sections), ~IsData(s), Mapping(s) \in Segments,
         shdr' = [shdr EXCEPT ![s] = Here(Mapping(s))]
  PROVE  Laid'
  <1> DEFINE end == TableOffset(Mapping(s))
  <1>2. end \in Nat
    BY BaseFields DEF HInv, DInv
  <1>3. /\ shdr'[s].base = end /\ shdr'[s].last = end
        /\ \A i \in 1..Len(Sections) : i # s => shdr'[i] = shdr[i]
    BY DEF Here, At, HInv, DInv, BInv, Shape
  <1>4. Grown /\ Laid
    BY StillGrown DEF HInv, DInv
  <1>6. \A i \in 1..Len(Sections) : i # s /\ Supported(i)' => Supported(i) /\ Section(i)'
    <2> SUFFICES ASSUME NEW i \in 1..Len(Sections), i # s, Supported(i)'
                 PROVE  Supported(i) /\ Section(i)'
      OBVIOUS
    <2>1. Supported(i) /\ shdr'[i] = shdr[i]
      BY <1>3 DEF Supported
    <2>2. bytes'[Mapping(i)] = bytes[Mapping(i)]
      OBVIOUS
    <2> QED
      BY <1>4, <2>1, <2>2, SectionStays DEF HInv, DInv, Laid
  <1> HIDE DEF end
  <1>8. Section(s)'
    <2>1. Extent(s)' = 0
      BY <1>2, <1>3 DEF Extent
    <2>2. Filled(s)'
      BY <2>1 DEF Filled
    <2>3. shdr'[s].last = Len(bytes'[Mapping(s)])
      BY <1>3 DEF end, TableOffset
    <2>4. Starts(Mapping(s), shdr[s].last)'
      <3>1. ~(shdr'[s].last < Len(bytes'[Mapping(s)]))
        BY <1>2, <1>3, <2>3
      <3> QED
        BY <3>1 DEF Starts, TableOffset
    <2>5. Joints(s)'
      <3>1. \A c \in cuts'[Mapping(s)] : c \in Nat
        BY <1>4 DEF Grown
      <3> QED
        BY <1>2, <1>3, <3>1 DEF Joints
    <2> QED
      BY <2>1, <2>2, <2>3, <2>4, <2>5 DEF Section, Growing, TableOffset
  <1>9. OneBase'
    <2>1. ASSUME NEW i \in 1..Len(Sections), i # s, Supported(i)',
                 Mapping(i) = Mapping(s), Mapping(i) \in Pieced
          PROVE  shdr'[i].base = end
      <3>1. Supported(i) /\ Section(i) /\ shdr'[i] = shdr[i]
        BY <1>3, <1>4, <1>6, <2>1 DEF Laid
      <3>2. ~IsData(i)
        BY <2>1 DEF IsData, Pieced
      <3>3. Extent(i) = 0 /\ shdr[i].last = end
        BY <2>1, <3>1, <3>2 DEF Section, Growing, end
      <3>4. shdr[i].last = shdr[i].base + Extent(i) /\ shdr[i].base \in Nat
        BY <3>1, PlaceFields DEF HInv, DInv
      <3> QED
        BY <3>1, <3>3, <3>4
    <2>2. ASSUME NEW i \in 1..Len(Sections), NEW j \in 1..Len(Sections), i # s, j # s,
                 Supported(i)', Supported(j)', Mapping(i) = Mapping(j), Mapping(i) \in Pieced
          PROVE  shdr'[i].base = shdr'[j].base
      BY <1>3, <1>4, <1>6, <2>2 DEF Laid, OneBase
    <2>3. ASSUME NEW i \in 1..Len(Sections), NEW j \in 1..Len(Sections),
                 Supported(i)', Supported(j)', Mapping(i) = Mapping(j), Mapping(i) \in Pieced
          PROVE  shdr'[i].base = shdr'[j].base
      BY <1>3, <2>1, <2>2, <2>3
    <2> QED
      BY <2>3 DEF OneBase, Mapping
  <1> QED
    BY <1>6, <1>8, <1>9 DEF Laid

\* A section that is loaded whole holds its bytes, then padding.
LEMMA LoadedLaid ==
  ASSUME HInv, phase = "prefetch", NEW s \in 1..Len(Sections), IsData(s),
         Reserve(Mapping(s), Whole(s)), UNCHANGED <<phase, loads>>,
         shdr' = [shdr EXCEPT ![s] =
                    At(Mapping(s), TableOffset(Mapping(s)), Len(bytes'[Mapping(s)]))]
  PROVE  Laid'
  <1> DEFINE g == Mapping(s)
             end == TableOffset(g)
             size == Sections[s].size
  <1>1. /\ g \in Segments /\ g \notin Pieced /\ end \in Nat
        /\ size \in Nat /\ size > 0 /\ RoundUp(size) \in Nat /\ RoundUp(size) >= size
    BY Mapped, BaseFields, SectionFields, RoundUpCovers DEF HInv, DInv, IsData, Pieced
  <1>2. /\ Whole(s) \in Seq(Bytes(loads)) /\ Len(Whole(s)) = size
        /\ \A k \in 1..size : Whole(s)[k] = <<loads, s, k - 1>>
    BY WholeTyped DEF HInv, DInv
  <1>3. Grown /\ Len(bytes'[g]) = end + RoundUp(size)
    BY <1>1, <1>2, ReservedGrown DEF HInv, DInv
  <1>4. /\ \A h \in Segments : h # g => bytes'[h] = bytes[h]
        /\ \A k \in 1..size : bytes'[g][end + k] = <<loads, s, k - 1>>
        /\ \A k \in (size + 1)..RoundUp(size) : bytes'[g][end + k] = Pad
    <2>1. Pad \in Bytes(loads) /\ bytes \in [Segments -> Seq(Bytes(loads))]
      BY BaseFields DEF HInv, DInv, BInv, Shape
    <2>2. /\ \A h \in Segments : h # g => bytes'[h] = bytes[h]
          /\ \A k \in 1..Len(Whole(s)) : bytes'[g][Len(bytes[g]) + k] = Whole(s)[k]
          /\ \A k \in (Len(Whole(s)) + 1)..RoundUp(Len(Whole(s))) :
               bytes'[g][Len(bytes[g]) + k] = Pad
      BY <1>1, <1>2, <2>1, ReserveGrows
    <2> QED
      BY <1>2, <2>2 DEF TableOffset
  <1>5. /\ shdr'[s].base = end /\ shdr'[s].last = end + RoundUp(size)
        /\ \A i \in 1..Len(Sections) : i # s => shdr'[i] = shdr[i]
    BY <1>3 DEF At, HInv, DInv, BInv, Shape
  <1>6. Opens(bytes'[g][end + 1])
    <2>1. bytes'[g][end + 1] = <<loads, s, 1 - 1>>
      BY <1>1, <1>4
    <2> QED
      BY <2>1 DEF Opens
  <1>7. \A i \in 1..Len(Sections) : i # s /\ Supported(i)' => Supported(i) /\ Section(i)'
    <2> SUFFICES ASSUME NEW i \in 1..Len(Sections), i # s, Supported(i)'
                 PROVE  Supported(i) /\ Section(i)'
      OBVIOUS
    <2>1. Supported(i) /\ shdr'[i] = shdr[i]
      BY <1>5 DEF Supported
    <2>2. Section(i) /\ Mapping(i) \in Segments
      BY <2>1, PlaceFields DEF HInv, Laid, DInv
    <2>3. CASE Mapping(i) = g
      BY <1>1, <1>3, <1>6, <2>1, <2>2, <2>3, SectionStays DEF HInv, DInv
    <2>4. CASE Mapping(i) # g
      <3>1. bytes'[Mapping(i)] = bytes[Mapping(i)]
        BY <1>4, <2>2, <2>4
      <3> QED
        BY <1>3, <2>1, <2>2, <3>1, SectionStays DEF HInv, DInv
    <2> QED
      BY <2>3, <2>4
  <1> HIDE DEF end, size
  <1>8. Section(s)'
    <2>1. Extent(s)' = RoundUp(size)
      BY <1>1, <1>5 DEF Extent
    <2>2. \A k \in 0..(RoundUp(size) - 1) :
            \/ bytes'[g][(end + k) + 1] = <<loads, s, k>>
            \/ bytes'[g][(end + k) + 1] = Pad /\ k >= size
      <3> SUFFICES ASSUME NEW k \in 0..(RoundUp(size) - 1)
                   PROVE  \/ bytes'[g][(end + k) + 1] = <<loads, s, k>>
                          \/ bytes'[g][(end + k) + 1] = Pad /\ k >= size
        OBVIOUS
      <3>1. (end + k) + 1 = end + (k + 1) /\ (k + 1) - 1 = k
        BY <1>1
      <3>2. CASE k < size
        <4>1. k + 1 \in 1..size
          BY <1>1, <3>2
        <4>2. bytes'[g][end + (k + 1)] = <<loads, s, (k + 1) - 1>>
          BY <1>4, <4>1
        <4> QED
          BY <3>1, <4>2
      <3>3. CASE k >= size
        <4>1. k + 1 \in (size + 1)..RoundUp(size)
          BY <1>1, <3>3
        <4> QED
          BY <1>4, <3>1, <3>3, <4>1
      <3> QED
        BY <1>1, <3>2, <3>3
    <2>3. Filled(s)'
      BY <1>5, <2>1, <2>2 DEF Filled, ByteAt, Padded, size, IsData, Mapping
    <2>4. Starts(Mapping(s), shdr[s].last)'
      <3>1. ~(shdr'[s].last < Len(bytes'[g]))
        BY <1>1, <1>3, <1>5
      <3> QED
        BY <3>1 DEF Starts, TableOffset
    <2> QED
      BY <2>3, <2>4 DEF Section, IsData, Mapping
  <1>9. OneBase'
    <2>1. ASSUME NEW i \in 1..Len(Sections), Supported(i)', Mapping(i) \in Pieced
          PROVE  Supported(i) /\ shdr'[i] = shdr[i]
      BY <1>1, <1>5, <1>7, <2>1
    <2>2. \A i, j \in 1..Len(Sections) :
            Supported(i)' /\ Supported(j)' /\ Mapping(i) = Mapping(j) /\ Mapping(i) \in Pieced
              => shdr'[i].base = shdr'[j].base
      BY <2>1 DEF HInv, Laid, OneBase
    <2> QED
      BY <2>2 DEF OneBase, Mapping
  <1> QED
    BY <1>7, <1>8, <1>9 DEF Laid

\* What the reservation for a symbol adds to its section: its bytes from where the last
\* reservation ended to the symbol's end, then padding up to a boundary.
LEMMA Appending ==
  ASSUME WellLaid, HInv, NEW b \in Bodies, Appends(b),
         Reserve(Segment(b), Chunk(b)), UNCHANGED loads
  PROVE  LET s == b.sec
             g == Mapping(s)
             base == shdr[s].base
         IN  /\ s \in 1..Len(Sections) /\ Supported(s) /\ g \in Segments /\ g \in Pieced
             /\ Segment(b) = g /\ ~IsData(s) /\ Sections[s].size > 0
             /\ base \in Nat /\ Extent(s) \in Nat /\ Ends(b) \in Nat
             /\ Lo(b) \in Nat /\ Hi(b) \in Nat /\ Lo(b) <= Hi(b)
             /\ Extent(s) <= Lo(b) /\ Extent(s) < Hi(b) /\ Hi(b) <= Ends(b)
             /\ TableOffset(g) = base + Extent(s) /\ Len(bytes'[g]) = base + Ends(b)
             /\ Grown
             /\ \A h \in Segments : h # g => bytes'[h] = bytes[h]
             /\ \A k \in Extent(s)..(Hi(b) - 1) : bytes'[g][(base + k) + 1] = <<loads, s, k>>
             /\ \A k \in Hi(b)..(Ends(b) - 1) : bytes'[g][(base + k) + 1] = Pad
  <1> DEFINE s == b.sec
             g == Mapping(s)
             base == shdr[s].base
             extent == Extent(s)
             n == After(b) - Last(b)
  <1>1. phase = "import" /\ Fresh(b) /\ After(b) > Last(b) /\ First(b) >= Last(b)
    BY DEF Appends
  <1>2. /\ s \in 1..Len(Sections) /\ Lo(b) \in Nat /\ Hi(b) \in Nat /\ Lo(b) <= Hi(b)
        /\ Supported(s) /\ Segment(b) = g /\ g \in Segments
    BY <1>1, SymbolTyped DEF HInv, DInv
  <1>3. /\ base \in Nat /\ shdr[s].last \in Nat /\ extent \in Nat /\ Sections[s].size \in Nat
        /\ shdr[s].last = base + extent /\ TableOffset(g) \in Nat
    BY <1>2, PlaceFields DEF HInv, DInv
  <1>4. ~IsData(s)
    BY <1>1, AppendedPieced DEF HInv, WellLaid
  <1>5. Section(s) /\ Growing(s)
    BY <1>1, <1>2, <1>4 DEF HInv, Laid, Section
  <1>6. extent <= Lo(b) /\ extent < Hi(b) /\ n = Hi(b) - extent
    BY <1>1, <1>2, <1>3 DEF First, After, Last
  <1>7. Sections[s].size > 0
    <2>1. Hi(b) <= Sections[s].size
      BY DEF WellLaid, BodiesWithin
    <2> QED
      BY <1>2, <1>3, <1>6, <2>1
  <1>8. g \in Pieced
    BY <1>2, <1>4, <1>7 DEF IsData, Segments, Pieced
  <1>9. TableOffset(g) = base + extent
    BY <1>3, <1>5, <1>7, <1>8 DEF Growing
  <1>10. Mult(extent)
    <2>1. CASE extent = 0
      <3>1. 0 = 0 * Unit
        BY BoundsAssumption
      <3> QED
        BY <2>1, <3>1 DEF Mult
    <2>2. CASE extent # 0
      <3>1. Reserved(s, extent, extent)
        BY <1>5, <2>2 DEF Growing
      <3>2. PICK c \in Bodies : Ends(c) = extent
        BY <3>1 DEF Reserved
      <3>3. Hi(c) \in Nat
        BY BodyFields
      <3> QED
        BY <3>2, <3>3, RoundUpCovers DEF Ends
    <2> QED
      BY <2>1, <2>2
  <1>11. /\ Ends(b) \in Nat /\ Ends(b) >= Hi(b)
         /\ RoundUp(Hi(b) - extent) = Ends(b) - extent
    <2>1. RoundUp(Hi(b)) \in Nat /\ RoundUp(Hi(b)) >= Hi(b)
      BY <1>2, RoundUpCovers
    <2>2. extent <= Hi(b) /\ extent \in Nat /\ Hi(b) \in Nat
      BY <1>2, <1>3, <1>6
    <2> HIDE DEF extent
    <2>3. RoundUp(Hi(b) - extent) = RoundUp(Hi(b)) - extent
      BY <1>10, <2>2, RoundUpBehind
    <2> QED
      BY <2>1, <2>3 DEF Ends
  <1>12. /\ Chunk(b) \in Seq(Bytes(loads)) /\ Len(Chunk(b)) = n
         /\ \A k \in 1..n : Chunk(b)[k] = <<loads, s, extent + k - 1>>
    BY <1>1, ChunkTyped DEF HInv, DInv, Extent, Last
  <1>13. Grown /\ Len(bytes'[g]) = TableOffset(g) + RoundUp(Len(Chunk(b)))
    BY <1>2, <1>12, ReservedGrown DEF HInv, DInv
  <1>14. /\ \A h \in Segments : h # g => bytes'[h] = bytes[h]
         /\ \A k \in 1..n : bytes'[g][TableOffset(g) + k] = <<loads, s, extent + k - 1>>
         /\ \A k \in (n + 1)..RoundUp(n) : bytes'[g][TableOffset(g) + k] = Pad
    <2>1. Pad \in Bytes(loads) /\ bytes \in [Segments -> Seq(Bytes(loads))]
      BY BaseFields DEF HInv, DInv, BInv, Shape
    <2>2. Reserve(g, Chunk(b)) /\ g \in Segments /\ Chunk(b) \in Seq(Bytes(loads))
      BY <1>2, <1>12
    <2>3. /\ \A h \in Segments : h # g => bytes'[h] = bytes[h]
          /\ \A k \in 1..Len(Chunk(b)) : bytes'[g][Len(bytes[g]) + k] = Chunk(b)[k]
          /\ \A k \in (Len(Chunk(b)) + 1)..RoundUp(Len(Chunk(b))) :
               bytes'[g][Len(bytes[g]) + k] = Pad
      BY <2>1, <2>2, ReserveGrows
    <2> QED
      BY <1>12, <2>3 DEF TableOffset
  <1> HIDE DEF s, g, base, extent, n
  <1>15. Len(bytes'[g]) = base + Ends(b)
    BY <1>2, <1>3, <1>6, <1>9, <1>11, <1>12, <1>13
  <1>16. \A k \in extent..(Hi(b) - 1) : bytes'[g][(base + k) + 1] = <<loads, s, k>>
    <2> SUFFICES ASSUME NEW k \in extent..(Hi(b) - 1)
                 PROVE  bytes'[g][(base + k) + 1] = <<loads, s, k>>
      OBVIOUS
    <2> DEFINE j == k - extent + 1
    <2>1. k \in Int /\ extent \in Nat /\ base \in Nat /\ extent <= k /\ k < Hi(b)
      BY <1>2, <1>3
    <2>2. /\ j \in 1..n /\ TableOffset(g) + j = (base + k) + 1 /\ extent + j - 1 = k
      BY <1>2, <1>6, <1>9, <2>1
    <2> HIDE DEF j
    <2> QED
      BY <1>14, <2>2
  <1>17. \A k \in Hi(b)..(Ends(b) - 1) : bytes'[g][(base + k) + 1] = Pad
    <2> SUFFICES ASSUME NEW k \in Hi(b)..(Ends(b) - 1) PROVE bytes'[g][(base + k) + 1] = Pad
      OBVIOUS
    <2> DEFINE j == k - extent + 1
    <2>1. j \in (n + 1)..RoundUp(n) /\ TableOffset(g) + j = (base + k) + 1
      BY <1>2, <1>3, <1>6, <1>9, <1>11
    <2> HIDE DEF j
    <2> QED
      BY <1>14, <2>1
  <1> QED
    BY <1>2, <1>3, <1>4, <1>6, <1>7, <1>8, <1>9, <1>11, <1>13, <1>14, <1>15, <1>16, <1>17
       DEF s, g, base, extent

\* Reservations of a section end within what is loaded of it ...
LEMMA ReservedWithin ==
  ASSUME NEW i, NEW r, NEW extent, Reserved(i, r, extent)
  PROVE  r \in Nat /\ extent \in Nat /\ r <= extent
  <1>1. \A b \in Bodies : /\ Lo(b) \in Nat /\ Hi(b) \in Nat /\ Lo(b) <= Hi(b)
                          /\ Ends(b) \in Nat /\ Hi(b) <= Ends(b)
    BY BodyFields, RoundUpCovers DEF Ends
  <1>2. PICK b \in Bodies : /\ Ends(b) = r
                            /\ r = extent \/ \E d \in Bodies : r <= Lo(d) /\ Ends(d) = extent
    BY DEF Reserved
  <1>3. CASE r = extent
    BY <1>1, <1>2, <1>3
  <1>4. CASE \E d \in Bodies : r <= Lo(d) /\ Ends(d) = extent
    <2>1. PICK d \in Bodies : r <= Lo(d) /\ Ends(d) = extent
      BY <1>4
    <2> QED
      BY <1>1, <1>2, <2>1
  <1> QED
    BY <1>2, <1>3, <1>4

\* ... and are behind one another.
LEMMA ReservedMore ==
  ASSUME NEW b \in Bodies, NEW r, NEW extent, Reserved(b.sec, r, extent), extent <= Lo(b)
  PROVE  Reserved(b.sec, r, Ends(b))
  <1>1. r \in Nat /\ extent \in Nat /\ r <= extent /\ Lo(b) \in Nat
    BY ReservedWithin, BodyFields
  <1>2. r <= Lo(b)
    BY <1>1
  <1> QED
    BY <1>2 DEF Reserved

\* A section that grew for a symbol holds its bytes and padding as before.
LEMMA AppendedFilled ==
  ASSUME WellLaid, HInv, NEW b \in Bodies, Appends(b),
         Reserve(Segment(b), Chunk(b)), UNCHANGED loads,
         shdr' = [shdr EXCEPT ![b.sec].last = Len(bytes'[Segment(b)])]
  PROVE  /\ shdr'[b.sec].base = shdr[b.sec].base
         /\ shdr'[b.sec].last = Len(bytes'[Mapping(b.sec)])
         /\ Extent(b.sec)' = Ends(b)
         /\ Filled(b.sec)' /\ Joints(b.sec)'
  <1> DEFINE s == b.sec
             g == Mapping(s)
             base == shdr[s].base
             extent == Extent(s)
  <1>1. /\ s \in 1..Len(Sections) /\ Supported(s) /\ g \in Segments
        /\ Segment(b) = g /\ ~IsData(s)
        /\ base \in Nat /\ extent \in Nat /\ Ends(b) \in Nat
        /\ Lo(b) \in Nat /\ Hi(b) \in Nat /\ extent <= Lo(b) /\ extent < Hi(b) /\ Hi(b) <= Ends(b)
        /\ TableOffset(g) = base + extent /\ Len(bytes'[g]) = base + Ends(b)
        /\ Grown
    BY Appending
  <1>2. /\ \A k \in extent..(Hi(b) - 1) : bytes'[g][(base + k) + 1] = <<loads, s, k>>
        /\ \A k \in Hi(b)..(Ends(b) - 1) : bytes'[g][(base + k) + 1] = Pad
    BY Appending
  <1>3. /\ shdr'[s].base = base /\ shdr'[s].last = base + Ends(b)
    BY <1>1 DEF HInv, DInv, BInv, Shape, Header
  <1>4. Extent(s)' = Ends(b)
    BY <1>1, <1>3 DEF Extent
  <1>5. Section(s) /\ Growing(s)
    BY <1>1 DEF HInv, Laid, Section, Appends
  <1>6. Filled(s)'
    <2> SUFFICES ASSUME NEW k \in 0..(Ends(b) - 1)
                 PROVE  \/ bytes'[g][(base + k) + 1] = <<loads, s, k>>
                        \/ bytes'[g][(base + k) + 1] = Pad /\ Padded(s, k, Ends(b))
      BY <1>3, <1>4 DEF Filled, ByteAt, Padded, IsData, Mapping, Reserved
    <2>1. CASE k < extent
      <3>1. (base + k) + 1 \in 1..TableOffset(g) /\ k \in 0..(extent - 1)
        <4>1. /\ base \in Nat /\ extent \in Nat /\ Ends(b) \in Nat
              /\ TableOffset(g) = base + extent
          BY <1>1
        <4> HIDE DEF base, extent
        <4> QED
          BY <4>1, <2>1
      <3>2. bytes'[g][(base + k) + 1] = bytes[g][(base + k) + 1]
        BY <1>1, <3>1 DEF Grown
      <3>3. \/ bytes[g][(base + k) + 1] = <<loads, s, k>>
            \/ bytes[g][(base + k) + 1] = Pad /\ Padded(s, k, extent)
        BY <1>5, <3>1 DEF Section, Filled, ByteAt
      <3>4. Padded(s, k, extent) => Padded(s, k, Ends(b))
        BY <1>1, ReservedMore DEF Padded
      <3> QED
        BY <3>2, <3>3, <3>4
    <2>2. CASE extent <= k /\ k < Hi(b)
      <3>1. k \in extent..(Hi(b) - 1)
        BY <1>1, <2>2
      <3> QED
        BY <1>2, <3>1
    <2>3. CASE Hi(b) <= k
      <3>1. k \in Hi(b)..(Ends(b) - 1)
        BY <1>1, <2>3
      <3>2. Padded(s, k, Ends(b))
        BY <1>1, <2>3, <3>1 DEF Padded, Reserved
      <3> QED
        BY <1>2, <3>1, <3>2
    <2> QED
      BY <1>1, <2>1, <2>2, <2>3
  <1>7. Joints(s)'
    <2> SUFFICES ASSUME NEW c \in cuts'[g], base < c, c < base + Ends(b)
                 PROVE  Reserved(s, c - base, Ends(b))
      BY <1>3, <1>4 DEF Joints, Reserved
    <2>1. c \in cuts[g] \/ c = TableOffset(g)
      BY <1>1 DEF Grown
    <2>2. c \in Nat /\ c <= TableOffset(g)
      BY <1>1, <2>1 DEF Grown, HInv, DInv, BInv, Ranges
    <2>3. shdr[s].last = base + extent
      BY <1>1, PlaceFields DEF HInv, DInv
    <2>4. CASE c < base + extent
      <3>1. Reserved(s, c - base, extent)
        BY <1>1, <1>5, <2>1, <2>3, <2>4 DEF Growing, Joints
      <3> QED
        BY <1>1, <3>1, ReservedMore
    <2>5. CASE c = base + extent
      <3>1. extent # 0 /\ c - base = extent
        BY <1>1, <2>5
      <3>2. Reserved(s, extent, extent)
        BY <1>5, <3>1 DEF Growing
      <3> QED
        BY <1>1, <3>1, <3>2, ReservedMore
    <2> QED
      BY <1>1, <2>2, <2>4, <2>5
  <1> QED
    BY <1>1, <1>3, <1>4, <1>6, <1>7

\* The other sections are as they were.
LEMMA AppendedLaid ==
  ASSUME WellLaid, HInv, NEW b \in Bodies, Appends(b),
         Reserve(Segment(b), Chunk(b)), UNCHANGED <<phase, loads>>,
         shdr' = [shdr EXCEPT ![b.sec].last = Len(bytes'[Segment(b)])]
  PROVE  Laid'
  <1> DEFINE s == b.sec
             g == Mapping(s)
             base == shdr[s].base
             extent == Extent(s)
  <1>1. /\ s \in 1..Len(Sections) /\ Supported(s) /\ g \in Segments /\ g \in Pieced
        /\ ~IsData(s) /\ Sections[s].size > 0
        /\ base \in Nat /\ extent \in Nat
        /\ TableOffset(g) = base + extent
        /\ Grown
        /\ \A h \in Segments : h # g => bytes'[h] = bytes[h]
    BY Appending
  <1>2. extent = 0 => bytes'[g][TableOffset(g) + 1] = <<loads, s, 0>>
    <2>1. /\ \A k \in extent..(Hi(b) - 1) : bytes'[g][(base + k) + 1] = <<loads, s, k>>
          /\ extent < Hi(b) /\ Hi(b) \in Nat
      BY Appending
    <2>2. extent = 0 => 0 \in extent..(Hi(b) - 1) /\ TableOffset(g) + 1 = (base + 0) + 1
      BY <1>1, <2>1
    <2> QED
      BY <2>1, <2>2
  <1>3. /\ shdr'[s].base = base /\ shdr'[s].last = Len(bytes'[g]) /\ Extent(s)' = Ends(b)
        /\ Filled(s)' /\ Joints(s)'
    BY AppendedFilled
  <1>4. phase = "import" /\ Laid
    BY DEF Appends, HInv
  <1>5. Section(s)'
    <2>1. Starts(Mapping(s), shdr[s].last)'
      <3>1. Len(bytes'[g]) \in Nat
        BY <1>1 DEF Grown
      <3> QED
        BY <1>3, <3>1 DEF Starts, TableOffset
    <2>2. Reserved(s, Extent(s), Extent(s))'
      BY <1>3 DEF Reserved
    <2>3. Growing(s)'
      BY <1>1, <1>3, <1>4, <2>2 DEF Growing, TableOffset
    <2> QED
      BY <1>3, <2>1, <2>3 DEF Section
  <1>6. \A i \in 1..Len(Sections) : i # s => shdr'[i] = shdr[i]
    BY <1>1 DEF HInv, DInv, BInv, Shape
  <1>7. \A i \in 1..Len(Sections) : i # s /\ Supported(i)' => Section(i)'
    <2> SUFFICES ASSUME NEW i \in 1..Len(Sections), i # s, Supported(i)'
                 PROVE  Section(i)'
      OBVIOUS
    <2>1. Supported(i) /\ shdr'[i] = shdr[i] /\ Section(i)
      BY <1>4, <1>6 DEF Supported, Laid
    <2>2. Mapping(i) \in Segments
      BY <2>1, PlaceFields DEF HInv, DInv
    <2>3. CASE Mapping(i) # g
      <3>1. bytes'[Mapping(i)] = bytes[Mapping(i)]
        BY <1>1, <2>2, <2>3
      <3> QED
        BY <1>1, <2>1, <3>1, SectionStays DEF HInv, DInv
    <2>4. CASE Mapping(i) = g
      <3>1. Sections[i].size = 0
        BY <1>1, <2>4 DEF WellLaid, OnePieced
      <3>2. ~IsData(i)
        BY <3>1 DEF IsData
      <3>3. Extent(i) = 0
        BY <2>1, <3>1, <3>2 DEF Section, Growing
      <3>4. shdr[i].base = base
        BY <1>1, <1>4, <2>1, <2>4 DEF Laid, OneBase
      <3>5. shdr[i].last = base
        BY <1>1, <2>1, <3>3, <3>4, PlaceFields DEF HInv, DInv
      <3>6. \/ Opens(bytes'[Mapping(i)][TableOffset(Mapping(i)) + 1])
            \/ shdr[i].last < TableOffset(Mapping(i))
        <4>1. CASE extent = 0
          <5>1. bytes'[g][TableOffset(g) + 1] = <<loads, s, 0>>
            BY <1>2, <4>1
          <5> QED
            BY <2>4, <5>1 DEF Opens
        <4>2. CASE extent # 0
          BY <1>1, <2>4, <3>5, <4>2
        <4> QED
          BY <4>1, <4>2
      <3> QED
        BY <1>1, <1>4, <2>1, <3>1, <3>6, SectionStays DEF HInv, DInv
    <2> QED
      BY <2>3, <2>4
  <1>8. OneBase'
    <2>1. \A i \in 1..Len(Sections) : /\ shdr'[i].base = shdr[i].base
                                      /\ Supported(i)' => Supported(i)
      BY <1>1, <1>3, <1>6 DEF Supported
    <2> QED
      BY <1>4, <2>1 DEF Laid, OneBase, Mapping
  <1> QED
    BY <1>5, <1>7, <1>8 DEF Laid

\* A symbol that is found loaded is there with all its bytes, and no page begins among
\* them: else it would have been refused.
LEMMA HeldKept ==
  ASSUME WellLaid, HInv, phase = "import", NEW b \in Bodies, Fresh(b),
         After(b) <= Last(b), First(b) < TableOffset(Segment(b)), NEW p, p = Symbol(b)
  PROVE  Kept(p)
  <1> DEFINE s == b.sec
             g == Mapping(s)
             base == shdr[s].base
             extent == Extent(s)
  <1>1. /\ s \in 1..Len(Sections) /\ Lo(b) \in Nat /\ Hi(b) \in Nat /\ Lo(b) <= Hi(b)
        /\ Supported(s) /\ Segment(b) = g /\ g \in Segments
    BY SymbolTyped DEF HInv, DInv
  <1>2. /\ base \in Nat /\ shdr[s].last \in Nat /\ extent \in Nat /\ Sections[s].size \in Nat
        /\ shdr[s].last = base + extent /\ TableOffset(g) \in Nat
        /\ base + extent <= TableOffset(g)
    BY <1>1, PlaceFields DEF HInv, DInv
  <1>3. /\ p.load = loads /\ p.sec = s /\ p.lo = Lo(b) /\ p.hi = Hi(b) /\ p.segment = g
        /\ p.at = base + Lo(b)
    BY <1>1 DEF Symbol, First
  <1>4. Hi(b) <= extent /\ base + Lo(b) < TableOffset(g)
    BY <1>1, <1>2 DEF After, Last, First
  <1>5. Section(s)
    BY <1>1 DEF HInv, Laid
  <1>6. Hi(b) <= Sections[s].size
    BY DEF WellLaid, BodiesWithin
  <1>7. ASSUME NEW r, Reserved(s, r, extent), ~IsData(s), Lo(b) < Hi(b), Lo(b) < r, r < Hi(b)
        PROVE  FALSE
    <2>1. PICK c \in Bodies : /\ c.sec = s /\ Ends(c) = r
                              /\ \/ r = extent
                                 \/ \E d \in Bodies : d.sec = s /\ r <= Lo(d) /\ Ends(d) = extent
      BY <1>7 DEF Reserved
    <2>2. r \in Nat /\ Hi(c) \in Nat /\ Hi(c) <= r
      BY <1>7, <2>1, ReservedWithin, BodyFields, RoundUpCovers DEF Ends
    <2>3. Hi(c) < Hi(b)
      BY <1>1, <1>7, <2>2
    <2>4. \A d \in Bodies : d.sec = s /\ Ends(c) <= Lo(d) => Ends(d) < Hi(b)
      BY <1>7, <2>1, <2>3 DEF WellLaid, NoStraddlers
    <2>5. PICK d \in Bodies : d.sec = s /\ r <= Lo(d) /\ Ends(d) = extent
      BY <1>1, <1>2, <1>4, <1>7, <2>1, <2>2
    <2>6. extent < Hi(b)
      BY <2>1, <2>4, <2>5
    <2> QED
      BY <1>1, <1>2, <1>4, <2>6
  <1>8. ASSUME NEW k \in Lo(b)..(Hi(b) - 1)
        PROVE  bytes[g][(base + k) + 1] = <<loads, s, k>>
    <2>1. k \in 0..(extent - 1) /\ k < Hi(b) /\ Lo(b) <= k
      BY <1>1, <1>2, <1>4, <1>8
    <2> SUFFICES ASSUME Padded(s, k, extent) PROVE FALSE
      BY <1>5, <2>1 DEF Section, Filled, ByteAt
    <2>2. CASE IsData(s)
      BY <1>1, <1>2, <1>6, <2>1, <2>2 DEF Padded
    <2>3. CASE ~IsData(s)
      <3>1. PICK c \in Bodies : /\ c.sec = s /\ Hi(c) <= k /\ k < Ends(c)
                                /\ Reserved(s, Ends(c), extent)
        BY <2>3 DEF Padded
      <3>2. Hi(c) \in Nat /\ Ends(c) \in Nat
        BY <3>1, ReservedWithin, BodyFields
      <3>3. Lo(b) < Hi(b) /\ Lo(b) < Ends(c) /\ Hi(c) < Hi(b)
        BY <1>1, <2>1, <3>1, <3>2
      <3>4. Ends(c) < Hi(b)
        BY <2>3, <3>1, <3>3 DEF WellLaid, NoStraddlers
      <3> QED
        BY <1>7, <2>3, <3>1, <3>3, <3>4
    <2> QED
      BY <2>2, <2>3
  <1>9. \A k \in 0..(p.hi - p.lo - 1) : ByteAt(g, p.at + k) = <<p.load, p.sec, p.lo + k>>
    <2> SUFFICES ASSUME NEW k \in 0..(Hi(b) - Lo(b) - 1)
                 PROVE  bytes[g][((base + Lo(b)) + k) + 1] = <<loads, s, Lo(b) + k>>
      BY <1>3 DEF ByteAt
    <2>1. Lo(b) + k \in Lo(b)..(Hi(b) - 1) /\ ((base + Lo(b)) + k) + 1 = (base + (Lo(b) + k)) + 1
      BY <1>1, <1>2
    <2> QED
      BY <1>8, <2>1
  <1>10. ByteAt(g, p.at) = <<p.load, p.sec, p.lo>> \/ Opens(ByteAt(g, p.at))
    <2>1. CASE Lo(b) < extent
      <3>1. Lo(b) \in 0..(extent - 1)
        BY <1>1, <1>2, <2>1
      <3>2. \/ ByteAt(g, base + Lo(b)) = <<loads, s, Lo(b)>>
            \/ ByteAt(g, base + Lo(b)) = Pad
        BY <1>5, <3>1 DEF Section, Filled
      <3> QED
        BY <1>3, <3>2 DEF Opens
    <2>2. CASE Lo(b) = extent
      <3>1. Starts(g, base + Lo(b))
        BY <1>2, <1>5, <2>2 DEF Section
      <3> QED
        BY <1>3, <1>4, <3>1 DEF Starts
    <2> QED
      BY <1>1, <1>2, <1>4, <2>1, <2>2
  <1>11. \A c \in cuts[g] : ~(p.at < c /\ c < p.at + (p.hi - p.lo))
    <2> SUFFICES ASSUME NEW c \in cuts[g], base + Lo(b) < c, c < base + Hi(b)
                 PROVE  FALSE
      <3>1. p.at + (p.hi - p.lo) = base + Hi(b)
        BY <1>1, <1>2, <1>3
      <3> QED
        BY <1>3, <3>1
    <2>1. c \in Nat
      BY <1>1 DEF HInv, DInv, BInv, Shape
    <2>2. base < c /\ c < shdr[s].last
      BY <1>1, <1>2, <1>4, <2>1
    <2>3. CASE IsData(s)
      BY <1>1, <2>2, <2>3 DEF HInv, DInv, DataPieces, Piece
    <2>4. CASE ~IsData(s)
      <3>1. Reserved(s, c - base, extent)
        BY <1>5, <2>2, <2>4 DEF Section, Growing, Joints
      <3>2. Lo(b) < c - base /\ c - base < Hi(b) /\ Lo(b) < Hi(b)
        BY <1>1, <1>2, <2>1
      <3> QED
        BY <1>7, <2>4, <3>1, <3>2
    <2> QED
      BY <2>3, <2>4
  <1>12. p.lo <= p.hi /\ p.at < TableOffset(g) /\ p.at + (p.hi - p.lo) <= TableOffset(g)
    BY <1>1, <1>2, <1>3, <1>4
  <1> QED
    BY <1>3, <1>9, <1>10, <1>11, <1>12 DEF Kept

\* A symbol for which the rest of its section was loaded is in what was reserved.
LEMMA AppendedKept ==
  ASSUME WellLaid, HInv, NEW b \in Bodies, Appends(b),
         Reserve(Segment(b), Chunk(b)), UNCHANGED loads,
         First(b) < Len(bytes'[Segment(b)]), NEW p, p = Symbol(b)
  PROVE  Kept(p)'
  <1> DEFINE s == b.sec
             g == Mapping(s)
             base == shdr[s].base
             extent == Extent(s)
  <1>1. /\ s \in 1..Len(Sections) /\ Supported(s) /\ g \in Segments
        /\ Segment(b) = g
        /\ base \in Nat /\ extent \in Nat /\ Ends(b) \in Nat
        /\ Lo(b) \in Nat /\ Hi(b) \in Nat /\ Lo(b) <= Hi(b)
        /\ extent <= Lo(b) /\ extent < Hi(b) /\ Hi(b) <= Ends(b)
        /\ TableOffset(g) = base + extent /\ Len(bytes'[g]) = base + Ends(b)
        /\ Grown
    BY Appending
  <1>2. /\ \A k \in extent..(Hi(b) - 1) : bytes'[g][(base + k) + 1] = <<loads, s, k>>
        /\ \A k \in Hi(b)..(Ends(b) - 1) : bytes'[g][(base + k) + 1] = Pad
    BY Appending
  <1>3. /\ p.load = loads /\ p.sec = s /\ p.lo = Lo(b) /\ p.hi = Hi(b) /\ p.segment = g
        /\ p.at = base + Lo(b)
    BY <1>1 DEF Symbol, First
  <1>4. Lo(b) < Ends(b)
    BY <1>1 DEF First
  <1>5. /\ p.lo <= p.hi /\ p.at < Len(bytes'[g])
        /\ p.at + (p.hi - p.lo) <= Len(bytes'[g])
    BY <1>1, <1>3, <1>4
  <1>6. \A k \in 0..(p.hi - p.lo - 1) :
          bytes'[g][(p.at + k) + 1] = <<p.load, p.sec, p.lo + k>>
    <2> SUFFICES ASSUME NEW k \in 0..(Hi(b) - Lo(b) - 1)
                 PROVE  bytes'[g][((base + Lo(b)) + k) + 1] = <<loads, s, Lo(b) + k>>
      BY <1>3
    <2>1. Lo(b) + k \in extent..(Hi(b) - 1)
      BY <1>1
    <2>2. ((base + Lo(b)) + k) + 1 = (base + (Lo(b) + k)) + 1
      BY <1>1
    <2> QED
      BY <1>2, <2>1, <2>2
  <1>7. bytes'[g][p.at + 1] = <<p.load, p.sec, p.lo>> \/ bytes'[g][p.at + 1] = Pad
    <2>1. CASE Lo(b) < Hi(b)
      <3>1. Lo(b) \in extent..(Hi(b) - 1)
        BY <1>1, <2>1
      <3> QED
        BY <1>2, <1>3, <3>1
    <2>2. CASE Lo(b) = Hi(b)
      <3>1. Lo(b) \in Hi(b)..(Ends(b) - 1)
        BY <1>1, <1>4, <2>2
      <3> QED
        BY <1>2, <1>3, <3>1
    <2> QED
      BY <1>1, <2>1, <2>2
  <1>8. \A c \in cuts'[g] : ~(p.at < c /\ c < p.at + (p.hi - p.lo))
    <2> SUFFICES ASSUME NEW c \in cuts'[g] PROVE ~(p.at < c)
      OBVIOUS
    <2>1. c \in Nat /\ c <= TableOffset(g)
      BY <1>1 DEF Grown, HInv, DInv, BInv, Ranges
    <2> QED
      BY <1>1, <1>3, <2>1
  <1> QED
    BY <1>3, <1>5, <1>6, <1>7, <1>8 DEF Kept, ByteAt, Opens, TableOffset

\* Every step keeps what the segments hold, and what the symbols were given.
LEMMA HoldingStep == ASSUME WellLaid, HInv, [Next]_vars PROVE HInv'
  <1>1. DInv' /\ Grown
    BY PiecesStep, BaseStep DEF HInv, DInv, WellLaid
  <1>2. \A p \in placed : Kept(p)'
    BY <1>1, KeptStays DEF HInv, DInv
  <1>3. ASSUME placed' \subseteq placed PROVE \A p \in placed' : Kept(p)'
    BY <1>2, <1>3
  <1>4. ASSUME phase' = "idle", placed' \subseteq placed PROVE HInv'
    BY <1>1, <1>3, <1>4 DEF HInv
  <1>5. ASSUME placed' \subseteq placed, Laid' PROVE HInv'
    BY <1>1, <1>3, <1>5 DEF HInv
  <1>6. CASE UNCHANGED vars
    <2>1. CASE phase = "idle"
      BY <1>4, <1>6, <2>1 DEF vars
    <2>2. CASE phase # "idle"
      BY <1>5, <1>6, <2>2, QuietLaid DEF vars
    <2> QED
      BY <2>1, <2>2
  <1>7. CASE Begin
    <2>1. \A i \in 1..Len(Sections) : ~Supported(i)'
      BY <1>7, Mapped DEF Begin, Supported
    <2>2. Laid'
      BY <2>1 DEF Laid, OneBase
    <2> QED
      BY <1>5, <1>7, <2>2 DEF Begin
  <1>8. CASE Defer
    <2>1. scan \in 1..Len(Sections) /\ ~IsData(scan) /\ Mapping(scan) \in Segments
      BY <1>8, Mapped DEF Defer, HInv, DInv, BInv, Shape
    <2>2. /\ phase = "prefetch" /\ UNCHANGED <<bytes, cuts, phase, loads>>
          /\ shdr' = [shdr EXCEPT ![scan] = Here(Mapping(scan))] /\ UNCHANGED placed
      BY <1>8 DEF Defer
    <2>3. Laid'
      BY <2>1, <2>2, DeferLaid
    <2> QED
      BY <1>5, <2>2, <2>3
  <1>9. CASE PassOver \/ Prefetched
    <2>1. phase # "idle" /\ UNCHANGED <<bytes, cuts, shdr, loads, placed>>
          /\ (phase' = phase \/ phase' = "import")
      BY <1>9 DEF PassOver, Prefetched
    <2> QED
      BY <1>5, <2>1, QuietLaid
  <1>10. CASE LoadData
    <2>1. scan \in 1..Len(Sections) /\ IsData(scan) /\ phase = "prefetch" /\ UNCHANGED placed
      BY <1>10 DEF LoadData, HInv, DInv, BInv, Shape
    <2>2. CASE End
      BY <1>4, <2>1, <2>2 DEF End
    <2>3. CASE /\ Reserve(Mapping(scan), Whole(scan)) /\ UNCHANGED <<phase, loads>>
               /\ shdr' = [shdr EXCEPT ![scan] = Loaded(Mapping(scan))]
      <3>1. shdr' = [shdr EXCEPT ![scan] = At(Mapping(scan), TableOffset(Mapping(scan)),
                                              Len(bytes'[Mapping(scan)]))]
        BY <2>3 DEF Loaded
      <3>2. Laid'
        BY <2>1, <2>3, <3>1, LoadedLaid
      <3> QED
        BY <1>5, <2>1, <3>2
    <2> QED
      BY <1>10, <2>2, <2>3 DEF LoadData
  <1>11. ASSUME NEW b \in Bodies,
                RefuseUnsupported(b) \/ RefuseOverlap(b) \/ AppendUnread(b)
         PROVE  HInv'
    BY <1>4, <1>11 DEF RefuseUnsupported, RefuseOverlap, AppendUnread, End
  <1>12. CASE Imported
    BY <1>4, <1>12 DEF Imported, End
  <1>13. ASSUME NEW b \in Bodies, PlaceHeld(b) PROVE HInv'
    <2>1. /\ phase = "import" /\ Fresh(b) /\ After(b) <= Last(b)
          /\ Locate(b, TableOffset(Segment(b)))
          /\ UNCHANGED <<bytes, cuts, scan, shdr, loads>>
      BY <1>13 DEF PlaceHeld
    <2>2. CASE phase' = "idle" /\ UNCHANGED placed
      BY <1>4, <2>2
    <2>3. CASE /\ First(b) < TableOffset(Segment(b)) /\ UNCHANGED phase
               /\ placed' = placed \union {Symbol(b)}
      <3>1. Laid'
        BY <2>1, <2>3, QuietLaid
      <3>2. ASSUME NEW p, p = Symbol(b) PROVE Kept(p)'
        <4>1. Kept(p)
          BY <2>1, <2>3, <3>2, HeldKept
        <4> QED
          BY <2>1, <4>1 DEF Kept, ByteAt, Opens, TableOffset
      <3>3. \A p \in placed' : Kept(p)'
        BY <1>2, <2>3, <3>2
      <3> QED
        BY <1>1, <3>1, <3>3 DEF HInv
    <2> QED
      BY <2>1, <2>2, <2>3 DEF Locate
  <1>14. ASSUME NEW b \in Bodies, PlaceAppended(b) PROVE HInv'
    <2>1. /\ Appends(b) /\ Reserve(Segment(b), Chunk(b)) /\ UNCHANGED <<scan, loads>>
          /\ shdr' = [shdr EXCEPT ![b.sec].last = Len(bytes'[Segment(b)])]
          /\ Locate(b, Len(bytes'[Segment(b)]))
      BY <1>14 DEF PlaceAppended
    <2>2. CASE phase' = "idle" /\ UNCHANGED placed
      BY <1>4, <2>2
    <2>3. CASE /\ First(b) < Len(bytes'[Segment(b)]) /\ UNCHANGED phase
               /\ placed' = placed \union {Symbol(b)}
      <3>1. Laid'
        BY <2>1, <2>3, AppendedLaid
      <3>2. \A p \in placed' : Kept(p)'
        BY <1>2, <2>1, <2>3, AppendedKept
      <3> QED
        BY <1>1, <3>1, <3>2 DEF HInv
    <2> QED
      BY <2>1, <2>2, <2>3 DEF Locate
  <1> QED
    BY <1>6, <1>7, <1>8, <1>9, <1>10, <1>11, <1>12, <1>13, <1>14 DEF Next, Place

\* What the segments hold, in every state.
THEOREM HoldingInvariance == WellLaid => (Spec => []HInv)
  <1> SUFFICES ASSUME WellLaid PROVE Spec => []HInv
    OBVIOUS
  <1>1. Init => HInv
    <2>1. ASSUME Init, NEW i \in 1..Len(Sections) PROVE ~Supported(i)
      BY <2>1, Mapped DEF Init, Supported
    <2> QED
      BY <2>1, InitBase DEF HInv, DInv, DataPieces, Init
  <1>2. HInv /\ [Next]_vars => HInv'
    BY HoldingStep
  <1> QED
    BY <1>1, <1>2, PTL DEF Spec

\* The address of a symbol holds the symbol's bytes, whatever is loaded later.
THEOREM Holding == WellLaid => (Spec => []SymbolsHold)
  <1>1. HInv => SymbolsHold
    <2> SUFFICES ASSUME HInv, NEW p \in placed, p.lo = p.start,
                        NEW k \in 0..(p.hi - p.lo - 1)
                 PROVE  Holds(p, k)
      BY DEF SymbolsHold, Displaced
    <2>1. /\ Kept(p) /\ p.at \in Nat /\ p.lo \in Nat /\ p.hi \in Nat
          /\ TableOffset(p.segment) \in Nat
      BY SpotFields DEF HInv, DInv
    <2>2. p.at + k < TableOffset(p.segment)
      BY <2>1 DEF Kept
    <2> QED
      BY <2>1, <2>2 DEF Kept, ByteAt, Holds, TableOffset
  <1> QED
    BY <1>1, HoldingInvariance, PTL

\* A symbol's bytes are on one page.
THEOREM Uncut == WellLaid => (Spec => []SymbolsUncut)
  <1>1. HInv => SymbolsUncut
    <2> SUFFICES ASSUME HInv, NEW p \in placed, NEW c \in cuts[p.segment]
                 PROVE  ~(p.at < c /\ c < p.at + p.hi - p.lo)
      BY DEF SymbolsUncut
    <2>1. Kept(p) /\ p.at \in Nat /\ p.lo \in Nat /\ p.hi \in Nat
      BY SpotFields DEF HInv, DInv
    <2>2. p.at + p.hi - p.lo = p.at + (p.hi - p.lo)
      BY <2>1
    <2> QED
      BY <2>1, <2>2 DEF Kept
  <1> QED
    BY <1>1, HoldingInvariance, PTL

\* Bytes that two symbols share in memory are bytes that they share in the object: at
\* an address of both there is one byte, and it says where it came from.
LEMMA KeptApart ==
  ASSUME HInv, NEW p \in placed, NEW q \in placed, p.segment = q.segment,
         p.at < q.at + q.hi - q.lo, q.at <= p.at
  PROVE  \/ p.load = q.load /\ p.sec = q.sec /\ p.lo = q.lo + (p.at - q.at)
         \/ p.lo = p.hi /\ p.at = q.at
  <1>1. /\ p.load \in Nat \ {0} /\ p.sec \in Nat /\ p.lo \in Nat /\ p.hi \in Nat /\ p.at \in Nat
        /\ q.load \in Nat \ {0} /\ q.sec \in Nat /\ q.lo \in Nat /\ q.hi \in Nat /\ q.at \in Nat
    BY SpotFields DEF HInv, DInv
  <1>2. Kept(p) /\ Kept(q)
    BY DEF HInv
  <1> DEFINE k == p.at - q.at
             byte == ByteAt(p.segment, p.at)
  <1>3. k \in 0..(q.hi - q.lo - 1) /\ q.at + k = p.at /\ q.lo + k \in Nat
    BY <1>1
  <1>4. byte = <<q.load, q.sec, q.lo + k>>
    BY <1>2, <1>3 DEF Kept
  <1>5. CASE byte = <<p.load, p.sec, p.lo>>
    BY <1>4, <1>5
  <1>6. CASE byte # <<p.load, p.sec, p.lo>>
    <2>1. Opens(byte)
      BY <1>2, <1>6 DEF Kept
    <2>2. byte # Pad
      BY <1>1, <1>4 DEF Pad
    <2>3. q.lo + k = 0
      BY <1>4, <2>1, <2>2 DEF Opens
    <2>4. k = 0
      BY <1>1, <1>3, <2>3
    <2>5. p.lo = p.hi
      <3> SUFFICES ASSUME p.lo # p.hi PROVE FALSE
        OBVIOUS
      <3>1. 0 \in 0..(p.hi - p.lo - 1) /\ p.at + 0 = p.at /\ p.lo + 0 = p.lo
        BY <1>1, <1>2 DEF Kept
      <3>2. byte = <<p.load, p.sec, p.lo>>
        BY <1>2, <3>1 DEF Kept
      <3> QED
        BY <1>6, <3>2
    <2> QED
      BY <1>1, <2>4, <2>5
  <1> QED
    BY <1>5, <1>6

\* Symbols that share a byte in memory are of one load and share one in the object,
\* unless the mask moved one of them: two bytes of data may be given one address.
\* That no other's byte lies at an address is SymbolsHold, said of two symbols.
Past(p) == p.start + (p.hi - p.lo)
SymbolsApart ==
  \A p, q \in placed :
    /\ ~Displaced(p) /\ ~Displaced(q)
    /\ p.segment = q.segment
    /\ p.at < q.at + q.hi - q.lo
    /\ q.at < p.at + p.hi - p.lo
    => /\ p.load = q.load /\ p.sec = q.sec
       /\ p.start < Past(q) /\ q.start < Past(p)

\* Symbols that share a byte in memory share one in the object, if both are where
\* their values say (uld_get_section_data() and the mask of uld_load_symbol()).
THEOREM Apart == WellLaid => (Spec => []SymbolsApart)
  <1>1. ASSUME HInv, NEW p \in placed, NEW q \in placed, p.segment = q.segment, q.at <= p.at,
               p.at < q.at + q.hi - q.lo, q.at < p.at + p.hi - p.lo
        PROVE  /\ p.load = q.load /\ p.sec = q.sec
               /\ p.lo < q.hi /\ q.lo < p.hi
    <2>1. /\ p.lo \in Nat /\ p.hi \in Nat /\ p.at \in Nat
          /\ q.lo \in Nat /\ q.hi \in Nat /\ q.at \in Nat
      BY <1>1, SpotFields DEF HInv, DInv
    <2>2. \/ p.load = q.load /\ p.sec = q.sec /\ p.lo = q.lo + (p.at - q.at)
          \/ p.lo = p.hi /\ p.at = q.at
      BY <1>1, KeptApart
    <2>3. ~(p.lo = p.hi /\ p.at = q.at)
      BY <1>1, <2>1
    <2>4. p.lo <= p.hi
      BY <1>1 DEF HInv, Kept
    <2> QED
      BY <1>1, <2>1, <2>2, <2>3, <2>4
  <1>2. HInv => SymbolsApart
    <2> SUFFICES ASSUME HInv, NEW p \in placed, NEW q \in placed, p.segment = q.segment,
                        p.lo = p.start, q.lo = q.start,
                        p.at < q.at + q.hi - q.lo, q.at < p.at + p.hi - p.lo
                 PROVE  /\ p.load = q.load /\ p.sec = q.sec
                        /\ p.start < Past(q) /\ q.start < Past(p)
      BY DEF SymbolsApart, Displaced
    <2>1. p.at \in Nat /\ q.at \in Nat
      BY SpotFields DEF HInv, DInv
    <2>2. /\ p.load = q.load /\ p.sec = q.sec
          /\ p.lo < q.hi /\ q.lo < p.hi
      <3>1. CASE q.at <= p.at
        BY <1>1, <3>1
      <3>2. CASE p.at <= q.at
        BY <1>1, <3>2
      <3> QED
        BY <2>1, <3>1, <3>2
    <2>3. p.lo \in Nat /\ p.hi \in Nat /\ q.lo \in Nat /\ q.hi \in Nat
      BY SpotFields DEF HInv, DInv
    <2> QED
      BY <2>2, <2>3 DEF Past
  <1> QED
    BY <1>2, HoldingInvariance, PTL
=============================================================================
