--------------------------- MODULE ArmReloc_proof ---------------------------
(***************************************************************************)
(* That relocated calls land on their symbols and that a narrow field      *)
(* leaves the rest of its word, wherever the words and the symbols are.    *)
(***************************************************************************)
EXTENDS ArmReloc, TLAPS

(***************************************************************************)
(* The encoder.  The fields of a distance v are Upper(v) and Lower(v); a   *)
(* field is put Under the upper five bits of a half.                       *)
(***************************************************************************)
Word == [lo: Half, hi: Half]
Fields == {f \in Nat : f < 2048}
Opcode(h) == h \div 2048
Eleven(h) == h % 2048
Under(h, f) == (h - (h % 2048)) + f
Upper(v) == (v % 8388608) \div 4096
Lower(v) == (v % 4096) \div 2

\* A half is a number.
LEMMA HalfNat == ASSUME NEW h \in Half PROVE h \in Nat
  BY SMT DEF Half

\* A field put into a half is found there, below the bits the half had.
LEMMA UnderKeeps ==
  ASSUME NEW h \in Half, NEW f \in Fields
  PROVE  Under(h, f) \in Half /\ Eleven(Under(h, f)) = f /\ Opcode(Under(h, f)) = Opcode(h)
<1> h \in Nat
  BY SMT DEF Half
<1> DEFINE q == h \div 2048
<1> f \in Nat /\ f < 2048
  BY SMT DEF Fields
<1>1. q \in Nat /\ h - (h % 2048) = 2048 * q
  BY SMTT(30)
<1>2. q \in 0..31
  BY SMTT(30) DEF Half
<1> HIDE DEF q
<1>3. (2048 * q + f) % 2048 = f /\ (2048 * q + f) \div 2048 = q
  BY <1>1, SMTT(30)
<1>4. 2048 * q + f \in Half
  BY <1>2, SMTT(30) DEF Half
<1> QED
  BY <1>1, <1>3, <1>4, SMTT(30) DEF q, Under, Eleven, Opcode

\* A relocated Thumb call keeps its opcode and has the fields of the distance.
LEMMA SetBl22Fields ==
  ASSUME NEW w \in Word, NEW v \in Int
  PROVE  /\ SetBl22(w, v) \in Word
         /\ Opcode(SetBl22(w, v).lo) = Opcode(w.lo)
         /\ Opcode(SetBl22(w, v).hi) = Opcode(w.hi)
         /\ Eleven(SetBl22(w, v).lo) = Upper(v)
         /\ Eleven(SetBl22(w, v).hi) = Lower(v)
<1>1. w.lo \in Half /\ w.hi \in Half
  BY SMT DEF Word
<1>2. SetBl22(w, v) = [lo |-> Under(w.lo, Upper(v)), hi |-> Under(w.hi, Lower(v))]
  BY SMT DEF SetBl22, Upper, Lower, Under
<1>3. Upper(v) \in Fields /\ Lower(v) \in Fields
  BY SMTT(30) DEF Upper, Lower, Fields
<1>4. /\ Under(w.lo, Upper(v)) \in Half
      /\ Eleven(Under(w.lo, Upper(v))) = Upper(v)
      /\ Opcode(Under(w.lo, Upper(v))) = Opcode(w.lo)
  BY <1>1, <1>3, UnderKeeps, Zenon
<1>5. /\ Under(w.hi, Lower(v)) \in Half
      /\ Eleven(Under(w.hi, Lower(v))) = Lower(v)
      /\ Opcode(Under(w.hi, Lower(v))) = Opcode(w.hi)
  BY <1>1, <1>3, UnderKeeps, Zenon
<1> QED
  BY <1>2, <1>4, <1>5, SMT DEF Word

\* What a Thumb call is given within its range reads back, less the lowest bit.
LEMMA GetSetBl22 ==
  ASSUME NEW w \in Word, NEW v \in Int, 0 - 4194304 <= v, v < 4194304
  PROVE  GetBl22(SetBl22(w, v)) = v - (v % 2)
<1>1. v % 8388608 = IF v < 0 THEN v + 8388608 ELSE v
  BY SMTT(30)
<1>2. v % 2 \in 0..1
  BY SMTT(30)
<1>3. 2 * Lower(v) + 4096 * Upper(v) = (v % 8388608) - (v % 2)
  BY SMTT(30) DEF Upper, Lower
<1>4. Eleven(SetBl22(w, v).lo) = Upper(v) /\ Eleven(SetBl22(w, v).hi) = Lower(v)
  BY SetBl22Fields, SMT
<1>5. GetBl22(SetBl22(w, v)) = SignExtend(2 * Lower(v) + 4096 * Upper(v), 4194304)
  BY <1>4, SMT DEF GetBl22, Eleven
<1>6. CASE v < 0
  <2>1. (v % 8388608) - (v % 2) >= 4194304
    BY <1>1, <1>6, SMTT(30)
  <2> QED
    BY <1>1, <1>3, <1>5, <1>6, <2>1, SMT DEF SignExtend
<1>7. CASE v >= 0
  BY <1>1, <1>2, <1>3, <1>5, <1>7, SMT DEF SignExtend
<1> QED
  BY <1>6, <1>7, SMT

\* The same of an Arm branch, less two bits.
LEMMA GetSetBl26 ==
  ASSUME NEW w \in Word, NEW v \in Int, 0 - 33554432 <= v, v < 33554432
  PROVE  GetBl26(SetBl26(w, v)) = v - (v % 4)
<1> DEFINE lo == (v % 262144) \div 4
           hi == (v % 67108864) \div 262144
<1>1. v % 67108864 = IF v < 0 THEN v + 67108864 ELSE v
  BY SMTT(30)
<1>2. v % 4 \in 0..3
  BY SMTT(30)
<1>3. 4 * (lo + 65536 * hi) = (v % 67108864) - (v % 4) /\ hi \in 0..255
  BY SMTT(30)
<1>4. SetBl26(w, v).lo = lo /\ SetBl26(w, v).hi = hi
  BY SMT DEF SetBl26
<1> HIDE DEF lo, hi
<1>5. hi % 256 = hi
  BY <1>3, SMT
<1>6. GetBl26(SetBl26(w, v)) = SignExtend(4 * (lo + 65536 * hi), 33554432)
  BY <1>4, <1>5, SMT DEF GetBl26
<1>7. CASE v < 0
  <2>1. (v % 67108864) - (v % 4) >= 33554432
    BY <1>1, <1>7, SMTT(30)
  <2> QED
    BY <1>1, <1>3, <1>6, <1>7, <2>1, SMT DEF SignExtend
<1>8. CASE v >= 0
  BY <1>1, <1>2, <1>3, <1>6, <1>8, SMT DEF SignExtend
<1> QED
  BY <1>7, <1>8, SMT

\* A field of twelve bits keeps the bits above it.
LEMMA Set12Keeps ==
  ASSUME NEW w \in Word, NEW v \in Int
  PROVE  Set12(w, v).hi = w.hi /\ Set12(w, v).lo \div 4096 = w.lo \div 4096
<1> w.lo \in Half
  BY SMT DEF Word
<1> w.lo \in Nat
  BY HalfNat, Zenon
<1> DEFINE q == w.lo \div 4096
           f == v % 4096
<1>1. q \in Nat /\ w.lo - (w.lo % 4096) = 4096 * q
  BY SMTT(30)
<1>2. f \in 0..4095
  BY SMTT(30)
<1>3. Set12(w, v).hi = w.hi /\ Set12(w, v).lo = (w.lo - (w.lo % 4096)) + f
  BY SMT DEF Set12
<1> HIDE DEF q, f
<1>4. (4096 * q + f) \div 4096 = q
  BY <1>1, <1>2, SMTT(30)
<1> QED
  BY <1>1, <1>3, <1>4, SMTT(30) DEF q

\* What is put in place of a half's lower bits leaves a half.
LEMMA HalfBelow ==
  ASSUME NEW h \in Half, NEW m \in {256, 4096}, NEW f \in Nat, f < m
  PROVE  (h - (h % m)) + f \in Half
<1> h \in Nat /\ h < 65536
  BY SMT DEF Half
<1>1. CASE m = 256
  <2> DEFINE q == h \div 256
  <2>1. q \in 0..255 /\ h - (h % 256) = 256 * q
    BY SMTT(30)
  <2> HIDE DEF q
  <2>2. 256 * q + f \in Nat /\ 256 * q + f < 65536
    BY <1>1, <2>1, SMT
  <2> QED
    BY <1>1, <2>1, <2>2, SMT DEF Half
<1>2. CASE m = 4096
  <2> DEFINE q == h \div 4096
  <2>1. q \in 0..15 /\ h - (h % 4096) = 4096 * q
    BY SMTT(30)
  <2> HIDE DEF q
  <2>2. 4096 * q + f \in Nat /\ 4096 * q + f < 65536
    BY <1>2, <2>1, SMT
  <2> QED
    BY <1>2, <2>1, <2>2, SMT DEF Half
<1> QED
  BY <1>1, <1>2, SMT

\* The bits of two numbers, set over each other in a byte, make a byte.
LEMMA EitherByteType ==
  ASSUME NEW m \in Int, NEW n \in Int
  PROVE  EitherByte(m, n) \in Nat /\ EitherByte(m, n) < 256
<1> DEFINE Bit(weight) == IF 1 \in {(m \div weight) % 2, (n \div weight) % 2} THEN weight ELSE 0
<1>1. /\ Bit(1) \in {0, 1} /\ Bit(2) \in {0, 2} /\ Bit(4) \in {0, 4} /\ Bit(8) \in {0, 8}
      /\ Bit(16) \in {0, 16} /\ Bit(32) \in {0, 32} /\ Bit(64) \in {0, 64}
      /\ Bit(128) \in {0, 128}
  BY Zenon
<1>2. EitherByte(m, n) =
        Bit(1) + Bit(2) + Bit(4) + Bit(8) + Bit(16) + Bit(32) + Bit(64) + Bit(128)
  BY Zenon DEF EitherByte
<1> HIDE DEF Bit
<1> QED
  BY <1>1, <1>2, SMT

\* A field of eight bits keeps the bits above it.
LEMMA Set8Keeps ==
  ASSUME NEW w \in Word, NEW v \in Int
  PROVE  Set8(w, v).hi = w.hi /\ Set8(w, v).lo \div 256 = w.lo \div 256
<1> w.lo \in Half
  BY SMT DEF Word
<1> w.lo \in Nat /\ w.lo \in Int
  BY HalfNat, SMT
<1> DEFINE q == w.lo \div 256
           f == EitherByte(w.lo, v)
<1>1. q \in Nat /\ w.lo - (w.lo % 256) = 256 * q
  BY SMTT(30)
<1>2. f \in Nat /\ f < 256
  BY EitherByteType, Zenon
<1>3. Set8(w, v).hi = w.hi /\ Set8(w, v).lo = (w.lo - (w.lo % 256)) + f
  BY SMT DEF Set8
<1> HIDE DEF q, f
<1>4. (256 * q + f) \div 256 = q
  BY <1>1, <1>2, SMTT(30)
<1> QED
  BY <1>1, <1>3, <1>4, SMTT(30) DEF q

\* Whatever the kind and the value, the encoder makes two halves.
LEMMA FieldWord ==
  ASSUME NEW kind, NEW w \in Word, NEW v \in Int
  PROVE  Field(kind, w, v) \in Word
<1>1. w.lo \in Half /\ w.hi \in Half
  BY SMT DEF Word
<1>2. w.lo \in Nat /\ w.hi \in Nat
  BY <1>1, HalfNat, Zenon
<1>3. v % 65536 \in Half /\ (v \div 65536) % 65536 \in Half /\ (v \div 65536) % 16384 \in Half
  BY SMTT(30) DEF Half
<1>4. Set32(w, v) \in Word /\ Set30(w, v) \in Word /\ Set16(w, v) \in Word
  BY <1>1, <1>3, SMT DEF Set32, Set30, Set16, Word
<1>5. Set12(w, v) \in Word
  <2>1. v % 4096 \in Nat /\ v % 4096 < 4096
    BY SMTT(30)
  <2>2. (w.lo - (w.lo % 4096)) + (v % 4096) \in Half
    BY <1>1, <2>1, HalfBelow, SMT
  <2> QED
    BY <1>1, <2>2, SMT DEF Set12, Word
<1>6. Set8(w, v) \in Word
  <2>1. (w.lo - (w.lo % 256)) + EitherByte(w.lo, v) \in Half
    <3>1. w.lo \in Int
      BY <1>2, SMT
    <3>2. EitherByte(w.lo, v) \in Nat /\ EitherByte(w.lo, v) < 256
      BY <3>1, EitherByteType, Zenon
    <3> QED
      BY <1>1, <3>2, HalfBelow, SMT
  <2> QED
    BY <1>1, <2>1, SMT DEF Set8, Word
<1>7. SetBl26(w, v) \in Word
  <2>1. (v % 262144) \div 4 \in Half /\ (v % 67108864) \div 262144 \in Half
    BY SMTT(30) DEF Half
  <2> QED
    BY <2>1, SMT DEF SetBl26, Word
<1>8. SetBl22(w, v) \in Word
  BY SetBl22Fields, Zenon
<1> QED
  BY <1>4, <1>5, <1>6, <1>7, <1>8, Zenon DEF Field

(***************************************************************************)
(* The inductive invariant.  A word is relocated at most once, so it is    *)
(* the initial one or what the encoder made of the initial one for a       *)
(* distance that was checked.                                              *)
(***************************************************************************)
Made(d) == /\ d.kind \in Kinds /\ d.place \in Places
           /\ d.was \in Word /\ d.target \in Int
           /\ Reaches(d.kind, d.target - d.place)
           /\ mem[d.place] = Field(d.kind, d.was, Value(d.kind, d.place, d.target))
IInv == /\ mem = [p \in Places |-> mem[p]]
        /\ \A p \in Places : (\A d \in done : d.place # p) => mem[p] \in Word
        /\ \A d \in done : Made(d)

\* What the decoders find in a word is a number.
LEMMA AddendInt ==
  ASSUME NEW kind, NEW w \in Word
  PROVE  Addend(kind, w) \in Int
<1>1. w.lo \in Half /\ w.hi \in Half
  BY SMT DEF Word
<1>2. w.lo \in Nat /\ w.hi \in Nat
  BY <1>1, HalfNat, Zenon
<1>3. Get32(w) \in Int /\ Get30(w) \in Int
  BY <1>2, SMT DEF Get32, Get30, SignExtend
<1>4. Get16(w) \in Int /\ Get12(w) \in Int /\ Get8(w) \in Int
  BY <1>2, SMT DEF Get16, Get12, Get8
<1>5. GetBl26(w) \in Int /\ GetBl22(w) \in Int
  BY <1>2, SMT DEF GetBl26, GetBl22, SignExtend
<1> QED
  BY <1>3, <1>4, <1>5, SMT DEF Addend

\* Every word is untouched at first.
LEMMA InitInv == Init => IInv
  BY WordsAssumption, Zenon DEF Init, IInv, Word

\* A relocation makes of a word what the encoder makes of it.
LEMMA NextInv == IInv /\ [Next]_vars => IInv'
<1> SUFFICES ASSUME IInv, [Next]_vars PROVE IInv'
  OBVIOUS
<1>1. ASSUME NEW kind \in Kinds, NEW p \in Places, NEW s \in Addresses, Relocate(kind, p, s)
      PROVE  IInv'
  <2>w. PICK was : was = mem[p]
    OBVIOUS
  <2> DEFINE target == (IF kind = "base_prel" THEN Base ELSE s) + Addend(kind, was)
             new == [kind |-> kind, place |-> p, target |-> target, was |-> was]
  <2>1. was \in Word
    BY <1>1, <2>w, Zenon DEF Relocate, IInv
  <2>2. target \in Int
    <3>1. s \in Nat /\ Base \in Nat
      BY AddressesAssumption, Zenon
    <3>2. Addend(kind, was) \in Int
      BY <2>1, AddendInt, Zenon
    <3> QED
      BY <3>1, <3>2, SMT
  <2> HIDE DEF target
  <2>3. CASE /\ Reaches(kind, target - p)
             /\ mem' = [mem EXCEPT ![p] = Field(kind, was, Value(kind, p, target))]
             /\ done' = done \union {new}
    <3>1. mem' = [q \in Places |-> mem'[q]]
      BY <2>3, Zenon DEF IInv
    <3>2. \A q \in Places : q # p => mem'[q] = mem[q]
      BY <2>3, Zenon DEF IInv
    <3>3. mem'[p] = Field(kind, was, Value(kind, p, target))
      BY <2>3, Zenon DEF IInv
    <3>4. ASSUME NEW q \in Places, \A d \in done' : d.place # q
          PROVE  mem'[q] \in Word
      <4>1. q # p
        <5>1. new \in done' /\ new.place = p
          BY <2>3, Zenon
        <5> HIDE DEF new
        <5> QED
          BY <3>4, <5>1, Zenon
      <4>2. \A d \in done : d.place # q
        BY <2>3, <3>4, Zenon
      <4> QED
        BY <3>2, <4>1, <4>2, Zenon DEF IInv
    <3>5. ASSUME NEW d \in done
          PROVE  Made(d)'
      <4>1. d.place # p /\ Made(d)
        BY <1>1, Zenon DEF Relocate, IInv
      <4> QED
        BY <3>2, <4>1, Zenon DEF Made
    <3>6. Made(new)'
      <4>1. new.kind = kind /\ new.place = p /\ new.target = target /\ new.was = was
        OBVIOUS
      <4> HIDE DEF new
      <4> QED
        BY <1>1, <2>1, <2>2, <2>3, <3>3, <4>1, Zenon DEF Made
    <3> HIDE DEF new
    <3>7. \A d \in done' : Made(d)'
      BY <2>3, <3>5, <3>6, Zenon
    <3> QED
      BY <3>1, <3>4, <3>7, Zenon DEF IInv
  <2>4. CASE UNCHANGED <<mem, done>>
    BY <2>4, Zenon DEF IInv, Made
  <2> QED
    BY <1>1, <2>w, <2>3, <2>4, Zenon DEF Relocate, target
<1>2. CASE UNCHANGED vars
  BY <1>2, Zenon DEF vars, IInv, Made
<1> QED
  BY <1>1, <1>2, Zenon DEF Next

\* A word is untouched, or what uld_resolve_rel() made of the word it found.
THEOREM Invariance == Spec => []IInv
<1> QED
  BY InitInv, NextInv, PTL DEF Spec

-----------------------------------------------------------------------------
\* Calls land, as the words are what the encoder made.
LEMMA CallsLandInv == IInv => CallsLand
<1> SUFFICES ASSUME IInv, NEW d \in done
             PROVE  /\ d.kind = "thm_call" =>
                         d.place + GetBl22(mem[d.place]) = d.target - ((d.target - d.place) % 2)
                    /\ d.kind = "call" =>
                         d.place + GetBl26(mem[d.place]) = d.target - ((d.target - d.place) % 4)
  BY SMT DEF CallsLand
<1> DEFINE v == d.target - d.place
<1>1. Made(d)
  BY Zenon DEF IInv
<1>2. d.place \in Nat /\ d.target \in Int /\ d.was \in Word /\ v \in Int
  <2>1. d.place \in Nat /\ d.target \in Int /\ d.was \in Word
    BY <1>1, PlacesAssumption, Zenon DEF Made
  <2> QED
    BY <2>1, SMT
<1> HIDE DEF v
<1>3. CASE d.kind = "thm_call"
  <2>1. Reaches("thm_call", v) /\ mem[d.place] = SetBl22(d.was, v)
    BY <1>1, <1>3, SMT DEF Made, Field, Whole, Offsets, Value, Origin, Absolute, Based, TopHalf, v
  <2>2. 0 - 4194304 <= v /\ v < 4194304
    BY <1>2, <2>1, SMT DEF Reaches, Within
  <2>3. GetBl22(mem[d.place]) = v - (v % 2)
    BY <1>2, <2>1, <2>2, GetSetBl22, SMT
  <2> QED
    BY <1>2, <1>3, <2>3, SMT DEF v
<1>4. CASE d.kind = "call"
  <2>1. Reaches("call", v) /\ mem[d.place] = SetBl26(d.was, v)
    BY <1>1, <1>4, SMT DEF Made, Field, Whole, Offsets, Value, Origin, Absolute, Based, TopHalf, v
  <2>2. 0 - 33554432 <= v /\ v < 33554432
    BY <1>2, <2>1, SMT DEF Reaches, Within
  <2>3. GetBl26(mem[d.place]) = v - (v % 4)
    BY <1>2, <2>1, <2>2, GetSetBl26, SMT
  <2> QED
    BY <1>2, <1>4, <2>3, SMT DEF v
<1> QED
  BY <1>3, <1>4, SMT

\* Calls land: what the reach check accepts, the encoder can hold
\* (b_can_reach() before b_armt_setbl22() and b_arm_setbl26()).
THEOREM Landing == Spec => []CallsLand
<1> QED
  BY Invariance, CallsLandInv, PTL

\* What an encoder leaves of a word is what it found there.
LEMMA RestKeptInv == IInv => RestKept
<1> SUFFICES ASSUME IInv, NEW d \in done
             PROVE  /\ d.kind = "thm_call" => /\ mem[d.place].lo \div 2048 = d.was.lo \div 2048
                                              /\ mem[d.place].hi \div 2048 = d.was.hi \div 2048
                    /\ d.kind \in HalfKinds => mem[d.place].hi = d.was.hi
                    /\ d.kind = "abs12" => mem[d.place].lo \div 4096 = d.was.lo \div 4096
                    /\ d.kind = "abs8" => mem[d.place].lo \div 256 = d.was.lo \div 256
  BY SMT DEF RestKept
<1>1. PICK v : mem[d.place] = Field(d.kind, d.was, v) /\ v = Value(d.kind, d.place, d.target)
  BY Zenon DEF IInv, Made
<1>2. d.was \in Word /\ d.place \in Nat /\ d.target \in Int
  BY PlacesAssumption, Zenon DEF IInv, Made
<1>3. v \in Int
  BY <1>1, <1>2, AddressesAssumption, SMT DEF Value, Origin
<1>4. CASE d.kind = "thm_call"
  <2>1. mem[d.place] = SetBl22(d.was, v)
    BY <1>1, <1>4, SMT DEF Field, Whole, Offsets
  <2>2. Opcode(mem[d.place].lo) = Opcode(d.was.lo) /\ Opcode(mem[d.place].hi) = Opcode(d.was.hi)
    BY <1>2, <1>3, <2>1, SetBl22Fields, Zenon
  <2> QED
    BY <1>4, <2>2, SMT DEF Opcode, HalfKinds, TopHalf
<1>5. CASE d.kind = "abs12"
  <2>1. mem[d.place] = Set12(d.was, v)
    BY <1>1, <1>5, SMT DEF Field, Whole, Offsets
  <2> QED
    BY <1>2, <1>3, <1>5, <2>1, Set12Keeps, SMT
<1>6. CASE d.kind = "abs8"
  <2>1. mem[d.place] = Set8(d.was, v)
    BY <1>1, <1>6, SMT DEF Field, Whole, Offsets
  <2> QED
    BY <1>2, <1>3, <1>6, <2>1, Set8Keeps, SMT
<1>7. CASE d.kind \in HalfKinds \ {"abs12", "abs8"}
  <2>1. mem[d.place] = Set16(d.was, v)
    BY <1>1, <1>7, SMT DEF Field, Whole, Offsets, HalfKinds, TopHalf
  <2>2. mem[d.place].hi = d.was.hi
    BY <2>1, SMT DEF Set16
  <2> QED
    BY <1>7, <2>2, SMT DEF HalfKinds, TopHalf
<1> QED
  BY <1>4, <1>5, <1>6, <1>7, SMT

\* The opcode of a Thumb call is kept, and so are the half that b_arm_set16(),
\* b_arm_set12() and b_arm_set8() do not write and the upper bits of the one that the
\* latter two write; b_armt_setbl22() is the call's.
THEOREM Keeping == Spec => []RestKept
<1> QED
  BY Invariance, RestKeptInv, PTL

-----------------------------------------------------------------------------
\* What is subtracted and halved is a number.
LEMMA ValueInt ==
  ASSUME NEW kind, NEW p \in Places, NEW target \in Int
  PROVE  Value(kind, p, target) \in Int
<1>1. p \in Nat /\ Base \in Nat
  BY PlacesAssumption, AddressesAssumption, Zenon
<1>2. Origin(kind, p) \in Nat
  BY <1>1, Zenon DEF Origin
<1>3. target - Origin(kind, p) \in Int /\ (target - Origin(kind, p)) \div 65536 \in Int
  BY <1>2, SMTT(30)
<1> QED
  BY <1>3, SMT DEF Value

\* Every word of the memory is two halves, relocated or not.
LEMMA WordsInv ==
  ASSUME IInv, NEW p \in Places
  PROVE  mem[p] \in Word
<1>1. CASE \A d \in done : d.place # p
  BY <1>1, Zenon DEF IInv
<1>2. ASSUME NEW d \in done, d.place = p
      PROVE  mem[p] \in Word
  <2>1. Made(d)
    BY Zenon DEF IInv
  <2>2. Value(d.kind, d.place, d.target) \in Int /\ d.was \in Word
    BY <2>1, ValueInt, Zenon DEF Made
  <2>3. Field(d.kind, d.was, Value(d.kind, d.place, d.target)) \in Word
    BY <2>2, FieldWord, Zenon
  <2> QED
    BY <1>2, <2>1, <2>3, Zenon DEF Made
<1> QED
  BY <1>1, <1>2, Zenon

\* The history of relocations is made of records, and failed of either truth value.
Records == [kind: Kinds, place: Places, target: Int, was: Word]
Recorded == failed \in BOOLEAN /\ done \subseteq Records

\* Nothing is relocated at first.
LEMMA RecordedInit == Init => Recorded
  BY Zenon DEF Init, Recorded

\* A relocation adds a record of itself.
LEMMA RecordedNext == Recorded /\ IInv /\ [Next]_vars => Recorded'
<1> SUFFICES ASSUME Recorded, IInv, [Next]_vars PROVE Recorded'
  OBVIOUS
<1>1. ASSUME NEW kind \in Kinds, NEW p \in Places, NEW s \in Addresses, Relocate(kind, p, s)
      PROVE  Recorded'
  <2>w. PICK was : was = mem[p]
    OBVIOUS
  <2> DEFINE target == (IF kind = "base_prel" THEN Base ELSE s) + Addend(kind, was)
             new == [kind |-> kind, place |-> p, target |-> target, was |-> was]
  <2>1. was \in Word
    BY <2>w, WordsInv, Zenon
  <2>2. target \in Int
    <3>1. s \in Nat /\ Base \in Nat
      BY AddressesAssumption, Zenon
    <3>2. Addend(kind, was) \in Int
      BY <2>1, AddendInt, Zenon
    <3> QED
      BY <3>1, <3>2, SMT
  <2> HIDE DEF target
  <2>3. new \in Records
    BY <2>1, <2>2, Zenon DEF Records
  <2>4. \/ done' = done \union {new} /\ UNCHANGED failed
        \/ done' = done /\ failed' = TRUE
    BY <1>1, <2>w, Zenon DEF Relocate, target
  <2> HIDE DEF new
  <2> QED
    BY <2>3, <2>4, Zenon DEF Recorded
<1>2. CASE UNCHANGED vars
  BY <1>2, Zenon DEF vars, Recorded
<1> QED
  BY <1>1, <1>2, Zenon DEF Next

\* The invariants give the types.
LEMMA TypeOKInv == IInv /\ Recorded => TypeOK
<1> SUFFICES ASSUME IInv, Recorded PROVE TypeOK
  OBVIOUS
<1>1. mem \in [Places -> Word]
  BY WordsInv, Zenon DEF IInv
<1> QED
  BY <1>1, Zenon DEF TypeOK, Recorded, Records, Word

\* A half stays a half whatever value is written to it (the encoders of bits/arm.h
\* write through pointers to std::uint16_t, and not one value that goes in is masked
\* for it by uld_resolve_rel()).
THEOREM TypeCorrect == Spec => []TypeOK
<1> QED
  BY Invariance, RecordedInit, RecordedNext, TypeOKInv, PTL DEF Spec
=============================================================================
