------------------------------ MODULE ArmReloc ------------------------------
(***************************************************************************)
(* Relocating words of code and data: the field encoders of bits/arm.h and *)
(* the cases of elf32::factory::uld_resolve_rel() that use them.  A word   *)
(* is its two little-endian halves, r[0] and r[1] in the code.             *)
(***************************************************************************)
EXTENDS Integers

CONSTANTS Places,     \* addresses of the words that get relocated
          Addresses,  \* what uld_get_virtual_address() may answer
          Base,       \* uld_get_base_address(): the base of the segment
          Words       \* what an object may have at the places

Half == {h \in Nat : h < 65536}
ASSUME PlacesAssumption == Places \subseteq Nat
ASSUME AddressesAssumption == Addresses \subseteq Nat /\ Base \in Nat
ASSUME WordsAssumption == Words \subseteq [lo: Half, hi: Half]

\* The kinds of relocation that are implemented: by what is subtracted from S + A,
Absolute == {"abs32", "abs16", "abs12", "abs8", "movw_abs", "movt_abs", "got_abs"}
Relative == {"rel32", "prel31", "call", "movw_prel", "movt_prel", "thm_call",
             "base_prel", "got_prel"}
Based == {"sbrel32", "movw_brel", "movt_brel", "got_brel"}
Kinds == Absolute \union Relative \union Based
\* by the field they set: the whole word, the upper half of the value.
Offsets == {"base_prel", "got_abs", "got_prel", "got_brel"}
Whole == {"abs32", "rel32", "sbrel32"} \union Offsets
TopHalf == {"movt_abs", "movt_prel", "movt_brel"}

VARIABLES mem,    \* the words, by their place
          failed, \* uld_resolve_rel() gave up
          done    \* history: what was relocated: kind, place, S + A, the word before
vars == <<mem, failed, done>>

-----------------------------------------------------------------------------
(***************************************************************************)
(* bits/arm.h.  Sign extension is by the weight of the field's top bit.    *)
(***************************************************************************)
SignExtend(v, top) == IF v < top THEN v ELSE v - 2 * top

Get32(w) == w.lo + 65536 * SignExtend(w.hi, 32768)
Set32(w, v) == [lo |-> v % 65536, hi |-> (v \div 65536) % 65536]

Get30(w) == SignExtend(w.lo + 65536 * (w.hi % 16384), 536870912)
Set30(w, v) == [lo |-> v % 65536, hi |-> (v \div 65536) % 16384]

Get16(w) == w.lo
Set16Wide(w, v) == [lo |-> v, hi |-> w.hi]  \* mutant: the value is not masked
Set16(w, v) == [lo |-> v % 65536, hi |-> w.hi]

Get12(w) == w.lo % 4096
Set12(w, v) == [lo |-> (w.lo - (w.lo % 4096)) + (v % 4096), hi |-> w.hi]

\* The bits of the value are set over those that are there: a byte of either's bits.
EitherByte(m, n) ==
  LET Bit(weight) == IF 1 \in {(m \div weight) % 2, (n \div weight) % 2} THEN weight ELSE 0
  IN  Bit(1) + Bit(2) + Bit(4) + Bit(8) + Bit(16) + Bit(32) + Bit(64) + Bit(128)
Get8(w) == w.lo % 256
Set8(w, v) == [lo |-> (w.lo - (w.lo % 256)) + EitherByte(w.lo, v), hi |-> w.hi]

\* An Arm branch: the whole of both halves is set.
GetBl26(w) == SignExtend(4 * (w.lo + 65536 * (w.hi % 256)), 33554432)
SetBl26(w, v) == [lo |-> (v % 262144) \div 4, hi |-> (v % 67108864) \div 262144]

\* A Thumb call: eleven bits in each half.
GetBl22(w) == SignExtend(2 * (w.hi % 2048) + 4096 * (w.lo % 2048), 4194304)
SetBl22Over(w, v) ==  \* mutant: the mask is a bit too wide
  [lo |-> (w.lo - (w.lo % 2048)) + ((v % 8388608) \div 4096),
   hi |-> (w.hi - (w.hi % 4096)) + ((v % 4096) \div 2)]
SetBl22(w, v) ==
  [lo |-> (w.lo - (w.lo % 2048)) + ((v % 8388608) \div 4096),
   hi |-> (w.hi - (w.hi % 2048)) + ((v % 4096) \div 2)]

-----------------------------------------------------------------------------
Init == mem \in [Places -> Words] /\ failed = FALSE /\ done = {}

Addend(kind, w) ==
  CASE kind \in Whole -> Get32(w)
    [] kind = "prel31" -> Get30(w)
    [] kind = "abs12" -> Get12(w)
    [] kind = "abs8" -> Get8(w)
    [] kind = "call" -> GetBl26(w)
    [] kind = "thm_call" -> GetBl22(w)
    [] OTHER -> Get16(w)

Field(kind, w, v) ==
  CASE kind \in Whole -> Set32(w, v)
    [] kind = "prel31" -> Set30(w, v)
    [] kind = "abs12" -> Set12(w, v)
    [] kind = "abs8" -> Set8(w, v)
    [] kind = "call" -> SetBl26(w, v)
    [] kind = "thm_call" -> SetBl22(w, v)
    [] OTHER -> Set16(w, v)

\* b_can_reach(): the distance from the place, absolute kinds included.
ReachBytes(kind, distance) ==  \* mutant: the bits of the field taken to count words
  kind \in {"call", "thm_call"} =>
    distance \in IF kind = "call" THEN -67108864..67108863 ELSE -8388608..8388607
Within(distance, half) == -half <= distance /\ distance < half
Reaches(kind, distance) ==
  CASE kind = "abs16" -> Within(distance, 32768)
    [] kind = "abs12" -> Within(distance, 2048)
    [] kind = "abs8" -> Within(distance, 128)
    [] kind = "call" -> Within(distance, 33554432)
    [] kind = "thm_call" -> Within(distance, 2097152)
    [] OTHER -> TRUE

Origin(kind, p) == IF kind \in Absolute THEN 0 ELSE IF kind \in Based THEN Base ELSE p
Value(kind, p, target) ==
  IF kind \in TopHalf THEN (target - Origin(kind, p)) \div 65536
  ELSE target - Origin(kind, p)

\* One word, relocated against a symbol at address s: for the offsets, against
\* its entry in the table or the base.
Relocate(kind, p, s) ==
  LET target == (IF kind = "base_prel" THEN Base ELSE s) + Addend(kind, mem[p]) IN
  /\ ~failed
  /\ \A d \in done : d.place # p
  /\ \/ /\ Reaches(kind, target - p)
        /\ mem' = [mem EXCEPT ![p] = Field(kind, mem[p], Value(kind, p, target))]
        /\ done' = done \union {[kind |-> kind, place |-> p, target |-> target, was |-> mem[p]]}
        /\ UNCHANGED failed
     \/ /\ ~Reaches(kind, target - p)
        /\ failed' = TRUE
        /\ UNCHANGED <<mem, done>>

Next == \E kind \in Kinds, p \in Places, s \in Addresses : Relocate(kind, p, s)

Spec == Init /\ [][Next]_vars

-----------------------------------------------------------------------------
\* The variables have their types; a half stays a half whatever is written to it.
TypeOK == /\ mem \in [Places -> [lo: Half, hi: Half]]
          /\ failed \in BOOLEAN
          /\ done \subseteq [kind: Kinds, place: Places, target: Int, was: [lo: Half, hi: Half]]

\* A relocated call that was accepted goes where its symbol is: the reach check
\* lets no distance through that the field cannot hold.  The field drops one bit
\* (Thumb) or two (Arm) of the distance.
CallsLand ==
  \A d \in done :
    /\ d.kind = "thm_call" =>
         d.place + GetBl22(mem[d.place]) = d.target - ((d.target - d.place) % 2)
    /\ d.kind = "call" =>
         d.place + GetBl26(mem[d.place]) = d.target - ((d.target - d.place) % 4)

\* What a narrow field leaves of its word stays: of a Thumb call the five bits of
\* opcode in each half, of a kind that sets one half the other half, and within that
\* half what is above a field of twelve or eight bits.  It is not said of Arm calls,
\* prel31 and the half that a MOVW or MOVT sets, which the code overwrites whole.
HalfKinds == {"abs16", "abs12", "abs8", "movw_abs", "movw_prel", "movw_brel"} \union TopHalf
RestKept ==
  \A d \in done :
    /\ d.kind = "thm_call" => /\ mem[d.place].lo \div 2048 = d.was.lo \div 2048
                              /\ mem[d.place].hi \div 2048 = d.was.hi \div 2048
    /\ d.kind \in HalfKinds => mem[d.place].hi = d.was.hi
    /\ d.kind = "abs12" => mem[d.place].lo \div 4096 = d.was.lo \div 4096
    /\ d.kind = "abs8" => mem[d.place].lo \div 256 = d.was.lo \div 256
=============================================================================
