----------------------------- MODULE SectionLoad -----------------------------
(***************************************************************************)
(* Where the bytes of an object's sections go: the scan of prefetch(),     *)
(* which maps every section to a segment of the program table and loads    *)
(* the data sections whole and at once, and uld_get_section_data(), by     *)
(* which the symbols of the other sections have their part of the section  *)
(* loaded in the order of the symbol table.  A segment is seen through its *)
(* table: a sequence of bytes by table offset, cut where a new page begins *)
(* (SegmentPool).                                                          *)
(***************************************************************************)
EXTENDS Integers, Sequences, FiniteSets

CONSTANTS Sections,   \* Sections[s]: type, flags and size of section s
          Bodies,     \* what the symbols stand for: type, section, value and size
          Unit,       \* 2^Align of the segments' pools: the target's code and data align
          GotSize,    \* two machine words
          Reads,      \* what reading the file may yield: a subset of BOOLEAN
          MaxLoads,   \* bound on the number of objects loaded
          MaxCuts     \* bound on the pages begun behind the first, per segment

Types == {"progbits", "nobits", "other"}
Flags == {"alloc", "write", "execute"}
SymbolTypes == {"notype", "object", "func"}

ASSUME SectionsAssumption ==
  Sections \in Seq([type: Types, flags: SUBSET Flags, size: Nat])
\* A symbol without a type has its bytes loaded only if it has a size.
ASSUME BodiesAssumption ==
  /\ Bodies \subseteq [type: SymbolTypes, sec: 1..Len(Sections), value: Nat, size: Nat]
  /\ \A b \in Bodies : b.type = "notype" => b.size > 0
ASSUME BoundsAssumption == /\ Unit \in Nat \ {0} /\ GotSize \in Nat
                           /\ Reads \subseteq BOOLEAN
                           /\ MaxLoads \in Nat /\ MaxCuts \in Nat

VARIABLES bytes,    \* bytes[g]: the bytes of segment g, by table offset
          cuts,     \* cuts[g]: the table offsets where a page of g begins
          phase,    \* "idle", "prefetch" or "import"
          scan,     \* the section prefetch() is at
          shdr,     \* m_shdr_map: base and last offset of each section
          loads,    \* how many loads were begun
          placed    \* history: the symbols that were given an address

vars == <<bytes, cuts, phase, scan, shdr, loads, placed>>

\* What a byte of a segment is: a byte of a section, or nothing in particular.
SectionByte(sec, off) == <<loads, sec, off>>
Pad == <<0, 0, 0>>

TableOffset(g) == Len(bytes[g])
RoundUp(n) == ((n + Unit - 1) \div Unit) * Unit

\* raw_get(): n bytes at the table's end, rounded up, maybe on a page of their own.
Reserve(g, content) ==
  /\ bytes' = [bytes EXCEPT ![g] =
                 @ \o content \o [i \in 1..(RoundUp(Len(content)) - Len(content)) |-> Pad]]
  /\ \/ UNCHANGED cuts
     \/ /\ Cardinality(cuts[g]) < MaxCuts
        /\ TableOffset(g) > 0
        /\ cuts' = [cuts EXCEPT ![g] = @ \union {TableOffset(g)}]

\* The image makes these segments once and for all ...
Segments == {"text", "data", "rodata", "bss"}
NoSegment == "none"

\* ... and a section is mapped to one of them by its type and flags.
Mapping(i) ==
  LET s == Sections[i] IN
  CASE s.type = "progbits" /\ {"alloc", "execute"} \subseteq s.flags -> "text"
    [] s.type = "progbits" /\ s.flags \intersect Flags = {"alloc", "write"} -> "data"
    [] s.type = "progbits" /\ s.flags \intersect Flags = {"alloc"} -> "rodata"
    [] s.type = "nobits" /\ "alloc" \in s.flags -> "bss"
    [] OTHER -> NoSegment

\* What prefetch() loads itself; the rest is loaded symbol by symbol.
IsData(i) == Mapping(i) \in {"data", "rodata"} /\ Sections[i].size > 0

Unmapped == [base |-> 0, last |-> 0, support |-> NoSegment]

\* Two words of the read-only segment stand for a global offset table.
Init == /\ bytes = [g \in Segments |-> IF g = "rodata" THEN [k \in 1..GotSize |-> Pad] ELSE <<>>]
        /\ cuts = [g \in Segments |-> {}]
        /\ phase = "idle"
        /\ scan = 1
        /\ shdr = [i \in 1..Len(Sections) |-> Unmapped]
        /\ loads = 0
        /\ placed = {}

\* A load begins with the scan of the section table.
Begin ==
  /\ phase = "idle"
  /\ loads < MaxLoads
  /\ phase' = "prefetch"
  /\ scan' = 1
  /\ loads' = loads + 1
  /\ shdr' = [i \in 1..Len(Sections) |-> Unmapped]
  /\ UNCHANGED <<bytes, cuts, placed>>

\* The load ends, here or in a later pass, or fails: the factory's map is gone.
End ==
  /\ phase' = "idle"
  /\ UNCHANGED <<scan, shdr, loads>>

At(g, base, last) == [base |-> base, last |-> last, support |-> g]
HereLast(g) == At(g, TableOffset(g) - 1, TableOffset(g) - 1)  \* mutant
Here(g) == At(g, TableOffset(g), TableOffset(g))

\* prefetch() remembers the end of the segment as the section's base ...
Defer ==
  /\ phase = "prefetch"
  /\ scan <= Len(Sections)
  /\ Mapping(scan) # NoSegment /\ ~IsData(scan)
  /\ shdr' = [shdr EXCEPT ![scan] = Here(Mapping(scan))]
  /\ scan' = scan + 1
  /\ UNCHANGED <<bytes, cuts, phase, loads, placed>>

\* ... passes over what the program does not need, and what it cannot read the
\* header or the name of ...
PassOver ==
  /\ phase = "prefetch"
  /\ scan <= Len(Sections)
  /\ Mapping(scan) = NoSegment \/ FALSE \in Reads
  /\ scan' = scan + 1
  /\ UNCHANGED <<bytes, cuts, phase, shdr, loads, placed>>

\* ... and loads a section of data there and then.
Whole(i) == [k \in 1..Sections[i].size |-> SectionByte(i, k - 1)]

LoadedAtFront(g) == At(g, 0, Len(bytes'[g]))  \* mutant: as if it were the first
Loaded(g) == At(g, TableOffset(g), Len(bytes'[g]))

LoadData ==
  /\ phase = "prefetch"
  /\ scan <= Len(Sections)
  /\ IsData(scan)
  /\ LET g == Mapping(scan) IN
     \/ /\ TRUE \in Reads
        /\ Reserve(g, Whole(scan))
        /\ shdr' = [shdr EXCEPT ![scan] = Loaded(g)]
        /\ scan' = scan + 1
        /\ UNCHANGED <<phase, loads>>
     \/ /\ FALSE \in Reads
        /\ Reserve(g, [k \in 1..Sections[scan].size |-> Pad])
        /\ End
  /\ UNCHANGED placed

Prefetched ==
  /\ phase = "prefetch"
  /\ scan > Len(Sections)
  /\ phase' = "import"
  /\ UNCHANGED <<bytes, cuts, scan, shdr, loads, placed>>

-----------------------------------------------------------------------------
(***************************************************************************)
(* uld_get_section_data() for a symbol, in the order of the symbol table.  *)
(***************************************************************************)
Even(n) == n - (n % 2)  \* get_vle_mask()
\* The byte of its section that a symbol's value means: bit 0 of the value of a
\* function tells Thumb from Arm.
Start(b) == IF b.type = "func" THEN Even(b.value) ELSE b.value
\* The bytes that are asked for: the mask is applied to data as it is to functions.
Lo(b) == IF b.type = "notype" THEN b.value ELSE Even(b.value)
Hi(b) == Lo(b) + b.size

Segment(b) == shdr[b.sec].support
First(b) == shdr[b.sec].base + Lo(b)  \* the table offset of the first byte asked for
After(b) == shdr[b.sec].base + Hi(b)
Last(b) == shdr[b.sec].last

Symbol(b) == [load |-> loads, sec |-> b.sec, start |-> Start(b), lo |-> Lo(b), hi |-> Hi(b),
              segment |-> Segment(b), at |-> First(b)]
Fresh(b) ==
  /\ Segment(b) # NoSegment
  /\ \A p \in placed :
       p.load = loads => <<p.sec, p.start, p.lo, p.hi>> # <<b.sec, Start(b), Lo(b), Hi(b)>>

\* The symbol gets the address get_table_ptr() finds for its first byte, in a table
\* of that length; at the table's end there is none, and the load is over.
Locate(b, length) ==
  \/ First(b) < length /\ placed' = placed \union {Symbol(b)} /\ UNCHANGED phase
  \/ First(b) >= length /\ phase' = "idle" /\ UNCHANGED placed

\* Its section has no segment: e_fault.
RefuseUnsupported(b) ==
  /\ phase = "import"
  /\ Segment(b) = NoSegment
  /\ End
  /\ UNCHANGED <<bytes, cuts, placed>>

\* What the symbol asks for is loaded: nothing to add.
PlaceHeld(b) ==
  /\ phase = "import" /\ Fresh(b)
  /\ After(b) <= Last(b)
  /\ Locate(b, TableOffset(Segment(b)))
  /\ UNCHANGED <<bytes, cuts, scan, shdr, loads>>

\* It begins in what is loaded and ends behind: e_access.
RefuseOverlap(b) ==
  /\ phase = "import" /\ Fresh(b)
  /\ After(b) > Last(b)
  /\ First(b) < Last(b)
  /\ End
  /\ UNCHANGED <<bytes, cuts, placed>>

\* The rest of the section up to the symbol's end is appended to the segment.
ChunkOwn(b) ==  \* mutant: the symbol's own bytes, the gap in front forgotten
  [k \in 1..(After(b) - Last(b)) |-> SectionByte(b.sec, Lo(b) + k - 1)]
Chunk(b) ==
  [k \in 1..(After(b) - Last(b)) |-> SectionByte(b.sec, Last(b) - shdr[b.sec].base + k - 1)]
AppendsOver(b) == phase = "import" /\ Fresh(b) /\ After(b) > Last(b)  \* mutant: no e_access
Appends(b) == phase = "import" /\ Fresh(b) /\ After(b) > Last(b) /\ First(b) >= Last(b)

PlaceAppended(b) ==
  /\ Appends(b)
  /\ TRUE \in Reads \/ Sections[b.sec].type = "nobits"
  /\ Reserve(Segment(b), Chunk(b))
  /\ shdr' = [shdr EXCEPT ![b.sec].last = Len(bytes'[Segment(b)])]
  /\ Locate(b, Len(bytes'[Segment(b)]))
  /\ UNCHANGED <<scan, loads>>

\* The read fails after the reservation: the bytes stay, the section does not
\* know of them, and the load is over.
AppendUnread(b) ==
  /\ Appends(b)
  /\ FALSE \in Reads /\ Sections[b.sec].type # "nobits"
  /\ Reserve(Segment(b), [k \in 1..(After(b) - Last(b)) |-> Pad])
  /\ End
  /\ UNCHANGED placed

Imported ==
  /\ phase = "import"
  /\ End
  /\ UNCHANGED <<bytes, cuts, placed>>

Place == \E b \in Bodies : \/ RefuseUnsupported(b) \/ PlaceHeld(b) \/ RefuseOverlap(b)
                           \/ PlaceAppended(b) \/ AppendUnread(b)

Next == Begin \/ Defer \/ PassOver \/ LoadData \/ Prefetched \/ Place \/ Imported

Spec == Init /\ [][Next]_vars

-----------------------------------------------------------------------------
\* The variables have their types.
TypeOK ==
  /\ \A g \in Segments : bytes[g] \in Seq((0..loads) \X (0..Len(Sections)) \X Nat)
  /\ cuts \in [Segments -> SUBSET Nat]
  /\ phase \in {"idle", "prefetch", "import"}
  /\ scan \in 1..(Len(Sections) + 1)
  /\ \A i \in 1..Len(Sections) : /\ shdr[i].base \in Nat /\ shdr[i].last \in Nat
                              /\ shdr[i].support \in Segments \union {NoSegment}
  /\ loads \in 0..MaxLoads
  /\ \A p \in placed : p.load \in 1..loads /\ p.segment \in Segments /\ p.at \in Nat

\* The address a symbol was given holds the bytes of the section that the symbol
\* stands for, and goes on holding them whatever is loaded, or fails to, later.  It
\* is not so for data at an odd offset, which the mask moves to the byte before it.
Displaced(p) == p.lo # p.start
Holds(p, k) == /\ p.at + k < Len(bytes[p.segment])
               /\ bytes[p.segment][p.at + k + 1] = <<p.load, p.sec, p.start + k>>
SymbolsHold == \A p \in placed : ~Displaced(p) => \A k \in 0..(p.hi - p.lo - 1) : Holds(p, k)

\* The bytes a symbol is given are not cut by the end of a page: its address and size are
\* all that the program has to reach them.
SymbolsUncut ==
  \A p \in placed : \A c \in cuts[p.segment] : ~(p.at < c /\ c < p.at + p.hi - p.lo)

\* A section that prefetch() loads is in one piece, so an address made of its base
\* and an addend is right.
DataUncut ==
  phase = "import" =>
    \A i \in 1..Len(Sections) :
      IsData(i) /\ shdr[i].support # NoSegment =>
        \A c \in cuts[shdr[i].support] : ~(shdr[i].base < c /\ c < shdr[i].last)
=============================================================================
