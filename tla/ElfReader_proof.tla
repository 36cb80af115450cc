--------------------------- MODULE ElfReader_proof ---------------------------
(***************************************************************************)
(* Proofs about ElfReader, for every well-formed object, every size of the *)
(* cache's buffer, every read failing or going amiss.                      *)
(***************************************************************************)
EXTENDS ElfReader, TLAPS

\* What is proved of the string cache.
Cache == INSTANCE DataCache_proof
           WITH Positions <- Nat, Counts <- {1}, ReadLimit <- FileSize

-----------------------------------------------------------------------------
(***************************************************************************)
(* What the steps of the string cache come to.                             *)
(***************************************************************************)
Place == read_offset + data_index
CacheSound == Cache!IInv

\* The window, the buffer and the locks are as they were.
CacheStays == UNCHANGED <<read_offset, data_index, read_size, data_size, buffer, locks>>

\* The cache's assumptions are those of the reader.
LEMMA CacheAssumed == Cache!CacheAssumption /\ Cache!ByByte
<1>1. FileSize \in Nat /\ FileSize <= FileSize
  BY SizesAssumption
<1>2. Nat \subseteq Nat /\ {1} \subseteq Nat \ {0}
  OBVIOUS
<1>3. Cache!CacheAssumption
  BY <1>2, SizesAssumption, Zenon DEF Cache!CacheAssumption
<1> QED
  BY <1>1, <1>3 DEF Cache!ByByte

\* The cache of a reader that was just made.
LEMMA CacheInit == Str!Init => CacheSound
<1> SUFFICES ASSUME Str!Init PROVE CacheSound
  OBVIOUS
<1>1. Cache!Init
  BY DEF Str!Init, Cache!Init, Str!Nowhere, Cache!Nowhere
<1> QED
  BY <1>1, CacheAssumed, Cache!InitInv DEF CacheSound

\* What the cache's state consists of.
LEMMA CacheTypes ==
  ASSUME CacheSound
  PROVE  /\ read_offset \in Nat /\ data_index \in Nat /\ read_size \in Nat /\ data_size \in Nat
         /\ data_index <= read_size /\ read_size <= data_size
         /\ Place \in Nat
         /\ locks \in Seq([index : Nat, pos : Nat])
<1>1. /\ read_offset \in Nat /\ data_index \in 0..read_size /\ data_size \in Nat
      /\ read_size \in 0..data_size /\ locks \in Seq([index : Nat, pos : Nat])
  BY DEF CacheSound, Cache!IInv, Cache!TypeOK
<1> QED
  BY <1>1 DEF Place

\* Nothing happens to the cache.
LEMMA CacheIdle ==
  ASSUME CacheSound, UNCHANGED cache
  PROVE  CacheSound' /\ CacheStays
  BY DEF CacheSound, CacheStays, cache, Cache!IInv, Cache!TypeOK, Cache!Coherent,
         Cache!ScanIntact, Cache!Mult, Cache!WindowEnds, Cache!WindowInFile

\* Other readers move the file.
LEMMA CacheMoved ==
  ASSUME CacheSound, Moved
  PROVE  CacheSound' /\ CacheStays
<1>1. CacheStays /\ file_pos' \in 0..FileSize
  BY DEF Moved, Str!Elsewhere, Str!window, CacheStays
<1> QED
  BY <1>1 DEF CacheSound, CacheStays, Cache!IInv, Cache!TypeOK, Cache!Coherent,
              Cache!ScanIntact, Cache!Mult, Cache!WindowEnds, Cache!WindowInFile

\* A seek without a lock goes to p, if that is what it reports.
LEMMA CacheSeeks ==
  ASSUME CacheSound, locks = <<>>, NEW p \in Nat,
         Str!SeekHeld(p) \/ Str!SeekAway(p) \/ Str!SeekRefused(p)
  PROVE  /\ CacheSound' /\ locks' = <<>> /\ data_size' = data_size
         /\ told' = p => Place' = p
<1>1. Cache!SeekHeld(p) \/ Cache!SeekAway(p) \/ Cache!SeekRefused(p)
  BY DEF Str!SeekHeld, Str!SeekAway, Str!SeekRefused,
         Cache!SeekHeld, Cache!SeekAway, Cache!SeekRefused, Str!window, Cache!window,
         Str!Answer, Cache!Answer, Str!Nowhere, Cache!Nowhere,
         Str!Clamped, Str!Least, Cache!Clamped, Cache!Least
<1>2. CacheSound'
  BY <1>1, CacheAssumed, Cache!SeekInv DEF CacheSound
<1>3. CASE Str!SeekHeld(p)
  BY <1>2, <1>3, CacheTypes DEF Str!SeekHeld, Place
<1>4. CASE Str!SeekAway(p)
  <2>1. locks' = <<>> /\ data_size' = data_size
    BY <1>4 DEF Str!SeekAway
  <2>2. told' = p => read_offset' = p /\ data_index' = 0
    <3>1. (read_offset' = p /\ data_index' = 0) \/ told' = Str!Nowhere
      BY <1>4, Zenon DEF Str!SeekAway, Str!Answer
    <3>2. Str!Nowhere # p
      BY DEF Str!Nowhere
    <3> QED
      BY <3>1, <3>2
  <2> QED
    BY <1>2, <2>1, <2>2 DEF Place
<1> QED
  BY <1>3, <1>4 DEF Str!SeekRefused

\* acquire() marks the next byte.
LEMMA CacheAcquires ==
  ASSUME CacheSound, locks = <<>>, Str!Acquire
  PROVE  /\ CacheSound'
         /\ locks' = <<[index |-> data_index, pos |-> Place]>>
         /\ UNCHANGED <<read_offset, data_index, data_size, buffer>>
<1>1. Cache!Acquire
  BY DEF Str!Acquire, Cache!Acquire, Str!window, Cache!window,
         Str!Answer, Cache!Answer, Str!Nowhere, Cache!Nowhere
<1>2. CacheSound'
  BY <1>1, CacheAssumed, Cache!AcquireInv DEF CacheSound
<1>3. locks' = Append(<<>>, [index |-> data_index, pos |-> Place])
  BY DEF Str!Acquire, Place
<1>4. locks' = <<[index |-> data_index, pos |-> Place]>>
  BY <1>3
<1> QED
  BY <1>2, <1>4 DEF Str!Acquire, Str!window

\* release() takes the mark away.
LEMMA CacheReleases ==
  ASSUME CacheSound, Len(locks) = 1, Str!Release
  PROVE  /\ CacheSound' /\ locks' = <<>>
         /\ UNCHANGED <<read_offset, data_index, data_size, buffer>>
<1>1. Cache!Release
  BY DEF Str!Release, Cache!Release, Str!window, Cache!window,
         Str!Answer, Cache!Answer, Str!Nowhere, Cache!Nowhere
<1>2. CacheSound'
  BY <1>1, CacheAssumed, Cache!ReleaseInv DEF CacheSound
<1>3. locks' = <<>>
  BY DEF Str!Release
<1> QED
  BY <1>2, <1>3 DEF Str!Release, Str!window

\* raw_get() takes the byte at the position, or none.
LEMMA CacheGets ==
  ASSUME CacheSound, Str!Get
  PROVE  /\ CacheSound' /\ locks' = locks /\ read_offset' = read_offset
         /\ data_size' >= data_size
         /\ \/ got' = <<>> /\ Place' = Place /\ data_index' = data_index
            \/ /\ got' # <<>> /\ got'[1] = Place /\ Place' = Place + 1
               /\ data_index' = data_index + 1
<1>1. Str!GetHeld(1) \/ Str!GetFetched(1)
  BY DEF Str!Get
<1>2. Cache!GetHeld(1) \/ Cache!GetFetched(1)
  BY <1>1 DEF Cache!GetHeld, Str!GetHeld, Cache!GetFetched, Str!GetFetched,
              Cache!window, Str!window, Str!Answer, Cache!Answer, Str!Nowhere, Cache!Nowhere,
              Str!Clamped, Str!Least, Cache!Clamped, Cache!Least, Str!Wanted, Cache!Wanted,
              Str!FetchFails, Cache!FetchFails, Str!FetchReads, Cache!FetchReads,
              Str!Start, Cache!Start, Str!Over, Cache!Over, Str!Keep, Cache!Keep,
              Str!Shift, Cache!Shift, Str!Shifted, Cache!Shifted, Str!Defined, Cache!Defined,
              Str!ReadSize, Cache!ReadSize, Str!Filled, Cache!Filled, Str!Grown, Cache!Grown,
              Str!RoundUp, Cache!RoundUp, Str!Junk, Cache!Junk
<1>3. CacheSound'
  BY <1>2, CacheAssumed, Cache!HeldInv, Cache!FailsInv, Cache!ReadsInv
     DEF CacheSound, Cache!GetFetched
<1>4. /\ read_offset' = read_offset /\ locks' = locks /\ data_size' >= data_size
      /\ \/ got' = <<>> /\ data_index' = data_index
         \/ got' = Cache!Reader!Bytes(Cache!pos, 1) /\ data_index' = data_index + 1
  BY <1>2, CacheAssumed, Cache!ByteTaken DEF CacheSound
<1>5. Cache!Reader!Bytes(Cache!pos, 1) = [k \in 1..1 |-> Place + k - 1]
  BY DEF Cache!Reader!Bytes, Cache!pos, Place
<1>6. ASSUME got' = [k \in 1..1 |-> Place + k - 1] PROVE got' # <<>> /\ got'[1] = Place
  <2>1. Place \in Nat
    BY CacheTypes
  <2>2. DOMAIN got' # {} /\ got'[1] = Place
    BY <1>6, <2>1
  <2> QED
    BY <2>2
<1>7. data_index \in Nat /\ read_offset \in Nat
  BY CacheTypes
<1> QED
  BY <1>3, <1>4, <1>5, <1>6, <1>7 DEF Place

\* raw_get() takes nothing at the end of the file or behind it.
LEMMA CacheBeyond ==
  ASSUME CacheSound, FileSize <= read_offset, Str!FetchFails(1) \/ Str!FetchReads(1),
         locks' = locks
  PROVE  /\ CacheSound' /\ Place' = Place /\ data_size <= data_size'
         /\ Place = read_offset /\ data_index = 0
<1>1. Cache!FetchFails(1) \/ Cache!FetchReads(1)
  BY DEF Str!Answer, Cache!Answer, Str!Nowhere, Cache!Nowhere,
         Str!Clamped, Str!Least, Cache!Clamped, Cache!Least,
         Str!FetchFails, Cache!FetchFails, Str!FetchReads, Cache!FetchReads,
         Str!Start, Cache!Start, Str!Over, Cache!Over, Str!Keep, Cache!Keep,
         Str!Shift, Cache!Shift, Str!Shifted, Cache!Shifted,
         Str!ReadSize, Cache!ReadSize, Str!Filled, Cache!Filled, Str!Grown, Cache!Grown,
         Str!RoundUp, Cache!RoundUp, Str!Junk, Cache!Junk
<1>2. /\ CacheSound' /\ read_offset' = read_offset /\ data_index' = data_index
      /\ data_size' >= data_size /\ data_index = 0
  BY <1>1, CacheAssumed, Cache!BeyondInv DEF CacheSound
<1>3. read_offset \in Nat /\ data_size \in Nat /\ data_size' \in Nat
  BY <1>2, CacheTypes DEF CacheSound, Cache!IInv, Cache!TypeOK
<1> QED
  BY <1>2, <1>3 DEF Place

-----------------------------------------------------------------------------
(***************************************************************************)
(* Types, and the section a pass is at.                                    *)
(***************************************************************************)
Phases == {"open", "ident", "header", "prefetch", "import", "resolve", "loaded", "failed"}
Early == {"open", "ident", "header"}
States == {"none", "seek", "acquire", "scan", "release", "given", "held", "refused"}
SectionHeaders == {Nothing} \union JunkShdrs \union {Shdrs[i] : i \in DOMAIN Shdrs}
StringTables == [section : Int, offset : Nat, size : Nat, clean : BOOLEAN]
Calls == [state : States, section : Int, offset : Int, start : Nat, length : Nat,
          valid : BOOLEAN, clean : BOOLEAN]

Shapes ==
  /\ phase \in Phases /\ elf \in BOOLEAN /\ ehdr \in {NoEhdr} \union Ehdrs \union JunkEhdrs
  /\ str \in StringTables
  /\ name \in Calls /\ name.length <= Capacity
  /\ index \in Nat /\ item \in Nat /\ sym \in Symbols
  /\ shdr \in SectionHeaders
  /\ have \in BOOLEAN /\ short \in BOOLEAN /\ bound \in BOOLEAN /\ lost \in BOOLEAN

\* A pass is at a section there is while it has a header in hand or a name on the way.
Walking ==
  /\ index <= ehdr.count
  /\ shdr # Nothing \/ name.state # "none" => index < ehdr.count
  /\ phase \in Early => index = 0 /\ shdr = Nothing /\ name.state = "none"
  /\ phase \in {"import", "resolve"} /\ shdr # Nothing => item # 0

TInv == Shapes /\ Walking

-----------------------------------------------------------------------------
(***************************************************************************)
(* The name on the way.  The string table remembered is the section's, if  *)
(* its header was read well; the cache has a lock, at the name's first     *)
(* byte, from acquire() to release() and none at any other time; what is   *)
(* scanned so far holds no end; and what was given ends with the first.    *)
(***************************************************************************)
Proper(s) == /\ s.section \in DOMAIN Shdrs
             /\ s.offset = Shdrs[s.section].offset /\ s.size = Shdrs[s.section].size

Remembers == str.clean /\ str.offset # 0 /\ str.section # 0 => Proper(str)

At == str.offset + name.offset
Located ==
  name.state \notin {"none", "refused"} =>
    /\ name.section = str.section /\ name.offset \in 0..(str.size - 1)
    /\ str.clean => Proper(str)
    /\ name.clean => str.clean /\ HasName(name.section, name.offset)

Locking ==
  /\ name.state \notin {"scan", "release"} => locks = <<>>
  /\ name.state \in {"scan", "release"} => locks = <<[index |-> name.start, pos |-> At]>>
  /\ name.start <= data_size

\* No string ends in the bytes from a to b, without b.
NoEnd(a, b) == \A e \in Ends : ~(a <= e /\ e < b)

\* The buffer has the string at p, to its end, from start on; length is what was counted.
SpelledAt(p, start, length, clean) ==
  \E e \in Ends :
    /\ p <= e /\ NoEnd(p, e)
    /\ \A k \in 0..(e - p) : start + k + 1 <= data_size /\ buffer[start + k + 1] = p + k
    /\ clean => length = e - p

Scanning ==
  /\ name.state = "acquire" => Place = At
  /\ name.state \in {"seek", "acquire", "scan"} => ~name.valid
  /\ name.state \in {"seek", "acquire"} => name.length = 0
  /\ name.state = "scan" =>
       /\ At <= Place /\ NoEnd(At, Place)
       /\ name.clean => name.length = Place - At
  /\ name.state = "release" /\ ~name.valid => ~name.clean
  /\ name.state \in {"given", "held"} => name.valid
  /\ name.state \in {"release", "given", "held"} /\ name.valid =>
       SpelledAt(At, name.start, name.length, name.clean)

NInv == CacheSound /\ Remembers /\ Located /\ Locking /\ Scanning /\ RefusedForCause

-----------------------------------------------------------------------------
(***************************************************************************)
(* What the passes have taken, if nothing was passed over.                 *)
(***************************************************************************)
TakenAll(i) == \A k \in 1..Len(Shdrs[i].items) : <<i, k>> \in taken
TakenType(type, n) ==
  \A i \in DOMAIN Shdrs : i < n /\ Shdrs[i].type = type => TakenAll(i)
\* ... in the section at hand, before the item at hand
InHand(type) ==
  shdr # Nothing => /\ index \in DOMAIN Shdrs /\ shdr = Shdrs[index] /\ shdr.type = type
                    /\ \A k \in 1..(item - 1) : <<index, k>> \in taken

Prefetching ==
  /\ \A i \in 0..(index - 1) : i \in DOMAIN Shdrs /\ (SymCount(Shdrs[i]) > 0 => have)
  /\ name.state # "none" => index \in DOMAIN Shdrs /\ shdr = Shdrs[index]
Importing ==
  /\ \A i \in DOMAIN Shdrs : SymCount(Shdrs[i]) > 0 => have
  /\ ~have => shdr = Nothing /\ name.state = "none" /\ ~bound
  /\ ~short => TakenType("symtab", index) /\ InHand("symtab")
Resolving ==
  /\ ~short
  /\ TakenType("symtab", ehdr.count)
  /\ TakenType("rel", index) /\ InHand("rel")

CInv ==
  /\ phase \in Early \union {"prefetch"} => ~short /\ ~bound
  /\ ~lost =>
       /\ phase \in {"prefetch", "import", "resolve", "loaded"} => ehdr.clean
       /\ phase = "prefetch" => Prefetching
       /\ phase = "import" => Importing
       /\ phase = "resolve" => Resolving
  /\ Collected

-----------------------------------------------------------------------------
(***************************************************************************)
(* What the reader's calls come to.                                        *)
(***************************************************************************)

\* Headers have the fields of headers, read amiss or not.
LEMMA HeadersTyped == SectionHeaders \subseteq Headers
<1>1. <<>> \in Seq(Symbols) /\ "null" \in Types
  BY DEF Types
<1>2. Nothing \in Headers
  BY <1>1 DEF Nothing, Headers
<1> QED
  BY <1>2, HeadersAssumption, Zenon DEF SectionHeaders

\* An ELF header has its fields; one that was read well is one of the object's.
LEMMA EhdrTyped ==
  ASSUME Shapes
  PROVE  /\ ehdr \in ElfHeaders
         /\ ehdr.count \in Nat /\ ehdr.strndx \in Nat /\ ehdr.rel \in BOOLEAN
         /\ ehdr.clean \in BOOLEAN
         /\ ehdr.clean => ehdr \in Ehdrs
<1>1. NoEhdr \in ElfHeaders /\ ~NoEhdr.clean
  BY DEF NoEhdr, ElfHeaders
<1>2. ehdr \in ElfHeaders
  BY <1>1, HeadersAssumption, Zenon DEF Shapes
<1>3. ehdr.clean => ehdr \in Ehdrs
  BY <1>1, JunkAssumption, Zenon DEF Shapes
<1> QED
  BY <1>2, <1>3 DEF ElfHeaders

\* read_section_info() of a section there is gives a header, that of the section
\* if it was read well.
LEMMA SectionRead ==
  ASSUME Shapes, NEW i \in Int, NEW r \in ShdrReads(i)
  PROVE  /\ r.ok \in BOOLEAN /\ r.clean \in BOOLEAN /\ r.shdr \in SectionHeaders
         /\ r.ok => 0 <= i /\ i < ehdr.count
         /\ r.clean => r.ok /\ i \in DOMAIN Shdrs /\ r.shdr = Shdrs[i]
<1>1. CASE r = Unread
  BY <1>1, Zenon DEF Unread, SectionHeaders
<1>2. CASE i >= 0 /\ i < ehdr.count /\ r \in Amiss
  <2>1. PICK j \in JunkShdrs : r = [ok |-> TRUE, shdr |-> j, clean |-> FALSE]
    BY <1>2, Zenon DEF Amiss
  <2> QED
    BY <1>2, <2>1, Zenon DEF SectionHeaders
<1>3. CASE /\ i >= 0 /\ i < ehdr.count /\ i \in DOMAIN Shdrs
           /\ r = [ok |-> TRUE, shdr |-> Shdrs[i], clean |-> TRUE]
  BY <1>3, Zenon DEF SectionHeaders
<1>4. ehdr.count \in Nat
  BY EhdrTyped
<1>5. CASE ~elf \/ i < 0 \/ i >= ehdr.count
  BY <1>1, <1>5, Zenon DEF ShdrReads
<1>6. CASE elf /\ ~(i < 0) /\ ~(i >= ehdr.count)
  <2>1. i >= 0 /\ i < ehdr.count
    BY <1>4, <1>6
  <2>2. \/ r = Unread
        \/ r \in Amiss
        \/ i \in DOMAIN Shdrs /\ r = [ok |-> TRUE, shdr |-> Shdrs[i], clean |-> TRUE]
    BY <1>6, Zenon DEF ShdrReads
  <2> QED
    BY <1>1, <1>2, <1>3, <2>1, <2>2, Zenon
<1> QED
  BY <1>5, <1>6, Zenon DEF Shapes

\* read_symbol_info() gives a symbol, the one asked for if it was read well.
LEMMA SymbolRead ==
  ASSUME NEW it \in Symbols, NEW r \in SymReads(it)
  PROVE  /\ r.ok \in BOOLEAN /\ r.sym \in Symbols
         /\ r.sym.clean => r.sym = it
<1>1. CASE r = [ok |-> TRUE, sym |-> it]
  BY <1>1
<1>2. CASE r = [ok |-> FALSE, sym |-> NoSym]
  BY <1>2 DEF NoSym, Symbols
<1>3. CASE \E n \in JunkNames, b \in BOOLEAN :
             r = [ok |-> TRUE, sym |-> [name |-> n, body |-> b, clean |-> FALSE]]
  <2>1. PICK n \in JunkNames, b \in BOOLEAN :
          r = [ok |-> TRUE, sym |-> [name |-> n, body |-> b, clean |-> FALSE]]
    BY <1>3
  <2>2. n \in Int /\ [name |-> n, body |-> b, clean |-> FALSE] \in Symbols
    BY HeadersAssumption DEF Symbols
  <2> QED
    BY <2>1, <2>2, Zenon
<1> QED
  BY <1>1, <1>2, <1>3, SMT DEF SymReads

\* ids_str_load() remembers the section asked for, if it succeeds.
LEMMA TableLoaded ==
  ASSUME Shapes, Remembers, NEW s \in Int, NEW t \in Tables(s)
  PROVE  /\ t.ok \in BOOLEAN /\ t.clean \in BOOLEAN /\ t.str \in StringTables
         /\ t.ok => t.clean = t.str.clean
         /\ t.ok => t.str.section = s /\ (t.str.clean => Proper(t.str))
         /\ ~t.ok => t.str = str /\ (~t.clean \/ s > MaxSection)
<1>1. str \in StringTables /\ str.clean \in BOOLEAN
  BY DEF Shapes, StringTables
<1>2. CASE ~Reload(s)
  <2>1. t = [ok |-> TRUE, str |-> str, clean |-> str.clean]
    BY <1>2, Zenon DEF Tables
  <2>2. str.section = s /\ (str.clean => Proper(str))
    BY <1>2, Zenon DEF Reload, Remembers
  <2> QED
    BY <1>1, <2>1, <2>2, Zenon
<1>4. CASE Reload(s) /\ s > MaxSection
  <2>1. t = [ok |-> FALSE, str |-> str, clean |-> TRUE]
    BY <1>4, Zenon DEF Tables, Refusal
  <2> QED
    BY <1>1, <1>4, <2>1, Zenon
<1>3. CASE Reload(s) /\ ~(s > MaxSection)
  <2>1. PICK r \in ShdrReads(s) :
          t = [ok |-> r.ok, clean |-> r.clean,
               str |-> IF r.ok THEN [section |-> s, offset |-> r.shdr.offset,
                                     size |-> r.shdr.size, clean |-> r.clean]
                       ELSE str]
    BY <1>3, Zenon DEF Tables
  <2>2. /\ r.ok \in BOOLEAN /\ r.clean \in BOOLEAN /\ r.shdr \in Headers
        /\ r.clean => r.ok /\ s \in DOMAIN Shdrs /\ r.shdr = Shdrs[s]
    BY SectionRead, HeadersTyped
  <2>3. CASE r.ok
    <3>1. r.shdr.offset \in Nat /\ r.shdr.size \in Nat
      BY <2>2 DEF Headers
    <3>2. /\ t.ok
          /\ t.str = [section |-> s, offset |-> r.shdr.offset, size |-> r.shdr.size,
                      clean |-> r.clean]
      BY <2>1, <2>3, Zenon
    <3>3. t.str \in StringTables
      BY <2>2, <3>1, <3>2 DEF StringTables
    <3>4. t.str.section = s /\ t.str.offset = r.shdr.offset /\ t.str.size = r.shdr.size
          /\ t.str.clean = r.clean
      BY <3>2
    <3>5. t.str.clean => Proper(t.str)
      BY <2>2, <3>4, Zenon DEF Proper
    <3>6. t.ok = r.ok /\ t.clean = r.clean
      BY <2>1
    <3> QED
      BY <2>2, <2>3, <3>3, <3>4, <3>5, <3>6, Zenon
  <2>4. CASE ~r.ok
    BY <1>1, <2>1, <2>2, <2>4, Zenon
  <2> QED
    BY <2>3, <2>4
<1> QED
  BY <1>2, <1>3, <1>4

\* A call that ids_str_get() has begun, or refused.
Begun == /\ str' \in StringTables /\ name' \in Calls
         /\ name'.state \in {"seek", "refused"}
         /\ name'.length = 0 /\ name'.start = 0 /\ ~name'.valid
         /\ Remembers' /\ Located' /\ RefusedForCause'

\* ids_str_get() begins with a place in the table of the section asked for, or refuses;
\* with everything read well it refuses no name that the object has, up to MaxSection.
LEMMA Asked ==
  ASSUME Shapes, Remembers, NEW s \in Int, NEW o \in Int, NEW c \in BOOLEAN, Ask(s, o, c),
         c => HasName(s, o)
  PROVE  Begun
<1>1. PICK t \in IF o < 0 THEN {Refusal} ELSE Tables(s) :
        /\ str' = t.str
        /\ name' = [NoName EXCEPT
                      !.state = IF t.ok /\ o < t.str.size THEN "seek" ELSE "refused",
                      !.section = s, !.offset = o, !.clean = c /\ t.clean]
  BY Zenon DEF Ask
<1>2. /\ t.ok \in BOOLEAN /\ t.clean \in BOOLEAN /\ t.str \in StringTables
      /\ t.ok => o >= 0 /\ t.str.section = s /\ (t.str.clean => Proper(t.str))
      /\ t.ok => t.clean = t.str.clean
      /\ ~t.ok => t.str = str /\ (o < 0 \/ ~t.clean \/ s > MaxSection)
  <2>1. CASE o < 0
    <3>1. t = [ok |-> FALSE, str |-> str, clean |-> TRUE]
      BY <1>1, <2>1, Zenon DEF Refusal
    <3> QED
      BY <2>1, <3>1, Zenon DEF Shapes
  <2>2. CASE ~(o < 0)
    <3>1. t \in Tables(s) /\ o >= 0
      BY <2>2
    <3> QED
      BY <3>1, TableLoaded, Zenon
  <2> QED
    BY <2>1, <2>2
<1> DEFINE st == IF t.ok /\ o < t.str.size THEN "seek" ELSE "refused"
           cl == c /\ t.clean
<1>3. /\ name'.state = st /\ name'.section = s /\ name'.offset = o
      /\ name'.clean = cl /\ name'.length = 0 /\ name'.start = 0 /\ name'.valid = FALSE
      /\ name' = [state |-> st, section |-> s, offset |-> o, start |-> 0, length |-> 0,
                  valid |-> FALSE, clean |-> cl]
  BY <1>1, Zenon DEF NoName
<1>4. st \in {"seek", "refused"} /\ cl \in BOOLEAN /\ t.str.size \in Nat /\ t.str.clean \in BOOLEAN
  BY <1>2 DEF StringTables
<1>5. name' \in Calls
  <2>1. st \in States
    BY <1>4, Zenon DEF States
  <2> HIDE DEF st, cl
  <2> QED
    BY <1>3, <1>4, <2>1 DEF Calls
<1>6. Remembers'
  BY <1>1, <1>2, Zenon DEF Remembers, Proper
<1>7. t.ok /\ t.str.clean => s \in DOMAIN Shdrs /\ t.str.size = Shdrs[s].size
  BY <1>2, Zenon DEF Proper
<1>8. Located'
  <2> SUFFICES ASSUME name'.state \notin {"none", "refused"}
               PROVE  /\ name'.section = str'.section /\ name'.offset \in 0..(str'.size - 1)
                      /\ str'.clean => Proper(str')
                      /\ name'.clean => str'.clean /\ HasName(name'.section, name'.offset)
    BY Zenon DEF Located, Proper, HasName
  <2>1. t.ok /\ o < t.str.size
    BY <1>3, Zenon
  <2>2. o \in 0..(t.str.size - 1)
    BY <1>2, <1>4, <2>1
  <2> HIDE DEF st
  <2> QED
    BY <1>1, <1>2, <1>3, <2>1, <2>2, Zenon
<1>9. RefusedForCause'
  <2> SUFFICES ASSUME name'.state = "refused", name'.clean, ~(s > MaxSection) PROVE FALSE
    BY <1>3, Zenon DEF RefusedForCause
  <2>1. c /\ t.clean /\ HasName(s, o)
    BY <1>3, Zenon
  <2>2. s \in DOMAIN Shdrs /\ o \in 0..(Shdrs[s].size - 1)
    BY <2>1, Zenon DEF HasName
  <2>3. Shdrs[s].size \in Nat
    BY <2>2, HeadersAssumption DEF Headers
  <2>4. ~(o < 0)
    BY <2>2, <2>3
  <2>5. t.ok /\ t.str.clean
    BY <1>2, <2>1, <2>4, Zenon
  <2>6. ~(o < t.str.size)
    BY <1>3, <2>5, Zenon
  <2> QED
    BY <1>4, <1>7, <2>2, <2>5, <2>6
<1> HIDE DEF st, cl
<1> QED
  BY <1>1, <1>2, <1>3, <1>4, <1>5, <1>6, <1>8, <1>9, Zenon DEF Begun

\* What a call is made of.
LEMMA CallFields ==
  ASSUME NEW n \in Calls
  PROVE  /\ n.state \in States /\ n.section \in Int /\ n.offset \in Int
         /\ n.start \in Nat /\ n.length \in Nat /\ n.valid \in BOOLEAN /\ n.clean \in BOOLEAN
  BY DEF Calls

\* A call keeps the section and offset it asks for, and what else of it is not changed.
Kept(n, m) == m.section = n.section /\ m.offset = n.offset /\ m \in Calls
Becomes(n, m, state, start, length, valid, clean) ==
  /\ Kept(n, m) /\ m.state = state /\ m.start = start /\ m.length = length
  /\ m.valid = valid /\ m.clean = clean

\* A step sets the state of a call,
LEMMA CallState ==
  ASSUME NEW n \in Calls, NEW st \in States, NEW m, m = [n EXCEPT !.state = st]
  PROVE  Becomes(n, m, st, n.start, n.length, n.valid, n.clean)
<1>1. m \in Calls
  BY Zenon DEF Calls
<1> QED
  BY <1>1, SMT DEF Calls, Kept, Becomes

\* ... and whether what it asked for was read well,
LEMMA CallStateClean ==
  ASSUME NEW n \in Calls, NEW st \in States, NEW c \in BOOLEAN,
         NEW m, m = [n EXCEPT !.state = st, !.clean = c]
  PROVE  Becomes(n, m, st, n.start, n.length, n.valid, c)
<1>1. m \in Calls
  BY Zenon DEF Calls
<1> QED
  BY <1>1, SMT DEF Calls, Kept, Becomes

\* ... and where its bytes begin in the buffer,
LEMMA CallStateStart ==
  ASSUME NEW n \in Calls, NEW st \in States, NEW a \in Nat,
         NEW m, m = [n EXCEPT !.state = st, !.start = a]
  PROVE  Becomes(n, m, st, a, n.length, n.valid, n.clean)
<1>1. m \in Calls
  BY Zenon DEF Calls
<1> QED
  BY <1>1, SMT DEF Calls, Kept, Becomes

\* ... and that the bytes have ended,
LEMMA CallStateValid ==
  ASSUME NEW n \in Calls, NEW st \in States, NEW v \in BOOLEAN,
         NEW m, m = [n EXCEPT !.state = st, !.valid = v]
  PROVE  Becomes(n, m, st, n.start, n.length, v, n.clean)
<1>1. m \in Calls
  BY Zenon DEF Calls
<1> QED
  BY <1>1, SMT DEF Calls, Kept, Becomes

\* ... or counts one more,
LEMMA CallLength ==
  ASSUME NEW n \in Calls, NEW l \in Nat, NEW m, m = [n EXCEPT !.length = l]
  PROVE  Becomes(n, m, n.state, n.start, l, n.valid, n.clean)
<1>1. m \in Calls
  BY Zenon DEF Calls
<1> QED
  BY <1>1, SMT DEF Calls, Kept, Becomes

\* ... read well or not.
LEMMA CallLengthClean ==
  ASSUME NEW n \in Calls, NEW l \in Nat, NEW c \in BOOLEAN,
         NEW m, m = [n EXCEPT !.length = l, !.clean = c]
  PROVE  Becomes(n, m, n.state, n.start, l, n.valid, c)
<1>1. m \in Calls
  BY Zenon DEF Calls
<1> QED
  BY <1>1, SMT DEF Calls, Kept, Becomes

\* What the steps of ids_str_get() leave as it is.
SameQuestion == UNCHANGED <<phase, elf, ehdr, str, walk>> /\ Kept(name, name')

\* A seek to the name, that succeeds or does not.
LEMMA SeekChanges ==
  ASSUME Shapes, SeekName
  PROVE  /\ SameQuestion /\ name.state = "seek"
         /\ name'.state = IF told' = At THEN "acquire" ELSE "refused"
         /\ name'.clean = (name.clean /\ (told' = At \/ locks # <<>>))
         /\ name'.start = name.start /\ name'.length = name.length /\ name'.valid = name.valid
         /\ Str!SeekHeld(At) \/ Str!SeekAway(At) \/ Str!SeekRefused(At)
<1> DEFINE st == IF told' = At THEN "acquire" ELSE "refused"
           cl == name.clean /\ (told' = At \/ locks # <<>>)
<1>1. /\ UNCHANGED <<phase, elf, ehdr, str, walk>> /\ name.state = "seek"
      /\ name' = [name EXCEPT !.state = st, !.clean = cl]
      /\ Str!SeekHeld(At) \/ Str!SeekAway(At) \/ Str!SeekRefused(At)
  BY Zenon DEF SeekName, Answering, At
<1>2. st \in States /\ cl \in BOOLEAN /\ name \in Calls
  BY Zenon DEF States, Shapes
<1> HIDE DEF st, cl
<1>3. Becomes(name, name', st, name.start, name.length, name.valid, cl)
  BY <1>1, <1>2, CallStateClean, Zenon
<1> USE DEF st, cl
<1> QED
  BY <1>1, <1>3, Zenon DEF SameQuestion, Becomes

\* acquire() marks the place of the name.
LEMMA AcquireChanges ==
  ASSUME Shapes, CacheSound, AcquireName
  PROVE  /\ SameQuestion /\ name.state = "acquire" /\ name'.state = "scan"
         /\ name'.start = data_index /\ name'.length = name.length
         /\ name'.valid = name.valid /\ name'.clean = name.clean
         /\ Str!Acquire
<1>1. /\ UNCHANGED <<phase, elf, ehdr, str, walk>> /\ name.state = "acquire"
      /\ name' = [name EXCEPT !.state = "scan", !.start = data_index]
      /\ Str!Acquire
  BY Zenon DEF AcquireName, Answering
<1>2. "scan" \in States /\ data_index \in Nat /\ name \in Calls
  BY CacheTypes, Zenon DEF States, Shapes
<1>3. Becomes(name, name', "scan", data_index, name.length, name.valid, name.clean)
  BY <1>1, <1>2, CallStateStart, Zenon
<1> QED
  BY <1>1, <1>3, Zenon DEF SameQuestion, Becomes

\* A byte that ends the name, or one more of it.
LEMMA ScanChanges ==
  ASSUME Shapes, ScanName
  PROVE  /\ SameQuestion /\ name.state = "scan" /\ name'.start = name.start
         /\ name.length < Capacity
         /\ Str!Get
         /\ IF got' # <<>> /\ got'[1] \in Ends
            THEN /\ name'.state = "release" /\ name'.valid
                 /\ name'.length = name.length /\ name'.clean = name.clean
            ELSE /\ name'.state = "scan" /\ name'.valid = name.valid
                 /\ name'.length = name.length + 1
                 /\ name'.clean = (name.clean /\ got' # <<>>)
<1> DEFINE ends == got' # <<>> /\ got'[1] \in Ends
           cl == name.clean /\ got' # <<>>
<1>1. /\ UNCHANGED <<phase, elf, ehdr, str, walk>> /\ name.state = "scan"
      /\ ~Full(name.length)
      /\ name' = IF ends THEN [name EXCEPT !.state = "release", !.valid = TRUE]
                 ELSE [name EXCEPT !.length = name.length + 1, !.clean = cl]
      /\ Str!Get
  BY Zenon DEF ScanName, Answering
<1>2. /\ "release" \in States /\ TRUE \in BOOLEAN /\ cl \in BOOLEAN /\ name \in Calls
  BY Zenon DEF States, Shapes
<1>3. name.length \in Nat /\ name.length + 1 \in Nat /\ Capacity \in Nat
  BY <1>2, CallFields, SizesAssumption
<1>4. name.length < Capacity
  BY <1>1, <1>3 DEF Full
<1>5. CASE ends
  <2>1. name' = [name EXCEPT !.state = "release", !.valid = TRUE]
    BY <1>1, <1>5, Zenon
  <2>2. Becomes(name, name', "release", name.start, name.length, TRUE, name.clean)
    BY <1>2, <2>1, CallStateValid, Zenon
  <2> QED
    BY <1>1, <1>4, <1>5, <2>2, Zenon DEF SameQuestion, Becomes
<1>6. CASE ~ends
  <2>1. name' = [name EXCEPT !.length = name.length + 1, !.clean = cl]
    BY <1>1, <1>6, Zenon
  <2> HIDE DEF cl
  <2>2. Becomes(name, name', name.state, name.start, name.length + 1, name.valid, cl)
    BY <1>2, <1>3, <2>1, CallLengthClean, Zenon
  <2> USE DEF cl
  <2> QED
    BY <1>1, <1>4, <1>6, <2>2, Zenon DEF SameQuestion, Becomes
<1> QED
  BY <1>5, <1>6, Zenon

\* One more of what is read behind the file's end.
LEMMA BeyondChanges ==
  ASSUME Shapes, ScanBeyond
  PROVE  /\ SameQuestion /\ name.state = "scan" /\ name'.state = "scan"
         /\ name'.start = name.start /\ name'.length = name.length + 1
         /\ name'.valid = name.valid /\ name'.clean = name.clean
         /\ name.length < Capacity /\ FileSize <= read_offset
         /\ Str!FetchFails(1) \/ Str!FetchReads(1)
         /\ locks' = locks
<1>1. /\ UNCHANGED <<phase, elf, ehdr, str, walk>> /\ name.state = "scan"
      /\ name' = [name EXCEPT !.length = name.length + 1]
      /\ ~Full(name.length) /\ read_offset >= FileSize /\ locks' = locks
      /\ Str!FetchFails(1) \/ Str!FetchReads(1)
  BY Zenon DEF ScanBeyond, Answering
<1>2. name \in Calls /\ name.length \in Nat /\ Capacity \in Nat /\ name.length + 1 \in Nat
  BY CallFields, SizesAssumption DEF Shapes
<1>3. name.length < Capacity /\ FileSize <= read_offset
  BY <1>1, <1>2, SMT DEF Full
<1>4. Becomes(name, name', name.state, name.start, name.length + 1, name.valid, name.clean)
  BY <1>1, <1>2, CallLength, Zenon
<1> QED
  BY <1>1, <1>3, <1>4, Zenon DEF SameQuestion, Becomes

\* A string without an end is given up.
LEMMA OverrunChanges ==
  ASSUME Shapes, ScanOverrun
  PROVE  /\ SameQuestion /\ name.state = "scan" /\ name'.state = "release"
         /\ name'.start = name.start /\ name'.length = name.length
         /\ name'.valid = name.valid /\ name'.clean = name.clean
         /\ name.length >= Capacity /\ UNCHANGED cache
<1>1. /\ UNCHANGED <<phase, elf, ehdr, str, walk>> /\ name.state = "scan"
      /\ name' = [name EXCEPT !.state = "release"]
      /\ Full(name.length) /\ UNCHANGED cache
  BY Zenon DEF ScanOverrun, Overrun, Answering
<1>2. "release" \in States /\ name \in Calls
  BY Zenon DEF States, Shapes
<1>3. name.length >= Capacity
  BY <1>1 DEF Full
<1>4. Becomes(name, name', "release", name.start, name.length, name.valid, name.clean)
  BY <1>1, <1>2, CallState, Zenon
<1> QED
  BY <1>1, <1>3, <1>4, Zenon DEF SameQuestion, Becomes

\* release(), and the name is given or not.
LEMMA ReleaseChanges ==
  ASSUME Shapes, ReleaseName
  PROVE  /\ SameQuestion /\ name.state = "release"
         /\ name'.state = IF name.valid THEN "given" ELSE "refused"
         /\ name'.start = name.start /\ name'.length = name.length
         /\ name'.valid = name.valid /\ name'.clean = name.clean
         /\ Str!Release
<1> DEFINE st == IF name.valid THEN "given" ELSE "refused"
<1>1. /\ UNCHANGED <<phase, elf, ehdr, str, walk>> /\ name.state = "release"
      /\ name' = [name EXCEPT !.state = st]
      /\ Str!Release
  BY Zenon DEF ReleaseName, Answering
<1>2. st \in States /\ name \in Calls
  BY Zenon DEF States, Shapes
<1> HIDE DEF st
<1>3. Becomes(name, name', st, name.start, name.length, name.valid, name.clean)
  BY <1>1, <1>2, CallState, Zenon
<1> USE DEF st
<1> QED
  BY <1>1, <1>3, Zenon DEF SameQuestion, Becomes

-----------------------------------------------------------------------------
(***************************************************************************)
(* Types and the walk, step by step.                                       *)
(***************************************************************************)

\* A step of ids_str_get() keeps them.
LEMMA NameTypes ==
  ASSUME TInv, CacheSound, Name
  PROVE  TInv' /\ name.state # "none" /\ name'.state # "none"
<1>1. /\ SameQuestion /\ name.state # "none" /\ name'.state # "none"
      /\ name'.length <= Capacity
  <2>0. Shapes /\ name.length <= Capacity /\ name.length \in Nat /\ Capacity \in Nat
    BY CallFields, SizesAssumption DEF TInv, Shapes
  <2>1. CASE SeekName
    BY <2>0, <2>1, SeekChanges
  <2>2. CASE AcquireName
    BY <2>0, <2>2, AcquireChanges
  <2>3. CASE ScanName
    BY <2>0, <2>3, ScanChanges
  <2>4. CASE ScanOverrun
    BY <2>0, <2>4, OverrunChanges
  <2>6. CASE ScanBeyond
    BY <2>0, <2>6, BeyondChanges
  <2>5. CASE ReleaseName
    BY <2>0, <2>5, ReleaseChanges
  <2> QED
    BY <2>1, <2>2, <2>3, <2>4, <2>5, <2>6 DEF Name
<1>2. /\ UNCHANGED <<phase, elf, ehdr, str, index, shdr, item, sym, have, short, bound, lost>>
      /\ name' \in Calls
  BY <1>1, Zenon DEF SameQuestion, Kept, walk
<1>3. Shapes'
  BY <1>1, <1>2, Zenon DEF TInv, Shapes
<1>4. Walking'
  BY <1>1, <1>2, Zenon DEF TInv, Walking
<1> QED
  BY <1>1, <1>3, <1>4, Zenon DEF TInv

-----------------------------------------------------------------------------
(***************************************************************************)
(* The name on the way, step by step.                                      *)
(***************************************************************************)

\* A call that was not made.
LEMMA NoNameTyped ==
  /\ NoName \in Calls /\ NoName.length <= Capacity /\ NoName.start = 0
  /\ NoName.state = "none" /\ ~NoName.valid /\ ~NoName.clean
<1>1. "none" \in States
  BY DEF States
<1>2. NoName \in Calls
  BY <1>1 DEF NoName, Calls
<1> QED
  BY <1>2, SizesAssumption DEF NoName

\* No call under way, or the call as it is, while others read the file.
LEMMA NameStays ==
  ASSUME NInv, CacheSound', CacheStays, str' = str, name' = name
  PROVE  NInv'
<1>1. Place' = Place /\ data_size' = data_size /\ buffer' = buffer /\ locks' = locks
  BY DEF CacheStays, Place
<1>2. At' = At
  BY DEF At
<1>3. Remembers' /\ Located' /\ RefusedForCause'
  BY Zenon DEF NInv, Remembers, Located, RefusedForCause, Proper, HasName
<1>4. Locking'
  BY <1>1, <1>2, Zenon DEF NInv, Locking
<1>5. Scanning'
  BY <1>1, <1>2, Zenon DEF NInv, Scanning, NoEnd, SpelledAt
<1> QED
  BY <1>3, <1>4, <1>5, Zenon DEF NInv

\* The caller is done with the name.
LEMMA NameDropped ==
  ASSUME NInv, CacheSound', CacheStays, str' = str, name' = NoName,
         name.state \notin {"scan", "release"}
  PROVE  NInv'
<1>1. data_size' \in Nat /\ locks' = <<>>
  BY CacheTypes DEF NInv, Locking, CacheStays
<1>2. name'.state = "none" /\ name'.start = 0
  BY NoNameTyped
<1>3. Remembers' /\ Located' /\ RefusedForCause'
  BY <1>2, Zenon DEF NInv, Remembers, Located, RefusedForCause, Proper
<1>4. Locking'
  <2>1. name'.start <= data_size'
    BY <1>1, <1>2
  <2> QED
    BY <1>1, <1>2, <2>1, Zenon DEF Locking
<1>5. Scanning'
  BY <1>2, Zenon DEF Scanning
<1> QED
  BY <1>3, <1>4, <1>5, Zenon DEF NInv

\* A name is asked for.
LEMMA NameBegun ==
  ASSUME NInv, CacheSound', CacheStays, name.state \notin {"scan", "release"}, Begun
  PROVE  NInv'
<1>1. data_size' \in Nat /\ locks' = <<>>
  BY CacheTypes DEF NInv, Locking, CacheStays
<1>2. name'.state \in {"seek", "refused"} /\ name'.start = 0 /\ ~name'.valid /\ name'.length = 0
  BY DEF Begun
<1>3. Remembers' /\ Located' /\ RefusedForCause'
  BY Zenon DEF Begun
<1>4. Locking'
  <2>1. name'.start <= data_size'
    BY <1>1, <1>2
  <2> QED
    BY <1>1, <1>2, <2>1, Zenon DEF Locking
<1>5. Scanning'
  BY <1>2, Zenon DEF Scanning
<1> QED
  BY <1>3, <1>4, <1>5, Zenon DEF NInv

\* While a name is looked up it is that of the same section and offset.
LEMMA Questioned ==
  ASSUME NInv, SameQuestion, name.state \notin {"none", "refused"},
         name'.clean => name.clean
  PROVE  /\ At' = At /\ str' = str
         /\ Remembers' /\ Located'
<1>1. str' = str /\ name'.section = name.section /\ name'.offset = name.offset
  BY Zenon DEF SameQuestion, Kept
<1>2. At' = At
  BY <1>1 DEF At
<1>3. Remembers' /\ Located'
  BY <1>1, Zenon DEF NInv, Remembers, Located, Proper, HasName
<1> QED
  BY <1>1, <1>2, <1>3

\* Where a name begins is a number.
LEMMA AtTyped ==
  ASSUME TInv, NInv, name.state \notin {"none", "refused"}
  PROVE  At \in Nat
<1>1. str \in StringTables /\ name \in Calls /\ name.offset \in 0..(str.size - 1)
  BY Zenon DEF TInv, Shapes, NInv, Located
<1> QED
  BY <1>1 DEF StringTables, At

\* A seek without a lock goes to the name, or fails and is a fault.
LEMMA SeekNameInv == ASSUME TInv, NInv, SeekName PROVE NInv'
<1>1. /\ SameQuestion /\ name.state = "seek"
      /\ name'.state = IF told' = At THEN "acquire" ELSE "refused"
      /\ name'.clean = (name.clean /\ (told' = At \/ locks # <<>>))
      /\ name'.start = name.start /\ name'.length = name.length /\ name'.valid = name.valid
      /\ Str!SeekHeld(At) \/ Str!SeekAway(At) \/ Str!SeekRefused(At)
  BY SeekChanges DEF TInv
<1>2. locks = <<>> /\ At \in Nat /\ CacheSound
  BY <1>1, AtTyped, Zenon DEF NInv, Locking
<1>3. CacheSound' /\ locks' = <<>> /\ data_size' = data_size /\ (told' = At => Place' = At)
  BY <1>1, <1>2, CacheSeeks
<1>4. At' = At /\ str' = str /\ Remembers' /\ Located'
  BY <1>1, Questioned, Zenon
<1>5. name'.state \in {"acquire", "refused"} /\ ~name'.valid /\ name'.length = 0
  BY <1>1, Zenon DEF NInv, Scanning
<1>6. Locking'
  BY <1>1, <1>3, <1>5, Zenon DEF NInv, Locking
<1>7. Scanning'
  BY <1>1, <1>3, <1>4, <1>5, Zenon DEF Scanning
<1>8. RefusedForCause'
  BY <1>1, <1>2, Zenon DEF RefusedForCause
<1> QED
  BY <1>3, <1>4, <1>6, <1>7, <1>8, Zenon DEF NInv

\* acquire() marks the first byte of the name, and nothing of it is scanned.
LEMMA AcquireNameInv == ASSUME TInv, NInv, AcquireName PROVE NInv'
<1>1. /\ SameQuestion /\ name.state = "acquire" /\ name'.state = "scan"
      /\ name'.start = data_index /\ name'.length = name.length
      /\ name'.valid = name.valid /\ name'.clean = name.clean
      /\ Str!Acquire
  BY AcquireChanges, Zenon DEF TInv, NInv
<1>2. locks = <<>> /\ CacheSound /\ Place = At /\ ~name.valid /\ name.length = 0
  BY <1>1, Zenon DEF NInv, Locking, Scanning
<1>3. /\ CacheSound' /\ locks' = <<[index |-> data_index, pos |-> Place]>>
      /\ UNCHANGED <<read_offset, data_index, data_size, buffer>>
  BY <1>1, <1>2, CacheAcquires
<1>4. At' = At /\ str' = str /\ Remembers' /\ Located'
  BY <1>1, Questioned, Zenon
<1>5. /\ Place' = Place /\ Place \in Nat /\ At \in Nat /\ data_index <= data_size
      /\ Ends \subseteq Nat
  BY <1>1, <1>2, <1>3, CacheTypes, AtTyped, SizesAssumption DEF Place
<1>6. Locking'
  BY <1>1, <1>2, <1>3, <1>4, <1>5, Zenon DEF Locking
<1>7. Scanning'
  <2>1. At <= Place /\ 0 = Place - At /\ NoEnd(At, Place)
    BY <1>2, <1>5 DEF NoEnd
  <2>2. NoEnd(At, Place)'
    BY <1>4, <1>5, <2>1, Zenon DEF NoEnd
  <2> QED
    BY <1>1, <1>2, <1>4, <1>5, <2>1, <2>2, Zenon DEF Scanning
<1>8. RefusedForCause'
  BY <1>1, Zenon DEF RefusedForCause
<1> QED
  BY <1>3, <1>4, <1>6, <1>7, <1>8, Zenon DEF NInv

\* A byte that is read is the next of the name, or its end, and is where it belongs in
\* the buffer; one that is not is a fault.
LEMMA ScanNameInv == ASSUME TInv, NInv, ScanName PROVE NInv'
<1> DEFINE ends == got' # <<>> /\ got'[1] \in Ends
<1>1. /\ SameQuestion /\ name.state = "scan" /\ name'.start = name.start
      /\ Str!Get
  BY ScanChanges, Zenon DEF TInv
<1>2. IF ends
      THEN /\ name'.state = "release" /\ name'.valid
           /\ name'.length = name.length /\ name'.clean = name.clean
      ELSE /\ name'.state = "scan" /\ name'.valid = name.valid
           /\ name'.length = name.length + 1
           /\ name'.clean = (name.clean /\ got' # <<>>)
  BY ScanChanges, Zenon DEF TInv
<1>3. /\ locks = <<[index |-> name.start, pos |-> At]>> /\ CacheSound
      /\ ~name.valid /\ At <= Place /\ NoEnd(At, Place)
      /\ name.clean => name.length = Place - At
      /\ name.start <= data_size
  BY <1>1, Zenon DEF NInv, Locking, Scanning
<1>4. /\ CacheSound' /\ locks' = locks /\ read_offset' = read_offset /\ data_size' >= data_size
      /\ \/ got' = <<>> /\ Place' = Place /\ data_index' = data_index
         \/ /\ got' # <<>> /\ got'[1] = Place /\ Place' = Place + 1
            /\ data_index' = data_index + 1
  BY <1>1, <1>3, CacheGets
<1>5. At' = At /\ str' = str /\ Remembers' /\ Located'
  BY <1>1, <1>2, Questioned, Zenon
<1>6. /\ Place \in Nat /\ At \in Nat /\ Ends \subseteq Nat /\ name.start \in Nat
      /\ name.length \in Nat
      /\ data_index \in Nat /\ read_offset \in Nat /\ data_size \in Nat
  <2>1. name \in Calls
    BY DEF TInv, Shapes
  <2> QED
    BY <1>1, <1>3, <2>1, CacheTypes, AtTyped, CallFields, SizesAssumption
<1>7. data_size' \in Nat /\ data_index' <= data_size'
  BY <1>4, SMT DEF CacheSound, Cache!IInv, Cache!TypeOK
<1>8. Locking'
  <2>1. name'.start <= data_size'
    BY <1>1, <1>3, <1>4, <1>6, <1>7
  <2> QED
    BY <1>1, <1>2, <1>3, <1>4, <1>5, <2>1, Zenon DEF Locking
<1>9. RefusedForCause'
  BY <1>2, Zenon DEF RefusedForCause
<1>10. CASE ~ends /\ got' = <<>>
  <2>1. NoEnd(At, Place)'
    BY <1>3, <1>4, <1>5, <1>10, Zenon DEF NoEnd
  <2>2. Scanning'
    BY <1>2, <1>3, <1>4, <1>5, <1>10, <2>1, Zenon DEF Scanning
  <2> QED
    BY <1>4, <1>5, <1>8, <1>9, <2>2, Zenon DEF NInv
<1>11. CASE ~ends /\ got' # <<>>
  <2>1. Place' = Place + 1 /\ Place \notin Ends
    BY <1>4, <1>11
  <2>2. NoEnd(At, Place + 1) /\ At <= Place + 1
    BY <1>3, <1>6, <2>1 DEF NoEnd
  <2>3. NoEnd(At, Place)' /\ (At <= Place)'
    BY <1>5, <2>1, <2>2, Zenon DEF NoEnd
  <2>4. name.clean => name.length + 1 = Place + 1 - At
    BY <1>3, <1>6
  <2>5. name'.state = "scan" /\ ~name'.valid
    BY <1>2, <1>3, <1>11, Zenon
  <2>6. name'.clean => name'.length = Place' - At'
    <3>1. name'.clean => name.clean /\ name'.length = name.length + 1
      BY <1>2, <1>11, Zenon
    <3>2. name.clean => name.length + 1 = Place' - At'
      BY <1>5, <1>6, <2>1, <2>4
    <3> QED
      BY <3>1, <3>2, Zenon
  <2>7. Scanning'
    BY <2>3, <2>5, <2>6, Zenon DEF Scanning
  <2> QED
    BY <1>4, <1>5, <1>8, <1>9, <2>7, Zenon DEF NInv
<1>12. CASE ends
  <2>1. got'[1] = Place /\ Place \in Ends /\ data_index' = data_index + 1
    BY <1>4, <1>12
  <2>2. /\ read_offset + name.start = At
        /\ \A k \in name.start..data_index : buffer'[k + 1] = read_offset + k
    <3>1. /\ read_offset' + locks'[1].index = locks'[1].pos
          /\ \A k \in locks'[1].index..(data_index' - 1) : buffer'[k + 1] = read_offset' + k
      <4>1. 1 \in 1..Len(locks')
        BY <1>3, <1>4
      <4> QED
        BY <1>4, <4>1 DEF CacheSound, Cache!IInv, Cache!ScanIntact
    <3>2. locks'[1].index = name.start /\ locks'[1].pos = At /\ data_index' - 1 = data_index
      BY <1>3, <1>4, <1>6, <2>1
    <3> QED
      BY <1>4, <3>1, <3>2, Zenon
  <2>3. ASSUME NEW k \in 0..(Place - At)
        PROVE  name.start + k + 1 <= data_size' /\ buffer'[name.start + k + 1] = At + k
    <3>1. /\ name.start + k \in name.start..data_index
          /\ name.start + k + 1 <= data_index'
      BY <1>6, <2>1, <2>2 DEF Place
    <3>2. buffer'[(name.start + k) + 1] = read_offset + (name.start + k)
      BY <2>2, <3>1
    <3>3. read_offset + (name.start + k) = At + k
      BY <1>6, <2>2
    <3> QED
      BY <1>6, <1>7, <2>1, <3>1, <3>2, <3>3
  <2>4. SpelledAt(At, name.start, name.length, name.clean)'
    <3>1. /\ NoEnd(At, Place) /\ At <= Place
          /\ name.clean => name.length = Place - At
      BY <1>3, Zenon
    <3> SUFFICES \E e \in Ends :
                   /\ At <= e /\ NoEnd(At, e)
                   /\ \A k \in 0..(e - At) :
                        name.start + k + 1 <= data_size' /\ buffer'[name.start + k + 1] = At + k
                   /\ name.clean => name.length = e - At
      BY <1>1, <1>2, <1>5, <1>12, Zenon DEF SpelledAt, NoEnd
    <3> QED
      BY <2>1, <2>3, <3>1, Zenon
  <2>5. Scanning'
    BY <1>2, <1>12, <2>4, Zenon DEF Scanning
  <2> QED
    BY <1>4, <1>5, <1>8, <1>9, <2>5, Zenon DEF NInv
<1> QED
  BY <1>10, <1>11, <1>12, Zenon

\* Behind the end of the file there is no name that the object has.
LEMMA ScanBeyondInv == ASSUME TInv, NInv, ScanBeyond PROVE NInv'
<1>1. /\ SameQuestion /\ name.state = "scan" /\ name'.state = "scan"
      /\ name'.start = name.start /\ name'.valid = name.valid /\ name'.clean = name.clean
      /\ FileSize <= read_offset /\ (Str!FetchFails(1) \/ Str!FetchReads(1))
      /\ locks' = locks
  BY BeyondChanges, Zenon DEF TInv
<1>2. /\ locks = <<[index |-> name.start, pos |-> At]>> /\ CacheSound /\ ~name.valid
      /\ At <= Place /\ NoEnd(At, Place) /\ name.start <= data_size
  BY <1>1, Zenon DEF NInv, Locking, Scanning
<1>3. /\ CacheSound' /\ Place' = Place /\ Place = read_offset /\ data_size <= data_size'
      /\ locks[1].index <= data_index /\ data_index = 0
      /\ read_offset + locks[1].index = locks[1].pos
  <2>1. /\ CacheSound' /\ Place' = Place /\ data_size <= data_size' /\ data_index = 0
        /\ Place = read_offset
    BY <1>1, <1>2, CacheBeyond
  <2>2. 1 \in 1..Len(locks)
    BY <1>2
  <2>3. /\ locks[1].index <= data_index
        /\ read_offset + locks[1].index = locks[1].pos
    BY <1>2, <2>2 DEF CacheSound, Cache!IInv, Cache!ScanIntact
  <2> QED
    BY <2>1, <2>3
<1>4. At' = At /\ str' = str /\ Remembers' /\ Located'
  BY <1>1, Questioned, Zenon
<1>5. name \in Calls /\ name.start \in Nat /\ At \in Nat /\ FileSize \in Nat
  BY <1>1, AtTyped, CallFields, SizesAssumption DEF TInv, Shapes
<1>6. FileSize <= At
  <2>1. locks[1].index = name.start /\ locks[1].pos = At
    BY <1>2
  <2>2. read_offset \in Nat
    BY <1>2, CacheTypes
  <2> QED
    BY <1>1, <1>3, <1>5, <2>1, <2>2
<1>7. ~name.clean
  <2> SUFFICES ASSUME name.clean PROVE FALSE
    OBVIOUS
  <2>1. /\ HasName(name.section, name.offset) /\ name.section = str.section
        /\ str.offset = Shdrs[str.section].offset
    BY <1>1, Zenon DEF NInv, Located, Proper
  <2>2. PICK e \in Ends : At <= e
    BY <2>1, Zenon DEF HasName, At
  <2>3. e \in 0..(FileSize - 1)
    BY SizesAssumption
  <2> QED
    BY <1>5, <1>6, <2>2, <2>3
<1>8. Locking'
  <2>1. name'.start <= data_size'
    BY <1>1, <1>2, <1>3, <1>5, CacheTypes DEF CacheSound, Cache!IInv, Cache!TypeOK
  <2> QED
    BY <1>1, <1>2, <1>4, <2>1, Zenon DEF Locking
<1>9. Scanning'
  BY <1>1, <1>2, <1>3, <1>4, <1>7, Zenon DEF Scanning, NoEnd
<1>10. RefusedForCause'
  BY <1>1, Zenon DEF RefusedForCause
<1> QED
  BY <1>3, <1>4, <1>8, <1>9, <1>10, Zenon DEF NInv

\* The scan is given up on a fault only: a name that the object has ends before.
LEMMA ScanOverrunInv == ASSUME TInv, NInv, ScanOverrun PROVE NInv'
<1>1. /\ SameQuestion /\ name.state = "scan" /\ name'.state = "release"
      /\ name'.start = name.start /\ name'.length = name.length
      /\ name'.valid = name.valid /\ name'.clean = name.clean
      /\ name.length >= Capacity /\ UNCHANGED cache
  BY OverrunChanges, Zenon DEF TInv
<1>2. /\ locks = <<[index |-> name.start, pos |-> At]>> /\ CacheSound
      /\ ~name.valid /\ NoEnd(At, Place) /\ (name.clean => name.length = Place - At)
  BY <1>1, Zenon DEF NInv, Locking, Scanning
<1>3. CacheSound' /\ CacheStays
  BY <1>1, <1>2, CacheIdle
<1>4. At' = At /\ str' = str /\ Remembers' /\ Located'
  BY <1>1, Questioned, Zenon
<1>5. ~name.clean
  <2> SUFFICES ASSUME name.clean PROVE FALSE
    OBVIOUS
  <2>1. /\ HasName(name.section, name.offset) /\ name.section = str.section
        /\ str.offset = Shdrs[str.section].offset
    BY <1>1, Zenon DEF NInv, Located, Proper
  <2>2. PICK e \in Ends : At <= e /\ e < At + Capacity
    BY <2>1, Zenon DEF HasName, At
  <2>3. e \in Nat /\ At \in Nat /\ Place \in Nat /\ Capacity \in Nat
    BY <1>1, <1>2, AtTyped, CacheTypes, SizesAssumption
  <2>4. e < Place
    BY <1>1, <1>2, <2>2, <2>3
  <2> QED
    BY <1>2, <2>2, <2>4 DEF NoEnd
<1>6. Locking'
  BY <1>1, <1>2, <1>3, <1>4, Zenon DEF NInv, Locking, CacheStays
<1>7. Scanning'
  BY <1>1, <1>2, <1>5, Zenon DEF Scanning
<1>8. RefusedForCause'
  BY <1>1, Zenon DEF RefusedForCause
<1> QED
  BY <1>3, <1>4, <1>6, <1>7, <1>8, Zenon DEF NInv

\* release() leaves the bytes of the name where they are.
LEMMA ReleaseNameInv == ASSUME TInv, NInv, ReleaseName PROVE NInv'
<1>1. /\ SameQuestion /\ name.state = "release"
      /\ name'.state = IF name.valid THEN "given" ELSE "refused"
      /\ name'.start = name.start /\ name'.length = name.length
      /\ name'.valid = name.valid /\ name'.clean = name.clean
      /\ Str!Release
  BY ReleaseChanges DEF TInv
<1>2. /\ locks = <<[index |-> name.start, pos |-> At]>> /\ CacheSound
      /\ ~name.valid => ~name.clean
      /\ name.valid => SpelledAt(At, name.start, name.length, name.clean)
  BY <1>1, Zenon DEF NInv, Locking, Scanning
<1>3. /\ CacheSound' /\ locks' = <<>>
      /\ UNCHANGED <<read_offset, data_index, data_size, buffer>>
  <2>1. Len(locks) = 1
    BY <1>2
  <2> QED
    BY <1>1, <1>2, <2>1, CacheReleases
<1>4. At' = At /\ str' = str /\ Remembers' /\ Located'
  BY <1>1, Questioned, Zenon
<1>5. name'.state \in {"given", "refused"}
  BY <1>1, Zenon
<1>6. Locking'
  BY <1>1, <1>3, <1>5, Zenon DEF NInv, Locking
<1>7. Scanning'
  BY <1>1, <1>2, <1>3, <1>4, <1>5, Zenon DEF Scanning, SpelledAt, NoEnd
<1>8. RefusedForCause'
  BY <1>1, <1>2, Zenon DEF RefusedForCause
<1> QED
  BY <1>3, <1>4, <1>6, <1>7, <1>8, Zenon DEF NInv

\* A step of ids_str_get() keeps what holds of the name.
LEMMA NameInv == ASSUME TInv, NInv, Name PROVE NInv'
  BY SeekNameInv, AcquireNameInv, ScanNameInv, ScanBeyondInv, ScanOverrunInv, ReleaseNameInv, Zenon
     DEF Name

\* A pass leaves the string cache alone, or only moves the file.
LEMMA CacheAround ==
  ASSUME NInv, Moved \/ UNCHANGED cache
  PROVE  CacheSound' /\ CacheStays
  BY CacheIdle, CacheMoved DEF NInv

\* A section that is read well has a name in the object's string table.
LEMMA SectionNamed ==
  ASSUME TInv, NEW r \in ShdrReads(index)
  PROVE  /\ r.shdr.name \in Int /\ ehdr.strndx \in Int /\ (r.clean /\ ehdr.clean) \in BOOLEAN
         /\ r.clean /\ ehdr.clean => HasName(ehdr.strndx, r.shdr.name)
<1>1. index \in Int
  BY DEF TInv, Shapes
<1>2. /\ r.clean \in BOOLEAN /\ r.shdr \in SectionHeaders
      /\ r.clean => index \in DOMAIN Shdrs /\ r.shdr = Shdrs[index]
  BY <1>1, SectionRead, Zenon DEF TInv
<1>3. ehdr.strndx \in Nat /\ ehdr.clean \in BOOLEAN /\ (ehdr.clean => ehdr \in Ehdrs)
  BY EhdrTyped DEF TInv
<1>4. r.shdr.name \in Int
  <2>1. r.shdr \in Headers
    BY <1>2, HeadersTyped
  <2> QED
    BY <2>1 DEF Headers
<1>5. r.clean /\ ehdr.clean => HasName(ehdr.strndx, r.shdr.name)
  <2> SUFFICES ASSUME r.clean, ehdr.clean PROVE HasName(ehdr.strndx, r.shdr.name)
    OBVIOUS
  <2>1. index \in DOMAIN Shdrs /\ r.shdr = Shdrs[index] /\ ehdr \in Ehdrs
    BY <1>2, <1>3, Zenon
  <2>2. HasName(ehdr.strndx, Shdrs[index].name)
    BY <2>1, ObjectAssumption, Zenon
  <2> QED
    BY <2>1, <2>2, Zenon
<1>6. ehdr.strndx \in Int /\ (r.clean /\ ehdr.clean) \in BOOLEAN
  BY <1>2, <1>3
<1> QED
  BY <1>4, <1>5, <1>6, Zenon

\* A symbol that is read well has a name in the string table its section is linked to.
LEMMA SymbolNamed ==
  ASSUME TInv, Within("import"), item <= SymCount(shdr), NEW r \in SymReads(shdr.items[item])
  PROVE  /\ r.ok \in BOOLEAN /\ r.sym \in Symbols
         /\ r.sym.name \in Int /\ shdr.link \in Int /\ r.sym.clean \in BOOLEAN
         /\ r.sym.clean => HasName(shdr.link, r.sym.name)
<1>1. /\ shdr \in SectionHeaders /\ shdr # Nothing /\ item \in Nat /\ item # 0
  BY Zenon DEF TInv, Shapes, Walking, Within
<1>2. shdr \in Headers
  BY <1>1, HeadersTyped
<1>3. shdr.link \in Int /\ shdr.items \in Seq(Symbols)
  BY <1>2 DEF Headers
<1>4. item \in 1..Len(shdr.items)
  <2>1. CASE shdr.type = "symtab"
    BY <1>1, <1>3, <2>1 DEF SymCount
  <2>2. CASE shdr.type # "symtab"
    BY <1>1, <2>2 DEF SymCount
  <2> QED
    BY <2>1, <2>2
<1>5. shdr.items[item] \in Symbols
  BY <1>3, <1>4
<1>6. r.ok \in BOOLEAN /\ r.sym \in Symbols /\ (r.sym.clean => r.sym = shdr.items[item])
  BY <1>5, SymbolRead
<1>7. shdr.items[item].clean => HasName(shdr.link, shdr.items[item].name)
  <2>1. CASE shdr \in JunkShdrs
    BY <1>4, <2>1, JunkAssumption, Zenon
  <2>2. CASE \E i \in DOMAIN Shdrs : shdr = Shdrs[i]
    BY <1>4, <2>2, ObjectAssumption, Zenon
  <2> QED
    BY <1>1, <2>1, <2>2, Zenon DEF SectionHeaders
<1>8. r.sym.name \in Int /\ r.sym.clean \in BOOLEAN
  BY <1>6 DEF Symbols
<1> QED
  BY <1>3, <1>6, <1>7, <1>8, Zenon

\* Opening the file asks for no name.
LEMMA OpenNInv == ASSUME TInv, NInv, Open PROVE NInv'
<1>1. str' = str /\ name' = name /\ (Moved \/ UNCHANGED cache)
  BY Zenon DEF Open, OpenRaw, OpenFails, ReadIdent, ReadEhdr, reader
<1> QED
  BY <1>1, CacheAround, NameStays, Zenon

\* prefetch() asks for a name when it has none, and is done with it before the next.
LEMMA PrefetchNInv == ASSUME TInv, NInv, Prefetch PROVE NInv'
<1>1. CASE PrefetchSection
  <2>1. PICK r \in ShdrReads(index) :
          IF r.ok THEN Ask(ehdr.strndx, r.shdr.name, r.clean /\ ehdr.clean)
          ELSE name' = NoName /\ str' = str
    BY <1>1, Zenon DEF PrefetchSection, NextSection
  <2>2. CacheSound' /\ CacheStays
    BY <1>1, CacheAround, Zenon DEF PrefetchSection
  <2>3. name.state \notin {"scan", "release"}
    BY <1>1, Zenon DEF PrefetchSection
  <2>4. CASE r.ok
    <3>1. Shapes /\ Remembers
      BY Zenon DEF TInv, NInv
    <3>2. Begun
      BY <2>1, <2>4, <3>1, Asked, SectionNamed, Zenon
    <3> QED
      BY <2>2, <2>3, <3>2, NameBegun, Zenon
  <2>5. CASE ~r.ok
    BY <2>1, <2>2, <2>3, <2>5, NameDropped, Zenon
  <2> QED
    BY <2>4, <2>5
<1>2. CASE PrefetchUnnamed \/ PrefetchNamed \/ PrefetchFails \/ PrefetchDone
  <2>1. /\ str' = str /\ name' = NoName /\ name.state \notin {"scan", "release"}
        /\ Moved \/ UNCHANGED cache
    BY <1>2, Zenon DEF PrefetchUnnamed, PrefetchNamed, PrefetchFails, PrefetchDone,
                       NextSection, StartImport
  <2> QED
    BY <2>1, CacheAround, NameDropped, Zenon
<1> QED
  BY <1>1, <1>2, Zenon DEF Prefetch

\* A name that was given is held while the symbol's section is read.
LEMMA ImportBodyInv == ASSUME TInv, NInv, ImportBody PROVE NInv'
<1>1. /\ name.state = "given" /\ name' = [name EXCEPT !.state = "held"]
      /\ UNCHANGED <<phase, elf, ehdr, str, walk>> /\ (Moved \/ UNCHANGED cache)
  BY Zenon DEF ImportBody
<1>2. name \in Calls /\ "held" \in States
  BY Zenon DEF TInv, Shapes, States
<1>3. Becomes(name, name', "held", name.start, name.length, name.valid, name.clean)
  BY <1>1, <1>2, CallState, Zenon
<1>4. /\ SameQuestion /\ name'.state = "held" /\ name'.start = name.start
      /\ name'.length = name.length /\ name'.valid = name.valid /\ name'.clean = name.clean
  BY <1>1, <1>3, Zenon DEF SameQuestion, Becomes
<1>5. CacheSound' /\ CacheStays
  BY <1>1, CacheAround
<1>6. At' = At /\ str' = str /\ Remembers' /\ Located'
  BY <1>1, <1>4, Questioned, Zenon
<1>7. Locking'
  BY <1>1, <1>4, <1>5, Zenon DEF NInv, Locking, CacheStays
<1>8. name.valid /\ SpelledAt(At, name.start, name.length, name.clean)
  BY <1>1, Zenon DEF NInv, Scanning
<1>9. Scanning'
  BY <1>4, <1>5, <1>6, <1>8, Zenon DEF Scanning, SpelledAt, NoEnd, CacheStays
<1>10. RefusedForCause'
  BY <1>4, Zenon DEF RefusedForCause
<1> QED
  BY <1>5, <1>6, <1>7, <1>9, <1>10, Zenon DEF NInv

\* uld_import() asks for a name when it has none, and is done with it when it has the
\* symbol.
LEMMA ImportNInv == ASSUME TInv, NInv, Import PROVE NInv'
<1>1. CASE ImportSymbol
  <2>1. Within("import") /\ item <= SymCount(shdr)
    BY <1>1, Zenon DEF ImportSymbol
  <2>2. PICK r \in SymReads(shdr.items[item]) :
          IF r.ok THEN Ask(shdr.link, r.sym.name, r.sym.clean)
          ELSE name' = name /\ str' = str
    BY <1>1, Zenon DEF ImportSymbol
  <2>3. CacheSound' /\ CacheStays
    BY <1>1, CacheAround, Zenon DEF ImportSymbol
  <2>4. CASE r.ok
    <3>1. Shapes /\ Remembers
      BY Zenon DEF TInv, NInv
    <3>2. /\ r.sym.name \in Int /\ shdr.link \in Int /\ r.sym.clean \in BOOLEAN
          /\ r.sym.clean => HasName(shdr.link, r.sym.name)
      BY <2>1, SymbolNamed, Zenon
    <3>3. Begun
      BY <2>2, <2>4, <3>1, <3>2, Asked, Zenon
    <3>4. name.state \notin {"scan", "release"}
      BY <2>1, Zenon DEF Within
    <3> QED
      BY <2>3, <3>3, <3>4, NameBegun, Zenon
  <2>5. CASE ~r.ok
    BY <2>2, <2>3, <2>5, NameStays, Zenon
  <2> QED
    BY <2>4, <2>5
<1>2. CASE ImportTake
  <2>1. /\ str' = str /\ name' = NoName /\ name.state \notin {"scan", "release"}
        /\ UNCHANGED cache
    BY <1>2, Zenon DEF ImportTake
  <2> QED
    BY <2>1, CacheAround, NameDropped, Zenon
<1>3. CASE ImportNothing \/ ImportSection \/ ImportFails \/ ImportTable \/ ImportDone
  <2>1. str' = str /\ name' = name /\ (Moved \/ UNCHANGED cache)
    BY <1>3, Zenon DEF ImportNothing, ImportSection, ImportFails, ImportTable, ImportDone, reader
  <2> QED
    BY <2>1, CacheAround, NameStays, Zenon
<1> QED
  BY <1>1, <1>2, <1>3, ImportBodyInv, Zenon DEF Import

\* uld_resolve() asks for no name.
LEMMA ResolveNInv == ASSUME TInv, NInv, Resolve PROVE NInv'
<1>1. str' = str /\ name' = name /\ (Moved \/ UNCHANGED cache)
  BY Zenon DEF Resolve, ResolveSection, ResolveEntry, ResolveTable, ResolveDone, reader
<1> QED
  BY <1>1, CacheAround, NameStays, Zenon

-----------------------------------------------------------------------------
(***************************************************************************)
(* Types and the walk, pass by pass.                                       *)
(***************************************************************************)

\* A pass goes on to the next section, or starts, or has one in hand that there is.
PassOn ==
  \/ index' = 0 /\ shdr' = Nothing /\ name'.state = "none"
  \/ index' = index + 1 /\ index < ehdr.count /\ shdr' = Nothing /\ name'.state = "none"
  \/ index' = index /\ (shdr' # Nothing \/ name'.state # "none" => index < ehdr.count)

Flags == have' \in BOOLEAN /\ short' \in BOOLEAN /\ bound' \in BOOLEAN /\ lost' \in BOOLEAN

\* A step of a pass that keeps the types of what it changes.
LEMMA PassTypes ==
  ASSUME TInv, phase' \in Phases \ Early, elf' = elf, ehdr' = ehdr,
         str' \in StringTables, name' \in Calls, name'.length <= Capacity,
         item' \in Nat, sym' \in Symbols, shdr' \in SectionHeaders, Flags, PassOn,
         phase' \in {"import", "resolve"} /\ shdr' # Nothing => item' # 0
  PROVE  TInv'
<1>1. index \in Nat /\ index <= ehdr.count /\ ehdr.count \in Nat
  BY EhdrTyped DEF TInv, Shapes, Walking
<1>2. index' \in Nat /\ index' <= ehdr.count
  BY <1>1 DEF PassOn
<1>3. Shapes'
  BY <1>2, Zenon DEF TInv, Shapes, Flags
<1>4. Walking'
  <2>1. shdr' # Nothing \/ name'.state # "none" => index' < ehdr.count
    BY <1>1 DEF PassOn
  <2> QED
    BY <1>2, <2>1, Zenon DEF Walking
<1> QED
  BY <1>3, <1>4, Zenon DEF TInv

\* What there is of a call that was not made, or of one that is just made.
LEMMA Fresh ==
  ASSUME name' = NoName \/ Begun
  PROVE  name' \in Calls /\ name'.length <= Capacity
<1>1. CASE name' = NoName
  BY <1>1, NoNameTyped
<1>2. CASE Begun
  <2>1. 0 <= Capacity
    BY SizesAssumption
  <2> QED
    BY <1>2, <2>1, Zenon DEF Begun
<1> QED
  BY <1>1, <1>2

\* What a section's header may be.
LEMMA ShdrTyped ==
  ASSUME TInv
  PROVE  /\ Nothing \in SectionHeaders
         /\ \A r \in ShdrReads(index) :
              r.shdr \in SectionHeaders /\ r.ok \in BOOLEAN /\ r.clean \in BOOLEAN
<1>1. index \in Int
  BY DEF TInv, Shapes
<1> QED
  BY <1>1, SectionRead, Zenon DEF TInv, SectionHeaders

\* The members a file's header fills, before any pass.
LEMMA OpenTypes == ASSUME TInv, Open PROVE TInv'
<1>1. /\ index = 0 /\ shdr = Nothing /\ name.state = "none"
      /\ index' = index /\ shdr' = shdr /\ name' = name /\ str' = str /\ item' = item
      /\ sym' = sym /\ have' = have /\ short' = short /\ bound' = bound
      /\ phase' \in Phases
  BY Zenon DEF TInv, Walking, Early, Phases, Open, OpenRaw, OpenFails, ReadIdent, ReadEhdr,
               Fail, reader, walk
<1>2. /\ elf' \in BOOLEAN /\ lost' \in BOOLEAN
      /\ ehdr' \in {NoEhdr} \union Ehdrs \union JunkEhdrs
  <2>1. CASE OpenRaw \/ OpenFails
    BY <2>1, Zenon DEF TInv, Shapes, OpenRaw, OpenFails, reader, walk
  <2>2. CASE ReadIdent
    BY <2>2, Zenon DEF TInv, Shapes, ReadIdent, walk
  <2>3. CASE ReadEhdr
    <3>1. PICK e \in (IF elf THEN Ehdrs ELSE JunkEhdrs) \union (IF Faulty THEN JunkEhdrs ELSE {}) :
            ehdr' = e /\ lost' = ~e.clean /\ elf' = elf
      BY <2>3, Zenon DEF ReadEhdr
    <3>2. e \in Ehdrs \union JunkEhdrs
      BY <3>1, Zenon
    <3> QED
      BY <3>1, <3>2, Zenon DEF TInv, Shapes
  <2> QED
    BY <2>1, <2>2, <2>3, Zenon DEF Open
<1>3. Shapes'
  BY <1>1, <1>2, Zenon DEF TInv, Shapes
<1>4. 0 <= ehdr'.count
  <2>1. NoEhdr.count \in Nat
    BY DEF NoEhdr
  <2>2. \A e \in Ehdrs \union JunkEhdrs : e.count \in Nat
    BY HeadersAssumption DEF ElfHeaders
  <2>3. ehdr'.count \in Nat
    BY <1>2, <2>1, <2>2, Zenon
  <2> QED
    BY <2>3
<1>5. Walking'
  BY <1>1, <1>4, Zenon DEF Walking
<1> QED
  BY <1>3, <1>5, Zenon DEF TInv

\* The first pass leaves a section behind when it is done with its name.
LEMMA PrefetchTypes == ASSUME TInv, NInv, Prefetch PROVE TInv'
<1>1. /\ phase = "prefetch"
      /\ elf' = elf /\ ehdr' = ehdr /\ item' = item /\ sym' = sym /\ short' = short
      /\ bound' = bound
      /\ phase' \in {"prefetch", "import", "failed"}
  BY Zenon DEF Prefetch, PrefetchSection, PrefetchUnnamed, PrefetchNamed, PrefetchFails,
               PrefetchDone, StartImport
<1>2. phase' \in Phases \ Early
  BY <1>1, Zenon DEF Phases, Early
<1>3. /\ item' \in Nat /\ sym' \in Symbols /\ short' \in BOOLEAN /\ bound' \in BOOLEAN
      /\ str \in StringTables /\ have \in BOOLEAN /\ lost \in BOOLEAN
  BY <1>1, Zenon DEF TInv, Shapes
<1>4. /\ Nothing \in SectionHeaders
      /\ \A r \in ShdrReads(index) : r.shdr \in SectionHeaders
  BY ShdrTyped, Zenon
<1>5. NoName.state = "none"
  BY NoNameTyped
<1>6. CASE PrefetchSection
  <2>1. PICK r \in ShdrReads(index) :
          /\ lost' = (lost \/ ~r.clean) /\ have' = have /\ phase' = phase
          /\ index < ehdr.count
          /\ IF r.ok
             THEN /\ shdr' = r.shdr /\ Ask(ehdr.strndx, r.shdr.name, r.clean /\ ehdr.clean)
                  /\ index' = index
             ELSE NextSection /\ str' = str
    BY <1>6, Zenon DEF PrefetchSection
  <2>2. Flags
    BY <1>3, <2>1, Zenon DEF Flags
  <2>3. CASE r.ok
    <3>1. Shapes /\ Remembers
      BY Zenon DEF TInv, NInv
    <3>2. Begun
      BY <2>1, <2>3, <3>1, Asked, SectionNamed, Zenon
    <3>3. str' \in StringTables /\ shdr' \in SectionHeaders
      BY <1>4, <2>1, <2>3, <3>2, Zenon DEF Begun
    <3>4. PassOn
      BY <2>1, <2>3, Zenon DEF PassOn
    <3> QED
      BY <1>1, <1>2, <1>3, <2>1, <2>2, <3>2, <3>3, <3>4, Fresh, PassTypes, Zenon
  <2>4. CASE ~r.ok
    <3>1. str' = str /\ index' = index + 1 /\ shdr' = Nothing /\ name' = NoName
      BY <2>1, <2>4, Zenon DEF NextSection
    <3>2. PassOn
      BY <1>5, <2>1, <3>1, Zenon DEF PassOn
    <3> QED
      BY <1>1, <1>2, <1>3, <1>4, <2>2, <3>1, <3>2, Fresh, PassTypes, Zenon
  <2> QED
    BY <2>3, <2>4
<1>7. CASE PrefetchUnnamed \/ PrefetchNamed \/ PrefetchFails \/ PrefetchDone
  <2>1. /\ str' = str /\ shdr' = Nothing /\ name' = NoName
        /\ index' = 0 \/ (index' = index + 1 /\ name.state # "none")
    BY <1>7, Zenon DEF PrefetchUnnamed, PrefetchNamed, PrefetchFails, PrefetchDone,
                       NextSection, StartImport
  <2>2. PassOn
    BY <1>5, <2>1, Zenon DEF PassOn, TInv, Walking
  <2>3. Flags
    BY <1>3, <1>7, Zenon DEF Flags, PrefetchUnnamed, PrefetchNamed, PrefetchFails, PrefetchDone
  <2> QED
    BY <1>1, <1>2, <1>3, <1>4, <2>1, <2>2, <2>3, Fresh, PassTypes, Zenon
<1> QED
  BY <1>6, <1>7, Zenon DEF Prefetch

\* Table() leaves a section behind or begins it.
LEMMA TableTypes ==
  ASSUME TInv, index < ehdr.count, name.state = "none", shdr = Nothing, name' = name,
         NEW type, NEW r \in ShdrReads(index), Table(r, type)
  PROVE  /\ shdr' \in SectionHeaders /\ item' \in Nat /\ PassOn
         /\ shdr' # Nothing => item' # 0
<1>1. r.shdr \in SectionHeaders /\ Nothing \in SectionHeaders /\ item \in Nat
  BY ShdrTyped, Zenon DEF TInv, Shapes
<1>2. CASE r.ok /\ r.shdr.type = type
  <2>1. shdr' = r.shdr /\ item' = 1 /\ index' = index
    BY <1>2, Zenon DEF Table
  <2>2. PassOn
    BY <2>1, Zenon DEF PassOn
  <2> QED
    BY <1>1, <2>1, <2>2
<1>3. CASE ~(r.ok /\ r.shdr.type = type)
  <2>1. index' = index + 1 /\ shdr' = shdr /\ item' = item
    BY <1>3, Zenon DEF Table
  <2>2. PassOn
    BY <2>1, Zenon DEF PassOn
  <2> QED
    BY <1>1, <2>1, <2>2
<1> QED
  BY <1>2, <1>3, Zenon

\* The second pass leaves a table behind when it is done with its symbols.
LEMMA ImportTypes == ASSUME TInv, NInv, Import PROVE TInv'
<1>1. /\ phase = "import" /\ elf' = elf /\ ehdr' = ehdr /\ have' = have /\ lost' \in BOOLEAN
      /\ phase' \in {"import", "resolve", "loaded", "failed"}
  <2>1. \A r \in ShdrReads(index) : (lost \/ (r.ok /\ ~r.clean)) \in BOOLEAN
    BY Zenon DEF TInv, Shapes
  <2>2. ImportSection => lost' \in BOOLEAN
    BY <2>1, Zenon DEF ImportSection
  <2> QED
    BY <2>2, Zenon DEF Import, ImportNothing, ImportSection, ImportSymbol, ImportBody, ImportTake,
           ImportFails, ImportTable, ImportDone, Between, Within, Fail, Short, reader, walk,
           TInv, Shapes
<1>2. phase' \in Phases \ Early
  BY <1>1, Zenon DEF Phases, Early
<1>3. /\ have' \in BOOLEAN /\ short \in BOOLEAN /\ bound \in BOOLEAN /\ lost \in BOOLEAN
      /\ str \in StringTables /\ sym \in Symbols /\ item \in Nat /\ name \in Calls
      /\ name.length <= Capacity /\ shdr \in SectionHeaders /\ Nothing \in SectionHeaders
      /\ item + 1 \in Nat /\ index \in Nat
  <2>1. item \in Nat /\ index \in Nat
    BY DEF TInv, Shapes
  <2>2. item + 1 \in Nat
    BY <2>1
  <2> QED
    BY <1>1, <2>1, <2>2, ShdrTyped, Zenon DEF TInv, Shapes
<1>4. /\ shdr # Nothing \/ name.state # "none" => index < ehdr.count
      /\ shdr # Nothing => item # 0
  BY <1>1, Zenon DEF TInv, Walking
<1>5. item + 1 # 0
  BY <1>3
<1>6. CASE ImportSection
  <2>1. PICK r \in ShdrReads(index) :
          Table(r, "symtab") /\ short' = (short \/ ~r.ok) /\ lost' = (lost \/ (r.ok /\ ~r.clean))
    BY <1>6, Zenon DEF ImportSection
  <2>2. /\ name' = name /\ str' = str /\ sym' = sym /\ bound' = bound
        /\ name.state = "none" /\ shdr = Nothing /\ index < ehdr.count
    BY <1>6, Zenon DEF ImportSection, Between, reader
  <2>3. Flags
    BY <1>1, <1>3, <2>1, <2>2, Zenon DEF Flags
  <2>4. shdr' \in SectionHeaders /\ item' \in Nat /\ PassOn /\ (shdr' # Nothing => item' # 0)
    BY <2>1, <2>2, TableTypes, Zenon
  <2> QED
    BY <1>1, <1>2, <1>3, <2>2, <2>3, <2>4, PassTypes, Zenon
<1>7. CASE ImportSymbol
  <2>1. PICK r \in SymReads(shdr.items[item]) :
          IF r.ok
          THEN /\ sym' = r.sym /\ Ask(shdr.link, r.sym.name, r.sym.clean) /\ item' = item
               /\ short' = short
          ELSE item' = item + 1 /\ short' = TRUE /\ sym' = sym /\ str' = str /\ name' = name
    BY <1>7, Zenon DEF ImportSymbol
  <2>2. /\ index' = index /\ shdr' = shdr /\ bound' = bound /\ lost' = lost
        /\ Within("import") /\ item <= SymCount(shdr) /\ shdr # Nothing
    BY <1>7, Zenon DEF ImportSymbol, Within
  <2>3. /\ r.sym \in Symbols /\ r.sym.name \in Int /\ shdr.link \in Int
        /\ r.sym.clean \in BOOLEAN /\ (r.sym.clean => HasName(shdr.link, r.sym.name))
    BY <2>2, SymbolNamed, Zenon
  <2>4. PassOn
    BY <1>4, <2>2, Zenon DEF PassOn
  <2>5. CASE r.ok
    <3>1. Shapes /\ Remembers
      BY Zenon DEF TInv, NInv
    <3>2. Begun
      BY <2>1, <2>3, <2>5, <3>1, Asked, Zenon
    <3>3. str' \in StringTables /\ sym' \in Symbols /\ item' = item /\ Flags
      BY <1>1, <1>3, <2>1, <2>2, <2>3, <2>5, <3>2, Zenon DEF Begun, Flags
    <3> QED
      BY <1>1, <1>2, <1>3, <1>4, <2>2, <2>4, <3>2, <3>3, Fresh, PassTypes, Zenon
  <2>6. CASE ~r.ok
    <3>1. /\ str' = str /\ sym' = sym /\ item' = item + 1 /\ name' = name
          /\ Flags
      BY <1>1, <1>3, <2>1, <2>2, <2>6, Zenon DEF Flags
    <3> QED
      BY <1>1, <1>2, <1>3, <1>5, <2>2, <2>4, <3>1, PassTypes, Zenon
  <2> QED
    BY <2>5, <2>6
<1>8. CASE ImportBody
  <2>1. /\ name.state = "given" /\ name' = [name EXCEPT !.state = "held"]
        /\ UNCHANGED <<str, index, shdr, item, sym, short, bound, lost>>
    BY <1>8, Zenon DEF ImportBody, walk
  <2>2. "held" \in States
    BY Zenon DEF States
  <2>3. Becomes(name, name', "held", name.start, name.length, name.valid, name.clean)
    BY <1>3, <2>1, <2>2, CallState, Zenon
  <2>4. name' \in Calls /\ name'.length <= Capacity
    BY <1>3, <2>3, Zenon DEF Becomes, Kept
  <2>5. PassOn /\ Flags
    BY <1>1, <1>3, <1>4, <2>1, Zenon DEF PassOn, Flags
  <2> QED
    BY <1>1, <1>2, <1>3, <1>4, <2>1, <2>4, <2>5, PassTypes, Zenon
<1>9. CASE ImportTake
  <2>1. /\ name' = NoName /\ name.state # "none" /\ item' = item + 1
        /\ bound' = (bound \/ sym.body) /\ UNCHANGED <<str, index, shdr, sym, short, lost>>
    BY <1>9, Zenon DEF ImportTake
  <2>2. PassOn /\ Flags
    BY <1>1, <1>3, <1>4, <2>1, Zenon DEF PassOn, Flags
  <2> QED
    BY <1>1, <1>2, <1>3, <1>5, <2>1, <2>2, Fresh, PassTypes, Zenon
<1>10. CASE ImportNothing \/ ImportFails
  <2>1. /\ UNCHANGED <<str, name, index, shdr, item, sym, short, bound, lost>>
    BY <1>10, Zenon DEF ImportNothing, ImportFails, reader, walk
  <2>2. PassOn /\ Flags
    BY <1>1, <1>3, <1>4, <2>1, Zenon DEF PassOn, Flags
  <2> QED
    BY <1>1, <1>2, <1>3, <1>4, <2>1, <2>2, PassTypes, Zenon
<1>11. CASE ImportTable \/ ImportDone
  <2>1. /\ UNCHANGED <<str, name, item, sym, bound, lost>>
        /\ short' \in BOOLEAN /\ name.state = "none"
        /\ \/ index' = index /\ shdr' = shdr
           \/ index' = index + 1 /\ shdr' = Nothing /\ shdr # Nothing
           \/ index' = 0 /\ shdr' = shdr /\ shdr = Nothing
    BY <1>3, <1>11, Zenon DEF ImportTable, ImportDone, reader, walk, Within, Between
  <2>2. PassOn /\ Flags
    BY <1>1, <1>3, <1>4, <2>1, Zenon DEF PassOn, Flags
  <2>3. shdr' \in SectionHeaders /\ (shdr' # Nothing => item' # 0)
    BY <1>3, <1>4, <2>1, Zenon
  <2> QED
    BY <1>1, <1>2, <1>3, <2>1, <2>2, <2>3, PassTypes, Zenon
<1> QED
  BY <1>6, <1>7, <1>8, <1>9, <1>10, <1>11, Zenon DEF Import

\* The third pass leaves a table behind when it is done with its entries.
LEMMA ResolveTypes == ASSUME TInv, Resolve PROVE TInv'
<1>1. /\ phase = "resolve" /\ elf' = elf /\ ehdr' = ehdr /\ have' = have /\ bound' = bound
      /\ name' = name /\ str' = str /\ sym' = sym /\ name.state = "none"
      /\ phase' \in {"resolve", "loaded", "failed"}
  BY Zenon DEF Resolve, ResolveSection, ResolveEntry, ResolveTable, ResolveDone, Between,
               Within, Fail, reader, walk
<1>2. phase' \in Phases \ Early
  BY <1>1, Zenon DEF Phases, Early
<1>3. /\ have \in BOOLEAN /\ short \in BOOLEAN /\ bound \in BOOLEAN /\ lost \in BOOLEAN
      /\ str \in StringTables /\ sym \in Symbols /\ item \in Nat /\ name \in Calls
      /\ name.length <= Capacity /\ shdr \in SectionHeaders /\ Nothing \in SectionHeaders
      /\ item + 1 \in Nat /\ item + 1 # 0
  <2>1. item \in Nat
    BY DEF TInv, Shapes
  <2>2. item + 1 \in Nat /\ item + 1 # 0
    BY <2>1
  <2> QED
    BY <2>1, <2>2, ShdrTyped, Zenon DEF TInv, Shapes
<1>4. /\ shdr # Nothing => index < ehdr.count
      /\ shdr # Nothing => item # 0
  BY <1>1, Zenon DEF TInv, Walking
<1>5. CASE ResolveSection
  <2>1. PICK r \in ShdrReads(index) : Table(r, "rel") /\ lost' = (lost \/ ~r.clean)
    BY <1>5, Zenon DEF ResolveSection
  <2>2. short' = short /\ shdr = Nothing /\ index < ehdr.count
    BY <1>5, Zenon DEF ResolveSection, Between
  <2>3. Flags
    BY <1>1, <1>3, <2>1, <2>2, Zenon DEF Flags
  <2>4. shdr' \in SectionHeaders /\ item' \in Nat /\ PassOn /\ (shdr' # Nothing => item' # 0)
    BY <1>1, <2>1, <2>2, TableTypes, Zenon
  <2> QED
    BY <1>1, <1>2, <1>3, <2>3, <2>4, PassTypes, Zenon
<1>6. CASE ResolveEntry
  <2>1. /\ index' = index /\ shdr' = shdr /\ shdr # Nothing
        /\ item' = item \/ item' = item + 1
        /\ short' \in BOOLEAN /\ lost' \in BOOLEAN
    <3>1. PICK read \in RelReads :
            \/ item' = item + 1 /\ short' = (short \/ ~read) /\ lost' = (lost \/ ~read)
            \/ item' = item /\ short' = short /\ lost' = lost
      BY <1>6, Zenon DEF ResolveEntry
    <3> QED
      BY <1>3, <1>6, <3>1, Zenon DEF ResolveEntry, Within
  <2>2. PassOn /\ Flags
    BY <1>1, <1>3, <1>4, <2>1, Zenon DEF PassOn, Flags
  <2>3. item' \in Nat /\ item' # 0
    BY <1>3, <1>4, <2>1, Zenon
  <2> QED
    BY <1>1, <1>2, <1>3, <2>1, <2>2, <2>3, PassTypes, Zenon
<1>7. CASE ResolveTable \/ ResolveDone
  <2>1. /\ UNCHANGED <<item, short, lost>>
        /\ \/ index' = index /\ shdr' = shdr
           \/ index' = index + 1 /\ shdr' = Nothing /\ shdr # Nothing
    BY <1>7, Zenon DEF ResolveTable, ResolveDone, walk, Within
  <2>2. PassOn /\ Flags
    BY <1>1, <1>3, <1>4, <2>1, Zenon DEF PassOn, Flags
  <2>3. shdr' \in SectionHeaders /\ (shdr' # Nothing => item' # 0)
    BY <1>3, <1>4, <2>1, Zenon
  <2> QED
    BY <1>1, <1>2, <1>3, <2>1, <2>2, <2>3, PassTypes, Zenon
<1> QED
  BY <1>5, <1>6, <1>7, Zenon DEF Resolve

-----------------------------------------------------------------------------
(***************************************************************************)
(* What the passes have taken, step by step.                               *)
(***************************************************************************)

\* A load that failed promises nothing.
LEMMA FailedInv == phase' = "failed" => CInv'
  BY Zenon DEF CInv, Early, Collected

\* The walk stands still, and no name is asked for.
LEMMA WalkStays ==
  ASSUME CInv, UNCHANGED <<phase, ehdr, walk>>, name'.state = "none" \/ name.state # "none"
  PROVE  CInv'
<1>1. /\ phase' = phase /\ ehdr' = ehdr /\ index' = index /\ shdr' = shdr /\ item' = item
      /\ have' = have /\ short' = short /\ bound' = bound /\ taken' = taken /\ lost' = lost
  BY Zenon DEF walk
<1>2. Prefetching => Prefetching'
  BY <1>1, Zenon DEF Prefetching
<1>3. Importing => Importing'
  BY <1>1, Zenon DEF Importing, TakenType, TakenAll, InHand
<1>4. Resolving => Resolving'
  BY <1>1, Zenon DEF Resolving, TakenType, TakenAll, InHand
<1>5. Collected'
  BY <1>1, Zenon DEF CInv, Collected
<1> QED
  BY <1>1, <1>2, <1>3, <1>4, <1>5, Zenon DEF CInv

\* Sections are counted, and so is the object's number of them.
LEMMA Counted ==
  ASSUME TInv
  PROVE  /\ index \in Nat /\ item \in Nat /\ index <= ehdr.count /\ ehdr.count \in Nat
         /\ \A i \in DOMAIN Shdrs : i \in Nat /\ (ehdr.clean => i < ehdr.count)
         /\ \A i \in DOMAIN Shdrs : Len(Shdrs[i].items) \in Nat
<1>1. /\ index \in Nat /\ item \in Nat /\ index <= ehdr.count /\ ehdr.count \in Nat
      /\ ehdr.clean => ehdr \in Ehdrs
  BY EhdrTyped DEF TInv, Shapes, Walking
<1>3. ASSUME NEW i \in DOMAIN Shdrs PROVE i \in Nat /\ (ehdr.clean => i < ehdr.count)
  <2>1. i \in Nat
    <3>1. PICK e \in Ehdrs : TRUE
      BY HeadersAssumption
    <3>2. i \in 0..(e.count - 1)
      BY <3>1, ObjectAssumption, Zenon
    <3> QED
      BY <3>2
  <2>2. ehdr.clean => i \in 0..(ehdr.count - 1)
    BY <1>1, ObjectAssumption, Zenon
  <2> QED
    BY <1>1, <2>1, <2>2
<1>4. ASSUME NEW i \in DOMAIN Shdrs PROVE Len(Shdrs[i].items) \in Nat
  <2>1. Shdrs[i].items \in Seq(Symbols)
    BY HeadersAssumption DEF Headers
  <2> QED
    BY <2>1
<1> QED
  BY <1>1, <1>3, <1>4

\* A step of ids_str_get() takes nothing.
LEMMA NameCInv == ASSUME TInv, NInv, CInv, Name PROVE CInv'
<1>1. name.state # "none" /\ CacheSound
  BY NameTypes, Zenon DEF NInv
<1>2. UNCHANGED <<phase, ehdr, walk>>
  BY Zenon DEF Name, SeekName, AcquireName, ScanName, ScanBeyond, ScanOverrun, ReleaseName,
               Answering
<1> QED
  BY <1>1, <1>2, WalkStays, Zenon

\* A pass begins with nothing taken, and with the object's header if nothing is lost.
LEMMA OpenCInv == ASSUME TInv, CInv, Open PROVE CInv'
<1>1. phase \in Early /\ ~short /\ ~bound /\ index = 0 /\ shdr = Nothing /\ name.state = "none"
  BY Zenon DEF TInv, Walking, CInv, Open, OpenRaw, OpenFails, ReadIdent, ReadEhdr, Early
<1>2. /\ index' = 0 /\ name'.state = "none" /\ ~short' /\ ~bound'
      /\ phase' \in {"ident", "header", "prefetch", "failed"}
  <2>1. /\ index' = index /\ name' = name /\ short' = short /\ bound' = bound
        /\ phase' \in {"ident", "header", "prefetch", "failed"}
    BY Zenon DEF Open, OpenRaw, OpenFails, ReadIdent, ReadEhdr, Fail, reader, walk
  <2> QED
    BY <1>1, <2>1, Zenon
<1>4. phase' = "prefetch" => lost' \/ ehdr'.clean
  <2>1. CASE OpenRaw \/ OpenFails \/ ReadIdent
    BY <2>1, Zenon DEF OpenRaw, OpenFails, ReadIdent, Fail
  <2>2. CASE ReadEhdr
    <3>1. PICK e : ehdr' = e /\ lost' = ~e.clean
      BY <2>2, Zenon DEF ReadEhdr
    <3> QED
      BY <3>1, Zenon
  <2> QED
    BY <2>1, <2>2, Zenon DEF Open
<1>3. Prefetching'
  <2>1. \A i \in 0..(0 - 1) : FALSE
    OBVIOUS
  <2> QED
    BY <1>2, <2>1, Zenon DEF Prefetching
<1> QED
  BY <1>2, <1>3, <1>4, Zenon DEF CInv, Early, Collected

\* In the midst of the first pass.
LEMMA PrefetchGoes ==
  ASSUME phase' = "prefetch", ~short', ~bound', lost' \/ (ehdr'.clean /\ Prefetching')
  PROVE  CInv'
  BY Zenon DEF CInv, Collected

\* Every section of symbols that is passed by is seen.
LEMMA PrefetchCInv == ASSUME TInv, NInv, CInv, Prefetch PROVE CInv'
<1>1. phase = "prefetch" /\ ~short /\ ~bound /\ (~lost => ehdr.clean /\ Prefetching)
  BY Zenon DEF CInv, Prefetch, PrefetchSection, PrefetchUnnamed, PrefetchNamed, PrefetchFails,
               PrefetchDone
<1>2. ehdr' = ehdr /\ short' = short /\ bound' = bound
  BY Zenon DEF Prefetch, PrefetchSection, PrefetchUnnamed, PrefetchNamed, PrefetchFails,
               PrefetchDone
<1>3. index \in Nat /\ index <= ehdr.count /\ ehdr.count \in Nat
  BY Counted
<1>4. CASE PrefetchSection
  <2>1. PICK r \in ShdrReads(index) :
          /\ lost' = (lost \/ ~r.clean) /\ have' = have /\ phase' = phase
          /\ r.ok => shdr' = r.shdr /\ index' = index
    BY <1>4, Zenon DEF PrefetchSection
  <2>2. lost' \/ Prefetching'
    <3> SUFFICES ASSUME ~lost' PROVE Prefetching'
      OBVIOUS
    <3>1. ~lost /\ r.clean
      BY <2>1, Zenon
    <3>2. r.ok /\ index \in DOMAIN Shdrs /\ r.shdr = Shdrs[index]
      BY <1>3, <3>1, SectionRead DEF TInv
    <3> QED
      BY <1>1, <2>1, <3>1, <3>2, Zenon DEF Prefetching
  <2>3. lost' \/ ehdr'.clean
    BY <1>1, <1>2, <2>1, Zenon
  <2> QED
    BY <1>1, <1>2, <2>1, <2>2, <2>3, PrefetchGoes, Zenon
<1>5. CASE PrefetchUnnamed
  <2>1. phase' = phase /\ lost'
    BY <1>5, Zenon DEF PrefetchUnnamed
  <2> QED
    BY <1>1, <1>2, <2>1, PrefetchGoes, Zenon
<1>6. CASE PrefetchNamed
  <2>1. /\ name.state = "given" /\ have' = (have \/ (SymCount(shdr) > 0)) /\ lost' = lost
        /\ phase' = phase /\ index' = index + 1 /\ name' = NoName
    BY <1>6, Zenon DEF PrefetchNamed, NextSection
  <2>2. lost \/ Prefetching'
    <3> SUFFICES ASSUME ~lost PROVE Prefetching'
      OBVIOUS
    <3>1. index \in DOMAIN Shdrs /\ shdr = Shdrs[index]
      BY <1>1, <2>1, Zenon DEF Prefetching
    <3>2. \A i \in 0..(index - 1) : i \in DOMAIN Shdrs /\ (SymCount(Shdrs[i]) > 0 => have)
      BY <1>1, Zenon DEF Prefetching
    <3>3. ASSUME NEW i \in 0..(index' - 1)
          PROVE  i \in DOMAIN Shdrs /\ (SymCount(Shdrs[i]) > 0 => have')
      <4>1. CASE i \in 0..(index - 1)
        BY <2>1, <3>2, <4>1, Zenon
      <4>2. CASE i = index
        BY <2>1, <3>1, <4>2, Zenon
      <4> QED
        BY <1>3, <2>1, <4>1, <4>2
    <3>4. name'.state = "none"
      BY <2>1, NoNameTyped, Zenon
    <3> QED
      BY <2>1, <3>3, <3>4, Zenon DEF Prefetching
  <2>3. lost' \/ ehdr'.clean
    BY <1>1, <1>2, <2>1, Zenon
  <2> QED
    BY <1>1, <1>2, <2>1, <2>2, <2>3, PrefetchGoes, Zenon
<1>7. CASE PrefetchFails \/ PrefetchDone
  <2>1. /\ phase' \in {"import", "failed"}
        /\ index' = 0 /\ shdr' = Nothing /\ name' = NoName
        /\ lost' \/ (PrefetchDone /\ lost' = lost /\ have' = have /\ index >= ehdr.count)
    BY <1>7, Zenon DEF PrefetchFails, PrefetchDone, StartImport
  <2>2. lost' \/ Importing'
    <3> SUFFICES ASSUME ~lost' PROVE Importing'
      OBVIOUS
    <3>1. ~lost /\ have' = have /\ index >= ehdr.count
      BY <2>1, SMT
    <3>2. \A i \in 0..(index - 1) : SymCount(Shdrs[i]) > 0 => have
      BY <1>1, <3>1, Zenon DEF Prefetching
    <3>3. \A i \in DOMAIN Shdrs : i \in 0..(index - 1) /\ ~(i < 0)
      BY <1>1, <1>3, <3>1, Counted
    <3>4. \A i \in DOMAIN Shdrs : SymCount(Shdrs[i]) > 0 => have'
      BY <3>1, <3>2, <3>3, Zenon
    <3>5. TakenType("symtab", 0)'
      BY <3>3, Zenon DEF TakenType
    <3>6. TakenType("symtab", index)' /\ InHand("symtab")'
      BY <2>1, <3>5, Zenon DEF TakenType, TakenAll, InHand
    <3>7. name'.state = "none"
      BY <2>1, NoNameTyped, Zenon
    <3> QED
      BY <1>1, <1>2, <2>1, <3>4, <3>6, <3>7, Zenon DEF Importing
  <2>3. lost' \/ ehdr'.clean
    <3>1. lost' \/ ~lost
      BY <2>1, SMT
    <3> QED
      BY <1>1, <1>2, <3>1, Zenon
  <2> QED
    BY <2>1, <2>2, <2>3, Zenon DEF CInv, Collected, Early
<1> QED
  BY <1>4, <1>5, <1>6, <1>7, Zenon DEF Prefetch

\* A section of another type has nothing to take; one whose items are behind has all taken.
LEMMA TakenOn ==
  ASSUME TInv, NEW type, TakenType(type, index), InHand(type),
         \/ shdr # Nothing /\ item > Len(shdr.items)
         \/ index \in DOMAIN Shdrs => Shdrs[index].type # type
  PROVE  TakenType(type, index + 1)
<1> SUFFICES ASSUME NEW i \in DOMAIN Shdrs, i < index + 1, Shdrs[i].type = type
             PROVE  TakenAll(i)
  BY Zenon DEF TakenType
<1>1. i \in Nat /\ index \in Nat /\ item \in Nat /\ Len(Shdrs[i].items) \in Nat
  BY Counted
<1>2. CASE i < index
  BY <1>2, Zenon DEF TakenType
<1>3. CASE i = index
  <2>1. shdr # Nothing /\ item > Len(shdr.items)
    BY <1>3, Zenon
  <2>2. shdr = Shdrs[i] /\ \A k \in 1..(item - 1) : <<i, k>> \in taken
    BY <1>3, <2>1, Zenon DEF InHand
  <2>3. \A k \in 1..Len(Shdrs[i].items) : k \in 1..(item - 1)
    BY <1>1, <2>1, <2>2
  <2> QED
    BY <2>2, <2>3, Zenon DEF TakenAll
<1> QED
  BY <1>1, <1>2, <1>3

\* Table() begins a section of its type and leaves any other behind.
LEMMA TableTaken ==
  ASSUME TInv, NEW type, TakenType(type, index), shdr = Nothing,
         NEW r \in ShdrReads(index), r.clean, Table(r, type), taken' = taken
  PROVE  TakenType(type, index)' /\ InHand(type)'
<1>1. r.ok /\ index \in DOMAIN Shdrs /\ r.shdr = Shdrs[index]
  <2>1. index \in Int
    BY DEF TInv, Shapes
  <2> QED
    BY <2>1, SectionRead, Zenon DEF TInv
<1>2. CASE r.shdr.type = type
  <2>1. shdr' = Shdrs[index] /\ item' = 1 /\ index' = index
    BY <1>1, <1>2, Zenon DEF Table
  <2>2. \A k \in 1..(1 - 1) : FALSE
    OBVIOUS
  <2>3. InHand(type)'
    BY <1>1, <1>2, <2>1, <2>2, Zenon DEF InHand
  <2> QED
    BY <2>1, <2>3, Zenon DEF TakenType, TakenAll
<1>3. CASE r.shdr.type # type
  <2>1. shdr' = Nothing /\ index' = index + 1
    BY <1>3, Zenon DEF Table
  <2>2. InHand(type)
    BY Zenon DEF InHand
  <2>3. TakenType(type, index + 1)
    BY <1>1, <1>3, <2>2, TakenOn
  <2> QED
    BY <2>1, <2>3, Zenon DEF InHand, TakenType, TakenAll
<1> QED
  BY <1>2, <1>3

\* An item of the section at hand is taken.
LEMMA ItemTaken ==
  ASSUME TInv, NEW type, TakenType(type, index), InHand(type),
         taken' = taken \union {<<index, item>>}, item' = item + 1,
         index' = index, shdr' = shdr
  PROVE  TakenType(type, index)' /\ InHand(type)'
<1>1. item \in Nat
  BY Counted
<1>2. \A k \in 1..(item' - 1) : k \in 1..(item - 1) \/ k = item
  BY <1>1
<1>3. InHand(type)'
  BY <1>2, Zenon DEF InHand
<1>4. TakenType(type, index)'
  BY Zenon DEF TakenType, TakenAll
<1> QED
  BY <1>3, <1>4

\* In the midst of the second pass.
LEMMA ImportGoes ==
  ASSUME phase' = "import", lost' \/ (ehdr'.clean /\ Importing')
  PROVE  CInv'
  BY Zenon DEF CInv, Collected, Early

\* In the midst of the third.
LEMMA ResolveGoes ==
  ASSUME phase' = "resolve", lost' \/ (ehdr'.clean /\ Resolving')
  PROVE  CInv'
  BY Zenon DEF CInv, Collected, Early

\* A load that has taken all symbols, and all relocations if there was a need.
LEMMA LoadedInv ==
  ASSUME TInv, phase' = "loaded", ehdr' = ehdr, taken' = taken, bound' = bound, lost' = lost,
         lost \/ (/\ ehdr.clean /\ TakenType("symtab", ehdr.count)
                  /\ bound => TakenType("rel", ehdr.count))
  PROVE  CInv'
<1>1. \A i \in DOMAIN Shdrs : ehdr.clean => i < ehdr.count
  BY Counted
<1>2. Collected'
  BY <1>1, Zenon DEF Collected, TakenType, TakenAll
<1> QED
  BY <1>2, Zenon DEF CInv, Early

\* Every section of symbols is taken, all of it, or the successes fall short.
LEMMA ImportCInv == ASSUME TInv, NInv, CInv, Import PROVE CInv'
<1>1. phase = "import" /\ ehdr' = ehdr /\ have' = have
  BY Zenon DEF Import, ImportNothing, ImportSection, ImportSymbol, ImportBody, ImportTake,
               ImportFails, ImportTable, ImportDone, Between, Within, reader, walk
<1>2. ~lost => ehdr.clean /\ Importing
  BY <1>1, Zenon DEF CInv
<1>3. /\ index \in Nat /\ item \in Nat
      /\ \A i \in DOMAIN Shdrs : Len(Shdrs[i].items) \in Nat
  BY Counted
<1>4. CASE ImportNothing
  <2>1. lost \/ (TakenType("symtab", ehdr.count) /\ ~bound)
    <3> SUFFICES ASSUME ~lost PROVE TakenType("symtab", ehdr.count) /\ ~bound
      OBVIOUS
    <3>1. ~bound /\ \A i \in DOMAIN Shdrs : ~(SymCount(Shdrs[i]) > 0)
      BY <1>2, <1>4, Zenon DEF ImportNothing, Importing
    <3>2. ASSUME NEW i \in DOMAIN Shdrs, Shdrs[i].type = "symtab"
          PROVE  \A k \in 1..Len(Shdrs[i].items) : FALSE
      BY <1>3, <3>1, <3>2 DEF SymCount
    <3> QED
      BY <3>1, <3>2, Zenon DEF TakenType, TakenAll
  <2>2. /\ phase' = "loaded" /\ taken' = taken /\ bound' = bound /\ lost' = lost
    BY <1>4, Zenon DEF ImportNothing, walk
  <2> QED
    BY <1>1, <1>2, <2>1, <2>2, LoadedInv, Zenon
<1>5. CASE ImportSection
  <2>1. PICK r \in ShdrReads(index) :
          Table(r, "symtab") /\ short' = (short \/ ~r.ok) /\ lost' = (lost \/ (r.ok /\ ~r.clean))
    BY <1>5, Zenon DEF ImportSection
  <2>2. /\ phase' = phase /\ name' = name /\ bound' = bound /\ taken' = taken
        /\ have /\ shdr = Nothing
    BY <1>5, Zenon DEF ImportSection, Between, reader
  <2>3. lost' \/ Importing'
    <3> SUFFICES ASSUME ~lost' PROVE Importing'
      OBVIOUS
    <3>1. ~lost /\ Importing
      BY <1>2, <2>1, Zenon
    <3>2. ~short' => TakenType("symtab", index)' /\ InHand("symtab")'
      <4> SUFFICES ASSUME ~short' PROVE TakenType("symtab", index)' /\ InHand("symtab")'
        OBVIOUS
      <4>1. ~short /\ r.clean
        BY <2>1, Zenon
      <4>2. TakenType("symtab", index)
        BY <3>1, <4>1, Zenon DEF Importing
      <4> QED
        BY <2>1, <2>2, <4>1, <4>2, TableTaken, Zenon
    <3> QED
      BY <1>1, <2>2, <3>1, <3>2, Zenon DEF Importing
  <2>4. lost' \/ ehdr'.clean
    BY <1>1, <1>2, <2>1, Zenon
  <2> QED
    BY <1>1, <2>2, <2>3, <2>4, ImportGoes, Zenon
<1>6. CASE ImportSymbol
  <2>1. /\ short' \/ (short' = short /\ item' = item)
        /\ UNCHANGED <<phase, index, shdr, bound, taken, lost>>
        /\ shdr # Nothing
    BY <1>6, Zenon DEF ImportSymbol, Within
  <2>2. lost' \/ (ehdr'.clean /\ Importing')
    <3> SUFFICES ASSUME ~lost' PROVE ehdr'.clean /\ Importing'
      OBVIOUS
    <3>1. ehdr.clean /\ Importing /\ have
      BY <1>2, <2>1, Zenon DEF Importing
    <3>2. ~short' => TakenType("symtab", index)' /\ InHand("symtab")'
      BY <2>1, <3>1, Zenon DEF Importing, TakenType, TakenAll, InHand
    <3> QED
      BY <1>1, <3>1, <3>2, Zenon DEF Importing
  <2> QED
    BY <1>1, <2>1, <2>2, ImportGoes, Zenon
<1>7. CASE ImportBody
  <2>1. UNCHANGED <<phase, ehdr, walk>> /\ name.state # "none"
    BY <1>7, Zenon DEF ImportBody
  <2> QED
    BY <2>1, WalkStays, Zenon
<1>8. CASE ImportTake
  <2>1. /\ taken' = taken \union {<<index, item>>} /\ item' = item + 1
        /\ UNCHANGED <<phase, index, shdr, short, lost>>
        /\ name.state # "none"
    BY <1>8, Zenon DEF ImportTake
  <2>2. lost' \/ (ehdr'.clean /\ Importing')
    <3> SUFFICES ASSUME ~lost' PROVE ehdr'.clean /\ Importing'
      OBVIOUS
    <3>1. ehdr.clean /\ Importing /\ have
      BY <1>2, <2>1, Zenon DEF Importing
    <3>2. ~short' => TakenType("symtab", index)' /\ InHand("symtab")'
      <4> SUFFICES ASSUME ~short PROVE TakenType("symtab", index)' /\ InHand("symtab")'
        BY <2>1, Zenon
      <4>1. TakenType("symtab", index) /\ InHand("symtab")
        BY <3>1, Zenon DEF Importing
      <4> QED
        BY <2>1, <4>1, ItemTaken, Zenon
    <3> QED
      BY <1>1, <3>1, <3>2, Zenon DEF Importing
  <2> QED
    BY <1>1, <2>1, <2>2, ImportGoes, Zenon
<1>9. CASE ImportFails
  BY <1>9, FailedInv, Zenon DEF ImportFails, Fail
<1>10. CASE ImportTable
  <2>1. CASE short
    BY <1>10, <2>1, FailedInv, Zenon DEF ImportTable, Short, Fail
  <2>2. CASE ~short
    <3>1. /\ index' = index + 1 /\ shdr' = Nothing /\ shdr # Nothing
          /\ item > SymCount(shdr) /\ name'.state = "none" /\ UNCHANGED <<phase, taken, lost>>
      BY <1>10, <2>2 DEF ImportTable, Short, Within, reader
    <3>2. lost' \/ (ehdr'.clean /\ Importing')
      <4> SUFFICES ASSUME ~lost' PROVE ehdr'.clean /\ Importing'
        OBVIOUS
      <4>0. ~lost
        BY <3>1, SMT
      <4>1. ehdr.clean /\ Importing /\ have
        BY <1>2, <3>1, <4>0, Zenon DEF Importing
      <4>2. TakenType("symtab", index) /\ InHand("symtab") /\ shdr.type = "symtab"
        BY <2>2, <3>1, <4>1, Zenon DEF Importing, InHand
      <4>3. item > Len(shdr.items)
        BY <3>1, <4>2 DEF SymCount
      <4>4. TakenType("symtab", index + 1)
        BY <3>1, <4>2, <4>3, TakenOn
      <4>5. TakenType("symtab", index)' /\ InHand("symtab")'
        BY <3>1, <4>4, Zenon DEF TakenType, TakenAll, InHand
      <4> QED
        BY <1>1, <4>1, <4>5, Zenon DEF Importing
    <3> QED
      BY <1>1, <3>1, <3>2, ImportGoes, Zenon
  <2> QED
    BY <2>1, <2>2
<1>11. CASE ImportDone
  <2>1. /\ shdr = Nothing /\ shdr' = shdr /\ index' = 0 /\ short' = FALSE
        /\ UNCHANGED <<bound, taken, lost>> /\ ehdr.count <= index
    BY <1>3, <1>11, Counted DEF ImportDone, Between
  <2>2. phase' = IF short THEN "failed" ELSE IF bound THEN "resolve" ELSE "loaded"
    BY <1>11, Zenon DEF ImportDone, Short
  <2>3. CASE short
    BY <2>2, <2>3, FailedInv, Zenon
  <2>4. ASSUME ~lost, ~short PROVE TakenType("symtab", ehdr.count)
    <3>1. TakenType("symtab", index)
      BY <1>2, <2>4, Zenon DEF Importing
    <3>2. \A i \in DOMAIN Shdrs : i < ehdr.count => i < index
      BY <1>3, <2>1, Counted
    <3> QED
      BY <3>1, <3>2, Zenon DEF TakenType
  <2>5. CASE ~short /\ bound
    <3>1. \A i \in DOMAIN Shdrs : ~(i < 0)
      BY Counted
    <3>2. lost \/ TakenType("symtab", ehdr.count)
      BY <2>4, <2>5, Zenon
    <3>3. lost \/ Resolving'
      BY <1>1, <2>1, <3>1, <3>2, Zenon DEF Resolving, TakenType, TakenAll, InHand
    <3> QED
      BY <1>1, <1>2, <2>1, <2>2, <2>5, <3>3, ResolveGoes, Zenon
  <2>6. CASE ~short /\ ~bound
    BY <1>1, <1>2, <2>1, <2>2, <2>4, <2>6, LoadedInv, Zenon
  <2> QED
    BY <2>3, <2>5, <2>6
<1> QED
  BY <1>4, <1>5, <1>6, <1>7, <1>8, <1>9, <1>10, <1>11, Zenon DEF Import

\* Every section of relocations is taken, all of it, if nothing is lost.
LEMMA ResolveCInv == ASSUME TInv, CInv, Resolve PROVE CInv'
<1>1. phase = "resolve" /\ ehdr' = ehdr /\ bound' = bound
  BY Zenon DEF Resolve, ResolveSection, ResolveEntry, ResolveTable, ResolveDone, Between,
               Within, reader, walk
<1>2. ~lost => ehdr.clean /\ Resolving
  BY <1>1, Zenon DEF CInv
<1>3. index \in Nat /\ item \in Nat
  BY Counted
<1>4. CASE ResolveSection
  <2>1. PICK r \in ShdrReads(index) : Table(r, "rel") /\ lost' = (lost \/ ~r.clean)
    BY <1>4, Zenon DEF ResolveSection
  <2>2. phase' = phase /\ short' = short /\ taken' = taken /\ shdr = Nothing
    BY <1>4, Zenon DEF ResolveSection, Between
  <2>3. lost' \/ (ehdr'.clean /\ Resolving')
    <3> SUFFICES ASSUME ~lost' PROVE ehdr'.clean /\ Resolving'
      OBVIOUS
    <3>1. ehdr.clean /\ Resolving /\ r.clean
      BY <1>2, <2>1, Zenon
    <3>2. TakenType("rel", index)' /\ InHand("rel")'
      BY <2>1, <2>2, <3>1, TableTaken, Zenon DEF Resolving
    <3>3. TakenType("symtab", ehdr.count)'
      BY <1>1, <2>2, <3>1, Zenon DEF Resolving, TakenType, TakenAll
    <3> QED
      BY <1>1, <2>2, <3>1, <3>2, <3>3, Zenon DEF Resolving
  <2> QED
    BY <1>1, <2>2, <2>3, ResolveGoes, Zenon
<1>5. CASE ResolveEntry
  <2>1. CASE phase' = "failed"
    BY <2>1, FailedInv
  <2>2. CASE phase' # "failed"
    <3>1. /\ phase' = phase /\ index' = index /\ shdr' = shdr /\ item' = item + 1
          /\ \/ taken' = taken \union {<<index, item>>} /\ short' = short /\ lost' = lost
             \/ lost'
      <4>1. PICK read \in RelReads :
              /\ phase' = phase /\ item' = item + 1
              /\ taken' = IF read THEN taken \union {<<index, item>>} ELSE taken
              /\ short' = (short \/ ~read) /\ lost' = (lost \/ ~read)
        BY <1>5, <2>2, Zenon DEF ResolveEntry, Fail
      <4>2. read \in BOOLEAN /\ short \in BOOLEAN /\ lost \in BOOLEAN
        BY <4>1, Zenon DEF RelReads, TInv, Shapes
      <4>3. CASE read
        BY <1>5, <4>1, <4>2, <4>3, Zenon DEF ResolveEntry
      <4>4. CASE ~read
        BY <1>5, <4>1, <4>4, Zenon DEF ResolveEntry
      <4> QED
        BY <4>3, <4>4
    <3>2. lost' \/ (ehdr'.clean /\ Resolving')
      <4> SUFFICES ASSUME ~lost' PROVE ehdr'.clean /\ Resolving'
        OBVIOUS
      <4>1. taken' = taken \union {<<index, item>>} /\ short' = short /\ lost' = lost
        BY <3>1, Zenon
      <4>2. ehdr.clean /\ Resolving
        BY <1>2, <4>1, Zenon
      <4>3. TakenType("rel", index)' /\ InHand("rel")'
        BY <3>1, <4>1, <4>2, ItemTaken, Zenon DEF Resolving
      <4>4. TakenType("symtab", ehdr.count)'
        BY <1>1, <4>1, <4>2, Zenon DEF Resolving, TakenType, TakenAll
      <4> QED
        BY <1>1, <4>1, <4>2, <4>3, <4>4, Zenon DEF Resolving
    <3> QED
      BY <1>1, <3>1, <3>2, ResolveGoes, Zenon
  <2> QED
    BY <2>1, <2>2
<1>6. CASE ResolveTable
  <2>1. CASE short
    <3>1. phase' = "loaded" /\ UNCHANGED <<bound, taken, lost>>
      BY <1>6, <2>1, Zenon DEF ResolveTable, Short
    <3>2. lost
      BY <1>2, <2>1, Zenon DEF Resolving
    <3> QED
      BY <1>1, <3>1, <3>2, LoadedInv, Zenon
  <2>2. CASE ~short
    <3>1. /\ index' = index + 1 /\ shdr' = Nothing /\ shdr # Nothing
          /\ item > RelCount(shdr) /\ UNCHANGED <<phase, short, taken, lost>>
      BY <1>6, <2>2 DEF ResolveTable, Short, Within
    <3>2. lost' \/ (ehdr'.clean /\ Resolving')
      <4> SUFFICES ASSUME ~lost' PROVE ehdr'.clean /\ Resolving'
        OBVIOUS
      <4>0. ~lost
        BY <3>1, SMT
      <4>1. ehdr.clean /\ Resolving
        BY <1>2, <4>0, Zenon
      <4>2. TakenType("rel", index) /\ InHand("rel") /\ shdr.type = "rel"
        BY <3>1, <4>1, Zenon DEF Resolving, InHand
      <4>3. item > Len(shdr.items)
        BY <3>1, <4>2 DEF RelCount
      <4>4. TakenType("rel", index + 1)
        BY <3>1, <4>2, <4>3, TakenOn
      <4>5. TakenType("rel", index)' /\ InHand("rel")'
        BY <3>1, <4>4, Zenon DEF TakenType, TakenAll, InHand
      <4>6. TakenType("symtab", ehdr.count)'
        BY <1>1, <3>1, <4>1, Zenon DEF Resolving, TakenType, TakenAll
      <4>7. ~short'
        BY <2>2, <3>1, SMT
      <4> QED
        BY <1>1, <4>1, <4>5, <4>6, <4>7, Zenon DEF Resolving
    <3> QED
      BY <1>1, <3>1, <3>2, ResolveGoes, Zenon
  <2> QED
    BY <2>1, <2>2
<1>7. CASE ResolveDone
  <2>1. phase' = "loaded" /\ UNCHANGED <<bound, taken, lost>> /\ ehdr.count <= index
    BY <1>3, <1>7, Counted DEF ResolveDone, walk
  <2>2. \A i \in DOMAIN Shdrs : i < ehdr.count => i < index
    BY <1>3, <2>1, Counted
  <2>3. lost \/ (TakenType("symtab", ehdr.count) /\ TakenType("rel", ehdr.count))
    BY <1>2, <2>2, Zenon DEF Resolving, TakenType
  <2> QED
    BY <1>1, <1>2, <2>1, <2>3, LoadedInv, Zenon
<1> QED
  BY <1>4, <1>5, <1>6, <1>7, Zenon DEF Resolve

-----------------------------------------------------------------------------
(***************************************************************************)
(* The initial states, every step, and what follows.                       *)
(***************************************************************************)
IInv == TInv /\ NInv /\ CInv

\* A load begins with nothing read and nothing remembered.
LEMMA InitIInv == Init => IInv
<1> SUFFICES ASSUME Init PROVE IInv
  OBVIOUS
<1>1. /\ phase = "open" /\ elf = FALSE /\ ehdr = NoEhdr /\ name = NoName
      /\ str = [section |-> 0, offset |-> 0, size |-> 0, clean |-> TRUE]
      /\ index = 0 /\ shdr = Nothing /\ item = 0 /\ sym = NoSym /\ have = FALSE
      /\ short = FALSE /\ bound = FALSE /\ lost = FALSE
      /\ Str!Init
  BY Zenon DEF Init
<1>2. name \in Calls /\ name.length <= Capacity /\ name.start = 0 /\ name.state = "none"
  BY <1>1, NoNameTyped
<1>3. /\ str \in StringTables /\ str.offset = 0 /\ sym \in Symbols /\ 0 <= ehdr.count
      /\ 0 \in Nat
  BY <1>1 DEF StringTables, NoSym, Symbols, NoEhdr
<1>4. CacheSound /\ locks = <<>>
  BY <1>1, CacheInit DEF Str!Init
<1>5. TInv
  <2>1. Shapes
    BY <1>1, <1>2, <1>3, Zenon DEF Shapes, Phases, SectionHeaders
  <2>2. Walking
    BY <1>1, <1>2, <1>3, Zenon DEF Walking
  <2> QED
    BY <2>1, <2>2, Zenon DEF TInv
<1>6. NInv
  <2>1. Remembers /\ Located /\ Scanning /\ RefusedForCause
    BY <1>2, <1>3, Zenon DEF Remembers, Located, Scanning, RefusedForCause
  <2>2. name.start <= data_size
    BY <1>2, <1>4, CacheTypes
  <2>3. Locking
    BY <1>2, <1>4, <2>2, Zenon DEF Locking
  <2> QED
    BY <1>4, <2>1, <2>3, Zenon DEF NInv
<1>7. CInv
  BY <1>1, Zenon DEF CInv, Early, Collected
<1> QED
  BY <1>5, <1>6, <1>7, Zenon DEF IInv

\* Nothing happens to the reader.
LEMMA StutterInv == ASSUME IInv, UNCHANGED vars PROVE IInv'
<1>1. /\ UNCHANGED <<phase, elf, ehdr, str, name, walk>>
      /\ UNCHANGED cache
  BY Zenon DEF vars, reader
<1>2. TInv'
  BY <1>1, Zenon DEF IInv, TInv, Shapes, Walking, walk
<1>3. NInv'
  BY <1>1, CacheAround, NameStays, Zenon DEF IInv
<1>4. CInv'
  <2>1. name'.state = "none" \/ name.state # "none"
    BY <1>1, Zenon
  <2> QED
    BY <1>1, <2>1, WalkStays, Zenon DEF IInv
<1> QED
  BY <1>2, <1>3, <1>4, Zenon DEF IInv

\* Every step keeps the invariant.
LEMMA StepIInv == IInv /\ [Next]_vars => IInv'
<1> SUFFICES ASSUME IInv, [Next]_vars PROVE IInv'
  OBVIOUS
<1>1. TInv /\ NInv /\ CInv /\ CacheSound
  BY Zenon DEF IInv, NInv
<1>2. CASE Name
  BY <1>1, <1>2, NameTypes, NameInv, NameCInv, Zenon DEF IInv
<1>3. CASE Open
  BY <1>1, <1>3, OpenTypes, OpenNInv, OpenCInv, Zenon DEF IInv
<1>4. CASE Prefetch
  BY <1>1, <1>4, PrefetchTypes, PrefetchNInv, PrefetchCInv, Zenon DEF IInv
<1>5. CASE Import
  BY <1>1, <1>5, ImportTypes, ImportNInv, ImportCInv, Zenon DEF IInv
<1>6. CASE Resolve
  BY <1>1, <1>6, ResolveTypes, ResolveNInv, ResolveCInv, Zenon DEF IInv
<1>7. CASE UNCHANGED vars
  BY <1>7, StutterInv
<1> QED
  BY <1>2, <1>3, <1>4, <1>5, <1>6, <1>7, Zenon DEF Next

\* The first end of a string at p is the one that is spelled.
LEMMA FirstEnd ==
  ASSUME NEW p \in Nat, NEW e \in Ends, p <= e, NoEnd(p, e)
  PROVE  EndOf(p) = e
<1>1. Ends \subseteq Nat
  BY SizesAssumption
<1>2. e >= p /\ \A f \in Ends : f >= p => e <= f
  BY <1>1 DEF NoEnd
<1>3. ASSUME NEW d \in Ends, d >= p, \A f \in Ends : f >= p => d <= f PROVE d = e
  <2>1. d <= e /\ e <= d
    BY <1>2, <1>3, SMT
  <2> QED
    BY <1>1, <2>1
<1>4. EndOf(p) \in Ends /\ EndOf(p) >= p /\ \A f \in Ends : f >= p => EndOf(p) <= f
  BY <1>2 DEF EndOf
<1> QED
  BY <1>3, <1>4

\* A name that is given is spelled in the buffer.
LEMMA SpelledRight == TInv /\ NInv => NameRight
<1> SUFFICES ASSUME TInv, NInv, name.state \in {"given", "held"}, str.clean
             PROVE  /\ name.section \in DOMAIN Shdrs
                    /\ LET p == Shdrs[name.section].offset + name.offset IN
                       /\ \A k \in 0..(EndOf(p) - p) :
                            /\ name.start + k + 1 <= data_size
                            /\ buffer[name.start + k + 1] = p + k
                       /\ name.clean => name.length = EndOf(p) - p
  BY Zenon DEF NameRight
<1>1. name.section = str.section /\ Proper(str)
  BY Zenon DEF NInv, Located
<1>2. name.section \in DOMAIN Shdrs /\ Shdrs[name.section].offset + name.offset = At
  BY <1>1, Zenon DEF Proper, At
<1>3. At \in Nat
  BY AtTyped, Zenon
<1>4. SpelledAt(At, name.start, name.length, name.clean)
  BY Zenon DEF NInv, Scanning
<1>5. PICK e \in Ends :
        /\ At <= e /\ NoEnd(At, e)
        /\ \A k \in 0..(e - At) :
             name.start + k + 1 <= data_size /\ buffer[name.start + k + 1] = At + k
        /\ name.clean => name.length = e - At
  BY <1>4, Zenon DEF SpelledAt
<1>6. EndOf(At) = e
  BY <1>3, <1>5, FirstEnd
<1> QED
  BY <1>2, <1>5, <1>6, Zenon

\* The types of the variables are what TypeOK says.
LEMMA Typed == TInv /\ NInv => TypeOK
<1> SUFFICES ASSUME TInv, NInv PROVE TypeOK
  OBVIOUS
<1>1. str \in StringTables /\ name \in Calls
  BY Zenon DEF TInv, Shapes
<1>2. str.section \in Int /\ str.offset \in Nat /\ str.size \in Nat /\ str.clean \in BOOLEAN
  BY <1>1 DEF StringTables
<1>3. name.state \in States /\ name.length \in 0..Capacity
  BY <1>1, CallFields, SizesAssumption DEF TInv, Shapes
<1>4. name.start \in 0..data_size
  BY <1>1, CallFields, CacheTypes DEF NInv, Locking
<1>5. index \in 0..ehdr.count
  BY EhdrTyped DEF TInv, Shapes, Walking
<1>6. /\ phase \in Phases /\ elf \in BOOLEAN /\ ehdr \in {NoEhdr} \union Ehdrs \union JunkEhdrs
      /\ item \in Nat
      /\ have \in BOOLEAN /\ short \in BOOLEAN /\ bound \in BOOLEAN /\ lost \in BOOLEAN
  BY Zenon DEF TInv, Shapes
<1> QED
  BY <1>2, <1>3, <1>4, <1>5, <1>6, Zenon DEF TypeOK, States, Phases

\* The inductive invariant holds of every load: ...
THEOREM Invariance == Spec => []IInv
<1>1. Init => IInv
  BY InitIInv
<1>2. IInv /\ [Next]_vars => IInv'
  BY StepIInv
<1> QED
  BY <1>1, <1>2, PTL DEF Spec

\* ... the reader's members have their types, and no scan goes on behind l_string_capacity;
THEOREM TypeCorrect == Spec => []TypeOK
<1>1. IInv => TypeOK
  BY Typed DEF IInv
<1> QED
  BY <1>1, Invariance, PTL

\* ... the name ids_str_get() gives is the string of the section and offset asked for, to
\* its end, and stays in place until its caller is done with it, whatever was read between;
THEOREM NamesRight == Spec => []NameRight
<1>1. IInv => NameRight
  BY SpelledRight DEF IInv
<1> QED
  BY <1>1, Invariance, PTL

\* ... ids_str_get() refuses a name only for a fault on the way to it, a string table that
\* was read amiss, or one in a section ids_str_load() takes no number of;
THEOREM Causes == Spec => []RefusedForCause
<1>1. IInv => RefusedForCause
  BY DEF IInv, NInv
<1> QED
  BY <1>1, Invariance, PTL

\* ... and a load that reports success has taken every symbol, and every relocation if
\* there is something to relocate, unless a section was lost on the way.
THEOREM Collecting == Spec => []Collected
<1>1. IInv => Collected
  BY DEF IInv, CInv
<1> QED
  BY <1>1, Invariance, PTL
=============================================================================
