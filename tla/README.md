# libuld in TLA+

libuld loads relocatable ARM ELF objects from a FAT file system into the memory
of a microcontroller and links them into one program image, one object after
another. This directory models the loader in TLA+, model-checks it with TLC on
small instances, and proves the results that hold for every instance with TLAPS.

Contents

1. [The system](#1-the-system)
2. [The modules and the code](#2-the-modules-and-the-code)
3. [What the runs check](#3-what-the-runs-check)
4. [What is proved](#4-what-is-proved)
5. [Where code and comments disagree](#5-where-code-and-comments-disagree)
6. [Assumptions, and what is not modelled](#6-assumptions-and-what-is-not-modelled)
7. [Plan](#7-plan)

## 1. The system

The library is single-threaded: a host program makes an `image` for a `target`,
defines symbols of its own in it, and calls `image::load(file)` for each object.
There are no callbacks and no locks between threads. What makes it hard is
shared mutable state that long sequences of calls go through (a pool that only
grows, a symbol table that objects complete for one another, one file position
under several caches), offsets that are remembered before what they name exists,
and failures half way: a read or an allocation may fail at every step.

| component | state | operations | what has to be right |
|---|---|---|---|
| segment pool, `image/pool.h`, `page.h` | page list, current page, each page's fill and table range | `raw_get`, `get_table_offset`, `get_table_ptr` | blocks apart and aligned; a table offset names one byte for good; a call comes back |
| node and string pools, `image/pool.h`, `table.h`, `string_table.cpp` | pages of nodes, pages of characters, an iterator while a search runs | `raw_get`, `make_string`, the iterator's steps | names are copied whole and apart and stay; a walk visits every node once, in order; a call comes back |
| image and symbol table, `image.cpp`, `symbol_table.cpp` | symbols by name, with address, binding and two marks | `load`, `find_symbol`, `make_symbol` | a search finds the first symbol of the name; one entry a name; an address never changes once code holds it |
| symbol import, relocation, export, `elf32.cpp` | the factory: own symbols, map from symbol index to symbol, bindings | `uld_import`, `uld_resolve`, `uld_export` | what the object defines is exported, what it misses is asked for; a failed load takes nothing away |
| section scan and placement, `elf32.cpp` | per section: base and last table offset | `prefetch`, `uld_get_section_data` | a symbol's address holds the symbol's bytes, in one piece, and no other's |
| relocation encoders, `elf32.cpp`, `bits/arm.h` | the word | `uld_resolve_rel` and the `get`/`set` helpers | what is accepted can be encoded; other bits stay |
| file cache, `bfd/util/cache.cpp` | window of the file, index, lock marks | `raw_get`, `seek`, `acquire`, `release` | the bytes delivered are those of the file at the position the caller believes in |
| file handles, `bfd/util/file.cpp` | shared control block with a hook count | constructors, assignments, `dispose`, `release` | open as long as somebody has it, closed after |
| ELF32, binary and raw readers, `bfd/` | format, header fields, three caches, the string table in use | headers, sections, symbols, relocations by index, names by section and offset | a name is the one asked for; a refusal has a cause of its own; what the passes report as done was done |
| segments and program table, `image/` | fixed table of segments | `make_segment`, `get_segment_by_attributes` | a section's type and flags find its segment |
| target, configuration, errors | constants | getters | |

How they interact. `image::load()` opens the file with a raw reader, which hands
its `file_ptr` to a binary reader, which hands it to the ELF32 reader; the ELF32
reader shares it with three `data_cache_t`. `elf32::factory` asks the reader
for headers, symbols, relocations and names, the program table for the segment
of a section, that segment's pool for memory, and the image's symbol table for
symbols of the objects before. The three passes of `collect()` follow each
other, and the factory dies with the load: what stays of an object is the bytes
in the segments and the entries in the image's symbol table. The caches and
`copy_section_at()` move the same file position in turn.

The hazards this gives rise to are listed, line by line, in `PROJECT.json`
("hazards"), each with the properties that would catch it or the reason why none
does yet.

## 2. The modules and the code

`PROJECT.json` ("map") has the source lines of every definition. Names of the
code are kept where they are names of TLA+. Definitions marked *mutant* are
plausible mistakes, each breaking a property of a run; the specifications do
not use them.

**SegmentPool** is `pool<std::uint8_t>`. A call of `raw_get()` is `Call` and then
one action a pass of its loop: `Take` (the page holds the request), `Skip` (it
does not, and the pass has already changed the count, the skew and the current
page), `Spin` (`make_page()` had no memory, and the loop goes round). Pages are a
sequence of records with the fill, the table range and the address of the first
byte modulo the alignment. `TablePtr` is `get_table_ptr()`. **ByteTable** is what is
left of it for a caller: a table of bytes with an end, reservations in it, and cuts
where a page begins.

**Linker** is `image::load()`, the symbol table and the three passes of
`elf32::factory::collect()`, one action per symbol, relocation and map entry,
each with the reads that may fail in it. `image` is the symbol table, `pool`,
`map` and `binds` are the factory's members. An address is a *place* (load,
section, offset); where the bytes really go is SectionLoad, how a word is
encoded is ArmReloc. A section has an address once something is loaded of it
(`SectionLoaded`): ahead of time, or by a chunk or a body that is not empty. `near` relocations stand for those with a reach check,
`address` for the others. **Namespace** is what an image promises of its names.
**MCLinker** has the objects.

**SectionLoad** is `prefetch()`'s scan (`Defer`, `PassOver`, `LoadData`,
`Prefetched`) and `uld_get_section_data()` for symbol after symbol (`PlaceHeld`,
`PlaceAppended`, `RefuseUnsupported`, `RefuseOverlap`, `AppendUnread`). A symbol has a
value and a type: what its value means is `Start`, the bytes asked for are `Lo` to `Hi`,
from the value as `uld_load_symbol()` masks it for functions and for objects. `Mapping`
is the program table: the segment that a section's type and flags select among
those `uld_set()` makes, the read-only one of which begins with the two words of
the offset table. A segment is the sequence of its bytes by table offset, each
byte named by the load, section and offset it came from, and the offsets where a
new page begins, which may be at any reservation: its `Reserve` is a step of
ByteTable with no skews, the memory that `malloc()` aligns for the segments. **MCSectionLoad** has the sections.

**SymbolTable** is `symbol_table_t` with its storage: a call of `make_symbol()` is
`CallMake`, rounds of the node pool's `raw_get()` (`TakeNode`, `AddNodePage`) and
rounds of the string pool's (`TakeString`, `SkipPage`, `Spin`); a call of
`find_symbol()` is `CallFind` and steps of the iterator (`Step`, `Hit`, `Miss`).
Pages of nodes are sequences of sequences; pages of characters are functions from
index to character, so that a name that runs into another is seen by its
characters. Nothing is interned: `make_string()` always appends, and two symbols
of a name are two strings. **SymbolDirectory** is what a caller may expect: an
ordered list, searched from its front. **MCSymbolTable** has the names.

**ElfReader** is one `image::load()` as its readers see it: the raw and binary
readers' constructors (`OpenRaw`, `ReadIdent`), the ELF32 reader's (`ReadEhdr`),
and the walks of `prefetch()`, `uld_import()` and `uld_resolve()` over section
headers, symbols and relocations, with the successes they count. A name is asked
for by `Ask` (which loads the string section's header if it is not the one
remembered) and read by `SeekName`, `AcquireName`, `ScanName` and `ReleaseName` on
an instance of DataCache, byte by byte; a name at the file's end or behind it is read by
`ScanBeyond`, every byte of it EOF, up to the capacity. `Tables` is `ids_str_load()` with
the numbers of sections it takes, up to `MaxSection`, 32767 in the code. The other caches on the file show by what
their calls may report and by where they leave the file's position (`Moved`). A
header that cannot be read may be reported as read, with anything in it: the
`Junk` constants; `Ehdrs` are the headers an object may have. **MCElfReader** has an object
of seven sections, which keeps its sections' names before or behind `MaxSection`.

**ArmReloc** is every implemented kind of `uld_resolve_rel()`, with its reach
check and its encoder from `bits/arm.h`, on 32-bit words as two halves of 16
bits. **MCArmReloc** has the addresses.

**DataCache** is `data_cache_t`: `ids_fetch()` with the window it moves, the
buffer it grows and the read that may come back short or fail, `seek()`,
`acquire()` and `release()`. `Elsewhere` is everybody else on the same file.
A byte of the file is its offset. **ByteReader** is the reader it should be.

**FilePtr** is `file_ptr` with its hook count, every constructor and assignment
an action. **FileShare** is what sharing promises: open while held. FatFs
itself is external; `f_lseek()` clamps and `f_read()` comes back short at the
end of the file.

`SegmentPool_proof`, `Linker_proof`, `SectionLoad_proof`, `ElfReader_proof`,
`SymbolTable_proof`, `DataCache_proof`, `FilePtr_proof` and `ArmReloc_proof` hold the
theorems.

## 3. What the runs check

| run | instance | shows |
|---|---|---|
| `SegmentPool_pages` | three pages of 40 bytes with 16 of header, 8-byte alignment, pages at three residues, requests of 5, 17, 24 and 41 | blocks are apart, aligned, found through the table, and the table never changes what an offset names; where no skew is needed the offset read before a reservation is the block's; the pool implements ByteTable; a call returns while there is a page to have, unless the skews have outgrown the pages made for it |
| `SegmentPool_exhausted` | two pages | *violated:* a call returns |
| `Linker_loads` | three loads of six objects that define, miss and redefine each other's names, every read failing or not, the host defining one name | names are unique, no word is relocated twice, words relocated to shared symbols stay current, exports and references are complete, a failed load adds and takes nothing, names are defined once, every load ends |
| `Linker_weak_over_strong`, `Linker_got_dangling` | an object or two each | *violated:* see section 5 |
| `SectionLoad_usual` | two loads of one object with code, constants, zeros and a section the program does not need, eight symbols in any order, Thumb and Arm, any read failing, any header passed over, one page end a segment | every address holds its symbol's bytes, whole, unless the mask moves the symbol, and a section loaded at once is in one piece |
| `SectionLoad_split` | two sections of code | *violated:* an address holds its symbol's bytes |
| `DataCache_scan` | a file of six bytes, a buffer growing by two, two locks, faults, every position | the window is coherent, a scanned string stays in one piece, and the cache implements ByteReader |
| `FilePtr_handles` | four handles, two files, a count up to three | counts are exact, and the handles implement FileShare |
| `ArmReloc_words` | two words, four contents, addresses on both sides of every branch's range | calls land, the rest of a word is kept |
| `SymbolTable_names` | three symbols, names of no, one, eight and sixteen letters or none, three bindings, pages of two nodes and of sixteen characters, four pages in all | the table implements SymbolDirectory, and calls return while there is a page for a node and one for a name |
| `ElfReader_load` | an object of seven sections in nine bytes, three string tables, one of them behind the limit of section numbers, two symbols, a relocation, a cache of two-byte steps, any read failing or amiss | a name is the one asked for and in place while it is used, a refusal is for a fault of its own or for that limit, a load that passed over nothing took everything, every load ends |

Why the bounds are enough. SegmentPool: a request that fits, one that only fits
an empty page, one that fills a page and one that needs a page of two are all
there, as are a page abandoned with bytes left and a current page at the end of
the list; what two pages can do to each other, three add nothing to, and
`SegmentPool_proof` has the safety properties without bounds. Linker: what a load
leaves for the next is an entry that is undefined, defined or shared, and three
loads let each object meet what two others have left, one of them having
failed. (A local symbol of the name of a shared one is there too; `RelocatedOnce` has a
word at the edge of two symbols.) SectionLoad: a base can be moved by an earlier section, an earlier load
or a failed read, and a chunk can begin where the last ended, leave a gap, or
share bytes; the instance has all of these, with the page's end anywhere. Functions are
Thumb and Arm, and at the same odd offset are an object, which the mask moves, and an
untyped symbol, which it does not.
DataCache: three steps of the buffer, so that the window is refilled, grown
under a lock, moved, and cut by the end of the file; the proof does without
bounds. FilePtr: a limit below the number of handles, so that it is reached, and
two files, so that an assignment drops one and hooks the other. ArmReloc: the
distances are the limits of every checked branch and one beyond, in both
directions, and two places that differ in their distance from them. SymbolTable:
the eight letters fill a reservation but for their end, the sixteen need a page
of two, three symbols need a second page of nodes, and behind four pages the next
is refused: every way from one page to the next is taken by both pools. ElfReader: a
section name that needs two refills, a string table before and one behind the
other, a symbol with and one without contents, and a capacity one above the
longest name, so that a scan whose end is lost reaches it. `MaxSection` is 5, with the
sections' names in section 5 or 6: on both sides of the limit. The headers read
amiss claim another type, another string table inside the file and at its end,
another count and another place.

Fairness. Every specification with a liveness property is a loop of a running
thread: WF of `Take \/ Skip` for the pool, of `Import \/ Resolve \/ Export` for a
load, of `Make \/ Find` for the symbol table, and of `Next` for a load as
ElfReader has it. A thread that can make the next pass of its loop makes it; calls of the
host and `Spin`, which changes nothing, are under no fairness, and nothing is
asked of the allocator or the file.

Deadlock is off in the Linker, SectionLoad, ArmReloc and ElfReader runs: there
the system may really stop, when the bounded loads are done or the one load has
ended, when all words are relocated or when a relocation has failed.

## 4. What is proved

All theorems are for every value of the constants, under the named assumptions
the modules declare (sizes are naturals, a page is larger than its head, sets of
handles are finite, and so on).

**The segment pool** (`SegmentPool_proof`: `Invariance`, `TypeCorrect`,
`Disjointness`, `TableLocates`, `TableStability`). The inductive invariant is
`TypeOK`, `PagesChained`, `CountCovers` and `BlocksDisjoint`. That blocks are
apart is not inductive alone: a new block starts behind everything reserved only
if the reservation is at least the request and the skew in front of it, although
both were changed by passes that found no room (`CountCovers`). That offsets find
their block needs the table ranges to follow each other as the fills do, with
only the last page still filling (`PagesChained`): a page that grew after its
successor was made would run into its range. Stability of the table follows from
the same invariant, step by step.

**Its alignment** (`SegmentPool_proof`: `AlignInvariance`, `Alignment`,
`EntryLocates`). `raw_get()` declares its skew before the loop and never resets
it, so that a pass can see the skew of a page it has left. To the invariant above
this adds that what is on a page ends on a boundary (`PagesFilled`: only the first
block of a page is ever skewed), and that a skew carried over has made the count
larger than any page made for the request (`SkewOutgrown`: whoever still finds
room had none). That a block is where its caller's offset said needs in addition
that the offset is the end of the table until the block is taken (`EntryEnds`), and
that no page starts off a boundary.

**What its callers see** (`SegmentPool_proof`: `Refinement`, of ByteTable). A round that
makes or leaves a page does not show: a page just made has an empty range at the table's
end. A round that takes reserves the request rounded up, behind the last block or behind
the skew of a page begun there, because as long as nothing is skewed the count is the
one the call began with (`CountExact`), and with a skew carried over nothing is taken
(`SkewOutgrown`). SectionLoad reserves memory in just this way, so what is proved of
sections and symbols rests on a fact about the pool: pages begin at reservations, and
only there.

**The linker** (`Linker_proof`: `Invariance`, `TypeCorrect`, `Once`,
`FailureKeeps`, `Uniqueness`, `Completeness`, `Referencing`, `Refinement`,
`Relocation`), for all objects, any number of loads in any order, every read
failing or not. `Linker_proof` sorts the many branches of an import into what a
step comes to (`Steps`: a symbol is passed over, found, defined in the image or
made in the pool; a load fails; a pass turns into the next; a word is relocated;
an entry is exported), and has types and an empty factory between loads as its
invariant. For the image there are four invariants on it, one for each question:

* until the export, the image has the names and the definitions it had before the
  load (`AsBefore`): that is why a failure, which cannot happen later, takes
  nothing away;
* a symbol of the pool that is to be exported has a name the image lacks until it
  is exported (`Waits`): `find_symbol()` was asked when the symbol was made, and
  that its answer still holds passes later is what makes names unique;
* what the object defines or misses is in the image or pending in the pool
  (`Taken`), so that the export, when it has gone through the map, has left nothing;
* a word holds nullptr, the image's address of the name, or that of a symbol of the
  pool that is pending (`Holds`), which the export makes the image's.

`Refinement` is that of Namespace: every step defines a known name that had no
address, adds a name, or stutters. Two hypotheses are stated where they are
needed. `NoWeakBodies`, no object defines a weak symbol: `Linker_weak_over_strong` shows
what happens otherwise (section 5). `SharedOnce`, what an object shares has a name,
and one that the object shares once: the export appends without looking again. The
objects of `Linker_loads` satisfy both.

`Once` is `RelocatedOnce` for objects in which no byte belongs to two bodies
(`NoAliases`, which the objects of the run satisfy as well; section 5 has what happens
to others). Bindings are made in the order of the symbols, so that two bindings of a
word are two bodies.

**The file cache** (`DataCache_proof`: `Coherence`, `ScanStays`, `TypeCorrect`,
`Reading`), for callers that take bytes one by one within the file (`ByByte`,
the way the ELF reader takes fields and strings). To coherence and the scan the
invariant adds that the buffer is a whole number of steps, that a window is too
or ends with the file, and that it lies within the file. Without those a refill
could read only the one byte wanted and leave the kept bytes unread. `Reading` is
the refinement: every call is a step of ByteReader or a stutter, whatever moves
the file position, whatever fails.

**The file handles** (`FilePtr_proof`: `Counting`, `TypeCorrect`, `Sharing`). The
invariant adds that a handle not constructed points nowhere. The work is in
counting: how the set of holders of a block changes when one handle, or two,
change what they point to. `Sharing` is the refinement of FileShare.

**The relocation encoders** (`ArmReloc_proof`: `TypeCorrect`, `Landing`, `Keeping`). The invariant says that a word is untouched, or is exactly what the
encoder made of the word found for a distance that was accepted. From there it is
arithmetic: the distance taken apart into fields, put under the opcodes and read back,
for all distances in the branch's range. `Keeping` speaks of
what the setters leave: Thumb opcodes, the bits above fields of 12 and 8, and the other
half; section 5 has what they do not leave.

**The section scan and placement** (`SectionLoad_proof`: `Invariance`, `TypeCorrect`,
`DataWhole`, `HoldingInvariance`, `Holding`, `Uncut`, `Apart`), for all sections and
symbols, in every order, every read failing or not, and pages that end at any
reservation. Everything rests on one property of a step (`Grown`): a segment only gets
longer, and a page begins only at its end. Types need no hypothesis. That a section
which `prefetch()` loads is in one piece needs that symbols lie within sections
(`BodiesWithin`): data is then never appended to by a symbol.

`Holding` and `Apart` are about symbols whose bytes are where their values say; an object
at an odd offset is moved by the mask (section 5), and may share a byte with the object
in front of it. The inductive invariant needs no such distinction: it follows the bytes
asked for.

For the symbols the invariant (`HInv`) says what a section that grows symbol by symbol
has between its base and its last offset: its own bytes, each at its distance from the
base, and padding only behind a symbol or where one has grown past it (`Filled`); pages
that begin only where a reservation for it ended (`Joints`); its last offset at the
segment's end (`Growing`). What was placed keeps its bytes (`Kept`). Two hypotheses, beside
`BodiesWithin`, are needed, and the objects of `SectionLoad_usual` satisfy both:

* `OnePieced`: of the sections in the text segment, or in that for zeros, only one has
  contents. Without it sections have the same base, and `SectionLoad_split` shows
  what comes of that (section 5).
* `NoStraddlers`: a symbol that begins before the boundary behind another's end, and ends
  behind that end, ends behind whatever can have been loaded since. It is then refused
  ("overlap"). Were it to end within, its bytes would be in part the padding behind the
  other, or would be on two pages: what `elf32.cpp:193`
  compares is the last offset alone, which is rounded up. Symbols that start on
  boundaries, or share no reservation, as functions of a compiler do, are no straddlers.

That symbols which are apart in the object are apart in memory (`Apart`) follows from
`Holding`, as a byte in memory is one byte of one load's section: it has no run.

**The symbol table** (`SymbolTable_proof`: `Invariance`, `TypeCorrect`, `Refinement`), for
pages of every size, all names and all sequences of calls, `malloc()` failing or not.
The invariant (`IInv`) says that every page of nodes but the last is full (`Full`), so that
the walk of the iterator, page by page, is the order in which symbols were made; that a
page of characters is not filled beyond its end (`PoolSound`); that the name of
every node lies in the pool, with its end, before the fill (`Spelling`), where nothing is
written again; and that a search under way has passed no symbol it was to find
(`Passed`). The step that makes it work is that of `make_string()`: it writes behind the
fill, the fill grows past the end of what was written, and so old names stay and the
new one is whole. As no name contains its own end (`NulAssumption`, C strings), a place in
the pool spells at most one name. `Refinement` is that of SymbolDirectory: a call is a
question, a symbol given its name is put behind all others, a search returns the
first of its name with the binding, and the rounds between change nothing that a caller sees.

**The ELF32 reader** (`ElfReader_proof`: `Invariance`, `TypeCorrect`, `NamesRight`,
`Causes`, `Collecting`), for all well-formed objects, every size of the cache's
steps, every read failing or delivering anything at all, wherever the other caches leave
the file. What `DataCache_proof` shows of a cache that is read byte by byte holds of the
string cache through all of a load (`CacheSound`, its invariant for this instance), and
the steps of the cache are used only by what they come to (the lemmas `CacheSeeks` to
`CacheGets`). On top the invariant has, for a name on the way,

* that the cache has exactly one lock from `acquire()` to `release()`, at the name's
  first byte, and none at any other time (`Locking`): a lock that a call left behind
  would keep the next from seeking, so this is what `Causes` rests on;
* that a name is refused without a fault only if its table is in a section whose number
  `ids_str_load()` does not take (`Refusal`);
* that the string table remembered is that of its section if its header was read well
  (`Remembers`, `Located`): `m_str_offset` and `m_str_section` are 0 as long as nothing is
  remembered, but a table may be at 0 too, and is then loaded anew each time;
* that the bytes scanned hold no end of a string and, without a fault, are as many as
  were counted (`Scanning`): a name that the object has ends within the capacity, so that
  only a fault gets the scan there; and when the end is found, the lock has kept all
  bytes from the first in the buffer, however often it was refilled and moved
  (`SpelledAt`).

`NamesRight` and `Causes` follow. For `Collecting` there is one part a pass (`Prefetching`,
`Importing`, `Resolving`): if nothing was lost, whatever is below the section at hand,
and below the item at hand in it, is taken, or the successes are short. A pass turns into
the next, or reports success, only with all sections below it and nothing short. That the
third pass reports success when it *is* short is harmless for the same reason: what it
falls short of was passed over.

Only model-checked: liveness (`ReturnsWithRoom`, `CallsReturn`, `LoadEnds`),
which, with ENABLED, the prover does not handle, and what the runs of section 5 find
violated. Every invariant and every other action property that a passing run checks is
stated by a theorem, and nothing here is defined by recursion over data.

## 5. Where code and comments disagree

Each has a run that finds it and an entry in `PROJECT.json` ("findings").

* `pool.h:257`: without memory `raw_get()` never returns, so the callers' check
  for `nullptr` and their "memory allocation error" are never reached
  (`SegmentPool_exhausted`).
* `elf32.cpp:1430`: the base of a section that is loaded symbol by symbol is
  remembered before anything is reserved for it, so two sections of code have the
  same base, and symbols of one are answered with bytes of the other
  (`SectionLoad_split`). `-ffunction-sections` makes such objects. This is why
  `SectionLoad_usual` has one section of code and one of zeros: for those the
  properties hold.
* `elf32.cpp:404`: a weak definition replaces a strong one
  (`Linker_weak_over_strong`).
* `elf32.cpp:1203`: a GOT relocation against a symbol that is not in the image
  leaves a pointer into the factory, which ends with the load
  (`Linker_got_dangling`).

The objects of `Linker_loads` have no weak definitions, no GOT relocations against
their own symbols, no static functions of a missed name and no aliases, so that what
it shows is what holds beside these and the next.

Met while modelling, in the model, and without a run of their own:

* `elf32.cpp:379`: a function is looked up in the image whatever its binding, so that
  a static function becomes the definition of a global that an earlier object misses,
  and fails the load if the global is defined.
* `elf32.cpp:499`: a word that two symbols cover, an alias say, is relocated for each
  of them, the second time with the first result as its addend (S + S + A).
* `elf32.cpp:457`: a name that an earlier object left undefined is defined in place, and
  stays so when the load fails later, although the object is not linked.
* `elf32.cpp:442`: bit 0 of the value is masked for objects as it is for functions, so
  that an object at an odd offset is given the byte in front of it: its address is one too
  low, and its last byte need not have been loaded. Relocations against it use that address.
* `elf32.cpp:241`: what is loaded for a symbol ends on the segment's alignment, in
  padding, and the section counts it as its own. Of two Thumb functions of two bytes, at 0
  and 2, with an alignment of 4, the second is answered with that padding.
* `elf32.cpp:658-677` and `962-979`: MOVW and MOVT hold their 16 bits as imm4 and imm12.
  The code takes the low half of the instruction, with the register bits above imm12, for
  the addend, and writes 16 bits of the result there: the register bits are overwritten
  and imm4 stays as it was, so that the two instructions do not make the address.
* `arm.h:103-118`: PREL31 is read and written as 30 bits, and the top two of the word are
  cleared.
* `bfd/elf32.cpp:110`: `ids_str_load()` takes no section above 32767. An object that has
  its sections' names behind that has every name refused, without a fault: `prefetch()`
  passes over all sections, and the load succeeds with nothing in it.
* `arm.h:158`: an Arm call that is relocated loses its condition and opcode; a Thumb
  call keeps its own.
* `elf32.cpp:580`: absolute relocations of 16, 12 and 8 bits check the distance and
  store the address, which may be cut.

## 6. Assumptions, and what is not modelled

* Objects are well-formed: indices are within their tables, symbols within their
  sections, string tables within the file and ended by a byte that ends a string.
  ElfReader states what its theorems need of this (`ObjectAssumption`: every section
  and every symbol read well has a name, which ends within `l_string_capacity`).
  Reads of them may fail all the same, and what is made of a failed read is
  arbitrary; it is marked as such, `clean` being history (`JunkAssumption`). Sizes stay far below 2^31; widths matter only in ArmReloc, where a
  word is its 32 bits.
* Names are C strings: none contains the character that ends it, and `nullptr` is no
  string (`NulAssumption`, `NullAssumption` of SymbolTable).
* Symbols whose bytes are relocated do not overlap in the objects of
  `Linker_loads`, for which `RelocatedOnce` holds; of aliases section 5 speaks.
* The host asks `find_symbol()` before it defines a name: `make_symbol()` with
  an address appends without looking, and a second entry is never found.
* A read that fails leaves the buffer's unread bytes as they were.
* `DataCache` leaves out calls for which the code's arithmetic on the window
  turns negative (`Defined`); for callers that read byte by byte there are none,
  as `TypeCorrect` of `DataCache_proof` shows.
* In Linker an address is a place: the low bit of a Thumb function's value is masked before
  its bytes are asked for, and set again in its address (`elf32.cpp:463`). SectionLoad has
  the mask; the bit in the address is left out.
* `uld_set()` makes an entry in the symbol table for each segment, named `.text`, `.data`,
  `.rodata` and `.bss`, without an address. Linker leaves them out: the names of objects
  and of the host are taken to be others, so that no search finds them.
* A scan of a name that runs over the file's end from within a window is not followed:
  `data_cache_t` reads the window again and counts what it had kept as new
  (`cache.cpp:97-107`). String tables of well-formed objects end before (`Ends`); tables
  read amiss are inside the file, or at its end, where `ScanBeyond` follows the scan.
* The memory of a segment is a sequence of bytes: what `std::memcpy` and the
  loop that clears zeros do to it is their effect.
* Big-endian objects take the same paths as little-endian ones, through `msb_get()`.
* Not modelled, because nothing in the library calls it or can reach it: fetches
  of the cache wider than a byte (`raw_get(data, size)` is called for `st_info` and
  `st_other` alone, single bytes: as `raw_get()`, but that it delivers and counts nothing
  when the fetch fails); `get_offset_ptr()`
  and `get_string()`; the iterator's `retreat()`; `make_segment()` for names of
  its own and the search for a segment by attributes, since `prefetch()` asks only
  for what the fixed segments answer; `read_section_at()`, a stub; the entries of
  tables with addends, whose count `get_rel_count()` says is 0.
* Not modelled, because there is nothing to model: the ELF64 and archive readers,
  which are stubs; configuration and error text, which are constants and
  output, and of the target what is not an alignment or the mask; the branches for a big-endian host, which refuse to relocate.

## 7. Plan

The order was: the memory everything lands in (SegmentPool), the linking that
is the library's purpose (Linker, Namespace), the offsets between the two
(SectionLoad), what is written into the program (ArmReloc), what is read from
the file (DataCache, FilePtr), where names and symbols are kept (SymbolTable,
SymbolDirectory), and how an object is read from end to end (ElfReader). What
comes next, in this order:

1. **Linker over SymbolTable** through SymbolDirectory, as SectionLoad stands on
   SegmentPool through ByteTable.
2. **Further disagreements** to put a run behind: those that section 5 lists
   without one, a host that defines a name late (`image.cpp:192`), and functions
   closer together than the alignment (`elf32.cpp:241`).
3. **Proofs** of those refinements: the theorems of SegmentPool and SymbolTable then
   hold for the memory and the names that SectionLoad and Linker use.
