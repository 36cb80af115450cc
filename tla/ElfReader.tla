------------------------------ MODULE ElfReader ------------------------------
(***************************************************************************)
(* One ELF object read from its first bytes to its last relocation: the    *)
(* raw, binary and ELF32 readers that image::load() stacks on one file,    *)
(* walked by prefetch(), uld_import() and uld_resolve().  Names come out   *)
(* of a string cache (DataCache) byte by byte; headers, symbols, entries   *)
(* and contents come through other caches on the same file, and appear     *)
(* here by what is read and by where they leave the file.                  *)
(***************************************************************************)
EXTENDS Integers, Sequences

CONSTANTS Magics,     \* what the file may begin with ...
          Idents,     \* ... and what its ident may say: "elf32", "elf64" or "odd"
          Ehdrs,      \* the ELF headers it may have: machine, rel, at, count, strndx, clean
          Shdrs,      \* Shdrs[i]: header of section i: type, name, link, items, offset, size
          MaxSection, \* numeric_limits<short int>::max(), for ids_str_load()
          Ends,       \* the positions of bytes that end a string
          JunkEhdrs,  \* what members that were never read, or read amiss, may hold:
          JunkShdrs,  \*   machine and rel are whether the target takes the object,
          JunkNames,  \*   at is whether e_shoff and e_shentsize lead to the headers
          Moves,      \* where the other caches leave the file
          Capacity,   \* l_string_capacity
          FileSize, Step, LockMax, Faults  \* as in DataCache

Types == {"null", "data", "symtab", "rel", "strtab"}
Symbols == [name : Int, body : BOOLEAN, clean : BOOLEAN]
Headers == [type : Types, name : Int, link : Int, items : Seq(Symbols),
            offset : Nat, size : Nat]
ElfHeaders == [machine : BOOLEAN, rel : BOOLEAN, at : BOOLEAN, count : Nat, strndx : Nat,
               clean : BOOLEAN]

ASSUME SizesAssumption ==
  /\ FileSize \in Nat /\ Step \in Nat \ {0, 1} /\ LockMax \in Nat /\ Capacity \in Nat
  /\ Faults \in SUBSET BOOLEAN /\ FALSE \in Faults
  /\ MaxSection \in Nat
  /\ Ends \subseteq 0..(FileSize - 1)

ASSUME HeadersAssumption ==
  /\ \A i \in DOMAIN Shdrs : Shdrs[i] \in Headers
  /\ JunkShdrs \subseteq Headers
  /\ JunkNames \subseteq Int
  /\ Ehdrs # {} /\ Ehdrs \union JunkEhdrs \subseteq ElfHeaders

\* What is read amiss is not what the object has, and what is read by it neither.
ASSUME JunkAssumption ==
  /\ \A e \in JunkEhdrs : ~e.clean
  /\ \A h \in JunkShdrs : \A k \in 1..Len(h.items) : ~h.items[k].clean

\* Section i has a string at that offset, ended by a byte within reach of a scan.
HasName(i, offset) ==
  /\ i \in DOMAIN Shdrs
  /\ offset \in 0..(Shdrs[i].size - 1)
  /\ \E e \in Ends : LET p == Shdrs[i].offset + offset IN p <= e /\ e < p + Capacity

\* The object is well-formed: its sections are counted, and they and their symbols named.
ASSUME ObjectAssumption ==
  /\ \A e \in Ehdrs : \A i \in DOMAIN Shdrs :
       i \in 0..(e.count - 1) /\ HasName(e.strndx, Shdrs[i].name)
  /\ \A i \in DOMAIN Shdrs : \A k \in 1..Len(Shdrs[i].items) :
       Shdrs[i].items[k].clean => HasName(Shdrs[i].link, Shdrs[i].items[k].name)

VARIABLES phase,    \* the step of image::load(), or its result: "loaded" or "failed"
          elf,      \* m_elf_bit; m_lsb_bit or m_msb_bit is set with it
          ehdr,     \* e_*
          str,      \* m_str_section, m_str_offset, m_str_size; clean: history, read well
          name,     \* the call of ids_str_get() under way, and what it answered
          index,    \* the section a pass is at
          shdr,     \* its header, while it is being worked on
          item,     \* the symbol or relocation a pass is at in it
          sym,      \* the symbol at hand
          have,     \* m_shdr_have_symtab
          short,    \* fewer successes than there are sections, or items, to take
          bound,    \* m_bind_list is not empty
          taken,    \* history: the symbols and relocations taken
          lost      \* history: something was passed over without a word

\* m_str_cache
VARIABLES read_offset, data_index, read_size, data_size, buffer, file_pos, locks, got, told
Str == INSTANCE DataCache WITH Positions <- 0..FileSize, Counts <- {1}, ReadLimit <- FileSize

walk == <<index, shdr, item, sym, have, short, bound, taken, lost>>
reader == <<elf, ehdr, str, name>>
cache == <<read_offset, data_index, read_size, data_size, buffer, file_pos, locks, got, told>>
vars == <<phase, reader, walk, cache>>

Nothing == [type |-> "null", name |-> 0, link |-> 0, items |-> <<>>, offset |-> 0, size |-> 0]
NoSym == [name |-> 0, body |-> FALSE, clean |-> FALSE]
NoEhdr == [machine |-> FALSE, rel |-> FALSE, at |-> FALSE, count |-> 0, strndx |-> 0,
           clean |-> FALSE]
NoName == [state |-> "none", section |-> 0, offset |-> 0, start |-> 0, length |-> 0,
           valid |-> FALSE, clean |-> FALSE]

Init == /\ phase = "open" /\ elf = FALSE /\ ehdr = NoEhdr
        /\ str = [section |-> 0, offset |-> 0, size |-> 0, clean |-> TRUE]
        /\ name = NoName
        /\ index = 0 /\ shdr = Nothing /\ item = 0 /\ sym = NoSym
        /\ have = FALSE /\ short = FALSE /\ bound = FALSE
        /\ taken = {} /\ lost = FALSE
        /\ Str!Init /\ file_pos = 0

Faulty == TRUE \in Faults

\* The file is read elsewhere, through its other caches or past all of them.
Moved == Str!Elsewhere /\ file_pos' \in Moves

-----------------------------------------------------------------------------
(***************************************************************************)
(* What the reader's calls may report.  lsb_get() counts the bytes it was  *)
(* asked for, not those it got: a header read amiss is reported as read.   *)
(***************************************************************************)
Unread == [ok |-> FALSE, shdr |-> Nothing, clean |-> FALSE]
Amiss == {[ok |-> TRUE, shdr |-> j, clean |-> FALSE] : j \in JunkShdrs}

\* read_section_info()
ShdrReads(i) ==
  IF ~elf \/ i < 0 \/ i >= ehdr.count THEN {Unread}
  ELSE (IF ehdr.at /\ i \in DOMAIN Shdrs
        THEN {[ok |-> TRUE, shdr |-> Shdrs[i], clean |-> TRUE]} ELSE Amiss)
       \union (IF Faulty THEN {Unread} \union Amiss ELSE {})

\* read_symbol_info(); its last fields are single bytes, whose failure it does report.
SymReads(it) ==
  {[ok |-> TRUE, sym |-> it]} \union
  (IF ~Faulty THEN {}
   ELSE {[ok |-> FALSE, sym |-> NoSym]} \union
        {[ok |-> TRUE, sym |-> [name |-> n, body |-> b, clean |-> FALSE]]
           : n \in JunkNames, b \in BOOLEAN})

\* read_rel_info(): whether the entry is there; what is in it is for Linker.
RelReads == IF Faulty THEN BOOLEAN ELSE {TRUE}

SymCount(h) == IF h.type = "symtab" THEN Len(h.items) ELSE 0
RelCount(h) == IF h.type = "rel" THEN Len(h.items) ELSE 0

-----------------------------------------------------------------------------
(***************************************************************************)
(* ids_str_get(): the header of the string section, if it is not the one   *)
(* that is remembered, then the string, byte by byte under a lock.         *)
(***************************************************************************)
ReloadUnset(section) == str.offset = 0 \/ str.section = 0  \* mutant: whatever section it is
Reload(section) == str.offset = 0 \/ str.section = 0 \/ str.section # section

\* ids_str_load(), which takes no section behind MaxSection
Refusal == [ok |-> FALSE, str |-> str, clean |-> TRUE]
Tables(section) ==
  IF ~Reload(section) THEN {[ok |-> TRUE, str |-> str, clean |-> str.clean]}
  ELSE IF section > MaxSection THEN {Refusal}
  ELSE {[ok |-> r.ok, clean |-> r.clean,
         str |-> IF r.ok THEN [section |-> section, offset |-> r.shdr.offset,
                               size |-> r.shdr.size, clean |-> r.clean]
                 ELSE str] : r \in ShdrReads(section)}

Ask(section, offset, clean) ==
  \E t \in IF offset < 0 THEN {Refusal} ELSE Tables(section) :
    /\ str' = t.str
    /\ name' = [NoName EXCEPT
                  !.state = IF t.ok /\ offset < t.str.size THEN "seek" ELSE "refused",
                  !.section = section, !.offset = offset,
                  !.clean = clean /\ t.clean]

Answering(state) == name.state = state /\ UNCHANGED <<phase, elf, ehdr, str, walk>>

SeekName ==
  LET p == str.offset + name.offset IN
  /\ Answering("seek")
  /\ Str!SeekHeld(p) \/ Str!SeekAway(p) \/ Str!SeekRefused(p)
  /\ name' = [name EXCEPT !.state = IF told' = p THEN "acquire" ELSE "refused",
                          !.clean = @ /\ (told' = p \/ locks # <<>>)]

AcquireName ==
  /\ Answering("acquire")
  /\ Str!Acquire
  /\ name' = [name EXCEPT !.state = "scan", !.start = data_index]

FullBehind(n) == n > Capacity  \* mutant: one too many
Full(n) == n >= Capacity

\* raw_get() says 255 when it fails, and that is one more character.
ScanName ==
  /\ Answering("scan")
  /\ ~Full(name.length)
  /\ Str!Get
  /\ name' = IF got' # <<>> /\ got'[1] \in Ends
             THEN [name EXCEPT !.state = "release", !.valid = TRUE]
             ELSE [name EXCEPT !.length = @ + 1, !.clean = @ /\ got' # <<>>]

\* At the end of the file, or behind it, the window stays empty and every byte is EOF,
\* up to the capacity.  A scan that gets there from within a window is not followed:
\* the cache has the window read once more and counts what it had as new.
ScanBeyond ==
  /\ Answering("scan")
  /\ ~Full(name.length)
  /\ read_offset >= FileSize
  /\ Str!FetchFails(1) \/ Str!FetchReads(1)
  /\ UNCHANGED locks
  /\ name' = [name EXCEPT !.length = @ + 1]

OverrunLocked == UNCHANGED cache /\ name' = [name EXCEPT !.state = "refused"]  \* mutant
Overrun == UNCHANGED cache /\ name' = [name EXCEPT !.state = "release"]

ScanOverrun == Answering("scan") /\ Full(name.length) /\ Overrun

ReleaseName ==
  /\ Answering("release")
  /\ Str!Release
  /\ name' = [name EXCEPT !.state = IF name.valid THEN "given" ELSE "refused"]

-----------------------------------------------------------------------------
(***************************************************************************)
(* image::load() to image::uld_load_elf32(): the file's magic, its ident,  *)
(* its header.                                                             *)
(***************************************************************************)
Fail == phase' = "failed"

\* raw_bfd_t, and has_type() on what it found
OpenRaw ==
  /\ phase = "open"
  /\ \E m \in Magics : IF m = "elf" THEN phase' = "ident" ELSE Fail
  /\ Moved /\ UNCHANGED <<reader, walk>>

OpenFails == phase = "open" /\ Faulty /\ Fail /\ UNCHANGED <<reader, walk, cache>>

\* bin_bfd_t: an ident that is not read, or not a sane one, is as good as 32 bit.
ReadIdent ==
  /\ phase = "ident"
  /\ \E i \in Idents \union (IF Faulty THEN {"odd"} ELSE {}) :
       /\ elf' = (i # "odd")
       /\ phase' = IF i = "elf64" THEN "failed" ELSE "header"
  /\ Moved /\ UNCHANGED <<ehdr, str, name, walk>>

\* elf32_bfd_t: the header, or what was in its place; another machine's is refused.
ReadEhdr ==
  /\ phase = "header"
  /\ \E e \in (IF elf THEN Ehdrs ELSE JunkEhdrs) \union (IF Faulty THEN JunkEhdrs ELSE {}) :
       /\ ehdr' = e
       /\ phase' = IF e.machine THEN "prefetch" ELSE "failed"
       /\ lost' = ~e.clean
  /\ Moved
  /\ UNCHANGED <<elf, str, name, index, shdr, item, sym, have, short, bound, taken>>

-----------------------------------------------------------------------------
\* prefetch() asks for each section and its name; what it does not get it passes over ...
NextNamed ==  \* mutant: until it has a name
  index' = (IF name.state = "given" THEN index + 1 ELSE index) /\ shdr' = Nothing /\ name' = NoName
NextSection == index' = index + 1 /\ shdr' = Nothing /\ name' = NoName

PrefetchSection ==
  /\ phase = "prefetch" /\ name.state = "none" /\ index < ehdr.count
  /\ \E r \in ShdrReads(index) :
       /\ lost' = (lost \/ ~r.clean)
       /\ IF r.ok
          THEN shdr' = r.shdr /\ Ask(ehdr.strndx, r.shdr.name, r.clean /\ ehdr.clean)
               /\ UNCHANGED index
          ELSE NextSection /\ UNCHANGED str
  /\ Moved
  /\ UNCHANGED <<phase, elf, ehdr, item, sym, have, short, bound, taken>>

PrefetchUnnamed ==
  /\ phase = "prefetch" /\ name.state = "refused"
  /\ lost' = TRUE
  /\ NextSection
  /\ UNCHANGED <<phase, elf, ehdr, str, item, sym, have, short, bound, taken, cache>>

\* ... and loads data; it ends early if that fails, and nobody asks.
PrefetchNamed ==
  /\ phase = "prefetch" /\ name.state = "given"
  /\ have' = (have \/ (SymCount(shdr) > 0))
  /\ NextSection
  /\ IF shdr.type = "data" THEN Moved ELSE UNCHANGED cache
  /\ UNCHANGED <<phase, elf, ehdr, str, item, sym, short, bound, taken, lost>>

StartImport ==
  /\ phase' = IF ehdr.rel THEN "import" ELSE "failed"
  /\ index' = 0 /\ shdr' = Nothing /\ name' = NoName

PrefetchFails ==
  /\ phase = "prefetch" /\ name.state = "given" /\ shdr.type = "data" /\ Faulty
  /\ StartImport
  /\ have' = FALSE /\ lost' = TRUE
  /\ Moved /\ UNCHANGED <<elf, ehdr, str, item, sym, short, bound, taken>>

PrefetchDone ==
  /\ phase = "prefetch" /\ name.state = "none" /\ index >= ehdr.count
  /\ StartImport
  /\ UNCHANGED <<elf, ehdr, str, item, sym, have, short, bound, taken, lost, cache>>

-----------------------------------------------------------------------------
\* uld_import(): each symbol of each symbol table ...
Between(p) == phase = p /\ name.state = "none" /\ shdr = Nothing
Within(p) == phase = p /\ name.state = "none" /\ shdr # Nothing

ImportNothing ==
  /\ phase = "import" /\ ~have
  /\ phase' = "loaded"
  /\ UNCHANGED <<reader, walk, cache>>

Table(r, type) ==
  IF r.ok /\ r.shdr.type = type
  THEN shdr' = r.shdr /\ item' = 1 /\ UNCHANGED index
  ELSE index' = index + 1 /\ UNCHANGED <<shdr, item>>

ImportSection ==
  /\ Between("import") /\ have /\ index < ehdr.count
  /\ \E r \in ShdrReads(index) : /\ Table(r, "symtab")
                                 /\ short' = (short \/ ~r.ok)
                                 /\ lost' = (lost \/ (r.ok /\ ~r.clean))
  /\ Moved /\ UNCHANGED <<phase, reader, sym, have, bound, taken>>

ImportSymbol ==
  /\ Within("import") /\ item <= SymCount(shdr)
  /\ \E r \in SymReads(shdr.items[item]) :
       IF r.ok
       THEN sym' = r.sym /\ Ask(shdr.link, r.sym.name, r.sym.clean) /\ UNCHANGED <<item, short>>
       ELSE item' = item + 1 /\ short' = TRUE /\ UNCHANGED <<sym, str, name>>
  /\ Moved /\ UNCHANGED <<phase, elf, ehdr, index, shdr, have, bound, taken, lost>>

\* uld_load_symbol() looks the name up, reads the symbol's section, ...
ImportBody ==
  /\ phase = "import" /\ name.state = "given"
  /\ name' = [name EXCEPT !.state = "held"]
  /\ IF sym.body THEN Moved ELSE UNCHANGED cache
  /\ UNCHANGED <<phase, elf, ehdr, str, walk>>

\* ... and makes the symbol, of this name, ...
ImportTake ==
  /\ phase = "import" /\ name.state = "held"
  /\ taken' = taken \union {<<index, item>>}
  /\ bound' = (bound \/ sym.body)
  /\ item' = item + 1
  /\ name' = NoName
  /\ UNCHANGED <<phase, elf, ehdr, str, index, shdr, sym, have, short, lost, cache>>

\* ... or fails on it, and with it the load.
ImportFails ==
  /\ phase = "import" /\ name.state \in {"refused", "held"}
  /\ Fail /\ UNCHANGED <<reader, walk, cache>>

\* A table whose symbols were not all taken ends the pass, ...
NeverShort == FALSE  \* mutant: the successes are not counted
Short == short

ImportTable ==
  /\ Within("import") /\ item > SymCount(shdr)
  /\ IF Short THEN Fail /\ UNCHANGED walk
     ELSE /\ index' = index + 1 /\ shdr' = Nothing
          /\ UNCHANGED <<phase, item, sym, have, short, bound, taken, lost>>
  /\ UNCHANGED <<reader, cache>>

\* ... and so does a section that was not read, behind the last.
ImportDone ==
  /\ Between("import") /\ have /\ index >= ehdr.count
  /\ phase' = IF Short THEN "failed" ELSE IF bound THEN "resolve" ELSE "loaded"
  /\ index' = 0 /\ short' = FALSE
  /\ UNCHANGED <<reader, shdr, item, sym, have, bound, taken, lost, cache>>

-----------------------------------------------------------------------------
\* uld_resolve(): each entry of each table of relocations; what is not read is left.
ResolveSection ==
  /\ Between("resolve") /\ index < ehdr.count
  /\ \E r \in ShdrReads(index) : /\ Table(r, "rel")
                                 /\ lost' = (lost \/ ~r.clean)
  /\ Moved /\ UNCHANGED <<phase, reader, sym, have, short, bound, taken>>

ResolveEntry ==
  /\ Within("resolve") /\ item <= RelCount(shdr)
  /\ \E read \in RelReads :
       \/ /\ item' = item + 1
          /\ taken' = IF read THEN taken \union {<<index, item>>} ELSE taken
          /\ short' = (short \/ ~read) /\ lost' = (lost \/ ~read)
          /\ UNCHANGED phase
       \/ read /\ Fail /\ UNCHANGED <<item, taken, short, lost>>
  /\ Moved /\ UNCHANGED <<reader, index, shdr, sym, have, bound>>

ResolveTable ==
  /\ Within("resolve") /\ item > RelCount(shdr)
  /\ IF Short THEN phase' = "loaded" /\ UNCHANGED <<index, shdr>>
     ELSE index' = index + 1 /\ shdr' = Nothing /\ UNCHANGED phase
  /\ UNCHANGED <<reader, item, sym, have, short, bound, taken, lost, cache>>

ResolveDone ==
  /\ Between("resolve") /\ index >= ehdr.count
  /\ phase' = "loaded"
  /\ UNCHANGED <<reader, walk, cache>>

Name == SeekName \/ AcquireName \/ ScanName \/ ScanBeyond \/ ScanOverrun \/ ReleaseName
Open == OpenRaw \/ OpenFails \/ ReadIdent \/ ReadEhdr
Prefetch == PrefetchSection \/ PrefetchUnnamed \/ PrefetchNamed \/ PrefetchFails \/ PrefetchDone
Import == \/ ImportNothing \/ ImportSection \/ ImportSymbol \/ ImportBody \/ ImportTake
          \/ ImportFails \/ ImportTable \/ ImportDone
Resolve == ResolveSection \/ ResolveEntry \/ ResolveTable \/ ResolveDone

Next == Name \/ Open \/ Prefetch \/ Import \/ Resolve

\* load() is one thread's, and each of its steps returns.
Spec == Init /\ [][Next]_vars /\ WF_vars(Next)

-----------------------------------------------------------------------------
\* The variables have their types; no more than Capacity bytes are scanned.
TypeOK ==
  /\ phase \in {"open", "ident", "header", "prefetch", "import", "resolve", "loaded", "failed"}
  /\ elf \in BOOLEAN /\ ehdr \in {NoEhdr} \union Ehdrs \union JunkEhdrs
  /\ str.section \in Int /\ str.offset \in Nat /\ str.size \in Nat /\ str.clean \in BOOLEAN
  /\ name.state \in {"none", "seek", "acquire", "scan", "release", "given", "held", "refused"}
  /\ name.length \in 0..Capacity /\ name.start \in 0..data_size
  /\ index \in 0..ehdr.count /\ item \in Nat
  /\ have \in BOOLEAN /\ short \in BOOLEAN /\ bound \in BOOLEAN /\ lost \in BOOLEAN

\* The name a caller has is the string of the section and offset it asked for, down to
\* the byte that ends it, and is still in place when the section's data was read:
\* whichever string table was used before, wherever the file was moved to, and however
\* often the buffer was read again on the way.  Without a fault its length is right too.
EndOf(p) == CHOOSE e \in Ends : e >= p /\ \A f \in Ends : f >= p => e <= f
NameRight ==
  name.state \in {"given", "held"} /\ str.clean =>
    /\ name.section \in DOMAIN Shdrs
    /\ LET p == Shdrs[name.section].offset + name.offset IN
       /\ \A k \in 0..(EndOf(p) - p) :
            /\ name.start + k + 1 <= data_size
            /\ buffer[name.start + k + 1] = p + k
       /\ name.clean => name.length = EndOf(p) - p

\* A name is refused only for a fault met on the way to it, for a string table whose
\* header was read amiss, or for one in a section behind MaxSection: no earlier call,
\* however it ended, leaves the cache in a state that refuses the next.
RefusedForCause == name.state = "refused" => ~name.clean \/ name.section > MaxSection

\* A load that reports success took every symbol, and every relocation if any symbol
\* has contents, unless a section was passed over or a header read amiss.
Collected ==
  phase = "loaded" /\ ~lost =>
    \A i \in DOMAIN Shdrs : \A k \in 1..Len(Shdrs[i].items) :
      Shdrs[i].type = "symtab" \/ (Shdrs[i].type = "rel" /\ bound) => <<i, k>> \in taken

\* A load ends, if every read of the file fails.
LoadEnds == <>(phase \in {"loaded", "failed"})
=============================================================================
