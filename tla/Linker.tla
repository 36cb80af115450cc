------------------------------- MODULE Linker -------------------------------
(***************************************************************************)
(* Loading relocatable objects into an image, one after the other: the     *)
(* image's symbol table (image.cpp, symbol_table.cpp) and the three passes *)
(* of elf32::factory::collect() over an object: import its symbols,        *)
(* resolve the relocations against what was imported, export its globals.  *)
(* A symbol, a relocation or a map entry is one action.  Where the bytes   *)
(* of a symbol go is module SectionLoad's business: here they have a place *)
(* that stands for their address.                                          *)
(***************************************************************************)
EXTENDS Integers, Sequences, FiniteSets

CONSTANTS Names,          \* symbol names, the image's segments' excepted
          NoName,         \* the empty name
          GotName,        \* _GLOBAL_OFFSET_TABLE_
          Objects,        \* the object files
          Foreign,        \* those load() refuses: format, class, machine or type
          Syms,           \* Syms[o]: the symbol table of o
          Rels,           \* Rels[o]: the relocation entries of o, table by table
          Prefetched,     \* the sections prefetch() loads ahead of time, unless empty
          PrefetchReads,  \* what reading the file may yield in prefetch(),
          SymbolReads,    \* in uld_import()
          RelReads,       \* and in uld_resolve(): subsets of BOOLEAN
          HostNames,      \* names the host may define
          MaxLoads        \* bound on the number of loads

Binds == {"local", "global", "weak"}
Types == {"notype", "body", "section", "other"}  \* "body": STT_FUNC, STT_OBJECT
NoSection == {"undef", "abs", "common", "outside"}
Sections == UNION {{Syms[o][i].sec : i \in DOMAIN Syms[o]} : o \in Objects}
\* A symbol of an object, its bytes being those of its section from lo to hi (st_value
\* masked, if it is a body); and a relocation: a word set to an address, by a field
\* that holds any or may be too narrow, or to a pointer to one; nothing to do;
\* and what is not implemented.
Symbol == [name: Names \union {NoName}, type: Types, bind: Binds, sec: Sections, lo: Nat, hi: Nat]
Forms == {"address", "near", "got", "none", "unsupported"}
Reloc == [sec: STRING, at: Nat, sym: Nat, form: Forms, table: {"rel", "rela"}]

ASSUME NamesAssumption == NoName \notin Names /\ GotName \in Names /\ HostNames \subseteq Names
ASSUME ObjectsAssumption ==
  \A o \in Objects :
    /\ Syms[o] \in Seq(Symbol)
    /\ Rels[o] \in Seq(Reloc)
    /\ \A i \in DOMAIN Rels[o] : /\ Rels[o][i].sym \in 0..Len(Syms[o])
                                 /\ Rels[o][i].form = "unsupported" => Rels[o][i].sym # 0
ASSUME ReadsAssumption ==
  PrefetchReads \subseteq BOOLEAN /\ SymbolReads \subseteq BOOLEAN /\ RelReads \subseteq BOOLEAN
ASSUME BoundsAssumption == MaxLoads \in Nat

VARIABLES image,   \* the image's symbol table
          loads,   \* how many loads were begun
          object,  \* the object of the last load
          phase,   \* "idle", "import", "resolve" or "export"
          next,    \* index of the next symbol, relocation or map entry
          pool,    \* m_symbol_pool: the factory's own symbols
          map,     \* m_symbol_map: symbol index to symbol
          binds,   \* m_bind_list
          missed,  \* some symbol, or some entry of the relocation table, could not be read
          result,  \* what the last load() returned, "none" before the first
          scanned, \* history: prefetch() of the last load succeeded
          before,  \* history: the image as the last load found it
          words    \* history: the words that relocations have set

factoryVars == <<pool, map, binds, missed>>
history == <<scanned, before, words>>
vars == <<image, loads, object, phase, next, pool, map, binds, missed, result, scanned, before, words>>

\* Addresses: a byte of a section of a load, something of the host, or nullptr.
Place(load, sec, off) == [load |-> load, sec |-> sec, off |-> off]
Null == Place(0, "null", 0)
HostPlace == Place(0, "host", 0)

\* References to symbols: m_symbol_map's pointers.
Ref(home, at) == [home |-> home, at |-> at]
NoRef == Ref("none", 0)

NewSymbol(name, bind, export, ra) ==
  [name |-> name, bind |-> bind, export |-> export, define |-> FALSE, ra |-> ra]

\* symbol_table_t::find_symbol(name, bind_any): the first entry of that name.
Entries(name) == {i \in 1..Len(image) : image[i].name = name}
LookupDefined(name) ==  \* mutant: entries without an address are passed over
  LET defined == {i \in Entries(name) : image[i].ra # Null}
  IN  IF defined = {} THEN 0 ELSE CHOOSE i \in defined : \A j \in defined : i <= j
Lookup(name) ==
  IF name = NoName \/ Entries(name) = {} THEN 0
  ELSE CHOOSE i \in Entries(name) : \A j \in Entries(name) : i <= j
Definition(name) == IF Lookup(name) = 0 THEN Null ELSE image[Lookup(name)].ra

-----------------------------------------------------------------------------
\* uld_set() makes an entry for each segment too, of the segment's name and without
\* an address: no object and no host asks for one, so that they are left out.
Init == /\ image = <<NewSymbol(GotName, "weak", FALSE, HostPlace)>>
        /\ loads = 0
        /\ object \in Objects
        /\ phase = "idle"
        /\ next = 1
        /\ pool = <<>> /\ map = <<>> /\ binds = <<>>
        /\ missed = FALSE
        /\ result = "none"
        /\ scanned = FALSE
        /\ before = image
        /\ words = {}

\* image::make_symbol() with an address appends without looking: the host is
\* taken to ask find_symbol() first.
HostDefine(name) ==
  /\ phase = "idle"
  /\ Lookup(name) = 0
  /\ image' = Append(image, NewSymbol(name, "global", FALSE, HostPlace))
  /\ UNCHANGED <<loads, object, phase, next, factoryVars, result, history>>

\* The factory dies with the load.
End(outcome) ==
  /\ phase' = "idle"
  /\ next' = 1
  /\ pool' = <<>> /\ map' = <<>> /\ binds' = <<>>
  /\ missed' = FALSE
  /\ result' = outcome

\* A load fails.  The words it has set are not followed any further, although a
\* definition it has left in the image leads to them.
Fail ==
  /\ End("failed")
  /\ words' = {w \in words : w.load # loads}
  /\ UNCHANGED <<loads, object, scanned, before>>

Begin(o) ==
  /\ phase = "idle"
  /\ loads < MaxLoads
  /\ loads' = loads + 1
  /\ object' = o
  /\ before' = image
  /\ UNCHANGED <<image, words>>

\* load() refuses the object.
Refuse(o) == o \in Foreign /\ Begin(o) /\ scanned' = FALSE /\ End("failed")

\* load() accepts the object; prefetch() leaves the section map and the flags
\* of what the object has, or leaves them clear when it fails, and then there
\* is nothing for collect() to do.
Load(o) ==
  /\ o \notin Foreign
  /\ Begin(o)
  /\ scanned' \in PrefetchReads
  /\ \/ /\ scanned'
        /\ phase' = "import"
        /\ UNCHANGED <<next, factoryVars, result>>
     \/ /\ ~scanned'
        /\ End("ok")

-----------------------------------------------------------------------------
(***************************************************************************)
(* uld_import(): uld_load_symbol() for each symbol in turn.                *)
(***************************************************************************)
sym == Syms[object][next]
Importing(type) == phase = "import" /\ next <= Len(Syms[object]) /\ sym.type = type
Here == Place(loads, sym.sec, sym.lo)
MapTo(ref) == map' = Append(map, ref) /\ next' = next + 1
ImageRef == Ref("image", Lookup(sym.name))
NewRefLast == Ref("pool", Len(pool))  \* mutant: taken before the symbol is made
NewRef == Ref("pool", Len(pool) + 1)

\* A read fails for good: a section header, the name of a symbol.
ImportUnread ==
  /\ phase = "import"
  /\ FALSE \in SymbolReads
  /\ Fail
  /\ UNCHANGED image

\* The entry itself cannot be read: the pass goes on and fails in the end.
ImportMissing ==
  /\ phase = "import"
  /\ next <= Len(Syms[object])
  /\ FALSE \in SymbolReads
  /\ missed' = TRUE
  /\ MapTo(NoRef)
  /\ UNCHANGED <<image, loads, object, phase, pool, binds, result, history>>

\* An undefined symbol binds to the image or waits in the pool for its export.
ImportUndefined ==
  /\ Importing("notype")
  /\ sym.sec = "undef"
  /\ \/ /\ sym.name = NoName
        /\ MapTo(NoRef)
        /\ UNCHANGED pool
     \/ /\ Lookup(sym.name) # 0
        /\ MapTo(ImageRef)
        /\ UNCHANGED pool
     \/ /\ sym.name # NoName /\ Lookup(sym.name) = 0
        /\ MapTo(NewRef)
        /\ pool' = Append(pool, NewSymbol(sym.name, sym.bind, TRUE, Null))
  /\ UNCHANGED <<image, loads, object, phase, binds, missed, result, history>>

\* An untyped symbol of a section: a chunk of local data, unless it is empty.
ImportChunk ==
  /\ Importing("notype")
  /\ sym.sec # "undef"
  /\ \/ /\ sym.sec \notin NoSection /\ sym.lo < sym.hi
        /\ MapTo(NewRef)
        /\ pool' = Append(pool, NewSymbol(sym.name, sym.bind, FALSE, Here))
     \/ /\ sym.sec \in NoSection \/ sym.lo >= sym.hi
        /\ MapTo(NoRef)
        /\ UNCHANGED pool
  /\ UNCHANGED <<image, loads, object, phase, binds, missed, result, history>>

ImportSection ==
  /\ Importing("section")
  /\ MapTo(IF sym.sec \in NoSection THEN NoRef ELSE Ref("section", next))
  /\ UNCHANGED <<image, loads, object, phase, pool, binds, missed, result, history>>

ImportOther ==
  /\ Importing("other")
  /\ MapTo(NoRef)
  /\ UNCHANGED <<image, loads, object, phase, pool, binds, missed, result, history>>

\* A function or object of a name that has a definition already.
RedefinesNever == FALSE  \* mutant: definitions are not looked up
Redefines == sym.bind # "weak" /\ Lookup(sym.name) # 0 /\ Definition(sym.name) # Null

ImportRedefinition ==
  /\ Importing("body")
  /\ Redefines
  /\ Fail
  /\ UNCHANGED image

\* The symbol of the image or of the pool that is to stand for the body.
MarkedAhead ==  \* mutant: the entry is made before the body is loaded
  IF Lookup(sym.name) = 0 THEN Append(image, NewSymbol(sym.name, sym.bind, FALSE, Null))
  ELSE [image EXCEPT ![Lookup(sym.name)].define = TRUE]
Marked == IF Lookup(sym.name) = 0 THEN image
          ELSE [image EXCEPT ![Lookup(sym.name)].define = TRUE]

\* Nowhere to load the body from, or its bytes cannot be had.
ImportNowhere ==
  /\ Importing("body")
  /\ ~Redefines
  /\ \/ sym.sec \in {"undef", "abs", "common"}
     \/ sym.sec # "outside" /\ FALSE \in SymbolReads
  /\ image' = Marked
  /\ Fail

\* The section is not in the section map: reported, and not a failure.
ImportOutside ==
  /\ Importing("body")
  /\ ~Redefines
  /\ sym.sec = "outside"
  /\ image' = Marked
  /\ pool' = IF Lookup(sym.name) = 0
             THEN Append(pool, NewSymbol(sym.name, sym.bind, sym.bind # "local", Null))
             ELSE pool
  /\ MapTo(NoRef)
  /\ UNCHANGED <<loads, object, phase, binds, missed, result, history>>

\* The body is loaded: in place over the image's entry, else as a pool symbol.
ImportBody ==
  /\ Importing("body")
  /\ ~Redefines
  /\ sym.sec \notin NoSection
  /\ \/ /\ Lookup(sym.name) = 0
        /\ pool' = Append(pool, NewSymbol(sym.name, sym.bind, sym.bind # "local", Here))
        /\ MapTo(NewRef)
        /\ UNCHANGED image
     \/ /\ Lookup(sym.name) # 0
        /\ image' = [Marked EXCEPT ![Lookup(sym.name)].ra = Here]
        /\ MapTo(ImageRef)
        /\ UNCHANGED pool
  /\ binds' = Append(binds, [sym |-> next, sec |-> sym.sec, base |-> sym.lo, last |-> sym.hi])
  /\ UNCHANGED <<loads, object, phase, missed, result, history>>

ImportShort ==
  /\ phase = "import"
  /\ next > Len(Syms[object])
  /\ missed
  /\ Fail
  /\ UNCHANGED image

ImportDone ==
  /\ phase = "import"
  /\ next > Len(Syms[object])
  /\ ~missed
  /\ phase' = "resolve"
  /\ next' = 1
  /\ UNCHANGED <<image, loads, object, factoryVars, result, history>>

-----------------------------------------------------------------------------
(***************************************************************************)
(* uld_resolve(): uld_resolve_rel() for each entry of each SHT_REL table.  *)
(***************************************************************************)
rel == Rels[object][next]
SameTable(i, j) == /\ Rels[object][i].sec = Rels[object][j].sec
                   /\ Rels[object][i].table = Rels[object][j].table
\* The pass goes on after an entry that cannot be read, but not after its table.
Cut == missed /\ next \in 2..Len(Rels[object]) /\ ~SameTable(next - 1, next)
Resolving == phase = "resolve" /\ binds # <<>> /\ next <= Len(Rels[object]) /\ ~Cut

\* The bindings whose bytes hold the relocated word.
BoundToLast(r) == {i \in 1..Len(binds) : /\ binds[i].sec = r.sec  \* mutant: off by one
                                         /\ binds[i].base <= r.at
                                         /\ r.at <= binds[i].last}
Bound(r) == {i \in 1..Len(binds) : /\ binds[i].sec = r.sec
                                   /\ binds[i].base <= r.at
                                   /\ r.at < binds[i].last}

SourceRef == IF rel.sym = 0 THEN NoRef ELSE map[rel.sym]

\* A section has bytes once prefetch() has loaded it, or a chunk or a body that ends
\* behind its beginning: only then offset_last has left offset_base.
SectionLoaded(sec) ==
  \/ sec \in Prefetched
  \/ \E i \in 1..Len(map) :
       LET s == Syms[object][i] IN
       s.sec = sec /\ s.type \in {"notype", "body"} /\ s.hi > 0 /\ map[i] # NoRef

\* uld_get_virtual_address()
Address(ref) ==
  CASE ref.home = "image" -> image[ref.at].ra
    [] ref.home = "pool" -> pool[ref.at].ra
    [] ref.home = "section" /\ SectionLoaded(Syms[object][ref.at].sec)
         -> Place(loads, Syms[object][ref.at].sec, 0)
    [] OTHER -> Null

\* uld_resolve() asks get_rel_count(), which is 0 for an SHT_RELA table.
SkipAddendTable ==
  /\ Resolving
  /\ rel.table = "rela"
  /\ next' = next + 1
  /\ UNCHANGED <<image, loads, object, phase, factoryVars, result, history>>

\* The word belongs to nothing that was imported.
SkipUnbound ==
  /\ Resolving
  /\ rel.table = "rel"
  /\ Bound(rel) = {}
  /\ next' = next + 1
  /\ UNCHANGED <<image, loads, object, phase, factoryVars, result, history>>

Sourced == rel.sym = 0 \/ map[rel.sym] # NoRef

\* Whether the symbol is one that other objects see too.
Shared(ref) == \/ ref.home = "image"
               \/ ref.home = "pool" /\ pool[ref.at].bind = "global" /\ pool[ref.at].export

\* The relocation is applied once for each binding that holds the word.
Apply ==
  /\ Resolving
  /\ rel.table = "rel"
  /\ Bound(rel) # {}
  /\ Sourced
  /\ rel.form # "unsupported"
  /\ words' = IF rel.form = "none" THEN words
              ELSE words \union
                {[load |-> loads, rel |-> next, form |-> rel.form, ref |-> SourceRef,
                  name |-> IF rel.sym = 0 THEN NoName ELSE Syms[object][rel.sym].name,
                  shared |-> Shared(SourceRef), value |-> Address(SourceRef),
                  times |-> Cardinality(Bound(rel))]}
  /\ next' = next + 1
  /\ UNCHANGED <<image, loads, object, phase, factoryVars, result, scanned, before>>

\* No symbol to relocate against.
ApplyUnsourced ==
  /\ Resolving
  /\ rel.table = "rel"
  /\ Bound(rel) # {}
  /\ ~Sourced
  /\ Fail
  /\ UNCHANGED image

\* The field may be too narrow for the address.
ApplyUnreachable ==
  /\ Resolving
  /\ rel.table = "rel"
  /\ Bound(rel) # {}
  /\ Sourced
  /\ rel.form = "near"
  /\ Fail
  /\ UNCHANGED image

ApplyUnsupported ==
  /\ Resolving
  /\ rel.table = "rel"
  /\ Bound(rel) # {}
  /\ Sourced
  /\ rel.form = "unsupported"
  /\ Fail
  /\ UNCHANGED image

\* The header of a table cannot be read: the pass goes on with the next table.
SkipUnread ==
  /\ Resolving
  /\ FALSE \in RelReads
  /\ next > 1 => ~SameTable(next - 1, next)
  /\ next' \in next + 1 .. Len(Rels[object]) + 1
  /\ \A i \in next .. next' - 1 : SameTable(i, next)
  /\ next' <= Len(Rels[object]) => ~SameTable(next', next)
  /\ UNCHANGED <<image, loads, object, phase, factoryVars, result, history>>

\* The entry cannot be read: it is passed over.
PassUnread ==
  /\ Resolving
  /\ FALSE \in RelReads
  /\ rel.table = "rel"
  /\ next' = next + 1
  /\ missed' = TRUE
  /\ UNCHANGED <<image, loads, object, phase, pool, map, binds, result, history>>

\* The relocations end, all of them or short of some: both are a success.
ResolveDone ==
  /\ phase = "resolve"
  /\ binds = <<>> \/ next > Len(Rels[object]) \/ Cut
  /\ phase' = "export"
  /\ next' = 1
  /\ missed' = FALSE
  /\ UNCHANGED <<image, loads, object, pool, map, binds, result, history>>

-----------------------------------------------------------------------------
(***************************************************************************)
(* uld_export(): the map entry by entry.                                   *)
(***************************************************************************)
entry == map[next]
Exporting == phase = "export" /\ next <= Len(map)

ExportedDefined(symbol) == symbol.export /\ symbol.ra # Null  \* mutant: references stay behind
ExportedUndefined(symbol) == symbol.export /\ symbol.ra = Null  \* mutant: bodies stay behind
Exported(symbol) == symbol.bind = "global" /\ symbol.export

ExportPool ==
  /\ Exporting
  /\ entry.home = "pool"
  /\ image' = IF Exported(pool[entry.at])
              THEN Append(image, [pool[entry.at] EXCEPT !.export = FALSE])
              ELSE image
  /\ next' = next + 1
  /\ UNCHANGED <<loads, object, phase, factoryVars, result, history>>

ExportImage ==
  /\ Exporting
  /\ entry.home = "image"
  /\ image' = IF image[entry.at].bind = "global"
              THEN [image EXCEPT ![entry.at].define = FALSE]
              ELSE image
  /\ next' = next + 1
  /\ UNCHANGED <<loads, object, phase, factoryVars, result, history>>

ExportNothingStays ==  \* mutant: the loop's increment is skipped as well
  /\ Exporting
  /\ entry.home \in {"none", "section"}
  /\ UNCHANGED vars
ExportNothing ==
  /\ Exporting
  /\ entry.home \in {"none", "section"}
  /\ next' = next + 1
  /\ UNCHANGED <<image, loads, object, phase, factoryVars, result, history>>

ExportDone ==
  /\ phase = "export"
  /\ next > Len(map)
  /\ End("ok")
  /\ UNCHANGED <<image, loads, object, history>>

Import == \/ ImportUnread \/ ImportMissing \/ ImportUndefined \/ ImportChunk \/ ImportSection
          \/ ImportOther \/ ImportRedefinition \/ ImportNowhere
          \/ ImportOutside \/ ImportBody \/ ImportShort \/ ImportDone
Resolve == SkipAddendTable \/ SkipUnread \/ PassUnread \/ SkipUnbound \/ Apply
           \/ ApplyUnsourced \/ ApplyUnreachable \/ ApplyUnsupported \/ ResolveDone
Export == ExportPool \/ ExportImage \/ ExportNothing \/ ExportDone

Next == \/ \E name \in HostNames : HostDefine(name)
        \/ \E o \in Objects : Load(o) \/ Refuse(o)
        \/ Import \/ Resolve \/ Export

Spec == Init /\ [][Next]_vars

\* load() is one thread running straight through its loops.
FairSpec == Spec /\ WF_vars(Import \/ Resolve \/ Export)

-----------------------------------------------------------------------------
\* The variables have their types.
Entry == [name: Names \union {NoName}, bind: Binds, export: BOOLEAN, define: BOOLEAN,
          ra: [load: Nat, sec: Sections \union {"host", "null"}, off: Nat]]
TypeOK ==
  /\ image \in Seq(Entry) /\ before \in Seq(Entry) /\ pool \in Seq(Entry)
  /\ loads \in 0..MaxLoads
  /\ object \in Objects
  /\ phase \in {"idle", "import", "resolve", "export"}
  /\ next \in Nat \ {0}
  /\ map \in Seq([home: {"none", "image", "pool", "section"}, at: Nat])
  /\ \A i \in 1..Len(map) : /\ map[i].home = "image" => map[i].at \in 1..Len(image)
                            /\ map[i].home = "pool" => map[i].at \in 1..Len(pool)
  /\ \A i \in 1..Len(binds) : binds[i].sym \in 1..Len(Syms[object])
  /\ missed \in BOOLEAN /\ scanned \in BOOLEAN
  /\ result \in {"none", "ok", "failed"}
  /\ \A w \in words : w.load \in 1..loads

\* A name has one entry in the image, however many objects mention or define it:
\* find_symbol() stops at the first, so a second one could never be seen.
UniqueNames ==
  \A i, j \in 1..Len(image) : image[i].name = image[j].name => i = j

\* After a load that succeeds and had its sections scanned, every global the object defines is found in the
\* image, with the address where this load put it: load() answers for the three
\* passes over the object.
Bodies(o) == {i \in 1..Len(Syms[o]) : /\ Syms[o][i].type = "body"
                                      /\ Syms[o][i].sec \notin NoSection}
ExportComplete ==
  phase = "idle" /\ result = "ok" /\ scanned =>
    \A i \in Bodies(object) :
      Syms[object][i].bind = "global" =>
        Definition(Syms[object][i].name) = Place(loads, Syms[object][i].sec, Syms[object][i].lo)

\* Every name the object leaves undefined is in the image as well after the load,
\* defined or not, for later objects to define.
ReferencesKept ==
  phase = "idle" /\ result = "ok" /\ scanned =>
    \A i \in 1..Len(Syms[object]) :
      LET s == Syms[object][i] IN
      s.type = "notype" /\ s.sec = "undef" /\ s.bind = "global" /\ s.name # NoName
        => Lookup(s.name) # 0

\* A load that fails adds no entry to the image and takes no definition away.
FailureAddsNothing ==
  [][phase # "idle" /\ phase' = "idle" /\ result' = "failed" =>
       /\ Len(image') = Len(before)
       /\ \A i \in 1..Len(before) : /\ image'[i].name = before[i].name
                                    /\ before[i].ra # Null => image'[i].ra = before[i].ra]_vars

\* A word set to the address of a symbol that objects share holds what the image
\* now says is the symbol's address, or nullptr if the symbol had none then.
WordsCurrent ==
  phase = "idle" =>
    \A w \in words : w.form \in {"address", "near"} /\ w.shared => w.value \in {Null, Definition(w.name)}

\* A load ends.
LoadEnds == phase # "idle" ~> phase = "idle"

-----------------------------------------------------------------------------
\* What the image promises of its names (module Namespace).
Namespace == INSTANCE Namespace WITH
  Undefined <- Null,
  entries <- [name \in {image[i].name : i \in 1..Len(image)} |-> Definition(name)]
DefinesOnce == Namespace!Spec

-----------------------------------------------------------------------------
(***************************************************************************)
(* What comments in the code say, and the code does not do.                *)
(***************************************************************************)

\* "if a symbol that goes by the same name exists in the table, it should be a
\* weak or an undefined one": what is defined over was weak or undefined.
DefinesOverWeak ==
  [][\A i \in 1..Len(image) :
       image'[i].ra # image[i].ra => image[i].bind = "weak" \/ image[i].ra = Null]_vars

\* "we don't have an actual GOT, but even better - a runtime symbol table": the
\* pointers a GOT relocation leaves lead to symbols that outlive the load.
GotOutlives ==
  phase = "idle" => \A w \in words : w.form = "got" => w.ref.home # "pool"

\* The relocations use the ABI's S + A, whose A is the addend found in the word: no
\* word is relocated twice although every binding that holds it has it relocated,
\* as long as no two symbols of the object share a byte (uld_resolve_rel()).
RelocatedOnce == \A w \in words : w.times = 1
=============================================================================
