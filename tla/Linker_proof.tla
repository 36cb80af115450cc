---------------------------- MODULE Linker_proof ----------------------------
(***************************************************************************)
(* What loads leave in the image, whatever the objects, their number and   *)
(* their order, and wherever a load fails.                                 *)
(***************************************************************************)
EXTENDS Linker, WellFoundedInduction, FiniteSetTheorems, TLAPS

Binding == [sym: Nat, sec: Sections, base: Nat, last: Nat]

\* The factory has nothing between loads, and has a load's number during one.
Fresh == /\ phase = "idle" => pool = <<>> /\ map = <<>> /\ binds = <<>>
         /\ phase # "idle" => loads # 0
         /\ binds \in Seq(Binding)

IInv == TypeOK /\ Fresh

-----------------------------------------------------------------------------
Locations == [load: Nat, sec: Sections \union {"host", "null"}, off: Nat]

\* Every address the linker writes has the type of an address, and the host's is not nullptr.
LEMMA PlaceTyped ==
  /\ HostPlace \in Locations /\ Null \in Locations /\ HostPlace # Null
  /\ \A load, off \in Nat, sec \in Sections : Place(load, sec, off) \in Locations
  BY DEF HostPlace, Null, Place, Locations

\* So have the symbols that are made.
LEMMA NewTyped ==
  ASSUME NEW name \in Names \union {NoName}, NEW bind \in Binds, NEW export \in BOOLEAN,
         NEW ra \in Locations
  PROVE  NewSymbol(name, bind, export, ra) \in Entry
BY DEF NewSymbol, Entry, Locations

\* The symbol that is imported is one of the object's.
LEMMA SymTyped ==
  ASSUME IInv, next <= Len(Syms[object])
  PROVE  /\ next \in 1..Len(Syms[object]) /\ sym \in Symbol
         /\ sym = Syms[object][next] /\ Here \in Locations
<1>1. object \in Objects /\ next \in Nat \ {0} /\ loads \in Nat
  BY BoundsAssumption DEF IInv, TypeOK
<1>2. Syms[object] \in Seq(Symbol)
  BY <1>1, ObjectsAssumption
<1>3. next \in 1..Len(Syms[object])
  BY <1>1, <1>2
<1>4. sym \in Symbol
  BY <1>2, <1>3 DEF sym
<1> QED
  BY <1>1, <1>3, <1>4, PlaceTyped DEF Symbol, Here, sym

\* find_symbol() yields an entry of the name, if there is one and it is a name.
LEMMA LookupFirst ==
  ASSUME image \in Seq(Entry), NEW name
  PROVE  /\ Lookup(name) \in 0..Len(image)
         /\ Lookup(name) # 0 => /\ name # NoName /\ Lookup(name) \in Entries(name)
                                /\ \A j \in Entries(name) : Lookup(name) <= j
         /\ name # NoName /\ Entries(name) # {} => Lookup(name) # 0
<1>1. Len(image) \in Nat /\ Entries(name) \subseteq 1..Len(image)
  BY DEF Entries
<1>2. CASE name = NoName \/ Entries(name) = {}
  BY <1>1, <1>2 DEF Lookup
<1>3. CASE name # NoName /\ Entries(name) # {}
  <2>1. Entries(name) \subseteq Nat
    BY <1>1
  <2>2. \E i \in Entries(name) : \A j \in Entries(name) : i <= j
    <3> DEFINE Less == {ss \in Nat \X Nat : ss[1] < ss[2]}
    <3>1. IsWellFoundedOn(Less, Nat)
      BY NatLessThanWellFounded DEF OpToRel
    <3>3. \A i, j \in Nat : <<j, i>> \notin Less => i <= j
      OBVIOUS
    <3> HIDE DEF Less
    <3>2. \E i \in Entries(name) : \A j \in Entries(name) : <<j, i>> \notin Less
      BY <2>1, <1>3, <3>1, WFMin
    <3> QED
      BY <2>1, <3>2, <3>3
  <2> DEFINE least == CHOOSE i \in Entries(name) : \A j \in Entries(name) : i <= j
  <2>3. least \in Entries(name) /\ \A j \in Entries(name) : least <= j
    BY <2>2
  <2>4. Lookup(name) = least
    BY <1>3 DEF Lookup
  <2> HIDE DEF least
  <2> QED
    BY <1>1, <1>3, <2>3, <2>4
<1> QED
  BY <1>2, <1>3

-----------------------------------------------------------------------------
\* The type invariant in two parts: the flags, and the rest.
Flags == missed \in BOOLEAN /\ scanned \in BOOLEAN
Image == image \in Seq(Entry) /\ before \in Seq(Entry)
Walk == /\ loads \in 0..MaxLoads
         /\ object \in Objects
         /\ phase \in {"idle", "import", "resolve", "export"}
         /\ next \in Nat \ {0}
         /\ result \in {"none", "ok", "failed"}
         /\ \A w \in words : w.load \in 1..loads
Factory ==
  /\ pool \in Seq(Entry)
  /\ map \in Seq([home: {"none", "image", "pool", "section"}, at: Nat])
  /\ \A i \in 1..Len(map) : /\ map[i].home = "image" => map[i].at \in 1..Len(image)
                            /\ map[i].home = "pool" => map[i].at \in 1..Len(pool)
  /\ \A i \in 1..Len(binds) : binds[i].sym \in 1..Len(Syms[object])
\* The invariant is the conjunction of its parts.
LEMMA Parts == IInv <=> Flags /\ Image /\ Walk /\ Factory /\ Fresh
BY DEF IInv, TypeOK, Flags, Image, Walk, Factory

\* The type invariant, action by action.
LEMMA InitInv == Init => IInv
<1> SUFFICES ASSUME Init PROVE IInv
  OBVIOUS
<1> DEFINE got == NewSymbol(GotName, "weak", FALSE, HostPlace)
<1>1. got \in Entry
  BY NamesAssumption, NewTyped, PlaceTyped DEF Binds
<1>2. image = <<got>> /\ before = image
  BY DEF Init
<1>3. Flags
  BY Zenon DEF Init, Flags
<1> HIDE DEF got
<1>4. Image
  BY <1>1, <1>2 DEF Image
<1>5. Walk /\ Factory /\ Fresh
  BY BoundsAssumption DEF Init, Walk, Factory, Fresh
<1> QED
  BY <1>3, <1>4, <1>5, Parts

\* A load that ends leaves the factory with nothing.
LEMMA EndInv ==
  ASSUME IInv, NEW outcome \in {"ok", "failed"}, End(outcome), Image',
         loads' \in 0..MaxLoads, object' \in Objects, scanned' \in BOOLEAN,
         \A w \in words' : w.load \in 1..loads'
  PROVE  IInv'
<1>1. Flags'
  BY Zenon DEF End, Flags
<1>2. Walk'
  BY DEF End, Walk
<1>3. Factory' /\ Fresh'
  BY DEF End, Factory, Fresh
<1> QED
  BY <1>1, <1>2, <1>3 DEF IInv, TypeOK, Flags, Image, Walk, Factory

\* A load that returns false keeps the invariant.
LEMMA FailInv ==
  ASSUME IInv, Fail, image' \in Seq(Entry)
  PROVE  IInv'
<1>1. End("failed") /\ \A w \in words' : w.load \in 1..loads'
  BY Parts DEF Fail, Walk
<1>2. Image' /\ loads' \in 0..MaxLoads /\ object' \in Objects
  BY Parts DEF Fail, Image, Walk
<1>3. scanned' \in BOOLEAN
  BY Parts, Zenon DEF Fail, Flags
<1> QED
  BY <1>1, <1>2, <1>3, EndInv

\* So does uld_define() of a name by the host.
LEMMA HostInv ==
  ASSUME IInv, NEW name \in HostNames, HostDefine(name)
  PROVE  IInv'
<1> DEFINE new == NewSymbol(name, "global", FALSE, HostPlace)
<1>1. new \in Entry
  BY NamesAssumption, NewTyped, PlaceTyped DEF Binds
<1>2. /\ image' = Append(image, new)
      /\ UNCHANGED <<loads, object, phase, next, pool, map, binds, missed, result, scanned, before, words>>
  BY DEF HostDefine, factoryVars, history
<1> HIDE DEF new
<1>3. phase = "idle" /\ map = <<>>
  BY Parts DEF Fresh, HostDefine
<1>4. Image' /\ Factory'
  BY <1>1, <1>2, <1>3, Parts DEF Image, Factory
<1>5. Walk' /\ Fresh'
  BY <1>2, <1>3, Parts DEF Walk, Fresh
<1>6. Flags'
  BY <1>2, Parts, Zenon DEF Flags
<1> QED
  BY <1>4, <1>5, <1>6 DEF IInv, TypeOK, Flags, Image, Walk, Factory

\* So does the start of a load, whether its sections were scanned or refused.
LEMMA BeginInv ==
  ASSUME IInv, NEW o \in Objects, Load(o) \/ Refuse(o)
  PROVE  IInv'
<1>1. Begin(o) /\ scanned' \in BOOLEAN
  BY ReadsAssumption, Zenon DEF Load, Refuse
<1>2. /\ loads \in Nat /\ loads' = loads + 1 /\ loads' \in 0..MaxLoads /\ object' \in Objects
      /\ Image' /\ \A w \in words' : w.load \in 1..loads'
  BY <1>1, BoundsAssumption, Parts DEF Begin, Walk, Image
<1>3. CASE End("ok") \/ End("failed")
  BY <1>1, <1>2, <1>3, EndInv
<1>4. CASE phase' = "import" /\ UNCHANGED <<next, factoryVars, result>>
  <2>1. phase = "idle" /\ pool = <<>> /\ map = <<>> /\ binds = <<>>
    BY <1>1, Parts DEF Begin, Fresh
  <2>2. Walk' /\ Factory' /\ Fresh'
    BY <1>1, <1>2, <1>4, <2>1, Parts DEF Walk, Factory, Fresh, factoryVars
  <2>3. Flags'
    BY <1>1, <1>4, Parts, Zenon DEF Flags, factoryVars
  <2> QED
    BY <1>2, <2>2, <2>3 DEF IInv, TypeOK, Flags, Image, Walk, Factory
<1> QED
  BY <1>1, <1>3, <1>4 DEF Load, Refuse

-----------------------------------------------------------------------------
(***************************************************************************)
(* What a step of uld_import() comes to: the load fails, the symbol is     *)
(* mapped, or the pass is over.                                            *)
(***************************************************************************)
Refs == [home: {"none", "image", "pool", "section"}, at: Nat]
Settled == UNCHANGED <<loads, object, phase, result, scanned, before, words>>

\* The image's entries stay, in order; their addresses stay, all but that of one.
NamesStay == /\ image' \in Seq(Entry)
             /\ Len(image') = Len(image)
             /\ \A i \in 1..Len(image) : image'[i].name = image[i].name
RasStay == \A i \in 1..Len(image) : image'[i].ra = image[i].ra
Defines == /\ Importing("body") /\ ~Redefines /\ sym.sec \notin NoSection
           /\ Lookup(sym.name) # 0
           /\ \A i \in 1..Len(image) :
                image'[i].ra = IF i = Lookup(sym.name) THEN Here ELSE image[i].ra

\* uld_import() marks an entry it is about to define.
LEMMA MarkedStays ==
  ASSUME IInv, next <= Len(Syms[object])
  PROVE  /\ Marked \in Seq(Entry) /\ Len(Marked) = Len(image)
         /\ \A i \in 1..Len(image) : Marked[i].name = image[i].name /\ Marked[i].ra = image[i].ra
<1>1. image \in Seq(Entry) /\ Lookup(sym.name) \in 0..Len(image)
  BY LookupFirst, Parts DEF Image
<1>2. CASE Lookup(sym.name) = 0
  BY <1>1, <1>2 DEF Marked
<1>3. CASE Lookup(sym.name) # 0
  <2> DEFINE at == Lookup(sym.name)
             new == [image[at] EXCEPT !.define = TRUE]
  <2>1. at \in 1..Len(image) /\ image[at] \in Entry
    BY <1>1, <1>3
  <2>2. new \in Entry /\ new.name = image[at].name /\ new.ra = image[at].ra
    BY <2>1 DEF Entry
  <2>3. Marked = [image EXCEPT ![at] = new]
    BY <1>3 DEF Marked
  <2> HIDE DEF at, new
  <2> QED
    BY <1>1, <2>1, <2>2, <2>3
<1> QED
  BY <1>2, <1>3

\* Mapping a symbol keeps the types.
LEMMA MapInv ==
  ASSUME IInv, phase = "import", next <= Len(Syms[object]), NEW ref \in Refs, MapTo(ref),
         NamesStay, pool' \in Seq(Entry), Len(pool') >= Len(pool),
         ref.home = "image" => ref.at \in 1..Len(image),
         ref.home = "pool" => ref.at \in 1..Len(pool'),
         NEW b \in Binding, b.sym = next, binds' = binds \/ binds' = Append(binds, b),
         missed' \in BOOLEAN, Settled
  PROVE  IInv'
<1>1. next \in 1..Len(Syms[object])
  BY SymTyped
<1>2. Flags'
  BY Parts, Zenon DEF Flags, Settled
<1>3. Image' /\ Walk'
  BY Parts DEF Image, Walk, NamesStay, Settled, MapTo
<1>4. Fresh'
  BY Parts DEF Fresh, Settled
<1>5. Factory'
  <2>1. map' = Append(map, ref) /\ object' = object
    BY DEF MapTo, Settled
  <2>2. map \in Seq(Refs) /\ binds \in Seq(Binding) /\ pool \in Seq(Entry) /\ image \in Seq(Entry)
    BY Parts DEF Factory, Fresh, Refs, Image
  <2>3. \A i \in 1..Len(map') : /\ map'[i].home = "image" => map'[i].at \in 1..Len(image')
                                /\ map'[i].home = "pool" => map'[i].at \in 1..Len(pool')
    BY <2>1, <2>2, Parts DEF Factory, NamesStay
  <2>4. \A i \in 1..Len(binds') : binds'[i].sym \in 1..Len(Syms[object'])
    <3>1. \A i \in 1..Len(binds) : binds[i].sym \in 1..Len(Syms[object])
      BY Parts DEF Factory
    <3>2. CASE binds' = binds
      BY <2>1, <3>1, <3>2
    <3>3. CASE binds' = Append(binds, b)
      <4>1. \A i \in 1..Len(binds') : binds'[i] = IF i <= Len(binds) THEN binds[i] ELSE b
        BY <2>2, <3>3
      <4>2. \A i \in 1..Len(binds') : i <= Len(binds) => i \in 1..Len(binds)
        BY <2>2, <3>3
      <4> QED
        BY <1>1, <2>1, <3>1, <4>1, <4>2
    <3> QED
      BY <3>2, <3>3
  <2>5. map' \in Seq([home: {"none", "image", "pool", "section"}, at: Nat])
    BY <2>1, <2>2 DEF Refs
  <2> QED
    BY <2>3, <2>4, <2>5 DEF Factory
<1> QED
  BY <1>2, <1>3, <1>4, <1>5 DEF IInv, TypeOK, Flags, Image, Walk, Factory

-----------------------------------------------------------------------------
\* The symbols of an object that uld_collect() answers for.
IsBody(s) == s.type = "body" /\ s.sec \notin NoSection
IsUndefined(s) == s.type = "notype" /\ s.sec = "undef" /\ s.name # NoName

\* The binding of a body that is loaded.
Own == [sym |-> next, sec |-> sym.sec, base |-> sym.lo, last |-> sym.hi]

\* What is not mapped, or to a section, was not to be had, or nothing is wanted of it.
Passed(ref) == /\ ref \in Refs /\ ref.home \in {"none", "section"}
               /\ NamesStay /\ RasStay
               /\ pool' = pool \/ \E s \in Entry : pool' = Append(pool, s)
               /\ missed' = TRUE \/ (~IsBody(sym) /\ ~IsUndefined(sym) /\ missed' = missed)
               /\ binds' = binds
Found(ref) == /\ ref = ImageRef /\ Lookup(sym.name) # 0
              /\ NamesStay /\ RasStay /\ ~IsBody(sym)
              /\ pool' = pool /\ missed' = missed /\ binds' = binds
Defined(ref) == /\ ref = ImageRef
                /\ NamesStay /\ Defines
                /\ pool' = pool /\ missed' = missed
                /\ binds' = Append(binds, Own)
Made(ref) ==
  /\ ref = NewRef
  /\ NamesStay /\ RasStay
  /\ \E s \in Entry :
       /\ pool' = Append(pool, s)
       /\ s.name = sym.name /\ s.bind = sym.bind
       /\ s.export => Lookup(sym.name) = 0 /\ (IsBody(sym) \/ IsUndefined(sym))
       /\ IsBody(sym) => s.ra = Here /\ (s.bind = "global" => s.export)
       /\ IsUndefined(sym) => s.export
  /\ missed' = missed
  /\ binds' = binds \/ (IsBody(sym) /\ binds' = Append(binds, Own))
Mapped == /\ phase = "import" /\ next <= Len(Syms[object]) /\ Settled
          /\ \E ref \in Refs : MapTo(ref) /\ (Passed(ref) \/ Found(ref) \/ Defined(ref) \/ Made(ref))

Failed == phase \in {"import", "resolve"} /\ Fail /\ NamesStay /\ RasStay
Turned(from, to) == /\ phase = from /\ phase' = to /\ next' = 1
                    /\ missed' \in BOOLEAN
                    /\ UNCHANGED <<image, loads, object, pool, map, binds, result, scanned, before, words>>
Imported == Turned("import", "resolve") /\ next > Len(Syms[object]) /\ missed = FALSE

\* What is in the image stays if the image is left alone.
LEMMA Unchanged ==
  ASSUME IInv, UNCHANGED image
  PROVE  NamesStay /\ RasStay
BY Parts DEF Image, NamesStay, RasStay

\* What stands for no entry is a reference too.
LEMMA NoRefTyped == NoRef \in Refs /\ NoRef.home = "none"
BY DEF NoRef, Ref, Refs

\* The variables' types, for the steps below.
LEMMA Typed ==
  ASSUME IInv
  PROVE  /\ missed \in BOOLEAN /\ image \in Seq(Entry)
         /\ pool \in Seq(Entry) /\ Len(pool) \in Nat
BY Parts DEF Flags, Image, Factory

\* What uld_load_symbol() does with an undefined symbol, ...
LEMMA UndefinedShape ==
  ASSUME IInv, ImportUndefined
  PROVE  Mapped
<1>1. Importing("notype") /\ sym.sec = "undef" /\ next <= Len(Syms[object]) /\ ~IsBody(sym)
  BY DEF ImportUndefined, Importing, IsBody
<1>2. Settled /\ NamesStay /\ RasStay /\ missed' = missed /\ binds' = binds
  BY Unchanged DEF ImportUndefined, Settled, history
<1>3. CASE sym.name = NoName /\ MapTo(NoRef) /\ UNCHANGED pool
  <2>1. Passed(NoRef)
    BY <1>1, <1>2, <1>3, NoRefTyped DEF Passed, IsUndefined
  <2> QED
    BY <1>1, <1>2, <1>3, <2>1, NoRefTyped DEF Mapped, Importing
<1>4. CASE Lookup(sym.name) # 0 /\ MapTo(ImageRef) /\ UNCHANGED pool
  <2>1. ImageRef \in Refs
    BY Typed, LookupFirst DEF ImageRef, Ref, Refs
  <2>2. Found(ImageRef)
    BY <1>1, <1>2, <1>4 DEF Found
  <2> QED
    BY <1>1, <1>2, <1>4, <2>1, <2>2 DEF Mapped, Importing
<1>5. CASE /\ sym.name # NoName /\ Lookup(sym.name) = 0 /\ MapTo(NewRef)
           /\ pool' = Append(pool, NewSymbol(sym.name, sym.bind, TRUE, Null))
  <2> DEFINE new == NewSymbol(sym.name, sym.bind, TRUE, Null)
  <2>1. NewRef \in Refs
    BY Typed DEF NewRef, Ref, Refs
  <2>2. new \in Entry /\ new.name = sym.name /\ new.bind = sym.bind /\ new.export
    BY <1>1, SymTyped, NewTyped, PlaceTyped DEF Symbol, NewSymbol
  <2>3. IsUndefined(sym) /\ pool' = Append(pool, new)
    BY <1>1, <1>5 DEF IsUndefined, Importing
  <2> HIDE DEF new
  <2>4. Made(NewRef)
    BY <1>1, <1>2, <1>5, <2>2, <2>3 DEF Made
  <2> QED
    BY <1>1, <1>2, <1>5, <2>1, <2>4 DEF Mapped, Importing
<1> QED
  BY <1>3, <1>4, <1>5 DEF ImportUndefined

\* ... with a chunk of local data, ...
LEMMA ChunkShape ==
  ASSUME IInv, ImportChunk
  PROVE  Mapped
<1>1. Importing("notype") /\ ~IsUndefined(sym) /\ next <= Len(Syms[object]) /\ ~IsBody(sym)
  BY DEF ImportChunk, Importing, IsBody, IsUndefined
<1>2. Settled /\ NamesStay /\ RasStay /\ missed' = missed /\ binds' = binds
  BY Unchanged DEF ImportChunk, Settled, history
<1>3. CASE MapTo(NoRef) /\ UNCHANGED pool
  <2>1. Passed(NoRef)
    BY <1>1, <1>2, <1>3, NoRefTyped DEF Passed
  <2> QED
    BY <1>1, <1>2, <1>3, <2>1, NoRefTyped DEF Mapped, Importing
<1>4. CASE MapTo(NewRef) /\ pool' = Append(pool, NewSymbol(sym.name, sym.bind, FALSE, Here))
  <2> DEFINE new == NewSymbol(sym.name, sym.bind, FALSE, Here)
  <2>1. NewRef \in Refs
    BY Typed DEF NewRef, Ref, Refs
  <2>2. new \in Entry /\ new.name = sym.name /\ new.bind = sym.bind /\ ~new.export
    BY <1>1, SymTyped, NewTyped DEF Symbol, NewSymbol
  <2>3. pool' = Append(pool, new)
    BY <1>4
  <2> HIDE DEF new
  <2>4. Made(NewRef)
    BY <1>1, <1>2, <2>2, <2>3 DEF Made
  <2> QED
    BY <1>1, <1>2, <1>4, <2>1, <2>4 DEF Mapped, Importing
<1> QED
  BY <1>3, <1>4 DEF ImportChunk

\* ... with what has no contents, ...
LEMMA OtherShape ==
  ASSUME IInv, ImportSection \/ ImportOther
  PROVE  Mapped
<1>1. Importing(sym.type) /\ ~IsUndefined(sym) /\ ~IsBody(sym)
  BY DEF ImportSection, ImportOther, Importing, IsBody, IsUndefined
<1>2. Settled /\ NamesStay /\ RasStay /\ missed' = missed /\ binds' = binds /\ pool' = pool
  BY Unchanged DEF ImportSection, ImportOther, Settled, history
<1>3. PICK ref \in {NoRef, Ref("section", next)} : MapTo(ref)
  BY DEF ImportSection, ImportOther
<1>4. ref \in Refs /\ ref.home \in {"none", "section"}
  BY <1>3, NoRefTyped, Parts DEF Ref, Refs, Walk
<1>5. Passed(ref)
  BY <1>1, <1>2, <1>4 DEF Passed
<1> QED
  BY <1>1, <1>2, <1>3, <1>4, <1>5 DEF Mapped, Importing

\* ... with a body whose section the object does not have, ...
LEMMA OutsideShape ==
  ASSUME IInv, ImportOutside
  PROVE  Mapped
<1>1. Importing("body") /\ next <= Len(Syms[object]) /\ ~IsUndefined(sym) /\ ~IsBody(sym)
  BY DEF ImportOutside, Importing, IsBody, IsUndefined, NoSection
<1>2. Settled /\ missed' = missed /\ binds' = binds /\ image' = Marked
  BY DEF ImportOutside, Settled, history
<1>3. NamesStay /\ RasStay
  BY <1>1, <1>2, MarkedStays DEF NamesStay, RasStay
<1>4. pool' = pool \/ \E s \in Entry : pool' = Append(pool, s)
  <2> DEFINE export == sym.bind # "local"
             new == NewSymbol(sym.name, sym.bind, export, Null)
  <2>1. new \in Entry
    BY <1>1, SymTyped, NewTyped, PlaceTyped DEF Symbol
  <2>2. pool' = pool \/ pool' = Append(pool, new)
    BY DEF ImportOutside
  <2> HIDE DEF new
  <2> QED
    BY <2>1, <2>2
<1>5. Passed(NoRef)
  BY <1>1, <1>2, <1>3, <1>4, NoRefTyped DEF Passed
<1> QED
  BY <1>1, <1>2, <1>5, NoRefTyped DEF Mapped, Importing, ImportOutside

\* ... and with one that it loads.
LEMMA BodyShape ==
  ASSUME IInv, ImportBody
  PROVE  Mapped
<1>1. Importing("body") /\ next <= Len(Syms[object]) /\ ~IsUndefined(sym) /\ IsBody(sym) /\ ~Redefines
  BY DEF ImportBody, Importing, IsBody, IsUndefined
<1>2. Settled /\ missed' = missed /\ binds' = Append(binds, Own)
  BY DEF ImportBody, Settled, history, Own
<1>3. Here \in Locations
  BY <1>1, SymTyped
<1>4. CASE /\ Lookup(sym.name) = 0 /\ MapTo(NewRef) /\ UNCHANGED image
           /\ pool' = Append(pool, NewSymbol(sym.name, sym.bind, sym.bind # "local", Here))
  <2> DEFINE export == sym.bind # "local"
             new == NewSymbol(sym.name, sym.bind, export, Here)
  <2>1. NewRef \in Refs
    BY Typed DEF NewRef, Ref, Refs
  <2>2. /\ new \in Entry /\ new.name = sym.name /\ new.bind = sym.bind /\ new.ra = Here
        /\ new.bind = "global" => new.export
    BY <1>1, <1>3, SymTyped, NewTyped DEF Symbol, NewSymbol
  <2>3. pool' = Append(pool, new)
    BY <1>4
  <2> HIDE DEF new
  <2>4. Made(NewRef)
    BY <1>1, <1>2, <1>3, <1>4, <2>2, <2>3, Unchanged DEF Made
  <2> QED
    BY <1>1, <1>2, <1>4, <2>1, <2>4 DEF Mapped, Importing
<1>5. CASE /\ Lookup(sym.name) # 0 /\ MapTo(ImageRef) /\ UNCHANGED pool
           /\ image' = [Marked EXCEPT ![Lookup(sym.name)].ra = Here]
  <2> DEFINE at == Lookup(sym.name)
             new == [Marked[at] EXCEPT !.ra = Here]
  <2>1. at \in 1..Len(image) /\ ImageRef \in Refs
    BY <1>5, Typed, LookupFirst DEF ImageRef, Ref, Refs
  <2>2. /\ Marked \in Seq(Entry) /\ Len(Marked) = Len(image)
        /\ \A i \in 1..Len(image) : Marked[i].name = image[i].name /\ Marked[i].ra = image[i].ra
    BY <1>1, MarkedStays
  <2>3. new \in Entry /\ new.name = image[at].name /\ new.ra = Here
    <3>1. Marked[at] \in Entry /\ Marked[at].name = image[at].name
      <4> HIDE DEF at
      <4> QED
        BY <2>1, <2>2
    <3> QED
      BY <1>3, <3>1 DEF Entry, Locations
  <2>4. image' = [Marked EXCEPT ![at] = new]
    BY <1>5
  <2>5. NamesStay
    <3> HIDE DEF at, new
    <3> QED
      BY <2>1, <2>2, <2>3, <2>4 DEF NamesStay
  <2>6. \A i \in 1..Len(image) : image'[i].ra = IF i = at THEN Here ELSE image[i].ra
    <3> HIDE DEF at, new
    <3> QED
      BY <2>1, <2>2, <2>3, <2>4
  <2>7. Defines
    BY <1>1, <1>5, <2>6 DEF Defines, IsBody
  <2>8. Defined(ImageRef)
    BY <1>2, <1>3, <1>5, <2>5, <2>7 DEF Defined
  <2> QED
    BY <1>1, <1>2, <1>5, <2>1, <2>8 DEF Mapped, Importing
<1> QED
  BY <1>4, <1>5 DEF ImportBody

\* uld_load_symbol() maps, or fails and leaves the image's names and addresses.
LEMMA ImportShape ==
  ASSUME IInv, Import
  PROVE  Failed \/ Mapped \/ Imported
<1>1. CASE ImportUnread \/ ImportShort \/ ImportRedefinition
  BY <1>1, Unchanged DEF ImportUnread, ImportShort, ImportRedefinition, Importing, Failed
<1>2. CASE ImportMissing
  <2>1. MapTo(NoRef) /\ Passed(NoRef) /\ Settled
    BY <1>2, Unchanged, NoRefTyped DEF ImportMissing, Passed, Settled, history
  <2> QED
    BY <1>2, <2>1, NoRefTyped DEF ImportMissing, Mapped
<1>3. CASE ImportNowhere
  <2>1. phase = "import" /\ next <= Len(Syms[object]) /\ Fail /\ image' = Marked
    BY <1>3 DEF ImportNowhere, Importing
  <2>2. NamesStay /\ RasStay
    BY <2>1, MarkedStays DEF NamesStay, RasStay
  <2> QED
    BY <2>1, <2>2 DEF Failed
<1>4. CASE ImportDone
  <2>1. missed = FALSE /\ missed' \in BOOLEAN
    BY <1>4, Typed, Zenon DEF ImportDone, factoryVars
  <2> QED
    BY <1>4, <2>1 DEF ImportDone, Imported, Turned, factoryVars, history
<1> QED
  BY <1>1, <1>2, <1>3, <1>4, UndefinedShape, ChunkShape, OtherShape, OutsideShape, BodyShape
     DEF Import

-----------------------------------------------------------------------------
(***************************************************************************)
(* What a step of uld_resolve() and of uld_export() comes to.              *)
(***************************************************************************)
NewWord(w) == /\ w.load = loads /\ next \in 1..Len(Rels[object])
              /\ w.value = Address(SourceRef)
              /\ w.shared => Shared(SourceRef)
              /\ rel.sym # 0 => w.name = Syms[object][rel.sym].name
              /\ Bound(rel) # {} /\ w.times = Cardinality(Bound(rel))
Relocated == /\ phase = "resolve" /\ next' \in Nat \ {0} /\ missed' \in BOOLEAN
             /\ \A w \in words' : w \in words \/ NewWord(w)
             /\ \A w \in words' : w.load \in 1..loads
             /\ UNCHANGED <<image, loads, object, phase, pool, map, binds, result, scanned, before>>
Added == /\ entry.home = "pool" /\ Exported(pool[entry.at])
         /\ \E s \in Entry : /\ image' = Append(image, s)
                             /\ s.name = pool[entry.at].name /\ s.ra = pool[entry.at].ra
Left == NamesStay /\ RasStay /\ ~(entry.home = "pool" /\ Exported(pool[entry.at]))
Exports == /\ Exporting /\ next' = next + 1 /\ (Added \/ Left)
           /\ UNCHANGED <<loads, object, phase, pool, map, binds, missed, result, scanned, before, words>>
Finished == phase = "export" /\ next > Len(map) /\ End("ok")
            /\ UNCHANGED <<image, loads, object, scanned, before, words>>

\* uld_resolve() leaves the image alone.
LEMMA ResolveShape ==
  ASSUME IInv, Resolve
  PROVE  Failed \/ Relocated \/ Turned("resolve", "export")
<1>1. next \in Nat \ {0} /\ loads \in Nat /\ \A w \in words : w.load \in 1..loads
  BY Parts, BoundsAssumption DEF Walk
<1>2. missed \in BOOLEAN
  BY Typed
<1>3. CASE ApplyUnsourced \/ ApplyUnreachable \/ ApplyUnsupported
  BY <1>3, Unchanged DEF ApplyUnsourced, ApplyUnreachable, ApplyUnsupported, Resolving, Failed
<1>4. CASE SkipAddendTable \/ SkipUnbound
  BY <1>1, <1>2, <1>4 DEF SkipAddendTable, SkipUnbound, Resolving, Relocated, factoryVars, history
<1>5. CASE SkipUnread
  <2>1. next' \in next + 1 .. Len(Rels[object]) + 1 /\ next <= Len(Rels[object])
    BY <1>5 DEF SkipUnread, Resolving
  <2>2. Len(Rels[object]) \in Nat
    BY Parts, ObjectsAssumption DEF Walk
  <2>3. next' \in Nat \ {0}
    BY <1>1, <2>1, <2>2
  <2> QED
    BY <1>1, <1>2, <1>5, <2>3 DEF SkipUnread, Resolving, Relocated, factoryVars, history
<1>6. CASE PassUnread
  BY <1>1, <1>6 DEF PassUnread, Resolving, Relocated, history
<1>7. CASE Apply
  <2>1. loads # 0
    BY <1>7, Parts DEF Fresh, Apply, Resolving
  <2>2. \A w \in words' : w \in words \/ NewWord(w)
    <3> DEFINE new == [load |-> loads, rel |-> next, form |-> rel.form, ref |-> SourceRef,
                       name |-> IF rel.sym = 0 THEN NoName ELSE Syms[object][rel.sym].name,
                       shared |-> Shared(SourceRef), value |-> Address(SourceRef),
                       times |-> Cardinality(Bound(rel))]
    <3>1. \A w \in words' : w \in words \/ w = new
      BY <1>7 DEF Apply
    <3>2. object \in Objects
      BY Parts DEF Walk
    <3>3. Len(Rels[object]) \in Nat
      BY <3>2, ObjectsAssumption
    <3>4. next \in 1..Len(Rels[object])
      BY <1>1, <1>7, <3>3 DEF Apply, Resolving
    <3>5. new.shared => Shared(SourceRef)
      OBVIOUS
    <3>6. new.load = loads /\ new.value = Address(SourceRef)
          /\ (rel.sym # 0 => new.name = Syms[object][rel.sym].name)
          /\ new.times = Cardinality(Bound(rel))
      OBVIOUS
    <3>7. Bound(rel) # {}
      BY <1>7 DEF Apply
    <3> HIDE DEF new
    <3> QED
      BY <3>1, <3>4, <3>5, <3>6, <3>7 DEF NewWord
  <2>3. \A w \in words' : w.load \in 1..loads
    BY <1>1, <2>1, <2>2 DEF NewWord
  <2> QED
    BY <1>1, <1>2, <1>7, <2>2, <2>3 DEF Apply, Resolving, Relocated, factoryVars
<1>8. CASE ResolveDone
  BY <1>8 DEF ResolveDone, Turned, history
<1> QED
  BY <1>3, <1>4, <1>5, <1>6, <1>7, <1>8 DEF Resolve

\* What the pool holds is copied to the image once, if it is to be exported.
LEMMA ExportShape ==
  ASSUME IInv, Export
  PROVE  Exports \/ Finished
<1>1. /\ next \in Nat \ {0} /\ image \in Seq(Entry) /\ pool \in Seq(Entry) /\ map \in Seq(Refs)
      /\ \A i \in 1..Len(map) : map[i].home = "image" => map[i].at \in 1..Len(image)
      /\ \A i \in 1..Len(map) : map[i].home = "pool" => map[i].at \in 1..Len(pool)
  BY Parts DEF Walk, Image, Factory, Refs
<1>2. CASE ExportPool
  <2>1. Exporting /\ entry = map[next] /\ next \in 1..Len(map) /\ entry.home = "pool"
    BY <1>1, <1>2 DEF ExportPool, Exporting, entry
  <2>2. pool[entry.at] \in Entry
    BY <1>1, <2>1
  <2>3. CASE Exported(pool[entry.at])
    <3> DEFINE new == [pool[entry.at] EXCEPT !.export = FALSE]
    <3>1. new \in Entry /\ new.name = pool[entry.at].name /\ new.ra = pool[entry.at].ra
      BY <2>2 DEF Entry
    <3>2. image' = Append(image, new)
      BY <1>2, <2>3 DEF ExportPool
    <3> HIDE DEF new
    <3>3. Added
      BY <2>1, <2>3, <3>1, <3>2 DEF Added
    <3> QED
      BY <1>2, <2>1, <3>3 DEF ExportPool, Exports, factoryVars, history
  <2>4. CASE ~Exported(pool[entry.at])
    <3>1. Left
      BY <1>2, <2>4, Unchanged DEF ExportPool, Left
    <3> QED
      BY <1>2, <3>1 DEF ExportPool, Exports, factoryVars, history
  <2> QED
    BY <2>3, <2>4
<1>3. CASE ExportImage
  <2> DEFINE at == entry.at
             new == [image[at] EXCEPT !.define = FALSE]
  <2>1. at \in 1..Len(image) /\ entry.home = "image"
    BY <1>1, <1>3 DEF ExportImage, Exporting, entry
  <2>2. image[at] \in Entry
    BY <1>1, <2>1
  <2>3. new \in Entry /\ new.name = image[at].name /\ new.ra = image[at].ra
    BY <2>2 DEF Entry
  <2>4. image' = image \/ image' = [image EXCEPT ![at] = new]
    BY <1>3 DEF ExportImage
  <2> HIDE DEF at, new
  <2>5. NamesStay /\ RasStay
    BY <1>1, <2>1, <2>3, <2>4 DEF NamesStay, RasStay
  <2> QED
    BY <1>3, <2>1, <2>5 DEF ExportImage, Exports, Left, factoryVars, history
<1>4. CASE ExportNothing
  <2>1. Left
    BY <1>4, Unchanged DEF ExportNothing, Left
  <2> QED
    BY <1>4, <2>1 DEF ExportNothing, Exports, factoryVars, history
<1>5. CASE ExportDone
  BY <1>5 DEF ExportDone, Finished, history
<1> QED
  BY <1>2, <1>3, <1>4, <1>5 DEF Export

-----------------------------------------------------------------------------
\* Each of these steps keeps the types.
LEMMA FailedInv == ASSUME IInv, Failed PROVE IInv'
BY FailInv DEF Failed, NamesStay

\* A symbol that is mapped keeps the invariant.
LEMMA MappedInv ==
  ASSUME IInv, Mapped
  PROVE  IInv'
<1>1. PICK ref \in Refs : MapTo(ref) /\ (Passed(ref) \/ Found(ref) \/ Defined(ref) \/ Made(ref))
  BY DEF Mapped
<1>2. /\ phase = "import" /\ next <= Len(Syms[object]) /\ Settled
      /\ missed \in BOOLEAN /\ pool \in Seq(Entry) /\ Len(pool) \in Nat
      /\ Lookup(sym.name) \in 0..Len(image)
  BY Typed, LookupFirst DEF Mapped
<1>3. NamesStay /\ missed' \in BOOLEAN
  BY <1>1, <1>2 DEF Passed, Found, Defined, Made
<1>4. pool' \in Seq(Entry) /\ Len(pool') >= Len(pool)
  <2>1. pool' = pool \/ \E s \in Entry : pool' = Append(pool, s)
    BY <1>1 DEF Passed, Found, Defined, Made
  <2> QED
    BY <1>2, <2>1
<1>5. ref.home = "image" => ref.at \in 1..Len(image)
  <2>1. CASE ref = ImageRef /\ Lookup(sym.name) # 0
    <3>1. ref.at = Lookup(sym.name) /\ Len(image) \in Nat
      BY <2>1, Typed DEF ImageRef, Ref
    <3> QED
      BY <1>2, <2>1, <3>1
  <2> QED
    BY <1>1, <2>1 DEF Passed, Found, Defined, Made, NewRef, Ref, Defines
<1>6. ref.home = "pool" => ref.at \in 1..Len(pool')
  <2>1. CASE Made(ref)
    <3>1. ref.at = Len(pool) + 1 /\ \E s \in Entry : pool' = Append(pool, s)
      BY <2>1 DEF Made, NewRef, Ref
    <3> QED
      BY <1>2, <3>1
  <2> QED
    BY <1>1, <2>1 DEF Passed, Found, Defined, ImageRef, Ref
<1>7. \E b \in Binding : b.sym = next /\ (binds' = binds \/ binds' = Append(binds, b))
  <2>1. Own \in Binding /\ Own.sym = next
    BY <1>2, SymTyped DEF Symbol, Binding, Own
  <2> QED
    BY <1>1, <2>1 DEF Passed, Found, Defined, Made
<1> QED
  BY <1>1, <1>2, <1>3, <1>4, <1>5, <1>6, <1>7, MapInv

\* So does the turn from one pass to the next.
LEMMA TurnedInv ==
  ASSUME IInv, NEW from \in {"import", "resolve"}, NEW to \in {"resolve", "export"}, Turned(from, to)
  PROVE  IInv'
<1>1. Flags'
  BY Typed, Parts, Zenon DEF Flags, Turned
<1>2. Image' /\ Factory'
  BY Parts DEF Turned, Image, Factory
<1>3. Walk' /\ Fresh'
  BY Parts DEF Turned, Walk, Fresh
<1> QED
  BY <1>1, <1>2, <1>3 DEF IInv, TypeOK, Flags, Image, Walk, Factory

\* So does a word that is relocated.
LEMMA RelocatedInv == ASSUME IInv, Relocated PROVE IInv'
<1>1. Flags'
  BY Parts, Zenon DEF Flags, Relocated
<1>2. Image' /\ Factory'
  BY Parts DEF Relocated, Image, Factory
<1>3. Walk' /\ Fresh'
  BY Parts DEF Relocated, Walk, Fresh
<1> QED
  BY <1>1, <1>2, <1>3 DEF IInv, TypeOK, Flags, Image, Walk, Factory

\* So does an entry that uld_export() adds or passes over.
LEMMA ExportsInv == ASSUME IInv, Exports PROVE IInv'
<1>1. Flags'
  BY Parts, Zenon DEF Flags, Exports
<1>2. Len(image') \in Nat /\ Len(image) \in Nat /\ Len(image') >= Len(image) /\ image' \in Seq(Entry)
  <2>1. image \in Seq(Entry) /\ Len(image) \in Nat
    BY Typed
  <2>2. CASE Added
    <3>1. \E s \in Entry : image' = Append(image, s)
      BY <2>2 DEF Added
    <3> QED
      BY <2>1, <3>1
  <2> QED
    BY <2>1, <2>2 DEF Exports, Left, NamesStay
<1>3. next \in Nat /\ next' = next + 1 /\ phase = "export"
      /\ UNCHANGED <<loads, object, phase, pool, map, binds, result, scanned, before, words>>
  BY Parts DEF Exports, Exporting, Walk
<1>4. Image'
  BY <1>2, <1>3, Parts DEF Image
<1>5. Walk'
  BY <1>3, Parts DEF Walk
<1>6. Factory'
  BY <1>2, <1>3, Parts DEF Factory
<1>7. Fresh'
  BY <1>3, Parts DEF Fresh
<1> QED
  BY <1>1, <1>4, <1>5, <1>6, <1>7 DEF IInv, TypeOK, Flags, Image, Walk, Factory

\* So does the end of the export.
LEMMA FinishedInv == ASSUME IInv, Finished PROVE IInv'
<1>1. Image' /\ loads' \in 0..MaxLoads /\ object' \in Objects /\ \A w \in words' : w.load \in 1..loads'
  BY Parts DEF Image, Walk, Finished
<1>2. scanned' \in BOOLEAN
  BY Parts, Zenon DEF Flags, Finished
<1> QED
  BY <1>1, <1>2, EndInv DEF Finished

\* What a step comes to, for the invariants that follow.
Steps == \/ \E name \in HostNames : HostDefine(name)
         \/ \E o \in Objects : Load(o) \/ Refuse(o)
         \/ Failed \/ Mapped \/ Imported \/ Relocated \/ Turned("resolve", "export")
         \/ Exports \/ Finished \/ UNCHANGED vars

\* Every action is one of the steps above.
LEMMA NextShape == ASSUME IInv, [Next]_vars PROVE Steps
BY ImportShape, ResolveShape, ExportShape DEF Next, Steps

\* Every step keeps the invariant.
LEMMA StepsInv == ASSUME IInv, Steps PROVE IInv'
<1>1. CASE UNCHANGED vars
  BY <1>1 DEF vars, IInv, TypeOK, Fresh
<1>2. CASE Imported \/ Turned("resolve", "export")
  BY <1>2, TurnedInv DEF Imported
<1> QED
  BY <1>1, <1>2, HostInv, BeginInv, FailedInv, MappedInv, RelocatedInv, ExportsInv, FinishedInv
     DEF Steps

\* The linker's variables have their types, whatever the objects and the reads.
THEOREM Invariance == Spec => []IInv
<1>1. IInv /\ [Next]_vars => IInv'
  BY NextShape, StepsInv
<1> QED
  BY <1>1, InitInv, PTL DEF Spec

\* The type invariant of the linker holds in every state, for all objects.
THEOREM TypeCorrect == Spec => []TypeOK
BY Invariance, PTL DEF IInv

-----------------------------------------------------------------------------
(***************************************************************************)
(* What relocations do to a word.                                          *)
(***************************************************************************)

\* No byte of an object belongs to two bodies: there are no aliases.
NoAliases ==
  \A o \in Objects : \A i, j \in 1..Len(Syms[o]) :
    IsBody(Syms[o][i]) /\ IsBody(Syms[o][j]) /\ Syms[o][i].sec = Syms[o][j].sec /\ i # j
      => Syms[o][i].hi <= Syms[o][j].lo \/ Syms[o][j].hi <= Syms[o][i].lo

(***************************************************************************)
(* A binding is a body of the object, and a body has one at most: they are *)
(* made in the order of the symbols.                                       *)
(***************************************************************************)
BindsBody(b) == LET s == Syms[object][b.sym] IN
                IsBody(s) /\ b.sec = s.sec /\ b.base = s.lo /\ b.last = s.hi
Ordered == /\ \A i \in 1..Len(binds) : BindsBody(binds[i])
           /\ \A i \in 1..Len(binds) : phase = "import" => binds[i].sym < next
           /\ \A i, j \in 1..Len(binds) : i < j => binds[i].sym < binds[j].sym
OInv == IInv /\ Ordered /\ RelocatedOnce

\* A word belongs to one body then.
LEMMA BoundOnce ==
  ASSUME NoAliases, OInv, phase = "resolve", Bound(rel) # {},
         next \in 1..Len(Rels[object])
  PROVE  Cardinality(Bound(rel)) = 1
<1>1. object \in Objects /\ binds \in Seq(Binding) /\ Len(binds) \in Nat
  BY Parts DEF OInv, Walk, Fresh
<1>2. rel.at \in Nat
  <2>1. Rels[object] \in Seq(Reloc)
    BY <1>1, ObjectsAssumption
  <2>2. rel \in Reloc
    BY <2>1 DEF rel
  <2> QED
    BY <2>2 DEF Reloc
<1>3. Syms[object] \in Seq(Symbol)
  BY <1>1, ObjectsAssumption
<1>4. \A i \in 1..Len(binds) : binds[i] \in Binding /\ binds[i].sym \in 1..Len(Syms[object])
  BY <1>1, Parts DEF OInv, Factory
<1>5. \A i \in Bound(rel) : i \in 1..Len(binds)
  BY DEF Bound
<1>6. ASSUME NEW i \in Bound(rel), NEW j \in Bound(rel), i < j PROVE FALSE
  <2>1. binds[i].sym # binds[j].sym
    BY <1>4, <1>5, <1>6 DEF OInv, Ordered, Binding
  <2>2. BindsBody(binds[i]) /\ BindsBody(binds[j])
    BY <1>5 DEF OInv, Ordered
  <2>3. /\ binds[i].sec = binds[j].sec
        /\ binds[i].base <= rel.at /\ rel.at < binds[i].last
        /\ binds[j].base <= rel.at /\ rel.at < binds[j].last
    BY DEF Bound
  <2>4. \/ Syms[object][binds[i].sym].hi <= Syms[object][binds[j].sym].lo
        \/ Syms[object][binds[j].sym].hi <= Syms[object][binds[i].sym].lo
    BY <1>1, <1>4, <1>5, <2>1, <2>2, <2>3 DEF NoAliases, BindsBody
  <2>5. binds[i].last <= binds[j].base \/ binds[j].last <= binds[i].base
    BY <2>2, <2>4 DEF BindsBody
  <2>6. binds[i] \in Binding /\ binds[j] \in Binding
    BY <1>4, <1>5
  <2> QED
    BY <1>2, <2>3, <2>5, <2>6 DEF Binding
<1>7. PICK i : i \in Bound(rel)
  OBVIOUS
<1>8. \A j \in Bound(rel) : j = i
  BY <1>1, <1>5, <1>6, <1>7
<1>9. Bound(rel) = {i}
  BY <1>7, <1>8
<1> QED
  BY <1>9, FS_Singleton

\* A body that is loaded gets the next binding.
LEMMA OnceMapped ==
  ASSUME OInv, Mapped
  PROVE  OInv'
<1>1. IInv' /\ binds \in Seq(Binding) /\ next \in Nat /\ phase = "import"
  BY MappedInv, Parts DEF OInv, Walk, Fresh, Mapped
<1>2. next \in 1..Len(Syms[object]) /\ sym \in Symbol /\ sym = Syms[object][next]
  BY SymTyped DEF OInv, Mapped, sym
<1>3. next' = next + 1 /\ UNCHANGED <<object, phase, words>>
  BY DEF Mapped, MapTo, Settled
<1>4. binds' = binds \/ (IsBody(sym) /\ binds' = Append(binds, Own))
  BY DEF Mapped, Passed, Found, Defined, Made, Defines, Importing, IsBody
<1>5. \A i \in 1..Len(binds) : binds[i].sym \in Nat
  <2>1. \A i \in 1..Len(binds) : binds[i] \in Binding
    BY <1>1
  <2> QED
    BY <2>1 DEF Binding
<1>6. CASE binds' = binds
  <2>1. \A i \in 1..Len(binds) : binds[i].sym < next'
    BY <1>1, <1>3, <1>5 DEF OInv, Ordered
  <2> QED
    BY <1>1, <1>3, <1>6, <2>1 DEF OInv, Ordered, BindsBody, RelocatedOnce
<1>7. CASE IsBody(sym) /\ binds' = Append(binds, Own)
  <2>1. /\ Len(binds') = Len(binds) + 1 /\ Len(binds) \in Nat
        /\ \A i \in 1..Len(binds') : binds'[i] = IF i <= Len(binds) THEN binds[i] ELSE Own
    BY <1>1, <1>7
  <2>2. \A i \in 1..Len(binds) : binds[i].sym \in Nat /\ binds[i].sym < next
    BY <1>1, <1>5 DEF OInv, Ordered
  <2>3. BindsBody(Own) /\ Own.sym = next
    BY <1>2, <1>7 DEF BindsBody, Own
  <2>4. \A i \in 1..Len(binds') : BindsBody(binds'[i])
    BY <2>1, <2>3 DEF OInv, Ordered
  <2>5. \A i \in 1..Len(binds') : binds'[i].sym < next'
    BY <1>1, <1>3, <2>1, <2>2, <2>3
  <2>6. \A i, j \in 1..Len(binds') : i < j => binds'[i].sym < binds'[j].sym
    BY <2>1, <2>2, <2>3 DEF OInv, Ordered
  <2> QED
    BY <1>1, <1>3, <2>4, <2>5, <2>6 DEF OInv, Ordered, BindsBody, RelocatedOnce
<1> QED
  BY <1>4, <1>6, <1>7

\* Every step keeps bindings in order, and words relocated once.
LEMMA OnceStep ==
  ASSUME NoAliases, OInv, Steps
  PROVE  OInv'
<1>1. IInv'
  BY StepsInv DEF OInv
<1>2. CASE Mapped
  BY <1>2, OnceMapped
<1>3. CASE Relocated
  <2>1. \A w \in words' : w.times = 1
    BY <1>3, BoundOnce DEF OInv, RelocatedOnce, Relocated, NewWord
  <2> QED
    BY <1>1, <1>3, <2>1 DEF OInv, Ordered, BindsBody, RelocatedOnce, Relocated
<1>4. CASE binds' = <<>> /\ words' \subseteq words
  BY <1>1, <1>4 DEF OInv, Ordered, RelocatedOnce
<1>5. CASE phase' # "import" /\ UNCHANGED <<object, binds, words>>
  BY <1>1, <1>5 DEF OInv, Ordered, BindsBody, RelocatedOnce
<1>6. CASE phase = "idle"
  <2>1. binds = <<>>
    BY <1>6, Parts DEF OInv, Fresh
  <2>2. words' \subseteq words /\ binds' = <<>>
    BY <1>6, <2>1 DEF Steps, HostDefine, Load, Refuse, Begin, Failed, Mapped, Imported, Turned,
                      Relocated, Exports, Exporting, Finished, vars, history, factoryVars, End
  <2> QED
    BY <1>4, <2>2
<1>7. CASE UNCHANGED vars
  BY <1>1, <1>7 DEF vars, OInv, Ordered, BindsBody, RelocatedOnce
<1>8. CASE Failed \/ Finished
  BY <1>4, <1>8 DEF Failed, Fail, Finished, End
<1>9. CASE Imported \/ Turned("resolve", "export") \/ Exports
  BY <1>5, <1>9 DEF Imported, Turned, Exports, Exporting
<1>10. CASE (\E name \in HostNames : HostDefine(name)) \/ \E o \in Objects : Load(o) \/ Refuse(o)
  BY <1>6, <1>10 DEF HostDefine, Load, Refuse, Begin
<1> QED
  BY <1>2, <1>3, <1>7, <1>8, <1>9, <1>10 DEF Steps

\* No word is relocated twice, whatever is loaded, if no object has aliases.
THEOREM Once == NoAliases => (Spec => []RelocatedOnce)
<1> SUFFICES ASSUME NoAliases PROVE Spec => []RelocatedOnce
  OBVIOUS
<1>1. OInv /\ [Next]_vars => OInv'
  BY NextShape, OnceStep DEF OInv
<1>2. Init => OInv
  BY InitInv DEF Init, OInv, Ordered, RelocatedOnce
<1>3. OInv => RelocatedOnce
  BY DEF OInv
<1> QED
  BY <1>1, <1>2, <1>3, PTL DEF Spec

-----------------------------------------------------------------------------
(***************************************************************************)
(* What the image promises, load after load, if the objects are as a       *)
(* compiler writes them: what an object shares has a name of its own, and  *)
(* no body is weak (a weak one may be put over a strong one).              *)
(***************************************************************************)

\* No object defines a weak symbol.
NoWeakBodies ==
  \A o \in Objects : \A i \in 1..Len(Syms[o]) : IsBody(Syms[o][i]) => Syms[o][i].bind # "weak"

Exportable(s) == s.bind = "global" /\ (IsBody(s) \/ IsUndefined(s))
\* What an object shares with the others has a name, and one the object shares once.
SharedOnce ==
  \A o \in Objects : \A i, j \in 1..Len(Syms[o]) :
    Exportable(Syms[o][i]) =>
      /\ Syms[o][i].name # NoName
      /\ Exportable(Syms[o][j]) /\ Syms[o][j].name = Syms[o][i].name => j = i

-----------------------------------------------------------------------------
(***************************************************************************)
(* What find_symbol() finds as the image changes.                          *)
(***************************************************************************)

\* Entries that keep their names are found as before.
LEMMA LookupStays ==
  ASSUME NamesStay, image \in Seq(Entry), NEW name
  PROVE  Lookup(name)' = Lookup(name)
<1>1. Entries(name)' = Entries(name)
  BY DEF Entries, NamesStay
<1> QED
  BY <1>1 DEF Lookup

\* An entry behind the others is found if there was none of the name.
LEMMA LookupGrows ==
  ASSUME image \in Seq(Entry), NEW s \in Entry, image' = Append(image, s), NEW name
  PROVE  /\ Lookup(name) # 0 => Lookup(name)' = Lookup(name)
         /\ Lookup(name) = 0 /\ name # s.name => Lookup(name)' = 0
         /\ Lookup(name) = 0 /\ name = s.name /\ name # NoName => Lookup(name)' = Len(image) + 1
<1>1. image' \in Seq(Entry) /\ Len(image) \in Nat /\ Len(image') = Len(image) + 1
  OBVIOUS
<1>2. \A i \in 1..Len(image') : image'[i] = IF i <= Len(image) THEN image[i] ELSE s
  OBVIOUS
<1>3. /\ Entries(name) \subseteq 1..Len(image)
      /\ Entries(name)' = Entries(name) \union (IF s.name = name THEN {Len(image) + 1} ELSE {})
  BY <1>1, <1>2 DEF Entries
<1>4. CASE Lookup(name) # 0
  <2> DEFINE at == Lookup(name)
  <2>1. at \in Entries(name) /\ name # NoName /\ \A j \in Entries(name) : at <= j
    BY <1>4, LookupFirst
  <2>2. at \in Entries(name)' /\ at \in Nat /\ \A j \in Entries(name)' : j \in Nat /\ at <= j
    BY <1>1, <1>3, <2>1
  <2>3. Lookup(name)' = CHOOSE i \in Entries(name)' : \A j \in Entries(name)' : i <= j
    BY <2>1, <2>2 DEF Lookup
  <2> HIDE DEF at
  <2>4. \A i \in Entries(name)' : (\A j \in Entries(name)' : i <= j) => i = at
    BY <2>2
  <2>5. Lookup(name)' = at
    BY <2>2, <2>3, <2>4
  <2> QED
    BY <1>4, <2>5 DEF at
<1>5. CASE Lookup(name) = 0 /\ name # s.name
  BY <1>3, <1>5 DEF Lookup
<1>6. CASE Lookup(name) = 0 /\ name = s.name /\ name # NoName
  <2>1. Entries(name) = {}
    BY <1>6, LookupFirst
  <2>2. Entries(name)' = {Len(image) + 1}
    BY <1>3, <1>6, <2>1
  <2> QED
    BY <1>1, <1>6, <2>2 DEF Lookup
<1> QED
  BY <1>4, <1>5, <1>6

\* A definition stays as the image grows, and that of a new name is the entry's.
LEMMA DefinitionGrows ==
  ASSUME image \in Seq(Entry), NEW s \in Entry, image' = Append(image, s), NEW name
  PROVE  /\ Lookup(name) # 0 => Definition(name)' = Definition(name)
         /\ Lookup(name) = 0 /\ name = s.name /\ name # NoName => Definition(name)' = s.ra
<1>1. Len(image) \in Nat /\ image'[Len(image) + 1] = s /\ \A i \in 1..Len(image) : image'[i] = image[i]
  OBVIOUS
<1>2. Lookup(name) \in 0..Len(image)
  BY LookupFirst
<1>3. Len(image) + 1 # 0
  BY <1>1
<1> QED
  BY <1>1, <1>2, <1>3, LookupGrows DEF Definition

\* If addresses stay, definitions do; if one is defined, it is one that was not.
LEMMA DefinitionStays ==
  ASSUME NamesStay, RasStay, image \in Seq(Entry), NEW name
  PROVE  Definition(name)' = Definition(name)
BY LookupStays, LookupFirst DEF Definition, RasStay

\* A body given to an undefined entry: the entry had no address, and is alone to get one.
LEMMA DefinesNew ==
  ASSUME NoWeakBodies, IInv, Mapped, NamesStay, Defines
  PROVE  /\ Lookup(sym.name) \in 1..Len(image) /\ image[Lookup(sym.name)].ra = Null
         /\ Here # Null /\ image'[Lookup(sym.name)].ra = Here
         /\ \A i \in 1..Len(image) : i # Lookup(sym.name) => image'[i].ra = image[i].ra
<1>1. Lookup(sym.name) \in 1..Len(image)
  BY LookupFirst, Typed DEF Defines
<1>2. next \in 1..Len(Syms[object]) /\ sym = Syms[object][next] /\ object \in Objects /\ loads # 0 /\ loads \in Nat
  BY SymTyped, Parts, BoundsAssumption DEF Walk, Fresh, Mapped
<1>3. IsBody(sym)
  BY DEF IsBody, Defines, Importing
<1>4. sym.bind # "weak"
  BY <1>2, <1>3 DEF NoWeakBodies
<1>5. Definition(sym.name) = Null
  BY <1>4 DEF Defines, Redefines
<1>6. image[Lookup(sym.name)].ra = Null
  BY <1>1, <1>5 DEF Definition, Defines
<1>7. Here # Null
  BY <1>2 DEF Here, Null, Place
<1> QED
  BY <1>1, <1>6, <1>7 DEF Defines

\* The names that have an address keep it then.
LEMMA DefinesOther ==
  ASSUME NoWeakBodies, IInv, Mapped, NamesStay, Defines, NEW name, Definition(name) # Null
  PROVE  Definition(name)' = Definition(name)
<1>1. Lookup(name)' = Lookup(name) /\ Lookup(name) \in 0..Len(image)
  BY LookupStays, LookupFirst, Typed
<1>2. Lookup(name) # 0 /\ image[Lookup(name)].ra # Null
  BY DEF Definition
<1>3. Lookup(name) # Lookup(sym.name)
  BY <1>2, DefinesNew
<1>4. image'[Lookup(name)].ra = image[Lookup(name)].ra
  BY <1>1, <1>2, <1>3, DefinesNew, Typed
<1> QED
  BY <1>1, <1>2, <1>4 DEF Definition

\* An import keeps every definition there is, and every name.
LEMMA MappedKeeps ==
  ASSUME NoWeakBodies, IInv, Mapped
  PROVE  /\ NamesStay /\ (RasStay \/ Defines)
         /\ \A name : Lookup(name)' = Lookup(name)
         /\ \A name : Definition(name) # Null => Definition(name)' = Definition(name)
<1>1. NamesStay /\ (RasStay \/ Defines)
  BY DEF Mapped, Passed, Found, Defined, Made
<1>2. \A name : Lookup(name)' = Lookup(name)
  BY <1>1, LookupStays, Typed
<1>3. ASSUME NEW name, Definition(name) # Null PROVE Definition(name)' = Definition(name)
  BY <1>1, <1>3, DefinitionStays, DefinesOther, Typed
<1> QED
  BY <1>1, <1>2, <1>3

-----------------------------------------------------------------------------
(***************************************************************************)
(* A load that fails.  Until the export, the image has the entries it had  *)
(* when the load began.                                                    *)
(***************************************************************************)
AsBefore ==
  /\ Len(image) = Len(before)
  /\ \A i \in 1..Len(before) : /\ image[i].name = before[i].name
                               /\ before[i].ra # Null => image[i].ra = before[i].ra
KInv == IInv /\ (phase \in {"import", "resolve"} => AsBefore)

\* Until the export the image is what it was before the load.
LEMMA KeptStep ==
  ASSUME NoWeakBodies, KInv, Steps
  PROVE  KInv'
<1>1. IInv /\ IInv' /\ image \in Seq(Entry) /\ Len(image) \in Nat
  BY StepsInv, Typed DEF KInv
<1> SUFFICES ASSUME (phase \in {"import", "resolve"})' PROVE AsBefore'
  BY <1>1 DEF KInv
<1>2. CASE \E o \in Objects : Load(o) \/ Refuse(o)
  <2>1. before' = image /\ image' = image
    BY <1>2 DEF Load, Refuse, Begin
  <2> QED
    BY <1>1, <2>1 DEF AsBefore
<1>3. CASE Mapped
  <2>1. AsBefore /\ NamesStay /\ (RasStay \/ Defines) /\ before' = before
    BY <1>1, <1>3, MappedKeeps DEF KInv, Mapped, Settled
  <2>2. ASSUME NEW i \in 1..Len(before)
        PROVE  image'[i].name = before[i].name /\ (before[i].ra # Null => image'[i].ra = before[i].ra)
    <3>1. i \in 1..Len(image) /\ image[i].name = before[i].name
          /\ (before[i].ra # Null => image[i].ra = before[i].ra)
      BY <2>1, <2>2 DEF AsBefore
    <3>2. CASE RasStay
      BY <2>1, <3>1, <3>2 DEF NamesStay, RasStay
    <3>3. CASE Defines
      BY <1>1, <1>3, <2>1, <3>1, <3>3, DefinesNew DEF NamesStay
    <3> QED
      BY <2>1, <3>2, <3>3
  <2> QED
    BY <2>1, <2>2 DEF AsBefore, NamesStay
<1>4. CASE Imported \/ Relocated
  BY <1>1, <1>4 DEF Imported, Relocated, Turned, KInv, AsBefore
<1>5. CASE UNCHANGED vars
  BY <1>5 DEF vars, KInv, AsBefore
<1>6. CASE Failed \/ Finished \/ Exports \/ Turned("resolve", "export")
  BY <1>6 DEF Failed, Fail, End, Finished, Exports, Exporting, Turned
<1>7. CASE \E name \in HostNames : HostDefine(name)
  BY <1>7 DEF HostDefine
<1> QED
  BY <1>2, <1>3, <1>4, <1>5, <1>6, <1>7 DEF Steps

\* It is so at the start.
LEMMA InitKept == Init => KInv
BY InitInv DEF Init, KInv

\* A load that fails does so before the export.
LEMMA FailureStep ==
  ASSUME KInv, Steps, phase # "idle", phase' = "idle", result' = "failed"
  PROVE  /\ Len(image') = Len(before)
         /\ \A i \in 1..Len(before) : /\ image'[i].name = before[i].name
                                      /\ before[i].ra # Null => image'[i].ra = before[i].ra
<1>1. ~Finished
  BY DEF Finished, End
<1>2. Failed
  BY <1>1 DEF Steps, HostDefine, Load, Refuse, Begin, Mapped, Settled, Imported, Turned, Relocated,
              Exports, vars
<1> QED
  BY <1>2 DEF Failed, KInv, AsBefore, NamesStay, RasStay

\* A load that fails adds no name to the image and takes no definition away, whichever
\* symbol or relocation it fails at, if no body is weak.
THEOREM FailureKeeps == NoWeakBodies => (Spec => FailureAddsNothing)
<1> SUFFICES ASSUME NoWeakBodies PROVE Spec => FailureAddsNothing
  OBVIOUS
<1>1. KInv /\ [Next]_vars => KInv'
  BY NextShape, KeptStep DEF KInv
<1>2. KInv /\ [Next]_vars =>
        [phase # "idle" /\ phase' = "idle" /\ result' = "failed" =>
           /\ Len(image') = Len(before)
           /\ \A i \in 1..Len(before) : /\ image'[i].name = before[i].name
                                        /\ before[i].ra # Null => image'[i].ra = before[i].ra]_vars
  BY NextShape, FailureStep DEF KInv
<1> QED
  BY <1>1, <1>2, InitKept, PTL DEF Spec, FailureAddsNothing

-----------------------------------------------------------------------------
(***************************************************************************)
(* Unique names.  A symbol of the pool that is to be exported has a name   *)
(* that the image does not have, until it is exported.                     *)
(***************************************************************************)
Pending(i) == phase # "export" \/ i >= next
Waits(i) ==
  map[i].home = "pool" =>
    /\ pool[map[i].at].name = Syms[object][i].name
    /\ pool[map[i].at].bind = Syms[object][i].bind
    /\ Exported(pool[map[i].at]) => Exportable(Syms[object][i])
    /\ Exported(pool[map[i].at]) /\ Pending(i) => Lookup(Syms[object][i].name) = 0
MapLength == /\ phase = "idle" => next = 1
             /\ phase = "import" => Len(map) = next - 1
             /\ phase \in {"resolve", "export"} => Len(map) = Len(Syms[object])
             /\ Len(map) <= Len(Syms[object])
UInv == IInv /\ UniqueNames /\ MapLength /\ (\A i \in 1..Len(map) : Waits(i))

\* The host's first entry is unique.
LEMMA InitUnique == Init => UInv
<1> SUFFICES ASSUME Init PROVE UInv
  OBVIOUS
<1>1. IInv /\ Len(image) = 1 /\ Len(map) = 0 /\ phase = "idle" /\ next = 1
  BY InitInv DEF Init
<1>2. Len(Syms[object]) \in Nat
  BY <1>1, ObjectsAssumption, Parts DEF Walk
<1> QED
  BY <1>1, <1>2 DEF UInv, UniqueNames, MapLength

\* What is unique stays so if the names stay, or if a name is added that was not there.
LEMMA UniqueStays ==
  ASSUME UniqueNames, NamesStay
  PROVE  UniqueNames'
BY DEF UniqueNames, NamesStay

\* A name that find_symbol() does not find may be added.
LEMMA UniqueGrows ==
  ASSUME UniqueNames, image \in Seq(Entry), NEW s \in Entry, image' = Append(image, s),
         s.name # NoName, Lookup(s.name) = 0
  PROVE  UniqueNames'
<1>1. Entries(s.name) = {}
  BY LookupFirst
<1>2. \A i \in 1..Len(image) : image[i].name # s.name
  BY <1>1 DEF Entries
<1> QED
  BY <1>2 DEF UniqueNames

\* A symbol is mapped while the names stay.
LEMMA MappedUnique ==
  ASSUME UInv, Mapped
  PROVE  UInv'
<1>1. IInv /\ IInv'
  BY MappedInv DEF UInv
<1>2. PICK ref \in Refs : MapTo(ref) /\ (Passed(ref) \/ Found(ref) \/ Defined(ref) \/ Made(ref))
  BY DEF Mapped
<1>3. /\ phase = "import" /\ phase' = phase /\ object' = object /\ next' = next + 1
      /\ map' = Append(map, ref) /\ map \in Seq(Refs) /\ Len(map) \in Nat
      /\ next \in 1..Len(Syms[object]) /\ sym = Syms[object][next]
  BY <1>1, <1>2, SymTyped, Parts DEF Mapped, Settled, MapTo, Factory, Refs
<1>4. NamesStay /\ UniqueNames'
  BY <1>2, UniqueStays DEF UInv, Passed, Found, Defined, Made
<1>5. Len(map) = next - 1 /\ Len(Syms[object]) \in Nat
  BY <1>1, <1>3, ObjectsAssumption, Parts DEF UInv, MapLength, Walk
<1>6. MapLength'
  BY <1>3, <1>5 DEF MapLength
<1>7. \A name : Lookup(name)' = Lookup(name)
  BY <1>1, <1>4, LookupStays, Typed
<1>8. pool' = pool \/ \E s \in Entry : pool' = Append(pool, s)
  BY <1>2 DEF Passed, Found, Defined, Made
<1>9. pool \in Seq(Entry) /\ \A at \in 1..Len(pool) : pool'[at] = pool[at]
  BY <1>1, <1>8, Typed
<1>10. ASSUME NEW i \in 1..Len(map') PROVE Waits(i)'
  <2>1. CASE i \in 1..Len(map)
    <3>1. map'[i] = map[i] /\ (map[i].home = "pool" => map[i].at \in 1..Len(pool)) /\ Waits(i)
      BY <1>1, <1>3, <2>1, Parts DEF UInv, Factory
    <3> QED
      BY <1>3, <1>7, <1>9, <3>1 DEF Waits, Pending, Exported
  <2>2. CASE i = next
    <3>1. map'[i] = ref
      BY <1>3, <1>5, <2>2
    <3>2. CASE Made(ref)
      <4>1. PICK s \in Entry :
              /\ pool' = Append(pool, s)
              /\ s.name = sym.name /\ s.bind = sym.bind
              /\ s.export => Lookup(sym.name) = 0 /\ (IsBody(sym) \/ IsUndefined(sym))
        BY <3>2 DEF Made
      <4>2. ref.at = Len(pool) + 1
        BY <3>2 DEF Made, NewRef, Ref
      <4>3. pool'[ref.at] = s
        BY <1>9, <4>1, <4>2
      <4>4. Exported(s) => Exportable(sym) /\ Lookup(sym.name) = 0
        BY <4>1 DEF Exported, Exportable
      <4> QED
        BY <1>3, <1>7, <2>2, <3>1, <4>1, <4>3, <4>4 DEF Waits, Exported
    <3>3. CASE ref.home # "pool"
      BY <3>1, <3>3 DEF Waits
    <3> QED
      BY <1>2, <3>2, <3>3 DEF Passed, Found, Defined, ImageRef, Ref
  <2> QED
    BY <1>3, <1>5, <2>1, <2>2
<1> QED
  BY <1>1, <1>4, <1>6, <1>10 DEF UInv

\* An export adds a name that was not there, and that no other symbol waits for.
LEMMA ExportsUnique ==
  ASSUME SharedOnce, UInv, Exports
  PROVE  UInv'
<1>1. IInv /\ IInv' /\ image \in Seq(Entry)
  BY ExportsInv, Typed DEF UInv
<1>2. /\ phase = "export" /\ phase' = phase /\ next' = next + 1 /\ next \in 1..Len(map)
      /\ object' = object /\ map' = map /\ pool' = pool /\ object \in Objects
      /\ Len(map) = Len(Syms[object]) /\ Len(Syms[object]) \in Nat /\ entry = map[next]
  BY <1>1, ObjectsAssumption, Parts DEF UInv, MapLength, Walk, Exports, Exporting, entry
<1>3. MapLength'
  BY <1>2 DEF MapLength
<1>4. \A i \in 1..Len(map) : Waits(i)
  BY DEF UInv
<1>5. CASE Left
  <2>1. NamesStay /\ UniqueNames'
    BY <1>5, UniqueStays DEF Left, UInv
  <2>2. \A name : Lookup(name)' = Lookup(name)
    BY <1>1, <2>1, LookupStays
  <2>3. \A i \in 1..Len(map) : Pending(i)' => Pending(i)
    BY <1>2 DEF Pending
  <2>4. \A i \in 1..Len(map') : Waits(i)'
    BY <1>2, <1>4, <2>2, <2>3 DEF Waits, Exported
  <2> QED
    BY <1>1, <1>3, <2>1, <2>4 DEF UInv
<1>6. CASE Added
  <2> DEFINE own == Syms[object][next]
  <2>1. PICK s \in Entry : image' = Append(image, s) /\ s.name = pool[entry.at].name
    BY <1>6 DEF Added
  <2>2. /\ map[next].home = "pool" /\ Exported(pool[map[next].at]) /\ Waits(next) /\ Pending(next)
    BY <1>2, <1>4, <1>6 DEF Added, Pending
  <2>3. s.name = own.name /\ Exportable(own) /\ Lookup(own.name) = 0
    BY <1>2, <2>1, <2>2 DEF Waits
  <2>4. own.name # NoName
    BY <1>2, <2>3 DEF SharedOnce
  <2>5. UniqueNames'
    BY <1>1, <2>1, <2>3, <2>4, UniqueGrows DEF UInv
  <2>6. \A name : name # s.name /\ Lookup(name) = 0 => Lookup(name)' = 0
    BY <1>1, <2>1, LookupGrows
  <2>7. ASSUME NEW i \in 1..Len(map) PROVE Waits(i)'
    <3>1. CASE Pending(i)' /\ map[i].home = "pool" /\ Exported(pool[map[i].at])
      <4>1. i # next /\ Pending(i) /\ i \in 1..Len(Syms[object])
        BY <1>2, <3>1 DEF Pending
      <4>2. Exportable(Syms[object][i]) /\ Lookup(Syms[object][i].name) = 0
        BY <1>4, <3>1, <4>1 DEF Waits
      <4>3. Syms[object][i].name # own.name
        BY <1>2, <2>3, <4>1, <4>2 DEF SharedOnce
      <4>4. Lookup(Syms[object][i].name)' = 0
        BY <1>2, <2>3, <2>6, <4>2, <4>3
      <4> QED
        BY <1>2, <1>4, <4>4 DEF Waits, Exported
    <3>2. CASE ~(Pending(i)' /\ map[i].home = "pool" /\ Exported(pool[map[i].at]))
      BY <1>2, <1>4, <3>2 DEF Waits, Exported
    <3> QED
      BY <3>1, <3>2
  <2> QED
    BY <1>1, <1>2, <1>3, <2>5, <2>7 DEF UInv
<1> QED
  BY <1>5, <1>6 DEF Exports

\* Every step keeps names unique, and what is pending absent from the image.
LEMMA UniqueStep ==
  ASSUME SharedOnce, UInv, Steps
  PROVE  UInv'
<1>1. IInv /\ IInv' /\ image \in Seq(Entry) /\ object \in Objects /\ object' \in Objects
  BY StepsInv, Typed DEF UInv, IInv, TypeOK
<1>2. Len(Syms[object]) \in Nat /\ Len(Syms[object']) \in Nat
  BY <1>1, ObjectsAssumption
<1>3. CASE phase' = "idle" /\ next' = 1 /\ map' = <<>> /\ NamesStay
  BY <1>1, <1>2, <1>3, UniqueStays DEF UInv, MapLength
<1>4. CASE \E o \in Objects : Load(o) \/ Refuse(o)
  <2>1. NamesStay /\ map' = <<>>
    BY <1>1, <1>4, Unchanged DEF Load, Refuse, Begin, IInv, Fresh, factoryVars, End
  <2>2. phase' \in {"idle", "import"} /\ next' = 1
    BY <1>4 DEF Load, Refuse, Begin, End, UInv, MapLength
  <2> QED
    BY <1>1, <1>2, <2>1, <2>2, UniqueStays DEF UInv, MapLength
<1>5. CASE Failed \/ Finished
  <2>1. phase' = "idle" /\ next' = 1 /\ map' = <<>> /\ NamesStay
    BY <1>1, <1>5, Unchanged DEF Failed, Fail, Finished, End
  <2> QED
    BY <1>3, <2>1
<1>6. CASE \E name \in HostNames : HostDefine(name)
  <2>1. PICK name \in HostNames : HostDefine(name)
    BY <1>6
  <2> DEFINE s == NewSymbol(name, "global", FALSE, HostPlace)
  <2>2. s \in Entry /\ s.name = name /\ s.name # NoName /\ Lookup(s.name) = 0
    BY <2>1, NewTyped, PlaceTyped, NamesAssumption DEF NewSymbol, HostDefine, Binds
  <2>3. image' = Append(image, s) /\ phase' = "idle" /\ next' = 1 /\ map' = <<>>
    BY <1>1, <2>1 DEF HostDefine, IInv, Fresh, factoryVars, UInv, MapLength
  <2> HIDE DEF s
  <2>4. UniqueNames'
    BY <1>1, <2>2, <2>3, UniqueGrows DEF UInv
  <2> QED
    BY <1>1, <1>2, <2>3, <2>4 DEF UInv, MapLength
<1>7. CASE Imported \/ Relocated \/ Turned("resolve", "export") \/ UNCHANGED vars
  <2>1. UNCHANGED <<image, object, pool, map>> /\ NamesStay
    BY <1>1, <1>7, Unchanged DEF Imported, Relocated, Turned, vars
  <2>2. MapLength'
    BY <1>1, <1>2, <1>7, <2>1, Parts DEF Imported, Relocated, Turned, vars, UInv, MapLength, Walk
  <2>3. \A i \in 1..Len(map) : Pending(i)' => Pending(i)
    BY <1>7 DEF Pending, Imported, Relocated, Turned, vars
  <2>4. \A name : Lookup(name)' = Lookup(name)
    BY <1>1, <2>1, LookupStays
  <2>5. \A i \in 1..Len(map') : Waits(i)'
    BY <2>1, <2>3, <2>4 DEF UInv, Waits, Exported
  <2> QED
    BY <1>1, <2>1, <2>2, <2>5, UniqueStays DEF UInv
<1> QED
  BY <1>4, <1>5, <1>6, <1>7, MappedUnique, ExportsUnique DEF Steps

\* The invariant of unique names holds in every state.
LEMMA UniqueInvariance == SharedOnce => (Spec => []UInv)
<1> SUFFICES ASSUME SharedOnce PROVE Spec => []UInv
  OBVIOUS
<1>1. UInv /\ [Next]_vars => UInv'
  BY NextShape, UniqueStep DEF UInv
<1> QED
  BY <1>1, InitUnique, PTL DEF Spec

\* No name has two entries in the image, whatever was loaded and failed.
THEOREM Uniqueness == SharedOnce => (Spec => []UniqueNames)
BY UniqueInvariance, PTL DEF UInv

-----------------------------------------------------------------------------
(***************************************************************************)
(* What a load takes is found in the image after it.  Until it is, it is   *)
(* pending in the pool.                                                    *)
(***************************************************************************)
Where(s) == Place(loads, s.sec, s.lo)
Pooled(i) == /\ Pending(i) /\ map[i].home = "pool" /\ Exported(pool[map[i].at])
             /\ pool[map[i].at].name = Syms[object][i].name
TakenBody(i) ==
  LET s == Syms[object][i] IN
  \/ Lookup(s.name) # 0 /\ Definition(s.name) = Where(s)
  \/ Pooled(i) /\ pool[map[i].at].ra = Where(s)
TakenName(i) == Lookup(Syms[object][i].name) # 0 \/ Pooled(i)
Taken(i) ==
  Syms[object][i].bind = "global" =>
    /\ IsBody(Syms[object][i]) => TakenBody(i)
    /\ IsUndefined(Syms[object][i]) => TakenName(i)

\* The same once the load is over.
Complete ==
  \A i \in 1..Len(Syms[object]) :
    Syms[object][i].bind = "global" =>
      /\ IsBody(Syms[object][i]) =>
           /\ Lookup(Syms[object][i].name) # 0
           /\ Definition(Syms[object][i].name) = Where(Syms[object][i])
      /\ IsUndefined(Syms[object][i]) => Lookup(Syms[object][i].name) # 0

CInv == /\ UInv
        /\ phase # "idle" /\ ~(phase = "import" /\ missed = TRUE) => \A i \in 1..Len(map) : Taken(i)
        /\ phase = "idle" /\ result = "ok" /\ scanned => Complete

\* During a load an address is not nullptr.
LEMMA AddressSet ==
  ASSUME IInv, phase # "idle", NEW s
  PROVE  Where(s) # Null
BY Parts, BoundsAssumption DEF Fresh, Walk, Where, Place, Null

\* What is taken stays taken while symbols are mapped.
LEMMA MappedTaken ==
  ASSUME NoWeakBodies, CInv, Mapped
  PROVE  CInv'
<1>1. UInv /\ IInv /\ UInv' /\ IInv'
  BY MappedUnique DEF CInv, UInv
<1>2. PICK ref \in Refs : MapTo(ref) /\ (Passed(ref) \/ Found(ref) \/ Defined(ref) \/ Made(ref))
  BY DEF Mapped
<1>3. /\ phase = "import" /\ phase' = phase /\ object' = object /\ loads' = loads
      /\ map' = Append(map, ref) /\ map \in Seq(Refs) /\ Len(map) = next - 1
      /\ next \in 1..Len(Syms[object]) /\ sym = Syms[object][next]
  BY <1>1, <1>2, SymTyped, Parts DEF Mapped, Settled, MapTo, Factory, Refs, UInv, MapLength
<1>4. /\ NamesStay /\ (RasStay \/ Defines) /\ \A name : Lookup(name)' = Lookup(name)
      /\ \A name : Definition(name) # Null => Definition(name)' = Definition(name)
  BY <1>1, MappedKeeps
<1>5. pool' = pool \/ \E s \in Entry : pool' = Append(pool, s)
  BY <1>2 DEF Passed, Found, Defined, Made
<1>6. pool \in Seq(Entry) /\ \A at \in 1..Len(pool) : pool'[at] = pool[at]
  BY <1>1, <1>5, Typed
<1> SUFFICES ASSUME missed' # TRUE, NEW i \in 1..Len(map')
             PROVE  Taken(i)'
  BY <1>1, <1>3 DEF CInv
<1>7. missed' = missed /\ missed # TRUE
  <2>1. missed' = TRUE \/ missed' = missed
    BY <1>2 DEF Passed, Found, Defined, Made
  <2> QED
    BY <2>1
<1>8. CASE i \in 1..Len(map)
  <2>1. Taken(i) /\ map'[i] = map[i] /\ (map[i].home = "pool" => map[i].at \in 1..Len(pool))
    <3>1. Taken(i)
      BY <1>3, <1>7, <1>8 DEF CInv
    <3> QED
      BY <1>1, <1>3, <1>8, <3>1, Parts DEF Factory
  <2>2. Pooled(i) => Pooled(i)' /\ pool'[map'[i].at] = pool[map[i].at]
    BY <1>3, <1>6, <2>1 DEF Pooled, Pending, Exported
  <2>3. Where(Syms[object][i])' = Where(Syms[object][i]) /\ Where(Syms[object][i]) # Null
    BY <1>1, <1>3, AddressSet DEF Where
  <2>4. TakenBody(i) => TakenBody(i)'
    BY <1>3, <1>4, <2>2, <2>3 DEF TakenBody
  <2>5. TakenName(i) => TakenName(i)'
    BY <1>3, <1>4, <2>2 DEF TakenName
  <2> QED
    BY <1>3, <2>1, <2>4, <2>5 DEF Taken
<1>9. CASE i = next
  <2>1. map'[i] = ref /\ Syms[object'][i] = sym
    BY <1>3, <1>9
  <2>2. Here = Where(sym)
    BY DEF Here, Where
  <2>3. CASE ~IsBody(sym) /\ ~IsUndefined(sym)
    BY <2>1, <2>3 DEF Taken
  <2>4. CASE Found(ref)
    <3>1. Lookup(sym.name) # 0 /\ ~IsBody(sym)
      BY <2>4 DEF Found
    <3>2. \A name : name = sym.name => Lookup(name)' # 0
      BY <1>4, <3>1
    <3> QED
      BY <1>3, <2>1, <3>1, <3>2 DEF Taken, TakenName
  <2>5. CASE Defined(ref)
    <3>1. Lookup(sym.name) # 0 /\ Defines /\ ~IsUndefined(sym)
      BY <2>5 DEF Defined, Defines, Importing, IsUndefined
    <3>2. image'[Lookup(sym.name)].ra = Here
      BY <1>1, <1>4, <3>1, DefinesNew
    <3>3. \A name : name = sym.name => Lookup(name)' # 0 /\ Definition(name)' = Here
      BY <1>4, <3>1, <3>2 DEF Definition
    <3> QED
      BY <1>3, <2>1, <2>2, <3>1, <3>3 DEF Taken, TakenBody, Where
  <2>6. CASE Made(ref)
    <3>1. PICK s \in Entry :
            /\ pool' = Append(pool, s)
            /\ s.name = sym.name /\ s.bind = sym.bind
            /\ IsBody(sym) => s.ra = Here /\ (s.bind = "global" => s.export)
            /\ IsUndefined(sym) => s.export
      BY <2>6 DEF Made
    <3>2. ref.at = Len(pool) + 1 /\ ref.home = "pool"
      BY <2>6 DEF Made, NewRef, Ref
    <3>3. pool'[ref.at] = s
      BY <1>6, <3>1, <3>2
    <3>4. sym.bind = "global" /\ (IsBody(sym) \/ IsUndefined(sym)) => Pooled(i)'
      BY <1>3, <2>1, <3>1, <3>2, <3>3 DEF Pooled, Pending, Exported
    <3> QED
      BY <1>3, <2>1, <2>2, <3>1, <3>3, <3>4 DEF Taken, TakenBody, TakenName, Where
  <2>7. CASE Passed(ref)
    BY <1>7, <2>3, <2>7 DEF Passed
  <2> QED
    BY <1>2, <2>4, <2>5, <2>6, <2>7
<1> QED
  BY <1>3, <1>8, <1>9

\* A symbol that was pending is in the image once its entry of the map is exported.
LEMMA ExportsTaken ==
  ASSUME SharedOnce, CInv, Exports
  PROVE  CInv'
<1>1. UInv /\ IInv /\ UInv' /\ image \in Seq(Entry)
  BY ExportsUnique, Typed DEF CInv, UInv
<1>2. /\ phase = "export" /\ phase' = phase /\ next' = next + 1 /\ next \in 1..Len(map)
      /\ object' = object /\ map' = map /\ pool' = pool /\ loads' = loads /\ object \in Objects
      /\ Len(map) = Len(Syms[object]) /\ Len(Syms[object]) \in Nat /\ entry = map[next]
  BY <1>1, ObjectsAssumption, Parts DEF UInv, MapLength, Walk, Exports, Exporting, entry
<1>3. \A name : Lookup(name) # 0 => Lookup(name)' # 0 /\ Definition(name)' = Definition(name)
  <2>1. CASE Left
    BY <1>1, <2>1, LookupStays, DefinitionStays DEF Left
  <2>2. CASE Added
    <3>1. PICK s \in Entry : image' = Append(image, s)
      BY <2>2 DEF Added
    <3> QED
      BY <1>1, <3>1, LookupGrows, DefinitionGrows
  <2> QED
    BY <2>1, <2>2 DEF Exports
<1>4. ASSUME NEW i \in 1..Len(map) PROVE Taken(i)'
  <2>1. Taken(i)
    BY <1>2 DEF CInv
  <2>2. Where(Syms[object][i])' = Where(Syms[object][i])
    BY <1>2 DEF Where
  <2>3. CASE i # next \/ ~Pooled(i)
    <3>1. Pooled(i) => Pooled(i)'
      BY <1>2, <2>3 DEF Pooled, Pending, Exported
    <3>2. TakenBody(i) => TakenBody(i)'
      BY <1>2, <1>3, <2>2, <3>1 DEF TakenBody
    <3>3. TakenName(i) => TakenName(i)'
      BY <1>2, <1>3, <3>1 DEF TakenName
    <3> QED
      BY <1>2, <2>1, <3>2, <3>3 DEF Taken
  <2>4. CASE i = next /\ Pooled(i)
    <3> DEFINE own == Syms[object][next]
    <3>1. entry.home = "pool" /\ Exported(pool[entry.at]) /\ Waits(next) /\ Pending(next)
      BY <1>1, <1>2, <2>4 DEF Pooled, UInv
    <3>2. PICK s \in Entry : image' = Append(image, s) /\ s.name = pool[entry.at].name
                             /\ s.ra = pool[entry.at].ra
      BY <3>1 DEF Exports, Left, Added
    <3>3. s.name = own.name /\ Exportable(own) /\ Lookup(own.name) = 0
      BY <1>2, <3>1, <3>2 DEF Waits
    <3>4. own.name # NoName
      BY <1>2, <3>3 DEF SharedOnce
    <3>5. Len(image) + 1 # 0
      BY <1>1
    <3>6. \A name : name = s.name => Lookup(name)' # 0 /\ Definition(name)' = s.ra
      BY <1>1, <3>2, <3>3, <3>4, <3>5, LookupGrows, DefinitionGrows
    <3>7. IsBody(own) => s.ra = Where(own)
      <4>1. IsBody(own) => TakenBody(next)
        BY <2>1, <2>4, <3>3 DEF Taken, Exportable
      <4> QED
        BY <1>2, <2>4, <3>2, <3>3, <4>1 DEF TakenBody
    <3> QED
      BY <1>2, <2>2, <2>4, <3>3, <3>6, <3>7 DEF Taken, TakenBody, TakenName
  <2> QED
    BY <2>3, <2>4
<1> QED
  BY <1>1, <1>2, <1>4 DEF CInv

\* What a load takes is never lost between its import and its export.
LEMMA CompleteStep ==
  ASSUME NoWeakBodies, SharedOnce, CInv, Steps
  PROVE  CInv'
<1>1. UInv /\ IInv /\ UInv' /\ IInv' /\ image \in Seq(Entry)
  BY UniqueStep, Typed DEF CInv, UInv
<1>2. CASE \E o \in Objects : Load(o) \/ Refuse(o)
  <2>1. \/ phase' = "import" /\ map' = <<>>
        \/ phase' = "idle" /\ ~(result' = "ok" /\ scanned')
    <3>1. phase = "idle" /\ map = <<>>
      BY <1>1, <1>2 DEF Load, Refuse, Begin, IInv, Fresh
    <3> QED
      BY <1>2, <3>1 DEF Load, Refuse, Begin, End, factoryVars
  <2>2. Len(<<>>) = 0
    OBVIOUS
  <2> QED
    BY <1>1, <2>1, <2>2 DEF CInv
<1>3. CASE Failed
  <2>1. phase' = "idle" /\ result' = "failed"
    BY <1>3 DEF Failed, Fail, End
  <2> QED
    BY <1>1, <2>1 DEF CInv
<1>4. CASE Finished
  <2>1. /\ phase = "export" /\ phase' = "idle" /\ UNCHANGED <<image, loads, object, scanned>>
        /\ next > Len(map) /\ Len(map) = Len(Syms[object])
    BY <1>1, <1>4 DEF Finished, End, UInv, MapLength
  <2>2. \A i \in 1..Len(map) : Taken(i) /\ ~Pooled(i)
    <3>1. Len(map) \in Nat /\ next \in Nat
      BY <1>1, Parts DEF Factory, Walk
    <3> QED
      BY <2>1, <3>1 DEF CInv, Pooled, Pending
  <2>3. Complete
    BY <2>1, <2>2 DEF Complete, Taken, TakenBody, TakenName
  <2>4. \A name : Lookup(name)' = Lookup(name) /\ Definition(name)' = Definition(name)
    BY <1>1, <2>1, Unchanged, LookupStays, DefinitionStays
  <2>5. Complete'
    BY <2>1, <2>3, <2>4 DEF Complete, Where
  <2> QED
    BY <1>1, <2>1, <2>5 DEF CInv
<1>5. CASE \E name \in HostNames : HostDefine(name)
  <2>1. PICK n \in HostNames : HostDefine(n)
    BY <1>5
  <2> DEFINE s == NewSymbol(n, "global", FALSE, HostPlace)
  <2>2. s \in Entry
    BY NewTyped, PlaceTyped, NamesAssumption DEF Binds
  <2>3. /\ image' = Append(image, s) /\ phase = "idle" /\ phase' = "idle"
        /\ UNCHANGED <<object, loads, result, scanned>>
    BY <2>1 DEF HostDefine, history
  <2> HIDE DEF s
  <2>4. \A name : Lookup(name) # 0 => Lookup(name)' # 0 /\ Definition(name)' = Definition(name)
    BY <1>1, <2>2, <2>3, LookupGrows, DefinitionGrows
  <2>5. Complete => Complete'
    BY <2>3, <2>4 DEF Complete, Where
  <2> QED
    BY <1>1, <2>3, <2>5 DEF CInv
<1>6. CASE Imported \/ Relocated \/ Turned("resolve", "export")
  <2>1. /\ UNCHANGED <<image, object, loads, pool, map>> /\ NamesStay /\ RasStay
        /\ phase # "idle" /\ phase' # "idle" /\ ~(phase = "import" /\ missed = TRUE)
    BY <1>1, <1>6, Unchanged DEF Imported, Relocated, Turned
  <2>2. \A i \in 1..Len(map) : Pending(i) => Pending(i)'
    <3>1. phase # "export" /\ (phase' # "export" \/ next' = 1)
      BY <1>6 DEF Imported, Relocated, Turned
    <3>2. Len(map) \in Nat
      BY <1>1, Parts DEF Factory
    <3> QED
      BY <3>1, <3>2 DEF Pending
  <2>3. \A name : Lookup(name)' = Lookup(name) /\ Definition(name)' = Definition(name)
    BY <1>1, <2>1, LookupStays, DefinitionStays
  <2>4. \A i \in 1..Len(map) : Pooled(i) => Pooled(i)'
    BY <2>1, <2>2 DEF Pooled, Exported
  <2>5. \A i \in 1..Len(map) : Taken(i) => Taken(i)'
    BY <2>1, <2>3, <2>4 DEF Taken, TakenBody, TakenName, Where
  <2> QED
    BY <1>1, <2>1, <2>5 DEF CInv
<1>7. CASE UNCHANGED vars
  <2>1. UNCHANGED <<image, object, loads, pool, map, next, phase, missed, result, scanned>>
    BY <1>7 DEF vars
  <2>2. \A name : Lookup(name)' = Lookup(name) /\ Definition(name)' = Definition(name)
    BY <1>1, <2>1, Unchanged, LookupStays, DefinitionStays
  <2>3. \A i \in 1..Len(map) : Pooled(i) => Pooled(i)'
    BY <2>1 DEF Pooled, Exported, Pending
  <2>4. \A i \in 1..Len(map) : Taken(i) => Taken(i)'
    BY <2>1, <2>2, <2>3 DEF Taken, TakenBody, TakenName, Where
  <2>5. Complete => Complete'
    BY <2>1, <2>2 DEF Complete, Where
  <2> QED
    BY <1>1, <2>1, <2>4, <2>5 DEF CInv
<1> QED
  BY <1>2, <1>3, <1>4, <1>5, <1>6, <1>7, MappedTaken, ExportsTaken DEF Steps

\* The invariant of what is taken holds in every state.
LEMMA CompleteInvariance == NoWeakBodies /\ SharedOnce => (Spec => []CInv)
<1> SUFFICES ASSUME NoWeakBodies, SharedOnce PROVE Spec => []CInv
  OBVIOUS
<1>1. CInv /\ [Next]_vars => CInv'
  BY NextShape, CompleteStep DEF CInv, UInv
<1>2. Init => CInv
  BY InitUnique DEF Init, CInv
<1> QED
  BY <1>1, <1>2, PTL DEF Spec

\* After a load that succeeds and had its sections scanned, every global the object
\* defines has the address in the image where this load put it.
THEOREM Completeness == NoWeakBodies /\ SharedOnce => (Spec => []ExportComplete)
<1>1. CInv => ExportComplete
  BY DEF CInv, Complete, ExportComplete, Bodies, IsBody, Where
<1> QED
  BY <1>1, CompleteInvariance, PTL

\* Every name the object leaves undefined is known to the image as well.
THEOREM Referencing == NoWeakBodies /\ SharedOnce => (Spec => []ReferencesKept)
<1>1. CInv => ReferencesKept
  BY DEF CInv, Complete, ReferencesKept, IsUndefined
<1> QED
  BY <1>1, CompleteInvariance, PTL

-----------------------------------------------------------------------------
(***************************************************************************)
(* The linker implements Namespace.                                        *)
(***************************************************************************)
Known == {image[i].name : i \in 1..Len(image)}
Meaning == [name \in Known |-> Definition(name)]

\* The names stay, and so does what they mean, or one gets its first address.
LEMMA MeaningStays ==
  ASSUME NamesStay, RasStay, image \in Seq(Entry)
  PROVE  UNCHANGED Meaning
<1>1. Known' = Known
  BY DEF Known, NamesStay
<1>2. \A name : Definition(name)' = Definition(name)
  BY DefinitionStays
<1> QED
  BY <1>1, <1>2 DEF Meaning

\* A body given to an undefined entry is the definition of a known name.
LEMMA MeaningDefined ==
  ASSUME NoWeakBodies, IInv, Mapped, NamesStay, Defines
  PROVE  Namespace!Define
<1> DEFINE at == Lookup(sym.name)
           own == sym.name
<1>1. image \in Seq(Entry) /\ Known' = Known
  BY Typed DEF Known, NamesStay
<1>2. at \in 1..Len(image) /\ at \in Entries(own) /\ \A name : Lookup(name)' = Lookup(name)
  BY <1>1, DefinesNew, LookupFirst, LookupStays DEF Defines
<1>3. own \in Known /\ Definition(own) = Null
  BY <1>2, DefinesNew DEF Known, Entries, Definition
<1>4. \A name : name = own => Definition(name)' = Here
  BY <1>2, DefinesNew DEF Definition
<1>5. \A name \in Known : name # own => Definition(name)' = Definition(name)
  <2>1. ASSUME NEW name \in Known, name # own PROVE Definition(name)' = Definition(name)
    <3>1. Lookup(name) \in 0..Len(image) /\ (Lookup(name) # 0 => image[Lookup(name)].name = name)
      BY <1>1, LookupFirst DEF Entries
    <3>2. image[at].name = own
      BY <1>2 DEF Entries
    <3>3. CASE Lookup(name) = 0
      BY <1>2, <3>3 DEF Definition
    <3>4. CASE Lookup(name) # 0
      <4>1. Lookup(name) # at /\ Lookup(name) \in 1..Len(image)
        BY <1>2, <2>1, <3>1, <3>2, <3>4
      <4>2. image'[Lookup(name)].ra = image[Lookup(name)].ra
        BY <4>1, DefinesNew
      <4> QED
        BY <1>2, <3>4, <4>2 DEF Definition
    <3> QED
      BY <3>3, <3>4
  <2> QED
    BY <2>1
<1>6. Here # Null
  BY DefinesNew
<1> HIDE DEF own, at
<1>7. PICK n : n = own
  OBVIOUS
<1>8. /\ n \in DOMAIN Meaning /\ Meaning[n] = Null /\ Meaning'[n] # Null
      /\ Meaning' = [Meaning EXCEPT ![n] = Meaning'[n]]
  BY <1>1, <1>3, <1>4, <1>5, <1>6, <1>7 DEF Meaning
<1> QED
  BY <1>8 DEF Namespace!Define, Meaning, Known

\* A name the image does not have becomes known.
LEMMA MeaningLearned ==
  ASSUME image \in Seq(Entry), NEW s \in Entry, image' = Append(image, s),
         s.name \in Names, Lookup(s.name) = 0
  PROVE  Namespace!Learn
<1>1. s.name # NoName /\ Entries(s.name) = {}
  BY NamesAssumption, LookupFirst
<1>2. s.name \notin Known
  BY <1>1 DEF Known, Entries
<1>3. /\ Len(image') = Len(image) + 1 /\ Len(image) \in Nat
      /\ \A i \in 1..Len(image') : image'[i] = IF i <= Len(image) THEN image[i] ELSE s
  OBVIOUS
<1>4. Known' = Known \union {s.name}
  <2>1. Known' \subseteq Known \union {s.name}
    BY <1>3 DEF Known
  <2>2. s.name \in Known'
    <3>1. Len(image') \in 1..Len(image') /\ image'[Len(image')] = s
      BY <1>3
    <3> QED
      BY <3>1 DEF Known
  <2>3. Known \subseteq Known'
    BY <1>3 DEF Known
  <2> QED
    BY <2>1, <2>2, <2>3
<1>5. \A name \in Known : Definition(name)' = Definition(name)
  <2>1. ASSUME NEW name \in Known PROVE Definition(name)' = Definition(name)
    <3>1. Entries(name) # {} /\ name # s.name
      BY <1>2, <2>1 DEF Known, Entries
    <3>2. CASE Lookup(name) # 0
      BY <3>2, DefinitionGrows
    <3>3. CASE Lookup(name) = 0
      BY <3>1, <3>3, LookupGrows DEF Definition
    <3> QED
      BY <3>2, <3>3
  <2> QED
    BY <2>1
<1>6. /\ s.name \in Names \ DOMAIN Meaning
      /\ DOMAIN Meaning' = DOMAIN Meaning \union {s.name}
      /\ \A known \in DOMAIN Meaning : Meaning'[known] = Meaning[known]
  BY <1>2, <1>4, <1>5 DEF Meaning
<1> QED
  BY <1>6 DEF Namespace!Learn, Meaning, Known

\* Every step of the linker is a step of Namespace, or none.
LEMMA MeaningStep ==
  ASSUME NoWeakBodies, SharedOnce, UInv, Steps
  PROVE  Namespace!Next \/ UNCHANGED Meaning
<1>1. IInv /\ image \in Seq(Entry)
  BY Typed DEF UInv
<1>2. CASE NamesStay /\ RasStay
  BY <1>1, <1>2, MeaningStays
<1>3. CASE Mapped
  <2>1. NamesStay /\ (RasStay \/ Defines)
    BY <1>3 DEF Mapped, Passed, Found, Defined, Made
  <2> QED
    BY <1>1, <1>2, <1>3, <2>1, MeaningDefined DEF Namespace!Next
<1>4. CASE \E name \in HostNames : HostDefine(name)
  <2>1. PICK n \in HostNames : HostDefine(n)
    BY <1>4
  <2> DEFINE s == NewSymbol(n, "global", FALSE, HostPlace)
  <2>2. s \in Entry /\ s.name = n
    BY NewTyped, PlaceTyped, NamesAssumption DEF Binds, NewSymbol
  <2>3. image' = Append(image, s) /\ Lookup(n) = 0 /\ n \in Names
    BY <2>1, NamesAssumption DEF HostDefine
  <2> HIDE DEF s
  <2> QED
    BY <1>1, <2>2, <2>3, MeaningLearned DEF Namespace!Next
<1>5. CASE Exports /\ ~Left
  <2>1. /\ phase = "export" /\ next \in 1..Len(map) /\ object \in Objects
        /\ Len(map) = Len(Syms[object]) /\ entry = map[next] /\ Syms[object] \in Seq(Symbol)
    BY <1>1, <1>5, ObjectsAssumption, Parts DEF UInv, MapLength, Walk, Exports, Exporting, entry
  <2>2. Added /\ Waits(next) /\ Pending(next)
    BY <1>5, <2>1, Parts, <1>1 DEF Exports, UInv, Pending, Walk
  <2>3. PICK s \in Entry : image' = Append(image, s) /\ s.name = pool[entry.at].name
    BY <2>2 DEF Added
  <2>4. /\ s.name = Syms[object][next].name /\ Exportable(Syms[object][next])
        /\ Lookup(s.name) = 0
    BY <2>1, <2>2, <2>3 DEF Added, Waits
  <2>5. s.name # NoName /\ s.name \in Names
    BY <2>1, <2>4 DEF SharedOnce, Entry
  <2> QED
    BY <1>1, <2>3, <2>4, <2>5, MeaningLearned DEF Namespace!Next
<1>6. CASE (\E o \in Objects : Load(o) \/ Refuse(o)) \/ Finished \/ Imported \/ Relocated
           \/ Turned("resolve", "export") \/ UNCHANGED vars
  <2>1. image' = image
    BY <1>6 DEF Load, Refuse, Begin, Finished, Imported, Relocated, Turned, vars
  <2> QED
    BY <1>1, <1>2, <2>1, Unchanged
<1> QED
  BY <1>2, <1>3, <1>4, <1>5, <1>6 DEF Steps, Failed, Left

\* So is its start.
LEMMA MeaningInit == Init => Namespace!Init
<1> SUFFICES ASSUME Init PROVE Namespace!Init
  OBVIOUS
<1>1. Len(image) = 1 /\ image[1].name = GotName
  BY DEF Init, NewSymbol
<1>2. Known \in SUBSET Names
  BY <1>1, NamesAssumption DEF Known
<1>3. DOMAIN Meaning = Known
  BY DEF Meaning
<1> QED
  BY <1>2, <1>3 DEF Namespace!Init, Meaning, Known

\* The linker implements Namespace: a known name stays known, and keeps its address for
\* good once it has one, over all loads, successful or not.
THEOREM Refinement == NoWeakBodies /\ SharedOnce => (Spec => DefinesOnce)
<1> SUFFICES ASSUME NoWeakBodies, SharedOnce PROVE Spec => DefinesOnce
  OBVIOUS
<1>1. UInv /\ [Next]_vars => Namespace!Next \/ UNCHANGED Meaning
  BY NextShape, MeaningStep DEF UInv
<1>2. UInv /\ [Next]_vars => [Namespace!Next]_Meaning
  BY <1>1
<1> QED
  BY <1>2, MeaningInit, UniqueInvariance, PTL
     DEF Spec, DefinesOnce, Namespace!Spec, Meaning, Known

-----------------------------------------------------------------------------
(***************************************************************************)
(* Relocated words.  One holds the address that the image has for the      *)
(* name, or that of a symbol of the pool that is pending.                  *)
(***************************************************************************)
MapsFirst(i) == map[i].home = "image" => map[i].at = Lookup(Syms[object][i].name)
Holds(w) == \/ w.value = Null
            \/ Lookup(w.name) # 0 /\ Definition(w.name) = w.value
            \/ /\ phase \in {"resolve", "export"} /\ w.load = loads
               /\ \E i \in 1..Len(map) : /\ Pooled(i) /\ Syms[object][i].name = w.name
                                         /\ pool[map[i].at].ra = w.value
SharedWord(w) == w.form \in {"address", "near"} /\ w.shared
WInv == /\ UInv
        /\ \A i \in 1..Len(map) : MapsFirst(i)
        /\ \A w \in words : SharedWord(w) => Holds(w)

\* What map entries refer to, as symbols are mapped.
LEMMA MapsMapped ==
  ASSUME NoWeakBodies, WInv, Mapped
  PROVE  WInv'
<1>1. UInv /\ IInv /\ UInv'
  BY MappedUnique DEF WInv, UInv
<1>2. PICK ref \in Refs : MapTo(ref) /\ (Passed(ref) \/ Found(ref) \/ Defined(ref) \/ Made(ref))
  BY DEF Mapped
<1>3. /\ phase = "import" /\ phase' = phase /\ object' = object /\ words' = words
      /\ map' = Append(map, ref) /\ map \in Seq(Refs) /\ Len(map) = next - 1
      /\ next \in 1..Len(Syms[object]) /\ sym = Syms[object][next]
  BY <1>1, <1>2, SymTyped, Parts DEF Mapped, Settled, MapTo, Factory, Refs, UInv, MapLength
<1>4. /\ \A name : Lookup(name)' = Lookup(name)
      /\ \A name : Definition(name) # Null => Definition(name)' = Definition(name)
  BY <1>1, MappedKeeps
<1>5. ASSUME NEW i \in 1..Len(map') PROVE MapsFirst(i)'
  <2>1. CASE i \in 1..Len(map)
    <3>1. MapsFirst(i) /\ map'[i] = map[i]
      BY <1>3, <2>1 DEF WInv
    <3> QED
      BY <1>3, <1>4, <3>1 DEF MapsFirst
  <2>2. CASE i = next
    <3>1. map'[i] = ref /\ (ref.home = "image" => ref.at = Lookup(sym.name))
      BY <1>2, <1>3, <2>2 DEF Passed, Found, Defined, Made, ImageRef, NewRef, Ref
    <3> QED
      BY <1>3, <1>4, <2>2, <3>1 DEF MapsFirst
  <2> QED
    BY <1>3, <2>1, <2>2
<1>6. ASSUME NEW w \in words', SharedWord(w) PROVE Holds(w)'
  <2>1. Holds(w)
    BY <1>3, <1>6 DEF WInv
  <2> QED
    BY <1>3, <1>4, <2>1 DEF Holds
<1> QED
  BY <1>1, <1>5, <1>6 DEF WInv, SharedWord

\* A word that is set takes the address of its symbol.
LEMMA MapsRelocated ==
  ASSUME WInv, Relocated
  PROVE  WInv'
<1>1. UInv /\ IInv /\ image \in Seq(Entry) /\ map \in Seq(Refs) /\ object \in Objects /\ Len(map) \in Nat
  BY Typed, Parts DEF WInv, UInv, Factory, Refs, Walk
<1>2. UniqueNames' /\ MapLength' /\ IInv'
  BY <1>1, RelocatedInv, Parts DEF Relocated, UInv, UniqueNames, MapLength, Walk
<1>3. UNCHANGED <<image, loads, object, phase, pool, map>> /\ phase = "resolve"
  BY DEF Relocated
<1>4. \A name : Lookup(name)' = Lookup(name) /\ Definition(name)' = Definition(name)
  BY <1>1, <1>3, Unchanged, LookupStays, DefinitionStays
<1>5. \A i \in 1..Len(map) : Waits(i)' /\ MapsFirst(i)'
  BY <1>3, <1>4 DEF UInv, WInv, Waits, MapsFirst, Pending, Exported
<1>6. \A i \in 1..Len(map) : Pooled(i) => Pooled(i)'
  BY <1>3 DEF Pooled, Pending, Exported
<1>7. ASSUME NEW w, Holds(w) PROVE Holds(w)'
  BY <1>3, <1>4, <1>6, <1>7 DEF Holds
<1>8. ASSUME NEW w \in words', SharedWord(w) PROVE Holds(w)
  <2>1. CASE w \in words
    BY <1>8, <2>1 DEF WInv
  <2>2. CASE NewWord(w)
    <3> DEFINE k == rel.sym
    <3>1. /\ rel = Rels[object][next] /\ next \in 1..Len(Rels[object])
          /\ Shared(SourceRef) /\ w.value = Address(SourceRef) /\ w.load = loads
          /\ rel.sym # 0 => w.name = Syms[object][rel.sym].name
      BY <1>8, <2>2 DEF NewWord, SharedWord, rel
    <3>2. k \in 0..Len(Syms[object]) /\ Len(Syms[object]) \in Nat /\ Len(map) = Len(Syms[object])
      BY <1>1, <1>3, <3>1, ObjectsAssumption DEF UInv, MapLength
    <3>3. k # 0
      BY <3>1 DEF Shared, SourceRef, NoRef, Ref
    <3>4. SourceRef = map[k] /\ k \in 1..Len(map) /\ MapsFirst(k) /\ Waits(k)
      BY <3>2, <3>3 DEF SourceRef, WInv, UInv
    <3>5. CASE map[k].home = "image"
      <4>1. map[k].at \in 1..Len(image) /\ map[k].at = Lookup(w.name)
        BY <1>1, <3>1, <3>3, <3>4, <3>5, Parts DEF Factory, MapsFirst
      <4>2. w.value = image[map[k].at].ra
        BY <3>1, <3>4, <3>5 DEF Address
      <4> QED
        BY <4>1, <4>2, <1>1 DEF Holds, Definition
    <3>6. CASE map[k].home = "pool" /\ Exported(pool[map[k].at])
      <4>1. w.value = pool[map[k].at].ra
        BY <3>1, <3>4, <3>6 DEF Address
      <4>2. Pooled(k) /\ Syms[object][k].name = w.name
        BY <1>3, <3>1, <3>3, <3>4, <3>6 DEF Pooled, Pending, Waits
      <4> QED
        BY <1>3, <3>1, <3>4, <4>1, <4>2 DEF Holds
    <3> QED
      BY <3>1, <3>4, <3>5, <3>6 DEF Shared, Exported
  <2> QED
    BY <2>1, <2>2 DEF Relocated
<1> QED
  BY <1>2, <1>3, <1>5, <1>7, <1>8 DEF WInv, UInv, SharedWord

\* An exported symbol has the address that the words hold.
LEMMA MapsExported ==
  ASSUME SharedOnce, WInv, Exports
  PROVE  WInv'
<1>1. UInv /\ IInv /\ UInv' /\ image \in Seq(Entry)
  BY ExportsUnique, Typed DEF WInv, UInv
<1>2. /\ phase = "export" /\ phase' = phase /\ next' = next + 1 /\ next \in 1..Len(map)
      /\ UNCHANGED <<object, map, pool, loads, words>> /\ object \in Objects
      /\ Len(map) = Len(Syms[object]) /\ Len(Syms[object]) \in Nat /\ entry = map[next]
  BY <1>1, ObjectsAssumption, Parts DEF UInv, MapLength, Walk, Exports, Exporting, entry
<1>3. \A name : Lookup(name) # 0 => Lookup(name)' = Lookup(name) /\ Definition(name)' = Definition(name)
  <2>1. CASE Left
    BY <1>1, <2>1, LookupStays, DefinitionStays DEF Left
  <2>2. CASE Added
    <3>1. PICK s \in Entry : image' = Append(image, s)
      BY <2>2 DEF Added
    <3> QED
      BY <1>1, <3>1, LookupGrows, DefinitionGrows
  <2> QED
    BY <2>1, <2>2 DEF Exports
<1>4. ASSUME NEW i \in 1..Len(map) PROVE MapsFirst(i)'
  <2>1. MapsFirst(i) /\ (map[i].home = "image" => map[i].at # 0)
    BY <1>1, Parts DEF WInv, Factory
  <2> QED
    BY <1>2, <1>3, <2>1 DEF MapsFirst
<1>5. ASSUME NEW w \in words, SharedWord(w) PROVE Holds(w)'
  <2>1. Holds(w)
    BY <1>5 DEF WInv
  <2>2. CASE w.value = Null \/ (Lookup(w.name) # 0 /\ Definition(w.name) = w.value)
    BY <1>3, <2>2 DEF Holds
  <2>3. CASE /\ w.load = loads
             /\ \E i \in 1..Len(map) : /\ Pooled(i) /\ Syms[object][i].name = w.name
                                       /\ pool[map[i].at].ra = w.value
    <3>1. PICK i \in 1..Len(map) : /\ Pooled(i) /\ Syms[object][i].name = w.name
                                   /\ pool[map[i].at].ra = w.value
      BY <2>3
    <3>2. CASE i # next
      <4>1. Pooled(i)'
        BY <1>2, <3>1, <3>2 DEF Pooled, Pending, Exported
      <4> QED
        BY <1>2, <2>3, <3>1, <4>1 DEF Holds
    <3>3. CASE i = next
      <4>1. entry.home = "pool" /\ Exported(pool[entry.at]) /\ Waits(next) /\ Pending(next)
        BY <1>1, <1>2, <3>1, <3>3 DEF Pooled, UInv
      <4>2. PICK s \in Entry : image' = Append(image, s) /\ s.name = pool[entry.at].name
                               /\ s.ra = pool[entry.at].ra
        BY <4>1 DEF Exports, Left, Added
      <4>3. s.name = w.name /\ s.ra = w.value /\ Lookup(s.name) = 0 /\ s.name # NoName
        BY <1>2, <3>1, <3>3, <4>1, <4>2 DEF Waits, SharedOnce
      <4>4. Len(image) + 1 # 0
        BY <1>1
      <4>5. Lookup(w.name)' # 0 /\ Definition(w.name)' = w.value
        BY <1>1, <4>2, <4>3, <4>4, LookupGrows, DefinitionGrows
      <4> QED
        BY <4>5 DEF Holds
    <3> QED
      BY <3>2, <3>3
  <2> QED
    BY <2>1, <2>2, <2>3 DEF Holds
<1> QED
  BY <1>1, <1>2, <1>4, <1>5 DEF WInv, SharedWord

\* Every step keeps what words hold.
LEMMA WordsStep ==
  ASSUME NoWeakBodies, SharedOnce, WInv, Steps
  PROVE  WInv'
<1>1. UInv /\ IInv /\ UInv' /\ IInv' /\ image \in Seq(Entry) /\ Len(map) \in Nat /\ next \in Nat
  BY UniqueStep, Typed, Parts DEF WInv, UInv, Factory, Walk
<1>2. CASE \/ \E o \in Objects : Load(o) \/ Refuse(o)
           \/ \E name \in HostNames : HostDefine(name)
           \/ Failed \/ Finished
  <2>1. map' = <<>> /\ Len(map') = 0
    <3>1. phase = "idle" => map = <<>>
      BY <1>1 DEF IInv, Fresh
    <3>2. CASE Failed \/ Finished
      BY <3>2 DEF Failed, Fail, Finished, End
    <3>3. CASE \E o \in Objects : Load(o) \/ Refuse(o)
      BY <3>1, <3>3 DEF Load, Refuse, Begin, End, factoryVars
    <3>4. CASE \E name \in HostNames : HostDefine(name)
      BY <3>1, <3>4 DEF HostDefine, factoryVars
    <3> QED
      BY <1>2, <3>2, <3>3, <3>4
  <2>2. \A name : Lookup(name) # 0 => Lookup(name)' # 0 /\ Definition(name)' = Definition(name)
    <3>1. CASE NamesStay /\ RasStay
      BY <1>1, <3>1, LookupStays, DefinitionStays
    <3>2. CASE \E name \in HostNames : HostDefine(name)
      <4>1. PICK n \in HostNames : HostDefine(n)
        BY <3>2
      <4> DEFINE s == NewSymbol(n, "global", FALSE, HostPlace)
      <4>2. s \in Entry
        BY NewTyped, PlaceTyped, NamesAssumption DEF Binds
      <4>3. image' = Append(image, s)
        BY <4>1 DEF HostDefine
      <4> HIDE DEF s
      <4> QED
        BY <1>1, <4>2, <4>3, LookupGrows, DefinitionGrows
    <3>3. CASE (\E o \in Objects : Load(o) \/ Refuse(o)) \/ Finished
      BY <1>1, <3>1, <3>3, Unchanged DEF Load, Refuse, Begin, Finished
    <3> QED
      BY <1>2, <3>1, <3>2, <3>3 DEF Failed
  <2>3. ASSUME NEW w \in words', SharedWord(w) PROVE Holds(w)'
    <3>1. w \in words
      BY <1>2, <2>3 DEF Load, Refuse, Begin, HostDefine, Failed, Fail, Finished, history
    <3>2. w.value = Null \/ (Lookup(w.name) # 0 /\ Definition(w.name) = w.value)
      <4>1. Holds(w)
        BY <2>3, <3>1 DEF WInv
      <4>2. CASE phase \notin {"resolve", "export"}
        BY <4>1, <4>2 DEF Holds
      <4>3. CASE Failed
        BY <2>3, <4>1, <4>3 DEF Failed, Fail, Holds
      <4>4. CASE Finished
        BY <1>1, <4>1, <4>4 DEF Finished, Holds, Pooled, Pending
      <4> QED
        BY <1>2, <4>2, <4>3, <4>4 DEF Load, Refuse, Begin, HostDefine
    <3> QED
      BY <2>2, <3>2 DEF Holds
  <2> QED
    BY <1>1, <2>1, <2>3 DEF WInv, SharedWord
<1>3. CASE Imported \/ Turned("resolve", "export") \/ UNCHANGED vars
  <2>1. UNCHANGED <<image, object, loads, pool, map, words>> /\ NamesStay /\ RasStay
    BY <1>1, <1>3, Unchanged DEF Imported, Turned, vars
  <2>2. \A name : Lookup(name)' = Lookup(name) /\ Definition(name)' = Definition(name)
    BY <1>1, <2>1, LookupStays, DefinitionStays
  <2>3. \A i \in 1..Len(map) : Pending(i) => Pending(i)'
    BY <1>1, <1>3 DEF Imported, Turned, vars, Pending
  <2>4. \A i \in 1..Len(map) : (Pooled(i) => Pooled(i)') /\ (MapsFirst(i) => MapsFirst(i)')
    BY <2>1, <2>2, <2>3 DEF Pooled, Exported, MapsFirst
  <2>5. phase \in {"resolve", "export"} => phase' \in {"resolve", "export"}
    BY <1>3 DEF Imported, Turned, vars
  <2>6. \A w : Holds(w) => Holds(w)'
    BY <2>1, <2>2, <2>4, <2>5 DEF Holds
  <2> QED
    BY <1>1, <2>1, <2>4, <2>6 DEF WInv, SharedWord
<1> QED
  BY <1>2, <1>3, MapsMapped, MapsRelocated, MapsExported DEF Steps

\* A word set to the address of a shared symbol holds, between loads, what the image says
\* is the address of that name, or nullptr if it had none when the word was set.
THEOREM Relocation == NoWeakBodies /\ SharedOnce => (Spec => []WordsCurrent)
<1> SUFFICES ASSUME NoWeakBodies, SharedOnce PROVE Spec => []WordsCurrent
  OBVIOUS
<1>1. WInv /\ [Next]_vars => WInv'
  BY NextShape, WordsStep DEF WInv, UInv
<1>2. Init => WInv
  BY InitUnique DEF Init, WInv
<1>3. WInv => WordsCurrent
  BY DEF WInv, SharedWord, Holds, WordsCurrent
<1> QED
  BY <1>1, <1>2, <1>3, PTL DEF Spec
=============================================================================
