------------------------------ MODULE MCLinker ------------------------------
(* Small object files for Linker.                                            *)
EXTENDS Linker

S(name, type, bind, sec, lo, hi) ==
  [name |-> name, type |-> type, bind |-> bind, sec |-> sec, lo |-> lo, hi |-> hi]
R(sec, at, symbol, form, table) ==
  [sec |-> sec, at |-> at, sym |-> symbol, form |-> form, table |-> table]

MCNames == {"main", "f", "g", "util", "got"}

\* An application that calls f and g, and a library that defines f and calls g.
App == <<S("", "section", "local", "data", 0, 0),
         S("util", "body", "local", "text", 4, 6),
         S("f", "notype", "global", "undef", 0, 0),
         S("main", "body", "global", "text", 0, 4),
         S("got", "notype", "global", "undef", 0, 0)>>
AppRels == <<R("text", 1, 3, "near", "rel"),
             R("text", 2, 5, "address", "rel"),
             R("text", 4, 1, "address", "rel"),
             R("text", 9, 3, "address", "rel")>>
Lib == <<S("", "other", "local", "abs", 0, 0),
         S("f", "body", "global", "text", 0, 4),
         S("g", "notype", "global", "undef", 0, 0),
         S("", "notype", "local", "text", 4, 6),
         S("", "notype", "local", "text", 0, 0)>>
LibRels == <<R("text", 1, 3, "address", "rel"),
             R("text", 3, 4, "none", "rel")>>
\* A library that defines g and f, and fails after that.
Bad == <<S("g", "body", "global", "text", 0, 4),
         S("f", "body", "global", "text", 4, 8),
         S("", "section", "local", "outside", 0, 0)>>
BadRels == <<R("text", 5, 3, "address", "rel")>>
\* A body in a section the object does not have, and an absolute one.
Odd == <<S("g", "body", "global", "outside", 0, 4),
         S("main", "body", "global", "abs", 0, 4)>>

\* Relocations that are not implemented, and a table with addends.
Exotic == <<S("util", "body", "global", "text", 0, 4),
            S("f", "notype", "global", "undef", 0, 0)>>
ExoticRels == <<R("text", 0, 2, "address", "rel"),
                R("text", 1, 2, "got", "rel"),
                R("data", 0, 2, "address", "rela"),
                R("data", 1, 1, "address", "rela"),
                R("text", 2, 2, "unsupported", "rel")>>
\* A weak f.
WeakF == <<S("f", "body", "weak", "text", 0, 4)>>
\* A function that reaches a static buffer through the offset table.
Static == <<S("util", "body", "local", "data", 0, 4),
            S("main", "body", "global", "text", 0, 4)>>
StaticRels == <<R("text", 1, 1, "got", "rel")>>

MCSyms == [app |-> App, lib |-> Lib, bad |-> Bad, odd |-> Odd, foreign |-> <<>>,
           exotic |-> Exotic, weak |-> WeakF, static |-> Static]
MCRels == [app |-> AppRels, lib |-> LibRels, bad |-> BadRels, odd |-> <<>>, foreign |-> <<>>,
           exotic |-> ExoticRels, weak |-> <<>>, static |-> StaticRels]
=============================================================================
