----------------------------- MODULE MCElfReader -----------------------------
(* A small object for ElfReader: nine bytes, of which two tables of strings. *)
EXTENDS ElfReader

Shdr(t, n, l, its, o, s) ==
  [type |-> t, name |-> n, link |-> l, items |-> its, offset |-> o, size |-> s]
Sym(n, b) == [name |-> n, body |-> b, clean |-> TRUE]

\* Bytes 1 to 3 are the symbols' names, "" and one letter; bytes 4 to 8 the sections',
\* "" and three letters, of which the last two letters are a name as well.  The sections'
\* names are in section 5, or in section 6, which is behind MaxSection.
MCEnds == {1, 3, 4, 8}
MCShdrs ==
  [i \in 0..6 |->
     CASE i = 0 -> Nothing
       [] i = 1 -> Shdr("data", 1, 0, <<>>, 0, 1)
       [] i = 2 -> Shdr("symtab", 2, 4, <<Sym(0, FALSE), Sym(1, TRUE)>>, 0, 0)
       [] i = 3 -> Shdr("rel", 1, 2, <<NoSym>>, 0, 0)
       [] i = 4 -> Shdr("strtab", 3, 0, <<>>, 1, 3)
       [] i \in {5, 6} -> Shdr("strtab", 0, 0, <<>>, 4, 5)]
MCEhdr == [machine |-> TRUE, rel |-> TRUE, at |-> TRUE, count |-> 7, strndx |-> 5, clean |-> TRUE]
MCEhdrs == {MCEhdr, [MCEhdr EXCEPT !.strndx = 6]}
MCJunkEhdrs ==
  {NoEhdr, [MCEhdr EXCEPT !.rel = FALSE, !.clean = FALSE],
   [MCEhdr EXCEPT !.count = 0, !.clean = FALSE], [MCEhdr EXCEPT !.at = FALSE, !.clean = FALSE]}
MCJunkShdrs == {Shdr("symtab", 1, 5, <<[Sym(1, TRUE) EXCEPT !.clean = FALSE]>>, 4, 5),
                Shdr("strtab", 5, 0, <<>>, 2, 2), Shdr("strtab", 0, 0, <<>>, 9, 3)}
MCJunkNames == {-1, 2}
=============================================================================
