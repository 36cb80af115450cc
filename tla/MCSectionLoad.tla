---------------------------- MODULE MCSectionLoad ----------------------------
(* Small objects for SectionLoad.                                            *)
EXTENDS SectionLoad

Sec(type, flags, size) == [type |-> type, flags |-> flags, size |-> size]
B(type, sec, value, size) == [type |-> type, sec |-> sec, value |-> value, size |-> size]

\* What a compiler makes of one file: a section of code, of data and of zeros each,
\* and one the program does not need.
MCUsual ==
  <<Sec("progbits", {"alloc", "execute"}, 12), Sec("progbits", {"alloc"}, 3),
    Sec("other", {}, 4), Sec("nobits", {"alloc", "write"}, 6)>>
\* Functions that start on the segments' boundaries, two of them Thumb; two share
\* code, and a label has no size.  In the data a symbol without a type and an object
\* are at the same odd offset.
MCUsualBodies ==
  {B("func", 1, 1, 3), B("func", 1, 4, 0), B("func", 1, 4, 3), B("func", 1, 7, 3),
   B("notype", 2, 1, 2), B("object", 2, 1, 1), B("object", 3, 0, 4), B("object", 4, 2, 4)}

\* A section per function.
MCSplit == <<Sec("progbits", {"alloc", "execute"}, 4), Sec("progbits", {"alloc", "execute"}, 4)>>
MCSplitBodies == {B("func", 1, 0, 4), B("func", 2, 0, 4)}
=============================================================================
