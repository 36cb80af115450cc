---------------------------- MODULE MCSymbolTable ----------------------------
(* Names for SymbolTable.                                                    *)
EXTENDS SymbolTable

Letters(n) == [k \in 1..n |-> "a"]

\* Empty, one a prefix of another, one that fills its 8 characters but for the
\* end, and one that fills a page.
MCNames == {Letters(0), Letters(1), Letters(8), Letters(16)}
MCBinds == {{"global"}, {"weak"}, BindAny}
=============================================================================
