------------------------------ MODULE ByteTable ------------------------------
(***************************************************************************)
(* What a segment's pool promises its callers: a table of bytes that only  *)
(* grows, each reservation at its end and rounded up, behind the one       *)
(* before or at the beginning of a page, whose first bytes may be skipped  *)
(* to reach a boundary.  Pages, passes and failed attempts do not show.    *)
(***************************************************************************)
EXTENDS Integers

CONSTANTS Sizes,   \* what may be reserved
          Unit,    \* to which it is rounded up
          Skews    \* the bytes that may be skipped in front of a new page's first

VARIABLES end,     \* the bytes reserved so far, get_table_offset()
          cuts,    \* the offsets, but for 0, at which a page begins
          held     \* what was reserved: its offset and size

vars == <<end, cuts, held>>

RoundUp(n) == ((n + Unit - 1) \div Unit) * Unit

Init == end = 0 /\ cuts = {} /\ held = {}

Hold(n, at) == /\ held' = held \union {[at |-> at, size |-> n]}
               /\ end' = at + RoundUp(n)

BehindLast(n) == end > 0 /\ Hold(n, end) /\ UNCHANGED cuts

OnNewPage(n, skew) == /\ Hold(n, end + skew)
                      /\ cuts' = cuts \union ({end} \ {0})

Next == \E n \in Sizes : BehindLast(n) \/ \E skew \in Skews : OnNewPage(n, skew)

Spec == Init /\ [][Next]_vars
=============================================================================
