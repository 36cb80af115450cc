----------------------------- MODULE SegmentPool -----------------------------
(***************************************************************************)
(* The byte pool behind every segment: pool<std::uint8_t> of image/pool.h  *)
(* over the pages of image/page.h.  raw_get() is the do/while loop that    *)
(* makes a page when there is no current one, reserves in the current page *)
(* and moves on when the request does not fit; a pass of the loop is one   *)
(* action.  A page also carries its range of the segment's "table", the    *)
(* offsets by which the loader names a byte of the segment.                *)
(***************************************************************************)
EXTENDS Integers, Sequences

CONSTANTS PageSize,   \* the template's page size, in bytes
          HeadSize,   \* bytes of page_base_t in front of a page's first node
          Align,      \* m_align: the pool aligns to 2^Align when in 1..8
          Bases,      \* residues (mod 2^Align) of a fresh page's first node
          Requests,   \* the sizes asked of raw_get()
          HeapPages   \* malloc succeeds until that many pages exist

AlignBytes == 2 ^ Align

ASSUME SizeAssumption == /\ PageSize \in Nat
                         /\ HeadSize \in Nat
                         /\ HeadSize < PageSize
ASSUME AlignAssumption == Align \in Nat /\ AlignBytes \in Nat \ {0}
ASSUME BasesAssumption == Bases \subseteq 0..(AlignBytes - 1)
ASSUME RequestsAssumption == Requests \subseteq Nat
ASSUME HeapAssumption == HeapPages \in Nat

VARIABLES pages,      \* the page list, head first
          current,    \* index of m_page_current, 0 for nullptr
          request,    \* the size raw_get() is serving, Idle between calls
          count,      \* l_data_count
          skew,       \* l_data_offset
          entry,      \* get_table_offset() when raw_get() was entered
          blocks      \* history: what raw_get() has returned so far

vars == <<pages, current, request, count, skew, entry, blocks>>

Idle == -1

Page == [used: Nat, gto_base: Nat, gto_next: Nat, size: Nat, addr: 0..(AlignBytes - 1)]
Block == [page: Nat \ {0}, at: Nat, size: Nat, entry: Nat]

RoundUp(n, unit) == ((n + unit - 1) \div unit) * unit

\* Capacity of the page make_page() allocates for a request.
Capacity == PageSize - HeadSize
OnePage(size) == PageSize - HeadSize  \* mutant: a page is a page
PageBytes(size) == ((size + Capacity - 1) \div Capacity) * PageSize - HeadSize

\* make_page() appends behind the tail and continues the tail's table range.
TableEndFull == IF pages = <<>> THEN 0  \* mutant: what a page could not give keeps its offsets
                ELSE pages[Len(pages)].gto_base + pages[Len(pages)].size
TableEnd == IF pages = <<>> THEN 0 ELSE pages[Len(pages)].gto_next
NewPageFirst(size, addr) ==  \* mutant: the range does not continue
  [used |-> 0, gto_base |-> 0, gto_next |-> 0, size |-> PageBytes(size), addr |-> addr]
NewPage(size, addr) ==
  [used |-> 0, gto_base |-> TableEnd, gto_next |-> TableEnd,
   size |-> PageBytes(size), addr |-> addr]

TableOffset == IF current = 0 THEN 0 ELSE pages[current].gto_next

PagesAt(ps, offset) ==
  {i \in DOMAIN ps : ps[i].gto_base <= offset /\ offset < ps[i].gto_next}

\* get_table_ptr(): the first page of the list whose range holds the offset.
NullPtr == <<0, 0>>
TableLookup(ps, offset) ==
  IF PagesAt(ps, offset) = {} THEN NullPtr
  ELSE LET i == CHOOSE i \in PagesAt(ps, offset) : \A j \in PagesAt(ps, offset) : i <= j
       IN  <<i, offset - ps[i].gto_base>>
TablePtr(offset) == TableLookup(pages, offset)

-----------------------------------------------------------------------------
Init == /\ pages = <<>>
        /\ current = 0
        /\ request = Idle
        /\ count = 0
        /\ skew = 0
        /\ entry = 0
        /\ blocks = {}

Call(size) ==
  /\ request = Idle
  /\ request' = size
  /\ count' = RoundUp(size, AlignBytes)
  /\ skew' = 0
  /\ entry' = TableOffset
  /\ UNCHANGED <<pages, current, blocks>>

\* The page list and the current page once the head of the loop has run:
\* unchanged when there is a current page, one page longer when malloc obliges.
CanMake == request > 0 /\ Len(pages) < HeapPages

PagesAtPass ==
  IF current # 0 THEN {pages}
  ELSE IF CanMake THEN {Append(pages, NewPage(request, r)) : r \in Bases}
  ELSE {}

PageAtPass == IF current # 0 THEN current ELSE Len(pages) + 1

\* How far the next free byte of the page is from the previous boundary.
Misfit(page) ==
  IF Align \in 1..8 THEN (page.addr + page.used) % AlignBytes ELSE 0

PassSkewBack(page) == IF Misfit(page) = 0 THEN skew ELSE Misfit(page)  \* mutant
PassSkew(page) == IF Misfit(page) = 0 THEN skew ELSE AlignBytes - Misfit(page)
PassCountBare(page) == count  \* mutant: the skew is not reserved
PassCount(page) == IF Misfit(page) = 0 THEN count ELSE count + PassSkew(page)

\* page::raw_get() accepts the count.
Holds(page) == PassCount(page) > 0 /\ page.used + PassCount(page) <= page.size

\* page::raw_get() reserves the count.
ReservedLast(page) ==  \* mutant: the range is that of the last reservation
  [page EXCEPT !.used = @ + PassCount(page), !.gto_next = @ + PassCount(page),
               !.gto_base = page.gto_next]
Reserved(page) ==
  [page EXCEPT !.used = @ + PassCount(page), !.gto_next = @ + PassCount(page)]

Take ==
  /\ request # Idle
  /\ \E ps \in PagesAtPass :
       LET page == ps[PageAtPass] IN
       /\ Holds(page)
       /\ pages' = [ps EXCEPT ![PageAtPass] = Reserved(page)]
       /\ skew' = PassSkew(page)
       /\ count' = PassCount(page)
       /\ blocks' = blocks \union {[page |-> PageAtPass, at |-> page.used + PassSkew(page),
                                    size |-> request, entry |-> entry]}
  /\ current' = PageAtPass
  /\ request' = Idle
  /\ UNCHANGED entry

NextPageAlways(ps) == PageAtPass + 1  \* mutant: the end of the list is not seen
NextPage(ps) == IF PageAtPass < Len(ps) THEN PageAtPass + 1 ELSE 0

\* The request does not fit: the pass ends on the next page, which is the end
\* of the list.  What this pass added to the count and the skew stays.
Skip ==
  /\ request # Idle
  /\ \E ps \in PagesAtPass :
       LET page == ps[PageAtPass] IN
       /\ ~Holds(page)
       /\ pages' = ps
       /\ skew' = PassSkew(page)
       /\ count' = PassCount(page)
       /\ current' = NextPage(ps)
  /\ UNCHANGED <<request, entry, blocks>>

\* make_page() failed: nothing moved and the loop goes round again.
Spin ==
  /\ request # Idle
  /\ current = 0
  /\ ~CanMake
  /\ UNCHANGED vars

Next == \/ \E size \in Requests : Call(size)
        \/ Take
        \/ Skip
        \/ Spin

Spec == Init /\ [][Next]_vars

\* raw_get() is a loop of a running thread: a pass that can be made is made.
FairSpec == Spec /\ WF_vars(Take \/ Skip)

-----------------------------------------------------------------------------
\* The variables have their types and a page never holds more than its capacity.
TypeOK ==
  /\ pages \in Seq(Page)
  /\ \A i \in DOMAIN pages : pages[i].used <= pages[i].size
  /\ current \in 0..Len(pages)
  /\ request \in Nat \union {Idle}
  /\ count \in Nat
  /\ skew \in Nat
  /\ entry \in Nat
  /\ blocks \subseteq Block

Overlap(b, c) == /\ b.page = c.page
                 /\ b.at < c.at + c.size
                 /\ c.at < b.at + b.size

\* No two blocks handed out by raw_get() share a byte, and no block reaches past
\* the reserved part of its page, whatever was skipped, aligned or made before.
BlocksDisjoint ==
  /\ \A b \in blocks : /\ b.page \in DOMAIN pages
                       /\ b.at + b.size <= pages[b.page].used
                       /\ pages[b.page].used <= pages[b.page].size
  /\ \A b, c \in blocks : b # c => ~Overlap(b, c)

\* The table ranges of the pages follow each other in list order, each as long as
\* what its page has reserved, and only the last page can be the current one.
PagesChained ==
  /\ \A i \in DOMAIN pages : /\ pages[i].gto_next = pages[i].gto_base + pages[i].used
                             /\ pages[i].used <= pages[i].size
  /\ \A i, j \in DOMAIN pages : i < j => pages[i].gto_next <= pages[j].gto_base
  /\ current # 0 => current = Len(pages)

\* What a call in progress will reserve covers the request behind the skew.
CountCovers == request # Idle => count >= request + skew

\* Every byte of every block keeps a table offset of its own, and
\* get_table_ptr() leads from that offset back to exactly that byte although
\* pages are abandoned with bytes unused and the table skips those.
TableFindsBlock ==
  \A b \in blocks : \A k \in 0..(b.size - 1) :
    TablePtr(pages[b.page].gto_base + b.at + k) = <<b.page, b.at + k>>

\* raw_get() returns addresses "at the set alignment", although the skew of one
\* pass of the loop survives into the next.
BlocksAligned ==
  Align \in 1..8 =>
    \A b \in blocks : (pages[b.page].addr + b.at) % AlignBytes = 0

\* The loader reads get_table_offset() before it reserves and later hands that
\* offset to get_table_ptr() to find what it reserved: right as long as malloc()
\* aligns to what the segment asks for, as on the target, and no skew is needed.
NoSkew == \A i \in DOMAIN pages : pages[i].addr = 0
EntryLocatesBlock ==
  NoSkew => \A b \in blocks : b.size > 0 => TablePtr(b.entry) = <<b.page, b.at>>

\* What a table offset names never changes, whatever is reserved later.
TableStable ==
  [][\A o \in 0..TableEnd : TablePtr(o) # NullPtr => TablePtr(o)' = TablePtr(o)]_vars

\* To its callers the pool is a ByteTable: whatever pages were made, passed and
\* abandoned, a reservation begins where the table ended, or behind the skew of a page
\* just begun there, and takes what it asked for, rounded up, and nothing else.
Table == INSTANCE ByteTable WITH
  Sizes <- Requests,
  Unit <- AlignBytes,
  Skews <- IF Align \in 1..8 THEN {IF r = 0 THEN 0 ELSE AlignBytes - r : r \in Bases} ELSE {0},
  end <- TableEnd,
  cuts <- {pages[i].gto_base : i \in {j \in DOMAIN pages : pages[j].used # 0}} \ {0},
  held <- {[at |-> pages[b.page].gto_base + b.at, size |-> b.size] : b \in blocks}
ActsAsTable == Table!Spec

\* raw_get() returns as long as malloc does not fail, unless the skews of the pages
\* it passed add up to more than a page made for the request: then page after page
\* is made until there is no more memory.
Outgrown == count > (RoundUp(request, Capacity) \div Capacity) * PageSize - HeadSize
ReturnsWithRoom ==
  (request # Idle /\ Len(pages) < HeapPages) ~> (request = Idle \/ Outgrown)

\* raw_get() returns, be it with nothing (the callers' e_memory).
Returns == (request # Idle) ~> (request = Idle)
=============================================================================
