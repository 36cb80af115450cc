-------------------------- MODULE SegmentPool_proof --------------------------
(* Proofs about SegmentPool, for every page size, alignment, allocator and   *)
(* sequence of requests.                                                     *)
EXTENDS SegmentPool, TLAPS

(***************************************************************************)
(* Arithmetic.                                                             *)
(***************************************************************************)

\* Division rounds down: what get_round_value() and make_page() rest on.
LEMMA DivBounds ==
  ASSUME NEW n \in Nat, NEW m \in Nat \ {0}
  PROVE  /\ n \div m \in Nat
         /\ (n \div m) * m <= n
         /\ n < (n \div m) * m + m
  OBVIOUS

\* A rounded size covers the size.
LEMMA RoundUpCovers ==
  ASSUME NEW n \in Nat, NEW m \in Nat \ {0}
  PROVE  RoundUp(n, m) \in Nat /\ RoundUp(n, m) >= n
  <1>1. n + m - 1 \in Nat
    OBVIOUS
  <1> DEFINE q == (n + m - 1) \div m
  <1>2. q \in Nat /\ n + m - 1 < q * m + m
    BY <1>1, DivBounds
  <1> HIDE DEF q
  <1>3. q * m \in Nat
    BY <1>2
  <1> QED
    BY <1>2, <1>3 DEF RoundUp, q

\* A page made for a positive size is not smaller than its own header.
LEMMA PageBytesNat ==
  ASSUME NEW n \in Nat \ {0}
  PROVE  PageBytes(n) \in Nat
  <1>1. Capacity \in Nat \ {0} /\ Capacity <= PageSize
    BY SizeAssumption DEF Capacity
  <1>2. n + Capacity - 1 \in Nat
    BY <1>1
  <1> DEFINE q == (n + Capacity - 1) \div Capacity
  <1>3. q \in Nat /\ n + Capacity - 1 < q * Capacity + Capacity
    BY <1>1, <1>2, DivBounds
  <1> HIDE DEF q
  <1>4. q # 0
    BY <1>1, <1>3
  <1>5. q * PageSize \in Nat /\ q * PageSize >= PageSize
    BY <1>3, <1>4, SizeAssumption
  <1> QED
    BY <1>5, SizeAssumption DEF PageBytes, q

(***************************************************************************)
(* The inductive invariant.  Blocks are disjoint because a new one starts  *)
(* where the page's reserved part ended and the reservation covers it; the *)
(* table finds a block because the pages' ranges are chained.              *)
(***************************************************************************)
IInv == TypeOK /\ PagesChained /\ CountCovers /\ BlocksDisjoint

\* What a page has by its type.
LEMMA PageFields ==
  ASSUME NEW page \in Page
  PROVE  /\ page.used \in Nat /\ page.size \in Nat /\ page.addr \in 0..(AlignBytes - 1)
         /\ page.gto_base \in Nat /\ page.gto_next \in Nat
  BY DEF Page

\* Every page of a list of pages has its fields.
LEMMA ListFields ==
  ASSUME NEW ps \in Seq(Page)
  PROVE  /\ DOMAIN ps = 1..Len(ps) /\ Len(ps) \in Nat
         /\ \A i \in DOMAIN ps :
              /\ ps[i] \in Page
              /\ ps[i].used \in Nat /\ ps[i].size \in Nat
              /\ ps[i].gto_base \in Nat /\ ps[i].gto_next \in Nat
  <1>1. DOMAIN ps = 1..Len(ps) /\ Len(ps) \in Nat
    OBVIOUS
  <1>2. \A i \in DOMAIN ps : ps[i] \in Page
    OBVIOUS
  <1> QED
    BY <1>1, <1>2, PageFields

\* What a block has by its type.
LEMMA BlockFields ==
  ASSUME NEW b \in Block
  PROVE  b.page \in Nat \ {0} /\ b.at \in Nat /\ b.size \in Nat /\ b.entry \in Nat
  BY DEF Block

\* Reserving bytes in a page moves its end and the end of its table range only.
LEMMA PageReserve ==
  ASSUME NEW page \in Page, NEW n \in Nat
  PROVE  LET new == [page EXCEPT !.used = @ + n, !.gto_next = @ + n]
         IN  /\ new \in Page /\ new.used = page.used + n /\ new.gto_next = page.gto_next + n
             /\ new.gto_base = page.gto_base /\ new.size = page.size
  <1> DEFINE mid == [page EXCEPT !.used = @ + n]
             new == [mid EXCEPT !.gto_next = @ + n]
  <1>1. /\ mid \in Page /\ mid.used = page.used + n /\ mid.gto_next = page.gto_next
        /\ mid.gto_base = page.gto_base /\ mid.size = page.size
    BY DEF Page
  <1> HIDE DEF mid
  <1>2. /\ new \in Page /\ new.used = mid.used /\ new.gto_next = mid.gto_next + n
        /\ new.gto_base = mid.gto_base /\ new.size = mid.size
    BY <1>1 DEF Page
  <1>3. [page EXCEPT !.used = @ + n, !.gto_next = @ + n] = new
    BY DEF mid, new, Page
  <1> QED
    BY <1>1, <1>2, <1>3

\* An empty pool satisfies the invariant.
LEMMA InitInv == Init => IInv
  BY DEF Init, IInv, TypeOK, PagesChained, CountCovers, BlocksDisjoint, Idle, Page, Block

\* A call of raw_get() sets the amount to reserve and touches no page.
LEMMA CallInv ==
  ASSUME IInv, NEW size \in Requests, Call(size)
  PROVE  IInv'
  <1>1. size \in Nat /\ RoundUp(size, AlignBytes) \in Nat /\ RoundUp(size, AlignBytes) >= size
    BY RequestsAssumption, AlignAssumption, RoundUpCovers
  <1>2. TableOffset \in Nat
    <2>1. pages \in Seq(Page) /\ current \in 0..Len(pages)
      BY DEF IInv, TypeOK
    <2> QED
      BY <2>1, ListFields DEF TableOffset
  <1>3. TypeOK'
    BY <1>1, <1>2 DEF IInv, TypeOK, Call
  <1>4. CountCovers'
    BY <1>1 DEF Call, CountCovers
  <1>5. PagesChained' /\ BlocksDisjoint'
    BY DEF IInv, Call, PagesChained, BlocksDisjoint, Overlap
  <1> QED
    BY <1>3, <1>4, <1>5 DEF IInv

\* The page list a pass works on is chained, and the page it works on is its last.
LEMMA PassPages ==
  ASSUME IInv, request # Idle, NEW ps \in PagesAtPass
  PROVE  /\ ps \in Seq(Page)
         /\ PageAtPass = Len(ps) /\ PageAtPass \in Nat \ {0}
         /\ Len(pages) <= Len(ps)
         /\ \A i \in DOMAIN pages : ps[i] = pages[i]
         /\ \A i \in DOMAIN ps : /\ ps[i].gto_next = ps[i].gto_base + ps[i].used
                                 /\ ps[i].used <= ps[i].size
         /\ \A i, j \in DOMAIN ps : i < j => ps[i].gto_next <= ps[j].gto_base
  <1>1. CASE current # 0
    BY <1>1 DEF PagesAtPass, PageAtPass, IInv, TypeOK, PagesChained
  <1>2. CASE current = 0
    <2>1. PICK r \in Bases : ps = Append(pages, NewPage(request, r))
      BY <1>2 DEF PagesAtPass
    <2>2. request \in Nat \ {0}
      BY <1>2 DEF PagesAtPass, CanMake, IInv, TypeOK, Idle
    <2> DEFINE page == NewPage(request, r)
    <2>4. /\ pages \in Seq(Page) /\ Len(pages) \in Nat /\ DOMAIN pages = 1..Len(pages)
          /\ \A i \in DOMAIN pages : /\ pages[i].used \in Nat
                                     /\ pages[i].gto_base \in Nat
                                     /\ pages[i].gto_next \in Nat
                                     /\ pages[i].size \in Nat
      <3>1. pages \in Seq(Page)
        BY DEF IInv, TypeOK
      <3> QED
        BY <3>1, ListFields
    <2>3. /\ page \in Page /\ page.used = 0 /\ page.gto_next = page.gto_base
          /\ page.gto_base = IF pages = <<>> THEN 0 ELSE pages[Len(pages)].gto_next
      <3>1. TableEnd \in Nat
        BY <2>4 DEF TableEnd
      <3>2. PageBytes(request) \in Nat /\ r \in 0..(AlignBytes - 1)
        BY <2>2, PageBytesNat, BasesAssumption
      <3> QED
        BY <3>1, <3>2 DEF NewPage, Page, TableEnd
    <2> HIDE DEF page
    <2>5. \A i \in DOMAIN pages : pages[i].gto_next <= page.gto_base
      <3> SUFFICES ASSUME NEW i \in DOMAIN pages PROVE pages[i].gto_next <= page.gto_base
        OBVIOUS
      <3>1. pages # <<>> /\ Len(pages) \in DOMAIN pages
        BY <2>4
      <3>2. page.gto_base = pages[Len(pages)].gto_next
        BY <2>3, <3>1
      <3>3. CASE i = Len(pages)
        BY <3>2, <3>3, <2>4
      <3>4. CASE i < Len(pages)
        <4>1. pages[i].gto_next <= pages[Len(pages)].gto_base
          BY <3>1, <3>4 DEF IInv, PagesChained
        <4>2. pages[Len(pages)].gto_base <= pages[Len(pages)].gto_next
          BY <3>1, <2>4 DEF IInv, PagesChained
        <4> QED
          BY <3>2, <4>1, <4>2, <3>1, <2>4
      <3> QED
        BY <3>3, <3>4, <2>4
    <2>6. ps \in Seq(Page) /\ Len(ps) = Len(pages) + 1
          /\ ps[Len(pages) + 1] = page /\ \A i \in DOMAIN pages : ps[i] = pages[i]
      BY <2>1, <2>3, <2>4 DEF page
    <2>7. \A i \in DOMAIN ps : i \in DOMAIN pages \/ i = Len(pages) + 1
      BY <2>6, <2>4
    <2>8. \A i \in DOMAIN ps : /\ ps[i].gto_next = ps[i].gto_base + ps[i].used
                               /\ ps[i].used <= ps[i].size
      <3>1. page.gto_next = page.gto_base + page.used /\ page.used <= page.size
        BY <2>3 DEF Page
      <3> QED
        BY <3>1, <2>6, <2>7 DEF IInv, PagesChained
    <2>9. \A i, j \in DOMAIN ps : i < j => ps[i].gto_next <= ps[j].gto_base
      <3> SUFFICES ASSUME NEW i \in DOMAIN ps, NEW j \in DOMAIN ps, i < j
                   PROVE  ps[i].gto_next <= ps[j].gto_base
        OBVIOUS
      <3>1. i \in DOMAIN pages
        BY <2>4, <2>6
      <3>2. CASE j \in DOMAIN pages
        BY <3>1, <3>2, <2>6 DEF IInv, PagesChained
      <3>3. CASE j = Len(pages) + 1
        BY <3>1, <3>3, <2>5, <2>6
      <3> QED
        BY <3>2, <3>3, <2>7
    <2> QED
      BY <1>2, <2>4, <2>6, <2>8, <2>9 DEF PageAtPass
  <1> QED
    BY <1>1, <1>2

\* What a pass adds to the count is what it skips: the count keeps covering the
\* request behind the skew.
LEMMA PassCovers ==
  ASSUME IInv, request # Idle, NEW page \in Page
  PROVE  /\ PassSkew(page) \in Nat /\ PassCount(page) \in Nat
         /\ PassCount(page) >= request + PassSkew(page)
  <1>1. request \in Nat /\ count \in Nat /\ skew \in Nat /\ count >= request + skew
    BY DEF IInv, TypeOK, CountCovers, Idle
  <1>2. CASE Misfit(page) = 0
    BY <1>1, <1>2 DEF PassSkew, PassCount
  <1>3. CASE Misfit(page) # 0
    <2>1. page.addr + page.used \in Nat
      BY PageFields
    <2>2. Misfit(page) \in 0..(AlignBytes - 1)
      BY <2>1, <1>3, AlignAssumption DEF Misfit
    <2>3. AlignBytes - Misfit(page) \in Nat
      BY <2>2, AlignAssumption
    <2> QED
      BY <1>1, <1>3, <2>3 DEF PassSkew, PassCount
  <1> QED
    BY <1>2, <1>3

\* A pass that skips a page may append one, and hands out nothing.
LEMMA SkipInv ==
  ASSUME IInv, Skip
  PROVE  IInv'
  <1>1. PICK ps \in PagesAtPass :
          /\ pages' = ps
          /\ skew' = PassSkew(ps[PageAtPass])
          /\ count' = PassCount(ps[PageAtPass])
          /\ current' = IF PageAtPass < Len(ps) THEN PageAtPass + 1 ELSE 0
    BY DEF Skip, NextPage
  <1>2. request # Idle /\ UNCHANGED <<request, entry, blocks>>
    BY DEF Skip, NextPage
  <1>3. /\ ps \in Seq(Page)
        /\ PageAtPass = Len(ps) /\ PageAtPass \in Nat \ {0}
        /\ Len(pages) <= Len(ps)
        /\ \A i \in DOMAIN pages : ps[i] = pages[i]
        /\ \A i \in DOMAIN ps : /\ ps[i].gto_next = ps[i].gto_base + ps[i].used
                                /\ ps[i].used <= ps[i].size
        /\ \A i, j \in DOMAIN ps : i < j => ps[i].gto_next <= ps[j].gto_base
    BY <1>2, PassPages
  <1>4. ps[PageAtPass] \in Page /\ DOMAIN ps = 1..Len(ps)
    BY <1>3, ListFields
  <1>5. current' = 0
    BY <1>1, <1>3
  <1>6. TypeOK'
    BY <1>1, <1>2, <1>3, <1>4, <1>5, PassCovers DEF IInv, TypeOK
  <1>7. PagesChained'
    BY <1>1, <1>3, <1>5 DEF PagesChained
  <1>8. CountCovers'
    BY <1>1, <1>2, <1>4, PassCovers DEF CountCovers
  <1>9. BlocksDisjoint'
    <2>1. DOMAIN pages \subseteq DOMAIN ps
      BY <1>3, ListFields DEF IInv, TypeOK
    <2> QED
      BY <1>1, <1>2, <1>3, <2>1 DEF IInv, BlocksDisjoint, Overlap
  <1> QED
    BY <1>6, <1>7, <1>8, <1>9 DEF IInv

\* A pass that takes hands out bytes that nobody had.
LEMMA TakeInv ==
  ASSUME IInv, Take
  PROVE  IInv'
  <1> DEFINE here == PageAtPass
  <1>1. PICK ps \in PagesAtPass :
          LET page == ps[here] IN
          /\ Holds(page)
          /\ pages' = [ps EXCEPT ![here] =
                         [page EXCEPT !.used = @ + PassCount(page),
                                      !.gto_next = @ + PassCount(page)]]
          /\ skew' = PassSkew(page)
          /\ count' = PassCount(page)
          /\ blocks' = blocks \union {[page |-> here, at |-> page.used + PassSkew(page),
                                       size |-> request, entry |-> entry]}
    BY DEF Take, Reserved
  <1>2. request # Idle /\ request' = Idle /\ current' = here /\ entry' = entry
    BY DEF Take, Reserved
  <1>3. /\ ps \in Seq(Page)
        /\ here = Len(ps) /\ here \in Nat \ {0}
        /\ Len(pages) <= Len(ps)
        /\ \A i \in DOMAIN pages : ps[i] = pages[i]
        /\ \A i \in DOMAIN ps : /\ ps[i].gto_next = ps[i].gto_base + ps[i].used
                                /\ ps[i].used <= ps[i].size
        /\ \A i, j \in DOMAIN ps : i < j => ps[i].gto_next <= ps[j].gto_base
    BY <1>2, PassPages
  <1> DEFINE old == ps[here]
             add == PassCount(old)
             new == [old EXCEPT !.used = @ + add, !.gto_next = @ + add]
             block == [page |-> here, at |-> old.used + PassSkew(old),
                       size |-> request, entry |-> entry]
  <1>4. /\ DOMAIN ps = 1..Len(ps) /\ here \in DOMAIN ps /\ old \in Page
        /\ \A i \in DOMAIN ps : /\ ps[i].used \in Nat /\ ps[i].size \in Nat
                                /\ ps[i].gto_base \in Nat /\ ps[i].gto_next \in Nat
    BY <1>3, ListFields
  <1>5. /\ PassSkew(old) \in Nat /\ add \in Nat /\ add >= request + PassSkew(old)
        /\ request \in Nat /\ entry \in Nat
    BY <1>2, <1>4, PassCovers DEF IInv, TypeOK, Idle
  <1>6. old.used + add <= old.size
    BY <1>1 DEF Holds
  <1>7. /\ new \in Page /\ new.used = old.used + add /\ new.gto_next = old.gto_next + add
        /\ new.gto_base = old.gto_base /\ new.size = old.size
    BY <1>4, <1>5, PageReserve
  <1>8. /\ pages' = [ps EXCEPT ![here] = new]
        /\ blocks' = blocks \union {block}
        /\ skew' = PassSkew(old) /\ count' = add
    BY <1>1
  <1>9. block \in Block /\ block.page = here /\ block.size = request
        /\ block.at = old.used + PassSkew(old) /\ block.at + block.size <= new.used
    BY <1>3, <1>4, <1>5, <1>7 DEF Block
  <1> HIDE DEF here, old, add, new, block
  <1>10. /\ pages' \in Seq(Page) /\ DOMAIN pages' = DOMAIN ps /\ Len(pages') = Len(ps)
         /\ pages'[here] = new /\ \A i \in DOMAIN ps : i # here => pages'[i] = ps[i]
    BY <1>3, <1>4, <1>7, <1>8
  <1>11. TypeOK'
    <2>1. \A i \in DOMAIN pages' : pages'[i].used <= pages'[i].size
      BY <1>3, <1>6, <1>7, <1>10
    <2> QED
      BY <2>1, <1>2, <1>3, <1>5, <1>8, <1>9, <1>10 DEF IInv, TypeOK
  <1>12. PagesChained'
    <2>1. \A i \in DOMAIN ps : /\ pages'[i].gto_base = ps[i].gto_base
                               /\ i # here => pages'[i].gto_next = ps[i].gto_next
      BY <1>7, <1>10 DEF old
    <2>2. \A i, j \in DOMAIN ps : i < j => pages'[i].gto_next <= pages'[j].gto_base
      <3>1. \A i, j \in DOMAIN ps : i < j => i # here
        BY <1>3, <1>4
      <3> SUFFICES ASSUME NEW i \in DOMAIN ps, NEW j \in DOMAIN ps, i < j
                   PROVE  pages'[i].gto_next <= pages'[j].gto_base
        OBVIOUS
      <3>2. i # here
        BY <3>1
      <3>3. pages'[i] = ps[i]
        BY <1>10, <3>2
      <3>4. pages'[j].gto_base = ps[j].gto_base
        BY <2>1
      <3>5. ps[i].gto_next <= ps[j].gto_base
        BY <1>3
      <3> QED
        BY <3>3, <3>4, <3>5
    <2>3. new.gto_next = new.gto_base + new.used /\ new.used <= new.size
      BY <1>3, <1>4, <1>5, <1>6, <1>7 DEF old
    <2>4. \A i \in DOMAIN ps : /\ pages'[i].gto_next = pages'[i].gto_base + pages'[i].used
                               /\ pages'[i].used <= pages'[i].size
      BY <1>3, <1>10, <2>3
    <2> QED
      BY <1>2, <1>3, <1>10, <2>2, <2>4 DEF PagesChained
  <1>13. CountCovers'
    BY <1>2 DEF CountCovers
  <1>14. BlocksDisjoint'
    <2>1. \A b \in blocks : /\ b \in Block /\ b.page \in DOMAIN ps
                            /\ b.at + b.size <= ps[b.page].used
                            /\ b.page = here => b.at + b.size <= old.used
      <3>1. DOMAIN pages \subseteq DOMAIN ps
        BY <1>3, ListFields DEF IInv, TypeOK
      <3>2. \A b \in blocks : b \in Block /\ b.page \in DOMAIN pages
                            /\ b.at + b.size <= pages[b.page].used
        BY DEF IInv, TypeOK, BlocksDisjoint
      <3> QED
        BY <3>1, <3>2, <1>3 DEF old
    <2>2. \A i \in DOMAIN ps : /\ ps[i].used <= pages'[i].used
                               /\ pages'[i].used \in Nat
                               /\ pages'[i].used <= pages'[i].size
      BY <1>3, <1>4, <1>5, <1>6, <1>7, <1>10 DEF old
    <2>3. \A b \in blocks' : /\ b.page \in DOMAIN pages'
                             /\ b.at + b.size <= pages'[b.page].used
                             /\ pages'[b.page].used <= pages'[b.page].size
      <3>1. ASSUME NEW b \in blocks
            PROVE  /\ b.page \in DOMAIN pages'
                   /\ b.at + b.size <= pages'[b.page].used
        <4>1. b.at + b.size \in Nat
          BY <2>1, <3>1, BlockFields
        <4>2. b.page \in DOMAIN ps /\ b.at + b.size <= ps[b.page].used
          BY <2>1, <3>1
        <4>3. /\ ps[b.page].used \in Nat /\ pages'[b.page].used \in Nat
              /\ ps[b.page].used <= pages'[b.page].used
          BY <1>4, <2>2, <4>2
        <4> QED
          BY <1>10, <4>1, <4>2, <4>3
      <3>2. /\ block.page \in DOMAIN pages'
            /\ block.at + block.size <= pages'[block.page].used
        BY <1>4, <1>9, <1>10
      <3> QED
        BY <1>8, <1>10, <2>2, <3>1, <3>2
    <2>4. ASSUME NEW b \in blocks
          PROVE  ~Overlap(b, block) /\ ~Overlap(block, b)
      <3>1. b.at \in Nat /\ b.size \in Nat /\ (b.page = here => b.at + b.size <= old.used)
        BY <2>1, <2>4, BlockFields
      <3>2. old.used \in Nat /\ block.at >= old.used /\ block.at \in Nat /\ block.size \in Nat
        BY <1>4, <1>5, <1>9 DEF old
      <3> QED
        BY <1>9, <3>1, <3>2 DEF Overlap
    <2>5. \A b, c \in blocks' : b # c => ~Overlap(b, c)
      BY <1>8, <2>4 DEF IInv, BlocksDisjoint
    <2> QED
      BY <2>3, <2>5 DEF BlocksDisjoint
  <1> QED
    BY <1>11, <1>12, <1>13, <1>14 DEF IInv

\* In a chained list a table offset lies in the range of one page at most, so the
\* lookup finds the page whose range holds it.
LEMMA LookupFinds ==
  ASSUME NEW ps \in Seq(Page), NEW o \in Nat, NEW p \in DOMAIN ps,
         \A i, j \in DOMAIN ps : i < j => ps[i].gto_next <= ps[j].gto_base,
         ps[p].gto_base <= o, o < ps[p].gto_next
  PROVE  TableLookup(ps, o) = <<p, o - ps[p].gto_base>>
  <1>1. /\ DOMAIN ps = 1..Len(ps) /\ Len(ps) \in Nat
        /\ \A i \in DOMAIN ps : ps[i].gto_base \in Nat /\ ps[i].gto_next \in Nat
    BY ListFields
  <1>2. p \in PagesAt(ps, o)
    BY DEF PagesAt
  <1>3. ASSUME NEW q \in PagesAt(ps, o)
        PROVE  q = p
    <2>1. q \in DOMAIN ps /\ ps[q].gto_base <= o /\ o < ps[q].gto_next
      BY <1>3 DEF PagesAt
    <2>2. ~(q < p)
      <3> SUFFICES ASSUME q < p PROVE FALSE
        OBVIOUS
      <3>1. ps[q].gto_next <= ps[p].gto_base
        BY <2>1
      <3> QED
        BY <1>1, <2>1, <3>1
    <2>3. ~(p < q)
      <3> SUFFICES ASSUME p < q PROVE FALSE
        OBVIOUS
      <3>1. ps[p].gto_next <= ps[q].gto_base
        BY <2>1
      <3> QED
        BY <1>1, <2>1, <3>1
    <2> QED
      BY <1>1, <2>1, <2>2, <2>3
  <1>4. PagesAt(ps, o) = {p}
    BY <1>2, <1>3
  <1> QED
    BY <1>4 DEF TableLookup

\* The lookup finds nothing outside the ranges of the pages.
LEMMA LookupInside ==
  ASSUME NEW ps \in Seq(Page), NEW o \in Nat, TableLookup(ps, o) # NullPtr,
         \A i, j \in DOMAIN ps : i < j => ps[i].gto_next <= ps[j].gto_base
  PROVE  \E p \in DOMAIN ps : /\ ps[p].gto_base <= o /\ o < ps[p].gto_next
                              /\ TableLookup(ps, o) = <<p, o - ps[p].gto_base>>
  <1>1. PICK p : p \in PagesAt(ps, o)
    BY DEF TableLookup
  <1>2. p \in DOMAIN ps /\ ps[p].gto_base <= o /\ o < ps[p].gto_next
    BY <1>1 DEF PagesAt
  <1> QED
    BY <1>2, LookupFinds

\* The strengthened invariant holds in every state of raw_get().
THEOREM Invariance == Spec => []IInv
  <1>1. Init => IInv
    BY InitInv
  <1>2. IInv /\ [Next]_vars => IInv'
    <2> SUFFICES ASSUME IInv, [Next]_vars
                 PROVE  IInv'
      OBVIOUS
    <2>1. CASE \E size \in Requests : Call(size)
      BY <2>1, CallInv
    <2>2. CASE Take
      BY <2>2, TakeInv
    <2>3. CASE Skip
      BY <2>3, SkipInv
    <2>4. CASE Spin \/ UNCHANGED vars
      BY <2>4 DEF Spin, vars, IInv, TypeOK, PagesChained, CountCovers, BlocksDisjoint, Overlap
    <2> QED
      BY <2>1, <2>2, <2>3, <2>4 DEF Next
  <1> QED
    BY <1>1, <1>2, PTL DEF Spec

\* The variables of the pool keep their types.
THEOREM TypeCorrect == Spec => []TypeOK
  BY Invariance, PTL DEF IInv

\* Whatever is asked of it, raw_get() never hands out a byte twice.
THEOREM Disjointness == Spec => []BlocksDisjoint
  BY Invariance, PTL DEF IInv

\* By the invariant, get_table_ptr() leads from the table offset of a byte to it.
LEMMA InvFinds == IInv => TableFindsBlock
  <1> SUFFICES ASSUME IInv, NEW b \in blocks, NEW k \in 0..(b.size - 1)
               PROVE  TablePtr(pages[b.page].gto_base + b.at + k) = <<b.page, b.at + k>>
    BY DEF TableFindsBlock
  <1>1. b.page \in DOMAIN pages /\ b.at + b.size <= pages[b.page].used
    BY DEF IInv, BlocksDisjoint
  <1>2. b.at \in Nat /\ b.size \in Nat /\ k \in Nat /\ k < b.size
    BY BlockFields DEF IInv, TypeOK
  <1>3. /\ pages[b.page].used \in Nat
        /\ pages[b.page].gto_base \in Nat
        /\ pages[b.page].gto_next = pages[b.page].gto_base + pages[b.page].used
    BY <1>1, ListFields DEF IInv, TypeOK, PagesChained
  <1> DEFINE o == pages[b.page].gto_base + b.at + k
  <1>4. o \in Nat /\ pages[b.page].gto_base <= o /\ o < pages[b.page].gto_next
    BY <1>1, <1>2, <1>3
  <1>5. TableLookup(pages, o) = <<b.page, o - pages[b.page].gto_base>>
    BY <1>1, <1>4, LookupFinds DEF IInv, TypeOK, PagesChained
  <1>6. o - pages[b.page].gto_base = b.at + k
    BY <1>2, <1>3
  <1> QED
    BY <1>5, <1>6 DEF TablePtr

\* get_table_ptr() leads from the table offset of a byte to that byte.
THEOREM TableLocates == Spec => []TableFindsBlock
  BY Invariance, InvFinds, PTL

\* A step leaves every page where the table has it, and only lengthens its range.
LEMMA RangesGrow ==
  ASSUME IInv, Next, NEW p \in DOMAIN pages
  PROVE  /\ p \in DOMAIN pages'
         /\ pages'[p].gto_base = pages[p].gto_base
         /\ pages'[p].gto_next >= pages[p].gto_next
  <1>1. pages[p].gto_base \in Nat /\ pages[p].gto_next \in Nat /\ p \in 1..Len(pages)
    BY ListFields DEF IInv, TypeOK
  <1>2. CASE Skip
    <2>1. PICK ps \in PagesAtPass : pages' = ps
      BY <1>2 DEF Skip, NextPage
    <2>2. /\ ps \in Seq(Page) /\ Len(pages) <= Len(ps)
          /\ \A i \in DOMAIN pages : ps[i] = pages[i]
      BY <1>2, PassPages DEF Skip, NextPage
    <2>3. p \in DOMAIN ps
      BY <1>1, <2>2, ListFields DEF IInv, TypeOK
    <2> QED
      BY <1>1, <2>1, <2>2, <2>3
  <1>3. CASE Take
    <2>1. PICK ps \in PagesAtPass :
            pages' = [ps EXCEPT ![PageAtPass] =
                        [ps[PageAtPass] EXCEPT !.used = @ + PassCount(ps[PageAtPass]),
                                               !.gto_next = @ + PassCount(ps[PageAtPass])]]
      BY <1>3 DEF Take, Reserved
    <2>2. /\ ps \in Seq(Page) /\ Len(pages) <= Len(ps)
          /\ PageAtPass = Len(ps) /\ PageAtPass \in Nat \ {0}
          /\ \A i \in DOMAIN pages : ps[i] = pages[i]
      BY <1>3, PassPages DEF Take, Reserved
    <2>3. p \in DOMAIN ps /\ PageAtPass \in DOMAIN ps
      BY <1>1, <2>2, ListFields DEF IInv, TypeOK
    <2> DEFINE old == ps[PageAtPass]
               add == PassCount(old)
               new == [old EXCEPT !.used = @ + add, !.gto_next = @ + add]
    <2>4. old \in Page /\ add \in Nat
      BY <1>3, <2>2, <2>3, ListFields, PassCovers DEF Take, Reserved
    <2>5. new.gto_base = old.gto_base /\ new.gto_next = old.gto_next + add
      BY <2>4, PageReserve
    <2>6. pages' = [ps EXCEPT ![PageAtPass] = new]
      BY <2>1
    <2> HIDE DEF new, add
    <2>7. CASE p = PageAtPass
      BY <1>1, <2>2, <2>3, <2>4, <2>5, <2>6, <2>7
    <2>8. CASE p # PageAtPass
      BY <1>1, <2>2, <2>3, <2>6, <2>8
    <2> QED
      BY <2>7, <2>8
  <1>4. CASE UNCHANGED pages
    BY <1>1, <1>4
  <1> QED
    BY <1>2, <1>3, <1>4 DEF Next, Call, Spin, vars

\* What a table offset names never changes.
THEOREM TableStability == Spec => TableStable
  <1>1. IInv /\ IInv' /\ [Next]_vars
          => [\A o \in 0..TableEnd : TablePtr(o) # NullPtr => TablePtr(o)' = TablePtr(o)]_vars
    <2> SUFFICES ASSUME IInv, IInv', Next, NEW o \in 0..TableEnd, TablePtr(o) # NullPtr
                 PROVE  TablePtr(o)' = TablePtr(o)
      BY DEF vars, TablePtr
    <2>1. /\ pages \in Seq(Page) /\ pages' \in Seq(Page)
          /\ \A i, j \in DOMAIN pages : i < j => pages[i].gto_next <= pages[j].gto_base
          /\ \A i, j \in DOMAIN pages' : i < j => pages'[i].gto_next <= pages'[j].gto_base
      BY DEF IInv, TypeOK, PagesChained
    <2>2. o \in Nat
      OBVIOUS
    <2>3. PICK p \in DOMAIN pages : /\ pages[p].gto_base <= o /\ o < pages[p].gto_next
                                    /\ TableLookup(pages, o) = <<p, o - pages[p].gto_base>>
      BY <2>1, <2>2, LookupInside DEF TablePtr
    <2>4. /\ p \in DOMAIN pages'
          /\ pages'[p].gto_base = pages[p].gto_base
          /\ pages'[p].gto_next >= pages[p].gto_next
      BY RangesGrow
    <2>5. pages[p].gto_next \in Nat /\ pages'[p].gto_next \in Nat
      BY <2>1, <2>4, ListFields
    <2>6. TableLookup(pages', o) = <<p, o - pages'[p].gto_base>>
      BY <2>1, <2>2, <2>3, <2>4, <2>5, LookupFinds
    <2> QED
      BY <2>3, <2>4, <2>6 DEF TablePtr
  <1> QED
    BY <1>1, Invariance, PTL DEF Spec, TableStable

-----------------------------------------------------------------------------
(***************************************************************************)
(* That what raw_get() returns is aligned, and lies where the table's end  *)
(* was before the call, although a skew of one pass of its loop survives   *)
(* into the next.  First the arithmetic of multiples.                      *)
(***************************************************************************)

\* A number is what its quotient covers, and the remainder.
LEMMA DivMod ==
  ASSUME NEW n \in Nat, NEW m \in Nat \ {0}
  PROVE  n \div m \in Nat /\ n % m \in 0..(m - 1) /\ n = (n \div m) * m + (n % m)
  OBVIOUS

\* A multiple has no remainder.
LEMMA MultipleMod ==
  ASSUME NEW q \in Nat, NEW m \in Nat \ {0}
  PROVE  (q * m) % m = 0
  OBVIOUS

\* A sum of multiples is one.
LEMMA SumMod ==
  ASSUME NEW a \in Nat, NEW b \in Nat, NEW m \in Nat \ {0}, a % m = 0, b % m = 0
  PROVE  (a + b) % m = 0
  <1> DEFINE p == a \div m
             q == b \div m
  <1>1. p \in Nat /\ q \in Nat /\ a = p * m /\ b = q * m
    BY DivMod
  <1> HIDE DEF p, q
  <1>2. a + b = (p + q) * m /\ p + q \in Nat
    BY <1>1
  <1> QED
    BY <1>2, MultipleMod

\* A number and what it lacks to the next multiple.
LEMMA FillMod ==
  ASSUME NEW a \in Nat, NEW m \in Nat \ {0}
  PROVE  (a + (m - (a % m))) % m = 0
  <1> DEFINE q == a \div m
             r == a % m
  <1>1. q \in Nat /\ r \in 0..(m - 1) /\ a = q * m + r
    BY DivMod
  <1> HIDE DEF q, r
  <1>2. a + (m - r) = (q + 1) * m
    BY <1>1
  <1>3. ((q + 1) * m) % m = 0
    BY <1>1, MultipleMod
  <1> QED
    BY <1>2, <1>3 DEF r

\* What get_round_value() returns is a multiple.
LEMMA RoundUpMod ==
  ASSUME NEW n \in Nat, NEW m \in Nat \ {0}
  PROVE  RoundUp(n, m) % m = 0
  <1> DEFINE q == (n + m - 1) \div m
  <1>1. n + m - 1 \in Nat
    OBVIOUS
  <1>2. q \in Nat
    BY <1>1, DivBounds
  <1> HIDE DEF q
  <1>3. (q * m) % m = 0
    BY <1>2, MultipleMod
  <1> QED
    BY <1>3 DEF RoundUp, q

(***************************************************************************)
(* The inductive invariant of alignment.  A page is filled up to a         *)
(* boundary once anything is on it, so that only the first block of a page *)
(* is skewed; and a skew that is carried over has made the count larger    *)
(* than any page made for the request.                                     *)
(***************************************************************************)
Aligns == Align \in 1..8

\* What is on a page ends on a boundary, and a page that is current is not empty.
PagesFilled ==
  /\ Aligns => \A i \in DOMAIN pages :
                 pages[i].used # 0 => (pages[i].addr + pages[i].used) % AlignBytes = 0
  /\ current # 0 => pages[current].used # 0
  /\ request = Idle /\ pages # <<>> => current # 0

\* A skew carried from pass to pass is more than another page could make up for.
SkewOutgrown ==
  request # Idle =>
    /\ skew = 0 => count % AlignBytes = 0
    /\ skew # 0 => current = 0 /\ count > PageBytes(request)

\* The offset a caller read before the call is the end of the table.
EntryEnds == request # Idle => entry = TableEnd

\* A block lies in the table where its caller's offset said, if no page is skewed.
BlocksEntered ==
  NoSkew => \A b \in blocks : b.entry = pages[b.page].gto_base + b.at

AInv == /\ IInv
        /\ PagesFilled /\ SkewOutgrown /\ EntryEnds
        /\ BlocksAligned /\ BlocksEntered

\* An empty pool has nothing that is not aligned.
LEMMA InitAligned == Init => AInv
  <1> SUFFICES ASSUME Init PROVE AInv
    OBVIOUS
  <1>1. IInv
    BY InitInv
  <1>2. pages = <<>> /\ DOMAIN pages = {} /\ current = 0 /\ request = Idle /\ blocks = {}
    BY DEF Init
  <1> QED
    BY <1>1, <1>2 DEF AInv, PagesFilled, SkewOutgrown, EntryEnds, BlocksAligned, BlocksEntered

\* The table's end, as callers see it, is the end of the last page.
LEMMA TableOffsetEnds ==
  ASSUME AInv, request = Idle
  PROVE  TableOffset = TableEnd
  <1>1. pages \in Seq(Page) /\ current \in 0..Len(pages) /\ (current # 0 => current = Len(pages))
    BY DEF AInv, IInv, TypeOK, PagesChained
  <1>2. CASE pages = <<>>
    BY <1>1, <1>2 DEF TableOffset, TableEnd
  <1>3. CASE pages # <<>>
    BY <1>1, <1>3 DEF TableOffset, TableEnd, AInv, PagesFilled
  <1> QED
    BY <1>2, <1>3

\* A call starts with no skew, and with the table's end read.
LEMMA CallAligned ==
  ASSUME AInv, NEW size \in Requests, Call(size)
  PROVE  AInv'
  <1>1. size \in Nat /\ request' = size /\ size # Idle
    BY RequestsAssumption DEF Call, Idle
  <1>2. IInv'
    BY CallInv DEF AInv
  <1>3. request = Idle /\ UNCHANGED <<pages, current, blocks>>
    BY DEF Call
  <1>4. PagesFilled'
    BY <1>1, <1>3 DEF AInv, PagesFilled
  <1>5. SkewOutgrown'
    <2>1. RoundUp(size, AlignBytes) % AlignBytes = 0
      BY <1>1, AlignAssumption, RoundUpMod
    <2> QED
      BY <2>1 DEF Call, SkewOutgrown
  <1>6. EntryEnds'
    BY <1>3, TableOffsetEnds DEF Call, EntryEnds, TableEnd
  <1>7. BlocksAligned' /\ BlocksEntered'
    BY <1>3 DEF AInv, BlocksAligned, BlocksEntered, NoSkew
  <1> QED
    BY <1>2, <1>4, <1>5, <1>6, <1>7 DEF AInv

\* What a pass finds: the last page, on a boundary if anything is on it, or one just
\* made for the request; the other pages are as they were.
LEMMA PassFinds ==
  ASSUME AInv, request # Idle, NEW ps \in PagesAtPass
  PROVE  LET page == ps[PageAtPass] IN
         /\ ps \in Seq(Page) /\ page \in Page
         /\ PageAtPass = Len(ps) /\ PageAtPass \in DOMAIN ps
         /\ Len(pages) <= Len(ps) /\ DOMAIN pages \subseteq DOMAIN ps
         /\ \A i \in DOMAIN pages : ps[i] = pages[i]
         /\ \A i \in DOMAIN ps : i # PageAtPass => i \in DOMAIN pages
         /\ page.gto_base + page.used = TableEnd
         /\ page.gto_next = TableEnd
         /\ \/ /\ current # 0 /\ ps = pages /\ page.used # 0
               /\ skew = 0
               /\ Aligns => (page.addr + page.used) % AlignBytes = 0
            \/ /\ current = 0 /\ page.used = 0 /\ request \in Nat \ {0}
               /\ page.size = PageBytes(request) /\ PageBytes(request) \in Nat
               /\ PageAtPass \notin DOMAIN pages
  <1>1. /\ ps \in Seq(Page)
        /\ PageAtPass = Len(ps) /\ PageAtPass \in Nat \ {0}
        /\ Len(pages) <= Len(ps)
        /\ \A i \in DOMAIN pages : ps[i] = pages[i]
        /\ \A i \in DOMAIN ps : /\ ps[i].gto_next = ps[i].gto_base + ps[i].used
                                /\ ps[i].used <= ps[i].size
    BY PassPages DEF AInv
  <1>2. /\ pages \in Seq(Page) /\ DOMAIN pages = 1..Len(pages) /\ Len(pages) \in Nat
        /\ current \in 0..Len(pages) /\ (current # 0 => current = Len(pages))
    BY ListFields DEF AInv, IInv, TypeOK, PagesChained
  <1>3. DOMAIN ps = 1..Len(ps) /\ Len(ps) \in Nat /\ ps[PageAtPass] \in Page
    BY <1>1, ListFields
  <1>4. CASE current # 0
    <2>1. ps = pages /\ PageAtPass = current
      BY <1>4 DEF PagesAtPass, PageAtPass
    <2>2. /\ pages[current].used # 0
          /\ Aligns => (pages[current].addr + pages[current].used) % AlignBytes = 0
      BY <1>2, <1>4 DEF AInv, PagesFilled
    <2>3. skew = 0
      BY <1>4 DEF AInv, SkewOutgrown
    <2>4. TableEnd = pages[current].gto_next
      BY <1>2, <1>4 DEF TableEnd
    <2> QED
      BY <1>1, <1>2, <1>3, <1>4, <2>1, <2>2, <2>3, <2>4
  <1>5. CASE current = 0
    <2>1. PICK r \in Bases : ps = Append(pages, NewPage(request, r))
      BY <1>5 DEF PagesAtPass
    <2>2. request \in Nat \ {0}
      BY <1>5 DEF PagesAtPass, CanMake, AInv, IInv, TypeOK, Idle
    <2>3. PageBytes(request) \in Nat
      BY <2>2, PageBytesNat
    <2>4. PageAtPass = Len(pages) + 1
      BY <1>5 DEF PageAtPass
    <2>5. ps[PageAtPass] = NewPage(request, r)
      <3> DEFINE page == NewPage(request, r)
      <3>1. ps = Append(pages, page)
        BY <2>1
      <3>2. page \in Page
        <4>1. TableEnd \in Nat
          BY DEF AInv, EntryEnds, IInv, TypeOK
        <4>2. r \in 0..(AlignBytes - 1)
          BY BasesAssumption
        <4> QED
          BY <2>3, <4>1, <4>2 DEF NewPage, Page
      <3> HIDE DEF page
      <3>3. pages \in Seq(Page) /\ Len(pages) \in Nat
        BY <1>2
      <3>4. Append(pages, page)[Len(pages) + 1] = page
        BY <3>2, <3>3
      <3> QED
        BY <2>4, <3>1, <3>4 DEF page
    <2>6. /\ ps[PageAtPass].used = 0 /\ ps[PageAtPass].size = PageBytes(request)
          /\ ps[PageAtPass].gto_base = TableEnd /\ ps[PageAtPass].gto_next = TableEnd
      BY <2>5 DEF NewPage
    <2>7. ps[PageAtPass].gto_base \in Nat
      BY <1>3, PageFields
    <2> QED
      BY <1>1, <1>2, <1>3, <1>5, <2>2, <2>3, <2>4, <2>6, <2>7
  <1> QED
    BY <1>4, <1>5

\* The skew of a pass: none, or what a page just made lacks to a boundary, unless the
\* count has outgrown that page already.
LEMMA PassSkews ==
  ASSUME AInv, request # Idle, NEW ps \in PagesAtPass
  PROVE  LET page == ps[PageAtPass] IN
         /\ PassSkew(page) # 0 => current = 0
         /\ skew # 0 => PassCount(page) > page.size
         /\ skew = 0 => /\ Aligns => /\ (page.addr + page.used + PassSkew(page)) % AlignBytes = 0
                                     /\ (page.addr + page.used + PassCount(page)) % AlignBytes = 0
                        /\ PassSkew(page) # 0 => Aligns /\ page.addr # 0
                        /\ PassSkew(page) = 0 => PassCount(page) = count
         /\ PassCount(page) \in Nat /\ PassSkew(page) \in Nat /\ PassCount(page) >= count
  <1> DEFINE page == ps[PageAtPass]
  <1>1. /\ page \in Page
        /\ \/ /\ current # 0 /\ page.used # 0 /\ skew = 0
              /\ Aligns => (page.addr + page.used) % AlignBytes = 0
           \/ /\ current = 0 /\ page.used = 0
              /\ page.size = PageBytes(request) /\ PageBytes(request) \in Nat
    BY PassFinds
  <1>2. PassSkew(page) \in Nat /\ PassCount(page) \in Nat
    BY <1>1, PassCovers DEF AInv
  <1>3. count \in Nat /\ skew \in Nat
    BY DEF AInv, IInv, TypeOK
  <1>4. /\ page.addr \in Nat /\ page.used \in Nat /\ page.addr + page.used \in Nat
        /\ page.size \in Nat
    BY <1>1, AlignAssumption DEF Page
  <1> DEFINE here == page.addr + page.used
             add == PassCount(page)
  <1>5. CASE Misfit(page) = 0
    <2>1. PassSkew(page) = skew /\ add = count
      BY <1>5 DEF PassSkew, PassCount
    <2>2. ASSUME skew = 0, Aligns
          PROVE  (here + 0) % AlignBytes = 0 /\ (here + count) % AlignBytes = 0
      <3>1. here % AlignBytes = 0
        BY <1>5, <2>2 DEF Misfit, Aligns
      <3>2. count % AlignBytes = 0
        BY <2>2 DEF AInv, SkewOutgrown
      <3>3. here \in Nat
        BY <1>4
      <3> HIDE DEF here
      <3>4. (here + count) % AlignBytes = 0
        BY <1>3, <3>1, <3>2, <3>3, AlignAssumption, SumMod
      <3> QED
        BY <3>1, <3>3, <3>4
    <2>3. skew # 0 => current = 0 /\ count > PageBytes(request)
      BY DEF AInv, SkewOutgrown
    <2> QED
      BY <1>1, <1>2, <1>3, <1>4, <2>1, <2>2, <2>3
  <1>6. CASE Misfit(page) # 0
    <2>1. Aligns /\ Misfit(page) = here % AlignBytes
      BY <1>6 DEF Misfit, Aligns
    <2>2. page.used = 0 /\ current = 0 /\ page.size = PageBytes(request)
      BY <1>1, <1>6, <2>1
    <2>3. here \in Nat
      BY <1>4
    <2> DEFINE lack == AlignBytes - Misfit(page)
    <2>4. PassSkew(page) = lack /\ add = count + lack
      BY <1>6 DEF PassSkew, PassCount
    <2> HIDE DEF here
    <2>5. (here + lack) % AlignBytes = 0
      BY <2>1, <2>3, AlignAssumption, FillMod
    <2>6. lack \in Nat \ {0}
      BY <2>1, <2>3, AlignAssumption, DivMod
    <2> HIDE DEF lack
    <2>7. ASSUME skew = 0 PROVE (here + add) % AlignBytes = 0
      <3>1. count % AlignBytes = 0
        BY <2>7 DEF AInv, SkewOutgrown
      <3>2. here + lack \in Nat
        BY <2>3, <2>6
      <3>3. ((here + lack) + count) % AlignBytes = 0
        BY <1>3, <2>5, <3>1, <3>2, AlignAssumption, SumMod
      <3>4. (here + lack) + count = here + add
        BY <1>3, <2>3, <2>4, <2>6
      <3> QED
        BY <3>3, <3>4
    <2>8. page.addr # 0
      <3>1. 0 % AlignBytes = 0
        BY AlignAssumption, MultipleMod
      <3> QED
        BY <1>6, <2>1, <2>2, <3>1 DEF here
    <2>9. skew # 0 => count > PageBytes(request)
      BY DEF AInv, SkewOutgrown
    <2> QED
      BY <1>1, <1>2, <1>3, <1>4, <2>1, <2>2, <2>4, <2>5, <2>6, <2>7, <2>8, <2>9 DEF here
  <1> QED
    BY <1>5, <1>6

\* A pass that skips a page leaves a count that has outgrown it, if there is a skew.
LEMMA SkipAligned ==
  ASSUME AInv, Skip
  PROVE  AInv'
  <1>1. request # Idle /\ UNCHANGED <<request, entry, blocks>>
    BY DEF Skip
  <1>2. PICK ps \in PagesAtPass :
          /\ ~Holds(ps[PageAtPass])
          /\ pages' = ps
          /\ skew' = PassSkew(ps[PageAtPass])
          /\ count' = PassCount(ps[PageAtPass])
          /\ current' = NextPage(ps)
    BY DEF Skip
  <1> DEFINE page == ps[PageAtPass]
  <1>3. /\ ps \in Seq(Page) /\ page \in Page
        /\ PageAtPass = Len(ps) /\ PageAtPass \in DOMAIN ps
        /\ Len(pages) <= Len(ps) /\ DOMAIN pages \subseteq DOMAIN ps
        /\ \A i \in DOMAIN pages : ps[i] = pages[i]
        /\ \A i \in DOMAIN ps : i # PageAtPass => i \in DOMAIN pages
        /\ page.gto_next = TableEnd
        /\ \/ /\ current # 0 /\ ps = pages
           \/ /\ current = 0 /\ page.used = 0 /\ request \in Nat \ {0}
              /\ page.size = PageBytes(request) /\ PageBytes(request) \in Nat
    BY <1>1, PassFinds
  <1>4. /\ PassSkew(page) # 0 => current = 0
        /\ skew # 0 => PassCount(page) > page.size
        /\ PassCount(page) \in Nat /\ PassSkew(page) \in Nat
        /\ PassCount(page) >= request + PassSkew(page)
        /\ skew = 0 /\ PassSkew(page) = 0 => PassCount(page) = count
    BY <1>1, <1>3, PassSkews, PassCovers DEF AInv
  <1>5. current' = 0
    BY <1>2, <1>3 DEF NextPage
  <1>6. IInv'
    BY SkipInv DEF AInv
  <1>7. PagesFilled'
    <2>1. \A i \in DOMAIN ps : ps[i].used # 0 => i \in DOMAIN pages
      BY <1>3
    <2> QED
      BY <1>1, <1>2, <1>3, <1>5, <2>1 DEF AInv, PagesFilled
  <1>8. SkewOutgrown'
    <2>1. ASSUME PassSkew(page) = 0 PROVE PassCount(page) % AlignBytes = 0
      <3>1. skew = 0
        <4> SUFFICES ASSUME skew # 0 PROVE FALSE
          OBVIOUS
        <4>1. skew \in Nat /\ skew # 0
          BY DEF AInv, IInv, TypeOK
        <4>2. Misfit(page) # 0
          BY <2>1 DEF PassSkew
        <4>3. page.addr + page.used \in Nat
          BY <1>3, PageFields
        <4>4. Misfit(page) \in 0..(AlignBytes - 1)
          BY <4>2, <4>3, AlignAssumption, DivMod DEF Misfit
        <4> QED
          BY <2>1, <4>2, <4>4, AlignAssumption DEF PassSkew
      <3>2. count % AlignBytes = 0
        BY <1>1, <3>1 DEF AInv, SkewOutgrown
      <3> QED
        BY <1>4, <2>1, <3>1, <3>2
    <2>2. ASSUME PassSkew(page) # 0 PROVE PassCount(page) > PageBytes(request)
      <3>1. page.used = 0 /\ page.size = PageBytes(request) /\ PageBytes(request) \in Nat
            /\ request \in Nat \ {0}
        BY <1>3, <1>4, <2>2
      <3>2. PassCount(page) > 0
        BY <1>4, <3>1
      <3> QED
        BY <1>2, <1>4, <3>1, <3>2 DEF Holds
    <2> QED
      BY <1>1, <1>2, <1>5, <2>1, <2>2 DEF SkewOutgrown
  <1>9. EntryEnds'
    <2>1. ps # <<>> /\ TableEnd' = page.gto_next
      BY <1>2, <1>3 DEF TableEnd
    <2> QED
      BY <1>1, <1>3, <2>1 DEF AInv, EntryEnds
  <1>10. \A b \in blocks : b.page \in DOMAIN pages /\ ps[b.page] = pages[b.page]
    BY <1>3 DEF AInv, IInv, BlocksDisjoint
  <1>11. BlocksAligned'
    BY <1>1, <1>2, <1>10 DEF AInv, BlocksAligned
  <1>12. BlocksEntered'
    BY <1>1, <1>2, <1>3, <1>10 DEF AInv, BlocksEntered, NoSkew
  <1> QED
    BY <1>6, <1>7, <1>8, <1>9, <1>11, <1>12 DEF AInv

\* A pass that takes had no skew carried over: its block is on a boundary, and so is
\* the end of the page.
LEMMA TakeAligned ==
  ASSUME AInv, Take
  PROVE  AInv'
  <1>1. request # Idle /\ request' = Idle /\ current' = PageAtPass /\ UNCHANGED entry
    BY DEF Take
  <1>2. PICK ps \in PagesAtPass :
          /\ Holds(ps[PageAtPass])
          /\ pages' = [ps EXCEPT ![PageAtPass] = Reserved(ps[PageAtPass])]
          /\ blocks' = blocks \union
               {[page |-> PageAtPass, at |-> ps[PageAtPass].used + PassSkew(ps[PageAtPass]),
                 size |-> request, entry |-> entry]}
    BY DEF Take
  <1> DEFINE here == PageAtPass
             page == ps[PageAtPass]
             add == PassCount(page)
             new == Reserved(page)
             block == [page |-> here, at |-> page.used + PassSkew(page),
                       size |-> request, entry |-> entry]
  <1>3. /\ ps \in Seq(Page) /\ page \in Page
        /\ here = Len(ps) /\ here \in DOMAIN ps /\ here # 0
        /\ Len(pages) <= Len(ps) /\ DOMAIN pages \subseteq DOMAIN ps
        /\ \A i \in DOMAIN pages : ps[i] = pages[i]
        /\ \A i \in DOMAIN ps : i # here => i \in DOMAIN pages
        /\ page.gto_base + page.used = TableEnd
    <2>1. here \in Nat \ {0}
      BY <1>1, PassPages DEF AInv
    <2> QED
      BY <1>1, <2>1, PassFinds
  <1>4. page.addr \in Nat /\ page.used \in Nat /\ page.gto_base \in Nat /\ page.size \in Nat
    BY <1>3, AlignAssumption, PageFields DEF Page
  <1>5. skew = 0 /\ add > 0 /\ add \in Nat /\ PassSkew(page) \in Nat
    <2>1. skew # 0 => add > page.size
      BY <1>1, PassSkews
    <2>2. add \in Nat /\ add > 0 /\ page.used + add <= page.size /\ PassSkew(page) \in Nat
      BY <1>1, <1>2, PassSkews DEF Holds
    <2> QED
      BY <1>4, <2>1, <2>2
  <1>6. /\ Aligns => /\ (page.addr + page.used + PassSkew(page)) % AlignBytes = 0
                    /\ (page.addr + page.used + add) % AlignBytes = 0
        /\ PassSkew(page) # 0 => page.addr # 0
    BY <1>1, <1>5, PassSkews
  <1>7. /\ new.used = page.used + add /\ new.addr = page.addr /\ new.gto_base = page.gto_base
        /\ new.used \in Nat /\ new.used # 0
    <2> HIDE DEF add
    <2>1. /\ page \in Page
          /\ new = [page EXCEPT !.used = @ + add, !.gto_next = @ + add]
      BY <1>3 DEF Reserved, add
    <2> HIDE DEF new, page
    <2>2. /\ new.used = page.used + add /\ new.addr = page.addr
          /\ new.gto_base = page.gto_base
      BY <2>1 DEF Page
    <2> QED
      BY <1>4, <1>5, <2>2
  <1>8. pages' = [ps EXCEPT ![here] = new] /\ blocks' = blocks \union {block}
    BY <1>2
  <1>9. /\ block.page = here /\ block.at = page.used + PassSkew(page) /\ block.entry = entry
    OBVIOUS
  <1>10. entry = TableEnd
    BY <1>1 DEF AInv, EntryEnds
  <1> HIDE DEF here, page, add, new, block
  <1>11. /\ DOMAIN pages' = DOMAIN ps /\ pages'[here] = new
         /\ \A i \in DOMAIN ps : i # here => pages'[i] = pages[i] /\ i \in DOMAIN pages
    BY <1>3, <1>8
  <1>12. IInv'
    BY TakeInv DEF AInv
  <1>13. PagesFilled'
    <2>1. Aligns => (new.addr + new.used) % AlignBytes = 0
      <3>1. page.addr + page.used + add = new.addr + new.used
        BY <1>4, <1>5, <1>7
      <3> QED
        BY <1>6, <3>1
    <2>2. Aligns => \A i \in DOMAIN ps :
            pages'[i].used # 0 => (pages'[i].addr + pages'[i].used) % AlignBytes = 0
      BY <1>11, <2>1 DEF AInv, PagesFilled
    <2>3. current' = here /\ here # 0
      BY <1>1, <1>3 DEF here
    <2> QED
      BY <1>7, <1>11, <2>2, <2>3 DEF PagesFilled
  <1>14. SkewOutgrown' /\ EntryEnds'
    BY <1>1 DEF SkewOutgrown, EntryEnds
  <1>15. \A b \in blocks : /\ b.page \in DOMAIN pages
                           /\ pages'[b.page].addr = pages[b.page].addr
                           /\ pages'[b.page].gto_base = pages[b.page].gto_base
    <2> SUFFICES ASSUME NEW b \in blocks
                 PROVE  /\ b.page \in DOMAIN pages
                        /\ pages'[b.page].addr = pages[b.page].addr
                        /\ pages'[b.page].gto_base = pages[b.page].gto_base
      OBVIOUS
    <2>1. b.page \in DOMAIN pages
      BY DEF AInv, IInv, BlocksDisjoint
    <2>2. CASE b.page = here
      <3>1. page = pages[here]
        BY <1>3, <2>1, <2>2 DEF page, here
      <3> QED
        BY <1>7, <1>11, <2>1, <2>2, <3>1
    <2>3. CASE b.page # here
      BY <1>3, <1>11, <2>1, <2>3
    <2> QED
      BY <2>2, <2>3
  <1>16. BlocksAligned'
    <2>1. Aligns => (pages'[block.page].addr + block.at) % AlignBytes = 0
      <3>1. page.addr + page.used + PassSkew(page) = new.addr + block.at
        BY <1>4, <1>5, <1>7, <1>9
      <3> QED
        BY <1>6, <1>9, <1>11, <3>1
    <2>2. Aligns => \A b \in blocks : (pages'[b.page].addr + b.at) % AlignBytes = 0
      BY <1>15 DEF AInv, BlocksAligned, Aligns
    <2> QED
      BY <1>8, <2>1, <2>2 DEF BlocksAligned, Aligns
  <1>17. BlocksEntered'
    <2> SUFFICES ASSUME NoSkew', NEW b \in blocks'
                 PROVE  b.entry = pages'[b.page].gto_base + b.at
      BY DEF BlocksEntered
    <2>1. CASE b = block
      <3>1. page.addr = 0
        BY <1>3, <1>7, <1>11 DEF NoSkew
      <3>2. PassSkew(page) = 0
        BY <1>6, <3>1
      <3> QED
        BY <1>3, <1>4, <1>7, <1>9, <1>10, <1>11, <2>1, <3>2 DEF page
    <2>2. CASE b \in blocks
      <3>1. NoSkew
        <4> SUFFICES ASSUME NEW i \in DOMAIN pages PROVE pages[i].addr = 0
          BY DEF NoSkew
        <4>1. i \in DOMAIN ps /\ ps[i] = pages[i]
          BY <1>3
        <4>2. pages'[i].addr = 0
          BY <1>11, <4>1 DEF NoSkew
        <4>3. CASE i = here
          BY <1>7, <1>11, <4>1, <4>2, <4>3 DEF page, here
        <4>4. CASE i # here
          BY <1>11, <4>1, <4>2, <4>4
        <4> QED
          BY <4>3, <4>4
      <3> QED
        BY <1>15, <2>2, <3>1 DEF AInv, BlocksEntered
    <2> QED
      BY <1>8, <2>1, <2>2
  <1> QED
    BY <1>12, <1>13, <1>14, <1>16, <1>17 DEF AInv

\* The invariant of alignment holds in every state of raw_get().
THEOREM AlignInvariance == Spec => []AInv
  <1>1. Init => AInv
    BY InitAligned
  <1>2. AInv /\ [Next]_vars => AInv'
    <2> SUFFICES ASSUME AInv, [Next]_vars
                 PROVE  AInv'
      OBVIOUS
    <2>1. CASE \E size \in Requests : Call(size)
      BY <2>1, CallAligned
    <2>2. CASE Take
      BY <2>2, TakeAligned
    <2>3. CASE Skip
      BY <2>3, SkipAligned
    <2>4. CASE Spin \/ UNCHANGED vars
      <3>1. UNCHANGED vars
        BY <2>4 DEF Spin
      <3>2. IInv'
        BY <3>1 DEF vars, AInv, IInv, TypeOK, PagesChained, CountCovers, BlocksDisjoint, Overlap
      <3> QED
        BY <3>1, <3>2 DEF vars, AInv, PagesFilled, SkewOutgrown, EntryEnds, BlocksAligned,
                          BlocksEntered, NoSkew, TableEnd
    <2> QED
      BY <2>1, <2>2, <2>3, <2>4 DEF Next
  <1> QED
    BY <1>1, <1>2, PTL DEF Spec

\* raw_get() returns addresses at the set alignment, wherever malloc() puts the pages.
THEOREM Alignment == Spec => []BlocksAligned
  BY AlignInvariance, PTL DEF AInv

\* On aligned pages the table offset read before a call locates what the call returns.
THEOREM EntryLocates == Spec => []EntryLocatesBlock
  <1>1. AInv => EntryLocatesBlock
    <2> SUFFICES ASSUME AInv, NoSkew, NEW b \in blocks, b.size > 0
                 PROVE  TablePtr(b.entry) = <<b.page, b.at>>
      BY DEF EntryLocatesBlock
    <2>1. b.at \in Nat /\ b.size \in Nat /\ b.page \in DOMAIN pages
      BY BlockFields DEF AInv, IInv, TypeOK, BlocksDisjoint
    <2>2. TableFindsBlock
      BY InvFinds DEF AInv
    <2>3. TablePtr(pages[b.page].gto_base + b.at + 0) = <<b.page, b.at + 0>>
      BY <2>1, <2>2 DEF TableFindsBlock
    <2>4. pages[b.page].gto_base \in Nat
      BY <2>1, ListFields DEF AInv, IInv, TypeOK
    <2>5. b.entry = pages[b.page].gto_base + b.at
      BY DEF AInv, BlocksEntered
    <2> QED
      BY <2>1, <2>3, <2>4, <2>5
  <1> QED
    BY <1>1, AlignInvariance, PTL

(***************************************************************************)
(* Refinement of ByteTable.  The rounds of a call do not show: a page just *)
(* made has an empty range at the table's end.  What shows is that a block *)
(* is taken with the count of the call, or that and the skew of a page     *)
(* just begun, and nothing that an earlier round has left.                 *)
(***************************************************************************)

\* As long as nothing is skewed, what is going to be reserved is the request rounded up.
CountExact == request # Idle /\ skew = 0 => count = RoundUp(request, AlignBytes)

\* What is served has been asked for.
Asked == request # Idle => request \in Requests

TInv == AInv /\ CountExact /\ Asked

\* What a page just begun has skipped, by where malloc() has put it.
Gap(r) == IF r = 0 THEN 0 ELSE AlignBytes - r
Gaps == IF Align \in 1..8 THEN {Gap(r) : r \in Bases} ELSE {0}

\* The table's cuts, and what was reserved at which of its offsets.
Cuts == {pages[i].gto_base : i \in {j \in DOMAIN pages : pages[j].used # 0}} \ {0}
Held == {[at |-> pages[b.page].gto_base + b.at, size |-> b.size] : b \in blocks}

\* The skew of a pass is nothing only if there was none before it.
LEMMA NoSkewBefore ==
  ASSUME AInv, request # Idle, NEW page \in Page, PassSkew(page) = 0
  PROVE  skew = 0 /\ PassCount(page) = count
  <1>1. page.addr + page.used \in Nat
    BY PageFields
  <1>2. Misfit(page) = 0
    <2> SUFFICES ASSUME Misfit(page) # 0 PROVE FALSE
      OBVIOUS
    <2>1. Misfit(page) \in 0..(AlignBytes - 1)
      BY <1>1, AlignAssumption, DivMod DEF Misfit
    <2> QED
      BY <2>1, AlignAssumption DEF PassSkew
  <1> QED
    BY <1>2 DEF PassSkew, PassCount

\* The count of a call is exact until something is skewed, and for what was asked.
LEMMA CountsExact == Spec => []TInv
  <1>1. Init => TInv
    BY InitAligned DEF Init, TInv, CountExact, Asked
  <1>2. TInv /\ [Next]_vars => CountExact' /\ Asked'
    <2> SUFFICES ASSUME TInv, [Next]_vars
                 PROVE  CountExact' /\ Asked'
      OBVIOUS
    <2>1. CASE \E size \in Requests : Call(size)
      BY <2>1 DEF Call, CountExact, Asked
    <2>2. CASE Take
      BY <2>2 DEF Take, CountExact, Asked
    <2>3. CASE Skip
      <3>1. request # Idle /\ request' = request
        BY <2>3 DEF Skip
      <3>2. PICK ps \in PagesAtPass : /\ skew' = PassSkew(ps[PageAtPass])
                                      /\ count' = PassCount(ps[PageAtPass])
        BY <2>3 DEF Skip
      <3>3. ps[PageAtPass] \in Page
        BY <3>1, PassFinds DEF TInv
      <3>4. PassSkew(ps[PageAtPass]) = 0 => skew = 0 /\ PassCount(ps[PageAtPass]) = count
        BY <3>1, <3>3, NoSkewBefore DEF TInv
      <3> QED
        BY <3>1, <3>2, <3>4 DEF TInv, CountExact, Asked
    <2>4. CASE Spin \/ UNCHANGED vars
      BY <2>4 DEF Spin, vars, TInv, CountExact, Asked
    <2> QED
      BY <2>1, <2>2, <2>3, <2>4 DEF Next
  <1> QED
    BY <1>1, <1>2, AlignInvariance, PTL DEF Spec, TInv

\* What a pass finds is where it was, or has been made with an empty range.
LEMMA PassShows ==
  ASSUME AInv, request # Idle, NEW ps \in PagesAtPass
  PROVE  /\ \A b \in blocks : b.page \in DOMAIN pages /\ ps[b.page] = pages[b.page]
         /\ {i \in DOMAIN ps : ps[i].used # 0} = {i \in DOMAIN pages : pages[i].used # 0}
         /\ \A i \in DOMAIN ps : ps[i].used # 0 => ps[i] = pages[i]
  <1>1. /\ DOMAIN pages \subseteq DOMAIN ps
        /\ \A i \in DOMAIN pages : ps[i] = pages[i]
        /\ \A i \in DOMAIN ps : i # PageAtPass => i \in DOMAIN pages
        /\ ps[PageAtPass].used = 0 \/ ps = pages
    BY PassFinds
  <1>2. \A b \in blocks : b.page \in DOMAIN pages
    BY DEF AInv, IInv, BlocksDisjoint
  <1>3. \A i \in DOMAIN ps : ps[i].used # 0 => i \in DOMAIN pages
    BY <1>1
  <1> QED
    BY <1>1, <1>2, <1>3

\* A pass that skips a page does not show.
LEMMA SkipHidden ==
  ASSUME AInv, Skip
  PROVE  TableEnd' = TableEnd /\ Cuts' = Cuts /\ Held' = Held
  <1>1. request # Idle /\ blocks' = blocks
    BY DEF Skip
  <1>2. PICK ps \in PagesAtPass : pages' = ps
    BY DEF Skip
  <1>3. /\ ps \in Seq(Page) /\ PageAtPass = Len(ps) /\ PageAtPass \in DOMAIN ps
        /\ ps[PageAtPass].gto_next = TableEnd
    BY <1>1, PassFinds
  <1>4. TableEnd' = TableEnd
    <2>1. ps # <<>>
      BY <1>3
    <2> QED
      BY <1>2, <1>3, <2>1 DEF TableEnd
  <1>5. Cuts' = Cuts
    BY <1>1, <1>2, PassShows, Zenon DEF Cuts
  <1>6. Held' = Held
    BY <1>1, <1>2, PassShows, Zenon DEF Held
  <1> QED
    BY <1>4, <1>5, <1>6

\* A page just made is where malloc() puts pages.
LEMMA FreshAddress ==
  ASSUME AInv, current = 0, NEW ps \in PagesAtPass
  PROVE  ps[PageAtPass].addr \in Bases
  <1>1. PICK r \in Bases : ps = Append(pages, NewPage(request, r))
    BY DEF PagesAtPass
  <1>2. PageAtPass = Len(pages) + 1
    BY DEF PageAtPass
  <1>3. pages \in Seq(Page)
    BY DEF AInv, IInv, TypeOK
  <1> DEFINE page == NewPage(request, r)
  <1>4. page.addr = r
    BY DEF NewPage
  <1> HIDE DEF page
  <1>5. Append(pages, page)[Len(pages) + 1] = page
    BY <1>3
  <1>6. ps[PageAtPass] = page
    BY <1>1, <1>2, <1>5 DEF page
  <1> QED
    BY <1>4, <1>6

\* What callers see of a reservation: its place, and whether a page begins there.
Follows == /\ TableEnd > 0
           /\ Held' = Held \union {[at |-> TableEnd, size |-> request]}
           /\ TableEnd' = TableEnd + RoundUp(request, AlignBytes)
           /\ Cuts' = Cuts
Begins(gap) == /\ Held' = Held \union {[at |-> TableEnd + gap, size |-> request]}
               /\ TableEnd' = TableEnd + gap + RoundUp(request, AlignBytes)
               /\ Cuts' = Cuts \union ({TableEnd} \ {0})

\* A pass that takes reserves the count of its call behind the last block, or behind the
\* skew of a page just made.
LEMMA TakeShows ==
  ASSUME TInv, Take
  PROVE  request \in Requests /\ (Follows \/ \E gap \in Gaps : Begins(gap))
  <1>1. AInv /\ request # Idle
    BY DEF TInv, Take
  <1>2. PICK ps \in PagesAtPass :
          /\ Holds(ps[PageAtPass])
          /\ pages' = [ps EXCEPT ![PageAtPass] = Reserved(ps[PageAtPass])]
          /\ blocks' = blocks \union
               {[page |-> PageAtPass, at |-> ps[PageAtPass].used + PassSkew(ps[PageAtPass]),
                 size |-> request, entry |-> entry]}
    BY DEF Take
  <1> DEFINE here == PageAtPass
             page == ps[PageAtPass]
             add == PassCount(page)
             gap == PassSkew(page)
             new == Reserved(page)
             block == [page |-> here, at |-> page.used + gap, size |-> request, entry |-> entry]
  <1>3. /\ ps \in Seq(Page) /\ page \in Page
        /\ here = Len(ps) /\ here \in DOMAIN ps
        /\ page.gto_base + page.used = TableEnd
        /\ \/ current # 0 /\ ps = pages /\ page.used # 0
           \/ current = 0 /\ page.used = 0 /\ here \notin DOMAIN pages
    BY <1>1, PassFinds
  <1>4. /\ page.addr \in 0..(AlignBytes - 1) /\ page.used \in Nat /\ page.gto_base \in Nat
        /\ page.gto_next \in Nat /\ page.size \in Nat
    BY <1>3, PageFields
  <1>5. skew = 0 /\ add > 0 /\ add \in Nat /\ gap \in Nat
    <2>1. skew # 0 => add > page.size
      BY <1>1, PassSkews
    <2>2. add \in Nat /\ add > 0 /\ page.used + add <= page.size /\ gap \in Nat
      BY <1>1, <1>2, PassSkews DEF Holds
    <2> QED
      BY <1>4, <2>1, <2>2
  <1>6. count = RoundUp(request, AlignBytes) /\ request \in Requests
    BY <1>1, <1>5 DEF TInv, CountExact, Asked
  <1>7. add = gap + count
    <2>1. Misfit(page) = 0 => gap = 0 /\ add = count
      BY <1>5 DEF PassSkew, PassCount
    <2>2. Misfit(page) # 0 => add = count + gap
      BY DEF PassCount
    <2>3. count \in Nat
      BY <1>1 DEF AInv, IInv, TypeOK
    <2> QED
      BY <1>5, <2>1, <2>2, <2>3
  <1>8. /\ new.used = page.used + add /\ new.gto_next = page.gto_next + add
        /\ new.gto_base = page.gto_base /\ new \in Page
    <2> HIDE DEF add
    <2>1. new = [page EXCEPT !.used = @ + add, !.gto_next = @ + add]
      BY DEF Reserved, add
    <2> HIDE DEF new, page
    <2> QED
      BY <1>3, <1>5, <2>1, PageReserve
  <1>9. pages' = [ps EXCEPT ![here] = new] /\ blocks' = blocks \union {block}
    BY <1>2
  <1>10. block.page = here /\ block.at = page.used + gap /\ block.size = request
    OBVIOUS
  <1>11. page.gto_next = TableEnd
    BY <1>1, PassFinds
  <1>12. /\ \A b \in blocks : b.page \in DOMAIN pages /\ ps[b.page] = pages[b.page]
         /\ {i \in DOMAIN ps : ps[i].used # 0} = {i \in DOMAIN pages : pages[i].used # 0}
         /\ \A i \in DOMAIN ps : ps[i].used # 0 => ps[i] = pages[i]
    BY <1>1, PassShows
  <1>13. gap # 0 => current = 0 /\ Aligns /\ page.addr # 0
    BY <1>1, <1>5, PassSkews
  <1> HIDE DEF here, page, add, gap, new, block
  <1>14. /\ DOMAIN pages' = DOMAIN ps /\ Len(pages') = Len(ps) /\ pages'[here] = new
         /\ \A i \in DOMAIN ps : i # here => pages'[i] = ps[i]
         /\ \A i \in DOMAIN ps : pages'[i].gto_base = ps[i].gto_base
    BY <1>3, <1>8, <1>9 DEF here, page
  <1>15. TableEnd' = TableEnd + gap + RoundUp(request, AlignBytes)
    <2>1. pages' # <<>> /\ Len(pages') = here
      BY <1>3, <1>14 DEF here
    <2>2. TableEnd' = new.gto_next
      BY <1>14, <2>1 DEF TableEnd
    <2>3. count \in Nat
      BY <1>1 DEF AInv, IInv, TypeOK
    <2> QED
      BY <1>4, <1>5, <1>6, <1>7, <1>8, <1>11, <2>2, <2>3
  <1>16. Held' = Held \union {[at |-> TableEnd + gap, size |-> request]}
    <2>1. pages'[block.page].gto_base + block.at = TableEnd + gap
      BY <1>3, <1>4, <1>5, <1>8, <1>10, <1>14 DEF page
    <2>2. \A b \in blocks : pages'[b.page].gto_base = pages[b.page].gto_base
      <3>1. \A b \in blocks : b.page \in DOMAIN ps
        BY <1>1, <1>12, PassFinds
      <3> QED
        BY <1>12, <1>14, <3>1
    <2> QED
      BY <1>9, <1>10, <2>1, <2>2 DEF Held
  <1>17. here \in {i \in DOMAIN pages' : pages'[i].used # 0}
    BY <1>3, <1>4, <1>5, <1>8, <1>14 DEF here
  <1>18. Cuts' = Cuts \union ({page.gto_base} \ {0})
    <2>1. {i \in DOMAIN pages' : pages'[i].used # 0}
            = {i \in DOMAIN pages : pages[i].used # 0} \union {here}
      BY <1>12, <1>14, <1>17
    <2>2. \A i \in {j \in DOMAIN pages : pages[j].used # 0} :
            pages'[i].gto_base = pages[i].gto_base
      BY <1>12, <1>14
    <2> QED
      BY <1>8, <1>14, <2>1, <2>2 DEF Cuts
  <1>19. CASE current # 0
    <2>1. gap = 0 /\ TableEnd > 0 /\ TableEnd \in Nat
      BY <1>3, <1>4, <1>13, <1>19 DEF page
    <2>2. page.gto_base \in Cuts \union {0}
      <3>1. here \in {j \in DOMAIN pages : pages[j].used # 0} /\ page = pages[here]
        BY <1>3, <1>19 DEF here, page
      <3> QED
        BY <3>1 DEF Cuts
    <2>3. Cuts' = Cuts
      BY <1>18, <2>2
    <2>4. TableEnd + gap = TableEnd
      BY <2>1
    <2>5. Follows
      BY <1>15, <1>16, <2>1, <2>3, <2>4 DEF Follows
    <2> QED
      BY <1>6, <2>5
  <1>20. CASE current = 0
    <2>1. page.used = 0 /\ page.gto_base = TableEnd
      BY <1>3, <1>4, <1>20
    <2>2. gap \in Gaps
      <3>1. PICK r \in Bases : page.addr = r
        BY FreshAddress, <1>1, <1>20 DEF page
      <3>2. Aligns => Misfit(page) = r % AlignBytes
        BY <1>4, <2>1, <3>1 DEF Misfit, Aligns
      <3>3. r \in 0..(AlignBytes - 1) /\ r % AlignBytes = r
        BY <3>1, BasesAssumption, AlignAssumption
      <3>4. Aligns => gap = Gap(r)
        BY <1>5, <3>2, <3>3 DEF gap, PassSkew, Gap
      <3>5. ~Aligns => gap = 0
        BY <1>13
      <3> QED
        BY <3>1, <3>4, <3>5 DEF Gaps, Aligns
    <2>3. Begins(gap)
      BY <1>15, <1>16, <1>18, <2>1 DEF Begins
    <2> QED
      BY <1>6, <2>2, <2>3
  <1> QED
    BY <1>19, <1>20

\* To its callers the pool is a ByteTable, wherever malloc() puts its pages and whatever
\* the passes of a call have tried.
THEOREM Refinement == Spec => ActsAsTable
  <1>1. Init => Table!Init
    BY DEF Init, Table!Init, TableEnd
  <1>2. TInv /\ [Next]_vars => [Table!Next]_(Table!vars)
    <2> SUFFICES ASSUME TInv, [Next]_vars
                 PROVE  Table!Next \/ (TableEnd' = TableEnd /\ Cuts' = Cuts /\ Held' = Held)
      BY DEF Table!vars, Cuts, Held
    <2>1. CASE (\E size \in Requests : Call(size)) \/ Spin \/ UNCHANGED vars
      <3>1. UNCHANGED <<pages, blocks>>
        BY <2>1 DEF Call, Spin, vars
      <3> QED
        BY <3>1 DEF TableEnd, Cuts, Held
    <2>2. CASE Take
      <3>1. request \in Requests /\ (Follows \/ \E gap \in Gaps : Begins(gap))
        BY <2>2, TakeShows
      <3>2. PICK n \in Requests : n = request
        BY <3>1
      <3>3. ASSUME Follows PROVE Table!Next
        <4>1. Table!BehindLast(n)
          BY <3>2, <3>3
             DEF Follows, Table!BehindLast, Table!Hold, Table!RoundUp, RoundUp, Cuts, Held
        <4> QED
          BY <4>1 DEF Table!Next
      <3>4. ASSUME NEW gap \in Gaps, Begins(gap) PROVE Table!Next
        <4>1. Table!OnNewPage(n, gap)
          BY <3>2, <3>4
             DEF Begins, Table!OnNewPage, Table!Hold, Table!RoundUp, RoundUp, Cuts, Held
        <4> QED
          BY <4>1 DEF Table!Next, Gaps, Gap
      <3> QED
        BY <3>1, <3>3, <3>4
    <2>3. CASE Skip
      BY <2>3, SkipHidden DEF TInv
    <2> QED
      BY <2>1, <2>2, <2>3 DEF Next
  <1> QED
    BY <1>1, <1>2, CountsExact, PTL DEF Spec, ActsAsTable, Table!Spec
=============================================================================
