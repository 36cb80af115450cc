-------------------------- MODULE SymbolTable_proof --------------------------
(***************************************************************************)
(* Proofs about SymbolTable: for pages of every size, every set of names   *)
(* and every sequence of calls, malloc() failing or not, the table over    *)
(* its pools is the directory that its callers are promised.               *)
(***************************************************************************)
EXTENDS SymbolTable, TLAPS

(***************************************************************************)
(* Rows of NodeRoom places: the p-th row's k-th place is the (p - 1) *     *)
(* NodeRoom + k-th of all.                                                 *)
(***************************************************************************)
Where(i) == <<((i - 1) \div NodeRoom) + 1, ((i - 1) % NodeRoom) + 1>>

\* Division rounds down: what get_round_value() and make_page() rest on.
LEMMA DivBounds ==
  ASSUME NEW n \in Nat, NEW m \in Nat \ {0}
  PROVE  n \div m \in Nat /\ (n \div m) * m <= n /\ n < (n \div m) * m + m
  OBVIOUS

\* What a quotient covers determines it, and what is left over.
LEMMA Quotient ==
  ASSUME NEW n \in Nat, NEW m \in Nat \ {0}, NEW q \in Nat, NEW r \in Nat,
         n = q * m + r, r < m
  PROVE  n \div m = q /\ n % m = r
<1> DEFINE d == n \div m
           e == n % m
<1>1. d \in Nat /\ e \in Nat /\ e < m /\ n = d * m + e
  OBVIOUS
<1> HIDE DEF d, e
<1>2. CASE d < q
  <2>1. d * m + m <= q * m
    BY <1>1, <1>2
  <2> QED
    BY <1>1, <2>1
<1>3. CASE d > q
  <2>1. q * m + m <= d * m
    BY <1>1, <1>3
  <2> QED
    BY <1>1, <2>1
<1>4. CASE d = q
  BY <1>1, <1>4 DEF d, e
<1> QED
  BY <1>1, <1>2, <1>3, <1>4

\* A place of a row is found by its number.
LEMMA WhereRow ==
  ASSUME NEW p \in Nat \ {0}, NEW k \in 1..NodeRoom
  PROVE  /\ (p - 1) * NodeRoom + k \in Nat \ {0}
         /\ Where((p - 1) * NodeRoom + k) = <<p, k>>
<1>1. NodeRoom \in Nat \ {0} /\ p - 1 \in Nat /\ k - 1 \in Nat /\ k - 1 < NodeRoom
  BY NodeAssumption
<1> DEFINE w == (p - 1) * NodeRoom
<1>2. w \in Nat
  BY <1>1
<1> DEFINE n == w + (k - 1)
<1>3. n \in Nat /\ n = (p - 1) * NodeRoom + (k - 1)
  BY <1>1, <1>2
<1> HIDE DEF n
<1>4. n \div NodeRoom = p - 1 /\ n % NodeRoom = k - 1
  BY <1>1, <1>3, Quotient
<1> HIDE DEF w
<1>5. (w + k) - 1 = n /\ w + k \in Nat \ {0}
  BY <1>1, <1>2 DEF n
<1> QED
  BY <1>1, <1>4, <1>5 DEF Where, w

\* The number of a place is that of its row and column.
LEMMA RowWhere ==
  ASSUME NEW i \in Nat \ {0}
  PROVE  /\ Where(i)[1] \in Nat \ {0} /\ Where(i)[2] \in 1..NodeRoom
         /\ (Where(i)[1] - 1) * NodeRoom + Where(i)[2] = i
<1> DEFINE d == (i - 1) \div NodeRoom
           e == (i - 1) % NodeRoom
<1>1. NodeRoom \in Nat \ {0} /\ i - 1 \in Nat
  BY NodeAssumption
<1>2. d \in Nat /\ e \in Nat /\ e < NodeRoom /\ i - 1 = d * NodeRoom + e
  BY <1>1
<1>3. Where(i) = <<d + 1, e + 1>>
  BY DEF Where
<1> HIDE DEF d, e
<1>4. (d + 1) - 1 = d /\ e + 1 \in 1..NodeRoom /\ d + 1 \in Nat \ {0}
  BY <1>1, <1>2
<1>5. d * NodeRoom + (e + 1) = i
  <2>1. d * NodeRoom \in Nat
    BY <1>1, <1>2
  <2> QED
    BY <1>2, <2>1
<1> QED
  BY <1>3, <1>4, <1>5

\* Numbers order the places row by row.
LEMMA RowOrder ==
  ASSUME NEW p \in Nat \ {0}, NEW k \in 1..NodeRoom,
         NEW q \in Nat \ {0}, NEW l \in 0..NodeRoom
  PROVE  (p - 1) * NodeRoom + k <= (q - 1) * NodeRoom + l <=> (p < q \/ (p = q /\ k <= l))
<1> DEFINE a == p - 1
           b == q - 1
<1>1. NodeRoom \in Nat \ {0} /\ a \in Nat /\ b \in Nat
  BY NodeAssumption
<1>2. a * NodeRoom \in Nat /\ b * NodeRoom \in Nat
  BY <1>1
<1>3. CASE p < q
  <2>1. a + 1 <= b
    BY <1>3
  <2> HIDE DEF a, b
  <2>2. a * NodeRoom + NodeRoom <= b * NodeRoom
    BY <1>1, <2>1
  <2> DEFINE x == a * NodeRoom
             y == b * NodeRoom
  <2> HIDE DEF x, y
  <2>3. x \in Nat /\ y \in Nat /\ x + NodeRoom <= y
    BY <1>2, <2>2 DEF x, y
  <2>4. x + k <= y + l
    BY <1>1, <2>3
  <2> QED
    BY <1>3, <2>4 DEF x, y, a, b
<1>4. CASE p = q
  <2> DEFINE x == a * NodeRoom
  <2>1. x \in Nat
    BY <1>2
  <2> HIDE DEF x
  <2>2. x + k <= x + l <=> k <= l
    BY <1>1, <2>1
  <2> QED
    BY <1>4, <2>2 DEF x, a
<1>5. CASE p > q
  <2>1. b + 1 <= a
    BY <1>5
  <2> HIDE DEF a, b
  <2>2. b * NodeRoom + NodeRoom <= a * NodeRoom
    BY <1>1, <2>1
  <2> DEFINE x == a * NodeRoom
             y == b * NodeRoom
  <2> HIDE DEF x, y
  <2>3. x \in Nat /\ y \in Nat /\ y + NodeRoom <= x
    BY <1>2, <2>2 DEF x, y
  <2>4. ~(x + k <= y + l)
    BY <1>1, <2>3
  <2> QED
    BY <1>5, <2>4 DEF x, y, a, b
<1> QED
  BY <1>3, <1>4, <1>5

\* What a name takes is room for it and its end.
LEMMA SpaceCovers ==
  ASSUME NEW name \in Seq(STRING)
  PROVE  Len(name) \in Nat /\ Space(name) \in Nat /\ Space(name) > Len(name)
<1>1. Len(name) \in Nat
  OBVIOUS
<1>2. ReserveMin \in Nat \ {0}
  BY StringAssumption
<1> DEFINE n == (Len(name) + 1) + ReserveMin - 1
           q == n \div ReserveMin
<1>3. n \in Nat /\ n = Len(name) + ReserveMin
  BY <1>1, <1>2
<1> HIDE DEF n
<1>4. q \in Nat /\ n < q * ReserveMin + ReserveMin
  BY <1>2, <1>3, DivBounds
<1>5. Space(name) = q * ReserveMin
  BY DEF Space, RoundUp, n
<1> HIDE DEF q
<1> DEFINE x == q * ReserveMin
<1>6. x \in Nat
  BY <1>2, <1>4
<1> HIDE DEF x
<1>7. n < x + ReserveMin
  BY <1>4 DEF x
<1> QED
  BY <1>1, <1>2, <1>3, <1>5, <1>6, <1>7 DEF x

-----------------------------------------------------------------------------
(***************************************************************************)
(* Pages of characters.                                                    *)
(***************************************************************************)
Chars == STRING \union {Nul, Stale}
Texts == UNION {[0..(n - 1) -> Chars] : n \in Nat}
PageSet == [used : Nat, text : Texts]

\* A page that is not used beyond its end.
Sound(page) == page \in PageSet /\ (page.used = 0 \/ page.used - 1 \in DOMAIN page.text)

\* What a page is made of.
LEMMA PageFields ==
  ASSUME NEW page \in PageSet
  PROVE  /\ page = [used |-> page.used, text |-> page.text]
         /\ page.used \in Nat /\ page.text \in Texts
         /\ \E n \in Nat : page.text \in [0..(n - 1) -> Chars]
  BY Zenon DEF PageSet, Texts

\* A page is made with a capacity, a reservation at least, and nothing on it.
LEMMA NewPageSound ==
  ASSUME NEW count \in Nat \ {0}
  PROVE  /\ Sound(NewPage(count)) /\ NewPage(count).used = 0
         /\ PageChars(count) \in Nat /\ PageChars(count) >= Capacity
         /\ NewPage(count).text \in [0..(PageChars(count) - 1) -> Chars]
<1>1. Capacity \in Nat \ {0} /\ PageSize \in Nat /\ HeadSize \in Nat
  BY StringAssumption DEF Capacity
<1> DEFINE n == count + Capacity - 1
           q == n \div Capacity
<1>2. n \in Nat /\ n >= Capacity
  BY <1>1
<1> HIDE DEF n
<1>3. q \in Nat /\ n < q * Capacity + Capacity
  BY <1>1, <1>2, DivBounds
<1>4. PageChars(count) = q * PageSize - HeadSize
  BY DEF PageChars, n
<1> HIDE DEF q
<1>5. q # 0
  BY <1>1, <1>2, <1>3
<1>6. q * PageSize \in Nat /\ q * PageSize >= PageSize
  BY <1>1, <1>3, <1>5
<1>7. PageChars(count) \in Nat /\ PageChars(count) >= Capacity
  <2> DEFINE x == q * PageSize
  <2> HIDE DEF x
  <2>1. x \in Nat /\ x >= PageSize /\ PageChars(count) = x - HeadSize
    BY <1>4, <1>6 DEF x
  <2> QED
    BY <1>1, <2>1, StringAssumption DEF Capacity
<1>8. NewPage(count).text \in [0..(PageChars(count) - 1) -> Chars]
  BY Zenon DEF NewPage, Chars
<1>9. NewPage(count).used = 0 /\ NewPage(count) \in [used : {0}, text : {NewPage(count).text}]
  BY Zenon DEF NewPage
<1>10. NewPage(count).text \in Texts
  BY <1>7, <1>8, Zenon DEF Texts
<1>11. NewPage(count) \in PageSet
  BY <1>9, <1>10, SMT DEF PageSet
<1> QED
  BY <1>7, <1>8, <1>9, <1>11, Zenon DEF Sound

\* The characters of a name and its end.
LEMMA WrittenIs ==
  ASSUME NEW name \in Seq(STRING)
  PROVE  /\ \A k \in 1..Len(name) : Written(name)[k] = name[k] /\ name[k] \in STRING
         /\ Written(name)[Len(name) + 1] = Nul
         /\ \A k \in 1..(Len(name) + 1) : Written(name)[k] \in Chars
<1>1. \A k \in 1..Len(name) : name[k] \in STRING
  OBVIOUS
<1>2. \A k \in 1..Len(name) : Written(name)[k] = name[k]
  BY SMT DEF Written
<1>3. Written(name)[Len(name) + 1] = Nul
  BY SMT DEF Written
<1>4. ASSUME NEW k \in 1..(Len(name) + 1)
      PROVE  Written(name)[k] \in Chars
  <2>1. k \in 1..Len(name) \/ k = Len(name) + 1
    OBVIOUS
  <2> QED
    BY <1>1, <1>2, <1>3, <2>1, Zenon DEF Chars
<1> QED
  BY <1>1, <1>2, <1>3, <1>4, Zenon

\* A name that a page has room for is on it whole, behind what was there and before
\* what comes, and nothing that was there changes.
LEMMA CopiedSound ==
  ASSUME NEW page \in PageSet, NEW name \in Seq(STRING), Holds(page, name)
  PROVE  /\ Sound(Copied(page, name))
         /\ DOMAIN Copied(page, name).text = DOMAIN page.text
         /\ Copied(page, name).used > page.used + Len(name)
         /\ \A c \in DOMAIN page.text :
              c < page.used => Copied(page, name).text[c] = page.text[c]
         /\ \A k \in 1..(Len(name) + 1) :
              /\ page.used + (k - 1) \in DOMAIN page.text
              /\ Copied(page, name).text[page.used + (k - 1)] = Written(name)[k]
<1>1. page.used \in Nat /\ page.text \in Texts
  BY PageFields, Zenon
<1>2. Len(name) \in Nat /\ Space(name) \in Nat /\ Space(name) > Len(name)
  BY SpaceCovers
<1>3. PICK n \in Nat : page.text \in [0..(n - 1) -> Chars]
  BY <1>1, Zenon DEF Texts
<1>4. DOMAIN page.text = 0..(n - 1)
  BY <1>3, Zenon
<1> DEFINE new == Copied(page, name)
           At(c) == IF c - page.used \in 0..Len(name) THEN Written(name)[c - page.used + 1]
                    ELSE page.text[c]
<1>5. new = [used |-> page.used + Space(name), text |-> [c \in DOMAIN page.text |-> At(c)]]
  BY Zenon DEF Copied
<1>6. new.used = page.used + Space(name) /\ new.text = [c \in 0..(n - 1) |-> At(c)]
  <2> HIDE DEF At, new
  <2>1. new.used = page.used + Space(name) /\ new.text = [c \in DOMAIN page.text |-> At(c)]
    BY <1>5, Zenon
  <2> QED
    BY <1>4, <2>1, Zenon
<1>7. ASSUME NEW c \in 0..(n - 1)
      PROVE  At(c) \in Chars
  <2>1. CASE c - page.used \in 0..Len(name)
    <3>1. c - page.used + 1 \in 1..(Len(name) + 1)
      BY <1>1, <1>2, <2>1
    <3> QED
      BY <2>1, <3>1, WrittenIs, Zenon
  <2>2. CASE ~(c - page.used \in 0..Len(name))
    BY <1>3, <2>2, Zenon
  <2> QED
    BY <2>1, <2>2, Zenon
<1>8. ASSUME NEW c \in 0..(n - 1), c < page.used
      PROVE  new.text[c] = page.text[c]
  <2>1. ~(c - page.used \in 0..Len(name))
    BY <1>1, <1>8
  <2> QED
    BY <1>6, <2>1, Zenon
<1>9. ASSUME NEW k \in 1..(Len(name) + 1)
      PROVE  /\ page.used + (k - 1) \in 0..(n - 1)
             /\ new.text[page.used + (k - 1)] = Written(name)[k]
  <2>1. k - 1 \in 0..(Space(name) - 1)
    BY <1>2
  <2>2. page.used + (k - 1) \in DOMAIN page.text
    BY <2>1, Zenon DEF Holds
  <2>3. (page.used + (k - 1)) - page.used = k - 1 /\ (k - 1) + 1 = k /\ k - 1 \in 0..Len(name)
    BY <1>1, <1>2
  <2>4. At(page.used + (k - 1)) = Written(name)[k]
    BY <2>3
  <2> HIDE DEF At
  <2> QED
    BY <1>4, <1>6, <2>2, <2>4, Zenon
<1> HIDE DEF At
<1>10. new.text \in [0..(n - 1) -> Chars]
  BY <1>6, <1>7, Zenon
<1>11. new.text \in Texts /\ DOMAIN new.text = DOMAIN page.text
  BY <1>4, <1>10, Zenon DEF Texts
<1>12. new.used \in Nat /\ new.used > page.used + Len(name)
  BY <1>1, <1>2, <1>6
<1>13. new \in PageSet
  <2>1. new = [used |-> new.used, text |-> new.text]
    BY <1>5, Zenon
  <2> HIDE DEF new
  <2> QED
    BY <1>11, <1>12, <2>1, SMT DEF PageSet
<1>14. new.used - 1 \in DOMAIN new.text
  <2>1. Space(name) - 1 \in 0..(Space(name) - 1)
    BY <1>2
  <2>2. page.used + (Space(name) - 1) \in DOMAIN page.text
    BY <2>1, Zenon DEF Holds
  <2>3. new.used - 1 = page.used + (Space(name) - 1)
    BY <1>1, <1>2, <1>6
  <2> QED
    BY <1>11, <2>2, <2>3, Zenon
<1>15. Sound(new)
  BY <1>13, <1>14, Zenon DEF Sound
<1> HIDE DEF new
<1> QED
  BY <1>4, <1>8, <1>9, <1>11, <1>12, <1>15, Zenon DEF new

-----------------------------------------------------------------------------
(***************************************************************************)
(* Names in the pool ss.  A name has no character that ends it before its  *)
(* end, so what is spelled at a place is one name only.                    *)
(***************************************************************************)
CharIn(ss, ptr, k) == IF ptr.at + k \in DOMAIN ss[ptr.page].text
                      THEN ss[ptr.page].text[ptr.at + k] ELSE Stale
SpelledIn(ss, ptr, name) ==
  \A k \in 1..(Len(name) + 1) : CharIn(ss, ptr, k - 1) = Written(name)[k]

\* The name is on its page, before the characters that a later name can take.
Lies(ss, ptr, name) == /\ ptr \in Pointers /\ ptr.page \in 1..Len(ss)
                       /\ SpelledIn(ss, ptr, name)
                       /\ ptr.at + Len(name) < ss[ptr.page].used

\* Names are sequences of characters, and none of these ends a name.
LEMMA NameSeq ==
  ASSUME NEW name \in Names
  PROVE  /\ name \in Seq(STRING) /\ Len(name) \in Nat
         /\ \A k \in 1..Len(name) : name[k] # Nul
  BY NamesAssumption, NulAssumption

\* At one place there is one name.
LEMMA SpelledOnce ==
  ASSUME NEW ss, NEW ptr, NEW m \in Names, NEW n \in Names,
         SpelledIn(ss, ptr, m), SpelledIn(ss, ptr, n)
  PROVE  m = n
<1>1. /\ m \in Seq(STRING) /\ Len(m) \in Nat
      /\ n \in Seq(STRING) /\ Len(n) \in Nat
      /\ \A k \in 1..Len(m) : m[k] # Nul
      /\ \A k \in 1..Len(n) : n[k] # Nul
  BY NameSeq
<1>2. /\ \A k \in 1..Len(m) : Written(m)[k] = m[k]
      /\ Written(m)[Len(m) + 1] = Nul
      /\ \A k \in 1..Len(n) : Written(n)[k] = n[k]
      /\ Written(n)[Len(n) + 1] = Nul
  BY <1>1, WrittenIs
<1>3. /\ \A k \in 1..(Len(m) + 1) : CharIn(ss, ptr, k - 1) = Written(m)[k]
      /\ \A k \in 1..(Len(n) + 1) : CharIn(ss, ptr, k - 1) = Written(n)[k]
  BY Zenon DEF SpelledIn
<1>4. CASE Len(m) < Len(n)
  <2>1. Len(m) + 1 \in 1..(Len(m) + 1) /\ Len(m) + 1 \in 1..(Len(n) + 1) /\ Len(m) + 1 \in 1..Len(n)
    BY <1>1, <1>4
  <2>2. Written(n)[Len(m) + 1] = Nul
    BY <1>2, <1>3, <2>1, Zenon
  <2> QED
    BY <1>1, <1>2, <2>1, <2>2, Zenon
<1>5. CASE Len(n) < Len(m)
  <2>1. Len(n) + 1 \in 1..(Len(n) + 1) /\ Len(n) + 1 \in 1..(Len(m) + 1) /\ Len(n) + 1 \in 1..Len(m)
    BY <1>1, <1>5
  <2>2. Written(m)[Len(n) + 1] = Nul
    BY <1>2, <1>3, <2>1, Zenon
  <2> QED
    BY <1>1, <1>2, <2>1, <2>2, Zenon
<1>6. CASE Len(n) = Len(m)
  <2>1. ASSUME NEW k \in 1..Len(m) PROVE m[k] = n[k]
    <3>1. k \in 1..(Len(m) + 1) /\ k \in 1..(Len(n) + 1) /\ k \in 1..Len(n)
      BY <1>1, <1>6
    <3> QED
      BY <1>2, <1>3, <3>1, Zenon
  <2>2. m = [k \in 1..Len(m) |-> m[k]] /\ n = [k \in 1..Len(n) |-> n[k]]
    BY <1>1
  <2> QED
    BY <1>6, <2>1, <2>2, SMT
<1> QED
  BY <1>1, <1>4, <1>5, <1>6

\* What the directory knows of a node's name: the name that is spelled there.
NameIn(ss, ptr) == IF ptr = Null THEN Null
                   ELSE IF \E name \in Names : SpelledIn(ss, ptr, name)
                   THEN CHOOSE name \in Names : SpelledIn(ss, ptr, name) ELSE <<Stale>>

\* The name that is spelled is the name that is read.
LEMMA NameRead ==
  ASSUME NEW ss, NEW ptr \in Pointers, NEW name \in Names, SpelledIn(ss, ptr, name)
  PROVE  ptr # Null /\ NameIn(ss, ptr) = name
<1>1. ptr # Null
  BY NullAssumption, Zenon
<1> DEFINE read == CHOOSE m \in Names : SpelledIn(ss, ptr, m)
<1>2. read \in Names /\ SpelledIn(ss, ptr, read)
  BY Zenon
<1>3. NameIn(ss, ptr) = read
  BY <1>1, Zenon DEF NameIn
<1> HIDE DEF read
<1>4. read = name
  BY <1>2, SpelledOnce, Zenon
<1> QED
  BY <1>1, <1>3, <1>4, Zenon

\* The pool keeps the page, up to what is used of it.
Keeps(ss, tt) == /\ Len(ss) \in Nat /\ Len(tt) \in Nat /\ Len(ss) <= Len(tt)
                 /\ \A p \in 1..Len(ss) :
                      /\ DOMAIN tt[p].text = DOMAIN ss[p].text
                      /\ DOMAIN ss[p].text \subseteq Nat
                      /\ ss[p].used \in Nat /\ tt[p].used \in Nat /\ ss[p].used <= tt[p].used
                      /\ \A c \in DOMAIN ss[p].text :
                           c < ss[p].used => tt[p].text[c] = ss[p].text[c]

\* A name that lies in the pool is still there when later names have been put behind it.
LEMMA LiesOn ==
  ASSUME NEW ss, NEW tt, NEW ptr, NEW name \in Names, Lies(ss, ptr, name), Keeps(ss, tt)
  PROVE  Lies(tt, ptr, name)
<1> DEFINE p == ptr.page
<1>1. p \in 1..Len(ss) /\ ptr \in Pointers
  BY Zenon DEF Lies
<1>2. /\ DOMAIN tt[p].text = DOMAIN ss[p].text
      /\ ss[p].used \in Nat /\ tt[p].used \in Nat /\ ss[p].used <= tt[p].used
      /\ \A c \in DOMAIN ss[p].text : c < ss[p].used => tt[p].text[c] = ss[p].text[c]
  BY <1>1, Zenon DEF Keeps
<1>3. p \in 1..Len(tt)
  BY <1>1 DEF Keeps
<1>4. ptr.at \in Nat /\ Len(name) \in Nat
  BY <1>1, NameSeq, Zenon DEF Pointers
<1>5. ptr.at + Len(name) < ss[p].used
  BY Zenon DEF Lies
<1>6. ASSUME NEW k \in 1..(Len(name) + 1)
      PROVE  CharIn(tt, ptr, k - 1) = CharIn(ss, ptr, k - 1)
  <2> DEFINE c == ptr.at + (k - 1)
  <2>1. c < ss[p].used
    BY <1>2, <1>4, <1>5
  <2>2. CharIn(tt, ptr, k - 1) = (IF c \in DOMAIN tt[p].text THEN tt[p].text[c] ELSE Stale)
    BY DEF CharIn
  <2>3. CharIn(ss, ptr, k - 1) = (IF c \in DOMAIN ss[p].text THEN ss[p].text[c] ELSE Stale)
    BY DEF CharIn
  <2>4. DOMAIN tt[p].text = DOMAIN ss[p].text
    BY <1>2, Zenon
  <2>5. c \in DOMAIN ss[p].text => tt[p].text[c] = ss[p].text[c]
    BY <1>2, <2>1, Zenon
  <2> HIDE DEF c, p
  <2>6. CASE c \in DOMAIN ss[p].text
    BY <2>2, <2>3, <2>4, <2>5, <2>6
  <2>7. CASE c \notin DOMAIN ss[p].text
    BY <2>2, <2>3, <2>4, <2>7
  <2> QED
    BY <2>6, <2>7
<1>7. SpelledIn(tt, ptr, name)
  <2>1. \A k \in 1..(Len(name) + 1) : CharIn(ss, ptr, k - 1) = Written(name)[k]
    BY Zenon DEF Lies, SpelledIn
  <2> QED
    BY <1>6, <2>1, Zenon DEF SpelledIn
<1>8. ptr.at + Len(name) < tt[p].used
  BY <1>2, <1>4, <1>5
<1> QED
  BY <1>1, <1>3, <1>7, <1>8, Zenon DEF Lies

-----------------------------------------------------------------------------
(***************************************************************************)
(* Nodes in the pages ns, all full but the last.                           *)
(***************************************************************************)
NodeSet == [name : Pointers \union {Null}, bind : SUBSET BindAny]
Full(ns) == /\ ns \in Seq(Seq(NodeSet))
            /\ \A p \in 1..Len(ns) : /\ Len(ns[p]) <= NodeRoom
                                     /\ p < Len(ns) => Len(ns[p]) = NodeRoom
Held(ns) == IF ns = <<>> THEN 0 ELSE (Len(ns) - 1) * NodeRoom + Len(ns[Len(ns)])
NodeIn(ns, i) == ns[Where(i)[1]][Where(i)[2]]
Number(p, k) == (p - 1) * NodeRoom + k

\* Pages are sequences of nodes.
LEMMA PageSeq ==
  ASSUME NEW ns, Full(ns), NEW p \in 1..Len(ns)
  PROVE  /\ Len(ns) \in Nat /\ ns # <<>> /\ p \in Nat \ {0}
         /\ ns[p] \in Seq(NodeSet) /\ Len(ns[p]) \in 0..NodeRoom
         /\ p < Len(ns) => Len(ns[p]) = NodeRoom
<1>1. ns \in Seq(Seq(NodeSet))
  BY DEF Full
<1>2. Len(ns) \in Nat /\ ns # <<>> /\ p \in Nat \ {0}
  BY <1>1
<1> DEFINE S == Seq(NodeSet)
<1>3. ns \in Seq(S)
  BY <1>1
<1> HIDE DEF S
<1>4. ns[p] \in S
  BY <1>3
<1>5. ns[p] \in Seq(NodeSet)
  BY <1>4 DEF S
<1>6. Len(ns[p]) \in Nat
  BY <1>5
<1> QED
  BY <1>2, <1>5, <1>6, NodeAssumption DEF Full

\* The number of nodes is a number.
LEMMA HeldNat ==
  ASSUME NEW ns, Full(ns)
  PROVE  Len(ns) \in Nat /\ Held(ns) \in Nat
<1>1. Len(ns) \in Nat
  BY DEF Full
<1>2. CASE ns = <<>>
  BY <1>1, <1>2 DEF Held
<1>3. CASE ns # <<>>
  <2>1. Len(ns) \in 1..Len(ns)
    BY <1>3 DEF Full
  <2>2. Len(ns[Len(ns)]) \in Nat
    BY <2>1, PageSeq
  <2>3. (Len(ns) - 1) * NodeRoom \in Nat
    BY <2>1, NodeAssumption
  <2> QED
    BY <1>1, <1>3, <2>2, <2>3 DEF Held
<1> QED
  BY <1>2, <1>3

\* Every number up to the count of the nodes is that of a node.
LEMMA NodeAt ==
  ASSUME NEW ns, Full(ns), NEW i \in 1..Held(ns)
  PROVE  /\ Where(i)[1] \in 1..Len(ns) /\ Where(i)[2] \in 1..Len(ns[Where(i)[1]])
         /\ Number(Where(i)[1], Where(i)[2]) = i
         /\ NodeIn(ns, i) \in NodeSet
<1> DEFINE p == Where(i)[1]
           k == Where(i)[2]
           L == Len(ns)
           l == Len(ns[L])
<1>1. L \in Nat /\ Held(ns) \in Nat
  BY HeldNat
<1>2. ns # <<>>
  BY DEF Held
<1>3. L \in 1..L
  BY <1>2 DEF Full
<1>4. L \in Nat \ {0} /\ l \in 0..NodeRoom
  BY <1>3, PageSeq
<1>5. i \in Nat \ {0} /\ i <= Held(ns) /\ Held(ns) = (L - 1) * NodeRoom + l
  BY <1>1, <1>2 DEF Held
<1>6. p \in Nat \ {0} /\ k \in 1..NodeRoom /\ (p - 1) * NodeRoom + k = i
  BY <1>5, RowWhere
<1>7. NodeIn(ns, i) = ns[p][k]
  BY DEF NodeIn
<1> HIDE DEF p, k, l, L
<1>8. p < L \/ (p = L /\ k <= l)
  BY <1>4, <1>5, <1>6, RowOrder
<1>9. p \in 1..Len(ns)
  BY <1>1, <1>6, <1>8 DEF L
<1>10. /\ Len(ns[p]) \in Nat /\ ns[p] \in Seq(NodeSet)
       /\ p < Len(ns) => Len(ns[p]) = NodeRoom
  BY <1>9, PageSeq
<1>11. k \in 1..Len(ns[p])
  <2>1. CASE p < L
    BY <1>6, <1>10, <2>1 DEF L
  <2>2. CASE p = L /\ k <= l
    BY <1>4, <1>6, <2>2 DEF l
  <2> QED
    BY <1>8, <2>1, <2>2
<1>12. ns[p][k] \in NodeSet
  BY <1>10, <1>11
<1> QED
  BY <1>6, <1>7, <1>9, <1>11, <1>12 DEF p, k, Number

\* Every node has its number.
LEMMA NumberAt ==
  ASSUME NEW ns, Full(ns), NEW p \in 1..Len(ns), NEW k \in 1..Len(ns[p])
  PROVE  /\ Number(p, k) \in 1..Held(ns) /\ Where(Number(p, k)) = <<p, k>>
         /\ NodeIn(ns, Number(p, k)) = ns[p][k]
<1> DEFINE L == Len(ns)
           l == Len(ns[L])
<1>1. L \in Nat /\ ns # <<>> /\ p \in Nat \ {0} /\ Len(ns[p]) \in 0..NodeRoom
  BY PageSeq
<1>2. k \in 1..NodeRoom
  BY <1>1, NodeAssumption
<1>3. L \in 1..L /\ L \in Nat \ {0}
  BY <1>1
<1>4. l \in 0..NodeRoom
  BY <1>3, PageSeq
<1>5. Held(ns) \in Nat /\ Held(ns) = (L - 1) * NodeRoom + l
  BY <1>1, HeldNat DEF Held
<1>6. Number(p, k) \in Nat \ {0} /\ Where(Number(p, k)) = <<p, k>>
  BY <1>1, <1>2, WhereRow DEF Number
<1>7. p < L \/ (p = L /\ k <= l)
  BY <1>1
<1> HIDE DEF l, L
<1>8. Number(p, k) <= Held(ns)
  BY <1>1, <1>2, <1>3, <1>4, <1>5, <1>7, RowOrder DEF Number
<1>9. NodeIn(ns, Number(p, k)) = ns[p][k]
  <2>1. Where(Number(p, k))[1] = p /\ Where(Number(p, k))[2] = k
    BY <1>6
  <2> QED
    BY <2>1, Zenon DEF NodeIn
<1> QED
  BY <1>5, <1>6, <1>8, <1>9

\* The pages mm are ns with another last page, whose first m nodes are the same.
Replaced(mm, ns, page, m) ==
  /\ Full(mm) /\ mm # <<>> /\ Len(mm) = Len(ns) /\ mm[Len(ns)] = page
  /\ \A p \in 1..Len(ns) : p # Len(ns) => mm[p] = ns[p]
  /\ Held(mm) = (Len(ns) - 1) * NodeRoom + Len(page)
  /\ \A i \in 1..((Len(ns) - 1) * NodeRoom + m) :
       i \in 1..Held(ns) /\ NodeIn(mm, i) = NodeIn(ns, i)

\* With another last page the nodes before those that differ are the same.
LEMMA LastPage ==
  ASSUME NEW ns, Full(ns), ns # <<>>,
         NEW page \in Seq(NodeSet), Len(page) <= NodeRoom,
         NEW m \in 0..Len(ns[Len(ns)]), m <= Len(page),
         \A k \in 1..m : page[k] = ns[Len(ns)][k],
         NEW mm, mm = [ns EXCEPT ![Len(ns)] = page]
  PROVE  Replaced(mm, ns, page, m)
<1> DEFINE L == Len(ns)
           S == Seq(NodeSet)
<1>1. ns \in Seq(S) /\ page \in S
  BY DEF Full
<1> HIDE DEF S
<1>2. L \in Nat \ {0} /\ L \in 1..L
  BY <1>1
<1>3. mm \in Seq(S) /\ Len(mm) = L
  BY <1>1, <1>2
<1>4. mm[L] = page /\ \A p \in 1..L : p # L => mm[p] = ns[p]
  BY <1>1, <1>2
<1>5. mm # <<>>
  BY <1>2, <1>3
<1>6. Len(page) \in Nat /\ Len(ns[L]) \in 0..NodeRoom
  BY <1>2, PageSeq
<1>7. Full(mm)
  <2>1. ASSUME NEW p \in 1..Len(mm)
        PROVE  Len(mm[p]) <= NodeRoom /\ (p < Len(mm) => Len(mm[p]) = NodeRoom)
    <3>1. CASE p = L
      BY <1>2, <1>3, <1>4, <3>1
    <3>2. CASE p # L
      BY <1>3, <1>4, <3>2 DEF Full
    <3> QED
      BY <3>1, <3>2
  <2>2. mm \in Seq(Seq(NodeSet))
    BY <1>3 DEF S
  <2> QED
    BY <2>1, <2>2 DEF Full
<1>8. Held(mm) = (L - 1) * NodeRoom + Len(page)
  BY <1>3, <1>4, <1>5 DEF Held
<1>9. Held(ns) = (L - 1) * NodeRoom + Len(ns[L]) /\ (L - 1) * NodeRoom \in Nat
  BY <1>2, NodeAssumption DEF Held
<1>10. ASSUME NEW i \in 1..((L - 1) * NodeRoom + m)
       PROVE  i \in 1..Held(ns) /\ NodeIn(mm, i) = NodeIn(ns, i)
  <2> DEFINE p == Where(i)[1]
             k == Where(i)[2]
  <2>1. i \in 1..Held(ns)
    <3> DEFINE x == (L - 1) * NodeRoom
    <3> HIDE DEF x
    <3>1. x \in Nat /\ i \in 1..(x + m) /\ Held(ns) = x + Len(ns[L])
      BY <1>9 DEF x
    <3> QED
      BY <1>6, <3>1
  <2>2. p \in 1..L /\ k \in 1..Len(ns[p]) /\ Number(p, k) = i
    BY <2>1, NodeAt
  <2>3. NodeIn(mm, i) = mm[p][k] /\ NodeIn(ns, i) = ns[p][k]
    BY Zenon DEF NodeIn
  <2> HIDE DEF p, k
  <2>4. CASE p # L
    BY <1>4, <2>1, <2>2, <2>3, <2>4
  <2>5. CASE p = L
    <3>1. k \in 1..NodeRoom /\ m \in 0..NodeRoom
      BY <1>6, <2>2, <2>5, NodeAssumption
    <3>2. (L - 1) * NodeRoom + k <= (L - 1) * NodeRoom + m
      <4>1. (L - 1) * NodeRoom + k = i
        BY <2>2, <2>5 DEF Number
      <4> DEFINE x == (L - 1) * NodeRoom
      <4> HIDE DEF x
      <4>2. x \in Nat /\ i \in 1..(x + m) /\ x + k = i
        BY <1>9, <4>1 DEF x
      <4>3. x + k <= x + m
        BY <3>1, <4>2
      <4> QED
        BY <4>3 DEF x
    <3>3. k <= m
      BY <1>2, <3>1, <3>2, RowOrder
    <3>4. k \in 1..m
      BY <3>1, <3>3
    <3>5. page[k] = ns[L][k]
      BY <3>4
    <3> QED
      BY <1>4, <2>1, <2>3, <2>5, <3>5
  <2> QED
    BY <2>4, <2>5
<1> QED
  BY <1>3, <1>4, <1>5, <1>7, <1>8, <1>10 DEF Replaced

\* A new page behind full ones: the nodes are the same.
LEMMA AnotherPage ==
  ASSUME NEW ns, Full(ns), ns # <<>> => Len(ns[Len(ns)]) = NodeRoom
  PROVE  LET mm == Append(ns, <<>>) IN
         /\ Full(mm) /\ mm # <<>> /\ Len(mm) = Len(ns) + 1 /\ Held(mm) = Held(ns)
         /\ mm[Len(ns) + 1] = <<>> /\ \A p \in 1..Len(ns) : mm[p] = ns[p]
         /\ \A i \in 1..Held(ns) : NodeIn(mm, i) = NodeIn(ns, i)
<1> DEFINE L == Len(ns)
           mm == Append(ns, <<>>)
           S == Seq(NodeSet)
<1>1. ns \in Seq(S) /\ <<>> \in S
  BY DEF Full
<1> HIDE DEF S
<1>2. L \in Nat /\ mm \in Seq(S) /\ Len(mm) = L + 1
  BY <1>1
<1>3. mm[L + 1] = <<>> /\ \A p \in 1..L : mm[p] = ns[p]
  BY <1>1
<1> HIDE DEF mm
<1>4. mm # <<>>
  BY <1>2
<1>5. Full(mm)
  <2>1. ASSUME NEW p \in 1..Len(mm)
        PROVE  Len(mm[p]) <= NodeRoom /\ (p < Len(mm) => Len(mm[p]) = NodeRoom)
    <3>1. CASE p = L + 1
      <4>1. Len(mm[p]) = 0
        BY <1>3, <3>1
      <4> QED
        BY <1>2, <3>1, <4>1, NodeAssumption
    <3>2. CASE p # L + 1
      <4>1. p \in 1..L /\ mm[p] = ns[p]
        BY <1>2, <1>3, <3>2
      <4>2. p < L => Len(ns[p]) = NodeRoom
        BY <4>1, PageSeq
      <4>3. p = L => Len(ns[p]) = NodeRoom
        BY <4>1
      <4>4. Len(ns[p]) = NodeRoom
        BY <1>2, <4>1, <4>2, <4>3
      <4> QED
        BY <4>1, <4>4, NodeAssumption
    <3> QED
      BY <3>1, <3>2
  <2>2. mm \in Seq(Seq(NodeSet))
    BY <1>2 DEF S
  <2> QED
    BY <2>1, <2>2 DEF Full
<1>6. Held(mm) = Held(ns)
  <2>1. Held(mm) = L * NodeRoom
    <3>1. Len(mm[L + 1]) = 0 /\ (L + 1) - 1 = L /\ L * NodeRoom \in Nat
      BY <1>2, <1>3, NodeAssumption
    <3>2. Held(mm) = ((L + 1) - 1) * NodeRoom + Len(mm[L + 1])
      BY <1>2, <1>4 DEF Held
    <3> DEFINE x == L * NodeRoom
    <3> HIDE DEF x
    <3>3. x \in Nat /\ Held(mm) = x + 0
      BY <3>1, <3>2 DEF x
    <3> QED
      BY <3>3 DEF x
  <2>2. CASE ns = <<>>
    <3>1. L = 0
      BY <2>2
    <3>2. L * NodeRoom = 0
      BY <3>1, NodeAssumption
    <3>3. Held(ns) = 0
      BY <2>2, Zenon DEF Held
    <3> QED
      BY <2>1, <3>2, <3>3, Zenon
  <2>3. CASE ns # <<>>
    <3>1. Held(ns) = (L - 1) * NodeRoom + NodeRoom
      BY <2>3 DEF Held
    <3>2. (L - 1) * NodeRoom + NodeRoom = L * NodeRoom
      BY <1>2, NodeAssumption
    <3> QED
      BY <2>1, <3>1, <3>2
  <2> QED
    BY <2>2, <2>3
<1>7. ASSUME NEW i \in 1..Held(ns)
      PROVE  NodeIn(mm, i) = NodeIn(ns, i)
  <2>1. Where(i)[1] \in 1..L
    BY NodeAt
  <2> QED
    BY <1>3, <2>1 DEF NodeIn
<1> QED
  BY <1>2, <1>3, <1>4, <1>5, <1>6, <1>7 DEF mm

-----------------------------------------------------------------------------
(***************************************************************************)
(* What the directory sees: the first n nodes with the names that can be   *)
(* read of them.                                                           *)
(***************************************************************************)
Entries == [name : Names \union {Null}, bind : SUBSET BindAny]
Entry(ns, ss, i) == [name |-> NameIn(ss, NodeIn(ns, i).name), bind |-> NodeIn(ns, i).bind]
Table(ns, ss, n) == [i \in 1..n |-> Entry(ns, ss, i)]
Named == IF stage = "name" THEN Count - 1 ELSE Count

\* Every name that a node has lies in the pool.
Spelling(ns, ss) ==
  \A p \in 1..Len(ns) : \A k \in 1..Len(ns[p]) :
    ns[p][k].name # Null => \E name \in Names : Lies(ss, ns[p][k].name, name)

\* The state's own operators are those of the pages and the pool.
LEMMA SymbolsTable ==
  /\ Symbols = Table(nodes, strings, Named)
  /\ Symbols' = Table(nodes', strings', Named')
<1>1. \A i : Node(i) = NodeIn(nodes, i) /\ Node(i)' = NodeIn(nodes', i)
  BY SMT DEF Node, NodeIn, Where
<1>2. \A ptr : NameAt(ptr) = NameIn(strings, ptr)
  BY Zenon DEF NameAt, NameIn, Spelled, SpelledIn, CharAt, CharIn
<1>3. \A ptr : NameAt(ptr)' = NameIn(strings', ptr)
  BY Zenon DEF NameAt, NameIn, Spelled, SpelledIn, CharAt, CharIn
<1>4. Symbols = Table(nodes, strings, Named)
  BY <1>1, <1>2, Zenon DEF Symbols, Table, Entry, Named
<1>5. Symbols' = Table(nodes', strings', Named')
  BY <1>1, <1>3, Zenon DEF Symbols, Table, Entry, Named
<1> QED
  BY <1>4, <1>5

\* The count of nodes, before and after a step.
LEMMA CountHeld == Count = Held(nodes) /\ Count' = Held(nodes')
  BY Zenon DEF Count, Held

\* The i-th node is that of the pages.
LEMMA NodeNodeIn == ASSUME NEW i PROVE Node(i) = NodeIn(nodes, i)
  BY Zenon DEF Node, NodeIn, Where

\* A node's name is none or lies in the pool.
LEMMA NodeName ==
  ASSUME NEW ns, NEW ss, Full(ns), Spelling(ns, ss), NEW i \in 1..Held(ns)
  PROVE  \/ NodeIn(ns, i).name = Null /\ NameIn(ss, NodeIn(ns, i).name) = Null
         \/ \E name \in Names : /\ Lies(ss, NodeIn(ns, i).name, name)
                                /\ NodeIn(ns, i).name # Null
                                /\ NameIn(ss, NodeIn(ns, i).name) = name
<1> DEFINE ptr == NodeIn(ns, i).name
<1>1. CASE ptr = Null
  BY <1>1, Zenon DEF NameIn
<1>2. CASE ptr # Null
  <2>1. Where(i)[1] \in 1..Len(ns) /\ Where(i)[2] \in 1..Len(ns[Where(i)[1]])
    BY NodeAt
  <2>2. PICK name \in Names : Lies(ss, ptr, name)
    BY <1>2, <2>1, Zenon DEF Spelling, NodeIn
  <2>3. ptr \in Pointers /\ SpelledIn(ss, ptr, name)
    BY <2>2, Zenon DEF Lies
  <2> HIDE DEF ptr
  <2>4. NameIn(ss, ptr) = name
    BY <2>3, NameRead, Zenon
  <2> QED
    BY <1>2, <2>2, <2>4, Zenon DEF ptr
<1> QED
  BY <1>1, <1>2, Zenon

\* The directory's symbols are symbols.
LEMMA TableSeq ==
  ASSUME NEW ns, NEW ss, Full(ns), Spelling(ns, ss), NEW n \in 0..Held(ns)
  PROVE  /\ Table(ns, ss, n) \in Seq(Entries) /\ Len(Table(ns, ss, n)) = n
         /\ DOMAIN Table(ns, ss, n) = 1..n
         /\ \A i \in 1..n : Table(ns, ss, n)[i] = Entry(ns, ss, i)
<1>1. Held(ns) \in Nat /\ n \in Nat
  BY HeldNat
<1>2. ASSUME NEW i \in 1..n
      PROVE  Entry(ns, ss, i) \in Entries
  <2>1. i \in 1..Held(ns)
    BY <1>1
  <2>2. NodeIn(ns, i) \in NodeSet
    BY <2>1, NodeAt
  <2>3. NodeIn(ns, i).bind \in SUBSET BindAny
    BY <2>2, Zenon DEF NodeSet
  <2>4. NameIn(ss, NodeIn(ns, i).name) \in Names \union {Null}
    BY <2>1, NodeName, Zenon
  <2> QED
    BY <2>3, <2>4, Zenon DEF Entry, Entries
<1> DEFINE T == [i \in 1..n |-> Entry(ns, ss, i)]
           E(i) == Entry(ns, ss, i)
<1>3. \A i \in 1..n : E(i) \in Entries
  BY <1>2
<1> HIDE DEF E
<1>4. [i \in 1..n |-> E(i)] \in Seq(Entries) /\ Len([i \in 1..n |-> E(i)]) = n
  <2> HIDE DEF Entries
  <2> QED
    BY <1>1, <1>3
<1> QED
  BY <1>4, Zenon DEF E, Table

\* The first n nodes, or their entries, are the same.
Stay(mm, ns, n) == \A i \in 1..n : i \in 1..Held(ns) /\ NodeIn(mm, i) = NodeIn(ns, i)
SameEntries(mm, tt, ns, ss, n) == \A i \in 1..n : Entry(mm, tt, i) = Entry(ns, ss, i)

\* A table of nodes that stay, with a pool that keeps what is used of it, stays.
LEMMA TableKept ==
  ASSUME NEW ns, NEW mm, NEW ss, NEW tt, NEW n \in Nat, Full(ns), Spelling(ns, ss), Keeps(ss, tt),
         Stay(mm, ns, n)
  PROVE  SameEntries(mm, tt, ns, ss, n)
<1> SUFFICES ASSUME NEW i \in 1..n PROVE Entry(mm, tt, i) = Entry(ns, ss, i)
  BY Zenon DEF SameEntries
<1> DEFINE ptr == NodeIn(ns, i).name
<1>1. i \in 1..Held(ns) /\ NodeIn(mm, i) = NodeIn(ns, i)
  BY Zenon DEF Stay
<1>2. NameIn(tt, ptr) = NameIn(ss, ptr)
  <2>1. CASE ptr = Null
    BY <2>1, Zenon DEF NameIn
  <2>2. ASSUME NEW name \in Names, Lies(ss, ptr, name), NameIn(ss, ptr) = name
        PROVE  NameIn(tt, ptr) = NameIn(ss, ptr)
    <3> HIDE DEF ptr
    <3>1. Lies(tt, ptr, name)
      BY <2>2, LiesOn, Zenon
    <3>2. ptr \in Pointers /\ SpelledIn(tt, ptr, name)
      BY <3>1, Zenon DEF Lies
    <3> QED
      BY <2>2, <3>2, NameRead, Zenon
  <2> QED
    BY <1>1, <2>1, <2>2, NodeName, Zenon
<1> QED
  BY <1>1, <1>2, Zenon DEF Entry

\* The spelling stays too.
LEMMA SpellingOn ==
  ASSUME NEW ns, NEW ss, NEW tt, Spelling(ns, ss), Keeps(ss, tt)
  PROVE  Spelling(ns, tt)
<1> SUFFICES ASSUME NEW p \in 1..Len(ns), NEW k \in 1..Len(ns[p]), ns[p][k].name # Null
             PROVE  \E name \in Names : Lies(tt, ns[p][k].name, name)
  BY Zenon DEF Spelling
<1>1. PICK name \in Names : Lies(ss, ns[p][k].name, name)
  BY Zenon DEF Spelling
<1> QED
  BY <1>1, LiesOn, Zenon

\* A table with one entry more.
LEMMA TableAppend ==
  ASSUME NEW ns, NEW ss, NEW mm, NEW tt, NEW n \in Nat,
         Full(ns), Spelling(ns, ss), n <= Held(ns),
         \A i \in 1..n : Entry(mm, tt, i) = Entry(ns, ss, i)
  PROVE  Table(mm, tt, n + 1) = Append(Table(ns, ss, n), Entry(mm, tt, n + 1))
<1> DEFINE T == Table(ns, ss, n)
           E(i) == Entry(mm, tt, i)
           x == E(n + 1)
<1>1. n \in 0..Held(ns)
  BY HeldNat
<1>2. /\ T \in Seq(Entries) /\ Len(T) = n
      /\ \A i \in 1..n : T[i] = Entry(ns, ss, i)
  BY <1>1, TableSeq, Zenon
<1>3. \A i \in 1..n : T[i] = E(i)
  BY <1>2
<1> HIDE DEF T, E, x
<1>4. Append(T, x) = [i \in 1..(n + 1) |-> IF i = n + 1 THEN x ELSE T[i]]
  <2> DEFINE S == Entries \union {x}
  <2>1. T \in Seq(S) /\ x \in S
    <3> HIDE DEF Entries
    <3> QED
      BY <1>2
  <2> HIDE DEF S
  <2>2. Append(T, x) \in Seq(S) /\ Len(Append(T, x)) = n + 1 /\ Append(T, x)[n + 1] = x
    BY <1>2, <2>1
  <2>3. \A i \in 1..n : Append(T, x)[i] = T[i]
    BY <1>2, <2>1
  <2> DEFINE U == Append(T, x)
  <2>4. U = [i \in 1..(n + 1) |-> U[i]]
    <3>1. U \in Seq(S) /\ Len(U) = n + 1
      BY <2>2
    <3> HIDE DEF U
    <3> QED
      BY <3>1
  <2>5. \A i \in 1..(n + 1) : Append(T, x)[i] = IF i = n + 1 THEN x ELSE T[i]
    BY <2>2, <2>3
  <2> QED
    BY <2>4, <2>5, Zenon
<1>5. \A i \in 1..(n + 1) : (IF i = n + 1 THEN x ELSE T[i]) = E(i)
  BY <1>3 DEF x
<1>6. Append(T, x) = [i \in 1..(n + 1) |-> E(i)]
  BY <1>4, <1>5, Zenon
<1> QED
  BY <1>6, Zenon DEF T, E, x, Table

-----------------------------------------------------------------------------
(***************************************************************************)
(* The pool of characters as it grows.                                     *)
(***************************************************************************)
PoolSound(ss) == ss \in Seq(PageSet) /\ \A p \in 1..Len(ss) : Sound(ss[p])

\* A pool keeps itself.
LEMMA KeepsSelf ==
  ASSUME NEW ss, PoolSound(ss)
  PROVE  Len(ss) \in Nat /\ Keeps(ss, ss)
<1>1. Len(ss) \in Nat
  BY DEF PoolSound
<1>2. \A p \in 1..Len(ss) : ss[p].used \in Nat
  BY PageFields, Zenon DEF PoolSound, Sound
<1>3. \A p \in 1..Len(ss) : ss[p].used <= ss[p].used
  BY <1>2
<1>4. ASSUME NEW p \in 1..Len(ss) PROVE DOMAIN ss[p].text \subseteq Nat
  <2>1. PICK n \in Nat : ss[p].text \in [0..(n - 1) -> Chars]
    BY PageFields, Zenon DEF PoolSound, Sound
  <2>2. DOMAIN ss[p].text = 0..(n - 1)
    BY <2>1, Zenon
  <2> QED
    BY <2>2
<1> QED
  BY <1>1, <1>2, <1>3, <1>4 DEF Keeps

\* What is kept twice is kept.
LEMMA KeepsOn ==
  ASSUME NEW ss, NEW tt, NEW uu, Keeps(ss, tt), Keeps(tt, uu)
  PROVE  Keeps(ss, uu)
<1>1. Len(ss) \in Nat /\ Len(tt) \in Nat /\ Len(uu) \in Nat
      /\ Len(ss) <= Len(tt) /\ Len(tt) <= Len(uu)
  BY Zenon DEF Keeps
<1>2. ASSUME NEW p \in 1..Len(ss)
      PROVE  /\ DOMAIN uu[p].text = DOMAIN ss[p].text /\ DOMAIN ss[p].text \subseteq Nat
             /\ ss[p].used \in Nat /\ uu[p].used \in Nat /\ ss[p].used <= uu[p].used
             /\ \A c \in DOMAIN ss[p].text :
                  c < ss[p].used => uu[p].text[c] = ss[p].text[c]
  <2>1. p \in 1..Len(tt)
    BY <1>1
  <2>2. /\ DOMAIN tt[p].text = DOMAIN ss[p].text /\ DOMAIN ss[p].text \subseteq Nat
        /\ ss[p].used \in Nat /\ tt[p].used \in Nat /\ ss[p].used <= tt[p].used
        /\ \A c \in DOMAIN ss[p].text : c < ss[p].used => tt[p].text[c] = ss[p].text[c]
    BY Zenon DEF Keeps
  <2>3. /\ DOMAIN uu[p].text = DOMAIN tt[p].text
        /\ uu[p].used \in Nat /\ tt[p].used <= uu[p].used
        /\ \A c \in DOMAIN tt[p].text : c < tt[p].used => uu[p].text[c] = tt[p].text[c]
    BY <2>1, Zenon DEF Keeps
  <2>4. ss[p].used <= uu[p].used
    BY <2>2, <2>3
  <2>5. ASSUME NEW c \in DOMAIN ss[p].text, c < ss[p].used
        PROVE  uu[p].text[c] = ss[p].text[c]
    <3>1. tt[p].text[c] = ss[p].text[c] /\ c \in DOMAIN tt[p].text
      BY <2>2, <2>5, Zenon
    <3>2. c < tt[p].used
      <4>1. c \in Int
        BY <2>2, <2>5
      <4> QED
        BY <2>2, <2>5, <4>1
    <3> QED
      BY <2>3, <3>1, <3>2, Zenon
  <2> QED
    BY <2>2, <2>3, <2>4, <2>5, Zenon
<1> QED
  BY <1>1, <1>2 DEF Keeps

\* A page behind the others.
LEMMA AnotherStrings ==
  ASSUME NEW ss, PoolSound(ss), NEW page, Sound(page)
  PROVE  LET tt == Append(ss, page) IN
         /\ PoolSound(tt) /\ Len(tt) = Len(ss) + 1 /\ Keeps(ss, tt)
<1> DEFINE tt == Append(ss, page)
<1>1. page \in PageSet
  BY Zenon DEF Sound
<1>2. /\ tt \in Seq(PageSet) /\ Len(tt) = Len(ss) + 1 /\ Len(ss) \in Nat
      /\ tt[Len(ss) + 1] = page /\ \A p \in 1..Len(ss) : tt[p] = ss[p]
  <2> HIDE DEF PageSet
  <2> QED
    BY <1>1 DEF PoolSound
<1> HIDE DEF tt
<1>3. \A p \in 1..Len(tt) : Sound(tt[p])
  <2> SUFFICES ASSUME NEW p \in 1..Len(tt) PROVE Sound(tt[p])
    OBVIOUS
  <2>1. p \in 1..Len(ss) \/ p = Len(ss) + 1
    BY <1>2
  <2> QED
    BY <1>2, <2>1, Zenon DEF PoolSound
<1>4. Len(ss) <= Len(tt)
  BY <1>2
<1>5. Keeps(ss, ss)
  BY KeepsSelf
<1>6. Keeps(ss, tt)
  BY <1>2, <1>4, <1>5 DEF Keeps
<1> QED
  BY <1>2, <1>3, <1>6 DEF tt, PoolSound

\* A name is copied to a page that holds it.
LEMMA CopyTo ==
  ASSUME NEW ss, PoolSound(ss), NEW p \in 1..Len(ss), NEW name \in Names, Holds(ss[p], name),
         NEW tt, tt = [ss EXCEPT ![p] = Copied(ss[p], name)]
  PROVE  /\ PoolSound(tt) /\ Len(tt) = Len(ss) /\ Keeps(ss, tt)
         /\ Lies(tt, [page |-> p, at |-> ss[p].used], name)
<1> DEFINE new == Copied(ss[p], name)
           ptr == [page |-> p, at |-> ss[p].used]
<1>1. name \in Seq(STRING) /\ ss[p] \in PageSet /\ Len(name) \in Nat
  BY NameSeq, Zenon DEF PoolSound, Sound
<1>2. /\ Sound(new)
      /\ DOMAIN new.text = DOMAIN ss[p].text
      /\ new.used > ss[p].used + Len(name)
      /\ \A c \in DOMAIN ss[p].text : c < ss[p].used => new.text[c] = ss[p].text[c]
      /\ \A k \in 1..(Len(name) + 1) :
           /\ ss[p].used + (k - 1) \in DOMAIN ss[p].text
           /\ new.text[ss[p].used + (k - 1)] = Written(name)[k]
  BY <1>1, CopiedSound, Zenon
<1>a. tt = [ss EXCEPT ![p] = new]
  OBVIOUS
<1> HIDE DEF new
<1>3. new \in PageSet /\ new.used \in Nat /\ ss[p].used \in Nat
  BY <1>1, <1>2, PageFields, Zenon DEF Sound
<1>4. /\ tt \in Seq(PageSet) /\ Len(tt) = Len(ss) /\ Len(ss) \in Nat
      /\ tt[p] = new /\ \A q \in 1..Len(ss) : q # p => tt[q] = ss[q]
  <2> HIDE DEF PageSet
  <2> QED
    BY <1>a, <1>3 DEF PoolSound
<1>5. PoolSound(tt)
  <2> SUFFICES ASSUME NEW q \in 1..Len(ss) PROVE Sound(tt[q])
    BY <1>4 DEF PoolSound
  <2> QED
    BY <1>2, <1>4, Zenon DEF PoolSound
<1>6. Keeps(ss, tt)
  <2>1. Keeps(ss, ss) /\ Len(ss) <= Len(tt)
    BY <1>4, KeepsSelf
  <2>2. ASSUME NEW q \in 1..Len(ss)
        PROVE  /\ DOMAIN tt[q].text = DOMAIN ss[q].text /\ DOMAIN ss[q].text \subseteq Nat
               /\ ss[q].used \in Nat /\ tt[q].used \in Nat /\ ss[q].used <= tt[q].used
               /\ \A c \in DOMAIN ss[q].text :
                    c < ss[q].used => tt[q].text[c] = ss[q].text[c]
    <3>1. CASE q = p
      <4>1. ss[p].used <= new.used
        BY <1>1, <1>2, <1>3
      <4> QED
        BY <1>2, <1>3, <1>4, <2>1, <3>1, <4>1, Zenon DEF Keeps
    <3>2. CASE q # p
      BY <1>4, <2>1, <3>2, Zenon DEF Keeps
    <3> QED
      BY <3>1, <3>2, Zenon
  <2> QED
    BY <1>4, <2>1, <2>2, Zenon DEF Keeps
<1>7. SpelledIn(tt, ptr, name)
  <2> SUFFICES ASSUME NEW k \in 1..(Len(name) + 1)
               PROVE  CharIn(tt, ptr, k - 1) = Written(name)[k]
    BY Zenon DEF SpelledIn
  <2>1. ptr.page = p /\ ptr.at = ss[p].used
    OBVIOUS
  <2> HIDE DEF ptr
  <2>2. /\ ptr.at + (k - 1) \in DOMAIN tt[ptr.page].text
        /\ tt[ptr.page].text[ptr.at + (k - 1)] = Written(name)[k]
    BY <1>2, <1>4, <2>1, Zenon
  <2> QED
    BY <2>2, Zenon DEF CharIn
<1>8. ptr.at + Len(name) < tt[p].used
  BY <1>1, <1>2, <1>3, <1>4
<1>9. ptr \in Pointers
  BY <1>3, <1>4 DEF Pointers
<1>10. Lies(tt, ptr, name)
  <2>1. ptr.page = p
    OBVIOUS
  <2> HIDE DEF ptr
  <2> QED
    BY <1>4, <1>7, <1>8, <1>9, <2>1, Zenon DEF Lies
<1> QED
  BY <1>4, <1>5, <1>6, <1>10, Zenon DEF ptr

-----------------------------------------------------------------------------
(***************************************************************************)
(* The inductive invariant.  A node that make_symbol() has yet to name is  *)
(* the last of the last page; every other node's name lies in the pool,    *)
(* before what the next name takes; a search has passed no node that it    *)
(* should have returned.                                                   *)
(***************************************************************************)
Currents == current \in [node : {0, Len(nodes)}, char : {0, Len(strings)}]

Calls == /\ request \in Requests \union {Null}
         /\ stage \in {"idle", "node", "name", "walk"}
         /\ request = Null <=> stage = "idle"
         /\ stage \in {"node", "name"} => request.op = "make"
         /\ stage = "walk" => request.op = "find"
         /\ iter \in Nat \X Nat /\ reply \in Nat \X Nat

NodePages ==
  /\ stage # "node" => \A p \in 1..Len(nodes) : nodes[p] # <<>>
  /\ current.node = 0 /\ nodes # <<>> => Len(nodes[Len(nodes)]) = NodeRoom
  /\ stage = "name" => /\ current.node # 0
                       /\ nodes[current.node][Len(nodes[current.node])].name = Null

\* The node is what the request r asks for, with the pool ss.
MatchesIn(ss, r, node) ==
  /\ node.name # Null
  /\ CharIn(ss, node.name, 0) # Nul
  /\ SpelledIn(ss, node.name, r.name)
  /\ r.bind = BindAny \/ r.bind \subseteq node.bind

Passed ==
  stage = "walk" =>
    /\ iter # NoNode =>
         /\ iter[1] \in 1..Len(nodes) /\ iter[2] \in 1..Len(nodes[iter[1]])
         /\ request.name \in Names \ {<<>>}
         /\ \A j \in 1..(Position(iter) - 1) : ~MatchesIn(strings, request, NodeIn(nodes, j))
    /\ iter = NoNode =>
         \/ request.name \in {Null, <<>>}
         \/ \A j \in 1..Held(nodes) : ~MatchesIn(strings, request, NodeIn(nodes, j))

IInv == /\ Full(nodes) /\ PoolSound(strings)
        /\ Spelling(nodes, strings)
        /\ Currents /\ Calls /\ NodePages /\ Passed

\* What a call asks for.
LEMMA RequestFields ==
  ASSUME NEW r \in Requests
  PROVE  /\ r # Null /\ r.op \in {"make", "find"}
         /\ r.name \in Names \union {Null} /\ r.bind \in SUBSET BindAny
<1>1. r # Null
  BY NullAssumption, Zenon
<1>2. r.op \in {"make", "find"} /\ r.name \in Names \union {Null} /\ r.bind \in Binds
  BY Zenon DEF Requests
<1> QED
  BY <1>1, <1>2, BindsAssumption, Zenon

\* A page has room for a reservation.
LEMMA CapacityReserves == ReserveMin \in Nat \ {0} /\ ReserveMin <= Capacity
<1> DEFINE a == PageSize \div ReserveMin
           b == HeadSize \div ReserveMin
<1>1. /\ ReserveMin \in Nat \ {0} /\ PageSize \in Nat /\ HeadSize \in Nat /\ HeadSize < PageSize
      /\ PageSize % ReserveMin = 0 /\ HeadSize % ReserveMin = 0
  BY StringAssumption
<1>2. a \in Nat /\ PageSize = a * ReserveMin
  BY <1>1
<1>3. b \in Nat /\ HeadSize = b * ReserveMin
  BY <1>1
<1> HIDE DEF a, b
<1>4. CASE a <= b
  <2>1. a * ReserveMin <= b * ReserveMin
    BY <1>1, <1>2, <1>3, <1>4
  <2> QED
    BY <1>1, <1>2, <1>3, <2>1
<1>5. CASE b + 1 <= a
  <2>1. b * ReserveMin + ReserveMin <= a * ReserveMin
    BY <1>1, <1>2, <1>3, <1>5
  <2>2. HeadSize + ReserveMin <= PageSize
    BY <1>2, <1>3, <2>1
  <2> QED
    BY <1>1, <2>2 DEF Capacity
<1> QED
  BY <1>2, <1>3, <1>4, <1>5

\* The page that string_table_t begins with holds the name it begins with.
LEMMA FirstPage ==
  Sound([Copied(NewPage(2), <<>>) EXCEPT !.text[1] = Nul])
<1> DEFINE page == NewPage(2)
           new == Copied(page, <<>>)
           first == [new EXCEPT !.text[1] = Nul]
<1>1. /\ Sound(page) /\ page.used = 0
      /\ PageChars(2) \in Nat /\ PageChars(2) >= Capacity
      /\ page.text \in [0..(PageChars(2) - 1) -> Chars]
  BY NewPageSound
<1>2. ReserveMin \in Nat \ {0} /\ ReserveMin <= Capacity
  BY CapacityReserves
<1>3. <<>> \in Seq(STRING) /\ Len(<<>>) = 0
  OBVIOUS
<1>4. Space(<<>>) = ReserveMin
  <2>1. (0 + 1) + ReserveMin - 1 = 1 * ReserveMin + 0
    BY <1>2
  <2>2. ((0 + 1) + ReserveMin - 1) \div ReserveMin = 1
    BY <1>2, <2>1, Quotient
  <2>3. Space(<<>>) = (((0 + 1) + ReserveMin - 1) \div ReserveMin) * ReserveMin
    BY <1>3 DEF Space, RoundUp
  <2> QED
    BY <1>2, <2>2, <2>3
<1> HIDE DEF page
<1>5. Holds(page, <<>>)
  <2>1. Capacity \in Nat
    BY StringAssumption DEF Capacity
  <2>2. DOMAIN page.text = 0..(PageChars(2) - 1)
    BY <1>1, Zenon
  <2>3. \A c \in 0..(ReserveMin - 1) : 0 + c \in 0..(PageChars(2) - 1)
    BY <1>1, <1>2, <2>1
  <2> QED
    BY <1>1, <1>4, <2>2, <2>3, Zenon DEF Holds
<1>6. Sound(new)
  BY <1>1, <1>3, <1>5, CopiedSound, Zenon DEF Sound
<1> HIDE DEF new
<1>7. PICK n \in Nat : new.text \in [0..(n - 1) -> Chars]
  BY <1>6, PageFields, Zenon DEF Sound
<1>8. first = [used |-> new.used, text |-> [new.text EXCEPT ![1] = Nul]]
  <2>1. new = [used |-> new.used, text |-> new.text]
    BY <1>6, PageFields, Zenon DEF Sound
  <2> QED
    BY <2>1, SMT
<1>9. [new.text EXCEPT ![1] = Nul] \in [0..(n - 1) -> Chars]
  BY <1>7, Zenon DEF Chars
<1>10. first.used = new.used /\ first.text \in [0..(n - 1) -> Chars]
       /\ DOMAIN first.text = DOMAIN new.text
  BY <1>7, <1>8, <1>9, Zenon
<1>11. first.text \in Texts /\ new.used \in Nat
  BY <1>6, <1>10, PageFields, Zenon DEF Texts, Sound
<1>12. first \in PageSet
  <2>1. first = [used |-> first.used, text |-> first.text]
    BY <1>8, Zenon
  <2> HIDE DEF first
  <2> QED
    BY <1>10, <1>11, <2>1, SMT DEF PageSet
<1> HIDE DEF first
<1>13. Sound(first)
  BY <1>6, <1>10, <1>12, Zenon DEF Sound
<1> QED
  BY <1>13 DEF first, new, page

\* An empty table satisfies the invariant.
LEMMA InitInv == Init => IInv
<1> SUFFICES ASSUME Init PROVE IInv
  OBVIOUS
<1> DEFINE first == [Copied(NewPage(2), <<>>) EXCEPT !.text[1] = Nul]
<1>1. Sound(first)
  BY FirstPage, Zenon
<1>2. nodes = <<>> /\ strings = <<first>> /\ current = [node |-> 0, char |-> 1]
      /\ request = Null /\ stage = "idle" /\ iter = NoNode /\ reply = NoNode
  BY Zenon DEF Init
<1> HIDE DEF first
<1>3. Full(nodes) /\ Len(nodes) = 0
  BY <1>2 DEF Full
<1>4. PoolSound(strings) /\ Len(strings) = 1
  <2>1. first \in PageSet
    BY <1>1, Zenon DEF Sound
  <2>2. strings \in Seq(PageSet) /\ Len(strings) = 1 /\ strings[1] = first
    <3> HIDE DEF PageSet
    <3> QED
      BY <1>2, <2>1
  <2> QED
    BY <1>1, <2>2 DEF PoolSound
<1>5. Spelling(nodes, strings)
  BY <1>3 DEF Spelling
<1>6. Currents
  BY <1>2, <1>3, <1>4 DEF Currents
<1>7. Calls
  BY <1>2 DEF Calls, NoNode
<1>8. NodePages
  BY <1>2, <1>3 DEF NodePages
<1>9. Passed
  BY <1>2 DEF Passed
<1> QED
  BY <1>3, <1>4, <1>5, <1>6, <1>7, <1>8, <1>9, Zenon DEF IInv

\* What a search looks for, by the strings and the call.
LEMMA MatchesIs == \A node : Matches(node) <=> MatchesIn(strings, request, node)
  BY Zenon DEF Matches, MatchesIn, CharAt, CharIn, Spelled, SpelledIn

\* Calls and searches change neither pages nor pool.
LEMMA QuietKeeps ==
  ASSUME IInv, UNCHANGED <<nodes, strings, current>>
  PROVE  /\ Full(nodes') /\ PoolSound(strings') /\ Spelling(nodes', strings')
         /\ Currents'
<1>1. nodes' = nodes /\ strings' = strings /\ current' = current
  OBVIOUS
<1>2. Full(nodes) /\ PoolSound(strings) /\ Spelling(nodes, strings) /\ Currents
  BY Zenon DEF IInv
<1>3. Full(nodes') /\ PoolSound(strings') /\ Spelling(nodes', strings')
  BY <1>1, <1>2, Zenon
<1>4. Currents'
  BY <1>1, <1>2, Zenon DEF Currents
<1> QED
  BY <1>3, <1>4

\* A call of make_symbol() begins.
LEMMA CallMakeInv ==
  ASSUME IInv, NEW name \in Names \union {Null}, NEW bind \in Binds, CallMake(name, bind)
  PROVE  IInv'
<1> DEFINE r == [op |-> "make", name |-> name, bind |-> bind]
<1>1. /\ request' = r /\ stage' = "node" /\ iter' = iter /\ reply' = reply
      /\ UNCHANGED <<nodes, strings, current>>
  BY Zenon DEF CallMake
<1>2. r \in Requests /\ r.op = "make"
  BY Zenon DEF Requests
<1> HIDE DEF r
<1>3. r # Null
  BY <1>2, RequestFields, Zenon
<1>4. Calls'
  BY <1>1, <1>2, <1>3, Zenon DEF Calls, IInv
<1>5. NodePages'
  BY <1>1, Zenon DEF NodePages, IInv
<1>6. Passed'
  BY <1>1, Zenon DEF Passed
<1> QED
  BY <1>1, <1>4, <1>5, <1>6, QuietKeeps, Zenon DEF IInv

\* A call of find_symbol() begins, at the first node or at none.
LEMMA CallFindInv ==
  ASSUME IInv, NEW name \in Names \union {Null}, NEW bind \in Binds, CallFind(name, bind)
  PROVE  IInv'
<1> DEFINE r == [op |-> "find", name |-> name, bind |-> bind]
<1>1. /\ request' = r /\ stage' = "walk" /\ reply' = reply
      /\ iter' = IF name \in {Null, <<>>} THEN NoNode ELSE Begin
      /\ UNCHANGED <<nodes, strings, current>>
      /\ request = Null
  BY Zenon DEF CallFind
<1>2. r \in Requests /\ r.op = "find" /\ r.name = name
  BY Zenon DEF Requests
<1> HIDE DEF r
<1>3. r # Null
  BY <1>2, RequestFields, Zenon
<1>4. Begin \in {NoNode, <<1, 1>>} /\ (Begin = NoNode => nodes = <<>>)
  BY DEF Begin, NoNode
<1>5. iter' \in Nat \X Nat
  BY <1>1, <1>4 DEF NoNode
<1>6. Calls'
  BY <1>1, <1>2, <1>3, <1>5, Zenon DEF Calls, IInv
<1>7. stage = "idle" /\ (\A p \in 1..Len(nodes) : nodes[p] # <<>>) /\ Full(nodes)
  BY <1>1, Zenon DEF IInv, Calls, NodePages
<1>8. NodePages'
  BY <1>1, <1>7, Zenon DEF NodePages, IInv
<1>9. Passed'
  <2>1. ASSUME iter' # NoNode
        PROVE  /\ iter'[1] \in 1..Len(nodes') /\ iter'[2] \in 1..Len(nodes'[iter'[1]])
               /\ request'.name \in Names \ {<<>>}
               /\ Position(iter') - 1 = 0
    <3>1. iter' = <<1, 1>> /\ nodes # <<>> /\ name \notin {Null, <<>>}
      <4>1. name \notin {Null, <<>>} /\ iter' = Begin
        BY <1>1, <2>1, Zenon
      <4> QED
        BY <2>1, <4>1 DEF Begin, NoNode
    <3>2. 1 \in 1..Len(nodes)
      BY <1>7, <3>1 DEF Full
    <3>3. nodes[1] # <<>> /\ nodes[1] \in Seq(NodeSet)
      BY <1>7, <3>2, PageSeq, Zenon
    <3>4. 1 \in 1..Len(nodes[1])
      BY <3>3
    <3>5. Position(<<1, 1>>) - 1 = 0
      BY NodeAssumption DEF Position
    <3> QED
      BY <1>1, <1>2, <3>1, <3>2, <3>4, <3>5
  <2>2. ASSUME iter' = NoNode, name \notin {Null, <<>>}
        PROVE  Held(nodes') = 0
    <3>1. nodes = <<>>
      BY <1>1, <1>4, <2>2, Zenon
    <3> QED
      BY <1>1, <3>1, Zenon DEF Held
  <2>3. ASSUME iter' # NoNode, NEW j \in 1..(Position(iter') - 1)
        PROVE  FALSE
    BY <2>1, <2>3
  <2>4. ASSUME iter' = NoNode, name \notin {Null, <<>>}, NEW j \in 1..Held(nodes')
        PROVE  FALSE
    BY <2>2, <2>4
  <2>5. request'.name = name
    BY <1>1, <1>2, Zenon
  <2>6. Position(iter)' = Position(iter')
    BY DEF Position
  <2> QED
    BY <2>1, <2>3, <2>4, <2>5, <2>6, Zenon DEF Passed
<1> QED
  BY <1>1, <1>6, <1>8, <1>9, QuietKeeps, Zenon DEF IInv

\* A search ends with a node or with none.
LEMMA ReturnInv ==
  ASSUME IInv, NEW it \in Nat \X Nat, stage = "walk", Return(it),
         UNCHANGED <<nodes, strings, current>>
  PROVE  IInv'
<1>1. request' = Null /\ stage' = "idle" /\ iter' = NoNode /\ reply' = it
      /\ UNCHANGED <<nodes, strings, current>>
  BY Zenon DEF Return
<1>2. Calls'
  BY <1>1 DEF Calls, NoNode
<1>3. NodePages'
  BY <1>1, Zenon DEF NodePages, IInv
<1>4. Passed'
  BY <1>1, Zenon DEF Passed
<1> QED
  BY <1>1, <1>2, <1>3, <1>4, QuietKeeps, Zenon DEF IInv

\* The iterator is at a node as long as it is at any.
LEMMA DefinedIs ==
  ASSUME IInv, stage = "walk"
  PROVE  Defined(iter) <=> iter # NoNode
<1>1. CASE iter = NoNode
  BY <1>1 DEF Defined, NoNode
<1>2. CASE iter # NoNode
  <2>1. iter[1] \in 1..Len(nodes) /\ iter[2] \in 1..Len(nodes[iter[1]])
    BY <1>2, Zenon DEF IInv, Passed
  <2>2. nodes[iter[1]] \in Seq(NodeSet)
    BY <2>1, PageSeq, Zenon DEF IInv
  <2>3. iter[2] \in DOMAIN nodes[iter[1]] /\ iter[1] # 0
    BY <2>1, <2>2
  <2> QED
    BY <1>2, <2>3, Zenon DEF Defined
<1> QED
  BY <1>1, <1>2

\* advance() goes to the next node of all, over the end of a page.
LEMMA AdvanceNext ==
  ASSUME Full(nodes), \A p \in 1..Len(nodes) : nodes[p] # <<>>,
         NEW p \in 1..Len(nodes), NEW k \in 1..Len(nodes[p])
  PROVE  \/ \E q \in 1..Len(nodes) : \E l \in 1..Len(nodes[q]) :
              Advance(<<p, k>>) = <<q, l>> /\ Number(q, l) = Number(p, k) + 1
         \/ Advance(<<p, k>>) = NoNode /\ Number(p, k) = Held(nodes)
<1> DEFINE L == Len(nodes)
<1>1. /\ L \in Nat /\ p \in Nat \ {0} /\ nodes[p] \in Seq(NodeSet) /\ Len(nodes[p]) \in 0..NodeRoom
      /\ p < L => Len(nodes[p]) = NodeRoom
  BY PageSeq
<1>2. (p - 1) * NodeRoom \in Nat /\ NodeRoom \in Nat \ {0}
  BY <1>1, NodeAssumption
<1>3. CASE k < Len(nodes[p])
  <2>1. Advance(<<p, k>>) = <<p, k + 1>>
    BY <1>3 DEF Advance
  <2>2. k + 1 \in 1..Len(nodes[p])
    BY <1>1, <1>3
  <2>3. Number(p, k + 1) = Number(p, k) + 1
    <3> DEFINE x == (p - 1) * NodeRoom
    <3> HIDE DEF x
    <3>1. x \in Nat /\ k \in Nat
      BY <1>1, <1>2 DEF x
    <3>2. x + (k + 1) = (x + k) + 1
      BY <3>1
    <3> QED
      BY <3>2 DEF x, Number
  <2> QED
    BY <2>1, <2>2, <2>3, Zenon
<1>4. CASE k = Len(nodes[p])
  <2> DEFINE later == {q \in DOMAIN nodes : q > p /\ nodes[q] # <<>>}
  <2>1. Advance(<<p, k>>) = IF later = {} THEN NoNode
                            ELSE <<CHOOSE q \in later : \A r \in later : q <= r, 1>>
    BY <1>1, <1>4 DEF Advance
  <2>2. DOMAIN nodes = 1..L
    BY DEF Full
  <2>3. CASE p = L
    <3>1. later = {}
      BY <1>1, <2>2, <2>3
    <3>2. Held(nodes) = Number(p, k)
      BY <1>1, <1>4, <2>3 DEF Held, Number
    <3> QED
      BY <2>1, <3>1, <3>2
  <2>4. CASE p < L
    <3>1. p + 1 \in later /\ \A r \in later : p + 1 <= r
      BY <1>1, <2>2, <2>4
    <3>2. later # {} /\ \A q \in later : q \in Nat
      BY <1>1, <2>2, <3>1
    <3> HIDE DEF later
    <3> DEFINE c == CHOOSE q \in later : \A r \in later : q <= r
    <3>3. c \in later /\ \A r \in later : c <= r
      BY <3>1, Zenon
    <3>4. Advance(<<p, k>>) = <<c, 1>>
      BY <2>1, <3>2, Zenon
    <3> HIDE DEF c
    <3>5. c <= p + 1 /\ p + 1 <= c /\ c \in Nat
      BY <3>1, <3>2, <3>3, Zenon
    <3>6. c = p + 1
      BY <1>1, <3>5
    <3>7. p + 1 \in 1..L /\ 1 \in 1..Len(nodes[p + 1])
      <4>1. p + 1 \in 1..L
        BY <1>1, <2>4
      <4>2. nodes[p + 1] # <<>> /\ nodes[p + 1] \in Seq(NodeSet)
        BY <4>1, PageSeq, Zenon
      <4> QED
        BY <4>1, <4>2
    <3>8. Number(p + 1, 1) = Number(p, k) + 1
      <4>1. k = NodeRoom
        BY <1>1, <1>4, <2>4
      <4>2. (p + 1) - 1 = p /\ p * NodeRoom = (p - 1) * NodeRoom + NodeRoom
        BY <1>1, <1>2
      <4> QED
        BY <4>1, <4>2 DEF Number
    <3> QED
      BY <3>4, <3>6, <3>7, <3>8, Zenon
  <2> QED
    BY <1>1, <2>3, <2>4
<1> QED
  BY <1>1, <1>3, <1>4

\* A search goes on to the next node.
LEMMA StepInv ==
  ASSUME IInv, Step
  PROVE  IInv'
<1>1. /\ stage = "walk" /\ stage' = "walk" /\ iter' = Advance(iter)
      /\ request' = request /\ reply' = reply
      /\ UNCHANGED <<nodes, strings, current>>
      /\ ~Matches(nodes[iter[1]][iter[2]]) /\ Defined(iter)
  BY Zenon DEF Step
<1>2. /\ Full(nodes) /\ \A p \in 1..Len(nodes) : nodes[p] # <<>>
  BY <1>1, Zenon DEF IInv, NodePages
<1>3. iter # NoNode /\ iter \in Nat \X Nat
  BY <1>1, DefinedIs, Zenon DEF IInv, Calls
<1> DEFINE p == iter[1]
           k == iter[2]
<1>4. /\ p \in 1..Len(nodes) /\ k \in 1..Len(nodes[p]) /\ iter = <<p, k>>
      /\ request.name \in Names \ {<<>>}
      /\ \A j \in 1..(Position(iter) - 1) : ~MatchesIn(strings, request, NodeIn(nodes, j))
  <2>1. iter = <<p, k>>
    BY <1>3
  <2> QED
    BY <1>1, <1>3, <2>1, Zenon DEF IInv, Passed
<1>5. Position(iter) = Number(p, k)
  BY DEF Position, Number
<1>6. ~MatchesIn(strings, request, nodes[p][k])
  BY <1>1, MatchesIs, Zenon
<1> HIDE DEF p, k
<1>7. /\ Number(p, k) \in 1..Held(nodes) /\ NodeIn(nodes, Number(p, k)) = nodes[p][k]
      /\ Held(nodes) \in Nat
  BY <1>2, <1>4, NumberAt, HeldNat
<1>8. \A j \in 1..Number(p, k) : ~MatchesIn(strings, request, NodeIn(nodes, j))
  <2> SUFFICES ASSUME NEW j \in 1..Number(p, k)
               PROVE  ~MatchesIn(strings, request, NodeIn(nodes, j))
    OBVIOUS
  <2>1. j \in 1..(Number(p, k) - 1) \/ j = Number(p, k)
    BY <1>7
  <2> QED
    BY <1>4, <1>5, <1>6, <1>7, <2>1, Zenon
<1>9. /\ Advance(iter) \in Nat \X Nat
      /\ \/ \E q \in 1..Len(nodes) : \E l \in 1..Len(nodes[q]) :
              Advance(iter) = <<q, l>> /\ Number(q, l) = Number(p, k) + 1
         \/ Advance(iter) = NoNode /\ Number(p, k) = Held(nodes)
  <2>1. \/ \E q \in 1..Len(nodes) : \E l \in 1..Len(nodes[q]) :
              Advance(iter) = <<q, l>> /\ Number(q, l) = Number(p, k) + 1
        \/ Advance(iter) = NoNode /\ Number(p, k) = Held(nodes)
    BY <1>2, <1>4, AdvanceNext, Zenon
  <2>2. \A q \in 1..Len(nodes) : \A l \in 1..Len(nodes[q]) : <<q, l>> \in Nat \X Nat
    OBVIOUS
  <2>3. NoNode \in Nat \X Nat
    BY DEF NoNode
  <2> QED
    BY <2>1, <2>2, <2>3, Zenon
<1>10. Passed'
  <2>1. CASE Advance(iter) = NoNode /\ Number(p, k) = Held(nodes)
    BY <1>1, <1>8, <2>1, Zenon DEF Passed
  <2>2. ASSUME NEW q \in 1..Len(nodes), NEW l \in 1..Len(nodes[q]),
               Advance(iter) = <<q, l>>, Number(q, l) = Number(p, k) + 1
        PROVE  Passed'
    <3>1. iter'[1] = q /\ iter'[2] = l
      BY <1>1, <2>2
    <3>2. Position(iter') - 1 = Number(p, k)
      BY <1>7, <2>2, <3>1 DEF Position, Number
    <3>3. iter' # NoNode
      BY <1>1, <2>2 DEF NoNode
    <3>4. Position(iter)' = Position(iter')
      BY DEF Position
    <3> QED
      BY <1>1, <1>4, <1>8, <3>1, <3>2, <3>3, <3>4, Zenon DEF Passed
  <2> QED
    BY <1>9, <2>1, <2>2, Zenon
<1>11. Calls'
  BY <1>1, <1>9, Zenon DEF Calls, IInv
<1>12. NodePages'
  BY <1>1, Zenon DEF NodePages, IInv
<1> QED
  BY <1>1, <1>10, <1>11, <1>12, QuietKeeps, Zenon DEF IInv

\* The node that is yet to be named is the last of the last page.
LEMMA LastNode ==
  ASSUME IInv, stage = "name"
  PROVE  /\ current.node = Len(nodes) /\ Len(nodes) \in 1..Len(nodes) /\ nodes # <<>>
         /\ nodes[Len(nodes)] \in Seq(NodeSet) /\ Len(nodes[Len(nodes)]) \in 1..NodeRoom
         /\ nodes[Len(nodes)][Len(nodes[Len(nodes)])].name = Null
         /\ Held(nodes) = (Len(nodes) - 1) * NodeRoom + Len(nodes[Len(nodes)])
         /\ (Len(nodes) - 1) * NodeRoom \in Nat
<1>1. current.node # 0 /\ current.node \in {0, Len(nodes)}
  BY Zenon DEF IInv, NodePages, Currents
<1>2. Full(nodes) /\ Len(nodes) \in Nat /\ Len(nodes) # 0
  BY <1>1, HeldNat, Zenon DEF IInv
<1>3. Len(nodes) \in 1..Len(nodes)
  BY <1>2
<1>4. /\ nodes # <<>> /\ nodes[Len(nodes)] \in Seq(NodeSet)
      /\ Len(nodes[Len(nodes)]) \in 0..NodeRoom
  BY <1>2, <1>3, PageSeq, Zenon
<1>5. nodes[Len(nodes)] # <<>>
  BY <1>3, Zenon DEF IInv, NodePages
<1>6. Len(nodes[Len(nodes)]) \in 1..NodeRoom
  BY <1>4, <1>5, NodeAssumption
<1>7. nodes[Len(nodes)][Len(nodes[Len(nodes)])].name = Null
  BY <1>1, Zenon DEF IInv, NodePages
<1>8. (Len(nodes) - 1) * NodeRoom \in Nat
  BY <1>3, NodeAssumption
<1> QED
  BY <1>1, <1>3, <1>4, <1>6, <1>7, <1>8 DEF Held

\* The directory's symbols are among the nodes.
LEMMA NamedNat ==
  ASSUME IInv
  PROVE  Held(nodes) \in Nat /\ Named \in 0..Held(nodes)
<1>1. Held(nodes) \in Nat
  BY HeldNat, Zenon DEF IInv
<1>2. CASE stage = "name"
  <2>1. Named = Held(nodes) - 1
    BY <1>2, CountHeld, Zenon DEF Named
  <2>2. /\ Held(nodes) = (Len(nodes) - 1) * NodeRoom + Len(nodes[Len(nodes)])
        /\ Len(nodes[Len(nodes)]) \in 1..NodeRoom
        /\ (Len(nodes) - 1) * NodeRoom \in Nat
    BY <1>2, LastNode
  <2>3. Held(nodes) >= 1
    <3> DEFINE x == (Len(nodes) - 1) * NodeRoom
    <3> HIDE DEF x
    <3>1. x \in Nat /\ Held(nodes) = x + Len(nodes[Len(nodes)])
      BY <2>2 DEF x
    <3>2. Len(nodes[Len(nodes)]) \in Nat /\ Len(nodes[Len(nodes)]) >= 1
      BY <2>2, NodeAssumption
    <3> QED
      BY <3>1, <3>2
  <2> QED
    BY <1>1, <2>1, <2>3
<1>3. CASE stage # "name"
  BY <1>1, <1>3, CountHeld DEF Named
<1> QED
  BY <1>1, <1>2, <1>3

\* The entries of nodes that stay are the same.
LEMMA EntriesKept ==
  ASSUME IInv, Keeps(strings, strings'),
         \A i \in 1..Named : NodeIn(nodes', i) = NodeIn(nodes, i)
  PROVE  \A i \in 1..Named : Entry(nodes', strings', i) = Entry(nodes, strings, i)
<1>1. Named \in 0..Held(nodes) /\ Held(nodes) \in Nat
  BY NamedNat
<1>2. \A i \in 1..Named : i \in 1..Held(nodes)
  BY <1>1
<1>3. Named \in Nat
  BY <1>1
<1>4. Full(nodes) /\ Spelling(nodes, strings)
  BY Zenon DEF IInv
<1>5. Stay(nodes', nodes, Named)
  BY <1>2, Zenon DEF Stay
<1>6. SameEntries(nodes', strings', nodes, strings, Named)
  BY <1>3, <1>4, <1>5, TableKept, Zenon
<1> QED
  BY <1>6, Zenon DEF SameEntries

\* A step that names no node is none of the directory's.
LEMMA SymbolsKept ==
  ASSUME IInv, Keeps(strings, strings'), Named' = Named,
         \A i \in 1..Named : NodeIn(nodes', i) = NodeIn(nodes, i)
  PROVE  Symbols' = Symbols
<1>1. \A i \in 1..Named : Entry(nodes', strings', i) = Entry(nodes, strings, i)
  BY EntriesKept, Zenon
<1>2. Table(nodes', strings', Named) = Table(nodes, strings, Named)
  BY <1>1, Zenon DEF Table
<1> QED
  BY <1>2, SymbolsTable, Zenon

\* The node pool has room for the symbol.
LEMMA TakeNodeInv ==
  ASSUME IInv, TakeNode
  PROVE  IInv' /\ Symbols' = Symbols
<1> DEFINE L == Len(nodes)
           x == [name |-> Null, bind |-> {}]
           page == Append(nodes[L], x)
           m == Len(nodes[L])
<1>1. /\ stage = "node" /\ stage' = "name" /\ NodeFits
      /\ nodes' = [nodes EXCEPT ![current.node] = Append(nodes[current.node], x)]
      /\ strings' = strings /\ current' = current /\ request' = request
      /\ iter' = iter /\ reply' = reply
  BY Zenon DEF TakeNode
<1>2. current.node = L /\ L # 0 /\ L \in Nat /\ m < NodeRoom /\ Full(nodes)
  <2>1. current.node # 0 /\ Len(nodes[current.node]) < NodeRoom /\ current.node \in {0, L}
    BY <1>1, Zenon DEF NodeFits, IInv, Currents
  <2>2. Full(nodes) /\ L \in Nat
    BY HeldNat, Zenon DEF IInv
  <2> QED
    BY <2>1, <2>2
<1>3. L \in 1..L
  BY <1>2
<1>4. nodes # <<>> /\ nodes[L] \in Seq(NodeSet) /\ m \in 0..NodeRoom
  BY <1>2, <1>3, PageSeq
<1>5. x \in NodeSet /\ x.name = Null
  BY Zenon DEF NodeSet
<1>6. /\ page \in Seq(NodeSet) /\ Len(page) = m + 1 /\ page[m + 1] = x
      /\ \A k \in 1..m : page[k] = nodes[L][k]
  <2> HIDE DEF NodeSet, x
  <2> QED
    BY <1>4, <1>5
<1>7. nodes' = [nodes EXCEPT ![L] = page]
  BY <1>1, <1>2, Zenon
<1> HIDE DEF page
<1>8. /\ Len(page) <= NodeRoom /\ m \in 0..m /\ m <= Len(page)
  BY <1>2, <1>4, <1>6, NodeAssumption
<1>9. /\ Full(nodes') /\ nodes' # <<>> /\ Len(nodes') = L /\ nodes'[L] = page
      /\ \A p \in 1..L : p # L => nodes'[p] = nodes[p]
      /\ Held(nodes') = (L - 1) * NodeRoom + Len(page)
      /\ \A i \in 1..((L - 1) * NodeRoom + m) :
           i \in 1..Held(nodes) /\ NodeIn(nodes', i) = NodeIn(nodes, i)
  <2> HIDE DEF m
  <2>1. m \in 0..Len(nodes[Len(nodes)])
    BY <1>8 DEF m
  <2>2. \A k \in 1..m : page[k] = nodes[Len(nodes)][k]
    BY <1>6
  <2>3. Replaced(nodes', nodes, page, m)
    BY <1>2, <1>4, <1>6, <1>7, <1>8, <2>1, <2>2, LastPage, Zenon
  <2> QED
    BY <2>3, Zenon DEF Replaced
<1>10. Held(nodes) = (L - 1) * NodeRoom + m
  BY <1>4, Zenon DEF Held
<1>11. Held(nodes') = Held(nodes) + 1
  <2> DEFINE y == (L - 1) * NodeRoom
  <2>1. y \in Nat
    BY <1>2, NodeAssumption
  <2> HIDE DEF y
  <2>2. Held(nodes') = y + (m + 1) /\ Held(nodes) = y + m
    BY <1>6, <1>9, <1>10 DEF y
  <2> QED
    BY <1>4, <2>1, <2>2
<1>12. PoolSound(strings') /\ Keeps(strings, strings')
  BY <1>1, KeepsSelf, Zenon DEF IInv
<1>13. Spelling(nodes', strings')
  <2> SUFFICES ASSUME NEW p \in 1..L, NEW k \in 1..Len(nodes'[p]), nodes'[p][k].name # Null
               PROVE  \E name \in Names : Lies(strings, nodes'[p][k].name, name)
    BY <1>1, <1>9, Zenon DEF Spelling
  <2>1. p # L \/ (p = L /\ k \in 1..m) \/ (p = L /\ k = m + 1)
    BY <1>4, <1>6, <1>9
  <2>2. nodes'[p][k] = nodes[p][k] /\ k \in 1..Len(nodes[p])
    BY <1>5, <1>6, <1>9, <2>1, Zenon
  <2> QED
    BY <2>2, Zenon DEF Spelling, IInv
<1>14. Currents'
  BY <1>1, <1>9, Zenon DEF Currents, IInv
<1>15. Calls'
  BY <1>1 DEF Calls, IInv
<1>16. NodePages'
  <2>1. \A p \in 1..L : nodes'[p] # <<>>
    <3> SUFFICES ASSUME NEW p \in 1..L PROVE nodes'[p] # <<>>
      OBVIOUS
    <3>1. CASE p = L
      BY <1>4, <1>6, <1>9, <3>1
    <3>2. CASE p # L
      <4>1. p < L
        BY <1>2, <3>2
      <4>2. Len(nodes[p]) = NodeRoom
        BY <1>2, <4>1, PageSeq
      <4> QED
        BY <1>9, <3>2, <4>2, NodeAssumption
    <3> QED
      BY <3>1, <3>2
  <2>2. current'.node = L /\ nodes'[L][Len(nodes'[L])].name = Null
    BY <1>1, <1>2, <1>5, <1>6, <1>9, Zenon
  <2> QED
    BY <1>1, <1>2, <1>9, <2>1, <2>2, Zenon DEF NodePages
<1>17. Passed'
  BY <1>1 DEF Passed
<1>18. IInv'
  BY <1>9, <1>12, <1>13, <1>14, <1>15, <1>16, <1>17, Zenon DEF IInv
<1>19. Named = Held(nodes) /\ Named' = Held(nodes)
  <2>1. Named = Count /\ Named' = Count' - 1
    BY <1>1 DEF Named
  <2>2. Held(nodes) \in Nat
    BY <1>2, HeldNat
  <2> QED
    BY <1>11, <2>1, <2>2, CountHeld
<1>20. Symbols' = Symbols
  BY <1>9, <1>10, <1>12, <1>19, SymbolsKept, Zenon
<1> QED
  BY <1>18, <1>20

\* The node pool goes on to a page, or makes one.
LEMMA AddNodePageInv ==
  ASSUME IInv, AddNodePage
  PROVE  IInv' /\ Symbols' = Symbols
<1> DEFINE L == Len(nodes)
           makes == AfterNodes = 0 /\ CanMake
<1>1. /\ stage = "node" /\ stage' = "node" /\ ~NodeFits
      /\ nodes' = IF makes THEN Append(nodes, <<>>) ELSE nodes
      /\ current' = [current EXCEPT !.node = IF makes THEN L + 1 ELSE AfterNodes]
      /\ strings' = strings /\ request' = request /\ iter' = iter /\ reply' = reply
  BY Zenon DEF AddNodePage
<1>2. Full(nodes) /\ L \in Nat /\ Held(nodes) \in Nat
  BY HeldNat, Zenon DEF IInv
<1>3. current \in [node : {0, L}, char : {0, Len(strings)}]
  BY Zenon DEF IInv, Currents
<1>4. AfterNodes = 0
  BY <1>2, <1>3 DEF AfterNodes, After
<1>5. nodes # <<>> => Len(nodes[L]) = NodeRoom
  <2> SUFFICES ASSUME nodes # <<>> PROVE Len(nodes[L]) = NodeRoom
    OBVIOUS
  <2>1. L \in 1..L
    BY <1>2 DEF Full
  <2>2. Len(nodes[L]) \in 0..NodeRoom
    BY <1>2, <2>1, PageSeq
  <2>3. CASE current.node = 0
    BY <2>3, Zenon DEF IInv, NodePages
  <2>4. CASE current.node = L
    <3>1. ~(Len(nodes[L]) < NodeRoom)
      BY <1>1, <2>1, <2>4 DEF NodeFits
    <3> QED
      BY <2>2, <3>1, NodeAssumption
  <2> QED
    BY <1>3, <2>3, <2>4
<1>6. PoolSound(strings') /\ Keeps(strings, strings') /\ Spelling(nodes, strings)
  BY <1>1, KeepsSelf, Zenon DEF IInv
<1>7. /\ Full(nodes') /\ Held(nodes') = Held(nodes)
      /\ \A i \in 1..Held(nodes) : NodeIn(nodes', i) = NodeIn(nodes, i)
      /\ Spelling(nodes', strings')
      /\ current' \in [node : {0, Len(nodes')}, char : {0, Len(strings)}]
      /\ current'.node = 0 /\ nodes' # <<>> => Len(nodes'[Len(nodes')]) = NodeRoom
  <2>1. CASE makes
    <3>1. nodes' = Append(nodes, <<>>) /\ current' = [current EXCEPT !.node = L + 1]
      BY <1>1, <2>1, Zenon
    <3>2. /\ Full(nodes') /\ nodes' # <<>> /\ Len(nodes') = L + 1 /\ Held(nodes') = Held(nodes)
          /\ nodes'[L + 1] = <<>> /\ \A p \in 1..L : nodes'[p] = nodes[p]
          /\ \A i \in 1..Held(nodes) : NodeIn(nodes', i) = NodeIn(nodes, i)
      BY <1>2, <1>5, <3>1, AnotherPage
    <3>3. Spelling(nodes', strings')
      <4> SUFFICES ASSUME NEW p \in 1..(L + 1), NEW k \in 1..Len(nodes'[p])
                   PROVE  p \in 1..L
        BY <1>1, <1>6, <3>2, Zenon DEF Spelling
      <4>1. CASE p = L + 1
        <5>1. Len(nodes'[p]) = 0
          BY <3>2, <4>1
        <5> QED
          BY <5>1
      <4> QED
        BY <1>2, <4>1
    <3>4. current' = [node |-> L + 1, char |-> current.char] /\ current.char \in {0, Len(strings)}
      BY <1>3, <3>1
    <3>5. current'.node = L + 1 /\ L + 1 # 0
      BY <1>2, <3>4
    <3> QED
      BY <3>2, <3>3, <3>4, <3>5, Zenon
  <2>2. CASE ~makes
    <3>1. nodes' = nodes /\ current' = [current EXCEPT !.node = 0]
      BY <1>1, <1>4, <2>2, Zenon
    <3>2. current' \in [node : {0, Len(nodes')}, char : {0, Len(strings)}]
      BY <1>3, <3>1
    <3> QED
      BY <1>1, <1>2, <1>5, <1>6, <3>1, <3>2, Zenon
  <2> QED
    BY <2>1, <2>2
<1>8. Currents'
  BY <1>1, <1>7, Zenon DEF Currents
<1>9. Calls'
  BY <1>1 DEF Calls, IInv
<1>10. NodePages'
  BY <1>1, <1>7 DEF NodePages
<1>11. Passed'
  BY <1>1 DEF Passed
<1>12. IInv'
  BY <1>6, <1>7, <1>8, <1>9, <1>10, <1>11, Zenon DEF IInv
<1>13. Named = Held(nodes) /\ Named' = Held(nodes)
  <2>1. Named = Count /\ Named' = Count'
    BY <1>1 DEF Named
  <2> QED
    BY <1>7, <2>1, CountHeld, Zenon
<1>14. Symbols' = Symbols
  BY <1>6, <1>7, <1>13, SymbolsKept, Zenon
<1> QED
  BY <1>12, <1>14

\* What a caller is told: the number of the node that is returned, 0 for none.
Told == IF reply = NoNode THEN 0 ELSE Position(reply)

\* The node is filled and returned: the directory has one symbol more, the one that was
\* asked for, and its number is the answer.
LEMMA MadeInv ==
  ASSUME IInv, stage = "name", NEW ptr \in Pointers \union {Null}, Made(ptr),
         PoolSound(strings'), Keeps(strings, strings'),
         current' \in [node : {0, Len(nodes)}, char : {0, Len(strings')}],
         current'.node = current.node,
         \/ ptr = Null /\ request.name = Null
         \/ request.name \in Names /\ Lies(strings', ptr, request.name)
  PROVE  IInv' /\ Directory!Make
<1> DEFINE L == Len(nodes)
           l == Len(nodes[L])
           x == [name |-> ptr, bind |-> request.bind]
           page == [nodes[L] EXCEPT ![l] = x]
           m == l - 1
<1>1. /\ nodes' = [nodes EXCEPT ![NewNode[1]][NewNode[2]] = x]
      /\ reply' = NewNode /\ request' = Null /\ stage' = "idle" /\ iter' = iter
  BY Zenon DEF Made
<1>2. /\ current.node = L /\ L \in 1..L /\ nodes # <<>>
      /\ nodes[L] \in Seq(NodeSet) /\ l \in 1..NodeRoom
      /\ Held(nodes) = (L - 1) * NodeRoom + l
      /\ (L - 1) * NodeRoom \in Nat
  BY LastNode
<1>3. Full(nodes) /\ L \in Nat \ {0} /\ Held(nodes) \in Nat
  <2>1. Full(nodes)
    BY Zenon DEF IInv
  <2> QED
    BY <1>2, <2>1, HeldNat
<1>4. NewNode = <<L, l>>
  BY <1>2, Zenon DEF NewNode
<1>5. request \in Requests /\ request.op = "make" /\ request # Null
  BY Zenon DEF IInv, Calls
<1>6. x \in NodeSet /\ x.name = ptr /\ x.bind = request.bind
  BY <1>5, RequestFields, Zenon DEF NodeSet
<1>7. nodes' = [nodes EXCEPT ![L] = page]
  BY <1>1, <1>4
<1> HIDE DEF x
<1>8. l \in Nat /\ l >= 1 /\ l <= NodeRoom /\ NodeRoom \in Nat
  BY <1>2, NodeAssumption
<1>9. /\ page \in Seq(NodeSet) /\ Len(page) = l /\ page[l] = x
      /\ \A k \in 1..m : page[k] = nodes[L][k]
  <2> HIDE DEF NodeSet
  <2> QED
    BY <1>2, <1>6, <1>8
<1> HIDE DEF page
<1>10. m \in 0..Len(nodes[Len(nodes)]) /\ Len(page) <= NodeRoom /\ m <= Len(page) /\ m + 1 = l
  BY <1>8, <1>9
<1> HIDE DEF m
<1>11. Replaced(nodes', nodes, page, m)
  BY <1>2, <1>3, <1>7, <1>9, <1>10, LastPage, Zenon
<1>12. /\ Full(nodes') /\ nodes' # <<>> /\ Len(nodes') = L /\ nodes'[L] = page
       /\ \A p \in 1..L : p # L => nodes'[p] = nodes[p]
       /\ Held(nodes') = (L - 1) * NodeRoom + l
       /\ \A i \in 1..((L - 1) * NodeRoom + m) :
            i \in 1..Held(nodes) /\ NodeIn(nodes', i) = NodeIn(nodes, i)
  BY <1>9, <1>11, Zenon DEF Replaced
<1>13. Spelling(nodes, strings') /\ Spelling(nodes, strings)
  BY SpellingOn, Zenon DEF IInv
<1>14. Spelling(nodes', strings')
  <2> SUFFICES ASSUME NEW p \in 1..L, NEW k \in 1..Len(nodes'[p]), nodes'[p][k].name # Null
               PROVE  \E name \in Names : Lies(strings', nodes'[p][k].name, name)
    BY <1>12, Zenon DEF Spelling
  <2>1. p # L \/ (p = L /\ k \in 1..m) \/ (p = L /\ k = l)
    BY <1>8, <1>9, <1>10, <1>12
  <2>2. CASE p = L /\ k = l
    <3>1. nodes'[p][k].name = ptr
      BY <1>6, <1>9, <1>12, <2>2, Zenon
    <3> QED
      BY <3>1, Zenon
  <2>3. CASE p # L \/ (p = L /\ k \in 1..m)
    <3>1. k \in 1..m => k \in 1..l
      BY <1>8, <1>10
    <3>2. nodes'[p][k] = nodes[p][k] /\ k \in 1..Len(nodes[p])
      BY <1>9, <1>12, <2>3, <3>1, Zenon
    <3> QED
      BY <1>13, <3>2, Zenon DEF Spelling
  <2> QED
    BY <2>1, <2>2, <2>3
<1>15. Currents'
  BY <1>12, Zenon DEF Currents
<1>16. Calls'
  <2>1. NewNode \in Nat \X Nat
    BY <1>3, <1>4, <1>8
  <2> QED
    BY <1>1, <2>1, Zenon DEF Calls, IInv
<1>17. NodePages'
  <2>1. ASSUME NEW p \in 1..L PROVE nodes'[p] # <<>>
    <3>1. CASE p = L
      BY <1>8, <1>9, <1>12, <3>1
    <3>2. CASE p # L
      BY <1>2, <1>12, <3>2, Zenon DEF IInv, NodePages
    <3> QED
      BY <3>1, <3>2
  <2>2. current'.node # 0
    BY <1>2, <1>3, Zenon
  <2> QED
    BY <1>1, <1>12, <2>1, <2>2, Zenon DEF NodePages
<1>18. Passed'
  BY <1>1, Zenon DEF Passed
<1>19. IInv'
  BY <1>12, <1>14, <1>15, <1>16, <1>17, <1>18, Zenon DEF IInv
<1>20. /\ Named \in Nat /\ Named <= Held(nodes) /\ Named = (L - 1) * NodeRoom + m
       /\ Named' = Held(nodes') /\ Named + 1 = Held(nodes')
  <2>1. Named = Count - 1 /\ Named' = Count'
    BY <1>1 DEF Named
  <2> DEFINE y == (L - 1) * NodeRoom
  <2>2. y \in Nat /\ Held(nodes) = y + l /\ Held(nodes') = y + l
    BY <1>2, <1>12
  <2> HIDE DEF y
  <2>3. Named = y + m /\ Named \in Nat /\ Named <= Held(nodes) /\ Named + 1 = Held(nodes')
    BY <1>8, <1>10, <2>1, <2>2, CountHeld
  <2> QED
    BY <2>1, <2>3, CountHeld, Zenon DEF y
<1>21. \A i \in 1..Named : Entry(nodes', strings', i) = Entry(nodes, strings, i)
  BY <1>12, <1>20, EntriesKept, Zenon
<1>22. Symbols' = Append(Symbols, Entry(nodes', strings', Named + 1))
  <2>1. Table(nodes', strings', Named + 1) =
          Append(Table(nodes, strings, Named), Entry(nodes', strings', Named + 1))
    BY <1>3, <1>13, <1>20, <1>21, TableAppend
  <2> QED
    BY <1>20, <2>1, SymbolsTable, Zenon
<1>23. NodeIn(nodes', Named + 1) = x /\ Number(L, l) = Named + 1
  <2>1. L \in 1..Len(nodes') /\ l \in 1..Len(nodes'[L])
    BY <1>2, <1>8, <1>9, <1>12
  <2>2. NodeIn(nodes', Number(L, l)) = nodes'[L][l]
    BY <1>12, <2>1, NumberAt
  <2>3. Number(L, l) = Held(nodes')
    BY <1>12, Zenon DEF Number
  <2> QED
    BY <1>9, <1>12, <1>20, <2>2, <2>3, Zenon
<1>24. NameIn(strings', ptr) = request.name
  <2>1. CASE ptr = Null /\ request.name = Null
    BY <2>1, Zenon DEF NameIn
  <2>2. CASE request.name \in Names /\ Lies(strings', ptr, request.name)
    <3>1. ptr \in Pointers /\ SpelledIn(strings', ptr, request.name)
      BY <2>2, Zenon DEF Lies
    <3> QED
      BY <2>2, <3>1, NameRead, Zenon
  <2> QED
    BY <2>1, <2>2, Zenon
<1>25. Entry(nodes', strings', Named + 1) = [name |-> request.name, bind |-> request.bind]
  BY <1>6, <1>23, <1>24, Zenon DEF Entry
<1>26. Symbols' = Append(Symbols, [name |-> request.name, bind |-> request.bind])
  BY <1>22, <1>25, Zenon
<1>27. Len(Symbols') = Named + 1
  <2>1. Named' \in 0..Held(nodes')
    BY <1>20
  <2> QED
    BY <1>12, <1>14, <1>20, <2>1, SymbolsTable, TableSeq, Zenon
<1>28. Told' = Named + 1
  <2>1. reply' = <<L, l>> /\ reply' # NoNode
    BY <1>1, <1>3, <1>4 DEF NoNode
  <2>2. Position(reply') = Number(L, l)
    BY <2>1 DEF Position, Number
  <2>3. Told' = Position(reply')
    BY <2>1 DEF Told, Position, NoNode
  <2> QED
    BY <1>23, <2>2, <2>3, Zenon
<1>29. Directory!Make
  BY <1>1, <1>5, <1>26, <1>27, <1>28, Zenon DEF Directory!Make, Told
<1> QED
  BY <1>19, <1>29

\* A symbol without a name is made.
LEMMA UnnamedInv ==
  ASSUME IInv, Unnamed
  PROVE  IInv' /\ Directory!Make
<1>1. /\ stage = "name" /\ request.name = Null /\ Made(Null)
      /\ strings' = strings /\ current' = current
  BY Zenon DEF Unnamed
<1>2. PoolSound(strings') /\ Keeps(strings, strings')
  BY <1>1, KeepsSelf, Zenon DEF IInv
<1>3. current' \in [node : {0, Len(nodes)}, char : {0, Len(strings')}]
  BY <1>1, Zenon DEF IInv, Currents
<1> QED
  BY <1>1, <1>2, <1>3, MadeInv, Zenon

\* The pass of the loop looks at a page of the pool, the last, if at any.
LEMMA PassPool ==
  ASSUME IInv, stage = "name", request.name # Null
  PROVE  /\ request.name \in Names
         /\ PoolSound(StringsAtPass) /\ Keeps(strings, StringsAtPass)
         /\ PageAtPass \in {0, Len(StringsAtPass)} /\ Len(StringsAtPass) \in Nat
<1>1. request \in Requests
  BY Zenon DEF IInv, Calls
<1>2. request.name \in Names
  BY <1>1, RequestFields, Zenon
<1>3. PoolSound(strings) /\ current.char \in {0, Len(strings)} /\ Len(strings) \in Nat
  BY KeepsSelf, Zenon DEF IInv, Currents
<1>4. CASE Makes
  <2> DEFINE page == NewPage(Len(request.name) + 1)
  <2>1. Len(request.name) + 1 \in Nat \ {0}
    BY <1>2, NameSeq
  <2>2. Sound(page)
    BY <2>1, NewPageSound, Zenon
  <2>3. StringsAtPass = Append(strings, page) /\ PageAtPass = Len(strings) + 1
    BY <1>4, Zenon DEF StringsAtPass, PageAtPass
  <2> HIDE DEF page
  <2>4. PoolSound(StringsAtPass) /\ Len(StringsAtPass) = Len(strings) + 1
        /\ Keeps(strings, StringsAtPass)
    BY <1>3, <2>2, <2>3, AnotherStrings
  <2> QED
    BY <1>2, <1>3, <2>3, <2>4
<1>5. CASE ~Makes
  <2>1. StringsAtPass = strings /\ PageAtPass = current.char
    BY <1>5, Zenon DEF StringsAtPass, PageAtPass
  <2>2. Keeps(strings, strings)
    BY <1>3, KeepsSelf
  <2> QED
    BY <1>2, <1>3, <2>1, <2>2, Zenon
<1> QED
  BY <1>4, <1>5

\* The string pool has room for the name.
LEMMA TakeStringInv ==
  ASSUME IInv, TakeString
  PROVE  IInv' /\ Directory!Make
<1> DEFINE p == PageAtPass
           ss == StringsAtPass
           ptr == [page |-> p, at |-> ss[p].used]
<1>1. /\ stage = "name" /\ request.name # Null /\ p # 0
      /\ Holds(ss[p], request.name)
      /\ strings' = [ss EXCEPT ![p] = Copied(ss[p], request.name)]
      /\ Made(ptr)
      /\ current' = [current EXCEPT !.char = p]
  BY Zenon DEF TakeString
<1>2. /\ request.name \in Names /\ PoolSound(ss) /\ Keeps(strings, ss)
      /\ p \in {0, Len(ss)} /\ Len(ss) \in Nat
  BY <1>1, PassPool
<1>3. p \in 1..Len(ss) /\ p = Len(ss)
  BY <1>1, <1>2
<1> HIDE DEF p, ss
<1>4. /\ PoolSound(strings') /\ Len(strings') = Len(ss) /\ Keeps(ss, strings')
      /\ Lies(strings', ptr, request.name)
  <2>1. /\ PoolSound(ss) /\ p \in 1..Len(ss) /\ request.name \in Names
        /\ Holds(ss[p], request.name)
        /\ strings' = [ss EXCEPT ![p] = Copied(ss[p], request.name)]
    BY <1>1, <1>2, <1>3, Zenon
  <2> QED
    BY <2>1, CopyTo
<1> HIDE DEF ptr
<1>5. Keeps(strings, strings')
  BY <1>2, <1>4, KeepsOn
<1>6. current \in [node : {0, Len(nodes)}, char : {0, Len(strings)}]
  BY Zenon DEF IInv, Currents
<1>7. current' \in [node : {0, Len(nodes)}, char : {0, Len(strings')}]
      /\ current'.node = current.node
  BY <1>1, <1>3, <1>4, <1>6
<1>8. ptr \in Pointers
  BY <1>4, Zenon DEF Lies
<1> QED
  BY <1>1, <1>2, <1>4, <1>5, <1>7, <1>8, MadeInv, Zenon

\* The string pool leaves a page that has no room for the name.
LEMMA SkipPageInv ==
  ASSUME IInv, SkipPage
  PROVE  IInv' /\ Symbols' = Symbols
<1>1. /\ stage = "name" /\ request.name # Null /\ PageAtPass # 0
      /\ strings' = StringsAtPass
      /\ current' = [current EXCEPT !.char = After(PageAtPass, StringsAtPass)]
      /\ nodes' = nodes /\ request' = request /\ stage' = stage /\ iter' = iter /\ reply' = reply
  BY Zenon DEF SkipPage
<1>2. /\ PoolSound(strings') /\ Keeps(strings, strings')
      /\ PageAtPass \in {0, Len(StringsAtPass)} /\ Len(StringsAtPass) \in Nat
  BY <1>1, PassPool, Zenon
<1>3. After(PageAtPass, StringsAtPass) = 0
  BY <1>1, <1>2 DEF After
<1>4. current \in [node : {0, Len(nodes)}, char : {0, Len(strings)}]
  BY Zenon DEF IInv, Currents
<1>5. current' \in [node : {0, Len(nodes')}, char : {0, Len(strings')}]
      /\ current'.node = current.node
  BY <1>1, <1>3, <1>4
<1>6. Full(nodes') /\ Spelling(nodes', strings')
  BY <1>1, <1>2, SpellingOn, Zenon DEF IInv
<1>7. Currents'
  BY <1>5, Zenon DEF Currents
<1>8. Calls' /\ Passed'
  BY <1>1 DEF Calls, Passed, IInv
<1>9. NodePages'
  BY <1>1, <1>5, Zenon DEF NodePages, IInv
<1>10. IInv'
  BY <1>2, <1>6, <1>7, <1>8, <1>9, Zenon DEF IInv
<1>11. Named' = Named
  BY <1>1, Zenon DEF Named, Count
<1>12. Symbols' = Symbols
  BY <1>1, <1>2, <1>11, SymbolsKept, Zenon
<1> QED
  BY <1>10, <1>12

\* Every call and every pass of its loops keeps the invariant.
LEMMA NextInv == IInv /\ [Next]_vars => IInv'
<1> SUFFICES ASSUME IInv, [Next]_vars PROVE IInv'
  OBVIOUS
<1>1. CASE Call
  BY <1>1, CallMakeInv, CallFindInv, Zenon DEF Call
<1>2. CASE Make
  <2>1. CASE Spin \/ UNCHANGED vars
    BY <2>1 DEF Spin, vars, IInv, Currents, Calls, NodePages, Passed
  <2> QED
    BY <1>2, <2>1, TakeNodeInv, AddNodePageInv, UnnamedInv, TakeStringInv, SkipPageInv, Zenon
       DEF Make
<1>3. CASE Find
  <2>1. CASE Hit
    <3>1. iter \in Nat \X Nat
      BY Zenon DEF IInv, Calls
    <3> QED
      BY <2>1, <3>1, ReturnInv, Zenon DEF Hit
  <2>2. CASE Miss
    <3>1. NoNode \in Nat \X Nat
      BY DEF NoNode
    <3> QED
      BY <2>2, <3>1, ReturnInv, Zenon DEF Miss
  <2> QED
    BY <1>3, <2>1, <2>2, StepInv, Zenon DEF Find
<1>4. CASE UNCHANGED vars
  BY <1>4 DEF vars, IInv, Currents, Calls, NodePages, Passed
<1> QED
  BY <1>1, <1>2, <1>3, <1>4, Zenon DEF Next

\* Nodes fill their pages in order, a name that a node has lies in the pool before what
\* is still free, and a search has passed no symbol that it was to find.
THEOREM Invariance == Spec => []IInv
<1> QED
  BY InitInv, NextInv, PTL DEF Spec

\* The invariant gives the types.
LEMMA TypeOKInv == IInv => TypeOK
<1> SUFFICES ASSUME IInv PROVE TypeOK
  OBVIOUS
<1>1. Full(nodes) /\ PoolSound(strings) /\ Currents /\ Calls
  BY Zenon DEF IInv
<1>2. DOMAIN nodes = 1..Len(nodes) /\ DOMAIN strings = 1..Len(strings)
  BY <1>1 DEF Full, PoolSound
<1>3. nodes \in Seq(Seq([name : Pointers \union {Null}, bind : SUBSET BindAny]))
  BY <1>1, Zenon DEF Full, NodeSet
<1>4. \A p \in DOMAIN nodes : /\ Len(nodes[p]) <= NodeRoom
                              /\ p < Len(nodes) => Len(nodes[p]) = NodeRoom
  BY <1>1, <1>2, Zenon DEF Full
<1>5. \A p \in DOMAIN strings :
        strings[p].used = 0 \/ strings[p].used - 1 \in DOMAIN strings[p].text
  BY <1>1, <1>2, Zenon DEF PoolSound, Sound
<1> QED
  BY <1>1, <1>3, <1>4, <1>5, Zenon DEF TypeOK, Currents, Calls

\* Types, whatever the sizes: pages of nodes are filled in order and no page of
\* characters is used beyond its end (page_base_t::raw_get()).
THEOREM TypeCorrect == Spec => []TypeOK
<1> QED
  BY Invariance, TypeOKInv, PTL

-----------------------------------------------------------------------------
(***************************************************************************)
(* The table implements the directory.                                     *)
(***************************************************************************)

\* What a search compares in a node tells whether the directory's symbol is one of those
\* that are asked for.
LEMMA FoundIs ==
  ASSUME IInv, stage = "walk", request.name \in Names \ {<<>>}
  PROVE  \A i : i \in Directory!Found <=>
                  i \in 1..Held(nodes) /\ MatchesIn(strings, request, NodeIn(nodes, i))
<1>1. Full(nodes) /\ Spelling(nodes, strings) /\ Held(nodes) \in Nat
  BY NamedNat, Zenon DEF IInv
<1>2. Symbols = Table(nodes, strings, Held(nodes))
  <2>1. Named = Count
    BY DEF Named
  <2> QED
    BY <2>1, SymbolsTable, CountHeld, Zenon
<1>3. Held(nodes) \in 0..Held(nodes)
  BY <1>1
<1>4. /\ DOMAIN Symbols = 1..Held(nodes)
      /\ \A i \in 1..Held(nodes) : Symbols[i] = Entry(nodes, strings, i)
  BY <1>1, <1>2, <1>3, TableSeq, Zenon
<1>5. ASSUME NEW i \in 1..Held(nodes)
      PROVE  i \in Directory!Found <=> MatchesIn(strings, request, NodeIn(nodes, i))
  <2> DEFINE node == NodeIn(nodes, i)
             ptr == node.name
             Binding == request.bind = BindAny \/ request.bind \subseteq node.bind
  <2>1. node \in NodeSet
    BY <1>1, NodeAt
  <2>2. Symbols[i].name = NameIn(strings, ptr) /\ Symbols[i].bind = node.bind
    <3>1. Symbols[i] = Entry(nodes, strings, i)
      BY <1>4, Zenon
    <3> HIDE DEF ptr, node
    <3>2. Entry(nodes, strings, i) = [name |-> NameIn(strings, ptr), bind |-> node.bind]
      BY Zenon DEF Entry, node, ptr
    <3> QED
      BY <3>1, <3>2
  <2>3. i \in Directory!Found <=> /\ NameIn(strings, ptr) = request.name
                                  /\ NameIn(strings, ptr) \notin {Null, <<>>}
                                  /\ Binding
    BY <1>4, <2>2, Zenon DEF Directory!Found
  <2>4. request.name \in Names /\ request.name # <<>> /\ request.name # Null
    <3>1. Null \notin Names
      BY NamesAssumption
    <3> QED
      BY <3>1
  <2>5. ASSUME NameIn(strings, ptr) = request.name
        PROVE  /\ ptr # Null /\ SpelledIn(strings, ptr, request.name)
               /\ CharIn(strings, ptr, 0) # Nul
    <3>1. PICK name \in Names : /\ Lies(strings, ptr, name) /\ ptr # Null
                                /\ NameIn(strings, ptr) = name
      BY <1>1, <2>4, <2>5, NodeName, Zenon
    <3>2. SpelledIn(strings, ptr, request.name)
      BY <2>5, <3>1, Zenon DEF Lies
    <3>3. /\ request.name \in Seq(STRING)
          /\ \A k \in 1..Len(request.name) : request.name[k] # Nul
      BY <2>4, NameSeq, Zenon
    <3>4. 1 \in 1..Len(request.name) /\ 1 \in 1..(Len(request.name) + 1) /\ 1 - 1 = 0
      BY <2>4, <3>3
    <3>5. Written(request.name)[1] # Nul
      BY <3>3, <3>4, WrittenIs, Zenon
    <3>6. CharIn(strings, ptr, 1 - 1) = Written(request.name)[1]
      BY <3>2, <3>4, Zenon DEF SpelledIn
    <3> QED
      BY <3>1, <3>2, <3>4, <3>5, <3>6, Zenon
  <2>6. ASSUME ptr # Null, SpelledIn(strings, ptr, request.name)
        PROVE  NameIn(strings, ptr) = request.name
    <3>1. ptr \in Pointers
      BY <2>1, <2>6, Zenon DEF NodeSet
    <3> QED
      BY <2>4, <2>6, <3>1, NameRead, Zenon
  <2> QED
    BY <2>3, <2>4, <2>5, <2>6, Zenon DEF MatchesIn
<1>6. \A i \in Directory!Found : i \in 1..Held(nodes)
  BY <1>4, Zenon DEF Directory!Found
<1> QED
  BY <1>5, <1>6, Zenon

\* A search that ends at a node ends at the first that is asked for.
LEMMA HitRefines ==
  ASSUME IInv, Hit
  PROVE  Directory!Find
<1> DEFINE p == iter[1]
           k == iter[2]
           n == Number(p, k)
           F == Directory!Found
<1>1. /\ stage = "walk" /\ stage' = "idle" /\ Defined(iter)
      /\ Matches(nodes[p][k])
      /\ reply' = iter /\ request' = Null
      /\ nodes' = nodes /\ strings' = strings
  BY Zenon DEF Hit, Return
<1>2. iter # NoNode /\ iter \in Nat \X Nat /\ request # Null /\ request.op = "find" /\ Full(nodes)
  BY <1>1, DefinedIs, Zenon DEF IInv, Calls
<1>3. /\ p \in 1..Len(nodes) /\ k \in 1..Len(nodes[p])
      /\ request.name \in Names \ {<<>>}
      /\ \A j \in 1..(Position(iter) - 1) : ~MatchesIn(strings, request, NodeIn(nodes, j))
  BY <1>1, <1>2, Zenon DEF IInv, Passed
<1>4. Position(iter) = n
  BY DEF Position, Number
<1>5. MatchesIn(strings, request, nodes[p][k])
  BY <1>1, MatchesIs, Zenon
<1>6. n \in 1..Held(nodes) /\ NodeIn(nodes, n) = nodes[p][k] /\ Held(nodes) \in Nat
  BY <1>2, <1>3, NumberAt, HeldNat
<1> HIDE DEF p, k, n
<1>7. \A i : i \in F <=> i \in 1..Held(nodes) /\ MatchesIn(strings, request, NodeIn(nodes, i))
  BY <1>1, <1>3, FoundIs, Zenon
<1>8. n \in F
  BY <1>5, <1>6, <1>7, Zenon
<1>9. \A i \in F : n <= i
  <2> SUFFICES ASSUME NEW i \in F, ~(n <= i) PROVE FALSE
    OBVIOUS
  <2>1. i \in 1..Held(nodes) /\ MatchesIn(strings, request, NodeIn(nodes, i))
    BY <1>7, Zenon
  <2>2. i \in 1..(Position(iter) - 1)
    BY <1>4, <1>6, <2>1
  <2> QED
    BY <1>3, <2>1, <2>2, Zenon
<1>10. \A i \in F : i \in Nat
  <2>1. \A i \in F : i \in 1..Held(nodes)
    BY <1>7, Zenon
  <2> QED
    BY <1>6, <2>1
<1> HIDE DEF F
<1>11. F # {} /\ (CHOOSE i \in F : \A j \in F : i <= j) = n
  <2> DEFINE c == CHOOSE i \in F : \A j \in F : i <= j
  <2>1. c \in F /\ \A j \in F : c <= j
    BY <1>8, <1>9, Zenon
  <2> HIDE DEF c
  <2>2. c <= n /\ n <= c /\ c \in Nat /\ n \in Nat
    BY <1>8, <1>9, <1>10, <2>1, Zenon
  <2>3. c = n
    BY <2>2
  <2> QED
    BY <1>8, <2>3, Zenon DEF c
<1>12. Told' = n
  <2>1. Told' = Position(reply')
    BY <1>1, <1>2 DEF Told, Position
  <2> QED
    BY <1>1, <1>4, <2>1, Zenon
<1>13. Symbols' = Symbols
  <2>1. Named' = Named
    BY <1>1 DEF Named, Count
  <2> QED
    BY <1>1, <2>1, SymbolsTable, Zenon
<1> QED
  BY <1>1, <1>2, <1>11, <1>12, <1>13, Zenon DEF Directory!Find, Told, F

\* A search that ends at no node had nothing to find.
LEMMA MissRefines ==
  ASSUME IInv, Miss
  PROVE  Directory!Find
<1>1. /\ stage = "walk" /\ stage' = "idle" /\ ~Defined(iter)
      /\ reply' = NoNode /\ request' = Null
      /\ nodes' = nodes /\ strings' = strings
  BY Zenon DEF Miss, Return
<1>2. iter = NoNode /\ request \in Requests /\ request # Null /\ request.op = "find"
  BY <1>1, DefinedIs, Zenon DEF IInv, Calls
<1>3. Directory!Found = {}
  <2>1. CASE request.name \in {Null, <<>>}
    BY <2>1, Zenon DEF Directory!Found
  <2>2. CASE request.name \notin {Null, <<>>}
    <3>1. request.name \in Names \ {<<>>}
      BY <1>2, <2>2, RequestFields, Zenon
    <3>2. \A j \in 1..Held(nodes) : ~MatchesIn(strings, request, NodeIn(nodes, j))
      BY <1>1, <1>2, <2>2, Zenon DEF IInv, Passed
    <3>3. \A i : i \notin Directory!Found
      BY <1>1, <3>1, <3>2, FoundIs, Zenon
    <3> QED
      BY <3>3, Zenon
  <2> QED
    BY <2>1, <2>2
<1>4. Told' = 0
  BY <1>1 DEF Told
<1>5. Symbols' = Symbols
  <2>1. Named' = Named
    BY <1>1 DEF Named, Count
  <2> QED
    BY <1>1, <2>1, SymbolsTable, Zenon
<1> QED
  BY <1>1, <1>2, <1>3, <1>4, <1>5, Zenon DEF Directory!Find, Told

\* A call is the directory's question.
LEMMA CallRefines ==
  ASSUME IInv, Call
  PROVE  Directory!Ask
<1>1. PICK name \in Names \union {Null}, bind \in Binds :
        CallMake(name, bind) \/ CallFind(name, bind)
  BY Zenon DEF Call
<1>2. /\ request = Null /\ nodes' = nodes /\ strings' = strings /\ reply' = reply
      /\ \/ request' = [op |-> "make", name |-> name, bind |-> bind]
         \/ request' = [op |-> "find", name |-> name, bind |-> bind]
      /\ stage' \in {"node", "walk"}
  BY <1>1, Zenon DEF CallMake, CallFind
<1>3. request' \in Requests
  <2>1. /\ [op |-> "make", name |-> name, bind |-> bind] \in Requests
        /\ [op |-> "find", name |-> name, bind |-> bind] \in Requests
    BY Zenon DEF Requests
  <2> QED
    BY <1>2, <2>1, Zenon
<1>4. stage = "idle"
  BY <1>2, Zenon DEF IInv, Calls
<1>5. Symbols' = Symbols
  <2>1. Named' = Named
    BY <1>2, <1>4 DEF Named, Count
  <2> QED
    BY <1>2, <2>1, SymbolsTable, Zenon
<1>6. Told' = Told
  BY <1>2 DEF Told, Position
<1> QED
  BY <1>2, <1>3, <1>5, <1>6, Zenon DEF Directory!Ask, Told

\* Nothing that only looks for room or for the next node is seen from outside.
LEMMA PassRefines ==
  ASSUME IInv, TakeNode \/ AddNodePage \/ SkipPage \/ Spin \/ Step \/ UNCHANGED vars
  PROVE  UNCHANGED <<Symbols, request, Told>>
<1>1. request' = request /\ reply' = reply
  BY Zenon DEF TakeNode, AddNodePage, SkipPage, Spin, Step, vars
<1>2. Told' = Told
  BY <1>1 DEF Told, Position
<1>3. CASE TakeNode \/ AddNodePage \/ SkipPage
  <2>1. Symbols' = Symbols
    BY <1>3, TakeNodeInv, AddNodePageInv, SkipPageInv, Zenon
  <2> QED
    BY <1>1, <1>2, <2>1, Zenon
<1>4. CASE Spin \/ Step \/ UNCHANGED vars
  <2>1. nodes' = nodes /\ strings' = strings /\ stage' = stage
    BY <1>4, Zenon DEF Spin, Step, vars
  <2>2. Named' = Named
    BY <2>1 DEF Named, Count
  <2>3. Symbols' = Symbols
    BY <2>1, <2>2, SymbolsTable, Zenon
  <2> QED
    BY <1>1, <1>2, <2>3, Zenon
<1> QED
  BY <1>3, <1>4, Zenon

\* An empty table is an empty directory.
LEMMA InitRefines == Init => Directory!Init
<1> SUFFICES ASSUME Init PROVE Directory!Init
  OBVIOUS
<1>1. nodes = <<>> /\ request = Null /\ stage = "idle" /\ reply = NoNode
  BY Zenon DEF Init
<1>2. Count = 0 /\ stage # "name"
  BY <1>1 DEF Count
<1>3. Symbols = <<>>
  <2>1. Named = 0
    BY <1>2 DEF Named
  <2>2. Symbols = [i \in 1..0 |-> Entry(nodes, strings, i)]
    BY <2>1, SymbolsTable, Zenon DEF Table
  <2>3. 1..0 = {}
    OBVIOUS
  <2> QED
    BY <2>2, <2>3
<1> QED
  BY <1>1, <1>3, Zenon DEF Directory!Init

\* Every step is one of the directory, or changes nothing that it shows.
LEMMA NextRefines == IInv /\ [Next]_vars => [Directory!Next]_<<Symbols, request, Told>>
<1> SUFFICES ASSUME IInv, [Next]_vars
             PROVE  Directory!Next \/ UNCHANGED <<Symbols, request, Told>>
  BY Zenon
<1>1. CASE Call
  BY <1>1, CallRefines, Zenon DEF Directory!Next
<1>2. CASE Make
  BY <1>2, PassRefines, UnnamedInv, TakeStringInv, Zenon DEF Make, Directory!Next
<1>3. CASE Find
  BY <1>3, PassRefines, HitRefines, MissRefines, Zenon DEF Find, Directory!Next
<1>4. CASE UNCHANGED vars
  BY <1>4, PassRefines, Zenon
<1> QED
  BY <1>1, <1>2, <1>3, <1>4, Zenon DEF Next

\* The table is the directory it promises: a symbol that is made is put behind all
\* others and keeps its name, and a search yields the first of the name with the
\* binding asked (make_symbol(), find_symbol()), on pages of every size.
THEOREM Refinement == Spec => ActsAsDirectory
<1>1. IInv /\ [Next]_vars => [Directory!Next]_(Directory!vars)
  BY NextRefines, Zenon DEF Directory!vars, Told
<1> QED
  BY <1>1, InitRefines, Invariance, PTL DEF Spec, ActsAsDirectory, Directory!Spec
=============================================================================
