----------------------------- MODULE SymbolTable -----------------------------
(***************************************************************************)
(* A symbol table over its pools: symbol_table_t makes its nodes in a      *)
(* table<symbol_t>, pages walked by an iterator (image/table.h), and       *)
(* copies the names into a string_table_t, pages of characters             *)
(* (image/pool.h).  make_symbol() and find_symbol() go pass by pass: an    *)
(* action is one raw_get() of the nodes, one round of the loop of the      *)
(* string pool's raw_get(), or one step of the iterator.                   *)
(***************************************************************************)
EXTENDS Integers, Sequences

CONSTANTS Names,       \* the names used: sequences of characters
          Null,        \* nullptr: no name, and no call
          Binds,       \* the bindings used: subsets of BindAny
          NodeRoom,    \* page::capacity of the node pool
          PageSize,    \* size of a page of characters, with its header
          HeadSize,    \* page::head_size of the string pool
          ReserveMin,  \* chr_reserve_min
          HeapPages,   \* malloc succeeds until that many pages exist
          MaxSymbols   \* bound on the symbols made

\* A name is shorter than what find_symbol() compares of it.
ASSUME NamesAssumption == /\ \A name \in Names : name \in Seq(STRING) /\ Len(name) < 32767
                          /\ Null \notin Names
ASSUME NodeAssumption == NodeRoom \in Nat \ {0}
ASSUME StringAssumption ==
  /\ PageSize \in Nat /\ HeadSize \in Nat /\ HeadSize < PageSize
  /\ ReserveMin \in Nat \ {0}
  /\ PageSize % ReserveMin = 0 /\ HeadSize % ReserveMin = 0
ASSUME BoundsAssumption == HeapPages \in Nat /\ MaxSymbols \in Nat

BindAny == {"global", "weak"}
ASSUME BindsAssumption == Binds \subseteq SUBSET BindAny

VARIABLES nodes,    \* the pages of the table, head first: sequences of nodes
          strings,  \* the pages of the string table: m_used and the characters
          current,  \* m_page_current of either pool, 0 for nullptr
          request,  \* the call being served, Null between calls
          stage,    \* the loop that the call is in
          iter,     \* the iterator of find_symbol(): page and index of its node
          reply     \* the node that the last call returned

vars == <<nodes, strings, current, request, stage, iter, reply>>

Requests == [op : {"make", "find"}, name : Names \union {Null}, bind : Binds]
NoNode == <<0, 0>>
Pointers == [page : Nat, at : Nat]
ASSUME NullAssumption == Null \notin Requests \union Pointers

\* The character that ends a name, and one that nobody wrote.
Nul == "nul"
Stale == "stale"
Written(name) == Append(name, Nul)
ASSUME NulAssumption == \A name \in Names : \A k \in DOMAIN name : name[k] # Nul

RoundUp(n) == ((n + ReserveMin - 1) \div ReserveMin) * ReserveMin

\* make_page(): the page for that many characters.
Capacity == PageSize - HeadSize
OnePage(count) == Capacity  \* mutant: a page is a page
PageChars(count) == ((count + Capacity - 1) \div Capacity) * PageSize - HeadSize
NewPage(count) == [used |-> 0, text |-> [c \in 0..(PageChars(count) - 1) |-> Stale]]

\* malloc() serves both pools.
CanMake == Len(nodes) + Len(strings) < HeapPages

After(i, pages) == IF i # 0 /\ i < Len(pages) THEN i + 1 ELSE 0

\* What a name takes of a page, and the page with the name copied to m_used.
SpaceBare(name) == RoundUp(Len(name))  \* mutant: no room for the end of the name
Space(name) == RoundUp(Len(name) + 1)
Holds(page, name) == \A c \in 0..(Space(name) - 1) : page.used + c \in DOMAIN page.text
Copied(page, name) ==
  [used |-> page.used + Space(name),
   text |-> [c \in DOMAIN page.text |->
               IF c - page.used \in 0..Len(name) THEN Written(name)[c - page.used + 1]
               ELSE page.text[c]]]

-----------------------------------------------------------------------------
\* string_table_t begins with an empty string that it keeps for itself.
Init == /\ nodes = <<>>
        /\ strings = <<[Copied(NewPage(2), <<>>) EXCEPT !.text[1] = Nul]>>
        /\ current = [node |-> 0, char |-> 1]
        /\ request = Null
        /\ stage = "idle"
        /\ iter = NoNode
        /\ reply = NoNode

\* A node of the table that make_symbol() has yet to name.
NewNode == <<current.node, Len(nodes[current.node])>>
Count == IF nodes = <<>> THEN 0 ELSE (Len(nodes) - 1) * NodeRoom + Len(nodes[Len(nodes)])

CallMake(name, bind) ==
  /\ request = Null
  /\ Count < MaxSymbols
  /\ request' = [op |-> "make", name |-> name, bind |-> bind]
  /\ stage' = "node"
  /\ UNCHANGED <<nodes, strings, current, iter, reply>>

NodeFitsFull == current.node # 0 /\ Len(nodes[current.node]) <= NodeRoom  \* mutant
NodeFits == current.node # 0 /\ Len(nodes[current.node]) < NodeRoom

\* raw_get() of the node pool.
TakeNode ==
  /\ stage = "node"
  /\ NodeFits
  /\ nodes' = [nodes EXCEPT ![current.node] = Append(@, [name |-> Null, bind |-> {}])]
  /\ stage' = "name"
  /\ UNCHANGED <<strings, current, request, iter, reply>>

\* The page is full: raw_get() makes another, if it can, and calls itself.
AfterNodes == After(current.node, nodes)
AddNodePage ==
  /\ stage = "node"
  /\ ~NodeFits
  /\ LET makes == AfterNodes = 0 /\ CanMake IN
     /\ nodes' = IF makes THEN Append(nodes, <<>>) ELSE nodes
     /\ current' = [current EXCEPT !.node = IF makes THEN Len(nodes) + 1 ELSE AfterNodes]
  /\ UNCHANGED <<strings, request, stage, iter, reply>>

\* make_symbol() fills the node and returns it.
Made(name) ==
  /\ nodes' = [nodes EXCEPT ![NewNode[1]][NewNode[2]] = [name |-> name, bind |-> request.bind]]
  /\ reply' = NewNode
  /\ request' = Null
  /\ stage' = "idle"
  /\ UNCHANGED iter

Unnamed ==
  /\ stage = "name"
  /\ request.name = Null
  /\ Made(Null)
  /\ UNCHANGED <<strings, current>>

\* The string pool once the head of its loop has run, and the page it looks at.
Makes == current.char = 0 /\ CanMake
StringsAtPass ==
  IF Makes THEN Append(strings, NewPage(Len(request.name) + 1)) ELSE strings
PageAtPass == IF Makes THEN Len(strings) + 1 ELSE current.char

TakeString ==
  /\ stage = "name"
  /\ request.name # Null
  /\ PageAtPass # 0
  /\ LET page == StringsAtPass[PageAtPass] IN
     /\ Holds(page, request.name)
     /\ strings' = [StringsAtPass EXCEPT ![PageAtPass] = Copied(page, request.name)]
     /\ Made([page |-> PageAtPass, at |-> page.used])
  /\ current' = [current EXCEPT !.char = PageAtPass]

SkipPage ==
  /\ stage = "name"
  /\ request.name # Null
  /\ PageAtPass # 0
  /\ ~Holds(StringsAtPass[PageAtPass], request.name)
  /\ strings' = StringsAtPass
  /\ current' = [current EXCEPT !.char = After(PageAtPass, StringsAtPass)]
  /\ UNCHANGED <<nodes, request, stage, iter, reply>>

\* No page and no memory: the loop goes round.
Spin ==
  /\ stage = "name"
  /\ request.name # Null
  /\ PageAtPass = 0
  /\ UNCHANGED vars

-----------------------------------------------------------------------------
\* The iterator of table.h: advance() goes to the next page that has nodes.
Begin == IF nodes = <<>> THEN NoNode ELSE <<1, 1>>
Defined(it) == it[1] # 0 /\ it[2] \in DOMAIN nodes[it[1]]
Advance(it) ==
  IF it[2] < Len(nodes[it[1]]) THEN <<it[1], it[2] + 1>>
  ELSE LET later == {p \in DOMAIN nodes : p > it[1] /\ nodes[p] # <<>>}
       IN  IF later = {} THEN NoNode ELSE <<CHOOSE p \in later : \A q \in later : p <= q, 1>>

\* Nothing is searched for a name that is empty or none.
CallFind(name, bind) ==
  /\ request = Null
  /\ request' = [op |-> "find", name |-> name, bind |-> bind]
  /\ stage' = "walk"
  /\ iter' = IF name \in {Null, <<>>} THEN NoNode ELSE Begin
  /\ UNCHANGED <<nodes, strings, current, reply>>

\* The characters from there on are those of the name, and its end.
CharAt(ptr, k) == IF ptr.at + k \in DOMAIN strings[ptr.page].text
                  THEN strings[ptr.page].text[ptr.at + k] ELSE Stale
Spelled(ptr, name) == \A k \in 1..(Len(name) + 1) : CharAt(ptr, k - 1) = Written(name)[k]

Matches(node) ==
  /\ node.name # Null
  /\ CharAt(node.name, 0) # Nul
  /\ Spelled(node.name, request.name)
  /\ request.bind = BindAny \/ request.bind \subseteq node.bind

Return(it) == /\ reply' = it
              /\ iter' = NoNode
              /\ request' = Null
              /\ stage' = "idle"

Hit ==
  /\ stage = "walk"
  /\ Defined(iter)
  /\ Matches(nodes[iter[1]][iter[2]])
  /\ Return(iter)
  /\ UNCHANGED <<nodes, strings, current>>

Step ==
  /\ stage = "walk"
  /\ Defined(iter)
  /\ ~Matches(nodes[iter[1]][iter[2]])
  /\ iter' = Advance(iter)
  /\ UNCHANGED <<nodes, strings, current, request, stage, reply>>

Miss ==
  /\ stage = "walk"
  /\ ~Defined(iter)
  /\ Return(NoNode)
  /\ UNCHANGED <<nodes, strings, current>>

-----------------------------------------------------------------------------
Call == \E name \in Names \union {Null}, bind \in Binds :
          CallMake(name, bind) \/ CallFind(name, bind)
Make == TakeNode \/ AddNodePage \/ Unnamed \/ TakeString \/ SkipPage \/ Spin
Find == Hit \/ Step \/ Miss

Next == Call \/ Make \/ Find

Spec == Init /\ [][Next]_vars

\* Both calls are loops of a running thread: a pass that can be made is made.
FairSpec == Spec /\ WF_vars(Make \/ Find)

-----------------------------------------------------------------------------
\* The variables have their types; all pages of nodes but the last are full, and no
\* page is used beyond its end.
TypeOK ==
  /\ nodes \in Seq(Seq([name : Pointers \union {Null}, bind : SUBSET BindAny]))
  /\ \A p \in DOMAIN nodes : /\ Len(nodes[p]) <= NodeRoom
                             /\ p < Len(nodes) => Len(nodes[p]) = NodeRoom
  /\ \A p \in DOMAIN strings : strings[p].used = 0 \/ strings[p].used - 1 \in DOMAIN strings[p].text
  /\ current \in [node : {0, Len(nodes)}, char : {0, Len(strings)}]
  /\ request \in Requests \union {Null}
  /\ stage \in {"idle", "node", "name", "walk"}
  /\ iter \in Nat \X Nat /\ reply \in Nat \X Nat

\* What the table looks like from outside: the symbols that were made, in order,
\* with the names that can be read from the pool.
Position(it) == (it[1] - 1) * NodeRoom + it[2]
NameAt(ptr) == IF ptr = Null THEN Null
               ELSE IF \E name \in Names : Spelled(ptr, name)
               THEN CHOOSE name \in Names : Spelled(ptr, name) ELSE <<Stale>>
Node(i) == nodes[((i - 1) \div NodeRoom) + 1][((i - 1) % NodeRoom) + 1]
Symbols == [i \in 1..(IF stage = "name" THEN Count - 1 ELSE Count) |->
              [name |-> NameAt(Node(i).name), bind |-> Node(i).bind]]

Directory == INSTANCE SymbolDirectory WITH
  Idle <- Null, Unnamed <- {Null, <<>>}, AnyBind <- BindAny,
  symbols <- Symbols,
  reply <- IF reply = NoNode THEN 0 ELSE Position(reply)

\* The table implements the directory: names are copied whole and apart, nothing
\* that is made later changes them, and a search passes over no symbol, on
\* whatever page, before it finds the first of the name.
ActsAsDirectory == Directory!Spec

\* Both calls return while malloc() has a page for a node and one for a name.
CallsReturn ==
  (request # Null /\ Len(nodes) + Len(strings) + 1 < HeapPages) ~> (request = Null)
=============================================================================
