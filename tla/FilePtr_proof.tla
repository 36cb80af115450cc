--------------------------- MODULE FilePtr_proof ---------------------------
(***************************************************************************)
(* Every control block counts its handles, whatever their number and that  *)
(* of the files.                                                           *)
(***************************************************************************)
EXTENDS FilePtr, FiniteSetTheorems, TLAPS

Pointers == [Handles -> Blocks \union {Null}]
Count(p, b) == Cardinality({h \in Handles : p[h] = b})
One(x, y) == IF x = y THEN 1 ELSE 0

\* A handle that is not constructed points nowhere.
DeadNull == \A h \in Handles \ live : ptr[h] = Null

IInv == TypeOK /\ DeadNull /\ HooksCount

-----------------------------------------------------------------------------
\* The handles of a block can be counted.
LEMMA CountNat ==
  ASSUME NEW p, NEW b
  PROVE  /\ IsFiniteSet({h \in Handles : p[h] = b})
         /\ Count(p, b) \in Nat
<1>1. IsFiniteSet({h \in Handles : p[h] = b})
  BY FS_Subset, FileAssumption
<1> QED
  BY <1>1, FS_CardinalityType DEF Count

\* Redirecting a handle takes one from the block it left and adds one to the other.
LEMMA Redirect ==
  ASSUME NEW p \in Pointers, NEW h \in Handles, NEW x \in Blocks \union {Null}, NEW b \in Blocks
  PROVE  /\ [p EXCEPT ![h] = x] \in Pointers
         /\ Count([p EXCEPT ![h] = x], b) = Count(p, b) - One(p[h], b) + One(x, b)
<1> DEFINE q == [p EXCEPT ![h] = x]
           P == {k \in Handles : p[k] = b}
           Q == {k \in Handles : q[k] = b}
           Rest == P \ {h}
<1>1. q \in Pointers
  BY DEF Pointers
<1>2. (h \in P <=> p[h] = b) /\ (h \in Q <=> x = b) /\ Q \ {h} = Rest
  BY DEF Pointers
<1>3. IsFiniteSet(P) /\ IsFiniteSet(Q)
  BY CountNat
<1>4. Count(p, b) = Cardinality(P) /\ Count(q, b) = Cardinality(Q)
  BY DEF Count
<1> HIDE DEF P, Q
<1>5. Cardinality(Rest) = Cardinality(P) - One(p[h], b)
  BY <1>2, <1>3, FS_RemoveElement, FS_CardinalityType DEF One
<1>6. Cardinality(Q \ {h}) = Cardinality(Q) - One(x, b)
  BY <1>2, <1>3, FS_RemoveElement, FS_CardinalityType DEF One
<1>7. Cardinality(P) \in Nat /\ Cardinality(Q) \in Nat
  BY <1>3, FS_CardinalityType
<1>8. Count(q, b) = Count(p, b) - One(p[h], b) + One(x, b)
  BY <1>2, <1>4, <1>5, <1>6, <1>7 DEF One
<1> QED
  BY <1>1, <1>8

\* A handle taken over by another: only what the other had loses one.
LEMMA TakenOver ==
  ASSUME NEW p \in Pointers, NEW h \in Handles, NEW g \in Handles, h # g, NEW b \in Blocks
  PROVE  /\ [p EXCEPT ![h] = p[g], ![g] = Null] \in Pointers
         /\ Count([p EXCEPT ![h] = p[g], ![g] = Null], b) = Count(p, b) - One(p[h], b)
<1> DEFINE q == [p EXCEPT ![h] = p[g]]
           r == [q EXCEPT ![g] = Null]
<1>1. p[g] \in Blocks \union {Null}
  BY DEF Pointers
<1>2. q \in Pointers /\ Count(q, b) = Count(p, b) - One(p[h], b) + One(p[g], b)
  BY <1>1, Redirect
<1>3. q[g] = p[g]
  BY DEF Pointers
<1> HIDE DEF q
<1>4. r \in Pointers /\ Count(r, b) = Count(q, b) - One(q[g], b) + One(Null, b)
  BY <1>2, Redirect
<1>5. One(Null, b) = 0 /\ One(p[g], b) \in Nat /\ One(p[h], b) \in Nat
  BY FileAssumption DEF One
<1>6. Count(p, b) \in Nat
  BY CountNat
<1> USE DEF q
<1> QED
  BY <1>2, <1>3, <1>4, <1>5, <1>6

\* A block that a handle points to is hooked.
LEMMA PointedHooked ==
  ASSUME IInv, NEW h \in Handles, ptr[h] # Null
  PROVE  ptr[h] \in Blocks /\ hooks[ptr[h]] > 0
<1>1. ptr \in Pointers /\ ptr[h] \in Blocks /\ lost[ptr[h]] \in Nat
  BY DEF IInv, TypeOK, Pointers
<1> DEFINE P == {k \in Handles : ptr[k] = ptr[h]}
<1>2. IsFiniteSet(P) /\ Cardinality(P) \in Nat /\ P # {}
  BY CountNat DEF Count
<1>3. Cardinality(P) # 0
  BY <1>2, FS_EmptySet
<1>4. hooks[ptr[h]] = Cardinality(P) + lost[ptr[h]]
  BY <1>1 DEF IInv, HooksCount, Holders
<1> QED
  BY <1>1, <1>2, <1>3, <1>4

\* Dropping what a handle points to takes one hook from that block.
LEMMA DropOne ==
  ASSUME IInv, NEW h \in Handles, NEW b \in Blocks
  PROVE  /\ Dropped(hooks, ptr[h]) \in [Blocks -> 0..MaxHooks]
         /\ Dropped(hooks, ptr[h])[b] = hooks[b] - One(ptr[h], b)
<1>1. hooks \in [Blocks -> 0..MaxHooks] /\ MaxHooks \in Nat
  BY FileAssumption DEF IInv, TypeOK
<1>2. CASE ptr[h] = Null
  BY <1>1, <1>2, FileAssumption DEF Dropped, One
<1>3. CASE ptr[h] # Null
  BY <1>1, <1>3, PointedHooked DEF Dropped, One
<1> QED
  BY <1>2, <1>3

\* Hooking a block adds one to it, or yields nothing.
LEMMA HookOne ==
  ASSUME NEW count \in [Blocks -> 0..MaxHooks], NEW x \in Blocks \union {Null}, NEW b \in Blocks
  PROVE  /\ Hooked(count, x).block \in Blocks \union {Null}
         /\ Hooked(count, x).count \in [Blocks -> 0..MaxHooks]
         /\ Hooked(count, x).count[b] = count[b] + One(Hooked(count, x).block, b)
<1>1. MaxHooks \in Nat /\ Null \notin Blocks
  BY FileAssumption
<1>2. CASE x # Null /\ count[x] < MaxHooks
  BY <1>1, <1>2 DEF Hooked, One
<1>3. CASE ~(x # Null /\ count[x] < MaxHooks)
  BY <1>1, <1>3 DEF Hooked, One
<1> QED
  BY <1>2, <1>3
-----------------------------------------------------------------------------
\* Without handles every count is zero.
LEMMA InitInv == Init => IInv
<1> SUFFICES ASSUME Init PROVE IInv
  OBVIOUS
<1>1. TypeOK /\ DeadNull
  BY FileAssumption DEF Init, TypeOK, DeadNull
<1>2. ASSUME NEW b \in Blocks PROVE hooks[b] = Cardinality(Holders(b)) + lost[b]
  <2>1. Holders(b) = {}
    BY FileAssumption DEF Init, Holders
  <2> QED
    BY <2>1, FS_EmptySet DEF Init
<1> QED
  BY <1>1, <1>2 DEF IInv, HooksCount

\* What a step has to keep of the counts, block by block.
LEMMA StepInv ==
  ASSUME IInv,
         live' \subseteq Handles, ptr' \in Pointers,
         hooks' \in [Blocks -> 0..MaxHooks], lost' \in [Blocks -> Nat],
         \A h \in Handles \ live' : ptr'[h] = Null,
         \A b \in Blocks :
           hooks'[b] - hooks[b] = Count(ptr', b) - Count(ptr, b) + lost'[b] - lost[b]
  PROVE  IInv'
<1>1. TypeOK' /\ DeadNull'
  BY DEF TypeOK, DeadNull, Pointers
<1>2. ASSUME NEW b \in Blocks PROVE hooks'[b] = Count(ptr', b) + lost'[b]
  <2>1. /\ hooks[b] = Count(ptr, b) + lost[b]
        /\ hooks[b] \in Nat /\ lost[b] \in Nat
    BY FileAssumption DEF IInv, HooksCount, Holders, Count, TypeOK
  <2>2. hooks'[b] \in Nat /\ lost'[b] \in Nat
    BY FileAssumption
  <2>3. Count(ptr, b) \in Nat /\ Count(ptr', b) \in Nat
    BY CountNat
  <2> QED
    BY <2>1, <2>2, <2>3
<1> QED
  BY <1>1, <1>2 DEF IInv, HooksCount, Holders, Count

\* What the types say of the current state.
LEMMA Types ==
  ASSUME IInv
  PROVE  /\ ptr \in Pointers
         /\ \A b \in Blocks : /\ hooks[b] \in Nat /\ lost[b] \in Nat
                              /\ Count(ptr, b) \in Nat
                              /\ hooks[b] = Count(ptr, b) + lost[b]
<1>1. \A b \in Blocks : Count(ptr, b) \in Nat
  BY CountNat
<1> QED
  BY <1>1, FileAssumption DEF IInv, TypeOK, Pointers, HooksCount, Holders, Count

\* make_file_cb() counts the one handle it makes.
LEMMA MakeInv == ASSUME IInv, NEW h \in Handles, Make(h) PROVE IInv'
<1>1. h \notin live /\ live' = live \union {h} /\ lost' = lost /\ ptr[h] = Null
  BY DEF Make, Construct, IInv, DeadNull
<1>2. CASE UNCHANGED <<ptr, hooks>>
  <2> QED
    BY <1>1, <1>2, Types, StepInv DEF IInv, TypeOK, DeadNull
<1>3. CASE \E b \in Blocks : /\ hooks[b] = 0
                             /\ ptr' = [ptr EXCEPT ![h] = b]
                             /\ hooks' = [hooks EXCEPT ![b] = 1]
  <2>1. PICK b \in Blocks : /\ hooks[b] = 0
                            /\ ptr' = [ptr EXCEPT ![h] = b]
                            /\ hooks' = [hooks EXCEPT ![b] = 1]
    BY <1>3
  <2>2. ptr' \in Pointers /\ hooks' \in [Blocks -> 0..MaxHooks]
    <3>1. ptr' \in Pointers
      BY <2>1, Types DEF Pointers
    <3>2. hooks \in [Blocks -> 0..MaxHooks] /\ 1 \in 0..MaxHooks
      BY FileAssumption DEF IInv, TypeOK
    <3> QED
      BY <2>1, <3>1, <3>2
  <2>3. ASSUME NEW c \in Blocks
        PROVE  hooks'[c] - hooks[c] = Count(ptr', c) - Count(ptr, c) + lost'[c] - lost[c]
    <3>1. Count(ptr', c) = Count(ptr, c) - One(ptr[h], c) + One(b, c)
      BY <2>1, Types, Redirect
    <3>2. hooks'[c] = hooks[c] + One(b, c) /\ One(ptr[h], c) = 0
      BY <1>1, <2>1, FileAssumption DEF One, IInv, TypeOK
    <3>3. One(b, c) \in Nat /\ hooks[c] \in Nat /\ Count(ptr, c) \in Nat /\ lost[c] \in Nat
      BY Types DEF One
    <3> QED
      BY <1>1, <3>1, <3>2, <3>3
  <2>4. \A k \in Handles \ live' : ptr'[k] = Null
    BY <1>1, <2>1 DEF IInv, DeadNull, TypeOK
  <2> QED
    BY <1>1, <2>2, <2>3, <2>4, StepInv DEF IInv, TypeOK
<1> QED
  BY <1>2, <1>3 DEF Make

\* A copy adds one to the count of the block it shares.
LEMMA CopyInv == ASSUME IInv, NEW h \in Handles, NEW g \in Handles, Copy(h, g) PROVE IInv'
<1> DEFINE x == Hooked(hooks, ptr[g]).block
<1>1. h \notin live /\ live' = live \union {h} /\ lost' = lost /\ ptr[h] = Null
  BY DEF Copy, Construct, IInv, DeadNull
<1>2. ptr' = [ptr EXCEPT ![h] = x] /\ hooks' = Hooked(hooks, ptr[g]).count
  BY DEF Copy
<1>3. hooks \in [Blocks -> 0..MaxHooks] /\ ptr[g] \in Blocks \union {Null}
  BY DEF IInv, TypeOK
<1>4. ASSUME NEW c \in Blocks
      PROVE  /\ x \in Blocks \union {Null}
             /\ hooks' \in [Blocks -> 0..MaxHooks] /\ ptr' \in Pointers
             /\ hooks'[c] - hooks[c] = Count(ptr', c) - Count(ptr, c) + lost'[c] - lost[c]
  <2>1. /\ x \in Blocks \union {Null} /\ hooks' \in [Blocks -> 0..MaxHooks]
        /\ hooks'[c] = hooks[c] + One(x, c)
    BY <1>2, <1>3, HookOne
  <2>2. ptr' \in Pointers /\ Count(ptr', c) = Count(ptr, c) - One(ptr[h], c) + One(x, c)
    BY <1>2, <2>1, Types, Redirect
  <2>3. One(ptr[h], c) = 0 /\ One(x, c) \in Nat
    BY <1>1, FileAssumption DEF One
  <2> QED
    BY <1>1, <2>1, <2>2, <2>3, Types
<1>5. x \in Blocks \union {Null} /\ hooks' \in [Blocks -> 0..MaxHooks] /\ ptr' \in Pointers
  <2>1. CASE Blocks = {}
    <3>1. ptr[g] = Null /\ x = Null /\ hooks' = hooks
      BY <1>2, <1>3, <2>1 DEF Hooked
    <3> QED
      BY <1>2, <1>3, <3>1, Types DEF Pointers
  <2>2. CASE Blocks # {}
    BY <1>4, <2>2
  <2> QED
    BY <2>1, <2>2
<1>6. \A k \in Handles \ live' : ptr'[k] = Null
  BY <1>1, <1>2 DEF IInv, DeadNull, TypeOK
<1> QED
  BY <1>1, <1>4, <1>5, <1>6, StepInv DEF IInv, TypeOK

\* Moving hands a block from one handle to another: no count changes.
LEMMA MoveInv ==
  ASSUME IInv, NEW h \in Handles, NEW g \in Handles, Move(h, g) PROVE IInv'
<1>1. /\ h \notin live /\ g \in live /\ live' = live \union {h} /\ h # g
      /\ lost' = lost /\ hooks' = hooks /\ ptr[h] = Null
      /\ ptr' = [ptr EXCEPT ![h] = ptr[g], ![g] = Null]
  BY DEF Move, Construct, IInv, DeadNull
<1>2. ptr' \in Pointers
  BY <1>1, Types DEF Pointers
<1>3. ASSUME NEW c \in Blocks
      PROVE  hooks'[c] - hooks[c] = Count(ptr', c) - Count(ptr, c) + lost'[c] - lost[c]
  <2>1. Count(ptr', c) = Count(ptr, c) - One(ptr[h], c)
    BY <1>1, Types, TakenOver
  <2>2. One(ptr[h], c) = 0
    BY <1>1, FileAssumption DEF One
  <2> QED
    BY <1>1, <2>1, <2>2, Types
<1>4. \A k \in Handles \ live' : ptr'[k] = Null
  BY <1>1 DEF IInv, DeadNull, TypeOK
<1> QED
  BY <1>1, <1>2, <1>3, <1>4, StepInv DEF IInv, TypeOK

\* What is dropped in front of an assignment.
LEMMA DroppedType ==
  ASSUME IInv, NEW h \in Handles
  PROVE  Dropped(hooks, ptr[h]) \in [Blocks -> 0..MaxHooks]
<1>1. CASE Blocks = {}
  BY <1>1 DEF Dropped, IInv, TypeOK
<1>2. CASE Blocks # {}
  BY <1>2, DropOne
<1> QED
  BY <1>1, <1>2

\* Copy assignment drops one block and hooks another, or the same.
LEMMA AssignCopyInv ==
  ASSUME IInv, NEW h \in Handles, NEW g \in Handles, AssignCopy(h, g) PROVE IInv'
<1> DEFINE d == Dropped(hooks, ptr[h])
           x == Hooked(d, ptr[g]).block
<1>1. h \in live /\ live' = live /\ lost' = lost
  BY DEF AssignCopy
<1>2. ptr' = [ptr EXCEPT ![h] = x] /\ hooks' = Hooked(d, ptr[g]).count
  BY DEF AssignCopy
<1>3. d \in [Blocks -> 0..MaxHooks] /\ ptr[g] \in Blocks \union {Null}
  BY DroppedType DEF IInv, TypeOK
<1>4. x \in Blocks \union {Null} /\ hooks' \in [Blocks -> 0..MaxHooks]
  <2>1. CASE Blocks = {}
    <3>1. ptr[g] = Null /\ x = Null /\ hooks' = d
      BY <1>2, <1>3, <2>1 DEF Hooked
    <3> QED
      BY <1>3, <3>1
  <2>2. CASE Blocks # {}
    BY <1>2, <1>3, <2>2, HookOne
  <2> QED
    BY <2>1, <2>2
<1>5. ptr' \in Pointers
  BY <1>2, <1>4, Types DEF Pointers
<1>6. ASSUME NEW c \in Blocks
      PROVE  hooks'[c] - hooks[c] = Count(ptr', c) - Count(ptr, c) + lost'[c] - lost[c]
  <2>1. d[c] = hooks[c] - One(ptr[h], c)
    BY DropOne
  <2>2. hooks'[c] = d[c] + One(x, c)
    BY <1>2, <1>3, HookOne
  <2>3. Count(ptr', c) = Count(ptr, c) - One(ptr[h], c) + One(x, c)
    BY <1>2, <1>4, Types, Redirect
  <2>4. One(ptr[h], c) \in Nat /\ One(x, c) \in Nat
    BY DEF One
  <2> QED
    BY <1>1, <2>1, <2>2, <2>3, <2>4, Types
<1>7. \A k \in Handles \ live' : ptr'[k] = Null
  BY <1>1, <1>2 DEF IInv, DeadNull, TypeOK
<1> QED
  BY <1>1, <1>4, <1>5, <1>6, <1>7, StepInv DEF IInv, TypeOK

\* Move assignment drops one block and takes over another.
LEMMA AssignMoveInv ==
  ASSUME IInv, NEW h \in Handles, NEW g \in Handles, AssignMove(h, g) PROVE IInv'
<1>1. /\ h \in live /\ g \in live /\ live' = live /\ h # g /\ lost' = lost
      /\ hooks' = Dropped(hooks, ptr[h])
      /\ ptr' = [ptr EXCEPT ![h] = ptr[g], ![g] = Null]
  BY DEF AssignMove
<1>2. ptr' \in Pointers /\ hooks' \in [Blocks -> 0..MaxHooks]
  BY <1>1, Types, DroppedType DEF Pointers
<1>3. ASSUME NEW c \in Blocks
      PROVE  hooks'[c] - hooks[c] = Count(ptr', c) - Count(ptr, c) + lost'[c] - lost[c]
  <2>1. Count(ptr', c) = Count(ptr, c) - One(ptr[h], c)
    BY <1>1, Types, TakenOver
  <2>2. hooks'[c] = hooks[c] - One(ptr[h], c)
    BY <1>1, DropOne
  <2>3. One(ptr[h], c) \in Nat
    BY DEF One
  <2> QED
    BY <1>1, <2>1, <2>2, <2>3, Types
<1>4. \A k \in Handles \ live' : ptr'[k] = Null
  BY <1>1 DEF IInv, DeadNull, TypeOK
<1> QED
  BY <1>1, <1>2, <1>3, <1>4, StepInv DEF IInv, TypeOK

\* dispose() and the destructor drop what the handle has.
LEMMA DisposeInv == ASSUME IInv, NEW h \in Handles, Dispose(h) PROVE IInv'
<1>1. /\ live' \in {live, live \ {h}} /\ lost' = lost
      /\ hooks' = Dropped(hooks, ptr[h])
      /\ ptr' = [ptr EXCEPT ![h] = Null]
  BY DEF Dispose
<1>2. ptr' \in Pointers /\ hooks' \in [Blocks -> 0..MaxHooks]
  BY <1>1, Types, DroppedType DEF Pointers
<1>3. ASSUME NEW c \in Blocks
      PROVE  hooks'[c] - hooks[c] = Count(ptr', c) - Count(ptr, c) + lost'[c] - lost[c]
  <2>1. Count(ptr', c) = Count(ptr, c) - One(ptr[h], c) + One(Null, c)
    <3>1. Null \in Blocks \union {Null} /\ ptr \in Pointers
      BY Types
    <3> QED
      BY <1>1, <3>1, Redirect
  <2>2. hooks'[c] = hooks[c] - One(ptr[h], c)
    BY <1>1, DropOne
  <2>3. One(ptr[h], c) \in Nat /\ One(Null, c) = 0
    BY FileAssumption DEF One
  <2> QED
    BY <1>1, <2>1, <2>2, <2>3, Types
<1>4. \A k \in Handles \ live' : ptr'[k] = Null
  BY <1>1 DEF IInv, DeadNull, TypeOK
<1> QED
  BY <1>1, <1>2, <1>3, <1>4, StepInv DEF IInv, TypeOK

\* release() turns a hook that a handle held into one that nobody holds.
LEMMA ReleaseInv == ASSUME IInv, NEW h \in Handles, Release(h) PROVE IInv'
<1> DEFINE b == ptr[h]
<1>1. /\ h \in live /\ live' = live /\ hooks' = hooks /\ b \in Blocks
      /\ lost' = [lost EXCEPT ![b] = @ + 1]
      /\ ptr' = [ptr EXCEPT ![h] = Null]
  BY PointedHooked DEF Release
<1>2. ptr' \in Pointers /\ lost' \in [Blocks -> Nat]
  BY <1>1, Types DEF Pointers, IInv, TypeOK
<1>3. ASSUME NEW c \in Blocks
      PROVE  hooks'[c] - hooks[c] = Count(ptr', c) - Count(ptr, c) + lost'[c] - lost[c]
  <2>1. Count(ptr', c) = Count(ptr, c) - One(b, c) + One(Null, c)
    BY <1>1, Types, Redirect
  <2>2. lost'[c] = lost[c] + One(b, c)
    BY <1>1 DEF IInv, TypeOK, One
  <2>3. One(b, c) \in Nat /\ One(Null, c) = 0
    BY FileAssumption DEF One
  <2> QED
    BY <1>1, <2>1, <2>2, <2>3, Types
<1>4. \A k \in Handles \ live' : ptr'[k] = Null
  BY <1>1 DEF IInv, DeadNull, TypeOK
<1> QED
  BY <1>1, <1>2, <1>3, <1>4, StepInv DEF IInv, TypeOK

-----------------------------------------------------------------------------
\* The counts are right after every sequence of constructions, assignments and
\* destructions of handles.
THEOREM Invariance == Spec => []IInv
<1>1. IInv /\ [Next]_vars => IInv'
  <2> SUFFICES ASSUME IInv, [Next]_vars PROVE IInv'
    OBVIOUS
  <2>1. CASE UNCHANGED vars
    BY <2>1 DEF vars, IInv, TypeOK, DeadNull, HooksCount, Holders
  <2>2. CASE \E h \in Handles : Make(h) \/ Dispose(h) \/ Release(h)
    BY <2>2, MakeInv, DisposeInv, ReleaseInv
  <2>3. CASE \E h, g \in Handles : Copy(h, g) \/ Move(h, g) \/ AssignCopy(h, g) \/ AssignMove(h, g)
    BY <2>3, CopyInv, MoveInv, AssignCopyInv, AssignMoveInv
  <2> QED
    BY <2>1, <2>2, <2>3 DEF Next
<1> QED
  BY <1>1, InitInv, PTL DEF Spec

\* A file is closed when, and not before, the last handle that shares it is gone,
\* unless one was released (file.cpp, hook() and drop()).
THEOREM Counting == Spec => []HooksCount
BY Invariance, PTL DEF IInv

\* The types of file_ptr's state.
THEOREM TypeCorrect == Spec => []TypeOK
BY Invariance, PTL DEF IInv

-----------------------------------------------------------------------------
(***************************************************************************)
(* Refinement of FileShare.  With the counts right, a block exists exactly *)
(* when a handle has it or one was released from it, so what a step closes *)
(* follows from where the handles point.                                   *)
(***************************************************************************)
LEMMA OpenHeld ==
  ASSUME NEW p, NEW b, NEW extra \in Nat
  PROVE  Count(p, b) + extra > 0 <=> (\E k \in Handles : p[k] = b) \/ extra > 0
<1> DEFINE P == {k \in Handles : p[k] = b}
<1>1. IsFiniteSet(P) /\ Cardinality(P) \in Nat /\ Count(p, b) = Cardinality(P)
  BY CountNat DEF Count
<1>2. Cardinality(P) = 0 <=> P = {}
  BY <1>1, FS_EmptySet
<1> QED
  BY <1>1, <1>2

open == {b \in Blocks : hooks[b] > 0}
kept == {b \in Blocks : lost[b] > 0}

\* A step that only passes blocks among the handles closes what it should.
LEMMA PassRefines ==
  ASSUME IInv, IInv', NEW h \in Handles, NEW g \in Handles, lost' = lost,
         ptr' \in {[ptr EXCEPT ![h] = ptr[g]], [ptr EXCEPT ![h] = ptr[g], ![g] = Null],
                   [ptr EXCEPT ![h] = Null]}
  PROVE  Share!Pass(h, g)
<1>1. ptr \in Pointers /\ ptr' \in Pointers
  BY Types DEF IInv, TypeOK, Pointers
<1>2. kept' = kept
  BY DEF kept
<1>3. ASSUME NEW b \in Blocks, NEW k \in Handles, ptr'[k] = b
      PROVE  \E j \in Handles : ptr[j] = b
  <2>1. ptr'[k] = ptr[k] \/ ptr'[k] = ptr[g] \/ ptr'[k] = Null
    BY <1>1 DEF Pointers
  <2> QED
    BY <1>3, <2>1, FileAssumption
<1>4. \A b \in Blocks : hooks'[b] > 0 <=> (\E k \in Handles : ptr'[k] = b) \/ lost[b] > 0
  <2>1. \A b \in Blocks : hooks'[b] = Count(ptr', b) + lost[b] /\ lost[b] \in Nat
    BY DEF IInv, HooksCount, Holders, Count, TypeOK
  <2> QED
    BY <2>1, OpenHeld
<1>5. \A b \in Blocks : hooks[b] > 0 <=> (\E k \in Handles : ptr[k] = b) \/ lost[b] > 0
  BY Types, OpenHeld
<1>6. open' = open \ Share!Closing
  BY <1>3, <1>4, <1>5 DEF open, kept, Share!Closing, Share!Held
<1> QED
  BY <1>2, <1>6 DEF Share!Pass, open, kept

\* Each step of the handles is one of FileShare.
LEMMA NextRefines == IInv /\ IInv' /\ [Next]_vars => [Share!Next]_<<ptr, open, kept>>
<1> SUFFICES ASSUME IInv, IInv', [Next]_vars
             PROVE  Share!Next \/ UNCHANGED <<ptr, open, kept>>
  OBVIOUS
<1>1. CASE UNCHANGED vars
  BY <1>1 DEF vars, open, kept
<1>2. ASSUME NEW h \in Handles, Make(h) PROVE Share!Next \/ UNCHANGED <<ptr, open, kept>>
  <2>1. CASE UNCHANGED <<ptr, hooks>>
    BY <1>2, <2>1 DEF Make, open, kept
  <2>2. CASE ~UNCHANGED <<ptr, hooks>>
    <3>1. PICK b \in Blocks : /\ hooks[b] = 0
                              /\ ptr' = [ptr EXCEPT ![h] = b]
                              /\ hooks' = [hooks EXCEPT ![b] = 1]
      BY <1>2, <2>2 DEF Make
    <3>2. ptr[h] = Null /\ lost' = lost
      BY <1>2 DEF Make, Construct, IInv, DeadNull
    <3>3. b \in Blocks \ open /\ open' = open \union {b} /\ kept' = kept
      BY <3>1, <3>2, FileAssumption DEF open, kept, IInv, TypeOK
    <3> QED
      BY <3>1, <3>2, <3>3 DEF Share!Next, Share!Open, open, kept
  <2> QED
    BY <2>1, <2>2
<1>3. ASSUME NEW h \in Handles, Dispose(h) PROVE Share!Next
  BY <1>3, PassRefines DEF Dispose, Share!Next
<1>4. ASSUME NEW h \in Handles, Release(h) PROVE Share!Next
  <2>1. /\ ptr[h] \in Blocks /\ ptr[h] # Null /\ hooks' = hooks
        /\ ptr' = [ptr EXCEPT ![h] = Null] /\ lost' = [lost EXCEPT ![ptr[h]] = @ + 1]
    BY <1>4, PointedHooked DEF Release
  <2>2. kept' = kept \union {ptr[h]} /\ open' = open
    BY <2>1 DEF kept, open, IInv, TypeOK
  <2> QED
    BY <2>1, <2>2 DEF Share!Next, Share!LetGo, open, kept
<1>5. ASSUME NEW h \in Handles, NEW g \in Handles, Copy(h, g) \/ AssignCopy(h, g)
      PROVE  Share!Next
  <2>1. \E count : ptr' = [ptr EXCEPT ![h] = Hooked(count, ptr[g]).block] /\ lost' = lost
    BY <1>5 DEF Copy, AssignCopy
  <2>2. ptr' = [ptr EXCEPT ![h] = ptr[g]] \/ ptr' = [ptr EXCEPT ![h] = Null]
    BY <2>1 DEF Hooked
  <2> QED
    BY <2>1, <2>2, PassRefines DEF Share!Next
<1>6. ASSUME NEW h \in Handles, NEW g \in Handles, Move(h, g) \/ AssignMove(h, g)
      PROVE  Share!Next
  BY <1>6, PassRefines DEF Move, AssignMove, Share!Next
<1> QED
  BY <1>1, <1>2, <1>3, <1>4, <1>5, <1>6 DEF Next

\* The handles share files as FileShare says, for any number of handles and files.
THEOREM Sharing == Spec => Shares
<1>1. Init => Share!Init
  BY FileAssumption DEF Init, Share!Init
<1> QED
  BY <1>1, NextRefines, Invariance, PTL DEF Spec, Shares, Share!Spec, open, kept
=============================================================================
