-------------------------- MODULE DataCache_proof --------------------------
(***************************************************************************)
(* A cache read byte by byte is coherent, for every file, buffer step and  *)
(* sequence of calls and faults.  Such a reader fetches only when its      *)
(* window is used up, which leaves data_index = read_size; what has to be  *)
(* shown is that the refill then covers the index it goes on at: it reads  *)
(* all the buffer has room for, unless the buffer would be filled by the   *)
(* one byte wanted, and that never happens because a window is either a    *)
(* whole number of steps long or ends where the file does.                 *)
(***************************************************************************)
EXTENDS DataCache, SequenceTheorems, TLAPS

Mult(n) == \E k \in Nat : n = k * Step

WindowEnds == \/ Mult(read_size)
              \/ read_offset + read_size = FileSize
WindowInFile == read_size > 0 => read_offset + read_size <= FileSize

IInv == TypeOK /\ Coherent /\ ScanIntact /\ Mult(data_size) /\ WindowEnds /\ WindowInFile

-----------------------------------------------------------------------------
\* A rounded size covers the size, and is a whole number of steps.
LEMMA RoundUpCovers ==
  ASSUME NEW n \in Nat
  PROVE  RoundUp(n) \in Nat /\ RoundUp(n) >= n /\ Mult(RoundUp(n))
<1> DEFINE q == (n + Step - 1) \div Step
<1>1. Step \in Nat \ {0, 1} /\ n + Step - 1 \in Nat
  BY CacheAssumption
<1>2. q \in Nat /\ n + Step - 1 < q * Step + Step
  BY <1>1
<1>3. RoundUp(n) = q * Step
  BY DEF RoundUp
<1> HIDE DEF q
<1>4. q * Step \in Nat
  BY <1>1, <1>2
<1> QED
  BY <1>1, <1>2, <1>3, <1>4 DEF Mult

\* Two whole numbers of steps are at least two bytes apart.
LEMMA StepApart ==
  ASSUME NEW a \in Nat, NEW b \in Nat, Mult(a), Mult(b), a < b
  PROVE  a + 1 < b
<1>1. PICK j \in Nat, k \in Nat : a = j * Step /\ b = k * Step
  BY DEF Mult
<1>2. Step \in Nat /\ Step >= 2
  BY CacheAssumption
<1>3. j < k
  <2> SUFFICES ASSUME k <= j PROVE FALSE
    BY <1>1
  <2>1. k * Step <= j * Step
    BY <1>2
  <2> QED
    BY <1>1, <2>1
<1>4. (j + 1) * Step <= k * Step
  BY <1>2, <1>3
<1>5. (j + 1) * Step = j * Step + Step
  BY <1>2
<1> QED
  BY <1>1, <1>2, <1>4, <1>5

\* An empty window satisfies the invariant.
LEMMA InitInv == Init => IInv
<1> SUFFICES ASSUME Init PROVE IInv
  OBVIOUS
<1>1. Mult(0)
  BY CacheAssumption DEF Mult
<1>2. locks \in Seq([index : Nat, pos : Nat]) /\ Len(locks) = 0
  BY DEF Init
<1> QED
  BY <1>1, <1>2, CacheAssumption
     DEF Init, IInv, TypeOK, Coherent, ScanIntact, WindowEnds, WindowInFile

\* The buffer that grew, or not, for a byte behind the window.
LEMMA Room ==
  ASSUME IInv, data_index = read_size
  PROVE  /\ Grown(read_size + 1) \in Nat
         /\ Grown(read_size + 1) >= data_size
         /\ Grown(read_size + 1) > read_size
         /\ Mult(Grown(read_size + 1))
         /\ Mult(read_size) => data_index + 1 < Grown(read_size + 1)
<1>1. read_size \in Nat /\ data_size \in Nat /\ read_size <= data_size /\ Mult(data_size)
  BY DEF IInv, TypeOK
<1>2. /\ RoundUp(read_size + 1) \in Nat /\ RoundUp(read_size + 1) >= read_size + 1
      /\ Mult(RoundUp(read_size + 1))
  BY <1>1, RoundUpCovers
<1>3. /\ Grown(read_size + 1) \in Nat
      /\ Grown(read_size + 1) >= data_size
      /\ Grown(read_size + 1) > read_size
      /\ Mult(Grown(read_size + 1))
  BY <1>1, <1>2 DEF Grown
<1> QED
  BY <1>1, <1>3, StepApart

\* A fetch of one byte: nothing is kept and the window is not moved.
LEMMA OneByte ==
  ASSUME IInv, Over(1) > 0, Defined(1)
  PROVE  /\ data_index = read_size /\ Keep = 0
         /\ Shifted(1) = [offset |-> read_offset, index |-> data_index, size |-> read_size,
                          keep |-> 0, over |-> 1]
<1>1. data_index \in Nat /\ read_size \in Nat /\ read_offset \in Nat
      /\ data_index <= read_size
  BY DEF IInv, TypeOK
<1>2. data_index = read_size /\ Keep = 0 /\ Over(1) = 1
  BY <1>1 DEF Over, Keep
<1>3. Shift(1) = 0
  BY <1>2 DEF Shift
<1> QED
  BY <1>1, <1>2, <1>3 DEF Shifted

\* What a refill makes of the window, given how much was read.
LEMMA RefillSize ==
  ASSUME IInv, ByByte, Wanted(1), Over(1) > 0, Defined(1),
         NEW room, room = Grown(read_size + 1),
         NEW size, size = Least(ReadSize(Shifted(1), 1, room), FileSize - read_offset)
  PROVE  /\ Clamped(read_offset) = read_offset
         /\ read_offset < FileSize
         /\ size \in 1..room
         /\ size <= FileSize - read_offset
         /\ data_index + 1 <= size
         /\ Mult(size) \/ read_offset + size = FileSize
<1>1. /\ data_index \in Nat /\ read_offset \in Nat /\ FileSize \in Nat /\ ReadLimit \in Nat
      /\ data_index = read_size
  BY OneByte, CacheAssumption DEF IInv, TypeOK
<1>2. read_offset + data_index + 1 <= FileSize
  BY <1>1 DEF Wanted, ByByte
<1>3. room \in Nat /\ room > read_size /\ Mult(room) /\ (Mult(read_size) => data_index + 1 < room)
  BY <1>1, Room
<1>4. Mult(read_size)
  BY <1>1, <1>2 DEF IInv, WindowEnds
<1>5. ReadSize(Shifted(1), 1, room) = room
  BY <1>1, <1>3, <1>4, OneByte DEF ReadSize
<1>6. size = IF room < FileSize - read_offset THEN room ELSE FileSize - read_offset
  BY <1>5 DEF Least
<1>7. Clamped(read_offset) = read_offset
  BY <1>1, <1>2 DEF Clamped, Least
<1> QED
  BY <1>1, <1>2, <1>3, <1>4, <1>6, <1>7

-----------------------------------------------------------------------------
\* Bytes read from the start of the window on are those of the file.
LEMMA FilledBytes ==
  ASSUME IInv, NEW room \in Nat, NEW size \in 0..room, read_offset + size <= FileSize
  PROVE  /\ Filled(room, 0, read_offset, size) \in [1..room -> {Junk} \union 0..(FileSize - 1)]
         /\ \A k \in 1..size : Filled(room, 0, read_offset, size)[k] = read_offset + k - 1
<1>1. /\ read_offset \in Nat /\ data_size \in Nat /\ FileSize \in Nat
      /\ buffer \in [1..data_size -> {Junk} \union 0..(FileSize - 1)]
  BY CacheAssumption DEF IInv, TypeOK
<1>2. ASSUME NEW k \in 1..room
      PROVE  /\ Filled(room, 0, read_offset, size)[k] \in {Junk} \union 0..(FileSize - 1)
             /\ k <= size => Filled(room, 0, read_offset, size)[k] = read_offset + k - 1
  <2>1. Filled(room, 0, read_offset, size)[k] =
          IF k > 0 /\ k <= 0 + size THEN read_offset + k - 0 - 1
          ELSE IF k <= data_size THEN buffer[k] ELSE Junk
    BY DEF Filled
  <2> QED
    BY <1>1, <2>1
<1>3. Filled(room, 0, read_offset, size) =
        [k \in 1..room |-> Filled(room, 0, read_offset, size)[k]]
  BY DEF Filled
<1> QED
  BY <1>2, <1>3

\* A buffer that only grows keeps the window.
LEMMA FilledKeeps ==
  ASSUME IInv, NEW room \in Nat, room >= data_size
  PROVE  /\ Filled(room, 0, 0, 0) \in [1..room -> {Junk} \union 0..(FileSize - 1)]
         /\ \A k \in 1..data_size : Filled(room, 0, 0, 0)[k] = buffer[k]
<1>1. /\ data_size \in Nat
      /\ buffer \in [1..data_size -> {Junk} \union 0..(FileSize - 1)]
  BY DEF IInv, TypeOK
<1>2. \A k \in 1..room : Filled(room, 0, 0, 0)[k] = IF k <= data_size THEN buffer[k] ELSE Junk
  BY DEF Filled
<1>3. Filled(room, 0, 0, 0) = [k \in 1..room |-> Filled(room, 0, 0, 0)[k]]
  BY DEF Filled
<1> QED
  BY <1>1, <1>2, <1>3

\* An index behind a mark is in the window.
LEMMA Within ==
  ASSUME NEW mark \in Nat, NEW index \in Nat, NEW size \in Nat, index <= size,
         NEW k \in mark..(index - 1)
  PROVE  k \in Int /\ k + 1 \in 1..size
OBVIOUS

\* The locks stay right when the window stays and the index does not go back.
LEMMA LocksKept ==
  ASSUME IInv, locks' = locks, read_offset' = read_offset,
         data_index' \in Nat, data_index' >= data_index, data_index' <= read_size',
         read_size' \in Nat, Coherent'
  PROVE  ScanIntact'
<1>1. locks \in Seq([index : Nat, pos : Nat]) /\ data_index \in Nat
  BY DEF IInv, TypeOK
<1>2. ASSUME NEW l \in 1..Len(locks)
      PROVE  /\ locks[l].index <= data_index'
             /\ read_offset' + locks[l].index = locks[l].pos
             /\ \A k \in locks[l].index..(data_index' - 1) : buffer'[k + 1] = read_offset' + k
  <2> DEFINE mark == locks[l].index
  <2>1. mark \in Nat
    <3>1. locks[l] \in [index : Nat, pos : Nat]
      BY <1>1, ElementOfSeq
    <3> QED
      BY <3>1
  <2>2. mark <= data_index /\ read_offset + mark = locks[l].pos
    BY DEF IInv, ScanIntact
  <2> HIDE DEF mark
  <2>3. ASSUME NEW k \in mark..(data_index' - 1)
        PROVE  buffer'[k + 1] = read_offset' + k
    <3>1. k \in Int /\ k + 1 \in 1..read_size'
      BY <2>1, <2>3, Within
    <3>2. buffer'[k + 1] = read_offset' + (k + 1) - 1
      BY <3>1 DEF Coherent
    <3>3. read_offset' \in Int
      BY DEF IInv, TypeOK
    <3> QED
      BY <3>1, <3>2, <3>3
  <2>4. mark <= data_index' /\ read_offset' + mark = locks[l].pos
    BY <1>1, <2>1, <2>2
  <2> USE DEF mark
  <2> QED
    BY <2>3, <2>4
<1> QED
  BY <1>2 DEF ScanIntact

\* raw_get() from the window moves the index only.
LEMMA HeldInv ==
  ASSUME IInv, GetHeld(1) PROVE IInv'
<1>1. /\ data_index' = data_index + 1 /\ data_index + 1 <= read_size
      /\ UNCHANGED <<read_offset, read_size, data_size, buffer, file_pos, locks>>
      /\ data_index \in Nat /\ read_size \in Nat
  BY DEF GetHeld, Over, IInv, TypeOK
<1>2. TypeOK'
  BY <1>1 DEF IInv, TypeOK
<1>3. Coherent' /\ Mult(data_size)' /\ WindowEnds' /\ WindowInFile'
  BY <1>1 DEF IInv, Coherent, Mult, WindowEnds, WindowInFile
<1>4. ScanIntact'
  BY <1>1, <1>3, LocksKept
<1> QED
  BY <1>2, <1>3, <1>4 DEF IInv

\* A refill that fails leaves the window where it was, over a buffer that may have grown.
LEMMA FailsInv ==
  ASSUME IInv, Over(1) > 0, Defined(1), FetchFails(1), locks' = locks PROVE IInv'
<1>1. /\ data_index = read_size
      /\ Shifted(1) = [offset |-> read_offset, index |-> data_index, size |-> read_size,
                       keep |-> 0, over |-> 1]
      /\ read_offset \in Nat /\ data_index \in Nat /\ FileSize \in Nat
      /\ data_size \in Nat /\ read_size <= data_size /\ file_pos \in 0..FileSize
  BY OneByte, CacheAssumption DEF IInv, TypeOK
<1>2. read_offset' = read_offset /\ data_index' = data_index /\ read_size' = read_size
  BY <1>1 DEF Start, FetchFails
<1>3. \/ UNCHANGED <<data_size, buffer, file_pos>>
      \/ /\ data_size' = Grown(read_size + 1)
         /\ buffer' = Filled(data_size', 0, 0, 0)
         /\ file_pos' = file_pos \/ file_pos' = Clamped(read_offset)
  BY <1>1 DEF Start, FetchFails
<1>4. /\ data_size' \in Nat /\ data_size' >= data_size /\ Mult(data_size)'
      /\ buffer' \in [1..data_size' -> {Junk} \union 0..(FileSize - 1)]
      /\ \A k \in 1..data_size : buffer'[k] = buffer[k]
      /\ file_pos' \in 0..FileSize
  <2>1. CASE UNCHANGED <<data_size, buffer, file_pos>>
    BY <1>1, <2>1 DEF IInv, TypeOK, Mult
  <2>2. CASE /\ data_size' = Grown(read_size + 1)
             /\ buffer' = Filled(data_size', 0, 0, 0)
             /\ file_pos' = file_pos \/ file_pos' = Clamped(read_offset)
    <3>1. /\ data_size' \in Nat /\ data_size' >= data_size /\ Mult(data_size)'
      BY <1>1, <2>2, Room DEF Mult
    <3>2. Clamped(read_offset) \in 0..FileSize
      BY <1>1 DEF Clamped, Least
    <3> QED
      BY <1>1, <2>2, <3>1, <3>2, FilledKeeps
  <2> QED
    BY <1>3, <2>1, <2>2
<1>5. TypeOK'
  BY <1>1, <1>2, <1>4 DEF IInv, TypeOK
<1>6. Coherent' /\ WindowEnds' /\ WindowInFile'
  BY <1>1, <1>2, <1>4 DEF IInv, Coherent, Mult, WindowEnds, WindowInFile
<1>7. ScanIntact'
  BY <1>1, <1>2, <1>6, LocksKept
<1> QED
  BY <1>4, <1>5, <1>6, <1>7 DEF IInv

\* A refill that reads appends bytes of the file to the window.
LEMMA ReadsInv ==
  ASSUME IInv, ByByte, Wanted(1), Over(1) > 0, Defined(1), FetchReads(1), locks' = locks
  PROVE  IInv'
<1> DEFINE room == Grown(read_size + 1)
           size == Least(ReadSize(Shifted(1), 1, room), FileSize - read_offset)
<1>1. /\ data_index = read_size
      /\ Shifted(1) = [offset |-> read_offset, index |-> data_index, size |-> read_size,
                       keep |-> 0, over |-> 1]
      /\ read_offset \in Nat /\ data_index \in Nat /\ FileSize \in Nat /\ data_size \in Nat
  BY OneByte, CacheAssumption DEF IInv, TypeOK
<1>2. /\ Clamped(read_offset) = read_offset
      /\ read_offset < FileSize
      /\ size \in 1..room
      /\ size <= FileSize - read_offset
      /\ data_index + 1 <= size
      /\ Mult(size) \/ read_offset + size = FileSize
  BY RefillSize
<1>3. room \in Nat /\ Mult(room)
  BY <1>1, Room
<1>4. /\ read_offset' = read_offset /\ read_size' = 0 + size /\ data_size' = room
      /\ buffer' = Filled(room, 0, read_offset, size)
      /\ file_pos' = read_offset + size
      /\ data_index' = data_index + 1
  <2>1. /\ Shifted(1).offset = read_offset /\ Shifted(1).keep = 0
        /\ Shifted(1).index = data_index
        /\ Clamped(Shifted(1).offset + Shifted(1).keep) = read_offset
        /\ Grown(Shifted(1).size + Shifted(1).over) = room
    BY <1>1, <1>2
  <2>2. size > 0
    BY <1>2, <1>3
  <2> HIDE DEF size, room
  <2>3. /\ read_offset' = read_offset
        /\ read_size' = 0 + size
        /\ data_size' = room
        /\ buffer' = Filled(room, 0, read_offset, size)
        /\ file_pos' = read_offset + size
    BY <2>1 DEF Start, FetchReads, size
  <2>4. data_index' = data_index + 1
    BY <2>1, <2>2 DEF Start, FetchReads, size
  <2> QED
    BY <2>3, <2>4
<1> HIDE DEF room, size
<1>5. TypeOK' /\ Mult(data_size)'
  <2>1. buffer' \in [1..data_size' -> {Junk} \union 0..(FileSize - 1)]
    <3>1. size \in 0..room /\ read_offset + size <= FileSize
      BY <1>1, <1>2, <1>3
    <3> QED
      BY <1>3, <1>4, <3>1, FilledBytes
  <2>2. /\ read_offset' \in Nat /\ data_size' \in Nat /\ file_pos' \in 0..FileSize
        /\ read_size' \in 0..data_size' /\ data_index' \in 0..read_size'
    BY <1>1, <1>2, <1>3, <1>4
  <2>3. Mult(data_size)'
    BY <1>3, <1>4 DEF Mult
  <2> QED
    BY <2>1, <2>2, <2>3 DEF IInv, TypeOK
<1>6. Coherent' /\ WindowEnds' /\ WindowInFile'
  BY <1>1, <1>2, <1>3, <1>4, FilledBytes DEF IInv, Coherent, Mult, WindowEnds, WindowInFile
<1>7. ScanIntact'
  BY <1>1, <1>2, <1>3, <1>4, <1>6, LocksKept
<1> QED
  BY <1>5, <1>6, <1>7 DEF IInv

\* At the end of the file, or behind it, nothing is read: the window stays empty.
LEMMA BeyondInv ==
  ASSUME IInv, FileSize <= read_offset, FetchFails(1) \/ FetchReads(1), locks' = locks
  PROVE  /\ IInv' /\ data_index = 0 /\ data_size' >= data_size
         /\ read_offset' = read_offset /\ data_index' = data_index
<1>1. /\ read_offset \in Nat /\ data_index \in Nat /\ read_size \in Nat /\ FileSize \in Nat
      /\ data_index <= read_size /\ data_size \in Nat /\ Mult(data_size)
  BY CacheAssumption DEF IInv, TypeOK
<1>2. read_size = 0 /\ data_index = 0
  BY <1>1 DEF IInv, WindowInFile
<1>3. Over(1) > 0 /\ Defined(1)
  BY <1>2 DEF Over, Defined, Keep, Shift
<1>4. Shifted(1) = [offset |-> read_offset, index |-> 0, size |-> 0, keep |-> 0, over |-> 1]
  BY <1>2, <1>3, OneByte
<1>5. Grown(1) \in Nat /\ Grown(1) >= data_size /\ Grown(1) > 0 /\ Mult(Grown(1))
  <2>1. read_size + 1 = 1
    BY <1>2
  <2> QED
    BY <1>2, <2>1, Room
<1>6. CASE FetchFails(1)
  <2>1. read_offset' = read_offset /\ data_index' = 0 /\ data_size' >= data_size
    BY <1>1, <1>4, <1>5, <1>6 DEF FetchFails
  <2> QED
    BY <1>2, <1>3, <1>6, <2>1, FailsInv
<1>7. CASE FetchReads(1)
  <2>1. Clamped(read_offset) = FileSize
    BY <1>1 DEF Clamped, Least
  <2>2. Least(ReadSize(Shifted(1), 1, Grown(1)), FileSize - FileSize) = 0
    BY <1>1, <1>4, <1>5 DEF Least, ReadSize
  <2>3. /\ read_offset' = read_offset /\ read_size' = 0 /\ data_size' = Grown(1)
        /\ buffer' = Filled(Grown(1), 0, FileSize, 0) /\ file_pos' = FileSize
        /\ data_index' = 0
    BY <1>1, <1>4, <1>7, <2>1, <2>2 DEF FetchReads, Start
  <2>4. Filled(Grown(1), 0, FileSize, 0) = Filled(Grown(1), 0, 0, 0)
    BY DEF Filled
  <2>5. buffer' \in [1..data_size' -> {Junk} \union 0..(FileSize - 1)]
    BY <1>5, <2>3, <2>4, FilledKeeps
  <2>6. TypeOK'
    BY <1>1, <1>5, <2>3, <2>5 DEF IInv, TypeOK
  <2>7. Mult(0)
    BY CacheAssumption DEF Mult
  <2>8. Coherent' /\ WindowEnds' /\ WindowInFile' /\ Mult(data_size)'
    BY <1>5, <2>3, <2>7 DEF Coherent, WindowEnds, WindowInFile, Mult
  <2>9. ScanIntact'
    BY <1>2, <2>3, <2>8, LocksKept
  <2> QED
    BY <1>2, <1>5, <2>3, <2>6, <2>8, <2>9 DEF IInv
<1> QED
  BY <1>6, <1>7

\* seek() moves the window, or within it, only while nobody holds a lock.
LEMMA SeekInv ==
  ASSUME IInv, NEW p \in Positions, SeekHeld(p) \/ SeekAway(p) \/ SeekRefused(p)
  PROVE  IInv'
<1>1. CASE SeekRefused(p)
  BY <1>1 DEF SeekRefused, window, IInv, TypeOK, Coherent, ScanIntact, Mult, WindowEnds, WindowInFile
<1>2. CASE SeekHeld(p) \/ SeekAway(p)
  <2>1. /\ locks' = locks /\ locks = <<>> /\ p \in Nat /\ FileSize \in Nat
        /\ data_size' = data_size /\ buffer' = buffer
    BY <1>2, CacheAssumption DEF SeekHeld, SeekAway
  <2>2. \/ /\ read_offset' = read_offset /\ read_size' = read_size
           /\ data_index' \in 0..read_size /\ file_pos' = file_pos
        \/ /\ read_offset' = p /\ read_size' = 0 /\ data_index' = 0
           /\ file_pos' = Clamped(p)
    <3>1. read_offset \in Nat /\ read_size \in Nat
      BY DEF IInv, TypeOK
    <3>2. CASE SeekHeld(p)
      BY <2>1, <3>1, <3>2 DEF SeekHeld
    <3>3. CASE SeekAway(p)
      BY <3>3 DEF SeekAway, window, IInv, TypeOK
    <3> QED
      BY <1>2, <3>2, <3>3
  <2>3. Clamped(p) \in 0..FileSize /\ Mult(0)
    BY <2>1, CacheAssumption DEF Clamped, Least, Mult
  <2>4. ScanIntact'
    <3>1. Len(locks') = 0
      BY <2>1
    <3> QED
      BY <3>1 DEF ScanIntact
  <2>5. TypeOK'
    BY <2>1, <2>2, <2>3 DEF IInv, TypeOK
  <2>6. Coherent' /\ Mult(data_size)'
    BY <2>1, <2>2 DEF IInv, TypeOK, Coherent, Mult
  <2>7. WindowEnds' /\ WindowInFile'
    BY <2>1, <2>2, <2>3 DEF IInv, TypeOK, Mult, WindowEnds, WindowInFile
  <2> QED
    BY <2>4, <2>5, <2>6, <2>7 DEF IInv
<1> QED
  BY <1>1, <1>2

\* acquire() records the place where a scan begins.
LEMMA AcquireInv == ASSUME IInv, Acquire PROVE IInv'
<1> DEFINE Locks == [index : Nat, pos : Nat]
           lock == [index |-> data_index, pos |-> read_offset + data_index]
<1>1. /\ UNCHANGED <<window, data_size, buffer, file_pos>> /\ locks' = Append(locks, lock)
      /\ Len(locks) < LockMax
  BY DEF Acquire
<1>2. /\ locks \in Seq(Locks) /\ lock \in Locks /\ LockMax \in Nat /\ Len(locks) \in Nat
      /\ data_index \in Nat /\ read_offset \in Nat
  BY CacheAssumption DEF IInv, TypeOK
<1>3. /\ locks' \in Seq(Locks) /\ Len(locks') = Len(locks) + 1
      /\ \A l \in 1..Len(locks) : locks'[l] = locks[l]
      /\ locks'[Len(locks) + 1] = lock
  BY <1>1, <1>2, AppendProperties
<1>4. TypeOK'
  BY <1>1, <1>2, <1>3 DEF window, IInv, TypeOK
<1>5. Coherent' /\ Mult(data_size)' /\ WindowEnds' /\ WindowInFile'
  BY <1>1 DEF window, IInv, Coherent, Mult, WindowEnds, WindowInFile
<1>6. ASSUME NEW l \in 1..Len(locks')
      PROVE  /\ locks'[l].index <= data_index
             /\ read_offset + locks'[l].index = locks'[l].pos
             /\ \A k \in locks'[l].index..(data_index - 1) : buffer[k + 1] = read_offset + k
  <2>1. CASE l = Len(locks) + 1
    <3>1. locks'[l].index = data_index /\ locks'[l].pos = read_offset + data_index
      BY <1>3, <2>1
    <3> QED
      BY <1>2, <3>1
  <2>2. CASE l \in 1..Len(locks)
    BY <1>3, <2>2 DEF IInv, ScanIntact
  <2> QED
    BY <1>2, <1>3, <2>1, <2>2
<1>7. ScanIntact'
  BY <1>1, <1>6 DEF window, ScanIntact
<1> QED
  BY <1>4, <1>5, <1>7 DEF IInv

\* release() forgets the last such place and leaves the others.
LEMMA ReleaseInv == ASSUME IInv, Release PROVE IInv'
<1> DEFINE Locks == [index : Nat, pos : Nat]
           n == Len(locks) - 1
<1>1. /\ UNCHANGED <<window, data_size, buffer, file_pos>> /\ locks' = SubSeq(locks, 1, n)
      /\ locks # <<>>
  BY DEF Release
<1>2. locks \in Seq(Locks) /\ LockMax \in Nat /\ Len(locks) \in Nat /\ Len(locks) <= LockMax
  BY CacheAssumption DEF IInv, TypeOK
<1>3. n \in Nat /\ n <= LockMax
  BY <1>1, <1>2, EmptySeq
<1>4. \A l \in 1..n : locks[l] \in Locks
  <2> SUFFICES ASSUME NEW l \in 1..n PROVE locks[l] \in Locks
    OBVIOUS
  <2>1. l \in 1..Len(locks)
    BY <1>2
  <2> QED
    BY <1>2, <2>1, ElementOfSeq
<1>5. /\ locks' \in Seq(Locks) /\ Len(locks') = n
      /\ \A l \in 1..n : locks'[l] = locks[l]
  <2> HIDE DEF n, Locks
  <2>1. /\ SubSeq(locks, 1, n) \in Seq(Locks)
        /\ Len(SubSeq(locks, 1, n)) = IF 1 <= n THEN n - 1 + 1 ELSE 0
        /\ \A i \in 1..(n - 1 + 1) : SubSeq(locks, 1, n)[i] = locks[1 + i - 1]
    BY <1>3, <1>4, SubSeqProperties
  <2> QED
    BY <1>1, <1>3, <2>1
<1>6. TypeOK'
  BY <1>1, <1>3, <1>5 DEF window, IInv, TypeOK
<1>7. Coherent' /\ Mult(data_size)' /\ WindowEnds' /\ WindowInFile'
  BY <1>1 DEF window, IInv, Coherent, Mult, WindowEnds, WindowInFile
<1>8. ScanIntact'
  <2>1. \A l \in 1..n : l \in 1..Len(locks)
    BY <1>2
  <2> QED
    BY <1>1, <1>5, <2>1 DEF window, IInv, ScanIntact
<1> QED
  BY <1>6, <1>7, <1>8 DEF IInv

-----------------------------------------------------------------------------
\* The window stays coherent whatever is called and whatever fails, if bytes are
\* taken one by one and within the file.
THEOREM Invariance == ASSUME ByByte PROVE Spec => []IInv
<1>1. IInv /\ [Next]_vars => IInv'
  <2> SUFFICES ASSUME IInv, [Next]_vars PROVE IInv'
    OBVIOUS
  <2>1. CASE UNCHANGED vars
    BY <2>1 DEF vars, IInv, TypeOK, Coherent, ScanIntact, Mult, WindowEnds, WindowInFile
  <2>2. CASE Get
    <3>1. GetHeld(1) \/ GetFetched(1)
      BY <2>2 DEF Get, ByByte
    <3> QED
      BY <3>1, HeldInv, FailsInv, ReadsInv DEF GetFetched
  <2>3. CASE Seek
    BY <2>3, SeekInv DEF Seek
  <2>4. CASE Elsewhere
    BY <2>4 DEF Elsewhere, window, IInv, TypeOK, Coherent, ScanIntact, Mult, WindowEnds, WindowInFile
  <2> QED
    BY <2>1, <2>2, <2>3, <2>4, AcquireInv, ReleaseInv DEF Next
<1> QED
  BY <1>1, InitInv, PTL DEF Spec

\* The window of data_cache_t holds the bytes of the file it says it does.
THEOREM Coherence == ASSUME ByByte PROVE Spec => []Coherent
BY Invariance, PTL DEF IInv

\* What is scanned with a lock held (ids_str_get() of the ELF reader) stays in place.
THEOREM ScanStays == ASSUME ByByte PROVE Spec => []ScanIntact
BY Invariance, PTL DEF IInv

\* The types of the cache's state; the index never leaves what was read.
THEOREM TypeCorrect == ASSUME ByByte PROVE Spec => []TypeOK
BY Invariance, PTL DEF IInv

-----------------------------------------------------------------------------
(***************************************************************************)
(* Refinement of ByteReader.                                               *)
(***************************************************************************)
pos == read_offset + data_index
claim == IF locks = <<>> THEN told ELSE Nowhere

\* SubSeqProperties for sequences of integers.
LEMMA TakenInts ==
  ASSUME NEW s, NEW m \in Int, NEW n \in Int, \A i \in m..n : s[i] \in Int
  PROVE  /\ SubSeq(s, m, n) \in Seq(Int)
         /\ Len(SubSeq(s, m, n)) = IF m <= n THEN n - m + 1 ELSE 0
         /\ \A i \in 1..(n - m + 1) : SubSeq(s, m, n)[i] = s[m + i - 1]
  BY SubSeqProperties, SMTT(30)

\* One byte taken out of a buffer that has the file's byte there.
LEMMA OneTaken ==
  ASSUME NEW bytes, NEW at \in Nat, NEW byte \in Int, bytes[at + 1] = byte
  PROVE  SubSeq(bytes, at + 1, at + 1) = Reader!Bytes(byte, 1)
<1> DEFINE s == SubSeq(bytes, at + 1, at + 1)
<1>1. \A i \in (at + 1)..(at + 1) : bytes[i] \in Int
  OBVIOUS
<1>2. /\ s \in Seq(Int)
      /\ Len(s) = IF at + 1 <= at + 1 THEN (at + 1) - (at + 1) + 1 ELSE 0
      /\ \A i \in 1..((at + 1) - (at + 1) + 1) : s[i] = bytes[at + 1 + i - 1]
  <2>1. at + 1 \in Int
    OBVIOUS
  <2> QED
    BY <1>1, <2>1, TakenInts
<1> HIDE DEF s
<1>3. Len(s) = 1 /\ s[1] = byte
  BY <1>2
<1>4. s \in [1..1 -> Int]
  BY <1>2, <1>3, LenProperties
<1>5. s = [k \in 1..1 |-> byte + k - 1]
  BY <1>3, <1>4
<1> USE DEF s
<1> QED
  BY <1>5 DEF Reader!Bytes

\* A fetch only ever grows the buffer.
LEMMA GrownCovers ==
  ASSUME NEW n \in Nat, data_size \in Nat
  PROVE  Grown(n) \in Nat /\ Grown(n) >= data_size
<1>1. RoundUp(n) \in Nat /\ RoundUp(n) >= n
  BY RoundUpCovers
<1> QED
  BY <1>1 DEF Grown

\* raw_get() of a byte takes the next byte of the file, or none; the window stays.
LEMMA ByteTaken ==
  ASSUME IInv, ByByte, GetHeld(1) \/ GetFetched(1)
  PROVE  /\ read_offset' = read_offset /\ locks' = locks /\ told' = Nowhere
         /\ data_size' >= data_size
         /\ \/ got' = <<>> /\ data_index' = data_index
            \/ /\ got' = Reader!Bytes(pos, 1) /\ data_index' = data_index + 1
               /\ pos + 1 <= FileSize
<1>1. /\ read_offset \in Nat /\ data_index \in Nat /\ read_size \in Nat /\ FileSize \in Nat
      /\ data_size \in Nat /\ Wanted(1)
  BY CacheAssumption DEF IInv, TypeOK, GetHeld, GetFetched
<1>2. pos \in Nat /\ pos + 1 <= FileSize
  BY <1>1, CacheAssumption DEF pos, Wanted, ByByte
<1>3. Grown(read_size + 1) \in Nat /\ Grown(read_size + 1) >= data_size
  BY <1>1, GrownCovers
<1>4. CASE GetHeld(1)
  <2>1. /\ data_index + 1 \in 1..read_size /\ data_index' = data_index + 1
        /\ read_offset' = read_offset /\ told' = Nowhere
        /\ locks' = locks /\ data_size' = data_size
        /\ got' = SubSeq(buffer, data_index + 1, data_index + 1)
    BY <1>1, <1>4 DEF GetHeld, Over, Answer
  <2>2. buffer[data_index + 1] = read_offset + (data_index + 1) - 1
    BY <2>1 DEF IInv, Coherent
  <2>3. buffer[data_index + 1] = pos
    BY <1>1, <2>2 DEF pos
  <2>4. got' = Reader!Bytes(pos, 1)
    BY <1>1, <1>2, <2>1, <2>3, OneTaken
  <2> QED
    BY <1>1, <1>2, <2>1, <2>4
<1>5. CASE Over(1) > 0 /\ Defined(1) /\ FetchFails(1) /\ locks' = locks
  <2>1. /\ read_offset' = read_offset /\ data_index' = data_index
        /\ got' = <<>> /\ told' = Nowhere
        /\ data_size' \in {data_size, Grown(read_size + 1)}
    <3>1. Shifted(1).size = read_size /\ Shifted(1).over = 1
      BY <1>5, OneByte
    <3> QED
      BY <1>5, <3>1, OneByte DEF Start, FetchFails, Answer
  <2> QED
    BY <1>1, <1>3, <1>5, <2>1
<1>6. CASE Over(1) > 0 /\ Defined(1) /\ FetchReads(1) /\ locks' = locks
  <2> DEFINE room == Grown(read_size + 1)
             size == Least(ReadSize(Shifted(1), 1, room), FileSize - read_offset)
  <2>1. /\ Shifted(1) = [offset |-> read_offset, index |-> data_index, size |-> read_size,
                         keep |-> 0, over |-> 1]
        /\ data_index = read_size
    BY <1>6, OneByte
  <2>2. /\ Clamped(read_offset) = read_offset
        /\ size \in 1..room /\ data_index + 1 <= size
        /\ read_offset + size <= FileSize
    BY <1>1, <1>6, RefillSize
  <2>3. room \in Nat
    BY <1>3
  <2>4. /\ Shifted(1).offset = read_offset /\ Shifted(1).keep = 0
        /\ Shifted(1).index = data_index
        /\ Clamped(Shifted(1).offset + Shifted(1).keep) = read_offset
        /\ Grown(Shifted(1).size + Shifted(1).over) = room
    BY <1>1, <2>1, <2>2
  <2>5. size > 0 /\ size \in 0..room
    BY <2>2, <2>3
  <2> HIDE DEF size, room
  <2>6. /\ data_index' = data_index + 1 /\ read_offset' = read_offset /\ told' = Nowhere
        /\ data_size' = room
        /\ got' = SubSeq(Filled(room, 0, read_offset, size), data_index + 1, data_index + 1)
    BY <1>6, <2>4, <2>5 DEF Start, FetchReads, Answer, size
  <2>7. data_index + 1 \in 1..size
    BY <1>1, <2>2, <2>5
  <2>8. Filled(room, 0, read_offset, size)[data_index + 1] = read_offset + (data_index + 1) - 1
    BY <2>2, <2>3, <2>5, <2>7, FilledBytes
  <2>9. Filled(room, 0, read_offset, size)[data_index + 1] = pos
    BY <1>1, <2>8 DEF pos
  <2>10. got' = Reader!Bytes(pos, 1)
    BY <1>1, <1>2, <2>6, <2>9, OneTaken
  <2>11. data_size' >= data_size
    BY <1>3, <2>6 DEF room
  <2> QED
    BY <1>2, <1>6, <2>6, <2>10, <2>11
<1> QED
  BY <1>4, <1>5, <1>6 DEF GetFetched

\* raw_get() of a byte delivers the next byte of the file, or refuses.
LEMMA GetRefines ==
  ASSUME IInv, ByByte, GetHeld(1) \/ GetFetched(1)
  PROVE  Reader!Next
<1>1. read_offset \in Nat /\ data_index \in Nat /\ FileSize \in Nat
  BY CacheAssumption DEF IInv, TypeOK
<1>2. CASE got' = <<>> /\ data_index' = data_index
  BY <1>2, ByteTaken DEF pos, Reader!Next, Reader!Refuse, Reader!Nowhere, Nowhere
<1>3. CASE got' = Reader!Bytes(pos, 1) /\ data_index' = data_index + 1 /\ pos + 1 <= FileSize
  <2>1. /\ pos' = pos + 1 /\ told' = Nowhere /\ 1 \in 1..FileSize
    BY <1>1, <1>3, ByteTaken DEF pos
  <2>2. Reader!Deliver(1)
    BY <1>3, <2>1 DEF pos, claim, Reader!Deliver, Reader!Nowhere, Nowhere
  <2> QED
    BY <2>1, <2>2 DEF Reader!Next
<1> QED
  BY <1>2, <1>3, ByteTaken

\* seek() goes where it says, or stays and says nothing a caller may use.
LEMMA SeekRefines ==
  ASSUME IInv, NEW p \in Positions, SeekHeld(p) \/ SeekAway(p) \/ SeekRefused(p)
  PROVE  Reader!Next
<1>1. p \in Nat /\ read_offset \in Nat /\ data_index \in Nat
  BY CacheAssumption DEF IInv, TypeOK
<1>2. \/ pos' = p /\ got' = <<>> /\ claim' = p
      \/ pos' = pos /\ got' = <<>> /\ claim' = Nowhere
  <2>1. CASE SeekHeld(p)
    BY <1>1, <2>1 DEF SeekHeld, Answer, pos, claim
  <2>2. CASE SeekAway(p)
    <3>1. \/ /\ read_offset' = p /\ data_index' = 0 /\ got' = <<>> /\ told' = p
          \/ /\ read_offset' = read_offset /\ data_index' = data_index
             /\ got' = <<>> /\ told' = Nowhere
      BY <2>2 DEF SeekAway, Answer, window
    <3>2. locks' = <<>>
      BY <2>2 DEF SeekAway
    <3> QED
      BY <1>1, <3>1, <3>2 DEF pos, claim
  <2>3. CASE SeekRefused(p)
    BY <2>3 DEF SeekRefused, Answer, window, pos, claim
  <2> QED
    BY <2>1, <2>2, <2>3
<1> QED
  BY <1>2 DEF Reader!Next, Reader!Seek, Reader!Refuse, Reader!Nowhere, Nowhere, pos, claim

\* Read byte by byte and within the file, the cache is a reader of the file: no refill,
\* fault, lock or other user of the file loses the place.
THEOREM Reading == ASSUME ByByte PROVE Spec => Reads
<1>1. Init => Reader!Init
  BY DEF Init, Reader!Init, Reader!Nowhere, Nowhere
<1>2. IInv /\ IInv' /\ [Next]_vars => [Reader!Next]_<<pos, got, claim>>
  <2> SUFFICES ASSUME IInv, IInv', [Next]_vars
               PROVE  Reader!Next \/ UNCHANGED <<pos, got, claim>>
    OBVIOUS
  <2>1. CASE UNCHANGED vars
    BY <2>1 DEF vars, pos, claim
  <2>2. CASE Get
    <3>1. GetHeld(1) \/ GetFetched(1)
      BY <2>2 DEF Get, ByByte
    <3> QED
      BY <3>1, GetRefines
  <2>3. CASE Seek
    BY <2>3, SeekRefines DEF Seek
  <2>4. CASE Acquire \/ Release
    BY <2>4 DEF Acquire, Release, Answer, window, pos, Reader!Next, Reader!Refuse,
                Reader!Nowhere, Nowhere
  <2>5. CASE Elsewhere
    BY <2>5 DEF Elsewhere, window, pos, claim
  <2> QED
    BY <2>1, <2>2, <2>3, <2>4, <2>5 DEF Next
<1> QED
  BY <1>1, <1>2, Invariance, PTL DEF Spec, Reads, Reader!Spec, pos, claim
=============================================================================
