----------------------------- MODULE DataCache -----------------------------
(***************************************************************************)
(* data_cache_t: a window of the file kept in memory, from which the ELF   *)
(* reader takes fields and strings byte by byte.  The file control block   *)
(* is shared with the reader's other caches and with copy_section_at(), so *)
(* its position may be anywhere when a call begins.                        *)
(***************************************************************************)
EXTENDS Integers, Sequences

CONSTANTS FileSize,   \* the length of the file
          Step,       \* ids_reserve_min, what the buffer grows by
          LockMax,    \* ids_lock_max
          Faults,     \* may the file or the heap fail: a subset of BOOLEAN
          Positions,  \* where callers seek
          Counts,     \* how many bytes callers ask for at once
          ReadLimit   \* callers do not read from this offset on

ASSUME CacheAssumption ==
  /\ FileSize \in Nat /\ Step \in Nat \ {0, 1} /\ LockMax \in Nat /\ ReadLimit \in Nat
  /\ Faults \in SUBSET BOOLEAN /\ FALSE \in Faults
  /\ Positions \subseteq Nat
  /\ Counts \subseteq Nat \ {0}

VARIABLES read_offset,  \* m_read_offset: the file offset of the buffer's first byte
          data_index,   \* m_data_index: the next byte, within the buffer
          read_size,    \* m_read_size: how much of the buffer was read
          data_size,    \* m_data_size: the buffer's size
          buffer,       \* *m_data_ptr
          file_pos,     \* the shared file control block's position
          locks,        \* m_lock_count, and what each acquire() was given
          got,          \* the bytes the last call delivered
          told          \* what seek() reported

vars == <<read_offset, data_index, read_size, data_size, buffer, file_pos, locks, got, told>>
window == <<read_offset, data_index, read_size>>

Junk == -1     \* what a byte of the buffer is before it is read from the file
Nowhere == -1  \* what seek() returns when it fails

Least(a, b) == IF a < b THEN a ELSE b

\* f_lseek() on a file opened for reading stops at its end.
Clamped(offset) == Least(offset, FileSize)

Init == /\ read_offset = 0 /\ data_index = 0 /\ read_size = 0 /\ data_size = 0
        /\ buffer = <<>>
        /\ file_pos \in 0..FileSize
        /\ locks = <<>>
        /\ got = <<>>
        /\ told = Nowhere

RoundUp(n) == ((n + Step - 1) \div Step) * Step
Grown(n) == IF n > data_size THEN RoundUp(n) ELSE data_size

\* The buffer of size n, with the bytes of the file from offset on read into it at index.
Filled(n, index, offset, count) ==
  [k \in 1..n |-> IF k > index /\ k <= index + count THEN offset + k - index - 1
                  ELSE IF k <= data_size THEN buffer[k] ELSE Junk]

-----------------------------------------------------------------------------
(***************************************************************************)
(* ids_fetch(), called for count bytes more than the window holds.         *)
(***************************************************************************)
Over(count) == data_index + count - read_size
Keep == read_size - data_index

\* Without a lock, a window that holds some of the bytes is moved along the file:
\* the offsets are, the bytes are not.
Shift(count) == IF Keep > 0 /\ locks = <<>> THEN Over(count) ELSE 0

Shifted(count) ==
  [offset |-> read_offset + Shift(count), index |-> data_index - Shift(count),
   size |-> read_size - Shift(count), keep |-> Keep - Shift(count),
   over |-> Over(count) - Shift(count)]

\* Where the window or the amount to keep becomes negative the code is undefined,
\* and not followed.
Defined(count) == Keep >= 0 /\ Shift(count) <= data_index /\ Shift(count) <= Keep

\* How much is read: what is wanted, or all that there is room for.
ReadSize(w, count, room) == IF w.index + count < room THEN room - w.keep ELSE w.over

Answer(bytes, seeked) == got' = bytes /\ told' = seeked

\* f_lseek() goes there before each f_read().
StartHere(w) == file_pos  \* mutant: as if the file were the cache's own
Start(w) == Clamped(w.offset + w.keep)

\* realloc(), f_lseek() or f_read() fails: the window stays moved.
FetchFails(count) ==
  LET w == Shifted(count) IN
  /\ TRUE \in Faults
  /\ \/ /\ w.size + w.over > data_size
        /\ UNCHANGED <<data_size, buffer, file_pos>>
     \/ /\ data_size' = Grown(w.size + w.over)
        /\ buffer' = Filled(data_size', 0, 0, 0)
        /\ \/ UNCHANGED file_pos
           \/ file_pos' = Start(w)
  /\ read_offset' = w.offset /\ data_index' = w.index /\ read_size' = w.size
  /\ Answer(<<>>, Nowhere)

\* The bytes are read behind those that are kept, as many as the file has.  The
\* caller takes what it asked for if there was anything to read.
FetchReads(count) ==
  LET w     == Shifted(count)
      room  == Grown(w.size + w.over)
      start == Start(w)
      size  == Least(ReadSize(w, count, room), FileSize - start)
      fresh == Filled(room, w.keep, start, size)
  IN /\ read_offset' = w.offset
     /\ read_size' = w.keep + size
     /\ data_size' = room
     /\ buffer' = fresh
     /\ file_pos' = start + size
     /\ IF size > 0
        THEN /\ data_index' = w.index + count
             /\ Answer(SubSeq(fresh, w.index + 1, w.index + count), Nowhere)
        ELSE /\ data_index' = w.index
             /\ Answer(<<>>, Nowhere)

\* raw_get(): the bytes are in the window, or fetched.
Wanted(count) == read_offset + data_index + count <= ReadLimit

GetHeld(count) ==
  /\ Wanted(count)
  /\ Over(count) <= 0
  /\ data_index' = data_index + count
  /\ Answer(SubSeq(buffer, data_index + 1, data_index + count), Nowhere)
  /\ UNCHANGED <<read_offset, read_size, data_size, buffer, file_pos, locks>>

GetFetched(count) ==
  /\ Wanted(count)
  /\ Over(count) > 0
  /\ Defined(count)
  /\ FetchFails(count) \/ FetchReads(count)
  /\ UNCHANGED locks

-----------------------------------------------------------------------------
\* seek() within the window, and behind its first byte ...
SeekHeldUnread(p) ==  \* mutant: all of the buffer is taken for read
  /\ locks = <<>>
  /\ p > read_offset /\ p - read_offset < data_size
  /\ data_index' = p - read_offset
  /\ Answer(<<>>, p)
  /\ UNCHANGED <<read_offset, read_size, data_size, buffer, file_pos, locks>>
SeekHeldLocked(p) ==  \* mutant: a seek does not mind the lock
  /\ p > read_offset /\ p - read_offset < read_size
  /\ data_index' = p - read_offset
  /\ Answer(<<>>, p)
  /\ UNCHANGED <<read_offset, read_size, data_size, buffer, file_pos, locks>>
SeekHeld(p) ==
  /\ locks = <<>>
  /\ p > read_offset /\ p - read_offset < read_size
  /\ data_index' = p - read_offset
  /\ Answer(<<>>, p)
  /\ UNCHANGED <<read_offset, read_size, data_size, buffer, file_pos, locks>>

\* ... and anywhere else: the window is empty there.
SeekAwayWithin(p) ==  \* mutant: the index is not reset
  /\ locks = <<>>
  /\ ~(p > read_offset /\ p - read_offset < read_size)
  /\ file_pos' = Clamped(p)
  /\ read_offset' = p /\ read_size' = 0
  /\ Answer(<<>>, p)
  /\ UNCHANGED <<data_index, data_size, buffer, locks>>
SeekAway(p) ==
  /\ locks = <<>>
  /\ ~(p > read_offset /\ p - read_offset < read_size)
  /\ \/ /\ file_pos' = Clamped(p)
        /\ read_offset' = p /\ data_index' = 0 /\ read_size' = 0
        /\ Answer(<<>>, p)
     \/ /\ TRUE \in Faults
        /\ UNCHANGED <<file_pos, window>>
        /\ Answer(<<>>, Nowhere)
  /\ UNCHANGED <<data_size, buffer, locks>>

\* With a lock held the window does not move, whatever is reported.
SeekRefused(p) ==
  /\ locks # <<>>
  /\ Answer(<<>>, IF data_size = 0 \/ p = read_offset THEN p ELSE Nowhere)
  /\ UNCHANGED <<window, data_size, buffer, file_pos, locks>>

\* acquire() keeps the index of the next byte ...
Acquire ==
  /\ Len(locks) < LockMax
  /\ locks' = Append(locks, [index |-> data_index, pos |-> read_offset + data_index])
  /\ Answer(<<>>, Nowhere)
  /\ UNCHANGED <<window, data_size, buffer, file_pos>>

\* ... and release() turns it into an address in the buffer.
Release ==
  /\ locks # <<>>
  /\ locks' = SubSeq(locks, 1, Len(locks) - 1)
  /\ Answer(<<>>, Nowhere)
  /\ UNCHANGED <<window, data_size, buffer, file_pos>>

\* Another cache or copy_section_at() moves the file.
Elsewhere ==
  /\ file_pos' \in 0..FileSize
  /\ UNCHANGED <<window, data_size, buffer, locks, got, told>>

Get == \E n \in Counts : GetHeld(n) \/ GetFetched(n)
Seek == \E p \in Positions : SeekHeld(p) \/ SeekAway(p) \/ SeekRefused(p)

Next == Get \/ Seek \/ Acquire \/ Release \/ Elsewhere

Spec == Init /\ [][Next]_vars

\* Callers that take bytes one by one and know where the file ends.
ByByte == Counts = {1} /\ ReadLimit <= FileSize

-----------------------------------------------------------------------------
\* The variables have their types, and the window is within the buffer.
TypeOK ==
  /\ read_offset \in Nat
  /\ data_size \in Nat
  /\ read_size \in 0..data_size
  /\ data_index \in 0..read_size
  /\ buffer \in [1..data_size -> {Junk} \union 0..(FileSize - 1)]
  /\ file_pos \in 0..FileSize
  /\ locks \in Seq([index : Nat, pos : Nat])
  /\ Len(locks) <= LockMax

\* The window holds the bytes of the file it says it does, though every refill reads
\* at a position that others move.
Coherent == \A k \in 1..read_size : buffer[k] = read_offset + k - 1

\* From acquire() to release() the bytes taken stay together where they began, though
\* the buffer grows and is read again: the string that ids_str_get() scans is in one piece.
ScanIntact ==
  \A l \in 1..Len(locks) :
    /\ locks[l].index <= data_index
    /\ read_offset + locks[l].index = locks[l].pos
    /\ \A k \in locks[l].index..(data_index - 1) : buffer[k + 1] = read_offset + k

\* The cache is a reader of the file: bytes come in order from where the last seek
\* went, a call that fails takes none, and no refill loses the place.  With a lock held
\* what seek() reports means nothing: it may name a position it did not go to.
Reader == INSTANCE ByteReader WITH
  pos <- read_offset + data_index,
  told <- IF locks = <<>> THEN told ELSE Nowhere
Reads == Reader!Spec
=============================================================================
