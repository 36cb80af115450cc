------------------------------ MODULE FilePtr ------------------------------
(***************************************************************************)
(* file_ptr: the readers and caches of one object file share its FatFs     *)
(* control block, which counts the handles that hook it and closes the     *)
(* file with the last.                                                     *)
(***************************************************************************)
EXTENDS Integers, FiniteSets

CONSTANTS Handles,   \* the file_ptr objects
          Blocks,    \* the control blocks there is memory for
          Null,
          MaxHooks   \* numeric_limits<int>::max()

ASSUME FileAssumption == IsFiniteSet(Handles) /\ Null \notin Blocks /\ MaxHooks \in Nat \ {0}

VARIABLES live,    \* the handles that are constructed and not destroyed
          ptr,     \* m_ptr
          hooks,   \* m_hooks of each block, 0 where there is none
          lost     \* history: hooks of each block that release() left to nobody

vars == <<live, ptr, hooks, lost>>

Init == /\ live = {}
        /\ ptr = [h \in Handles |-> Null]
        /\ hooks = [b \in Blocks |-> 0]
        /\ lost = [b \in Blocks |-> 0]

\* hook(): the block, or nothing when its count is at the limit.
HookedAtLimit(count, b) ==  \* mutant: one too many
  IF b # Null /\ count[b] <= MaxHooks
  THEN [block |-> b, count |-> [count EXCEPT ![b] = @ + 1]]
  ELSE [block |-> Null, count |-> count]
HookedUncounted(count, b) == [block |-> b, count |-> count]  \* mutant
Hooked(count, b) ==
  IF b # Null /\ count[b] < MaxHooks
  THEN [block |-> b, count |-> [count EXCEPT ![b] = @ + 1]]
  ELSE [block |-> Null, count |-> count]

\* drop(): at 0 the file is closed and the block deleted.
DroppedNot(count, b) == count  \* mutant: the old file is forgotten
Dropped(count, b) ==
  IF b # Null /\ count[b] > 0 THEN [count EXCEPT ![b] = @ - 1] ELSE count

Construct(h) == h \notin live /\ live' = live \union {h}

\* make_file_cb(): there may be no memory.
Make(h) ==
  /\ Construct(h)
  /\ \/ \E b \in Blocks : /\ hooks[b] = 0
                          /\ ptr' = [ptr EXCEPT ![h] = b]
                          /\ hooks' = [hooks EXCEPT ![b] = 1]
     \/ UNCHANGED <<ptr, hooks>>
  /\ UNCHANGED lost

Copy(h, g) ==
  /\ Construct(h) /\ g \in live
  /\ LET hooked == Hooked(hooks, ptr[g]) IN
     /\ ptr' = [ptr EXCEPT ![h] = hooked.block]
     /\ hooks' = hooked.count
  /\ UNCHANGED lost

Move(h, g) ==
  /\ Construct(h) /\ g \in live
  /\ ptr' = [ptr EXCEPT ![h] = ptr[g], ![g] = Null]
  /\ UNCHANGED <<hooks, lost>>

\* operator=(const file_ptr&): what the handle had is dropped first.
AssignCopy(h, g) ==
  /\ h \in live /\ g \in live /\ h # g
  /\ LET hooked == Hooked(Dropped(hooks, ptr[h]), ptr[g]) IN
     /\ ptr' = [ptr EXCEPT ![h] = hooked.block]
     /\ hooks' = hooked.count
  /\ UNCHANGED <<live, lost>>

AssignMove(h, g) ==
  /\ h \in live /\ g \in live /\ h # g
  /\ ptr' = [ptr EXCEPT ![h] = ptr[g], ![g] = Null]
  /\ hooks' = Dropped(hooks, ptr[h])
  /\ UNCHANGED <<live, lost>>

Dispose(h) ==
  /\ h \in live
  /\ ptr' = [ptr EXCEPT ![h] = Null]
  /\ hooks' = Dropped(hooks, ptr[h])
  /\ live' \in {live, live \ {h}}   \* dispose() or the destructor
  /\ UNCHANGED lost

\* release(): the handle forgets its block, which stays hooked.
Release(h) ==
  /\ h \in live
  /\ ptr[h] # Null
  /\ ptr' = [ptr EXCEPT ![h] = Null]
  /\ lost' = [lost EXCEPT ![ptr[h]] = @ + 1]
  /\ UNCHANGED <<live, hooks>>

Next ==
  \/ \E h \in Handles : Make(h) \/ Dispose(h) \/ Release(h)
  \/ \E h, g \in Handles : Copy(h, g) \/ Move(h, g) \/ AssignCopy(h, g) \/ AssignMove(h, g)

Spec == Init /\ [][Next]_vars

-----------------------------------------------------------------------------
\* The variables have their types.
TypeOK ==
  /\ live \subseteq Handles
  /\ ptr \in [Handles -> Blocks \union {Null}]
  /\ hooks \in [Blocks -> 0..MaxHooks]
  /\ lost \in [Blocks -> Nat]

\* A block counts the handles that point to it and those that were released: none
\* is deleted under a handle, none outlives its handles but by release().
Holders(b) == {h \in Handles : ptr[h] = b}
HooksCount == \A b \in Blocks : hooks[b] = Cardinality(Holders(b)) + lost[b]

\* The handles keep the promise of shared files, though a handle may drop one file
\* and hook another, or the same, in one assignment.
Share == INSTANCE FileShare WITH Files <- Blocks, file <- ptr,
           open <- {b \in Blocks : hooks[b] > 0}, kept <- {b \in Blocks : lost[b] > 0}
Shares == Share!Spec
=============================================================================
