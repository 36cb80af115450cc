----------------------------- MODULE ByteReader -----------------------------
(***************************************************************************)
(* What a reader of a file promises: a position that seeking sets, and the *)
(* bytes of the file from there on, one after another.  A byte of the file *)
(* is named by its offset.                                                 *)
(***************************************************************************)
EXTENDS Integers, Sequences

CONSTANTS FileSize, Positions
Nowhere == -1

VARIABLES pos,   \* the position of the next byte
          got,   \* the bytes the last call delivered
          told   \* the position the last call reported

Bytes(from, n) == [k \in 1..n |-> from + k - 1]

Init == pos = 0 /\ got = <<>> /\ told = Nowhere

Seek(p) == pos' = p /\ got' = <<>> /\ told' = p

Deliver(n) == /\ pos + n <= FileSize
              /\ got' = Bytes(pos, n)
              /\ pos' = pos + n
              /\ told' = Nowhere

Refuse == got' = <<>> /\ told' = Nowhere /\ UNCHANGED pos

Next == Refuse \/ (\E p \in Positions : Seek(p)) \/ (\E n \in 1..FileSize : Deliver(n))

Spec == Init /\ [][Next]_<<pos, got, told>>
=============================================================================
