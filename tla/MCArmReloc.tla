----------------------------- MODULE MCArmReloc -----------------------------
(* Two words in RAM, symbols next to them, in flash and at the limits of the *)
(* branches' ranges.                                                         *)
EXTENDS ArmReloc

Ram == 536870912
MCPlaces == {Ram, Ram + 70}
MCAddresses ==
  {268435456, Ram + 71} \union
  {Ram + d : d \in {-33554433, -33554432, -2097153, -2097152,
                    2097151, 2097152, 4194304, 33554431, 33554432}}

Word(lo, hi) == [lo |-> lo, hi |-> hi]
\* Nothing, a Thumb call of -4, an Arm call of -8, and a field of twelve bits.
MCWords == {Word(0, 0), Word(63487, 65534), Word(65534, 60415), Word(4095, 57759)}
=============================================================================
