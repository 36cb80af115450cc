------------------------------ MODULE Namespace ------------------------------
(***************************************************************************)
(* What an image promises of its names: a name that is known stays known,  *)
(* and a name that has an address keeps it.  Code that was relocated       *)
(* against a name holds its address for good, so nothing else would do.    *)
(***************************************************************************)
CONSTANTS Names, Undefined
VARIABLE entries   \* the known names and their addresses

Init == \E known \in SUBSET Names : DOMAIN entries = known

\* A name becomes known, with an address or as a reference still to be defined.
Learn ==
  \E name \in Names \ DOMAIN entries :
    /\ DOMAIN entries' = DOMAIN entries \union {name}
    /\ \A known \in DOMAIN entries : entries'[known] = entries[known]

\* A name that was only referenced gets its address.
Define ==
  \E name \in DOMAIN entries :
    /\ entries[name] = Undefined
    /\ entries'[name] # Undefined
    /\ entries' = [entries EXCEPT ![name] = entries'[name]]

Next == Learn \/ Define

Spec == Init /\ [][Next]_entries
=============================================================================
