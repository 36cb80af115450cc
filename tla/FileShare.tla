------------------------------ MODULE FileShare ------------------------------
(***************************************************************************)
(* What shared handles promise: a file stays open while a handle has it,   *)
(* and closes with the last one, unless a handle let go of it for good.    *)
(***************************************************************************)
CONSTANTS Handles, Files, Null

VARIABLES file,   \* file[h]: the file that handle h has, or Null
          open,   \* the open files
          kept    \* those that a handle let go of without closing

Held(f) == \E h \in Handles : file[h] = f
Closing == {f \in open : Held(f) /\ ~Held(f)' /\ f \notin kept}

Init == file = [h \in Handles |-> Null] /\ open = {} /\ kept = {}

Open(h) == /\ file[h] = Null
           /\ \E f \in Files \ open : /\ file' = [file EXCEPT ![h] = f]
                                      /\ open' = open \union {f}
           /\ UNCHANGED kept

\* A handle takes over, or comes to share, what another has, or leaves what it has.
\* What nobody has then is closed.
Pass(h, g) ==
  /\ file' \in {[file EXCEPT ![h] = file[g]], [file EXCEPT ![h] = file[g], ![g] = Null],
                [file EXCEPT ![h] = Null]}
  /\ open' = open \ Closing
  /\ UNCHANGED kept

LetGo(h) == /\ file[h] # Null
            /\ file' = [file EXCEPT ![h] = Null]
            /\ kept' = kept \union {file[h]}
            /\ UNCHANGED open

Next == \E h, g \in Handles : Open(h) \/ Pass(h, g) \/ LetGo(h)

Spec == Init /\ [][Next]_<<file, open, kept>>
=============================================================================
