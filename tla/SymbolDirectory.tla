--------------------------- MODULE SymbolDirectory ---------------------------
(***************************************************************************)
(* What a symbol table promises its callers: an ordered directory.  A      *)
(* symbol that is made is put behind all others and stays as it was made;  *)
(* a search yields the first symbol of the name with the binding asked,    *)
(* and symbols without a name are never found.  Positions count from 1; 0  *)
(* is no symbol.                                                           *)
(***************************************************************************)
EXTENDS Naturals, Sequences

CONSTANTS Requests,   \* records with the fields op, name and bind
          Idle,       \* no request
          Unnamed,    \* the names that are none
          AnyBind     \* the binding that asks for all

VARIABLES symbols, request, reply

vars == <<symbols, request, reply>>

Init == symbols = <<>> /\ request = Idle /\ reply = 0

Ask == /\ request = Idle
       /\ request' \in Requests
       /\ UNCHANGED <<symbols, reply>>

Make == /\ request # Idle
        /\ request.op = "make"
        /\ symbols' = Append(symbols, [name |-> request.name, bind |-> request.bind])
        /\ reply' = Len(symbols')
        /\ request' = Idle

Found == {i \in DOMAIN symbols :
            /\ symbols[i].name = request.name
            /\ symbols[i].name \notin Unnamed
            /\ request.bind = AnyBind \/ request.bind \subseteq symbols[i].bind}

Find == /\ request # Idle
        /\ request.op = "find"
        /\ reply' = IF Found = {} THEN 0 ELSE CHOOSE i \in Found : \A j \in Found : i <= j
        /\ request' = Idle
        /\ UNCHANGED symbols

Next == Ask \/ Make \/ Find

Spec == Init /\ [][Next]_vars
=============================================================================
