----------------------------- MODULE Dictionary -----------------------------
(***************************************************************************)
(* What the tables of IAL promise, the hash table of c016.c and the search *)
(* trees of c401.c and c402.c: at most one value for each key.  A new key  *)
(* is dropped in silence when memory runs out.                             *)
(***************************************************************************)
CONSTANTS Keys, Data, NoData

VARIABLES
  dict,    \* the pairs of a key and its value
  found,   \* what the last operation returned, if it was a search that found it
  call     \* the last operation and its key

vars == <<dict, found, call>>

Init == dict = {} /\ found = NoData /\ call = <<"Init">>

Without(k) == {entry \in dict : entry[1] # k}

Insert(k, d) == /\ call' = <<"Insert", k>>
                /\ \/ dict' = Without(k) \cup {<<k, d>>}
                   \/ dict = Without(k) /\ UNCHANGED dict
                /\ found' = NoData

Search(k) == /\ call' = <<"Search", k>>
             /\ \/ <<k, found'>> \in dict
                \/ dict = Without(k) /\ found' = NoData
             /\ UNCHANGED dict

Delete(k) == call' = <<"Delete", k>> /\ dict' = Without(k) /\ found' = NoData

Clear == call' = <<"Clear">> /\ dict' = {} /\ found' = NoData

Next == \/ Clear
        \/ \E k \in Keys : \/ Search(k) \/ Delete(k)
                           \/ \E d \in Data : Insert(k, d)

Spec == Init /\ [][Next]_vars
=============================================================================
