----------------------------- MODULE HashTable ------------------------------
(***************************************************************************)
(* IAL/c016.c: a hash table with a chain of synonyms for every index, item *)
(* by item.  A key is the sequence of its characters, which are signed.    *)
(***************************************************************************)
EXTENDS Integers, Sequences, FiniteSets, SequencesExt

CONSTANTS
  Cells,    \* the memory for items: a bound on their number
  NULL,
  Keys,     \* sequences of char
  Data, NoData,
  HTSIZE    \* the length of the table

VARIABLES
  table,               \* tHTable: the first item of every chain
  key, data, ptrnext,  \* the items
  allocated,           \* the items that malloc has given
  found,               \* what the last operation, htRead, returned; NoData for
                       \* NULL and after the others, which return nothing
  call                 \* the last operation and its key

tableVars == <<table, key, data, ptrnext, allocated, found, call>>

NoKey   == <<>>
Indices == 0..HTSIZE - 1

TableTypeOK == /\ table \in [Indices -> Cells \cup {NULL}]
               /\ key \in [Cells -> Keys \cup {NoKey}]
               /\ data \in [Cells -> Data \cup {NoData}]
               /\ ptrnext \in [Cells -> Cells \cup {NULL}]
               /\ allocated \subseteq Cells
               /\ found \in Data \cup {NoData}

TableInit == /\ table = [i \in Indices |-> NULL]
             /\ key = [x \in Cells |-> NoKey] /\ data = [x \in Cells |-> NoData]
             /\ ptrnext = [x \in Cells |-> NULL]
             /\ allocated = {}
             /\ found = NoData /\ call = <<"Init">>

\* The remainder of C has the sign of the dividend.
Remainder(a, n) == IF a >= 0 THEN a % n ELSE -((-a) % n)
CharSum(k)      == FoldSeq(LAMBDA char, sum : char + sum, 1, k)
HashCode(k)     == Remainder(CharSum(k), HTSIZE)

\* The items met from x on, until NULL; in a memory of that many.
Paths == UNION {[1..n -> Cells] : n \in 0..Cardinality(Cells)}
Leads(s, x) ==
  /\ x = IF s = <<>> THEN NULL ELSE s[1]
  /\ \A p \in DOMAIN s : ptrnext[s[p]] = IF p = Len(s) THEN NULL ELSE s[p + 1]
Chain(i) == CHOOSE s \in Paths : Leads(s, table[i])

\* htSearch: the first item of the chain with the key.
Hits(k)  == {p \in DOMAIN Chain(HashCode(k)) : key[Chain(HashCode(k))[p]] = k}
First(k) == CHOOSE p \in Hits(k) : \A q \in Hits(k) : p <= q
Search(k) == IF Hits(k) = {} THEN NULL ELSE Chain(HashCode(k))[First(k)]

\* The cell malloc gives next, if one is left.  Which of the free ones it is makes no
\* difference: the code only compares pointers for equality.
Fresh == IF allocated = Cells THEN {} ELSE {CHOOSE x \in Cells : x \notin allocated}

\* The two mallocs succeed, or one of them fails and nothing is kept.
Insert(k, d) ==
  /\ call' = <<"Insert", k>> /\ found' = NoData
  /\ \/ /\ Search(k) # NULL
        /\ data' = [data EXCEPT ![Search(k)] = d]
        /\ UNCHANGED <<table, key, ptrnext, allocated>>
     \/ /\ Search(k) = NULL
        /\ UNCHANGED <<table, key, data, ptrnext, allocated>>
     \/ /\ Search(k) = NULL
        /\ \E newItem \in Fresh :
             /\ allocated' = allocated \cup {newItem}
             /\ key' = [key EXCEPT ![newItem] = k]
             /\ data' = [data EXCEPT ![newItem] = d]
             /\ ptrnext' = [ptrnext EXCEPT ![newItem] = table[HashCode(k)]]
             /\ table' = [table EXCEPT ![HashCode(k)] = newItem]

Read(k) == /\ call' = <<"Search", k>>
           /\ found' = IF Search(k) = NULL THEN NoData ELSE data[Search(k)]
           /\ UNCHANGED <<table, key, data, ptrnext, allocated>>

\* free of items and their keys; nobody reads them again, so they are kept blank.
Free(gone, links) ==
  /\ allocated' = allocated \ gone
  /\ key' = [x \in Cells |-> IF x \in gone THEN NoKey ELSE key[x]]
  /\ data' = [x \in Cells |-> IF x \in gone THEN NoData ELSE data[x]]
  /\ ptrnext' = [x \in Cells |-> IF x \in gone THEN NULL ELSE links[x]]

\* Whether the item in front of the deleted one, or the table, gets its successor;
\* a mutant cuts the chain off.
CutOff(x)    == NULL
Successor(x) == ptrnext[x]

\* htDelete walks the chain itself, with the item before in hand.
Delete(k) ==
  LET chain == Chain(HashCode(k))
      p     == First(k)
  IN /\ call' = <<"Delete", k>> /\ found' = NoData
     /\ \/ Hits(k) = {} /\ UNCHANGED <<table, key, data, ptrnext, allocated>>
        \/ /\ 1 \in Hits(k)
           /\ table' = [table EXCEPT ![HashCode(k)] = Successor(chain[1])]
           /\ Free({chain[1]}, ptrnext)
        \/ /\ Hits(k) # {} /\ 1 \notin Hits(k)
           /\ Free({chain[p]}, [ptrnext EXCEPT ![chain[p - 1]] = Successor(chain[p])])
           /\ UNCHANGED table

ClearAll == /\ call' = <<"Clear">> /\ found' = NoData
            /\ table' = [i \in Indices |-> NULL]
            /\ Free(UNION {{Chain(i)[p] : p \in DOMAIN Chain(i)} : i \in Indices}, ptrnext)

TableNext == \/ ClearAll
             \/ \E k \in Keys : \/ Read(k) \/ Delete(k)
                                \/ \E d \in Data : Insert(k, d)

TableSpec == TableInit /\ [][TableNext]_tableVars

-----------------------------------------------------------------------------
\* c016.c:49, "assigns an index in the range 0..HTSize-1".
HashInRange == \A k \in Keys : HashCode(k) \in Indices

\* Every item that was allocated is in the chain of its key, once, and no chain
\* has another: nothing leaks, nothing dangles and no key is stored twice.
ChainsAreSound ==
  /\ \A i \in Indices : \A p \in DOMAIN Chain(i) : /\ Chain(i)[p] \in allocated
                                                    /\ HashCode(key[Chain(i)[p]]) = i
  /\ \A x \in allocated : Search(key[x]) = x

\* The items that htSearch finds by their own key.
Found   == {Search(key[x]) : x \in allocated} \ {NULL}
Entries == {<<key[x], data[x]>> : x \in Found}

Abstract == INSTANCE Dictionary WITH dict <- Entries

\* What can be found in the chains behaves as one table of values by keys,
\* collisions or not.
ImplementsTable == Abstract!Spec
=============================================================================
