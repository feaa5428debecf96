----------------------------- MODULE SearchTree -----------------------------
(***************************************************************************)
(* IAL/c401.c: a binary search tree whose functions are recursive on the   *)
(* pointer that leads to a node.  Such a pointer to a pointer is a slot: a *)
(* side of a node, or the one slot of RootPtr.                             *)
(***************************************************************************)
EXTENDS Integers, Sequences, FiniteSets

CONSTANTS
  Cells,    \* the memory for nodes: a bound on their number
  NULL,
  Keys,     \* integers: char K
  Data, NoData

VARIABLES
  link,       \* the slots
  key, cont,  \* the nodes
  allocated,  \* the nodes that malloc has given
  found,      \* what the last operation, BSTSearch, gave in *Content; NoData where
              \* it returned FALSE and after the others, which give nothing
  call        \* the last operation and its key

treeVars == <<link, key, cont, allocated, found, call>>

RootPtr == <<"RootPtr">>
LPtr(x) == <<x, "LPtr">>
RPtr(x) == <<x, "RPtr">>
Slots   == {RootPtr} \cup {LPtr(x) : x \in Cells} \cup {RPtr(x) : x \in Cells}
NoKey   == -1

TreeTypeOK == /\ link \in [Slots -> Cells \cup {NULL}]
              /\ key \in [Cells -> Keys \cup {NoKey}]
              /\ cont \in [Cells -> Data \cup {NoData}]
              /\ allocated \subseteq Cells
              /\ found \in Data \cup {NoData}

TreeInit == /\ link = [s \in Slots |-> NULL]
            /\ key = [x \in Cells |-> NoKey] /\ cont = [x \in Cells |-> NoData]
            /\ allocated = {}
            /\ found = NoData /\ call = <<"Init">>

\* Which way to go on from a node.
Side(x, k) == IF key[x] < k THEN RPtr(x) ELSE LPtr(x)

\* The slot at which the recursion for a key ends: that of its node, or an empty
\* one.
RECURSIVE Descend(_, _)
Descend(s, k) == IF link[s] = NULL \/ key[link[s]] = k THEN s
                 ELSE Descend(Side(link[s], k), k)
SlotOf(k) == Descend(RootPtr, k)

\* The cell malloc gives next, if one is left.  Which of the free ones it is makes no
\* difference: the code only compares pointers for equality.
Fresh == IF allocated = Cells THEN {} ELSE {CHOOSE x \in Cells : x \notin allocated}

BSTSearch(k) ==
  /\ call' = <<"Search", k>>
  /\ found' = IF link[SlotOf(k)] = NULL THEN NoData ELSE cont[link[SlotOf(k)]]
  /\ UNCHANGED <<link, key, cont, allocated>>

BSTInsert(k, d) ==
  /\ call' = <<"Insert", k>> /\ found' = NoData
  /\ \/ /\ link[SlotOf(k)] # NULL
        /\ cont' = [cont EXCEPT ![link[SlotOf(k)]] = d]
        /\ UNCHANGED <<link, key, allocated>>
     \/ /\ link[SlotOf(k)] = NULL
        /\ UNCHANGED <<link, key, cont, allocated>>
     \/ /\ link[SlotOf(k)] = NULL
        /\ \E node \in Fresh :
             /\ allocated' = allocated \cup {node}
             /\ key' = [key EXCEPT ![node] = k]
             /\ cont' = [cont EXCEPT ![node] = d]
             /\ link' = [link EXCEPT ![SlotOf(k)] = node, ![LPtr(node)] = NULL,
                                     ![RPtr(node)] = NULL]

\* free of nodes; nobody reads them again, so they are kept blank.
Free(gone, links, keys, conts) ==
  /\ allocated' = allocated \ gone
  /\ link' = [s \in Slots |-> IF s # RootPtr /\ s[1] \in gone THEN NULL ELSE links[s]]
  /\ key' = [x \in Cells |-> IF x \in gone THEN NoKey ELSE keys[x]]
  /\ cont' = [x \in Cells |-> IF x \in gone THEN NoData ELSE conts[x]]

\* The slot of the rightmost node below one, for ReplaceByRightmost.
RECURSIVE Rightmost(_)
Rightmost(s) == IF link[RPtr(link[s])] = NULL THEN s ELSE Rightmost(RPtr(link[s]))

\* What the slot of the rightmost node gets: a mutant loses its left subtree.
LostHeir(x) == NULL
Heir(x)     == link[LPtr(x)]

ReplaceByRightmost(node, s) ==
  LET right == link[Rightmost(s)] IN
  Free({right}, [link EXCEPT ![Rightmost(s)] = Heir(right)],
       [key EXCEPT ![node] = key[right]], [cont EXCEPT ![node] = cont[right]])

BSTDelete(k) ==
  LET slot == SlotOf(k)
      node == link[slot]
      Inherits(side) == Free({node}, [link EXCEPT ![slot] = link[side]], key, cont)
  IN /\ call' = <<"Delete", k>> /\ found' = NoData
     /\ \/ node = NULL /\ UNCHANGED <<link, key, cont, allocated>>
        \/ node # NULL /\ link[LPtr(node)] = NULL /\ Inherits(RPtr(node))
        \/ /\ node # NULL /\ link[LPtr(node)] # NULL /\ link[RPtr(node)] = NULL
           /\ Inherits(LPtr(node))
        \/ /\ node # NULL /\ link[LPtr(node)] # NULL /\ link[RPtr(node)] # NULL
           /\ ReplaceByRightmost(node, LPtr(node))

\* The nodes below a slot, no deeper than there are cells.
RECURSIVE Below(_, _)
Below(s, n) == IF n = 0 \/ link[s] = NULL THEN {}
               ELSE {link[s]} \cup Below(LPtr(link[s]), n - 1)
                              \cup Below(RPtr(link[s]), n - 1)
Reachable(s) == Below(s, Cardinality(Cells))

BSTDispose == /\ call' = <<"Clear">> /\ found' = NoData
              /\ Free(Reachable(RootPtr), [link EXCEPT ![RootPtr] = NULL], key, cont)

TreeNext == \/ BSTDispose
            \/ \E k \in Keys : \/ BSTSearch(k) \/ BSTDelete(k)
                               \/ \E d \in Data : BSTInsert(k, d)

TreeSpec == TreeInit /\ [][TreeNext]_treeVars

-----------------------------------------------------------------------------
\* Left of a node are only smaller keys and right of it only greater ones, and the
\* nodes that were allocated are those of the tree, each hanging in one slot.
TreeIsSorted ==
  /\ Reachable(RootPtr) = allocated
  /\ \A x \in allocated : /\ \A y \in Reachable(LPtr(x)) : key[y] < key[x]
                          /\ \A y \in Reachable(RPtr(x)) : key[y] > key[x]
                          /\ Cardinality({s \in Slots : link[s] = x}) = 1

\* The nodes that the descent for their own key finds.
Found == {link[SlotOf(key[x])] : x \in allocated} \ {NULL}

Abstract == INSTANCE Dictionary WITH dict <- {<<key[x], cont[x]>> : x \in Found}

\* What can be found in the tree behaves as a table of values by keys, whatever its
\* shape.
ImplementsTable == Abstract!Spec
=============================================================================
