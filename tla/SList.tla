-------------------------------- MODULE SList -------------------------------
(***************************************************************************)
(* IAL/c201.c: a singly linked list with an active element, on cells of    *)
(* the heap as in DLList.  It keeps the promises of CursorList with fewer  *)
(* operations.                                                             *)
(***************************************************************************)
EXTENDS Naturals, Sequences, FiniteSets

CONSTANTS Cells, NULL, Data, NoData    \* as in DLList

VARIABLES First, Act,       \* tList
          next, data,       \* the elements: ptr, data
          allocated, val, errflg, call

Content == <<next, data, allocated>>

slistVars == <<First, Act, Content, val, errflg, call>>

SListInit == /\ First = NULL /\ Act = NULL
             /\ next = [x \in Cells |-> NULL] /\ data = [x \in Cells |-> NoData]
             /\ allocated = {} /\ val = NoData /\ errflg = FALSE /\ call = "Init"

Called(name) == call' = name /\ errflg' = FALSE
Error(name)  == call' = name /\ errflg' = TRUE /\ UNCHANGED <<First, Act, Content, val>>
Ignore(name) == Called(name) /\ UNCHANGED <<First, Act, Content, val>>

\* malloc of an element with its fields; which free cell it gives makes no difference.
New(item, links, d) ==
  /\ allocated # Cells /\ item = CHOOSE x \in Cells : x \notin allocated
  /\ allocated' = allocated \cup {item}
  /\ next' = links /\ data' = [data EXCEPT ![item] = d]

\* free; the fields of a free cell are kept blank.
Free(gone, links) ==
  /\ allocated' = allocated \ gone
  /\ next' = [x \in Cells |-> IF x \in gone THEN NULL ELSE links[x]]
  /\ data' = [x \in Cells |-> IF x \in gone THEN NoData ELSE data[x]]

\* The elements met from x on, until NULL; in a memory of that many cells.
Paths == UNION {[1..n -> Cells] : n \in 0..Cardinality(Cells)}
Leads(s, x) ==
  /\ x = IF s = <<>> THEN NULL ELSE s[1]
  /\ \A k \in DOMAIN s : next[s[k]] = IF k = Len(s) THEN NULL ELSE s[k + 1]
Chain   == CHOOSE s \in Paths : Leads(s, First)
OnChain == {Chain[k] : k \in DOMAIN Chain}

DisposeList == /\ Called("DisposeList") /\ Free(OnChain, next)
               /\ First' = NULL /\ Act' = NULL /\ UNCHANGED val

InsertFirst(d) ==
  \/ Error("InsertFirst")
  \/ /\ Called("InsertFirst")
     /\ \E item \in Cells : /\ New(item, [next EXCEPT ![item] = First], d)
                            /\ First' = item
     /\ UNCHANGED <<Act, val>>

PostInsert(d) ==
  \/ Act = NULL /\ Ignore("PostInsert")
  \/ Act # NULL /\ Error("PostInsert")
  \/ /\ Act # NULL /\ Called("PostInsert")
     /\ \E item \in Cells : New(item, [next EXCEPT ![item] = next[Act], ![Act] = item], d)
     /\ UNCHANGED <<First, Act, val>>

DeleteFirst ==
  \/ First = NULL /\ Ignore("DeleteFirst")
  \/ /\ First # NULL /\ Called("DeleteFirst")
     /\ Act' = IF Act = First THEN NULL ELSE Act
     /\ First' = next[First] /\ Free({First}, next)
     /\ UNCHANGED val

PostDelete ==
  \/ Act = NULL /\ Ignore("PostDelete")
  \/ Act # NULL /\ next[Act] = NULL /\ Ignore("PostDelete")
  \/ /\ Act # NULL /\ next[Act] # NULL /\ Called("PostDelete")
     /\ Free({next[Act]}, [next EXCEPT ![Act] = next[next[Act]]])
     /\ UNCHANGED <<First, Act, val>>

Copy(name, x) == \/ x = NULL /\ Error(name)
                 \/ /\ x # NULL /\ Called(name) /\ val' = data[x]
                    /\ UNCHANGED <<First, Act, Content>>

MoveTo(name, x) == Called(name) /\ Act' = x /\ UNCHANGED <<First, Content, val>>

Succ == IF Act = NULL THEN Ignore("Succ") ELSE MoveTo("Succ", next[Act])

Actualize(d) == \/ Act = NULL /\ Ignore("Actualize")
                \/ /\ Act # NULL /\ Called("Actualize")
                   /\ data' = [data EXCEPT ![Act] = d]
                   /\ UNCHANGED <<First, Act, next, allocated, val>>

SListNext ==
  \/ DisposeList \/ DeleteFirst \/ PostDelete \/ Succ
  \/ MoveTo("First", First) \/ Copy("CopyFirst", First) \/ Copy("Copy", Act)
  \/ \E d \in Data : InsertFirst(d) \/ PostInsert(d) \/ Actualize(d)

SListSpec == SListInit /\ [][SListNext]_slistVars

-----------------------------------------------------------------------------
\* The elements form one chain from First on, without a cycle; nothing that was
\* allocated has dropped out of it, and Act is on it.
ChainIsWhole == /\ OnChain = allocated /\ Len(Chain) = Cardinality(allocated)
                /\ Act \in allocated \cup {NULL}

\* The sequence that the pointers stand for.
Items == [k \in DOMAIN Chain |-> data[Chain[k]]]
ActAt == IF Act = NULL THEN 0 ELSE CHOOSE k \in DOMAIN Chain : Chain[k] = Act

AbstractList == INSTANCE CursorList WITH items <- Items, act <- ActAt

\* Every operation does to the sequence what its name promises.
ImplementsList == AbstractList!Spec
=============================================================================
