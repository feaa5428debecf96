------------------------------- MODULE DLList -------------------------------
(***************************************************************************)
(* IAL/c206.c: a doubly linked list with an active element, cell by cell:  *)
(* the three pointers of tDLList, the two pointers of every element and    *)
(* what malloc has given and free has taken back.                          *)
(***************************************************************************)
EXTENDS Integers, Sequences, FiniteSets

CONSTANTS
  Cells,    \* the memory for elements: a bound on the length of the list
  NULL,
  Data,     \* the values kept
  NoData    \* what val holds before anything is copied

ASSUME ListAssumption == IsFiniteSet(Cells) /\ NULL \notin Cells

VARIABLES
  First, Act, Last,    \* tDLList
  lptr, rptr, data,    \* the elements
  allocated,           \* the cells that malloc has given
  val,                 \* what the caller has copied last
  errflg,              \* set by DLError; the caller clears it before a call
  call                 \* the last operation

listVars == <<First, Act, Last, lptr, rptr, data, allocated, val, errflg, call>>

Pointers == Cells \cup {NULL}

ListTypeOK ==
  /\ {First, Act, Last} \subseteq Pointers
  /\ lptr \in [Cells -> Pointers] /\ rptr \in [Cells -> Pointers]
  /\ data \in [Cells -> Data \cup {NoData}]
  /\ allocated \subseteq Cells
  /\ val \in Data \cup {NoData} /\ errflg \in BOOLEAN

ListInit ==
  /\ First = NULL /\ Act = NULL /\ Last = NULL
  /\ lptr = [x \in Cells |-> NULL] /\ rptr = [x \in Cells |-> NULL]
  /\ data = [x \in Cells |-> NoData]
  /\ allocated = {}
  /\ val = NoData /\ errflg = FALSE /\ call = "Init"

\* A pointer field assigned through a pointer that may be NULL, where the code
\* tests it first.
Set(field, x, value) == IF x = NULL THEN field ELSE [field EXCEPT ![x] = value]

\* malloc gives a free cell, or none; which one makes no difference, as the code only
\* compares pointers for equality.  Nobody reads a free cell: its fields are kept
\* blank.
Malloc(x) == /\ allocated # Cells
             /\ x = CHOOSE y \in Cells : y \notin allocated
             /\ allocated' = allocated \cup {x}
Free(gone, l, r, d) ==
  /\ allocated' = allocated \ gone
  /\ lptr' = [x \in Cells |-> IF x \in gone THEN NULL ELSE l[x]]
  /\ rptr' = [x \in Cells |-> IF x \in gone THEN NULL ELSE r[x]]
  /\ data' = [x \in Cells |-> IF x \in gone THEN NoData ELSE d[x]]

Called(name) == call' = name /\ errflg' = FALSE
DLError(name) == /\ call' = name /\ errflg' = TRUE
                 /\ UNCHANGED <<First, Act, Last, lptr, rptr, data, allocated, val>>
Ignore(name)  == /\ Called(name)
                 /\ UNCHANGED <<First, Act, Last, lptr, rptr, data, allocated, val>>
Links == <<lptr, rptr, data, allocated>>

-----------------------------------------------------------------------------
\* The elements met from x on by a field, until NULL; in a memory of that many cells.
Paths == UNION {[1..n -> Cells] : n \in 0..Cardinality(Cells)}
Leads(s, x, field) ==
  /\ x = IF s = <<>> THEN NULL ELSE s[1]
  /\ \A k \in DOMAIN s : field[s[k]] = IF k = Len(s) THEN NULL ELSE s[k + 1]
ChainFrom(x, field) == CHOOSE s \in Paths : Leads(s, x, field)
Chain == ChainFrom(First, rptr)

DLDisposeList == /\ Called("DisposeList")
                 /\ Free({Chain[k] : k \in DOMAIN Chain}, lptr, rptr, data)
                 /\ First' = NULL /\ Act' = NULL /\ Last' = NULL
                 /\ UNCHANGED val

DLInsertFirst(d) ==
  \/ DLError("InsertFirst")
  \/ /\ Called("InsertFirst")
     /\ \E item \in Cells :
          /\ Malloc(item)
          /\ lptr' = [Set(lptr, First, item) EXCEPT ![item] = NULL]
          /\ rptr' = [rptr EXCEPT ![item] = First]
          /\ data' = [data EXCEPT ![item] = d]
          /\ First' = item
          /\ Last' = IF First = NULL THEN item ELSE Last
     /\ UNCHANGED <<Act, val>>

DLInsertLast(d) ==
  \/ DLError("InsertLast")
  \/ /\ Called("InsertLast")
     /\ \E item \in Cells :
          /\ Malloc(item)
          /\ rptr' = [Set(rptr, Last, item) EXCEPT ![item] = NULL]
          /\ lptr' = [lptr EXCEPT ![item] = Last]
          /\ data' = [data EXCEPT ![item] = d]
          /\ Last' = item
          /\ First' = IF Last = NULL THEN item ELSE First
     /\ UNCHANGED <<Act, val>>

Activate(name, x) == Called(name) /\ Act' = x /\ UNCHANGED <<First, Last, Links, val>>
DLFirst == Activate("First", First)
DLLast  == Activate("Last", Last)

CopyOf(name, x) == \/ x = NULL /\ DLError(name)
                   \/ /\ x # NULL /\ Called(name) /\ val' = data[x]
                      /\ UNCHANGED <<First, Act, Last, Links>>
DLCopyFirst == CopyOf("CopyFirst", First)
DLCopyLast  == CopyOf("CopyLast", Last)
DLCopy      == CopyOf("Copy", Act)

\* Whether Act is lost with the element that is deleted; a mutant keeps it.
StaleAct(x) == Act
LoseAct(x)  == IF Act = x THEN NULL ELSE Act

DLDeleteFirst ==
  \/ First = NULL /\ Ignore("DeleteFirst")
  \/ /\ First # NULL /\ Called("DeleteFirst")
     /\ Act' = LoseAct(First)
     /\ Last' = IF First = Last THEN NULL ELSE Last
     /\ First' = rptr[First]
     /\ Free({First}, Set(lptr, rptr[First], NULL), rptr, data)
     /\ UNCHANGED val

DLDeleteLast ==
  \/ Last = NULL /\ Ignore("DeleteLast")
  \/ /\ Last # NULL /\ Called("DeleteLast")
     /\ Act' = LoseAct(Last)
     /\ Last' = lptr[Last]
     /\ First' = IF lptr[Last] = NULL THEN NULL ELSE First
     /\ Free({Last}, lptr, Set(rptr, lptr[Last], NULL), data)
     /\ UNCHANGED val

DLPostDelete ==
  \/ Act \in {NULL, Last} /\ Ignore("PostDelete")
  \/ /\ Act \notin {NULL, Last} /\ Called("PostDelete")
     /\ LET item == rptr[Act] IN
        \/ /\ rptr[item] # NULL
           /\ Free({item}, [lptr EXCEPT ![rptr[item]] = Act],
                           [rptr EXCEPT ![Act] = rptr[item]], data)
           /\ UNCHANGED Last
        \/ /\ rptr[item] = NULL
           /\ Last' = lptr[item]
           /\ Free({item}, lptr, [rptr EXCEPT ![lptr[item]] = NULL], data)
     /\ UNCHANGED <<First, Act, val>>

DLPreDelete ==
  \/ Act \in {NULL, First} /\ Ignore("PreDelete")
  \/ /\ Act \notin {NULL, First} /\ Called("PreDelete")
     /\ LET item == lptr[Act] IN
        \/ /\ lptr[item] # NULL
           /\ Free({item}, [lptr EXCEPT ![Act] = lptr[item]],
                           [rptr EXCEPT ![lptr[item]] = Act], data)
           /\ UNCHANGED First
        \/ /\ lptr[item] = NULL
           /\ First' = Act
           /\ Free({item}, [lptr EXCEPT ![Act] = NULL], rptr, data)
     /\ UNCHANGED <<Act, Last, val>>

\* The neighbour on the far side learns of the new element; a mutant forgets it.
Forget(field, x, item) == field
Relink(field, x, item) == Set(field, x, item)

DLPostInsert(d) ==
  \/ Act = NULL /\ Ignore("PostInsert")
  \/ Act # NULL /\ DLError("PostInsert")
  \/ /\ Act # NULL /\ Called("PostInsert")
     /\ \E item \in Cells :
          /\ Malloc(item)
          /\ lptr' = [Relink(lptr, rptr[Act], item) EXCEPT ![item] = Act]
          /\ rptr' = [rptr EXCEPT ![item] = rptr[Act], ![Act] = item]
          /\ data' = [data EXCEPT ![item] = d]
          /\ Last' = IF rptr[Act] = NULL THEN item ELSE Last
     /\ UNCHANGED <<First, Act, val>>

DLPreInsert(d) ==
  \/ Act = NULL /\ Ignore("PreInsert")
  \/ Act # NULL /\ DLError("PreInsert")
  \/ /\ Act # NULL /\ Called("PreInsert")
     /\ \E item \in Cells :
          /\ Malloc(item)
          /\ rptr' = [Relink(rptr, lptr[Act], item) EXCEPT ![item] = Act]
          /\ lptr' = [lptr EXCEPT ![item] = lptr[Act], ![Act] = item]
          /\ data' = [data EXCEPT ![item] = d]
          /\ First' = IF lptr[Act] = NULL THEN item ELSE First
     /\ UNCHANGED <<Act, Last, val>>

DLActualize(d) ==
  \/ Act = NULL /\ Ignore("Actualize")
  \/ /\ Act # NULL /\ Called("Actualize")
     /\ data' = [data EXCEPT ![Act] = d]
     /\ UNCHANGED <<First, Act, Last, lptr, rptr, allocated, val>>

DLSucc == IF Act = NULL THEN Ignore("Succ") ELSE Activate("Succ", rptr[Act])
DLPred == IF Act = NULL THEN Ignore("Pred") ELSE Activate("Pred", lptr[Act])

ListNext ==
  \/ DLDisposeList \/ DLFirst \/ DLLast \/ DLCopyFirst \/ DLCopyLast \/ DLCopy
  \/ DLDeleteFirst \/ DLDeleteLast \/ DLPostDelete \/ DLPreDelete
  \/ DLSucc \/ DLPred
  \/ \E d \in Data : \/ DLInsertFirst(d) \/ DLInsertLast(d) \/ DLPostInsert(d)
                     \/ DLPreInsert(d) \/ DLActualize(d)

ListSpec == ListInit /\ [][ListNext]_listVars

-----------------------------------------------------------------------------
\* Between the calls the elements form one chain from First to Last, with lptr the
\* way back; nothing that was allocated has dropped out of it, and Act is on it.
ChainIsWhole ==
  /\ {Chain[k] : k \in DOMAIN Chain} = allocated
  /\ Len(Chain) = Cardinality(allocated)
  /\ Last = IF Chain = <<>> THEN NULL ELSE Chain[Len(Chain)]
  /\ \A k \in DOMAIN Chain :
       lptr[Chain[k]] = IF k = 1 THEN NULL ELSE Chain[k - 1]
  /\ Act \in allocated \cup {NULL}

\* The list that the pointers stand for.
Items == [k \in DOMAIN Chain |-> data[Chain[k]]]
Place(s, x) == IF x = NULL THEN 0 ELSE CHOOSE k \in DOMAIN s : s[k] = x
ActAt == Place(Chain, Act)

AbstractList == INSTANCE CursorList WITH items <- Items, act <- ActAt

\* Every operation on the pointers does to the sequence what its name promises,
\* and the active element stays the same one.
ImplementsList == AbstractList!Spec
=============================================================================
