----------------------------- MODULE CursorList -----------------------------
(***************************************************************************)
(* What the list of IAL/c206.c promises: a sequence with at most one       *)
(* active element.  Memory may run out on any insertion; the copying       *)
(* operations report an error when there is nothing to copy, the others do *)
(* nothing when the element they need is not there.                        *)
(***************************************************************************)
EXTENDS Integers, Sequences, SequencesExt

CONSTANTS Data, NoData

VARIABLES
  items,    \* the elements
  act,      \* the position of the active one, 0 for none
  val,      \* what was copied last
  errflg,   \* whether the last operation called DLError
  call      \* the last operation

vars == <<items, act, val, errflg, call>>

Init == items = <<>> /\ act = 0 /\ val = NoData /\ errflg = FALSE /\ call = "Init"

N == Len(items)
Becomes(s, a) == items' = s /\ act' = a /\ errflg' = FALSE /\ UNCHANGED val
Nothing       == UNCHANGED <<items, act, val>> /\ errflg' = FALSE
Error         == UNCHANGED <<items, act, val>> /\ errflg' = TRUE

\* Where the active element is after one is put in, or taken out, at place k.
ActIn(k)  == IF act >= k THEN act + 1 ELSE act
ActOut(k) == CASE act > k -> act - 1 [] act = k -> 0 [] OTHER -> act

Put(k)     == Error \/ \E d \in Data : Becomes(InsertAt(items, k, d), ActIn(k))
Take(k)    == Becomes(RemoveAt(items, k), ActOut(k))
CopyOf(k)  == val' = items[k] /\ errflg' = FALSE /\ UNCHANGED <<items, act>>
Activate(k) == Becomes(items, k)

\* An operation that is possible under a condition, and what it does otherwise.
Op(name, possible, effect, otherwise) ==
  call' = name /\ IF possible THEN effect ELSE otherwise

Next ==
  \/ Op("DisposeList", TRUE, Becomes(<<>>, 0), Nothing)
  \/ Op("InsertFirst", TRUE, Put(1), Nothing)
  \/ Op("InsertLast",  TRUE, Put(N + 1), Nothing)
  \/ Op("First",       TRUE, Activate(IF N = 0 THEN 0 ELSE 1), Nothing)
  \/ Op("Last",        TRUE, Activate(N), Nothing)
  \/ Op("CopyFirst",   N > 0, CopyOf(1), Error)
  \/ Op("CopyLast",    N > 0, CopyOf(N), Error)
  \/ Op("DeleteFirst", N > 0, Take(1), Nothing)
  \/ Op("DeleteLast",  N > 0, Take(N), Nothing)
  \/ Op("PostDelete",  act \notin {0, N}, Take(act + 1), Nothing)
  \/ Op("PreDelete",   act > 1, Take(act - 1), Nothing)
  \/ Op("PostInsert",  act > 0, Put(act + 1), Nothing)
  \/ Op("PreInsert",   act > 0, Put(act), Nothing)
  \/ Op("Copy",        act > 0, CopyOf(act), Error)
  \/ Op("Actualize",   act > 0,
        \E d \in Data : Becomes([items EXCEPT ![act] = d], act), Nothing)
  \/ Op("Succ",        act > 0, Activate(IF act = N THEN 0 ELSE act + 1), Nothing)
  \/ Op("Pred",        act > 0, Activate(act - 1), Nothing)

Spec == Init /\ [][Next]_vars
=============================================================================
