---------------------------- MODULE MCStructures ----------------------------
(***************************************************************************)
(* The data structures of IAL, checked in one run: the first step of a     *)
(* behaviour chooses one of them, and only that one is then used.          *)
(***************************************************************************)
EXTENDS RingQueue, DLList

CONSTANTS TableCells, TreeCells,   \* the memory of each: a bound
          HTSIZE, TreeKeys, Values, MAXSTACK

VARIABLES
  structure,                                            \* the chosen one
  table, key, tableData, ptrnext, tableAllocated, found, tableCall,
  link, treeKey, cont, treeAllocated, treeFound, treeCall,
  root, LPtr, RPtr, walkAllocated, walk, ptr, stack, visited, done,
  sFirst, sAct, sNext, sData, sAllocated, sVal, sErrflg, sCall

\* Two keys that collide by their sum, one more in the same chain of two, and one
\* in the other.
TableKeys == {<<97>>, <<98>>, <<97, 98>>, <<99>>}

H == INSTANCE HashTable  WITH Cells <- TableCells, Keys <- TableKeys, data <- tableData,
                              allocated <- tableAllocated, call <- tableCall
T == INSTANCE SearchTree WITH Cells <- TreeCells, Keys <- TreeKeys, key <- treeKey,
                              allocated <- treeAllocated, found <- treeFound,
                              call <- treeCall
W == INSTANCE TreeWalk   WITH allocated <- walkAllocated
S == INSTANCE SList      WITH First <- sFirst, Act <- sAct, next <- sNext, data <- sData,
                              allocated <- sAllocated, val <- sVal, errflg <- sErrflg,
                              call <- sCall

Init == /\ structure \in {"queue", "list", "single", "table", "tree", "walk"}
        /\ QueueInit /\ ListInit /\ S!SListInit /\ H!TableInit /\ T!TreeInit
        /\ W!WalkInit

IdleTable == UNCHANGED <<table, key, tableData, ptrnext, tableAllocated, found, tableCall>>
IdleTree  == UNCHANGED <<link, treeKey, cont, treeAllocated, treeFound, treeCall>>
IdleWalk  == UNCHANGED <<root, LPtr, RPtr, walkAllocated, walk, ptr, stack, visited,
                         done>>
IdleSingle == UNCHANGED <<sFirst, sAct, sNext, sData, sAllocated, sVal, sErrflg, sCall>>

Next ==
  /\ UNCHANGED structure
  /\ \/ /\ structure = "queue" /\ QueueNext
        /\ UNCHANGED listVars /\ IdleSingle /\ IdleTable /\ IdleTree /\ IdleWalk
     \/ /\ structure = "list" /\ ListNext
        /\ UNCHANGED queueVars /\ IdleSingle /\ IdleTable /\ IdleTree /\ IdleWalk
     \/ /\ structure = "single" /\ S!SListNext
        /\ UNCHANGED <<queueVars, listVars>> /\ IdleTable /\ IdleTree /\ IdleWalk
     \/ /\ structure = "table" /\ H!TableNext
        /\ UNCHANGED <<queueVars, listVars>> /\ IdleSingle /\ IdleTree /\ IdleWalk
     \/ /\ structure = "tree" /\ T!TreeNext
        /\ UNCHANGED <<queueVars, listVars>> /\ IdleSingle /\ IdleTable /\ IdleWalk
     \/ /\ structure = "walk" /\ W!WalkNext
        /\ UNCHANGED <<queueVars, listVars>> /\ IdleSingle /\ IdleTable /\ IdleTree

Spec == Init /\ [][Next]_<<structure, queueVars, listVars, table, key, tableData,
                           ptrnext, tableAllocated, found, tableCall, link, treeKey, cont,
                           treeAllocated, treeFound, treeCall, root, LPtr, RPtr,
                           walkAllocated, walk, ptr, stack, visited, done, sFirst, sAct,
                           sNext, sData, sAllocated, sVal, sErrflg, sCall>>

\* Nothing reads what the last operation was, nor what a search gave: states that only
\* differ in that have the same future.  Every step is still compared with the abstract
\* one, these variables included.
View == <<structure, arr, f_index, b_index, c, err, First, Act, Last, lptr, rptr, data,
          allocated, val, errflg, table, key, tableData, ptrnext, tableAllocated, link,
          treeKey, cont, treeAllocated, root, LPtr, RPtr, walkAllocated, walk, ptr, stack,
          visited, done, sFirst, sAct, sNext, sData, sAllocated, sVal, sErrflg>>

-----------------------------------------------------------------------------
\* The fields of the structures hold indices of their arrays, NULL or elements, no stack
\* is longer than its array; every element, item and node that malloc has given is in its
\* chain or its tree, once, where it belongs, and nothing that was freed is; and c402.c
\* visits the nodes in the order of the recursive definitions and frees each of them once
\* (c201.c, c203.c, c206.c, c016.c, c401.c, c402.c: see the module of each).
PointersAreSound == /\ QueueTypeOK /\ ListTypeOK /\ H!TableTypeOK /\ T!TreeTypeOK
                    /\ W!WalkTypeOK /\ S!ChainIsWhole /\ ChainIsWhole
                    /\ H!ChainsAreSound /\ T!TreeIsSorted
                    /\ W!VisitsInOrder /\ W!DisposesAll

\* c201.c does what CursorList promises, c016.c and c401.c what Dictionary does; c203.c
\* and c206.c have properties of their own, ImplementsQueue and ImplementsList.
ImplementsContainers == S!ImplementsList /\ H!ImplementsTable /\ T!ImplementsTable
=============================================================================
