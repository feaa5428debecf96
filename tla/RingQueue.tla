----------------------------- MODULE RingQueue ------------------------------
(***************************************************************************)
(* IAL/c203.c: a queue of characters in an array, between the index of its *)
(* first character and that of the first free place.  One place always     *)
(* stays free, so that equal indices mean an empty queue.                  *)
(***************************************************************************)
EXTENDS Integers, Sequences

CONSTANTS
  QUEUE_SIZE,  \* places in the array
  Chars,       \* characters that are put in
  NoChar       \* '*', with which the array is filled

ASSUME QueueAssumption == QUEUE_SIZE \in Nat \ {0}

VARIABLES
  arr, f_index, b_index,   \* tQueue
  c,                       \* what the caller has read last
  err,                     \* what queueError was called with, "" if it was not
  op                       \* the last operation, by its error code

queueVars == <<arr, f_index, b_index, c, err, op>>

Codes == {"INIT", "UP", "FRONT", "REMOVE", "GET"}

Indices == 0..QUEUE_SIZE - 1

QueueTypeOK == /\ arr \in [Indices -> Chars \cup {NoChar}]
               /\ f_index \in Indices /\ b_index \in Indices
               /\ c \in Chars \cup {NoChar}
               /\ err \in Codes \cup {""} /\ op \in Codes

QueueInit == /\ arr = [i \in Indices |-> NoChar]
             /\ f_index = 0 /\ b_index = 0
             /\ c = NoChar /\ err = "" /\ op = "INIT"

\* A mutant forgets to wrap around at the last place.
NextIndexLate(index) == (index + 1) % (QUEUE_SIZE + 1)
NextIndex(index)     == (index + 1) % QUEUE_SIZE

QueueEmpty == f_index = b_index

\* A mutant lets the last place be filled.
NeverFull == FALSE
QueueFull == NextIndex(b_index) = f_index

QueueError(code) == err' = code /\ UNCHANGED <<arr, f_index, b_index, c>>

\* queueInit on a queue in use, and on NULL.
Reinit == /\ op' = "INIT"
          /\ \/ /\ arr' = [i \in Indices |-> NoChar]
                /\ f_index' = 0 /\ b_index' = 0
                /\ err' = "" /\ UNCHANGED c
             \/ QueueError("INIT")

QueueFront == /\ op' = "FRONT"
              /\ \/ QueueEmpty /\ QueueError("FRONT")
                 \/ /\ ~QueueEmpty
                    /\ c' = arr[f_index] /\ err' = ""
                    /\ UNCHANGED <<arr, f_index, b_index>>

QueueRemove == /\ op' = "REMOVE"
               /\ \/ QueueEmpty /\ QueueError("REMOVE")
                  \/ /\ ~QueueEmpty
                     /\ f_index' = NextIndex(f_index) /\ err' = ""
                     /\ UNCHANGED <<arr, b_index, c>>

QueueGet == /\ op' = "GET"
            /\ \/ QueueEmpty /\ QueueError("GET")
               \/ /\ ~QueueEmpty
                  /\ c' = arr[f_index]
                  /\ f_index' = NextIndex(f_index) /\ err' = ""
                  /\ UNCHANGED <<arr, b_index>>

QueueUp(x) == /\ op' = "UP"
              /\ \/ QueueFull /\ QueueError("UP")
                 \/ /\ ~QueueFull
                    /\ arr' = [arr EXCEPT ![b_index] = x]
                    /\ b_index' = NextIndex(b_index) /\ err' = ""
                    /\ UNCHANGED <<f_index, c>>

QueueNext == \/ Reinit \/ QueueFront \/ QueueRemove \/ QueueGet
             \/ \E x \in Chars : QueueUp(x)

QueueSpec == QueueInit /\ [][QueueNext]_queueVars

-----------------------------------------------------------------------------
\* The characters between the indices, around the end of the array.
Count       == IF f_index <= b_index THEN b_index - f_index
                                     ELSE b_index - f_index + QUEUE_SIZE
Position(k) == IF f_index + k - 1 < QUEUE_SIZE THEN f_index + k - 1
                                               ELSE f_index + k - 1 - QUEUE_SIZE
Contents    == [k \in 1..Count |-> arr[Position(k)]]

AbstractQueue == INSTANCE BoundedQueue WITH queue <- Contents,
                                       Capacity <- QUEUE_SIZE - 1

\* The array and its indices are a first-in first-out queue of one place less than
\* the array: nothing is lost, overwritten or read that was not put in, however
\* often the indices go round.
ImplementsQueue == AbstractQueue!Spec
=============================================================================
