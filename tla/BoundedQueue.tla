---------------------------- MODULE BoundedQueue ----------------------------
(***************************************************************************)
(* What the queue of IAL/c203.c promises: a first-in first-out sequence of *)
(* bounded length; an operation that cannot be carried out changes nothing *)
(* but the error it reports.                                               *)
(***************************************************************************)
EXTENDS Integers, Sequences

CONSTANTS Chars, NoChar, Capacity

VARIABLES
  queue,   \* the characters, the first in front
  c,       \* what was read last
  err,     \* the error of the last operation, "" for none
  op       \* the last operation

vars == <<queue, c, err, op>>

Init == queue = <<>> /\ c = NoChar /\ err = "" /\ op = "INIT"

Reject(code) == err' = code /\ UNCHANGED <<queue, c>>

New == /\ op' = "INIT"
       /\ \/ queue' = <<>> /\ err' = "" /\ UNCHANGED c
          \/ Reject("INIT")

Up(x) == /\ op' = "UP"
         /\ \/ /\ Len(queue) < Capacity
               /\ queue' = Append(queue, x) /\ err' = "" /\ UNCHANGED c
            \/ Len(queue) = Capacity /\ Reject("UP")

Front  == /\ op' = "FRONT"
          /\ \/ queue # <<>> /\ c' = Head(queue) /\ err' = "" /\ UNCHANGED queue
             \/ queue = <<>> /\ Reject("FRONT")

Remove == /\ op' = "REMOVE"
          /\ \/ queue # <<>> /\ queue' = Tail(queue) /\ err' = "" /\ UNCHANGED c
             \/ queue = <<>> /\ Reject("REMOVE")

Get == /\ op' = "GET"
       /\ \/ queue # <<>> /\ c' = Head(queue) /\ queue' = Tail(queue) /\ err' = ""
          \/ queue = <<>> /\ Reject("GET")

Next == \/ New \/ Front \/ Remove \/ Get
        \/ \E x \in Chars : Up(x)

Spec == Init /\ [][Next]_vars
=============================================================================
