---------------------------- MODULE MeshMultiply ----------------------------
(***************************************************************************)
(* PRL/proj2/mm.cpp: two matrices multiplied on a mesh of processes.  The  *)
(* messages are as in EnumerationSort; process 0 has a part in the mesh    *)
(* too.  A step goes from one MPI_Recv to the next from another source.    *)
(***************************************************************************)
EXTENDS Integers, Sequences

CONSTANTS Jobs              \* [rows, cols, mat1, mat2]: what the two files hold

VARIABLES job, rows, cols, n,
          under,            \* [source, target, tag] |-> the messages under way
          phase, round,     \* where each process is, and its turn of the loop
          vecA, vecB, cell, \* of each process: its values and its c
          result, gathered

meshVars == <<job, rows, cols, n, under, phase, round, vecA, vecB, cell, result, gathered>>

Processes == 0..rows * cols - 1

leftBorder(id)   == id % cols = 0
topBorder(id)    == id < cols
rightBorder(id)  == (id + 1) % cols = 0
bottomBorder(id) == id >= cols * (rows - 1)
getIndex(k, j, width) == width * k + j

MeshInit == /\ job = <<>> /\ rows = 0 /\ cols = 0 /\ n = 0 /\ under = <<>>
            /\ phase = <<>> /\ round = <<>> /\ vecA = <<>> /\ vecB = <<>>
            /\ cell = <<>> /\ result = <<>> /\ gathered = "start"

Valid(j) == /\ j.rows > 0 /\ j.cols > 0
            /\ Len(j.mat1) \div j.rows = Len(j.mat2) \div j.cols

\* What process 0 sends before it becomes a part of the mesh.
Sent(ch) ==
  LET id == ch[2]
  IN CASE ch[1] = 0 /\ ch[3] = "tag_a" /\ id % cols' = 0 ->
            [k \in 1..n' |-> job'.mat1[getIndex(id \div cols', k - 1, n') + 1]]
       [] ch[1] = 0 /\ ch[3] = "tag_b" /\ id < cols' ->
            [k \in 1..n' |-> job'.mat2[getIndex(k - 1, id, cols') + 1]]
       [] OTHER -> <<>>

Distribute ==
  /\ gathered = "start" /\ job' \in Jobs
  /\ rows' = job'.rows /\ cols' = job'.cols
  /\ IF ~Valid(job')        \* MPI_Abort
     THEN gathered' = "aborted" /\ UNCHANGED <<n, under, phase, round, vecA, vecB, cell, result>>
     ELSE LET all == 0..rows' * cols' - 1
          IN /\ n' = Len(job'.mat1) \div rows'
             /\ under' = [ch \in all \X all \X {"tag_a", "tag_b", "tag_c"} |-> Sent(ch)]
             /\ phase' = [p \in all |-> "values"] /\ round' = [p \in all |-> 0]
             /\ vecA' = [p \in all |-> <<>>] /\ vecB' = [p \in all |-> <<>>]
             /\ cell' = [p \in all |-> 0] /\ result' = <<>> /\ gathered' = "no"

\* The values of a row or a column, at the border of the mesh.
Values(id) ==
  /\ phase[id] = "values" /\ phase' = [phase EXCEPT ![id] = "loop"]
  /\ vecA' = [vecA EXCEPT ![id] = IF leftBorder(id) THEN under[<<0, id, "tag_a">>] ELSE <<>>]
  /\ vecB' = [vecB EXCEPT ![id] = IF topBorder(id) THEN under[<<0, id, "tag_b">>] ELSE <<>>]
  /\ under' = [under EXCEPT ![<<0, id, "tag_a">>] = IF leftBorder(id) THEN <<>> ELSE @,
                            ![<<0, id, "tag_b">>] = IF topBorder(id) THEN <<>> ELSE @]
  /\ UNCHANGED <<job, rows, cols, n, round, cell, result, gathered>>

\* Where the next value comes from: the own vector or a neighbour.
Left(id) == IF leftBorder(id) THEN vecA[id] ELSE under[<<id - 1, id, "tag_a">>]
Top(id)  == IF topBorder(id) THEN vecB[id] ELSE under[<<id - cols, id, "tag_b">>]

Gone(u, id) ==
  LET noA == IF leftBorder(id) THEN u ELSE [u EXCEPT ![<<id - 1, id, "tag_a">>] = Tail(@)]
  IN IF topBorder(id) THEN noA ELSE [noA EXCEPT ![<<id - cols, id, "tag_b">>] = Tail(@)]

Passed(u, id, a, b) ==
  LET withA == IF rightBorder(id) THEN u ELSE [u EXCEPT ![<<id, id + 1, "tag_a">>] = Append(@, a)]
  IN IF bottomBorder(id) THEN withA
     ELSE [withA EXCEPT ![<<id, id + cols, "tag_b">>] = Append(@, b)]

\* One turn of the loop.
Turn(id) ==
  /\ phase[id] = "loop" /\ round[id] < n /\ Left(id) # <<>> /\ Top(id) # <<>>
  /\ LET a == Head(Left(id))
         b == Head(Top(id))
     IN /\ cell' = [cell EXCEPT ![id] = @ + a * b]
        /\ under' = Passed(Gone(under, id), id, a, b)
  /\ vecA' = [vecA EXCEPT ![id] = IF leftBorder(id) THEN Tail(@) ELSE @]
  /\ vecB' = [vecB EXCEPT ![id] = IF topBorder(id) THEN Tail(@) ELSE @]
  /\ round' = [round EXCEPT ![id] = @ + 1]
  /\ UNCHANGED <<job, rows, cols, n, phase, result, gathered>>

Answer(id) == /\ phase[id] = "loop" /\ round[id] = n
              /\ under' = [under EXCEPT ![<<id, 0, "tag_c">>] = Append(@, cell[id])]
              /\ phase' = [phase EXCEPT ![id] = "end"]
              /\ UNCHANGED <<job, rows, cols, n, round, vecA, vecB, cell, result, gathered>>

\* Process 0 takes the results in the order of the processes, and writes them.
Gather ==
  LET from == Len(result)
  IN /\ gathered = "no" /\ phase[0] = "end" /\ under[<<from, 0, "tag_c">>] # <<>>
     /\ result' = Append(result, Head(under[<<from, 0, "tag_c">>]))
     /\ under' = [under EXCEPT ![<<from, 0, "tag_c">>] = Tail(@)]
     /\ gathered' = IF from + 1 = rows * cols THEN "yes" ELSE "no"
     /\ UNCHANGED <<job, rows, cols, n, phase, round, vecA, vecB, cell>>

MeshNext ==
  \/ Distribute \/ Gather
  \/ gathered = "no" /\ \E id \in Processes : Values(id) \/ Turn(id) \/ Answer(id)
  \/ gathered \in {"yes", "aborted"} /\ UNCHANGED meshVars

MeshSpec == MeshInit /\ [][MeshNext]_meshVars

-----------------------------------------------------------------------------
\* The sums of the first products of a row of the one matrix and a column of the other.
Sums(r, s) ==
  LET sum[t \in 0..n] == IF t = 0 THEN 0 ELSE sum[t - 1] + job.mat1[r * n + t]
                                                         * job.mat2[(t - 1) * cols + s + 1]
  IN sum

\* mm.cpp: what process 0 writes is the product of the matrices, row by row; numbers too
\* many for the rows of the first file, or for the columns of the second, do not count;
\* and no value is left under way.
MultipliesMatrices ==
  gathered = "yes" =>
    /\ result = [k \in 1..rows * cols |-> Sums((k - 1) \div cols, (k - 1) % cols)[n]]
    /\ \A ch \in DOMAIN under : under[ch] = <<>>
=============================================================================
