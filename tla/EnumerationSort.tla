--------------------------- MODULE EnumerationSort --------------------------
(***************************************************************************)
(* PRL/proj1/es.cpp: a sort on a line of processes that exchange messages  *)
(* (MPI, outside).  A message of two bytes is buffered, so that MPI_Send   *)
(* does not wait; messages with one tag between two processes stay in      *)
(* order.  A step goes from one MPI_Recv to the next.                      *)
(***************************************************************************)
EXTENDS Naturals, Sequences, SequencesExt

CONSTANTS Inputs            \* the files: as many numbers as there are slaves

VARIABLES numbers,          \* the file
          sent,             \* [source, target, tag] |-> the messages under way
          at, i,            \* where each process is, and the counter of its loop
          x, z, c,          \* of each slave
          sorted            \* numbers of the master

sortVars == <<numbers, sent, at, i, x, z, c, sorted>>

LastId   == Len(numbers)      \* numProcs - 1
Slaves == 1..LastId
Tags   == {"tag_x", "tag_y", "tag_z", "tag_o"}

SortInit == /\ numbers = <<>> /\ sent = <<>> /\ at = <<>> /\ i = <<>>
            /\ x = <<>> /\ z = <<>> /\ c = <<>> /\ sorted = <<>>

After(s, from, to, tag, m) == [s EXCEPT ![<<from, to, tag>>] = Append(@, m)]
Taken(s, from, to, tag)    == [s EXCEPT ![<<from, to, tag>>] = Tail(@)]
Waits(from, to, tag)       == sent[<<from, to, tag>>] # <<>>
Message(from, to, tag)     == Head(sent[<<from, to, tag>>])

\* The master reads the file and sends each number to its slave and to the first one.
ReadFile ==
  /\ numbers = <<>>
  /\ \E file \in Inputs :
       LET last == Len(file)
       IN /\ numbers' = file
          /\ sent' = [ch \in (0..last) \X (0..last) \X Tags |->
                       IF ch[1] = 0 /\ ch[3] = "tag_x" /\ ch[2] # 0 THEN <<file[ch[2]]>>
                       ELSE IF ch = <<0, 1, "tag_y">> THEN file ELSE <<>>]
          /\ at' = [p \in 0..last |-> IF p = 0 THEN "collect" ELSE "x"]
          /\ i' = [p \in 0..last |-> 1] /\ c' = [p \in 1..last |-> 1]
          /\ x' = [p \in 1..last |-> 0] /\ z' = [p \in 1..last |-> 0]
          /\ sorted' = [k \in 1..last |-> 0]

RecvX(id) == /\ at[id] = "x" /\ Waits(0, id, "tag_x")
             /\ x' = [x EXCEPT ![id] = Message(0, id, "tag_x")]
             /\ sent' = Taken(sent, 0, id, "tag_x")
             /\ at' = [at EXCEPT ![id] = "y"]
             /\ UNCHANGED <<numbers, i, z, c, sorted>>

\* Whether the number mine of a slave comes after the k-th one, y: equal numbers keep
\* their order.  A mutant turns the comparison round.
Before(k, id, mine, y) == (k < id /\ mine <= y) \/ mine < y
Behind(k, id, mine, y) == (k < id /\ mine >= y) \/ mine > y

\* Numbers pass along the line; after the last one the slave knows the place of its own.
RecvY(id) ==
  /\ at[id] = "y" /\ Waits(id - 1, id, "tag_y")
  /\ LET y    == Message(id - 1, id, "tag_y")
         rest == Taken(sent, id - 1, id, "tag_y")
         on   == IF id = LastId THEN rest ELSE After(rest, id, id + 1, "tag_y", y)
         rank == c[id] + IF Behind(i[id], id, x[id], y) THEN 1 ELSE 0
     IN /\ c' = [c EXCEPT ![id] = rank]
        /\ IF i[id] = LastId
           THEN /\ sent' = After(on, id, rank, "tag_z", x[id])
                /\ at' = [at EXCEPT ![id] = "z"] /\ i' = [i EXCEPT ![id] = 1]
           ELSE sent' = on /\ i' = [i EXCEPT ![id] = @ + 1] /\ UNCHANGED at
  /\ UNCHANGED <<numbers, x, z, sorted>>

Onward(id) == IF id # LastId THEN id + 1 ELSE 0

\* The number of this place, from whoever had it; then the places before it follow.
RecvZ(id) ==
  /\ at[id] = "z"
  /\ \E from \in Slaves :
       /\ Waits(from, id, "tag_z")
       /\ z' = [z EXCEPT ![id] = Message(from, id, "tag_z")]
       /\ sent' = After(Taken(sent, from, id, "tag_z"), id, Onward(id), "tag_o", z'[id])
  /\ at' = [at EXCEPT ![id] = IF id = 1 THEN "end" ELSE "o"]
  /\ UNCHANGED <<numbers, i, x, c, sorted>>

RecvO(id) ==
  /\ at[id] = "o" /\ Waits(id - 1, id, "tag_o")
  /\ z' = [z EXCEPT ![id] = Message(id - 1, id, "tag_o")]
  /\ sent' = After(Taken(sent, id - 1, id, "tag_o"), id, Onward(id), "tag_o", z'[id])
  /\ i' = [i EXCEPT ![id] = @ + 1]
  /\ at' = [at EXCEPT ![id] = IF i'[id] = id THEN "end" ELSE "o"]
  /\ UNCHANGED <<numbers, x, c, sorted>>

\* The master gets the greatest number first.
Collect ==
  /\ at[0] = "collect" /\ Waits(LastId, 0, "tag_o")
  /\ sorted' = [sorted EXCEPT ![LastId - i[0] + 1] = Message(LastId, 0, "tag_o")]
  /\ sent' = Taken(sent, LastId, 0, "tag_o")
  /\ i' = [i EXCEPT ![0] = @ + 1]
  /\ at' = [at EXCEPT ![0] = IF i'[0] > LastId THEN "end" ELSE "collect"]
  /\ UNCHANGED <<numbers, x, z, c>>

Sorted  == numbers # <<>> /\ \A p \in DOMAIN at : at[p] = "end"

SortNext ==
  \/ ReadFile
  \/ numbers # <<>> /\ (Collect \/ \E id \in Slaves : RecvX(id) \/ RecvY(id) \/ RecvZ(id) \/ RecvO(id))
  \/ Sorted /\ UNCHANGED sortVars

SortSpec == SortInit /\ [][SortNext]_sortVars
-----------------------------------------------------------------------------
\* es.cpp: what the master writes are the numbers of the file, each at a place of its own,
\* in ascending order, in whatever order the messages of different processes come; and no
\* message is left over.
IsPermutation(p) == \A j, k \in Slaves : p[j] = p[k] => j = k
SortsNumbers ==
  Sorted => /\ DOMAIN sorted = Slaves
            /\ \A j, k \in Slaves : j < k => sorted[j] <= sorted[k]
            /\ \E p \in [Slaves -> Slaves] :
                 IsPermutation(p) /\ \A id \in Slaves : sorted[p[id]] = numbers[id]
            /\ \A ch \in DOMAIN sent : sent[ch] = <<>>
=============================================================================
