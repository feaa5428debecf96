------------------------------ MODULE Crossing ------------------------------
(***************************************************************************)
(* What IOS/proj2 promises of the river crossing, without its semaphores:  *)
(* people wait on a pier, a boat leaves with four of them in a mix that is *)
(* allowed (four of a kind, or two and two), one boat at a time, and       *)
(* nobody goes home before everybody has crossed.                          *)
(***************************************************************************)
EXTENDS Integers, FiniteSets

CONSTANTS
  Hackers,  \* the people generated as hackers
  Serfs     \* the people generated as serfs

VARIABLES
  place,    \* where each person is
  seats     \* the seats of the present boat that are still to be taken, by kind

vars == <<place, seats>>

Members == Hackers \cup Serfs
At(p)   == {m \in Members : place[m] = p}
Boat    == At("boat")
NoSeats == [hacker |-> 0, serf |-> 0]

\* The mixes in which a boat may leave.
Crews == {[hacker |-> 4, serf |-> 0], [hacker |-> 0, serf |-> 4],
          [hacker |-> 2, serf |-> 2]}

\* The crews that can be formed from the people on the pier.
Possible == {c \in Crews : /\ c.hacker <= Cardinality(At("pier") \cap Hackers)
                           /\ c.serf   <= Cardinality(At("pier") \cap Serfs)}

\* No boat is being boarded or is on the river.
Idle == seats = NoSeats /\ Boat = {}

Init == /\ place = [m \in Members |-> "bank"]
        /\ seats = NoSeats

\* A person steps on the pier, which is closed while a boat is under way and
\* while a crew could be formed.
Arrive(m) == /\ place[m] = "bank"
             /\ Idle
             /\ Possible = {}
             /\ place' = [place EXCEPT ![m] = "pier"]
             /\ UNCHANGED seats

\* A crew is called: its seats are open to the people on the pier.
Call == /\ Idle
        /\ \E c \in Possible : seats' = c
        /\ UNCHANGED place

Board(m) == /\ place[m] = "pier"
            /\ \/ /\ m \in Hackers
                  /\ seats.hacker > 0
                  /\ seats' = [seats EXCEPT !.hacker = @ - 1]
               \/ /\ m \in Serfs
                  /\ seats.serf > 0
                  /\ seats' = [seats EXCEPT !.serf = @ - 1]
            /\ place' = [place EXCEPT ![m] = "boat"]

\* Nobody lands before the boat has left full.
Land(m) == /\ place[m] = "boat"
           /\ seats = NoSeats
           /\ place' = [place EXCEPT ![m] = "shore"]
           /\ UNCHANGED seats

\* Nobody goes home before everybody has landed.
Leave(m) == /\ place[m] = "shore"
            /\ At("shore") \cup At("home") = Members
            /\ place' = [place EXCEPT ![m] = "home"]
            /\ UNCHANGED seats

AllHome == At("home") = Members

Step == \/ Call
        \/ \E m \in Members : Arrive(m) \/ Board(m) \/ Land(m) \/ Leave(m)

Next == Step \/ (AllHome /\ UNCHANGED vars)

Spec == Init /\ [][Next]_vars /\ WF_vars(Step)
=============================================================================
