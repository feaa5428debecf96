--------------------------- MODULE RiverCrossing ----------------------------
(***************************************************************************)
(* The persons of IOS/proj2/rivercrossing.c: processes that run member()   *)
(* and synchronise with eight semaphores and four shared counters.         *)
(*                                                                         *)
(* A section between sem_wait(EXCLUSIVE) and sem_post(EXCLUSIVE) is two    *)
(* steps: Lock takes the semaphore, the action of the section does its     *)
(* body and gives it back.  Every other sem_wait, and every sem_post made  *)
(* outside such a section, is a step of its own.  The line that a section  *)
(* prints, and the counter that numbers the lines, are left out.           *)
(***************************************************************************)
EXTENDS Integers, FiniteSets

CONSTANTS
  Hackers,  \* the persons forked by the generator of hackers
  Serfs     \* the persons forked by the generator of serfs

Members    == Hackers \cup Serfs
\* The number of persons that must land; a mutant counts one kind only.
OneKind    == Cardinality(Hackers)
MaxMembers == Cardinality(Hackers) + Cardinality(Serfs)

\* The same number p of each kind is generated, and p is positive and even.
ASSUME Assumption ==
  /\ IsFiniteSet(Hackers) /\ IsFiniteSet(Serfs)
  /\ Hackers \cap Serfs = {}
  /\ Cardinality(Hackers) = Cardinality(Serfs)
  /\ Cardinality(Hackers) > 0 /\ Cardinality(Hackers) % 2 = 0

VARIABLES
  pc,              \* where each person is in member()
  inside,          \* the persons between sem_wait and sem_post of EXCLUSIVE
  isCaptain,       \* the local variable of each person
  posted,          \* how often a captain has posted CAPTAIN
  sem,             \* the values of the semaphores
  hackersCount,    \* hackers on the pier for whom no crew is formed yet
  serfsCount,      \* serfs, likewise
  waitingMembers,  \* how many of the crew have reached the present barrier
  waitingToFinish  \* how many persons have landed for good

shared == <<hackersCount, serfsCount, waitingMembers, waitingToFinish>>
vars   == <<pc, inside, isCaptain, posted, sem, hackersCount, serfsCount,
            waitingMembers, waitingToFinish>>

Semaphores == {"EXCLUSIVE", "MOLO", "HACKER", "SERF", "BOARDING", "LANDING",
               "CAPTAIN", "FINISH"}

\* The places where a person wants or holds EXCLUSIVE, and all the others.
Sections == {"start", "arrive", "group", "board", "role", "land", "landed",
             "finish"}
Places   == Sections \cup {"unborn", "molo", "pier", "boarded", "embarked",
                           "steer", "sail", "ashore", "done"}

TypeOK == /\ pc \in [Members -> Places]
          /\ inside \subseteq Members
          /\ isCaptain \in [Members -> BOOLEAN]
          /\ posted \in [Members -> 0..4]
          /\ sem \in [Semaphores -> Nat]
          /\ hackersCount \in Nat /\ serfsCount \in Nat
          /\ waitingMembers \in 0..3
          /\ waitingToFinish \in Nat

-----------------------------------------------------------------------------
(* The initial state and the parts the steps are built from.               *)

Init == /\ pc = [m \in Members |-> "unborn"]
        /\ inside = {}
        /\ isCaptain = [m \in Members |-> FALSE]
        /\ posted = [m \in Members |-> 0]
        /\ sem = [s \in Semaphores |-> IF s \in {"EXCLUSIVE", "MOLO"}
                                       THEN 1 ELSE 0]
        /\ hackersCount = 0 /\ serfsCount = 0
        /\ waitingMembers = 0 /\ waitingToFinish = 0

Goto(m, place) == pc' = [pc EXCEPT ![m] = place]

\* sem_wait outside a section: m passes from one place to the next.
Pass(m, from, s, to) ==
  /\ pc[m] = from
  /\ sem[s] > 0
  /\ sem' = [sem EXCEPT ![s] = @ - 1]
  /\ Goto(m, to)
  /\ UNCHANGED <<inside, isCaptain, posted, shared>>

\* The end of the section at a place: EXCLUSIVE is given back.
Exit(m, at, to) ==
  /\ pc[m] = at
  /\ m \in inside
  /\ inside' = inside \ {m}
  /\ Goto(m, to)

\* n posts of s, and the post of EXCLUSIVE that ends the section.
PostAndUnlock(s, n) ==
  sem' = [sem EXCEPT ![s] = @ + n, !["EXCLUSIVE"] = @ + 1]
Unlock == sem' = [sem EXCEPT !["EXCLUSIVE"] = @ + 1]

\* Mutants of Gather: the counter is not reset; the third opens the barrier.
GatherWithoutReset(s, n) ==
  /\ waitingMembers' = waitingMembers + 1
  /\ IF waitingMembers + 1 = 4 THEN PostAndUnlock(s, n) ELSE Unlock
GatherEarly(s, n) ==
  IF waitingMembers + 1 = 3
  THEN waitingMembers' = 0 /\ PostAndUnlock(s, n)
  ELSE waitingMembers' = waitingMembers + 1 /\ Unlock

\* The fourth of the crew to come posts s, n times, and resets the counter.
Gather(s, n) ==
  \/ /\ waitingMembers + 1 = 4
     /\ waitingMembers' = 0
     /\ PostAndUnlock(s, n)
  \/ /\ waitingMembers + 1 # 4
     /\ waitingMembers' = waitingMembers + 1
     /\ Unlock

-----------------------------------------------------------------------------
(* The steps of a person, in the order of member().                        *)

Fork(m) == /\ pc[m] = "unborn"
           /\ Goto(m, "start")
           /\ UNCHANGED <<inside, isCaptain, posted, sem, shared>>

Lock(m) == /\ pc[m] \in Sections
           /\ m \notin inside
           /\ sem["EXCLUSIVE"] > 0
           /\ sem' = [sem EXCEPT !["EXCLUSIVE"] = @ - 1]
           /\ inside' = inside \cup {m}
           /\ UNCHANGED <<pc, isCaptain, posted, shared>>

\* A mutant of Start: EXCLUSIVE is given back twice.
StartTwice(m) == /\ Exit(m, "start", "molo")
                 /\ PostAndUnlock("EXCLUSIVE", 1)
                 /\ UNCHANGED <<isCaptain, posted, shared>>
Start(m) == /\ Exit(m, "start", "molo")
            /\ Unlock
            /\ UNCHANGED <<isCaptain, posted, shared>>

EnterMolo(m) == Pass(m, "molo", "MOLO", "arrive")

Arrive(m) == /\ Exit(m, "arrive", "group")
             /\ IF m \in Hackers
                THEN hackersCount' = hackersCount + 1 /\ UNCHANGED serfsCount
                ELSE serfsCount' = serfsCount + 1 /\ UNCHANGED hackersCount
             /\ Unlock
             /\ UNCHANGED <<isCaptain, posted, waitingMembers, waitingToFinish>>

\* A mutant of Crew: any four persons make a crew.
CrewOfAnyFour(h, s) == IF h + s = 4 THEN <<h, s>> ELSE <<0, 0>>

\* The crew that the counters allow, as hackers and serfs; none is <<0, 0>>.
Crew(h, s) == CASE h = 4            -> <<4, 0>>
                [] h # 4 /\ s = 4   -> <<0, 4>>
                [] h # 4 /\ s # 4 /\ h >= 2 /\ s >= 2 -> <<2, 2>>
                [] OTHER            -> <<0, 0>>

\* Whoever completes a crew becomes its captain; a mutant forgets it in a branch.
TwoPairsCall(crew) == crew = <<2, 2>>
Calls(crew)        == crew # <<0, 0>>

\* The person that completes a crew becomes its captain and calls it on board;
\* otherwise the next person may enter the pier.
Group(m) ==
  LET crew == Crew(hackersCount, serfsCount)
  IN  /\ Exit(m, "group", "pier")
      /\ hackersCount' = hackersCount - crew[1]
      /\ serfsCount' = serfsCount - crew[2]
      /\ isCaptain' = [isCaptain EXCEPT ![m] = Calls(crew)]
      /\ sem' = [sem EXCEPT !["HACKER"] = @ + crew[1],
                            !["SERF"] = @ + crew[2],
                            !["MOLO"] = IF Calls(crew) THEN @ ELSE @ + 1,
                            !["EXCLUSIVE"] = @ + 1]
      /\ UNCHANGED <<posted, waitingMembers, waitingToFinish>>

\* A mutant of Embark: everybody takes the seat of a hacker.
EmbarkAsHacker(m) == Pass(m, "pier", "HACKER", "board")
Embark(m) == Pass(m, "pier", IF m \in Hackers THEN "HACKER" ELSE "SERF", "board")

Board(m) == /\ Exit(m, "board", "boarded")
            /\ Gather("BOARDING", 4)
            /\ UNCHANGED <<isCaptain, posted, hackersCount, serfsCount,
                           waitingToFinish>>

Boarded(m) == Pass(m, "boarded", "BOARDING", "role")

Role(m) == /\ Exit(m, "role", "embarked")
           /\ Gather("LANDING", 4)
           /\ UNCHANGED <<isCaptain, posted, hackersCount, serfsCount,
                          waitingToFinish>>

Embarked(m) == Pass(m, "embarked", "LANDING",
                    IF isCaptain[m] THEN "steer" ELSE "sail")

\* The captain, after his sleep, posts CAPTAIN four times, holding nothing.
Steer(m) == /\ pc[m] = "steer"
            /\ sem' = [sem EXCEPT !["CAPTAIN"] = @ + 1]
            /\ posted' = [posted EXCEPT ![m] = @ + 1]
            /\ Goto(m, IF posted[m] + 1 = 4 THEN "sail" ELSE "steer")
            /\ UNCHANGED <<inside, isCaptain, shared>>

Sail(m) == Pass(m, "sail", "CAPTAIN", "land")

Land(m) == /\ Exit(m, "land", "landed")
           /\ Gather("MOLO", 1)
           /\ UNCHANGED <<isCaptain, posted, hackersCount, serfsCount,
                          waitingToFinish>>

Landed(m) == /\ Exit(m, "landed", "ashore")
             /\ waitingToFinish' = waitingToFinish + 1
             /\ IF waitingToFinish + 1 = MaxMembers
                THEN PostAndUnlock("FINISH", MaxMembers)
                ELSE Unlock
             /\ UNCHANGED <<isCaptain, posted, hackersCount, serfsCount,
                            waitingMembers>>

Ashore(m) == Pass(m, "ashore", "FINISH", "finish")

Finish(m) == /\ Exit(m, "finish", "done")
             /\ Unlock
             /\ UNCHANGED <<isCaptain, posted, shared>>

Member(m) == \/ Lock(m) \/ Start(m) \/ EnterMolo(m) \/ Arrive(m) \/ Group(m)
             \/ Embark(m) \/ Board(m) \/ Boarded(m) \/ Role(m) \/ Embarked(m)
             \/ Steer(m) \/ Sail(m) \/ Land(m) \/ Landed(m) \/ Ashore(m)
             \/ Finish(m)

AllDone == \A m \in Members : pc[m] = "done"

Next == \/ \E m \in Members : Fork(m) \/ Member(m)
        \/ AllDone /\ UNCHANGED vars

\* Every process is scheduled again and again as long as it can take a step.
Fairness == \A m \in Members : WF_vars(Fork(m)) /\ WF_vars(Member(m))

Spec     == Init /\ [][Next]_vars
FairSpec == Spec /\ Fairness

-----------------------------------------------------------------------------
(* Safety.                                                                 *)

\* EXCLUSIVE is a mutex: the sections of two persons never overlap (the lines
\* they print and the counters they update would mix).
MutualExclusion == /\ \A a, b \in inside : a = b
                   /\ inside # {} => sem["EXCLUSIVE"] = 0

\* The persons who have a seat, from the moment they leave the pier until they
\* have printed "landing".
Aboard == {m \in Members : pc[m] \in {"board", "boarded", "role", "embarked",
                                      "steer", "sail", "land"}}
Seats  == sem["HACKER"] + sem["SERF"]

\* The persons on the pier: counted, and not on board yet.
OnPier == {m \in Members : pc[m] \in {"group", "pier"}}

\* A boat whose crew is called carries, once the seats are taken, four of a
\* kind or two and two, although the semaphores do not say who was called.
CrewIsLegal ==
  LET h == Cardinality(Aboard \cap Hackers) + sem["HACKER"]
      s == Cardinality(Aboard \cap Serfs) + sem["SERF"]
  IN  /\ h + s <= 4
      /\ h + s = 4 => <<h, s>> \in {<<4, 0>>, <<0, 4>>, <<2, 2>>}

\* A full boat has exactly one captain on board, the person that called its
\* crew: nobody else took the captain's seat while he waited on the pier, and
\* no captain of an earlier boat is still there.
CaptainSails ==
  Cardinality(Aboard) = 4 =>
    Cardinality({m \in Aboard : isCaptain[m]}) = 1

\* A full boat: one of the three crews, under its own captain.
CrewsAreRight == CrewIsLegal /\ CaptainSails

\* One counter serves the three barriers of a crossing: still nobody prints his
\* role before all four have boarded, nor lands before all have a role.
CrewStaysTogether ==
  LET at(places) == {m \in Members : pc[m] \in places}
  IN  /\ at({"role", "embarked", "steer", "sail", "land"}) # {} =>
           Seats = 0 /\ at({"board"}) = {}
      /\ at({"steer", "sail", "land"}) # {} => at({"boarded", "role"}) = {}

\* The pier is closed from the call of a crew until its last member has landed,
\* and the semaphores of the crossing are then drained, so that no permission
\* of one crossing is left for the next.
OneCrossingAtATime ==
  sem["MOLO"] > 0 \/ (\E m \in Members : pc[m] \in {"arrive", "group"}) =>
    /\ Aboard = {}
    /\ waitingMembers = 0
    /\ \A s \in {"HACKER", "SERF", "BOARDING", "LANDING", "CAPTAIN"} : sem[s] = 0

\* The counters account for the persons on the pier: those without a crew are
\* counted, those with one have a permission to board each.
PierIsCounted ==
  /\ Cardinality(OnPier \cap Hackers) = hackersCount + sem["HACKER"]
  /\ Cardinality(OnPier \cap Serfs)   = serfsCount + sem["SERF"]

\* "finished" is printed by nobody before everybody has landed.
FinishTogether ==
  (\E m \in Members : pc[m] \in {"finish", "done"}) =>
    \A m \in Members : pc[m] \in {"ashore", "finish", "done"}

\* All the persons get across and exit: p is even, so nobody is left on the
\* pier without a crew, and no sem_wait waits for a post that is not made.
EverybodyCrosses == <>[]AllDone

-----------------------------------------------------------------------------
(* The semaphores implement the crossing.                                  *)

placeBar ==
  [m \in Members |->
     CASE pc[m] \in {"unborn", "start", "molo", "arrive"} -> "bank"
       [] pc[m] \in {"group", "pier"}                     -> "pier"
       [] pc[m] \in {"board", "boarded", "role", "embarked", "steer", "sail",
                     "land"}                              -> "boat"
       [] pc[m] \in {"landed", "ashore", "finish"}         -> "shore"
       [] pc[m] = "done"                                  -> "home"]
seatsBar == [hacker |-> sem["HACKER"], serf |-> sem["SERF"]]

C == INSTANCE Crossing WITH place <- placeBar, seats <- seatsBar

\* Every behaviour of the processes is a behaviour of the crossing.
ImplementsCrossing == C!Init /\ [][C!Next]_(C!vars)

\* Under the fairness of the scheduler so is its progress.
ImplementsFairCrossing == C!Spec

=============================================================================
