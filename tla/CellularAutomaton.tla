-------------------------- MODULE CellularAutomaton -------------------------
(***************************************************************************)
(* IMS/CA.cpp: the spreading of a virus over a lattice of cells, resistant *)
(* (R) and susceptible (S) ones.  A step computes the next cell of every   *)
(* place from the actual lattice, one after the other, and counts as it    *)
(* goes how the kinds change, because the resistant cells are kept at the  *)
(* share that they had at the beginning.                                   *)
(*                                                                         *)
(* checkProbability is a choice.  A draw is never exactly zero, so what    *)
(* has no chance does not happen.                                          *)
(***************************************************************************)
EXTENDS Integers, Sequences, FiniteSets

CONSTANTS
  msize,               \* the lattice is msize * msize
  cell_lifespan, infect_r_lifespan, infect_s_lifespan,
  Lattices,            \* what generateLattice may make: functions from Places to cells
  Steps,               \* the steps of a simulation
  MaxSurprises         \* how many cells of a simulation a draw may infect, heal, make
                       \* defective or leave dead

Side   == 0..msize - 1
Places == Side \X Side
CellStates  == {"HEALTHY_R", "HEALTHY_S", "INFECTED_R", "INFECTED_S", "DEF_INFECTED", "DEAD"}

VARIABLES
  step,                    \* of the simulation
  at,                      \* how many places of the step are done
  actualCells, nextCells,  \* the two lattices
  counter,                 \* by how many cells each kind has grown in the step
  statistics,              \* the cells of each kind after each step
  ratioRS,                 \* R and S at the beginning, whose quotient is ratioRS
  surprises

caVars == <<step, at, actualCells, nextCells, counter, statistics, ratioRS, surprises>>

Count(lattice, k) == Cardinality({p \in Places : lattice[p].state = k})
Counts(lattice)   == [k \in CellStates |-> Count(lattice, k)]
Both(f, a, b)     == f[a] + f[b]
Nothing           == [k \in CellStates |-> 0]
AllPlaces         == msize * msize

\* The constructor and generateLattice; what the second lattice holds is never read.
CAInit ==
  /\ actualCells \in Lattices
  /\ nextCells = [p \in Places |-> [state |-> "HEALTHY_R", lifeTime |-> 0]]
  /\ step = 0 /\ at = AllPlaces /\ counter = Nothing /\ surprises = 0
  /\ statistics = <<Counts(actualCells)>>
  /\ ratioRS = <<Both(statistics[1], "HEALTHY_R", "INFECTED_R"),
                 Both(statistics[1], "HEALTHY_S", "INFECTED_S")>>

-----------------------------------------------------------------------------
(* The rules of gen for the cell that comes next. *)

Place == <<at \div msize, at % msize>>
\* gen makes the actual cell older before anything else.
Cell  == [actualCells[Place] EXCEPT !.lifeTime = @ + 1]

\* checkCellLife
Lifespan == [HEALTHY_R |-> cell_lifespan, HEALTHY_S |-> cell_lifespan,
             DEF_INFECTED |-> cell_lifespan, INFECTED_R |-> infect_r_lifespan,
             INFECTED_S |-> infect_s_lifespan]
IsAlive(c) == c.state # "DEAD" => c.lifeTime < Lifespan[c.state]

\* countInfectedNeighbors, of both kinds together: the edges of the lattice meet.
Around(i) == {(i + d) % msize : d \in {msize - 1, 0, 1}}
InfectedNeighbors(i, j) ==
  {p \in (Around(i) \X Around(j)) \ {<<i, j>>} :
     actualCells[p].state \in {"INFECTED_R", "INFECTED_S"}}

\* The quotient of what the step before has counted and what this one has changed,
\* compared with ratioRS as doubles are: a division by zero is greater than every
\* number.
TooManyR ==
  LET last == statistics[step]
      r == Both(last, "HEALTHY_R", "INFECTED_R") + Both(counter, "HEALTHY_R", "INFECTED_R")
      s == Both(last, "HEALTHY_S", "INFECTED_S") + Both(counter, "HEALTHY_S", "INFECTED_S")
  IN ratioRS[2] > 0 /\ (IF s = 0 THEN r > 0 ELSE r * ratioRS[2] > ratioRS[1] * s)

\* The counter after a cell has changed its kind: the dead are not counted, and a mutant
\* forgets the kind that is left.
Joined(k, to) == [counter EXCEPT ![to] = @ + 1]
Moved(k, to)  == [counter EXCEPT ![k] = @ - 1, ![to] = @ + 1]
Left(k)       == [counter EXCEPT ![k] = @ - 1]

\* The age of a cell that has changed; a mutant keeps it.
OldAge(c) == c.lifeTime
NewAge(c) == 0

\* nextStep after gen: it goes to the next place, or the lattices change places and
\* the step is counted.
Become(to, age) ==
  LET older == [actualCells EXCEPT ![Place] = Cell]
      made  == [nextCells EXCEPT ![Place] = [state |-> to, lifeTime |-> age]]
  IN /\ at' = at + 1
     /\ IF at + 1 = AllPlaces
        THEN /\ actualCells' = made /\ nextCells' = older
             /\ statistics' = Append(statistics, Counts(made))
        ELSE /\ actualCells' = older /\ nextCells' = made /\ UNCHANGED statistics
     /\ UNCHANGED <<step, ratioRS>>

Expected  == UNCHANGED surprises
Surprise  == surprises < MaxSurprises /\ surprises' = surprises + 1

Die == /\ ~IsAlive(Cell)
       /\ Become("DEAD", 0) /\ counter' = Left(Cell.state) /\ Expected

\* Rule 1c
Balance == /\ IsAlive(Cell) /\ Cell.state = "HEALTHY_R" /\ TooManyR
           /\ Become("HEALTHY_S", Cell.lifeTime)
           /\ counter' = Moved("HEALTHY_R", "HEALTHY_S") /\ Expected

Infected == [HEALTHY_R |-> "INFECTED_R", HEALTHY_S |-> "INFECTED_S"]
Healed   == [INFECTED_R |-> "HEALTHY_R", INFECTED_S |-> "HEALTHY_S"]

\* Rule 1b, which a resistant cell falls through to when rule 1c does not apply.
MayBeInfected == /\ IsAlive(Cell) /\ Cell.state \in DOMAIN Infected
                 /\ ~(Cell.state = "HEALTHY_R" /\ TooManyR)
                 /\ InfectedNeighbors(Place[1], Place[2]) # {}
Infect == /\ MayBeInfected
          /\ Become(Infected[Cell.state], NewAge(Cell))
          /\ counter' = Moved(Cell.state, Infected[Cell.state]) /\ Surprise

\* Rule 2b
Heal == /\ IsAlive(Cell) /\ Cell.state \in DOMAIN Healed
        /\ Become(Healed[Cell.state], NewAge(Cell))
        /\ counter' = Moved(Cell.state, Healed[Cell.state]) /\ Surprise

\* Rule 2c, which does not touch the counter.
Defect == /\ IsAlive(Cell) /\ Cell.state \in DOMAIN Healed
          /\ Become("DEF_INFECTED", NewAge(Cell)) /\ UNCHANGED counter /\ Surprise

\* Rules 4a and 4b
Replenish ==
  /\ Cell.state = "DEAD"
  /\ \E k \in {"HEALTHY_R", "INFECTED_R"} :
       /\ Become(k, 0) /\ counter' = Joined("DEAD", k)
       /\ IF k = "INFECTED_R" THEN Surprise ELSE Expected

\* No rule applies, or the draws say no.
Stay ==
  /\ IsAlive(Cell) /\ ~(Cell.state = "HEALTHY_R" /\ TooManyR)
  /\ Become(Cell.state, Cell.lifeTime) /\ UNCHANGED counter
  /\ IF Cell.state = "DEAD" THEN Surprise ELSE Expected

Gen == /\ at < AllPlaces
       /\ Die \/ Balance \/ Infect \/ Heal \/ Defect \/ Replenish \/ Stay

\* The beginning of nextStep.
NextStep == /\ at = AllPlaces /\ step < Steps
            /\ step' = step + 1 /\ at' = 0 /\ counter' = Nothing
            /\ UNCHANGED <<actualCells, nextCells, statistics, ratioRS, surprises>>

CANext == Gen \/ NextStep \/ (at = AllPlaces /\ step = Steps /\ UNCHANGED caVars)

CASpec == CAInit /\ [][CANext]_caVars

-----------------------------------------------------------------------------
\* CA.hpp:100, "Used for counting healthy cells to maintain ratio between them": after
\* every cell of a step, what the step before counted and the counter are together the
\* healthy cells of both kinds in the lattice as far as it is made.  The infected ones
\* are those of the lattice and the ones that rule 2c has just made defective.
IsDone(p) == p[1] * msize + p[2] < at
HealthyAreCounted ==
  at < AllPlaces =>
    LET made == [p \in Places |-> IF IsDone(p) THEN nextCells[p] ELSE actualCells[p]]
        Defective(k) == {p \in Places : /\ IsDone(p) /\ actualCells[p].state = k
                                        /\ nextCells[p].state = "DEF_INFECTED"}
    IN \A k \in DOMAIN Infected :
         /\ statistics[step][k] + counter[k] = Count(made, k)
         /\ LET i == Infected[k]
            IN statistics[step][i] + counter[i] = Count(made, i) + Cardinality(Defective(i))

\* gen and nextStep: after every step each place holds a new cell, counted in the
\* statistics, and no cell is older than its kind lives.
LatticeIsMade ==
  at = AllPlaces => /\ Len(statistics) = step + 1
                    /\ statistics[step + 1] = Counts(actualCells)
                    /\ step > 0 => \A p \in Places : IsAlive(actualCells[p])
=============================================================================
