-------------------------- MODULE MCRiverCrossing ---------------------------
(* The river crossing on small groups.                                     *)
EXTENDS RiverCrossing, TLC

Symmetry == Permutations(Hackers) \cup Permutations(Serfs)

\* The reachable state in which everybody has been forked and has printed
\* "started", and nobody has entered the pier yet.
AllAtMolo == /\ pc = [m \in Members |-> "molo"]
             /\ inside = {}
             /\ isCaptain = [m \in Members |-> FALSE]
             /\ posted = [m \in Members |-> 0]
             /\ sem = [s \in Semaphores |-> IF s \in {"EXCLUSIVE", "MOLO"}
                                            THEN 1 ELSE 0]
             /\ hackersCount = 0 /\ serfsCount = 0
             /\ waitingMembers = 0 /\ waitingToFinish = 0

SpecFromMolo == AllAtMolo /\ [][Next]_vars
=============================================================================
