---------------------------- MODULE River_proofs ----------------------------
(***************************************************************************)
(* Theorems of the river crossing, for any even number of hackers and      *)
(* serfs, and of the processes around it, for any failures and interrupts. *)
(*                                                                         *)
(* The crews: the places of the persons are counted.  A crossing has four  *)
(* phases, and in each the counters and semaphores are sums of such        *)
(* numbers: the pier is open; a crew takes its seats; it tells its roles;  *)
(* it lands.                                                               *)
(***************************************************************************)
EXTENDS RiverProcesses, FiniteSetTheorems, TLAPS

-----------------------------------------------------------------------------
(* Facts about the constants and the operators.                            *)

\* There are finitely many persons, and maxMembers counts them.
LEMMA MembersFinite ==
  /\ IsFiniteSet(Members)
  /\ MaxMembers = Cardinality(Members)
  /\ MaxMembers \in Nat
<1>1. IsFiniteSet(Members) /\ Cardinality(Members) =
        Cardinality(Hackers) + Cardinality(Serfs) - Cardinality(Hackers \cap Serfs)
  BY Assumption, FS_Union DEF Members
<1>2. Cardinality(Hackers \cap Serfs) = 0
  BY Assumption, FS_EmptySet
<1>3. Cardinality(Hackers) \in Nat /\ Cardinality(Serfs) \in Nat
  BY Assumption, FS_CardinalityType
<1> QED
  BY <1>1, <1>2, <1>3 DEF MaxMembers

\* A crew takes from the counters no more than they hold, and is the empty one
\* or has four members.
LEMMA CrewIsAvailable ==
  ASSUME NEW h \in Nat, NEW s \in Nat
  PROVE  /\ Crew(h, s) \in {<<0, 0>>, <<4, 0>>, <<0, 4>>, <<2, 2>>}
         /\ Crew(h, s)[1] \in 0..h
         /\ Crew(h, s)[2] \in 0..s
<1>1. CASE h = 4
  BY <1>1 DEF Crew
<1>2. CASE h # 4 /\ s = 4
  BY <1>2 DEF Crew
<1>3. CASE h # 4 /\ s # 4 /\ h >= 2 /\ s >= 2
  BY <1>3 DEF Crew
<1>4. CASE h # 4 /\ s # 4 /\ ~(h >= 2 /\ s >= 2)
  <2>1. Crew(h, s) = <<0, 0>>
    BY <1>4 DEF Crew
  <2> QED
    BY <2>1
<1> QED
  BY <1>1, <1>2, <1>3, <1>4

-----------------------------------------------------------------------------
(* Types.                                                                  *)

\* The places before a captain starts to post CAPTAIN.
BeforeSteer == {"unborn", "start", "molo", "arrive", "group", "pier", "board",
                "boarded", "role", "embarked"}

\* A captain starts with nothing posted and stops at the fourth post.
PostedInv == \A m \in Members : /\ pc[m] \in BeforeSteer => posted[m] = 0
                                /\ pc[m] = "steer" => posted[m] < 4

TypeInv == TypeOK /\ PostedInv

LEMMA TypeInvInit == Init => TypeInv
BY DEF Init, TypeInv, TypeOK, PostedInv, Places, Sections, Semaphores,
       BeforeSteer

LEMMA TypeInvNext == TypeInv /\ [Next]_vars => TypeInv'
<1> SUFFICES ASSUME TypeInv, [Next]_vars
             PROVE  TypeInv'
  OBVIOUS
<1> USE DEF TypeInv, TypeOK, PostedInv, Places, Sections, Semaphores,
            BeforeSteer, Goto, shared
<1>1. ASSUME NEW m \in Members, Fork(m)
      PROVE  TypeInv'
  BY <1>1 DEF Fork
<1>2. ASSUME NEW m \in Members, Lock(m)
      PROVE  TypeInv'
  BY <1>2 DEF Lock
<1>3. ASSUME NEW m \in Members,
             Start(m) \/ Arrive(m) \/ Finish(m)
      PROVE  TypeInv'
  BY <1>3 DEF Start, Arrive, Finish, Exit, Unlock
<1>4. ASSUME NEW m \in Members, Group(m)
      PROVE  TypeInv'
  <2> DEFINE crew == Crew(hackersCount, serfsCount)
  <2>1. /\ crew[1] \in 0..hackersCount
        /\ crew[2] \in 0..serfsCount
    BY CrewIsAvailable
  <2> HIDE DEF crew
  <2>2. /\ pc[m] = "group"
        /\ pc' = [pc EXCEPT ![m] = "pier"]
        /\ inside' = inside \ {m}
        /\ hackersCount' = hackersCount - crew[1]
        /\ serfsCount' = serfsCount - crew[2]
        /\ isCaptain' = [isCaptain EXCEPT ![m] = Calls(crew)]
        /\ UNCHANGED <<posted, waitingMembers, waitingToFinish>>
    BY <1>4 DEF Group, Exit, crew
  <2>3. sem' = [sem EXCEPT !["HACKER"] = @ + crew[1],
                           !["SERF"] = @ + crew[2],
                           !["MOLO"] = IF Calls(crew) THEN @ ELSE @ + 1,
                           !["EXCLUSIVE"] = @ + 1]
    BY <1>4 DEF Group, crew
  <2>4. sem' \in [Semaphores -> Nat]
    <3>1. CASE Calls(crew)
      BY <2>1, <2>3, <3>1
    <3>2. CASE ~Calls(crew)
      BY <2>1, <2>3, <3>2
    <3> QED
      BY <3>1, <3>2
  <2>5. hackersCount' \in Nat /\ serfsCount' \in Nat
    BY <2>1, <2>2
  <2>6. isCaptain' \in [Members -> BOOLEAN]
    BY <2>2 DEF Calls
  <2> QED
    BY <2>2, <2>4, <2>5, <2>6
<1>5. ASSUME NEW m \in Members,
             EnterMolo(m) \/ Embark(m) \/ Boarded(m) \/ Embarked(m)
               \/ Sail(m) \/ Ashore(m)
      PROVE  TypeInv'
  BY <1>5 DEF EnterMolo, Embark, Boarded, Embarked, Sail, Ashore, Pass
<1>6. ASSUME NEW m \in Members, Board(m) \/ Role(m) \/ Land(m)
      PROVE  TypeInv'
  BY <1>6 DEF Board, Role, Land, Exit, Gather, Unlock, PostAndUnlock
<1>7. ASSUME NEW m \in Members, Steer(m)
      PROVE  TypeInv'
  BY <1>7 DEF Steer
<1>8. ASSUME NEW m \in Members, Landed(m)
      PROVE  TypeInv'
  BY <1>8, MembersFinite DEF Landed, Exit, Unlock, PostAndUnlock
<1>9. CASE UNCHANGED vars
  BY <1>9 DEF vars
<1> QED
  BY <1>1, <1>2, <1>3, <1>4, <1>5, <1>6, <1>7, <1>8, <1>9 DEF Next, Member

\* Every variable keeps its type; in particular no semaphore becomes negative,
\* a captain posts CAPTAIN at most four times and the barrier counter is reset.
THEOREM TypeCorrect == Spec => [](TypeOK /\ PostedInv)
<1>1. TypeInv /\ [Next]_vars => TypeInv'
  BY TypeInvNext
<1> QED
  BY <1>1, TypeInvInit, PTL DEF Spec, TypeInv

-----------------------------------------------------------------------------
(* Mutual exclusion.                                                       *)

\* Either EXCLUSIVE is free and nobody is inside, or one person holds it.
MutexInv == \/ sem["EXCLUSIVE"] = 1 /\ inside = {}
            \/ sem["EXCLUSIVE"] = 0 /\ \E m \in Members : inside = {m}

LEMMA MutexInvNext == TypeInv /\ MutexInv /\ [Next]_vars => MutexInv'
<1> SUFFICES ASSUME TypeInv, MutexInv, [Next]_vars
             PROVE  MutexInv'
  OBVIOUS
<1> USE DEF TypeInv, TypeOK, MutexInv, Semaphores, Goto, shared
\* The sections give back what Lock took.
<1>1. ASSUME NEW m \in Members, m \in inside, inside' = inside \ {m},
             sem'["EXCLUSIVE"] = sem["EXCLUSIVE"] + 1
      PROVE  MutexInv'
  BY <1>1
\* Every other step leaves the mutex alone.
<1>2. ASSUME inside' = inside, sem'["EXCLUSIVE"] = sem["EXCLUSIVE"]
      PROVE  MutexInv'
  BY <1>2
<1>3. ASSUME NEW m \in Members, Fork(m) \/ Steer(m)
      PROVE  MutexInv'
  BY <1>2, <1>3 DEF Fork, Steer
<1>4. ASSUME NEW m \in Members, Lock(m)
      PROVE  MutexInv'
  BY <1>4 DEF Lock
<1>5. ASSUME NEW m \in Members,
             EnterMolo(m) \/ Embark(m) \/ Boarded(m) \/ Embarked(m)
               \/ Sail(m) \/ Ashore(m)
      PROVE  MutexInv'
  BY <1>2, <1>5 DEF EnterMolo, Embark, Boarded, Embarked, Sail, Ashore, Pass
<1>6. ASSUME NEW m \in Members,
             Start(m) \/ Arrive(m) \/ Finish(m)
      PROVE  MutexInv'
  BY <1>1, <1>6 DEF Start, Arrive, Finish, Exit, Unlock
<1>7. ASSUME NEW m \in Members, Group(m)
      PROVE  MutexInv'
  <2>1. sem'["EXCLUSIVE"] = sem["EXCLUSIVE"] + 1
    BY <1>7 DEF Group
  <2> QED
    BY <1>1, <1>7, <2>1 DEF Group, Exit
<1>8. ASSUME NEW m \in Members, Board(m) \/ Role(m) \/ Land(m)
      PROVE  MutexInv'
  BY <1>1, <1>8 DEF Board, Role, Land, Exit, Gather, Unlock, PostAndUnlock
<1>9. ASSUME NEW m \in Members, Landed(m)
      PROVE  MutexInv'
  BY <1>1, <1>9 DEF Landed, Exit, Unlock, PostAndUnlock
<1>10. CASE UNCHANGED vars
  BY <1>10 DEF vars
<1> QED
  BY <1>3, <1>4, <1>5, <1>6, <1>7, <1>8, <1>9, <1>10 DEF Next, Member

\* The sections that print and update the shared counters never overlap.
THEOREM Mutex == Spec => []MutualExclusion
<1>1. Init => MutexInv
  BY DEF Init, MutexInv, Semaphores
<1>2. TypeInv /\ MutexInv /\ [Next]_vars => MutexInv'
  BY MutexInvNext
<1>3. MutexInv => MutualExclusion
  BY DEF MutexInv, MutualExclusion
<1> QED
  BY <1>1, <1>2, <1>3, TypeInvInit, TypeInvNext, PTL DEF Spec

-----------------------------------------------------------------------------
(* Nobody finishes before everybody has landed.                            *)

LandedForGood == {m \in Members : pc[m] \in {"ashore", "finish", "done"}}

\* The counter counts the persons that have landed for good, and FINISH is
\* posted, and used, only when they are everybody.
FinishInv == /\ waitingToFinish = Cardinality(LandedForGood)
             /\ sem["FINISH"] > 0 => LandedForGood = Members
             /\ (\E m \in Members : pc[m] \in {"finish", "done"}) =>
                   LandedForGood = Members

LEMMA FinishInvInit == Init => FinishInv
<1> SUFFICES ASSUME Init
             PROVE  FinishInv
  OBVIOUS
<1>1. LandedForGood = {}
  BY DEF Init, LandedForGood
<1> QED
  BY <1>1, FS_EmptySet DEF Init, FinishInv, Semaphores

LEMMA FinishInvNext == TypeInv /\ FinishInv /\ [Next]_vars => FinishInv'
<1> SUFFICES ASSUME TypeInv, FinishInv, [Next]_vars
             PROVE  FinishInv'
  OBVIOUS
<1> USE DEF TypeInv, TypeOK, Semaphores, Goto, shared
\* A step that nobody makes into or within the places counted.
<1>1. ASSUME NEW m \in Members, NEW to,
             pc[m] \notin {"ashore", "finish", "done"},
             to \notin {"ashore", "finish", "done"},
             pc' = [pc EXCEPT ![m] = to] \/ pc' = pc,
             sem'["FINISH"] = sem["FINISH"],
             waitingToFinish' = waitingToFinish
      PROVE  FinishInv'
  <2>1. LandedForGood' = LandedForGood
    BY <1>1 DEF LandedForGood
  <2>2. \A n \in Members : pc'[n] \in {"finish", "done"} =>
                            pc[n] \in {"finish", "done"}
    BY <1>1
  <2> QED
    BY <1>1, <2>1, <2>2 DEF FinishInv
<1>2. ASSUME NEW m \in Members, Fork(m) \/ Steer(m)
      PROVE  FinishInv'
  BY <1>1, <1>2 DEF Fork, Steer
<1>3. ASSUME NEW m \in Members, Lock(m)
      PROVE  FinishInv'
  <2>1. LandedForGood' = LandedForGood
    BY <1>3 DEF Lock, LandedForGood
  <2> QED
    BY <1>3, <2>1 DEF Lock, FinishInv
<1>4. ASSUME NEW m \in Members,
             EnterMolo(m) \/ Embark(m) \/ Boarded(m) \/ Embarked(m) \/ Sail(m)
      PROVE  FinishInv'
  BY <1>1, <1>4 DEF EnterMolo, Embark, Boarded, Embarked, Sail, Pass
<1>5. ASSUME NEW m \in Members, Start(m) \/ Arrive(m)
      PROVE  FinishInv'
  BY <1>1, <1>5 DEF Start, Arrive, Exit, Unlock
<1>6. ASSUME NEW m \in Members, Group(m)
      PROVE  FinishInv'
  <2>1. sem'["FINISH"] = sem["FINISH"]
    BY <1>6 DEF Group
  <2>2. pc[m] = "group" /\ pc' = [pc EXCEPT ![m] = "pier"]
    BY <1>6 DEF Group, Exit
  <2>3. waitingToFinish' = waitingToFinish
    BY <1>6 DEF Group
  <2>4. LandedForGood' = LandedForGood
    BY <2>2 DEF LandedForGood
  <2> QED
    BY <2>1, <2>2, <2>3, <2>4 DEF FinishInv
<1>7. ASSUME NEW m \in Members, Board(m) \/ Role(m) \/ Land(m)
      PROVE  FinishInv'
  BY <1>1, <1>7 DEF Board, Role, Land, Exit, Gather, Unlock, PostAndUnlock
\* The counter grows with the set, and only its last growth posts FINISH.
<1>8. ASSUME NEW m \in Members, Landed(m)
      PROVE  FinishInv'
  <2>1. /\ pc[m] = "landed" /\ pc' = [pc EXCEPT ![m] = "ashore"]
        /\ waitingToFinish' = waitingToFinish + 1
    BY <1>8 DEF Landed, Exit
  <2>2. LandedForGood' = LandedForGood \cup {m} /\ m \notin LandedForGood
    BY <2>1 DEF LandedForGood
  <2>3. IsFiniteSet(LandedForGood)
    BY MembersFinite, FS_Subset DEF LandedForGood
  <2>4. waitingToFinish' = Cardinality(LandedForGood')
    BY <2>1, <2>2, <2>3, FS_AddElement DEF FinishInv
  <2>5. sem["FINISH"] = 0 /\ \A n \in Members : pc'[n] \notin {"finish", "done"}
    BY <2>1, <2>2 DEF FinishInv
  <2>6. sem'["FINISH"] > 0 => LandedForGood' = Members
    <3>1. SUFFICES ASSUME sem'["FINISH"] > 0
                   PROVE  waitingToFinish' = Cardinality(Members)
      BY <2>4, MembersFinite, FS_Subset DEF LandedForGood
    <3>2. waitingToFinish + 1 = MaxMembers
      BY <1>8, <2>5, <3>1 DEF Landed, Unlock
    <3> QED
      BY <2>1, <3>2, MembersFinite
  <2> QED
    BY <2>4, <2>5, <2>6 DEF FinishInv
<1>9. ASSUME NEW m \in Members, Ashore(m)
      PROVE  FinishInv'
  <2>1. LandedForGood' = LandedForGood /\ LandedForGood = Members
    BY <1>9 DEF Ashore, Pass, LandedForGood, FinishInv
  <2> QED
    BY <1>9, <2>1 DEF Ashore, Pass, FinishInv
<1>10. ASSUME NEW m \in Members, Finish(m)
       PROVE  FinishInv'
  <2>1. LandedForGood' = LandedForGood /\ LandedForGood = Members
    BY <1>10 DEF Finish, Exit, LandedForGood, FinishInv
  <2> QED
    BY <1>10, <2>1 DEF Finish, Exit, Unlock, FinishInv
<1>11. CASE UNCHANGED vars
  BY <1>11 DEF vars, FinishInv, LandedForGood
<1> QED
  BY <1>2, <1>3, <1>4, <1>5, <1>6, <1>7, <1>8, <1>9, <1>10, <1>11
  DEF Next, Member

\* A person that is past FINISH finds everybody landed, whatever the order in
\* which the boats and their crews came.
THEOREM FinishBarrier == Spec => []FinishTogether
<1>1. TypeInv /\ FinishInv /\ [Next]_vars => FinishInv'
  BY FinishInvNext
<1>2. FinishInv => FinishTogether
  BY DEF FinishInv, FinishTogether, LandedForGood
<1> QED
  BY <1>1, <1>2, FinishInvInit, TypeInvInit, TypeInvNext, PTL DEF Spec

-----------------------------------------------------------------------------
(* Counting persons by their place.                                        *)

Count(f, S, P) == Cardinality({m \in S : f[m] \in P})
\* What a step from f to g of person m adds to such a number.
Plus(f, g, S, P, m) ==
  IF m \notin S \/ (f[m] \in P <=> g[m] \in P) THEN 0 ELSE IF g[m] \in P THEN 1 ELSE -1

LEMMA CountType ==
  ASSUME NEW f, NEW S \in SUBSET Members, NEW P
  PROVE  /\ IsFiniteSet({m \in S : f[m] \in P})
         /\ Count(f, S, P) \in Nat
<1>1. IsFiniteSet({m \in S : f[m] \in P})
  BY MembersFinite, FS_Subset
<1> QED
  BY <1>1, FS_CardinalityType DEF Count

\* A person at one of the places is counted, and if the number is one there is no other.
LEMMA CountOne ==
  ASSUME NEW f, NEW S \in SUBSET Members, NEW P, NEW m \in S, f[m] \in P
  PROVE  /\ Count(f, S, P) >= 1
         /\ Count(f, S, P) = 1 => \A k \in S : f[k] \in P => k = m
<1> DEFINE T == {k \in S : f[k] \in P}
<1>1. IsFiniteSet(T) /\ m \in T /\ Cardinality(T) \in Nat
  BY CountType DEF Count
<1>2. Cardinality(T) # 0
  BY <1>1, FS_EmptySet
<1>3. Cardinality(T) = 1 => \A k \in T : k = m
  BY <1>1, FS_Singleton
<1> QED
  BY <1>1, <1>2, <1>3 DEF Count

\* A move from one place to another changes a number by the two places.
LEMMA CountMove ==
  ASSUME NEW f, NEW g, NEW S \in SUBSET Members, NEW P, NEW m \in Members,
         \A k \in Members \ {m} : g[k] = f[k]
  PROVE  Count(g, S, P) = Count(f, S, P) + Plus(f, g, S, P, m)
<1> DEFINE T == {k \in S : f[k] \in P}
           U == {k \in S : g[k] \in P}
           d == Plus(f, g, S, P, m)
<1>1. IsFiniteSet(T) /\ Cardinality(T) \in Nat
  BY CountType DEF Count
<1>2. Count(f, S, P) = Cardinality(T) /\ Count(g, S, P) = Cardinality(U)
  BY DEF Count
<1>3. SUFFICES Cardinality(U) = Cardinality(T) + d
  BY <1>2
<1>4. CASE m \in S /\ g[m] \in P /\ f[m] \notin P
  <2>1. U = T \cup {m} /\ m \notin T
    BY <1>4
  <2>2. Cardinality(T \cup {m}) = Cardinality(T) + 1
    BY <1>1, <2>1, FS_AddElement
  <2>3. d = 1
    BY <1>4 DEF Plus
  <2> QED
    BY <2>1, <2>2, <2>3
<1>5. CASE m \in S /\ g[m] \notin P /\ f[m] \in P
  <2>1. U = T \ {m} /\ m \in T
    BY <1>5
  <2>2. Cardinality(T \ {m}) = Cardinality(T) - 1
    BY <1>1, <2>1, FS_RemoveElement
  <2>3. d = -1
    BY <1>5 DEF Plus
  <2> HIDE DEF T, U, d
  <2> QED
    BY <1>1, <2>1, <2>2, <2>3
<1>6. CASE m \notin S \/ (g[m] \in P <=> f[m] \in P)
  <2>1. U = T
    BY <1>6
  <2>2. d = 0
    BY <1>6 DEF Plus
  <2> HIDE DEF T, U, d
  <2> QED
    BY <1>1, <2>1, <2>2
<1> QED
  BY <1>4, <1>5, <1>6

\* The numbers that the invariant speaks of.
nEntering == Count(pc, Members, {"arrive", "group"})
nBoard    == Count(pc, Members, {"board"})
nBoarded  == Count(pc, Members, {"boarded"})
nRole     == Count(pc, Members, {"role"})
nEmbarked == Count(pc, Members, {"embarked"})
nUnder    == Count(pc, Members, {"steer", "sail"})
nLand     == Count(pc, Members, {"land"})
AboardPlaces == {"board", "boarded", "role", "embarked", "steer", "sail", "land"}
PierPlaces   == {"group", "pier"}
pierH     == Count(pc, Hackers, PierPlaces)
pierS     == Count(pc, Serfs, PierPlaces)
aboardH   == Count(pc, Hackers, AboardPlaces)
aboardS   == Count(pc, Serfs, AboardPlaces)

LEMMA NumbersType ==
  /\ nEntering \in Nat /\ nBoard \in Nat /\ nBoarded \in Nat /\ nRole \in Nat
  /\ nEmbarked \in Nat /\ nUnder \in Nat /\ nLand \in Nat /\ pierH \in Nat
  /\ pierS \in Nat /\ aboardH \in Nat /\ aboardS \in Nat
BY CountType DEF nEntering, nBoard, nBoarded, nRole, nEmbarked, nUnder, nLand, pierH,
                 pierS, aboardH, aboardS, Members

\* Whoever is somewhere is counted there.
LEMMA Present ==
  ASSUME NEW m \in Members
  PROVE  /\ pc[m] \in {"arrive", "group"} => nEntering >= 1
         /\ pc[m] = "board" => nBoard >= 1
         /\ pc[m] = "boarded" => nBoarded >= 1
         /\ pc[m] = "role" => nRole >= 1
         /\ pc[m] = "embarked" => nEmbarked >= 1
         /\ pc[m] \in {"steer", "sail"} => nUnder >= 1
         /\ pc[m] = "land" => nLand >= 1
         /\ m \in Hackers /\ pc[m] \in PierPlaces => pierH >= 1
         /\ m \in Serfs /\ pc[m] \in PierPlaces => pierS >= 1
         /\ m \in Hackers /\ pc[m] \in AboardPlaces => aboardH >= 1
         /\ m \in Serfs /\ pc[m] \in AboardPlaces => aboardS >= 1
BY CountOne DEF nEntering, nBoard, nBoarded, nRole, nEmbarked, nUnder, nLand, pierH,
                pierS, aboardH, aboardS, Members

\* How a move changes them.
LEMMA Moved ==
  ASSUME NEW m \in Members, \A k \in Members \ {m} : pc'[k] = pc[k]
  PROVE  /\ nEntering' = nEntering + Plus(pc, pc', Members, {"arrive", "group"}, m)
         /\ nBoard'    = nBoard    + Plus(pc, pc', Members, {"board"}, m)
         /\ nBoarded'  = nBoarded  + Plus(pc, pc', Members, {"boarded"}, m)
         /\ nRole'     = nRole     + Plus(pc, pc', Members, {"role"}, m)
         /\ nEmbarked' = nEmbarked + Plus(pc, pc', Members, {"embarked"}, m)
         /\ nUnder'    = nUnder    + Plus(pc, pc', Members, {"steer", "sail"}, m)
         /\ nLand'     = nLand     + Plus(pc, pc', Members, {"land"}, m)
         /\ pierH'     = pierH + Plus(pc, pc', Hackers, PierPlaces, m)
         /\ pierS'     = pierS + Plus(pc, pc', Serfs, PierPlaces, m)
         /\ aboardH'   = aboardH + Plus(pc, pc', Hackers, AboardPlaces, m)
         /\ aboardS'   = aboardS + Plus(pc, pc', Serfs, AboardPlaces, m)
<1>1. ASSUME NEW S \in SUBSET Members, NEW P
      PROVE  Count(pc', S, P) = Count(pc, S, P) + Plus(pc, pc', S, P, m)
  BY CountMove
<1>2. Hackers \subseteq Members /\ Serfs \subseteq Members
  BY DEF Members
<1> QED
  BY <1>1, <1>2
  DEF nEntering, nBoard, nBoarded, nRole, nEmbarked, nUnder, nLand, pierH, pierS, aboardH,
      aboardS

-----------------------------------------------------------------------------
(* The four phases.                                                        *)

\* From h hackers and s serfs no crew can be formed.
NoCrew(h, s) == h <= 3 /\ s <= 3 /\ (h <= 1 \/ s <= 1)
Legal(h, s)  == <<h, s>> \in {<<4, 0>>, <<0, 4>>, <<2, 2>>}

\* The counters account for the pier, and only the person that has just been counted can
\* complete a crew.
PierInv ==
  /\ pierH = hackersCount + sem["HACKER"]
  /\ pierS = serfsCount + sem["SERF"]
  /\ (\A m \in Members : pc[m] # "group") => NoCrew(hackersCount, serfsCount)
  /\ \A m \in Members : pc[m] = "group" =>
       /\ m \in Hackers => hackersCount >= 1 /\ NoCrew(hackersCount - 1, serfsCount)
       /\ m \in Serfs   => serfsCount >= 1 /\ NoCrew(hackersCount, serfsCount - 1)
  /\ \A m \in Members : pc[m] \in {"unborn", "start", "molo", "arrive", "group"} =>
                           ~isCaptain[m]

\* One person at most enters the open pier, and no boat is under way.
Open ==
  /\ sem["MOLO"] + nEntering = 1 /\ waitingMembers = 0
  /\ nBoard = 0 /\ nBoarded = 0 /\ nRole = 0 /\ nEmbarked = 0 /\ nUnder = 0 /\ nLand = 0
  /\ aboardH = 0 /\ aboardS = 0
  /\ sem["HACKER"] = 0 /\ sem["SERF"] = 0 /\ sem["BOARDING"] = 0 /\ sem["LANDING"] = 0
  /\ sem["CAPTAIN"] = 0
  /\ \A m \in Members : pc[m] = "pier" => ~isCaptain[m]

\* c is the captain of the boat, and of all that wait or sail the only one.
Captain(c) ==
  /\ isCaptain[c] /\ sem["MOLO"] = 0 /\ nEntering = 0
  /\ \A m \in Members : isCaptain[m] /\ pc[m] \in {"pier"} \cup AboardPlaces => m = c

\* Four have a seat, of whom some have passed the barrier; the captain has one too, or
\* all of his kind on the pier have.
Boarding(c) ==
  /\ Captain(c) /\ pc[c] \in {"pier", "board", "boarded"}
  /\ pc[c] = "pier" => /\ c \in Hackers => hackersCount = 0
                       /\ c \in Serfs   => serfsCount = 0
  /\ sem["HACKER"] + sem["SERF"] + nBoard + nBoarded = 4
  /\ waitingMembers = nBoarded /\ nBoarded < 4
  /\ nRole = 0 /\ nEmbarked = 0 /\ nUnder = 0 /\ nLand = 0
  /\ sem["BOARDING"] = 0 /\ sem["LANDING"] = 0 /\ sem["CAPTAIN"] = 0
  /\ Legal(aboardH + sem["HACKER"], aboardS + sem["SERF"])

Roles(c) ==
  /\ Captain(c) /\ pc[c] \in {"boarded", "role", "embarked"}
  /\ nBoarded + nRole + nEmbarked = 4
  /\ waitingMembers = nEmbarked /\ nEmbarked < 4 /\ sem["BOARDING"] = nBoarded
  /\ nBoard = 0 /\ nUnder = 0 /\ nLand = 0
  /\ sem["HACKER"] = 0 /\ sem["SERF"] = 0 /\ sem["LANDING"] = 0 /\ sem["CAPTAIN"] = 0
  /\ Legal(aboardH, aboardS)

\* CAPTAIN holds what the captain has posted and nobody has used.
Landing(c) ==
  /\ Captain(c)
  /\ pc[c] \notin {"unborn", "start", "molo", "arrive", "group", "pier", "board"}
  /\ pc[c] \in AboardPlaces \/ waitingMembers >= 1
  /\ pc[c] \notin {"boarded", "role", "embarked", "steer"} => posted[c] = 4
  /\ \A m \in Members : pc[m] = "steer" => m = c
  /\ nEmbarked + nUnder + nLand + waitingMembers = 4
  /\ sem["LANDING"] = nEmbarked /\ sem["CAPTAIN"] + nLand + waitingMembers = posted[c]
  /\ nBoard = 0 /\ nBoarded = 0 /\ nRole = 0
  /\ sem["HACKER"] = 0 /\ sem["SERF"] = 0 /\ sem["BOARDING"] = 0
  /\ aboardH + aboardS + waitingMembers = 4
  /\ waitingMembers = 0 => Legal(aboardH, aboardS)

CrossingInv == Open \/ \E c \in Members : Boarding(c) \/ Roles(c) \/ Landing(c)

CrewInv == TypeInv /\ PierInv /\ CrossingInv

-----------------------------------------------------------------------------
(* Steps that no phase takes notice of.                                    *)

\* Every number is that of before.
Still == UNCHANGED <<nEntering, nBoard, nBoarded, nRole, nEmbarked, nUnder, nLand, pierH,
                     pierS, aboardH, aboardS>>

\* The places off the pier and off the boat.
Away == {"unborn", "start", "molo", "landed", "ashore", "finish", "done"}

LEMMA AwayMove ==
  ASSUME NEW m \in Members, pc[m] \in Away, pc'[m] \in Away,
         \A k \in Members \ {m} : pc'[k] = pc[k]
  PROVE  Still
<1>1. ASSUME NEW S, NEW P, P \cap Away = {}
      PROVE  Plus(pc, pc', S, P, m) = 0
  BY <1>1 DEF Plus
<1>2. ASSUME NEW S
      PROVE  /\ Plus(pc, pc', S, {"arrive", "group"}, m) = 0
             /\ Plus(pc, pc', S, {"board"}, m) = 0
             /\ Plus(pc, pc', S, {"boarded"}, m) = 0
             /\ Plus(pc, pc', S, {"role"}, m) = 0
             /\ Plus(pc, pc', S, {"embarked"}, m) = 0
             /\ Plus(pc, pc', S, {"steer", "sail"}, m) = 0
             /\ Plus(pc, pc', S, {"land"}, m) = 0
             /\ Plus(pc, pc', S, PierPlaces, m) = 0
             /\ Plus(pc, pc', S, AboardPlaces, m) = 0
  BY <1>1 DEF Away, PierPlaces, AboardPlaces
<1> QED
  BY <1>2, Moved, NumbersType DEF Still

LEMMA QuietStep ==
  ASSUME CrewInv, NEW m \in Members,
         \/ pc' = pc
         \/ /\ pc[m] \in Away
            /\ \E to \in Away \ {"unborn"} : pc' = [pc EXCEPT ![m] = to],
         pc[m] \in {"landed", "ashore", "finish", "done"} =>
           pc'[m] \in {"landed", "ashore", "finish", "done"},
         UNCHANGED <<isCaptain, posted, hackersCount, serfsCount, waitingMembers>>,
         \A s \in Semaphores \ {"EXCLUSIVE", "FINISH"} : sem'[s] = sem[s]
  PROVE  PierInv' /\ CrossingInv'
<1> USE DEF CrewInv
<1>1. Still
  <2>1. CASE pc' = pc
    BY <2>1 DEF Still, nEntering, nBoard, nBoarded, nRole, nEmbarked, nUnder, nLand,
                pierH, pierS, aboardH, aboardS
  <2>2. ASSUME NEW to \in Away, pc[m] \in Away, pc' = [pc EXCEPT ![m] = to]
        PROVE  Still
    <3>1. pc'[m] \in Away /\ \A k \in Members \ {m} : pc'[k] = pc[k]
      BY <2>2 DEF TypeInv, TypeOK
    <3> QED
      BY ONLY <2>2, <3>1, AwayMove
  <2> QED
    BY <2>1, <2>2
<1>2. ASSUME NEW k \in Members
      PROVE  \/ pc'[k] = pc[k]
             \/ /\ k = m /\ pc[k] \in {"landed", "ashore", "finish", "done"}
                /\ pc'[k] \in {"landed", "ashore", "finish", "done"}
             \/ /\ k = m /\ pc[k] \in {"unborn", "start", "molo"}
                /\ pc'[k] \in Away \ {"unborn"}
  BY DEF TypeInv, TypeOK, Away
<1>3. /\ sem'["MOLO"] = sem["MOLO"] /\ sem'["HACKER"] = sem["HACKER"]
      /\ sem'["SERF"] = sem["SERF"] /\ sem'["BOARDING"] = sem["BOARDING"]
      /\ sem'["LANDING"] = sem["LANDING"] /\ sem'["CAPTAIN"] = sem["CAPTAIN"]
  BY DEF Semaphores
<1>4. PierInv'
  BY <1>1, <1>2, <1>3 DEF Still, PierInv, Away
<1>5. ASSUME Open
      PROVE  Open'
  BY <1>1, <1>2, <1>3, <1>5 DEF Still, Open, Away
<1>6. ASSUME NEW c \in Members, Captain(c)
      PROVE  Captain(c)'
  BY <1>1, <1>2, <1>3, <1>6 DEF Still, Captain, PierInv, AboardPlaces, Away
<1>7. ASSUME NEW c \in Members, Boarding(c)
      PROVE  Boarding(c)'
  BY <1>1, <1>2, <1>3, <1>6, <1>7 DEF Still, Boarding, Legal
<1>8. ASSUME NEW c \in Members, Roles(c)
      PROVE  Roles(c)'
  BY <1>1, <1>2, <1>3, <1>6, <1>8 DEF Still, Roles, Legal
<1>9. ASSUME NEW c \in Members, Landing(c)
      PROVE  Landing(c)'
  BY <1>1, <1>2, <1>3, <1>6, <1>9 DEF Still, Landing, Legal, AboardPlaces, Away
<1> QED
  BY <1>4, <1>5, <1>7, <1>8, <1>9 DEF CrossingInv

-----------------------------------------------------------------------------
(* The pier.                                                               *)

\* Everybody is of one kind.
LEMMA HackerOrSerf == \A m \in Members : m \in Hackers <=> m \notin Serfs
BY Assumption DEF Members

LEMMA EnterMoloStep ==
  ASSUME CrewInv, NEW m \in Members, EnterMolo(m)
  PROVE  PierInv' /\ CrossingInv'
<1> USE DEF CrewInv
<1>1. /\ pc[m] = "molo" /\ pc'[m] = "arrive" /\ \A k \in Members \ {m} : pc'[k] = pc[k]
      /\ sem["MOLO"] > 0 /\ sem["MOLO"] \in Nat /\ sem'["MOLO"] = sem["MOLO"] - 1
      /\ sem'["HACKER"] = sem["HACKER"] /\ sem'["SERF"] = sem["SERF"]
      /\ sem'["BOARDING"] = sem["BOARDING"] /\ sem'["LANDING"] = sem["LANDING"]
      /\ sem'["CAPTAIN"] = sem["CAPTAIN"]
      /\ UNCHANGED <<isCaptain, hackersCount, serfsCount, waitingMembers>>
  BY DEF EnterMolo, Pass, Goto, shared, TypeInv, TypeOK, Semaphores
<1>2. /\ nEntering' = nEntering + 1
      /\ UNCHANGED <<nBoard, nBoarded, nRole, nEmbarked, nUnder, nLand, pierH, pierS,
                     aboardH, aboardS>>
  BY <1>1, Moved, NumbersType DEF Plus, PierPlaces, AboardPlaces
<1>3. Open
  BY <1>1 DEF CrossingInv, Boarding, Roles, Landing, Captain
<1>4. PierInv'
  BY <1>1, <1>2 DEF PierInv
<1>5. Open'
  BY <1>1, <1>2, <1>3, NumbersType DEF Open
<1> QED
  BY <1>4, <1>5 DEF CrossingInv

LEMMA ArriveStep ==
  ASSUME CrewInv, NEW m \in Members, Arrive(m)
  PROVE  PierInv' /\ CrossingInv'
<1> USE DEF CrewInv
<1>1. /\ pc[m] = "arrive" /\ pc'[m] = "group" /\ \A k \in Members \ {m} : pc'[k] = pc[k]
      /\ sem'["MOLO"] = sem["MOLO"]
      /\ sem'["HACKER"] = sem["HACKER"] /\ sem'["SERF"] = sem["SERF"]
      /\ sem'["BOARDING"] = sem["BOARDING"] /\ sem'["LANDING"] = sem["LANDING"]
      /\ sem'["CAPTAIN"] = sem["CAPTAIN"]
      /\ UNCHANGED <<isCaptain, waitingMembers>>
      /\ m \in Hackers => hackersCount' = hackersCount + 1 /\ UNCHANGED serfsCount
      /\ m \notin Hackers => serfsCount' = serfsCount + 1 /\ UNCHANGED hackersCount
  BY DEF Arrive, Exit, Unlock, Goto, TypeInv, TypeOK, Semaphores
<1>2. /\ UNCHANGED <<nEntering, nBoard, nBoarded, nRole, nEmbarked, nUnder, nLand,
                     aboardH, aboardS>>
      /\ m \in Hackers => pierH' = pierH + 1 /\ UNCHANGED pierS
      /\ m \notin Hackers => pierS' = pierS + 1 /\ UNCHANGED pierH
  BY <1>1, HackerOrSerf, Moved, NumbersType DEF Plus, PierPlaces, AboardPlaces
<1>3. Open
  BY <1>1, Present DEF CrossingInv, Boarding, Roles, Landing, Captain
<1>4. Open'
  BY <1>1, <1>2, <1>3 DEF Open
<1>5. \A k \in Members : pc[k] \in {"arrive", "group"} => k = m
  <2>1. nEntering = 1
    BY <1>1, <1>3, Present, NumbersType DEF Open, TypeInv, TypeOK, Semaphores
  <2> QED
    BY <1>1, <2>1, CountOne DEF nEntering
<1>6. /\ hackersCount \in Nat /\ serfsCount \in Nat
      /\ sem["HACKER"] \in Nat /\ sem["SERF"] \in Nat
  BY DEF TypeInv, TypeOK, Semaphores
<1>7. NoCrew(hackersCount, serfsCount)
  BY <1>1, <1>5 DEF PierInv
<1>8. PierInv'
  BY <1>1, <1>2, <1>5, <1>6, <1>7, HackerOrSerf, NumbersType DEF PierInv, NoCrew
<1> QED
  BY <1>4, <1>8 DEF CrossingInv

\* The person that completes a crew belongs to it, with all of the same kind, and no crew
\* is left on the pier.
LEMMA CallerBelongs ==
  ASSUME NEW h \in Nat, NEW s \in Nat
  PROVE  LET crew == Crew(h, s)
         IN  /\ h >= 1 /\ NoCrew(h - 1, s) => /\ NoCrew(h - crew[1], s - crew[2])
                                              /\ Calls(crew) => h - crew[1] = 0
             /\ s >= 1 /\ NoCrew(h, s - 1) => /\ NoCrew(h - crew[1], s - crew[2])
                                              /\ Calls(crew) => s - crew[2] = 0
             /\ Calls(crew) => Legal(crew[1], crew[2]) /\ crew[1] + crew[2] = 4
             /\ ~Calls(crew) => crew[1] = 0 /\ crew[2] = 0
<1>1. CASE h = 4
  <2>1. Crew(h, s) = <<4, 0>>
    BY <1>1 DEF Crew
  <2> QED
    BY <1>1, <2>1 DEF Calls, NoCrew, Legal
<1>2. CASE h # 4 /\ s = 4
  <2>1. Crew(h, s) = <<0, 4>>
    BY <1>2 DEF Crew
  <2> QED
    BY <1>2, <2>1 DEF Calls, NoCrew, Legal
<1>3. CASE h # 4 /\ s # 4 /\ h >= 2 /\ s >= 2
  <2>1. Crew(h, s) = <<2, 2>>
    BY <1>3 DEF Crew
  <2> QED
    BY <1>3, <2>1 DEF Calls, NoCrew, Legal
<1>4. CASE h # 4 /\ s # 4 /\ ~(h >= 2 /\ s >= 2)
  <2>1. Crew(h, s) = <<0, 0>>
    BY <1>4 DEF Crew
  <2> QED
    BY <1>4, <2>1 DEF Calls, NoCrew
<1> QED
  BY <1>1, <1>2, <1>3, <1>4

LEMMA GroupStep ==
  ASSUME CrewInv, NEW m \in Members, Group(m)
  PROVE  PierInv' /\ CrossingInv'
<1> USE DEF CrewInv
<1> DEFINE crew == Crew(hackersCount, serfsCount)
<1>1. /\ hackersCount \in Nat /\ serfsCount \in Nat
      /\ crew[1] \in 0..hackersCount /\ crew[2] \in 0..serfsCount
  BY CrewIsAvailable DEF TypeInv, TypeOK
<1>2. /\ m \in Hackers => hackersCount >= 1 /\ NoCrew(hackersCount - 1, serfsCount)
      /\ m \in Serfs => serfsCount >= 1 /\ NoCrew(hackersCount, serfsCount - 1)
      /\ ~isCaptain[m]
  BY DEF Group, Exit, PierInv
<1>3. /\ NoCrew(hackersCount - crew[1], serfsCount - crew[2])
      /\ Calls(crew) => /\ m \in Hackers => hackersCount - crew[1] = 0
                        /\ m \in Serfs => serfsCount - crew[2] = 0
                        /\ Legal(crew[1], crew[2]) /\ crew[1] + crew[2] = 4
      /\ ~Calls(crew) => crew[1] = 0 /\ crew[2] = 0
  BY <1>1, <1>2, CallerBelongs, HackerOrSerf
<1>4. /\ pc[m] = "group" /\ pc'[m] = "pier" /\ \A k \in Members \ {m} : pc'[k] = pc[k]
      /\ hackersCount' = hackersCount - crew[1]
      /\ serfsCount' = serfsCount - crew[2]
      /\ isCaptain'[m] = Calls(crew)
      /\ \A k \in Members \ {m} : isCaptain'[k] = isCaptain[k]
      /\ UNCHANGED waitingMembers
  BY DEF Group, Exit, Goto, TypeInv, TypeOK
<1> HIDE DEF crew
<1>5. /\ sem["MOLO"] \in Nat /\ sem["HACKER"] \in Nat /\ sem["SERF"] \in Nat
      /\ sem'["HACKER"] = sem["HACKER"] + crew[1]
      /\ sem'["SERF"] = sem["SERF"] + crew[2]
      /\ Calls(crew) => sem'["MOLO"] = sem["MOLO"]
      /\ ~Calls(crew) => sem'["MOLO"] = sem["MOLO"] + 1
      /\ sem'["BOARDING"] = sem["BOARDING"] /\ sem'["LANDING"] = sem["LANDING"]
      /\ sem'["CAPTAIN"] = sem["CAPTAIN"]
  <2>1. sem' = [sem EXCEPT !["HACKER"] = @ + crew[1],
                           !["SERF"] = @ + crew[2],
                           !["MOLO"] = IF Calls(crew) THEN @ ELSE @ + 1,
                           !["EXCLUSIVE"] = @ + 1]
    BY DEF Group, crew
  <2>2. sem \in [Semaphores -> Nat]
    BY DEF TypeInv, TypeOK
  <2> QED
    BY <2>1, <2>2 DEF Semaphores
<1>6. /\ nEntering' = nEntering - 1
      /\ UNCHANGED <<nBoard, nBoarded, nRole, nEmbarked, nUnder, nLand, pierH, pierS,
                     aboardH, aboardS>>
  BY <1>4, Moved, NumbersType DEF Plus, PierPlaces, AboardPlaces
<1>7. Open /\ nEntering = 1 /\ sem["MOLO"] = 0
  <2>1. nEntering >= 1
    BY <1>4, Present
  <2>2. Open
    BY <2>1, NumbersType DEF CrossingInv, Boarding, Roles, Landing, Captain
  <2> QED
    BY <1>5, <2>1, <2>2, NumbersType DEF Open
<1>8. \A k \in Members : pc[k] \in {"arrive", "group"} => k = m
  BY <1>4, <1>7, CountOne DEF nEntering
<1>9. PierInv'
  <2>1. pierH' = hackersCount' + sem'["HACKER"] /\ pierS' = serfsCount' + sem'["SERF"]
    BY <1>1, <1>4, <1>5, <1>6 DEF PierInv
  <2>2. NoCrew(hackersCount', serfsCount')
    BY <1>3, <1>4
  <2>3. \A k \in Members : pc'[k] # "group"
    BY <1>4, <1>8
  <2>4. \A k \in Members : pc'[k] \in {"unborn", "start", "molo", "arrive", "group"} =>
                              ~isCaptain'[k]
    BY <1>4 DEF PierInv
  <2> QED
    BY <2>1, <2>2, <2>3, <2>4 DEF PierInv
<1>10. CASE ~Calls(crew)
  BY <1>1, <1>3, <1>4, <1>5, <1>6, <1>7, <1>9, <1>10 DEF Open, CrossingInv
<1>11. CASE Calls(crew)
  <2>1. \A k \in Members : pc[k] \notin AboardPlaces
    BY <1>7, Present, HackerOrSerf DEF Open
  <2>2. Captain(m)'
    BY <1>4, <1>5, <1>6, <1>7, <1>11, <2>1 DEF Captain, Open, AboardPlaces
  <2>3. Legal(aboardH' + sem'["HACKER"], aboardS' + sem'["SERF"])
    BY <1>1, <1>3, <1>5, <1>6, <1>7, <1>11 DEF Open, Legal
  <2>4. Boarding(m)'
    BY <1>1, <1>3, <1>4, <1>5, <1>6, <1>7, <1>11, <2>2, <2>3 DEF Boarding, Open
  <2> QED
    BY <1>9, <2>4 DEF CrossingInv
<1> QED
  BY <1>10, <1>11

-----------------------------------------------------------------------------
(* The boat.                                                               *)

LEMMA EmbarkStep ==
  ASSUME CrewInv, NEW m \in Members, Embark(m)
  PROVE  PierInv' /\ CrossingInv'
<1> USE DEF CrewInv
<1>1. /\ pc[m] = "pier" /\ pc'[m] = "board" /\ \A k \in Members \ {m} : pc'[k] = pc[k]
      /\ sem'["MOLO"] = sem["MOLO"]
      /\ sem["HACKER"] \in Nat /\ sem["SERF"] \in Nat
      /\ m \in Hackers => /\ sem["HACKER"] > 0 /\ sem'["HACKER"] = sem["HACKER"] - 1
                          /\ sem'["SERF"] = sem["SERF"]
      /\ m \notin Hackers => /\ sem["SERF"] > 0 /\ sem'["SERF"] = sem["SERF"] - 1
                             /\ sem'["HACKER"] = sem["HACKER"]
      /\ sem'["BOARDING"] = sem["BOARDING"] /\ sem'["LANDING"] = sem["LANDING"]
      /\ sem'["CAPTAIN"] = sem["CAPTAIN"]
      /\ UNCHANGED <<isCaptain, posted, hackersCount, serfsCount, waitingMembers>>
  BY DEF Embark, Pass, Goto, shared, TypeInv, TypeOK, Semaphores
<1>2. /\ nBoard' = nBoard + 1
      /\ UNCHANGED <<nEntering, nBoarded, nRole, nEmbarked, nUnder, nLand>>
      /\ m \in Hackers => /\ pierH' = pierH - 1 /\ aboardH' = aboardH + 1
                          /\ UNCHANGED <<pierS, aboardS>>
      /\ m \notin Hackers => /\ pierS' = pierS - 1 /\ aboardS' = aboardS + 1
                             /\ UNCHANGED <<pierH, aboardH>>
  BY <1>1, HackerOrSerf, Moved, NumbersType DEF Plus, PierPlaces, AboardPlaces
<1>3. PICK c \in Members : Boarding(c)
  BY <1>1 DEF CrossingInv, Open, Roles, Landing
<1>4. PierInv'
  <2>1. pierH' = hackersCount' + sem'["HACKER"] /\ pierS' = serfsCount' + sem'["SERF"]
    BY <1>1, <1>2, NumbersType DEF PierInv, TypeInv, TypeOK
  <2>2. \A k \in Members : (pc'[k] = "group" <=> pc[k] = "group") /\
           (pc'[k] \in {"unborn", "start", "molo", "arrive", "group"} =>
              pc[k] \in {"unborn", "start", "molo", "arrive", "group"})
    BY <1>1
  <2> QED
    BY <1>1, <2>1, <2>2 DEF PierInv
<1>5. Captain(c)'
  BY <1>1, <1>2, <1>3 DEF Boarding, Captain, AboardPlaces
<1>6. Legal(aboardH' + sem'["HACKER"], aboardS' + sem'["SERF"])
  <2>1. aboardH' + sem'["HACKER"] = aboardH + sem["HACKER"]
    BY <1>1, <1>2, NumbersType
  <2>2. aboardS' + sem'["SERF"] = aboardS + sem["SERF"]
    BY <1>1, <1>2, NumbersType
  <2> QED
    BY <1>3, <2>1, <2>2 DEF Boarding
<1>7. Boarding(c)'
  BY <1>1, <1>2, <1>3, <1>5, <1>6, NumbersType DEF Boarding
<1> QED
  BY <1>4, <1>7 DEF CrossingInv

\* No step on the boat changes the pier.
LEMMA PierStays ==
  ASSUME CrewInv, NEW m \in Members, pc[m] \in AboardPlaces,
         pc'[m] \in AboardPlaces \cup {"landed"}, \A k \in Members \ {m} : pc'[k] = pc[k],
         pierH' = pierH, pierS' = pierS, sem'["HACKER"] = sem["HACKER"],
         sem'["SERF"] = sem["SERF"], UNCHANGED <<isCaptain, hackersCount, serfsCount>>
  PROVE  PierInv'
<1>1. \A k \in Members :
        (pc'[k] = "group" <=> pc[k] = "group") /\
        (pc'[k] \in {"unborn", "start", "molo", "arrive", "group"} =>
           pc[k] \in {"unborn", "start", "molo", "arrive", "group"})
  BY DEF AboardPlaces
<1> QED
  BY <1>1 DEF CrewInv, PierInv

LEMMA BoardStep ==
  ASSUME CrewInv, NEW m \in Members, Board(m)
  PROVE  PierInv' /\ CrossingInv'
<1> USE DEF CrewInv
<1>1. /\ pc[m] = "board" /\ pc'[m] = "boarded" /\ \A k \in Members \ {m} : pc'[k] = pc[k]
      /\ sem'["MOLO"] = sem["MOLO"] /\ sem["HACKER"] \in Nat /\ sem["SERF"] \in Nat
      /\ sem'["HACKER"] = sem["HACKER"] /\ sem'["SERF"] = sem["SERF"]
      /\ sem'["LANDING"] = sem["LANDING"] /\ sem'["CAPTAIN"] = sem["CAPTAIN"]
      /\ UNCHANGED <<isCaptain, posted, hackersCount, serfsCount>>
      /\ \/ waitingMembers + 1 = 4 /\ waitingMembers' = 0
            /\ sem'["BOARDING"] = sem["BOARDING"] + 4
         \/ waitingMembers + 1 # 4 /\ waitingMembers' = waitingMembers + 1
            /\ sem'["BOARDING"] = sem["BOARDING"]
  BY DEF Board, Exit, Goto, Gather, PostAndUnlock, Unlock, TypeInv, TypeOK, Semaphores
<1>2. /\ nBoard' = nBoard - 1 /\ nBoarded' = nBoarded + 1
      /\ UNCHANGED <<nEntering, nRole, nEmbarked, nUnder, nLand, pierH, pierS, aboardH,
                     aboardS>>
  BY <1>1, Moved, NumbersType DEF Plus, PierPlaces, AboardPlaces
<1>3. nBoard >= 1
  BY <1>1, Present
<1>4. PICK c \in Members : Boarding(c)
  BY <1>3 DEF CrossingInv, Open, Roles, Landing
<1>5. PierInv'
  BY <1>1, <1>2, PierStays DEF AboardPlaces
<1>6. Captain(c)'
  BY <1>1, <1>2, <1>4 DEF Boarding, Captain, AboardPlaces
<1>7. CASE waitingMembers + 1 # 4
  <2>1. nBoarded' < 4
    BY <1>2, <1>4, <1>7, NumbersType DEF Boarding
  <2>2. Boarding(c)'
    BY <1>1, <1>2, <1>4, <1>6, <1>7, <2>1, NumbersType DEF Boarding
  <2> QED
    BY <1>5, <2>2 DEF CrossingInv
<1>8. CASE waitingMembers + 1 = 4
  <2>1. nBoard = 1 /\ nBoarded = 3 /\ sem["HACKER"] = 0 /\ sem["SERF"] = 0
    BY <1>1, <1>3, <1>4, <1>8, NumbersType DEF Boarding
  <2>2. pc[c] # "pier"
    BY <1>4, <2>1, Present, HackerOrSerf DEF Boarding, PierInv, PierPlaces, TypeInv, TypeOK
  <2>3. pc'[c] \in {"boarded", "role", "embarked"}
    <3>1. c = m \/ pc[c] # "board"
      BY <1>1, <2>1, CountOne DEF nBoard
    <3> QED
      BY <1>1, <1>4, <2>2, <3>1 DEF Boarding
  <2>4. Legal(aboardH', aboardS')
    BY <1>2, <1>4, <2>1, NumbersType DEF Boarding
  <2>5. Roles(c)'
    BY <1>1, <1>2, <1>4, <1>6, <1>8, <2>1, <2>3, <2>4 DEF Boarding, Roles
  <2> QED
    BY <1>5, <2>5 DEF CrossingInv
<1> QED
  BY <1>7, <1>8

LEMMA BoardedStep ==
  ASSUME CrewInv, NEW m \in Members, Boarded(m)
  PROVE  PierInv' /\ CrossingInv'
<1> USE DEF CrewInv
<1>1. /\ pc[m] = "boarded" /\ pc'[m] = "role" /\ \A k \in Members \ {m} : pc'[k] = pc[k]
      /\ sem["BOARDING"] > 0 /\ sem'["BOARDING"] = sem["BOARDING"] - 1
      /\ sem'["MOLO"] = sem["MOLO"]
      /\ sem'["HACKER"] = sem["HACKER"] /\ sem'["SERF"] = sem["SERF"]
      /\ sem'["LANDING"] = sem["LANDING"] /\ sem'["CAPTAIN"] = sem["CAPTAIN"]
      /\ UNCHANGED <<isCaptain, posted, hackersCount, serfsCount, waitingMembers>>
  BY DEF Boarded, Pass, Goto, shared, TypeInv, TypeOK, Semaphores
<1>2. /\ nBoarded' = nBoarded - 1 /\ nRole' = nRole + 1
      /\ UNCHANGED <<nEntering, nBoard, nEmbarked, nUnder, nLand, pierH, pierS, aboardH,
                     aboardS>>
  BY <1>1, Moved, NumbersType DEF Plus, PierPlaces, AboardPlaces
<1>3. PICK c \in Members : Roles(c)
  BY <1>1 DEF CrossingInv, Open, Boarding, Landing
<1>4. PierInv'
  BY <1>1, <1>2, PierStays DEF AboardPlaces
<1>5. Captain(c)'
  BY <1>1, <1>2, <1>3 DEF Roles, Captain, AboardPlaces
<1>6. Roles(c)'
  BY <1>1, <1>2, <1>3, <1>5, NumbersType DEF Roles
<1> QED
  BY <1>4, <1>6 DEF CrossingInv

LEMMA RoleStep ==
  ASSUME CrewInv, NEW m \in Members, Role(m)
  PROVE  PierInv' /\ CrossingInv'
<1> USE DEF CrewInv
<1>1. /\ pc[m] = "role" /\ pc'[m] = "embarked" /\ \A k \in Members \ {m} : pc'[k] = pc[k]
      /\ sem'["BOARDING"] = sem["BOARDING"] /\ sem'["MOLO"] = sem["MOLO"]
      /\ sem'["HACKER"] = sem["HACKER"] /\ sem'["SERF"] = sem["SERF"]
      /\ sem'["CAPTAIN"] = sem["CAPTAIN"]
      /\ UNCHANGED <<isCaptain, posted, hackersCount, serfsCount>>
      /\ \/ waitingMembers + 1 = 4 /\ waitingMembers' = 0
            /\ sem'["LANDING"] = sem["LANDING"] + 4
         \/ waitingMembers + 1 # 4 /\ waitingMembers' = waitingMembers + 1
            /\ sem'["LANDING"] = sem["LANDING"]
  BY DEF Role, Exit, Goto, Gather, PostAndUnlock, Unlock, TypeInv, TypeOK, Semaphores
<1>2. /\ nRole' = nRole - 1 /\ nEmbarked' = nEmbarked + 1
      /\ UNCHANGED <<nEntering, nBoard, nBoarded, nUnder, nLand, pierH, pierS, aboardH,
                     aboardS>>
  BY <1>1, Moved, NumbersType DEF Plus, PierPlaces, AboardPlaces
<1>3. nRole >= 1
  BY <1>1, Present
<1>4. PICK c \in Members : Roles(c)
  BY <1>3 DEF CrossingInv, Open, Boarding, Landing
<1>5. PierInv'
  BY <1>1, <1>2, PierStays DEF AboardPlaces
<1>6. Captain(c)'
  BY <1>1, <1>2, <1>4 DEF Roles, Captain, AboardPlaces
<1>7. CASE waitingMembers + 1 # 4
  <2>1. nEmbarked' < 4
    BY <1>2, <1>4, <1>7, NumbersType DEF Roles
  <2>2. Roles(c)'
    BY <1>1, <1>2, <1>4, <1>6, <1>7, <2>1, NumbersType DEF Roles
  <2> QED
    BY <1>5, <2>2 DEF CrossingInv
<1>8. CASE waitingMembers + 1 = 4
  <2>1. nRole = 1 /\ nBoarded = 0 /\ nEmbarked = 3
    BY <1>3, <1>4, <1>8, NumbersType DEF Roles
  <2>2. posted'[c] = 0 /\ aboardH + aboardS = 4
    BY <1>1, <1>4, NumbersType DEF Roles, Legal, TypeInv, PostedInv, BeforeSteer
  <2>3. \A k \in Members : pc'[k] # "steer"
    BY <1>1, <1>4, Present DEF Roles
  <2>4. Landing(c)'
    BY <1>1, <1>2, <1>4, <1>6, <1>8, <2>1, <2>2, <2>3 DEF Roles, Landing, AboardPlaces
  <2> QED
    BY <1>5, <2>4 DEF CrossingInv
<1> QED
  BY <1>7, <1>8

LEMMA EmbarkedStep ==
  ASSUME CrewInv, NEW m \in Members, Embarked(m)
  PROVE  PierInv' /\ CrossingInv'
<1> USE DEF CrewInv
<1>1. /\ pc[m] = "embarked" /\ pc'[m] = (IF isCaptain[m] THEN "steer" ELSE "sail")
      /\ \A k \in Members \ {m} : pc'[k] = pc[k]
      /\ sem["LANDING"] > 0 /\ sem'["LANDING"] = sem["LANDING"] - 1
      /\ sem'["MOLO"] = sem["MOLO"]
      /\ sem'["HACKER"] = sem["HACKER"] /\ sem'["SERF"] = sem["SERF"]
      /\ sem'["BOARDING"] = sem["BOARDING"] /\ sem'["CAPTAIN"] = sem["CAPTAIN"]
      /\ UNCHANGED <<isCaptain, posted, hackersCount, serfsCount, waitingMembers>>
  BY DEF Embarked, Pass, Goto, shared, TypeInv, TypeOK, Semaphores
<1>2. /\ nEmbarked' = nEmbarked - 1 /\ nUnder' = nUnder + 1
      /\ UNCHANGED <<nEntering, nBoard, nBoarded, nRole, nLand, pierH, pierS, aboardH,
                     aboardS>>
  BY <1>1, Moved, NumbersType DEF Plus, PierPlaces, AboardPlaces
<1>3. PICK c \in Members : Landing(c)
  BY <1>1 DEF CrossingInv, Open, Boarding, Roles
<1>4. PierInv'
  BY <1>1, <1>2, PierStays DEF AboardPlaces
<1>5. Captain(c)'
  BY <1>1, <1>2, <1>3 DEF Landing, Captain, AboardPlaces
<1>6. isCaptain[m] <=> m = c
  BY <1>1, <1>3 DEF Landing, Captain, AboardPlaces
<1>7. Landing(c)'
  BY <1>1, <1>2, <1>3, <1>5, <1>6, NumbersType DEF Landing, AboardPlaces
<1> QED
  BY <1>4, <1>7 DEF CrossingInv

LEMMA SteerStep ==
  ASSUME CrewInv, NEW m \in Members, Steer(m)
  PROVE  PierInv' /\ CrossingInv'
<1> USE DEF CrewInv
<1>1. /\ pc[m] = "steer" /\ pc'[m] = (IF posted[m] + 1 = 4 THEN "sail" ELSE "steer")
      /\ \A k \in Members \ {m} : pc'[k] = pc[k]
      /\ posted[m] \in Nat /\ sem["CAPTAIN"] \in Nat
      /\ posted'[m] = posted[m] + 1 /\ sem'["CAPTAIN"] = sem["CAPTAIN"] + 1
      /\ sem'["MOLO"] = sem["MOLO"]
      /\ sem'["HACKER"] = sem["HACKER"] /\ sem'["SERF"] = sem["SERF"]
      /\ sem'["BOARDING"] = sem["BOARDING"] /\ sem'["LANDING"] = sem["LANDING"]
      /\ UNCHANGED <<isCaptain, hackersCount, serfsCount, waitingMembers>>
  BY DEF Steer, Goto, shared, TypeInv, TypeOK, Semaphores
<1>2. Still
  BY <1>1, Moved, NumbersType DEF Still, Plus, PierPlaces, AboardPlaces
<1>3. nUnder >= 1
  BY <1>1, Present
<1>4. PICK c \in Members : Landing(c)
  BY <1>3 DEF CrossingInv, Open, Boarding, Roles
<1>5. m = c
  BY <1>1, <1>4 DEF Landing
<1>6. PierInv'
  BY <1>1, <1>2, PierStays DEF Still, AboardPlaces
<1>7. Captain(c)'
  BY <1>1, <1>2, <1>4 DEF Still, Landing, Captain, AboardPlaces
<1>8. sem'["CAPTAIN"] + nLand' + waitingMembers' = posted'[c]
  BY <1>1, <1>2, <1>4, <1>5, NumbersType DEF Still, Landing, TypeInv, TypeOK
<1>9. Landing(c)'
  BY <1>1, <1>2, <1>4, <1>5, <1>7, <1>8 DEF Still, Landing, AboardPlaces
<1> QED
  BY <1>6, <1>9 DEF CrossingInv

LEMMA SailStep ==
  ASSUME CrewInv, NEW m \in Members, Sail(m)
  PROVE  PierInv' /\ CrossingInv'
<1> USE DEF CrewInv
<1>1. /\ pc[m] = "sail" /\ pc'[m] = "land" /\ \A k \in Members \ {m} : pc'[k] = pc[k]
      /\ sem["CAPTAIN"] \in Nat /\ sem["CAPTAIN"] > 0 /\ sem'["CAPTAIN"] = sem["CAPTAIN"] - 1
      /\ sem'["MOLO"] = sem["MOLO"]
      /\ sem'["HACKER"] = sem["HACKER"] /\ sem'["SERF"] = sem["SERF"]
      /\ sem'["BOARDING"] = sem["BOARDING"] /\ sem'["LANDING"] = sem["LANDING"]
      /\ UNCHANGED <<isCaptain, posted, hackersCount, serfsCount, waitingMembers>>
  BY DEF Sail, Pass, Goto, shared, TypeInv, TypeOK, Semaphores
<1>2. /\ nUnder' = nUnder - 1 /\ nLand' = nLand + 1
      /\ UNCHANGED <<nEntering, nBoard, nBoarded, nRole, nEmbarked, pierH, pierS, aboardH,
                     aboardS>>
  BY <1>1, Moved, NumbersType DEF Plus, PierPlaces, AboardPlaces
<1>3. PICK c \in Members : Landing(c)
  BY <1>1 DEF CrossingInv, Open, Boarding, Roles
<1>4. PierInv'
  BY <1>1, <1>2, PierStays DEF AboardPlaces
<1>5. Captain(c)'
  BY <1>1, <1>2, <1>3 DEF Landing, Captain, AboardPlaces
<1>6. waitingMembers \in Nat
  BY DEF TypeInv, TypeOK
<1>7. Landing(c)'
  BY <1>1, <1>2, <1>3, <1>5, <1>6, NumbersType DEF Landing, AboardPlaces
<1> QED
  BY <1>4, <1>7 DEF CrossingInv

LEMMA LandStep ==
  ASSUME CrewInv, NEW m \in Members, Land(m)
  PROVE  PierInv' /\ CrossingInv'
<1> USE DEF CrewInv
<1>1. /\ pc[m] = "land" /\ pc'[m] = "landed" /\ \A k \in Members \ {m} : pc'[k] = pc[k]
      /\ sem["CAPTAIN"] \in Nat /\ waitingMembers \in 0..3
      /\ sem'["CAPTAIN"] = sem["CAPTAIN"]
      /\ sem'["HACKER"] = sem["HACKER"] /\ sem'["SERF"] = sem["SERF"]
      /\ sem'["BOARDING"] = sem["BOARDING"] /\ sem'["LANDING"] = sem["LANDING"]
      /\ UNCHANGED <<isCaptain, posted, hackersCount, serfsCount>>
      /\ \/ waitingMembers + 1 = 4 /\ waitingMembers' = 0
            /\ sem'["MOLO"] = sem["MOLO"] + 1
         \/ waitingMembers + 1 # 4 /\ waitingMembers' = waitingMembers + 1
            /\ sem'["MOLO"] = sem["MOLO"]
  BY DEF Land, Exit, Goto, Gather, PostAndUnlock, Unlock, TypeInv, TypeOK, Semaphores
<1>2. /\ nLand' = nLand - 1
      /\ UNCHANGED <<nEntering, nBoard, nBoarded, nRole, nEmbarked, nUnder, pierH, pierS>>
      /\ m \in Hackers => aboardH' = aboardH - 1 /\ UNCHANGED aboardS
      /\ m \notin Hackers => aboardS' = aboardS - 1 /\ UNCHANGED aboardH
  BY <1>1, HackerOrSerf, Moved, NumbersType DEF Plus, PierPlaces, AboardPlaces
<1>3. /\ nLand >= 1
      /\ m \in Hackers => aboardH >= 1
      /\ m \notin Hackers => aboardS >= 1
  BY <1>1, HackerOrSerf, Present DEF AboardPlaces
<1>4. PICK c \in Members : Landing(c)
  BY <1>3 DEF CrossingInv, Open, Boarding, Roles
<1>5. PierInv'
  BY <1>1, <1>2, PierStays DEF AboardPlaces
<1>6. CASE waitingMembers + 1 # 4
  <2>1. Captain(c)'
    BY <1>1, <1>2, <1>4, <1>6 DEF Landing, Captain, AboardPlaces
  <2>2. aboardH' + aboardS' + waitingMembers' = 4
    BY <1>1, <1>2, <1>4, <1>6, NumbersType DEF Landing
  <2>3. Landing(c)'
    BY <1>1, <1>2, <1>4, <1>6, <2>1, <2>2, NumbersType DEF Landing, AboardPlaces
  <2> QED
    BY <1>5, <2>3 DEF CrossingInv
<1>7. CASE waitingMembers + 1 = 4
  <2>1. nLand = 1 /\ nEmbarked = 0 /\ nUnder = 0
    BY <1>1, <1>3, <1>4, <1>7, NumbersType DEF Landing
  <2>2. aboardH' = 0 /\ aboardS' = 0
    BY <1>1, <1>2, <1>3, <1>4, <1>7, NumbersType DEF Landing
  <2>3. posted[c] = 4
    BY <1>4, <2>1, Present DEF Landing
  <2>4. sem["CAPTAIN"] = 0
    BY <1>1, <1>4, <1>7, <2>1, <2>3 DEF Landing
  <2>5. \A k \in Members : pc'[k] = "pier" => ~isCaptain'[k]
    BY <1>1, <1>4 DEF Landing, Captain
  <2>6. Open'
    BY <1>1, <1>2, <1>4, <1>7, <2>1, <2>2, <2>4, <2>5 DEF Landing, Captain, Open
  <2> QED
    BY <1>5, <2>6 DEF CrossingInv
<1> QED
  BY <1>6, <1>7

-----------------------------------------------------------------------------
(* The invariant and what it says.                                         *)

LEMMA CrewInvInit == Init => CrewInv
<1> SUFFICES ASSUME Init
             PROVE  CrewInv
  OBVIOUS
<1>1. ASSUME NEW S \in SUBSET Members, NEW P, "unborn" \notin P
      PROVE  Count(pc, S, P) = 0
  <2>1. {m \in S : pc[m] \in P} = {}
    BY <1>1 DEF Init
  <2> QED
    BY <2>1, FS_EmptySet DEF Count
<1>2. /\ nEntering = 0 /\ nBoard = 0 /\ nBoarded = 0 /\ nRole = 0 /\ nEmbarked = 0
      /\ nUnder = 0 /\ nLand = 0 /\ pierH = 0 /\ pierS = 0 /\ aboardH = 0 /\ aboardS = 0
  BY <1>1 DEF nEntering, nBoard, nBoarded, nRole, nEmbarked, nUnder, nLand, pierH, pierS,
              aboardH, aboardS, PierPlaces, AboardPlaces, Members
<1>3. PierInv
  BY <1>2 DEF Init, PierInv, NoCrew, Semaphores
<1>4. Open
  BY <1>2 DEF Init, Open, Semaphores
<1> QED
  BY <1>3, <1>4, TypeInvInit DEF CrewInv, CrossingInv

LEMMA CrewInvNext == CrewInv /\ [Next]_vars => CrewInv'
<1> SUFFICES ASSUME CrewInv, [Next]_vars
             PROVE  PierInv' /\ CrossingInv'
  BY TypeInvNext DEF CrewInv
<1>1. ASSUME NEW m \in Members, Fork(m) \/ Start(m) \/ Lock(m)
      PROVE  PierInv' /\ CrossingInv'
  <2>1. /\ \/ pc' = pc
           \/ /\ pc[m] \in Away
              /\ \E to \in Away \ {"unborn"} : pc' = [pc EXCEPT ![m] = to]
        /\ pc[m] \in {"landed", "ashore", "finish", "done"} =>
             pc'[m] \in {"landed", "ashore", "finish", "done"}
        /\ UNCHANGED <<isCaptain, posted, hackersCount, serfsCount, waitingMembers>>
    BY <1>1 DEF Fork, Start, Lock, Exit, Goto, Away, shared
  <2>2. \A s \in Semaphores \ {"EXCLUSIVE", "FINISH"} : sem'[s] = sem[s]
    BY <1>1 DEF Fork, Start, Lock, Unlock, CrewInv, TypeInv, TypeOK, Semaphores
  <2> QED
    BY <2>1, <2>2, QuietStep
<1>2. ASSUME NEW m \in Members, Landed(m) \/ Ashore(m) \/ Finish(m)
      PROVE  PierInv' /\ CrossingInv'
  <2>1. /\ pc[m] \in Away
        /\ \E to \in Away \ {"unborn"} : pc' = [pc EXCEPT ![m] = to]
        /\ pc'[m] \in {"landed", "ashore", "finish", "done"}
        /\ UNCHANGED <<isCaptain, posted, hackersCount, serfsCount, waitingMembers>>
    BY <1>2 DEF Landed, Ashore, Finish, Exit, Pass, Goto, Away, shared, CrewInv, TypeInv,
                TypeOK
  <2>2. \A s \in Semaphores \ {"EXCLUSIVE", "FINISH"} : sem'[s] = sem[s]
    BY <1>2 DEF Landed, Ashore, Finish, Pass, Unlock, PostAndUnlock, CrewInv, TypeInv, TypeOK,
                Semaphores
  <2> QED
    BY <2>1, <2>2, QuietStep
<1>3. CASE UNCHANGED vars
  <2>1. PICK m \in Members : TRUE
    BY Assumption, FS_EmptySet DEF Members
  <2> QED
    BY <1>3, <2>1, QuietStep DEF vars
<1> QED
  BY <1>1, <1>2, <1>3, EnterMoloStep, ArriveStep, GroupStep, EmbarkStep, BoardStep,
     BoardedStep, RoleStep, EmbarkedStep, SteerStep, SailStep, LandStep DEF Next, Member

LEMMA CrewInvariant == Spec => []CrewInv
BY CrewInvInit, CrewInvNext, PTL DEF Spec

\* The persons on the pier and on the boat, counted kind by kind.
LEMMA Sums ==
  ASSUME TypeOK
  PROVE  /\ Cardinality(OnPier \cap Hackers) = pierH
         /\ Cardinality(OnPier \cap Serfs) = pierS
         /\ Cardinality(Aboard \cap Hackers) = aboardH
         /\ Cardinality(Aboard \cap Serfs) = aboardS
         /\ Cardinality(Aboard) = aboardH + aboardS
<1>1. /\ OnPier \cap Hackers = {m \in Hackers : pc[m] \in PierPlaces}
      /\ OnPier \cap Serfs = {m \in Serfs : pc[m] \in PierPlaces}
      /\ Aboard \cap Hackers = {m \in Hackers : pc[m] \in AboardPlaces}
      /\ Aboard \cap Serfs = {m \in Serfs : pc[m] \in AboardPlaces}
  BY DEF OnPier, Aboard, PierPlaces, AboardPlaces, Members
<1>2. /\ Cardinality(OnPier \cap Hackers) = pierH
      /\ Cardinality(OnPier \cap Serfs) = pierS
      /\ Cardinality(Aboard \cap Hackers) = aboardH
      /\ Cardinality(Aboard \cap Serfs) = aboardS
  BY <1>1 DEF pierH, pierS, aboardH, aboardS, Count
<1>3. /\ Aboard = (Aboard \cap Hackers) \cup (Aboard \cap Serfs)
      /\ (Aboard \cap Hackers) \cap (Aboard \cap Serfs) = {}
  BY Assumption DEF Aboard, Members
<1>4. IsFiniteSet(Aboard \cap Hackers) /\ IsFiniteSet(Aboard \cap Serfs)
  BY Assumption, FS_Subset
<1>5. Cardinality(Aboard) = aboardH + aboardS - Cardinality({})
  BY <1>2, <1>3, <1>4, FS_Union
<1>6. Cardinality({}) = 0
  BY FS_EmptySet
<1> QED
  BY <1>2, <1>5, <1>6, NumbersType

\* member(): the counters and the posts of HACKER and SERF account for everybody on the
\* pier, although they are set in another section than the one in which a person arrives.
THEOREM PierCounted == Spec => []PierIsCounted
<1>1. CrewInv => PierIsCounted
  BY Sums DEF CrewInv, PierInv, PierIsCounted, TypeInv
<1> QED
  BY <1>1, CrewInvariant, PTL

LEMMA CrewsInv == CrewInv => CrewsAreRight
<1> SUFFICES ASSUME CrewInv
             PROVE  CrewsAreRight
  OBVIOUS
<1> USE DEF CrewInv
<1>1. /\ sem["HACKER"] \in Nat /\ sem["SERF"] \in Nat /\ waitingMembers \in Nat
      /\ aboardH \in Nat /\ aboardS \in Nat
  BY NumbersType DEF TypeInv, TypeOK, Semaphores
<1>2. LET h == aboardH + sem["HACKER"]
          s == aboardS + sem["SERF"]
      IN  h + s <= 4 /\ (h + s = 4 => Legal(h, s))
  <2>1. CASE Open
    BY <1>1, <2>1 DEF Open
  <2>2. ASSUME NEW c \in Members, Boarding(c)
        PROVE  Legal(aboardH + sem["HACKER"], aboardS + sem["SERF"])
    BY <2>2 DEF Boarding
  <2>3. ASSUME NEW c \in Members, Roles(c)
        PROVE  Legal(aboardH + sem["HACKER"], aboardS + sem["SERF"])
    BY <1>1, <2>3 DEF Roles
  <2>4. CASE Legal(aboardH + sem["HACKER"], aboardS + sem["SERF"])
    BY <1>1, <2>4 DEF Legal
  <2>5. ASSUME NEW c \in Members, Landing(c)
        PROVE  /\ sem["HACKER"] = 0 /\ sem["SERF"] = 0 /\ aboardH + aboardS <= 4
               /\ aboardH + aboardS = 4 => Legal(aboardH, aboardS)
    BY <1>1, <2>5 DEF Landing
  <2> QED
    BY <1>1, <2>1, <2>2, <2>3, <2>4, <2>5 DEF CrossingInv
<1>3. CrewIsLegal
  BY <1>2, Sums DEF CrewIsLegal, Legal, TypeInv
<1>4. CaptainSails
  <2> SUFFICES ASSUME aboardH + aboardS = 4
               PROVE  Cardinality({m \in Aboard : isCaptain[m]}) = 1
    BY Sums DEF CaptainSails, TypeInv
  <2>1. PICK c \in Members : Boarding(c) \/ Roles(c) \/ Landing(c)
    BY DEF CrossingInv, Open
  <2>2. Captain(c)
    BY <2>1 DEF Boarding, Roles, Landing
  <2>3. pc[c] \in AboardPlaces
    <3>1. CASE Boarding(c)
      <4> DEFINE h == aboardH + sem["HACKER"]
                 s == aboardS + sem["SERF"]
      <4>1. sem["HACKER"] = 0 /\ sem["SERF"] = 0
        <5>1. h \in Nat /\ s \in Nat /\ Legal(h, s)
          BY <1>1, <3>1 DEF Boarding
        <5> HIDE DEF h, s
        <5>2. h + s = 4
          BY <5>1 DEF Legal
        <5> QED
          BY <1>1, <5>2 DEF h, s
      <4>2. pc[c] # "pier"
        BY <3>1, <4>1, Present, HackerOrSerf DEF Boarding, PierInv, PierPlaces, TypeInv, TypeOK
      <4> QED
        BY <3>1, <4>2 DEF Boarding, AboardPlaces
    <3>2. CASE Roles(c)
      BY <3>2 DEF Roles, AboardPlaces
    <3>3. CASE Landing(c)
      BY <1>1, <3>3 DEF Landing
    <3> QED
      BY <2>1, <3>1, <3>2, <3>3
  <2>4. {m \in Aboard : isCaptain[m]} = {c}
    BY <2>2, <2>3 DEF Captain, Aboard, AboardPlaces
  <2> QED
    BY <2>4, FS_Singleton
<1> QED
  BY <1>3, <1>4 DEF CrewsAreRight

\* member(): whoever wins HACKER and SERF on the pier, a full boat carries one of the three
\* crews and, of all that are captains or were, only the one that called it.
THEOREM Crews == Spec => []CrewsAreRight
BY CrewsInv, CrewInvariant, PTL

LEMMA TogetherInv == CrewInv => CrewStaysTogether
<1> SUFFICES ASSUME CrewInv
             PROVE  CrewStaysTogether
  OBVIOUS
<1> USE DEF CrewInv
<1>1. ASSUME NEW m \in Members, pc[m] \in {"role", "embarked", "steer", "sail", "land"}
      PROVE  Seats = 0 /\ nBoard = 0
  BY <1>1, Present DEF CrossingInv, Open, Boarding, Roles, Landing, Seats
<1>2. ASSUME NEW m \in Members, pc[m] \in {"steer", "sail", "land"}
      PROVE  nBoarded = 0 /\ nRole = 0
  BY <1>2, Present DEF CrossingInv, Open, Boarding, Roles, Landing
<1> QED
  BY <1>1, <1>2, Present DEF CrewStaysTogether

\* member(): nobody prints a role before all have boarded, nor lands before all have one,
\* though waitingMembers serves the three barriers.
THEOREM Together == Spec => []CrewStaysTogether
BY TogetherInv, CrewInvariant, PTL

LEMMA OneCrossingInv == CrewInv => OneCrossingAtATime
<1> SUFFICES ASSUME CrewInv,
                    sem["MOLO"] > 0 \/ \E m \in Members : pc[m] \in {"arrive", "group"}
             PROVE  /\ Aboard = {} /\ waitingMembers = 0
                    /\ \A s \in {"HACKER", "SERF", "BOARDING", "LANDING", "CAPTAIN"} :
                         sem[s] = 0
  BY DEF OneCrossingAtATime
<1>1. Open
  BY Present DEF CrewInv, CrossingInv, Boarding, Roles, Landing, Captain
<1>2. \A m \in Members : pc[m] \notin AboardPlaces
  BY <1>1, Present, HackerOrSerf DEF Open
<1> QED
  BY <1>1, <1>2 DEF Open, Aboard, AboardPlaces

\* member(): while MOLO is open there is no boat, and no post of the last one is left in any
\* semaphore.
THEOREM OneCrossing == Spec => []OneCrossingAtATime
BY OneCrossingInv, CrewInvariant, PTL

-----------------------------------------------------------------------------
(* The semaphores implement the crossing.                                  *)

\* Where the abstract crossing sees a person that is at p.
SeenAt(p) ==
  CASE p \in {"unborn", "start", "molo", "arrive"} -> "bank"
    [] p \in {"group", "pier"}                     -> "pier"
    [] p \in {"board", "boarded", "role", "embarked", "steer", "sail", "land"} -> "boat"
    [] p \in {"landed", "ashore", "finish"}         -> "shore"
    [] p = "done"                                  -> "home"

LEMMA SeenPlaces ==
  ASSUME NEW p \in Places
  PROVE  /\ p \in {"unborn", "start", "molo", "arrive"} => SeenAt(p) = "bank"
         /\ p \in PierPlaces => SeenAt(p) = "pier"
         /\ p \in AboardPlaces => SeenAt(p) = "boat"
         /\ p \in {"landed", "ashore", "finish"} => SeenAt(p) = "shore"
         /\ p = "done" => SeenAt(p) = "home"
BY DEF SeenAt, Places, Sections, PierPlaces, AboardPlaces

LEMMA Seen ==
  /\ placeBar = [m \in Members |-> SeenAt(pc[m])]
  /\ placeBar' = [m \in Members |-> SeenAt(pc'[m])]
BY DEF placeBar, SeenAt

LEMMA SeenGroups ==
  ASSUME TypeOK
  PROVE  /\ C!At("pier") \cap Hackers = OnPier \cap Hackers
         /\ C!At("pier") \cap Serfs = OnPier \cap Serfs
         /\ C!Boat = Aboard
<1>1. \A m \in Members :
        /\ placeBar[m] = "pier" <=> pc[m] \in PierPlaces
        /\ placeBar[m] = "boat" <=> pc[m] \in AboardPlaces
  <2> TAKE m \in Members
  <2>1. pc[m] \in Places /\ placeBar[m] = SeenAt(pc[m])
    BY Seen DEF TypeOK
  <2> QED
    BY <2>1, SeenPlaces DEF Places, Sections, PierPlaces, AboardPlaces
<1> QED
  BY <1>1 DEF C!At, C!Boat, C!Members, OnPier, Aboard, Members, PierPlaces, AboardPlaces

\* A step within what the crossing sees as one place.
LEMMA Unseen ==
  ASSUME NEW m \in Members, \A k \in Members \ {m} : pc'[k] = pc[k],
         SeenAt(pc[m]) = SeenAt(pc'[m]),
         sem'["HACKER"] = sem["HACKER"], sem'["SERF"] = sem["SERF"]
  PROVE  UNCHANGED <<placeBar, seatsBar>>
<1>1. seatsBar' = seatsBar
  BY DEF seatsBar
<1>2. \A k \in Members : SeenAt(pc[k]) = SeenAt(pc'[k])
  OBVIOUS
<1>3. placeBar' = placeBar
  BY <1>2, Seen
<1> QED
  BY <1>1, <1>3

\* A step from one such place to another.
LEMMA SeenMove ==
  ASSUME NEW m \in Members, \A k \in Members \ {m} : pc'[k] = pc[k]
  PROVE  /\ placeBar[m] = SeenAt(pc[m])
         /\ placeBar' = [placeBar EXCEPT ![m] = SeenAt(pc'[m])]
<1>1. placeBar \in [Members -> {SeenAt(pc[k]) : k \in Members}]
  BY Seen
<1>2. \A k \in Members : placeBar'[k] = [placeBar EXCEPT ![m] = SeenAt(pc'[m])][k]
  BY Seen
<1> QED
  BY <1>1, <1>2, Seen

\* The crossing counts as FiniteSets does.
LEMMA SameCardinality == \A S : C!Cardinality(S) = Cardinality(S)
BY Zenon DEF C!Cardinality, Cardinality

\* What the open pier is to the crossing: no boat, no seats, and the counters.
LEMMA OpenIsIdle ==
  ASSUME CrewInv, Open
  PROVE  /\ C!Idle
         /\ hackersCount = Cardinality(C!At("pier") \cap Hackers)
         /\ serfsCount = Cardinality(C!At("pier") \cap Serfs)
<1>1. Aboard = {}
  BY Present, HackerOrSerf DEF Open, Aboard, AboardPlaces
<1>2. hackersCount \in Nat /\ serfsCount \in Nat
  BY DEF CrewInv, TypeInv, TypeOK
<1>3. C!Idle
  BY <1>1, SeenGroups DEF CrewInv, TypeInv, Open, C!Idle, C!NoSeats, seatsBar
<1>4. pierH = hackersCount /\ pierS = serfsCount
  BY <1>2 DEF CrewInv, PierInv, Open
<1> QED
  BY <1>3, <1>4, SeenGroups, Sums DEF CrewInv, TypeInv

LEMMA ArriveImplements ==
  ASSUME CrewInv, NEW m \in Members, Arrive(m)
  PROVE  C!Arrive(m)
<1>1. /\ pc[m] = "arrive" /\ pc'[m] = "group" /\ \A k \in Members \ {m} : pc'[k] = pc[k]
      /\ sem'["HACKER"] = sem["HACKER"] /\ sem'["SERF"] = sem["SERF"]
      /\ sem["MOLO"] \in Nat
  BY DEF Arrive, Exit, Unlock, Goto, CrewInv, TypeInv, TypeOK, Semaphores
<1>2. Open
  BY <1>1, Present DEF CrewInv, CrossingInv, Boarding, Roles, Landing, Captain
<1>3. nEntering = 1
  BY <1>1, <1>2, Present, NumbersType DEF Open
<1>4. \A k \in Members : pc[k] \in {"arrive", "group"} => k = m
  BY <1>1, <1>3, CountOne DEF nEntering
<1>5. NoCrew(hackersCount, serfsCount) /\ hackersCount \in Nat /\ serfsCount \in Nat
  BY <1>1, <1>4 DEF CrewInv, PierInv, TypeInv, TypeOK
<1>6. C!Possible = {}
  <2> SUFFICES ASSUME NEW c \in C!Crews, c.hacker <= hackersCount, c.serf <= serfsCount
               PROVE  FALSE
    BY <1>2, OpenIsIdle, SameCardinality DEF C!Possible
  <2> QED
    BY <1>5 DEF C!Crews, NoCrew
<1>7. placeBar[m] = "bank" /\ placeBar' = [placeBar EXCEPT ![m] = "pier"]
  BY <1>1, SeenMove DEF SeenAt
<1>8. UNCHANGED seatsBar
  BY <1>1 DEF seatsBar
<1> QED
  BY <1>2, <1>6, <1>7, <1>8, OpenIsIdle DEF C!Arrive

LEMMA GroupImplements ==
  ASSUME CrewInv, NEW m \in Members, Group(m)
  PROVE  C!Call \/ UNCHANGED <<placeBar, seatsBar>>
<1> DEFINE crew == Crew(hackersCount, serfsCount)
<1>1. /\ hackersCount \in Nat /\ serfsCount \in Nat
      /\ crew \in {<<0, 0>>, <<4, 0>>, <<0, 4>>, <<2, 2>>}
      /\ crew[1] \in 0..hackersCount /\ crew[2] \in 0..serfsCount
  BY CrewIsAvailable DEF CrewInv, TypeInv, TypeOK
<1>2. /\ pc[m] = "group" /\ pc'[m] = "pier" /\ \A k \in Members \ {m} : pc'[k] = pc[k]
  BY DEF Group, Exit, Goto, CrewInv, TypeInv, TypeOK
<1>3. sem' = [sem EXCEPT !["HACKER"] = @ + crew[1],
                         !["SERF"] = @ + crew[2],
                         !["MOLO"] = IF Calls(crew) THEN @ ELSE @ + 1,
                         !["EXCLUSIVE"] = @ + 1]
  BY DEF Group
<1> HIDE DEF crew
<1>4. /\ sem["HACKER"] \in Nat /\ sem["SERF"] \in Nat
      /\ sem'["HACKER"] = sem["HACKER"] + crew[1]
      /\ sem'["SERF"] = sem["SERF"] + crew[2]
  BY <1>3 DEF CrewInv, TypeInv, TypeOK, Semaphores
<1>5. Open
  BY <1>2, Present DEF CrewInv, CrossingInv, Boarding, Roles, Landing, Captain
<1>6. placeBar' = placeBar
  <2>1. \A k \in Members : SeenAt(pc'[k]) = SeenAt(pc[k])
    BY <1>2 DEF SeenAt
  <2> QED
    BY ONLY <2>1, Seen
<1>7. CASE crew = <<0, 0>>
  BY <1>4, <1>6, <1>7 DEF seatsBar
<1>8. CASE crew # <<0, 0>>
  <2>1. seatsBar' = [hacker |-> crew[1], serf |-> crew[2]]
    BY <1>1, <1>4, <1>5 DEF seatsBar, Open
  <2>2. seatsBar' \in C!Crews
    BY <1>1, <1>8, <2>1 DEF C!Crews
  <2>3. seatsBar' \in C!Possible
    BY <1>1, <1>5, <2>1, <2>2, OpenIsIdle, SameCardinality DEF C!Possible
  <2> QED
    BY <1>5, <1>6, <2>3, OpenIsIdle DEF C!Call
<1> QED
  BY <1>7, <1>8

LEMMA EmbarkImplements ==
  ASSUME CrewInv, NEW m \in Members, Embark(m)
  PROVE  C!Board(m)
<1>1. /\ pc[m] = "pier" /\ pc'[m] = "board" /\ \A k \in Members \ {m} : pc'[k] = pc[k]
      /\ sem["HACKER"] \in Nat /\ sem["SERF"] \in Nat
      /\ m \in Hackers => /\ sem["HACKER"] > 0 /\ sem'["HACKER"] = sem["HACKER"] - 1
                          /\ sem'["SERF"] = sem["SERF"]
      /\ m \notin Hackers => /\ sem["SERF"] > 0 /\ sem'["SERF"] = sem["SERF"] - 1
                             /\ sem'["HACKER"] = sem["HACKER"]
  BY DEF Embark, Pass, Goto, CrewInv, TypeInv, TypeOK, Semaphores
<1>2. placeBar[m] = "pier" /\ placeBar' = [placeBar EXCEPT ![m] = "boat"]
  BY <1>1, SeenMove DEF SeenAt
<1>3. CASE m \in Hackers
  BY <1>1, <1>2, <1>3 DEF C!Board, seatsBar
<1>4. CASE m \notin Hackers
  BY <1>1, <1>2, <1>4, HackerOrSerf DEF C!Board, seatsBar
<1> QED
  BY <1>3, <1>4

LEMMA LandImplements ==
  ASSUME CrewInv, NEW m \in Members, Land(m)
  PROVE  C!Land(m)
<1>1. /\ pc[m] = "land" /\ pc'[m] = "landed" /\ \A k \in Members \ {m} : pc'[k] = pc[k]
      /\ sem'["HACKER"] = sem["HACKER"] /\ sem'["SERF"] = sem["SERF"]
  BY DEF Land, Exit, Goto, Gather, PostAndUnlock, Unlock, CrewInv, TypeInv, TypeOK, Semaphores
<1>2. sem["HACKER"] = 0 /\ sem["SERF"] = 0
  BY <1>1, Present DEF CrewInv, CrossingInv, Open, Boarding, Roles, Landing
<1>3. placeBar[m] = "boat" /\ placeBar' = [placeBar EXCEPT ![m] = "shore"]
  BY <1>1, SeenMove DEF SeenAt
<1> QED
  BY <1>1, <1>2, <1>3 DEF C!Land, C!NoSeats, seatsBar

LEMMA FinishImplements ==
  ASSUME CrewInv, FinishInv, NEW m \in Members, Finish(m)
  PROVE  C!Leave(m)
<1>1. /\ pc[m] = "finish" /\ pc'[m] = "done" /\ \A k \in Members \ {m} : pc'[k] = pc[k]
      /\ sem'["HACKER"] = sem["HACKER"] /\ sem'["SERF"] = sem["SERF"]
  BY DEF Finish, Exit, Goto, Unlock, CrewInv, TypeInv, TypeOK, Semaphores
<1>2. \A k \in Members : pc[k] \in {"ashore", "finish", "done"}
  BY <1>1 DEF FinishInv, LandedForGood
<1>3. \A k \in Members : placeBar[k] \in {"shore", "home"}
  BY <1>2, Seen DEF SeenAt
<1>4. C!At("shore") \cup C!At("home") = Members
  BY <1>3 DEF C!At, C!Members, Members
<1>5. placeBar[m] = "shore" /\ placeBar' = [placeBar EXCEPT ![m] = "home"]
  BY <1>1, SeenMove DEF SeenAt
<1> QED
  BY <1>1, <1>4, <1>5 DEF C!Leave, C!Members, Members, seatsBar

LEMMA CrossingStep ==
  CrewInv /\ FinishInv /\ [Next]_vars => [C!Next]_(C!vars)
<1> SUFFICES ASSUME CrewInv, FinishInv, [Next]_vars
             PROVE  C!Next \/ UNCHANGED <<placeBar, seatsBar>>
  BY DEF C!vars
<1> USE DEF CrewInv, TypeInv, TypeOK, Semaphores, Goto, shared
<1>1. ASSUME NEW m \in Members, Lock(m)
      PROVE  UNCHANGED <<placeBar, seatsBar>>
  BY <1>1 DEF Lock, placeBar, seatsBar
<1>2. ASSUME NEW m \in Members, Fork(m) \/ Start(m) \/ EnterMolo(m)
      PROVE  UNCHANGED <<placeBar, seatsBar>>
  <2>1. /\ pc[m] \in {"unborn", "start", "molo"} /\ pc'[m] \in {"start", "molo", "arrive"}
        /\ \A k \in Members \ {m} : pc'[k] = pc[k]
        /\ sem'["HACKER"] = sem["HACKER"] /\ sem'["SERF"] = sem["SERF"]
    BY <1>2 DEF Fork, Start, EnterMolo, Exit, Pass, Unlock
  <2> QED
    BY ONLY <2>1, m \in Members, Unseen DEF SeenAt
<1>3. ASSUME NEW m \in Members,
             Board(m) \/ Boarded(m) \/ Role(m) \/ Embarked(m) \/ Steer(m) \/ Sail(m)
      PROVE  UNCHANGED <<placeBar, seatsBar>>
  <2>1. /\ pc[m] \in AboardPlaces /\ pc'[m] \in AboardPlaces
        /\ \A k \in Members \ {m} : pc'[k] = pc[k]
        /\ sem'["HACKER"] = sem["HACKER"] /\ sem'["SERF"] = sem["SERF"]
    BY <1>3 DEF Board, Boarded, Role, Embarked, Steer, Sail, Exit, Pass, Gather,
                PostAndUnlock, Unlock, AboardPlaces
  <2> QED
    BY ONLY <2>1, m \in Members, Unseen DEF SeenAt, AboardPlaces
<1>4. ASSUME NEW m \in Members, Landed(m) \/ Ashore(m)
      PROVE  UNCHANGED <<placeBar, seatsBar>>
  <2>1. /\ pc[m] \in {"landed", "ashore"} /\ pc'[m] \in {"ashore", "finish"}
        /\ \A k \in Members \ {m} : pc'[k] = pc[k]
        /\ sem'["HACKER"] = sem["HACKER"] /\ sem'["SERF"] = sem["SERF"]
    BY <1>4 DEF Landed, Ashore, Exit, Pass, PostAndUnlock, Unlock
  <2> QED
    BY ONLY <2>1, m \in Members, Unseen DEF SeenAt
<1>5. ASSUME NEW m \in Members,
             Arrive(m) \/ Group(m) \/ Embark(m) \/ Land(m) \/ Finish(m)
      PROVE  C!Next \/ UNCHANGED <<placeBar, seatsBar>>
  BY ONLY <1>5, CrewInv, FinishInv, ArriveImplements, GroupImplements, EmbarkImplements,
          LandImplements, FinishImplements DEF C!Next, C!Step, C!Members, Members
<1>6. CASE UNCHANGED vars
  BY <1>6 DEF vars, placeBar, seatsBar
<1> QED
  BY <1>1, <1>2, <1>3, <1>4, <1>5, <1>6 DEF Next, Member

\* Every behaviour of the processes that run member(), for any even number of each kind, is
\* a behaviour of the crossing that the program promises.
THEOREM SemaphoresImplement == Spec => ImplementsCrossing
<1>1. Init => C!Init
  BY DEF Init, C!Init, C!Members, C!NoSeats, Members, placeBar, seatsBar, Semaphores
<1>2. CrewInv /\ FinishInv /\ [Next]_vars => [C!Next]_(C!vars)
  BY CrossingStep
<1>3. TypeInv /\ FinishInv /\ [Next]_vars => FinishInv'
  BY FinishInvNext
<1>4. CrewInv => TypeInv
  BY DEF CrewInv
<1>5. CrewInv /\ [Next]_vars => CrewInv'
  BY CrewInvNext
<1> QED
  BY <1>1, <1>2, <1>3, <1>4, <1>5, CrewInvInit, FinishInvInit, PTL
  DEF Spec, ImplementsCrossing

-----------------------------------------------------------------------------
(* The processes around the crossing: the steps.                           *)

\* What a step does to the persons: a step of RiverCrossing, of one person that
\* lives or is just forked, or nothing.
LEMMA PersonsStep == [PNext]_allVars => [Next]_vars
BY DEF PNext, Regular, WayOut, Leader, Live, InitSucceeds, MainForks, InstallChildExit,
       GeneratorForks, GeneratorWaits, GeneratorExits, MainCloses, MainCleans, MainExits,
       PersonHandles, Handles, Cleans, Kills, Reaps, Fails, Interrupt, Next, Kind, Members, Generators, allVars

\* Every behaviour of the processes is one of the persons, so what holds of the
\* crossing holds whoever is killed, and when.
THEOREM ProcessesImplementPersons == PSpec => Spec
BY PersonsStep, PTL DEF PSpec, PInit, Spec

-----------------------------------------------------------------------------
(* The inductive invariant.                                                *)

\* Types, but for the number of cleanups.
ProcTypes ==
  /\ at \in [Leaders -> Over \cup {"init", "fork1", "fork2", "new", "fork",
                                   "wait", "closed", "leave", "clean", "kill",
                                   "reap"}]
  /\ handler \in [Leaders -> {"default", "cleanAndExit", "childExit"}]
  /\ mask \in [Leaders -> SUBSET Signals]
  /\ closed \in [Leaders -> BOOLEAN]
  /\ dead \subseteq Members
  /\ pending \in [Members \cup Leaders -> SUBSET Signals]
  /\ cleanups \in Nat
  /\ failures \in 0..MaxFailures /\ interrupts \in 0..MaxInterrupts

\* main forks each generator once, and closes, cleans up and exits when both are over.
MainInv ==
  /\ at["main"] \in {"init", "fork1"} => at["hackers"] = "none"
  /\ at["main"] \in {"init", "fork1", "fork2"} => at["serfs"] = "none"
  /\ at["main"] \notin {"none", "new", "fork"}
  /\ at["main"] \in {"fork1", "fork2", "wait"} => handler["main"] = "cleanAndExit"
  /\ handler["main"] # "childExit"
  /\ at["main"] \in {"closed", "leave", "exited"} => \A g \in Generators : at[g] \in Over

\* A generator forks only with childExit installed, which waits for the persons: when
\* it is over none of them lives, and an abort can only come before it has forked.
GeneratorInv(g) ==
  /\ at[g] \notin {"init", "fork1", "fork2"}
  /\ at[g] # "none" => handler[g] # "default"
  /\ at[g] \in {"new", "clean"} => handler[g] = "cleanAndExit"
  /\ at[g] = "fork" => handler[g] = "childExit"
  /\ at[g] = "none" \/ handler[g] # "childExit" => \A m \in Kind(g) : pc[m] = "unborn"
  /\ at[g] \in Over => \A m \in Kind(g) : ~Living(m)

\* Main has cleaned up before it kills the group.
RemovedInv == at["main"] \in {"leave", "kill", "reap", "exited", "crashed"} => cleanups > 0

\* Without a failure or an interrupt nobody leaves the regular course, and the only
\* cleanup is main's last step but one.
CalmInv ==
  failures = 0 /\ interrupts = 0 =>
    /\ \A m \in Members : m \notin dead
    /\ \A p \in Members \cup Leaders : pending[p] = {}
    /\ \A p \in Leaders : at[p] \notin {"clean", "kill", "reap", "killed", "crashed"}
    /\ cleanups > 0 => at["main"] \in {"leave", "exited"}

\* How often a process can still run cleanup(): once for a signal that is not blocked
\* yet, and once when it is on the way to it, as main is all along its regular course.
One(p, sig) == IF sig \in mask[p] THEN 0 ELSE 1
Bound(p)    == \/ at[p] = "clean"
               \/ p = "main" /\ at[p] \in {"init", "fork1", "fork2", "wait", "closed"}
Credit(p)   == IF \/ at[p] \in Over \ {"none"}
                  \/ at[p] = "none" /\ at["main"] \notin {"init", "fork1", "fork2"}
               THEN 0
               ELSE One(p, "TERM") + One(p, "INT") + IF Bound(p) THEN 1 ELSE 0
CreditInv   ==
  /\ cleanups + Credit("main") + Credit("hackers") + Credit("serfs") <= 7
  /\ at["main"] \in {"init", "fork1", "fork2", "wait", "closed", "leave"} => mask["main"] = {}
  /\ at["serfs"] = "none" => mask["serfs"] = {}

ProcInv == /\ ProcTypes /\ MainInv /\ \A g \in Generators : GeneratorInv(g)
           /\ RemovedInv /\ CalmInv
IPInv   == TypeInv /\ ProcInv /\ CreditInv

-----------------------------------------------------------------------------
\* Facts about the sets of processes.
LEMMA Sets ==
  /\ Leaders = {"main", "hackers", "serfs"} /\ Generators = {"hackers", "serfs"}
  /\ Over = {"none", "exited", "killed", "crashed"} /\ Signals = {"TERM", "INT"}
  /\ \A m \in Members : \E g \in Generators : m \in Kind(g)
BY DEF Leaders, Generators, Over, Signals, Members, Kind

LEMMA KindsDisjoint ==
  /\ Kind("hackers") = Hackers /\ Kind("serfs") = Serfs
  /\ Kind("hackers") \cap Kind("serfs") = {}
  /\ \A g \in Generators : Kind(g) \subseteq Members
BY Assumption DEF Kind, Members, Generators

LEMMA PInvInit == PInit => IPInv
<1> SUFFICES ASSUME PInit
             PROVE  IPInv
  OBVIOUS
<1> USE DEF PInit
<1>1. TypeInv
  BY TypeInvInit
<1>2. ProcTypes
  BY BoundsAssumption DEF ProcTypes, Leaders, Generators, Over, Signals
<1>3. MainInv /\ RemovedInv /\ CalmInv
  BY DEF MainInv, RemovedInv, CalmInv, Leaders, Generators
<1>4. \A g \in Generators : GeneratorInv(g)
  BY KindsDisjoint DEF GeneratorInv, Generators, Leaders, Living, Init
<1>5. CreditInv
  BY DEF CreditInv, Credit, Bound, One, Leaders, Generators, Over
<1> QED
  BY <1>1, <1>2, <1>3, <1>4, <1>5 DEF IPInv, ProcInv

-----------------------------------------------------------------------------
(* What the steps do.                                                      *)

\* A step of a person: it was forked and not at its end, and it is forked still.
LEMMA MemberMoves ==
  ASSUME TypeInv, NEW m \in Members, Member(m)
  PROVE  /\ pc[m] \notin {"unborn", "done"} /\ pc'[m] # "unborn"
         /\ \A k \in Members \ {m} : pc'[k] = pc[k]
<1> USE DEF TypeInv, TypeOK, Goto
<1>1. CASE Lock(m)
  BY <1>1 DEF Lock, Sections
<1>2. CASE Start(m) \/ Arrive(m) \/ Group(m) \/ Board(m) \/ Role(m) \/ Land(m) \/ Landed(m)
           \/ Finish(m)
  <2>1. PICK from, to : /\ from \in Sections /\ to \notin {"unborn"}
                        /\ pc[m] = from /\ pc' = [pc EXCEPT ![m] = to]
    BY <1>2 DEF Start, Arrive, Group, Board, Role, Land, Landed, Finish, Exit, Sections
  <2> QED
    BY <2>1 DEF Sections
<1>3. CASE EnterMolo(m) \/ Embark(m) \/ Boarded(m) \/ Embarked(m) \/ Sail(m) \/ Ashore(m)
  BY <1>3 DEF EnterMolo, Embark, Boarded, Embarked, Sail, Ashore, Pass
<1>4. CASE Steer(m)
  BY <1>4 DEF Steer
<1> QED
  BY <1>1, <1>2, <1>3, <1>4 DEF Member

\* The handlers never return: they kill the process or lead it to its end.
LEMMA HandlesLeads ==
  ASSUME NEW p, NEW sig, Handles(p, sig),
         handler[p] \in {"default", "cleanAndExit", "childExit"}
  PROVE  \E to : /\ at' = [at EXCEPT ![p] = to]
                 /\ \/ handler[p] = "default" /\ to = "killed"
                    \/ handler[p] = "cleanAndExit" /\ to = "clean"
                    \/ handler[p] = "childExit" /\ to = "kill"
<1>1. CASE handler[p] = "default"
  <2>1. handler[p] # "cleanAndExit" /\ handler[p] # "childExit"
    BY <1>1
  <2> QED
    BY <1>1, <2>1, Zenon DEF Handles, Goes
<1>2. CASE handler[p] = "cleanAndExit"
  <2>1. handler[p] # "default" /\ handler[p] # "childExit"
    BY <1>2
  <2> QED
    BY <1>2, <2>1, Zenon DEF Handles, Goes
<1>3. CASE handler[p] = "childExit"
  <2>1. handler[p] # "default" /\ handler[p] # "cleanAndExit"
    BY <1>3
  <2> QED
    BY <1>3, <2>1, Zenon DEF Handles, Goes
<1> QED
  BY <1>1, <1>2, <1>3

\* killpg reaches nobody who is over, and adds no other signal.
LEMMA SendTypes ==
  ASSUME pending \in [Members \cup Leaders -> SUBSET Signals], NEW sig \in Signals, Send(sig)
  PROVE  pending' \in [Members \cup Leaders -> SUBSET Signals]
BY Sets DEF Send

LEMMA ProcTypesNext == ProcTypes /\ [PNext]_allVars => ProcTypes'
<1> SUFFICES ASSUME ProcTypes, [PNext]_allVars
             PROVE  ProcTypes'
  OBVIOUS
<1> USE DEF ProcTypes, Goes, Rest, procVars
<1>1. ASSUME NEW m \in Members, Live(m) \/ PersonHandles(m)
      PROVE  ProcTypes'
  BY <1>1, SendTypes, Sets DEF Live, PersonHandles
<1>2. CASE \/ InitSucceeds \/ MainForks("fork1", "hackers", "fork2")
           \/ MainForks("fork2", "serfs", "wait")
           \/ MainCloses \/ MainCleans \/ MainExits
  <2>1. CASE InitSucceeds
    BY <2>1, Sets DEF InitSucceeds
  <2>2. CASE MainForks("fork1", "hackers", "fork2") \/ MainForks("fork2", "serfs", "wait")
    BY <2>2, Sets DEF MainForks
  <2>3. CASE MainCloses
    BY <2>3, Sets DEF MainCloses
  <2>4. CASE MainCleans
    BY <2>4, Sets DEF MainCleans, Cleanup
  <2>5. CASE MainExits
    BY <2>5, Sets DEF MainExits
  <2> QED
    BY <1>2, <2>1, <2>2, <2>3, <2>4, <2>5
<1>3. ASSUME NEW g \in Generators, InstallChildExit(g) \/ GeneratorForks(g)
                                   \/ GeneratorWaits(g) \/ GeneratorExits(g)
      PROVE  ProcTypes'
  BY <1>3, Sets DEF InstallChildExit, GeneratorForks, GeneratorWaits, GeneratorExits
<1>4. ASSUME NEW p \in Leaders, NEW sig \in Signals, Handles(p, sig)
      PROVE  ProcTypes'
  <2>1. PICK to \in {"killed", "clean", "kill"} : at' = [at EXCEPT ![p] = to]
    BY <1>4, HandlesLeads
  <2>2. at' \in [Leaders -> Over \cup {"init", "fork1", "fork2", "new", "fork",
                                       "wait", "closed", "leave", "clean", "kill",
                                       "reap"}]
    BY <2>1, Sets
  <2>3. /\ mask' = [mask EXCEPT ![p] = @ \cup {sig}]
        /\ pending' = [pending EXCEPT ![p] = @ \ {sig}]
        /\ UNCHANGED <<handler, closed, dead, cleanups, failures, interrupts>>
    BY <1>4, Zenon DEF Handles
  <2> QED
    BY <2>2, <2>3
<1>5. ASSUME NEW p \in Leaders, Cleans(p)
      PROVE  ProcTypes'
  <2>1. PICK to \in {"kill", "crashed"} : at' = [at EXCEPT ![p] = to]
    BY <1>5 DEF Cleans
  <2>2. /\ closed' = [closed EXCEPT ![p] = TRUE] /\ cleanups' = cleanups + 1
        /\ UNCHANGED <<handler, mask, dead, pending, failures, interrupts>>
    BY <1>5, Zenon DEF Cleans, Cleanup
  <2> QED
    BY <2>1, <2>2, Sets
<1>9. ASSUME NEW p \in Leaders, Kills(p) \/ Reaps(p)
      PROVE  ProcTypes'
  BY <1>9, SendTypes, Sets DEF Kills, Reaps
<1>6. CASE Interrupt
  BY <1>6, SendTypes, Sets, BoundsAssumption DEF Interrupt
<1>7. ASSUME NEW p \in Leaders, Fails(p)
      PROVE  ProcTypes'
  BY <1>7, Sets, BoundsAssumption DEF Fails
<1>8. CASE UNCHANGED allVars
  BY <1>8 DEF allVars
<1> QED
  BY <1>1, <1>2, <1>3, <1>4, <1>5, <1>6, <1>7, <1>8, <1>9 DEF PNext, Regular, WayOut, Leader

-----------------------------------------------------------------------------
(* The steps of the invariant.                                             *)

\* A generator that does not move, and whose persons are not forked or revived.
LEMMA GeneratorStays ==
  ASSUME NEW g \in Generators, GeneratorInv(g), at'[g] = at[g], handler'[g] = handler[g],
         \A m \in Kind(g) : /\ pc[m] = "unborn" => pc'[m] = "unborn"
                            /\ ~Living(m) => ~Living(m)'
  PROVE  GeneratorInv(g)'
<1>1. at[g] \in Over => \A m \in Kind(g) : ~Living(m)'
  BY DEF GeneratorInv
<1>2. Kind(g)' = Kind(g) /\ Over' = Over
  BY DEF Kind, Over
<1> QED
  BY <1>1, <1>2, Zenon DEF GeneratorInv

\* A step of a person, or its end by a signal.
LEMMA PersonKeeps ==
  ASSUME TypeInv, ProcInv, NEW m \in Members, Live(m) \/ PersonHandles(m)
  PROVE  MainInv' /\ RemovedInv' /\ CalmInv' /\ \A g \in Generators : GeneratorInv(g)'
<1>1. UNCHANGED <<at, handler, cleanups, failures, interrupts>>
  BY DEF Live, PersonHandles, procVars
<1>2. MainInv' /\ RemovedInv'
  BY <1>1 DEF ProcInv, MainInv, RemovedInv
<1>3. CalmInv'
  <2>1. CASE Live(m)
    BY <2>1 DEF Live, procVars, ProcInv, CalmInv
  <2>2. CASE PersonHandles(m)
    BY <1>1, <2>2 DEF PersonHandles, Quiet, ProcInv, CalmInv
  <2> QED
    BY <2>1, <2>2
<1>4. \A g \in Generators : GeneratorInv(g)'
  <2> SUFFICES ASSUME NEW g \in Generators
               PROVE  GeneratorInv(g)'
    OBVIOUS
  <2>1. \A k \in Kind(g) : /\ pc[k] = "unborn" => pc'[k] = "unborn"
                           /\ ~Living(k) => ~Living(k)'
    <3>1. CASE Live(m)
      BY <3>1, MemberMoves, KindsDisjoint DEF Live, Living, procVars
    <3>2. CASE PersonHandles(m)
      BY <3>2 DEF PersonHandles, Living, vars
    <3> QED
      BY <3>1, <3>2
  <2> QED
    BY <1>1, <2>1, GeneratorStays DEF ProcInv
<1> QED
  BY <1>2, <1>3, <1>4

\* A step of main or of a generator that forks no person: nobody is revived.
LEMMA LeaderKeeps ==
  ASSUME ProcInv, UNCHANGED <<pc, dead>>, NEW g \in Generators,
         at'[g] = at[g], handler'[g] = handler[g]
  PROVE  GeneratorInv(g)'
BY GeneratorStays DEF ProcInv, Living

\* main's regular steps.
LEMMA MainKeeps ==
  ASSUME TypeInv, ProcInv,
         \/ InitSucceeds \/ MainForks("fork1", "hackers", "fork2")
         \/ MainForks("fork2", "serfs", "wait") \/ MainCloses \/ MainCleans \/ MainExits
  PROVE  MainInv' /\ RemovedInv' /\ CalmInv' /\ \A g \in Generators : GeneratorInv(g)'
<1> USE Sets DEF ProcInv, ProcTypes, Goes, Rest, vars
<1>1. CASE InitSucceeds
  <2>1. /\ at["main"] = "init" /\ at' = [at EXCEPT !["main"] = "fork1"]
        /\ handler' = [handler EXCEPT !["main"] = "cleanAndExit"]
        /\ UNCHANGED <<pc, dead, pending, cleanups, failures, interrupts>>
    BY <1>1 DEF InitSucceeds
  <2>2. \A g \in Generators : GeneratorInv(g)'
    BY <2>1, LeaderKeeps
  <2>3. MainInv' /\ RemovedInv' /\ CalmInv'
    BY <2>1 DEF MainInv, RemovedInv, CalmInv
  <2> QED
    BY <2>2, <2>3
<1>2. ASSUME NEW from \in {"fork1", "fork2"}, NEW h \in Generators, NEW to \in {"fork2", "wait"},
             MainForks(from, h, to),
             from = "fork1" => h = "hackers" /\ to = "fork2",
             from = "fork2" => h = "serfs" /\ to = "wait"
      PROVE  MainInv' /\ RemovedInv' /\ CalmInv' /\ \A g \in Generators : GeneratorInv(g)'
  <2>1. /\ at["main"] = from /\ at' = [at EXCEPT !["main"] = to, ![h] = "new"]
        /\ handler' = [handler EXCEPT ![h] = handler["main"]]
        /\ UNCHANGED <<pc, dead, pending, cleanups, failures, interrupts>>
    BY <1>2 DEF MainForks
  <2>2. at[h] = "none" /\ handler["main"] = "cleanAndExit"
    BY <1>2, <2>1 DEF MainInv
  <2>3. GeneratorInv(h)'
    BY <2>1, <2>2 DEF GeneratorInv, Kind
  <2>4. \A g \in Generators \ {h} : GeneratorInv(g)'
    BY <2>1, LeaderKeeps
  <2>5. MainInv' /\ RemovedInv' /\ CalmInv'
    BY <1>2, <2>1 DEF MainInv, RemovedInv, CalmInv
  <2> QED
    BY <2>3, <2>4, <2>5
<1>3. CASE MainCloses \/ MainCleans \/ MainExits
  <2>1. PICK to \in {"closed", "leave", "exited"} :
          /\ at' = [at EXCEPT !["main"] = to]
          /\ at["main"] \in {"wait", "closed", "leave"}
          /\ \A g \in Generators : at[g] \in Over
          /\ to \in {"leave", "exited"} => cleanups' > 0
          /\ to = "closed" => at["main"] = "wait" /\ cleanups' = cleanups
          /\ UNCHANGED <<pc, dead, handler, pending, failures, interrupts>>
    <3>1. CASE MainCloses
      BY <3>1 DEF MainCloses, ChildrenOver
    <3>2. CASE MainCleans
      BY <3>2 DEF MainCleans, MainInv, Cleanup
    <3>3. CASE MainExits
      BY <3>3 DEF MainExits, MainInv, RemovedInv
    <3> QED
      BY <1>3, <3>1, <3>2, <3>3
  <2>2. \A g \in Generators : GeneratorInv(g)'
    BY <2>1, LeaderKeeps
  <2>3. at'["main"] = to /\ \A g \in Generators : at'[g] = at[g]
    BY <2>1
  <2>4. MainInv'
    BY <2>1, <2>3 DEF MainInv
  <2>5. RemovedInv'
    BY <2>1, <2>3 DEF RemovedInv
  <2>6. CalmInv'
    <3>1. \A p \in Leaders : at'[p] = IF p = "main" THEN to ELSE at[p]
      BY <2>1
    <3> QED
      BY <2>1, <2>3, <3>1 DEF CalmInv
  <2> QED
    BY <2>2, <2>4, <2>5, <2>6
<1> QED
  BY <1>1, <1>2, <1>3

\* A generator's regular steps.
LEMMA GeneratorKeeps ==
  ASSUME TypeInv, ProcInv, NEW h \in Generators,
         \/ InstallChildExit(h) \/ GeneratorForks(h) \/ GeneratorWaits(h) \/ GeneratorExits(h)
  PROVE  MainInv' /\ RemovedInv' /\ CalmInv' /\ \A g \in Generators : GeneratorInv(g)'
<1> USE Sets DEF ProcInv, ProcTypes, Goes, Rest, vars
<1>1. CASE GeneratorForks(h)
  <2>1. PICK m \in Kind(h) : Fork(m)
    BY <1>1 DEF GeneratorForks
  <2>2. /\ pc[m] = "unborn" /\ pc' = [pc EXCEPT ![m] = "start"]
        /\ at[h] = "fork"
        /\ UNCHANGED <<at, handler, dead, pending, cleanups, failures, interrupts>>
    BY <1>1, <2>1 DEF GeneratorForks, Fork, Goto, procVars
  <2>3. GeneratorInv(h)'
    BY <2>2 DEF GeneratorInv, Kind
  <2>4. ASSUME NEW g \in Generators \ {h}
        PROVE  GeneratorInv(g)'
    <3>1. m \notin Kind(g)
      BY KindsDisjoint
    <3>2. \A k \in Kind(g) : pc'[k] = pc[k]
      BY <2>2, <3>1
    <3> QED
      BY <2>2, <3>2, GeneratorStays DEF Living
  <2>5. MainInv' /\ RemovedInv' /\ CalmInv'
    BY <2>2 DEF MainInv, RemovedInv, CalmInv
  <2> QED
    BY <2>3, <2>4, <2>5
<1>2. CASE InstallChildExit(h) \/ GeneratorWaits(h) \/ GeneratorExits(h)
  <2>1. PICK to \in {"fork", "wait", "exited"} :
          /\ at' = [at EXCEPT ![h] = to]
          /\ to = "fork" => /\ at[h] = "new"
                            /\ handler' = [handler EXCEPT ![h] = "childExit"]
          /\ to # "fork" => at[h] \in {"fork", "wait"} /\ UNCHANGED handler
          /\ to = "exited" => \A m \in Kind(h) : ~Living(m)
          /\ UNCHANGED <<pc, dead, pending, cleanups, failures, interrupts>>
    <3>1. CASE InstallChildExit(h)
      BY <3>1 DEF InstallChildExit
    <3>2. CASE GeneratorWaits(h)
      BY <3>2 DEF GeneratorWaits
    <3>3. CASE GeneratorExits(h)
      BY <3>3 DEF GeneratorExits, ChildrenOver
    <3> QED
      BY <1>2, <3>1, <3>2, <3>3
  <2>2. GeneratorInv(h)'
    BY <2>1 DEF GeneratorInv, Kind, Living
  <2>3. \A g \in Generators \ {h} : GeneratorInv(g)'
    <3>1. \A g \in Generators \ {h} : at'[g] = at[g] /\ handler'[g] = handler[g]
      BY <2>1
    <3> QED
      BY <2>1, <3>1, LeaderKeeps
  <2>4. at[h] \notin Over /\ at'["main"] = at["main"] /\ handler'["main"] = handler["main"]
    BY <2>1
  <2>5. MainInv' /\ RemovedInv' /\ CalmInv'
    BY <2>1, <2>4 DEF MainInv, RemovedInv, CalmInv
  <2> QED
    BY <2>2, <2>3, <2>5
<1> QED
  BY <1>1, <1>2

\* What a signal's handler, the way out or a failure does to main or a generator.
LEMMA WayOutKeeps ==
  ASSUME TypeInv, ProcInv, NEW p \in Leaders,
         (\E sig \in Signals : Handles(p, sig)) \/ Cleans(p) \/ Kills(p) \/ Reaps(p) \/ Fails(p)
  PROVE  MainInv' /\ RemovedInv' /\ CalmInv' /\ \A g \in Generators : GeneratorInv(g)'
<1> USE Sets DEF ProcInv, ProcTypes
<1>1. PICK to \in {"killed", "clean", "kill", "crashed", "reap", "exited"} :
        /\ at' = [at EXCEPT ![p] = to]
        /\ at[p] \notin Over
        /\ to = "killed" => handler[p] = "default"
        /\ to = "clean" => \/ handler[p] = "cleanAndExit"
                           \/ at[p] \in {"init", "fork1", "fork2"}
        /\ to = "kill" => at[p] \in {"fork", "clean"} \/ handler[p] = "childExit"
        /\ to = "crashed" => at[p] = "clean"
        /\ to = "reap" => at[p] = "kill"
        /\ to = "exited" => at[p] = "reap" /\ ChildrenOver(p)
        /\ at[p] = "clean" /\ to \in {"kill", "crashed"} =>
             handler[p] = "childExit" \/ cleanups' > 0
  <2>1. ASSUME NEW sig \in Signals, Handles(p, sig)
        PROVE  \E to \in {"killed", "clean", "kill"} :
                 /\ at' = [at EXCEPT ![p] = to]
                 /\ at[p] \notin Over
                 /\ to = "killed" => handler[p] = "default"
                 /\ to = "clean" => handler[p] = "cleanAndExit"
                 /\ to = "kill" => handler[p] = "childExit"
    <3>1. at[p] \notin Over
      BY <2>1, Zenon DEF Handles
    <3> QED
      BY <2>1, <3>1, HandlesLeads
  <2>2. CASE Cleans(p)
    BY <2>2 DEF Cleans, Cleanup, Goes
  <2>3. CASE Kills(p)
    BY <2>3 DEF Kills, Goes
  <2>4. CASE Reaps(p)
    BY <2>4 DEF Reaps, Goes
  <2>5. CASE Fails(p)
    BY <2>5 DEF Fails, Goes
  <2> QED
    BY <2>1, <2>2, <2>3, <2>4, <2>5
<1>2. UNCHANGED <<pc, dead, handler>>
  <2>1. ASSUME NEW sig \in Signals, Handles(p, sig)
        PROVE  UNCHANGED <<pc, dead, handler>>
    BY <2>1, Zenon DEF Handles, vars
  <2> QED
    BY <2>1 DEF Cleans, Kills, Reaps, Fails, vars, Rest
<1>3. cleanups' \in Nat /\ cleanups' >= cleanups
  <2>1. ASSUME NEW sig \in Signals, Handles(p, sig)
        PROVE  cleanups' = cleanups
    BY <2>1, Zenon DEF Handles
  <2> QED
    BY <2>1 DEF Cleans, Cleanup, Kills, Reaps, Fails, Rest
<1>4. ~(failures' = 0 /\ interrupts' = 0)
  <2>1. ASSUME NEW sig \in Signals, Handles(p, sig)
        PROVE  ~(failures' = 0 /\ interrupts' = 0)
    <3>1. pending[p] # {} /\ failures' = failures /\ interrupts' = interrupts
      BY <2>1, Zenon DEF Handles
    <3> QED
      BY <3>1 DEF CalmInv
  <2>2. CASE Cleans(p) \/ Kills(p) \/ Reaps(p)
    BY <2>2 DEF Cleans, Kills, Reaps, Rest, CalmInv
  <2>3. CASE Fails(p)
    BY <2>3 DEF Fails
  <2> QED
    BY <2>1, <2>2, <2>3
<1>5. CalmInv'
  BY <1>4 DEF CalmInv
<1>6. \A g \in Generators \ {p} : GeneratorInv(g)'
  <2>1. \A g \in Generators \ {p} : at'[g] = at[g] /\ handler'[g] = handler[g]
    BY <1>1, <1>2
  <2> QED
    BY <1>2, <2>1, LeaderKeeps
<1>7. ASSUME p \in Generators
      PROVE  GeneratorInv(p)'
  <2>1. GeneratorInv(p) /\ p # "main"
    BY <1>7
  <2>2. to = "exited" \/ to = "crashed" => \A m \in Kind(p) : ~Living(m)
    BY <1>1, <2>1 DEF GeneratorInv, ChildrenOver, Living
  <2>3. at'[p] = to /\ handler'[p] = handler[p]
    BY <1>1, <1>2
  <2> QED
    BY <1>1, <1>2, <2>1, <2>2, <2>3 DEF GeneratorInv, Kind, Living
<1>8. MainInv'
  <2>1. CASE p = "main"
    <3>1. at'["main"] = to /\ \A g \in Generators : at'[g] = at[g]
      BY <1>1, <2>1
    <3>2. to = "exited" => \A g \in Generators : at[g] \in Over
      BY <1>1, <2>1 DEF ChildrenOver
    <3> QED
      BY <1>1, <1>2, <3>1, <3>2 DEF MainInv
  <2>2. CASE p # "main"
    <3>1. at'["main"] = at["main"] /\ \A g \in Generators \ {p} : at'[g] = at[g]
      BY <1>1, <2>2
    <3>2. at["main"] \notin {"closed", "leave", "exited"} /\ p \in Generators
      BY <1>1, <2>2 DEF MainInv
    <3> QED
      BY <1>1, <1>2, <3>1, <3>2 DEF MainInv
  <2> QED
    BY <2>1, <2>2
<1>9. RemovedInv'
  <2>1. CASE p = "main"
    <3>1. at'["main"] = to /\ handler["main"] # "childExit" /\ at["main"] # "fork"
      BY <1>1, <2>1 DEF MainInv
    <3> QED
      BY <1>1, <1>3, <2>1, <3>1 DEF RemovedInv
  <2>2. CASE p # "main"
    <3>1. at'["main"] = at["main"]
      BY <1>1, <2>2
    <3> QED
      BY <1>3, <3>1 DEF RemovedInv
  <2> QED
    BY <2>1, <2>2
<1> QED
  BY <1>5, <1>6, <1>7, <1>8, <1>9

LEMMA ProcInvNext == TypeInv /\ ProcInv /\ [PNext]_allVars => ProcInv'
<1> SUFFICES ASSUME TypeInv, ProcInv, [PNext]_allVars
             PROVE  ProcInv'
  OBVIOUS
<1> DEFINE Kept == MainInv' /\ RemovedInv' /\ CalmInv' /\ \A g \in Generators : GeneratorInv(g)'
<1>1. ProcTypes'
  BY ProcTypesNext DEF ProcInv
<1>2. CASE Interrupt
  <2>1. /\ UNCHANGED <<pc, dead, at, handler, cleanups>>
        /\ interrupts' = interrupts + 1
    BY <1>2 DEF Interrupt, vars
  <2>2. \A g \in Generators : GeneratorInv(g)'
    BY <2>1, LeaderKeeps
  <2>3. MainInv' /\ RemovedInv' /\ CalmInv'
    BY <2>1, BoundsAssumption DEF ProcInv, ProcTypes, MainInv, RemovedInv, CalmInv
  <2> QED
    BY <1>1, <2>2, <2>3 DEF ProcInv
<1>3. CASE UNCHANGED allVars
  <2>1. UNCHANGED <<pc, dead, at, handler, pending, cleanups, failures, interrupts>>
    BY <1>3 DEF allVars, procVars, vars
  <2>2. \A g \in Generators : GeneratorInv(g)'
    BY <2>1, LeaderKeeps
  <2>3. MainInv' /\ RemovedInv' /\ CalmInv'
    BY <2>1 DEF ProcInv, MainInv, RemovedInv, CalmInv
  <2> QED
    BY <1>1, <2>2, <2>3 DEF ProcInv
<1>4. ASSUME NEW m \in Members, Live(m) \/ PersonHandles(m)
      PROVE  Kept
  BY <1>4, PersonKeeps
<1>5. ASSUME \/ InitSucceeds \/ MainForks("fork1", "hackers", "fork2")
             \/ MainForks("fork2", "serfs", "wait") \/ MainCloses \/ MainCleans \/ MainExits
      PROVE  Kept
  BY <1>5, MainKeeps
<1>6. ASSUME NEW g \in Generators, \/ InstallChildExit(g) \/ GeneratorForks(g)
                                   \/ GeneratorWaits(g) \/ GeneratorExits(g)
      PROVE  Kept
  BY <1>6, GeneratorKeeps
<1>7. ASSUME NEW p \in Leaders, Leader(p) \/ Fails(p)
      PROVE  Kept
  BY <1>7, WayOutKeeps DEF Leader
<1>8. Kept => ProcInv'
  BY <1>1, Zenon DEF ProcInv
<1> HIDE DEF Kept
<1> QED
  BY <1>2, <1>3, <1>4, <1>5, <1>6, <1>7, <1>8 DEF PNext, Regular, WayOut

-----------------------------------------------------------------------------
(* How often cleanup() runs.                                               *)

LEMMA CreditType ==
  /\ \A p : Credit(p) \in 0..3
  /\ \A p : Credit(p)' \in 0..3
BY DEF Credit, Bound, One

\* A process that is not over goes on: a place on the way to cleanup() costs a signal,
\* and cleanup() costs the place.
LEMMA CreditMove ==
  ASSUME ProcTypes, MainInv, CreditInv, NEW p \in Leaders, NEW to,
         at[p] \notin Over, at' = [at EXCEPT ![p] = to],
         \A q \in Leaders \ {p} : mask'[q] = mask[q],
         mask[p] \subseteq mask'[p],
         to \notin {"none", "init", "fork1", "fork2", "wait", "closed", "leave"},
         \/ to # "clean" /\ cleanups' = cleanups
         \/ /\ to = "clean" /\ cleanups' = cleanups
            /\ \E sig \in Signals : sig \notin mask[p] /\ sig \in mask'[p]
         \/ at[p] = "clean" /\ to # "clean" /\ cleanups' = cleanups + 1
  PROVE  CreditInv'
<1> USE Sets DEF ProcTypes
<1>1. \A q \in Leaders \ {p} : at'[q] = at[q] /\ mask'[q] = mask[q]
  OBVIOUS
<1>2. at'[p] = to
  OBVIOUS
<1>3. \A q \in Leaders \ {p} : Credit(q)' <= Credit(q)
  <2> SUFFICES ASSUME NEW q \in Leaders \ {p}
               PROVE  Credit(q)' <= Credit(q)
    OBVIOUS
  <2>1. at'["main"] \in {"init", "fork1", "fork2"} => at["main"] = at'["main"]
    BY <1>1, <1>2
  <2>2. One(q, "TERM")' = One(q, "TERM") /\ One(q, "INT")' = One(q, "INT")
    BY <1>1 DEF One
  <2>3. /\ One(q, "TERM") \in 0..1 /\ One(q, "INT") \in 0..1
    BY DEF One
  <2> HIDE DEF One
  <2> QED
    BY <1>1, <2>1, <2>2, <2>3 DEF Credit, Bound
<1>4. cleanups' + Credit(p)' <= cleanups + Credit(p)
  <2>1. Credit(p) >= One(p, "TERM") + One(p, "INT") + IF at[p] = "clean" THEN 1 ELSE 0
    BY DEF Credit, Bound, One
  <2>2. Credit(p)' <= One(p, "TERM")' + One(p, "INT")' + IF to = "clean" THEN 1 ELSE 0
    BY <1>2 DEF Credit, Bound, One
  <2>3. /\ One(p, "TERM")' <= One(p, "TERM") /\ One(p, "INT")' <= One(p, "INT")
        /\ One(p, "TERM") \in 0..1 /\ One(p, "INT") \in 0..1
        /\ One(p, "TERM")' \in 0..1 /\ One(p, "INT")' \in 0..1
    BY DEF One
  <2>4. (\E sig \in Signals : sig \notin mask[p] /\ sig \in mask'[p]) =>
          One(p, "TERM")' + One(p, "INT")' + 1 <= One(p, "TERM") + One(p, "INT")
    BY DEF One
  <2>5. Credit(p) \in 0..3 /\ Credit(p)' \in 0..3
    BY CreditType
  <2> HIDE DEF One
  <2> QED
    BY <2>1, <2>2, <2>3, <2>4, <2>5
<1>5. cleanups' \in Nat
  OBVIOUS
<1>6. cleanups' + Credit("main")' + Credit("hackers")' + Credit("serfs")' <= 7
  <2>1. cleanups + Credit("main") + Credit("hackers") + Credit("serfs") <= 7
    BY DEF CreditInv
  <2>2. /\ Credit("main") \in Nat /\ Credit("hackers") \in Nat /\ Credit("serfs") \in Nat
        /\ Credit("main")' \in Nat /\ Credit("hackers")' \in Nat /\ Credit("serfs")' \in Nat
    BY CreditType
  <2> HIDE DEF Credit, CreditInv
  <2>3. CASE p = "main"
    BY <1>3, <1>4, <1>5, <2>1, <2>2, <2>3
  <2>4. CASE p = "hackers"
    BY <1>3, <1>4, <1>5, <2>1, <2>2, <2>4
  <2>5. CASE p = "serfs"
    BY <1>3, <1>4, <1>5, <2>1, <2>2, <2>5
  <2> QED
    BY <2>3, <2>4, <2>5
<1>7. /\ at'["main"] \in {"init", "fork1", "fork2", "wait"} => mask'["main"] = {}
      /\ at'["serfs"] = "none" => mask'["serfs"] = {}
  BY <1>1, <1>2 DEF CreditInv
<1> QED
  BY <1>6, <1>7 DEF CreditInv

\* main's regular steps, and its failure before it has forked both generators: the
\* generator that is missing will not run cleanup().
LEMMA CreditMain ==
  ASSUME ProcInv, CreditInv,
         \/ InitSucceeds \/ MainForks("fork1", "hackers", "fork2")
         \/ MainForks("fork2", "serfs", "wait") \/ MainCloses \/ MainCleans \/ MainExits
         \/ Fails("main")
  PROVE  CreditInv'
<1> USE Sets DEF ProcInv, ProcTypes
<1>1. mask' = mask
  BY DEF InitSucceeds, MainForks, MainCloses, MainCleans, MainExits, Fails, Rest
<1>2. /\ at["main"] \in {"init", "fork1", "fork2", "wait", "closed", "leave"}
      /\ mask["main"] = {}
  BY DEF InitSucceeds, MainForks, MainCloses, MainCleans, MainExits, Fails, MainInv, CreditInv
<1>3. at'["main"] # "init" /\ (at'["serfs"] = "none" => at["serfs"] = "none")
  BY DEF InitSucceeds, MainForks, MainCloses, MainCleans, MainExits, Fails, MainInv, Goes
<1>4. cleanups' + Credit("main")' + Credit("hackers")' + Credit("serfs")' <= 7
  <2>0. cleanups + Credit("main") + Credit("hackers") + Credit("serfs") <= 7
    BY DEF CreditInv
  <2>1. CASE InitSucceeds
    BY <2>0, <2>1 DEF InitSucceeds, Goes, Rest, Credit, Bound, One
  <2>2. CASE MainForks("fork1", "hackers", "fork2")
    BY <2>0, <2>2 DEF MainForks, MainInv, Goes, Rest, Credit, Bound, One
  <2>3. CASE MainForks("fork2", "serfs", "wait")
    BY <2>0, <2>3 DEF MainForks, MainInv, Goes, Rest, Credit, Bound, One
  <2>4. CASE MainCloses \/ MainCleans \/ MainExits
    <3>1. \A g \in Generators : at'[g] = at[g] /\ at[g] \in Over
      BY <2>4 DEF MainCloses, MainCleans, MainExits, MainInv, Goes, ChildrenOver
    <3>2. Credit("hackers")' = 0 /\ Credit("serfs")' = 0 /\ Credit("hackers") \in Nat
          /\ Credit("serfs") \in Nat
      <4>1. at'["main"] \notin {"init", "fork1", "fork2"}
        BY <2>4 DEF MainCloses, MainCleans, MainExits, Goes
      <4> QED
        BY <3>1, <4>1, CreditType DEF Credit
    <3>3. cleanups' + Credit("main")' <= cleanups + Credit("main")
      <4>1. CASE MainCloses
        BY <1>2, <4>1 DEF MainCloses, Goes, Credit, Bound, One
      <4>2. CASE MainCleans
        BY <1>2, <4>2 DEF MainCleans, Cleanup, Goes, Credit, Bound, One
      <4>3. CASE MainExits
        BY <1>2, <4>3 DEF MainExits, Goes, Rest, Credit, Bound, One
      <4> QED
        BY <2>4, <4>1, <4>2, <4>3
    <3>4. Credit("main") \in Nat /\ Credit("main")' \in Nat /\ cleanups' \in Nat
      BY <2>4, CreditType DEF MainCloses, MainCleans, MainExits, Cleanup, Rest
    <3> HIDE DEF Credit
    <3> QED
      BY <2>0, <3>2, <3>3, <3>4
  <2>5. CASE Fails("main")
    <3>1. at["main"] \in {"init", "fork1", "fork2"} /\ at' = [at EXCEPT !["main"] = "clean"]
          /\ mask' = mask /\ cleanups' = cleanups
      BY <2>5 DEF Fails, MainInv, Goes
    <3>2. at["serfs"] = "none" /\ mask["serfs"] = {}
      BY <3>1 DEF MainInv, CreditInv
    <3> QED
      BY <1>2, <2>0, <3>1, <3>2 DEF Credit, Bound, One
  <2> QED
    BY <2>1, <2>2, <2>3, <2>4, <2>5
<1> QED
  BY <1>1, <1>2, <1>3, <1>4 DEF CreditInv

LEMMA CreditInvNext == ProcInv /\ CreditInv /\ [PNext]_allVars => CreditInv'
<1> SUFFICES ASSUME ProcInv, CreditInv, [PNext]_allVars
             PROVE  CreditInv'
  OBVIOUS
<1>0. ProcTypes /\ MainInv
  BY DEF ProcInv
<1>1. ASSUME UNCHANGED <<at, mask, cleanups>>
      PROVE  CreditInv'
  BY <1>1 DEF CreditInv, Credit, Bound, One
<1>2. ASSUME NEW m \in Members, Live(m) \/ PersonHandles(m)
      PROVE  CreditInv'
  BY <1>1, <1>2 DEF Live, PersonHandles, procVars
<1>3. CASE Interrupt \/ UNCHANGED allVars
  BY <1>1, <1>3 DEF Interrupt, allVars, procVars
<1>4. ASSUME NEW g \in Generators, \/ InstallChildExit(g) \/ GeneratorForks(g)
                                   \/ GeneratorWaits(g) \/ GeneratorExits(g)
      PROVE  CreditInv'
  <2>1. CASE GeneratorForks(g)
    BY <1>1, <2>1 DEF GeneratorForks, procVars
  <2>2. CASE InstallChildExit(g)
    BY <1>0, <2>2, CreditMove, Sets DEF InstallChildExit, Goes, Rest
  <2>3. CASE GeneratorWaits(g)
    <3>1. at[g] = "fork" /\ at' = [at EXCEPT ![g] = "wait"] /\ g # "main"
          /\ UNCHANGED <<mask, cleanups>>
      BY <2>3, Sets DEF GeneratorWaits, Goes, Rest
    <3>2. Credit("main")' = Credit("main") /\ Credit("hackers")' = Credit("hackers")
          /\ Credit("serfs")' = Credit("serfs")
      BY <1>0, <3>1, Sets DEF Credit, Bound, One, ProcTypes
    <3> QED
      BY <1>0, <3>1, <3>2, Sets DEF CreditInv, ProcTypes
  <2>4. CASE GeneratorExits(g)
    BY <1>0, <2>4, CreditMove, Sets DEF GeneratorExits, Goes, Rest
  <2> QED
    BY <1>4, <2>1, <2>2, <2>3, <2>4
<1>5. ASSUME NEW p \in Leaders, NEW sig \in Signals, Handles(p, sig)
      PROVE  CreditInv'
  <2>1. PICK to \in {"killed", "clean", "kill"} : at' = [at EXCEPT ![p] = to]
    BY <1>0, <1>5, HandlesLeads DEF ProcTypes
  <2>2. /\ mask' = [mask EXCEPT ![p] = @ \cup {sig}]
        /\ at[p] \notin Over /\ sig \notin mask[p] /\ cleanups' = cleanups
    BY <1>5, Zenon DEF Handles
  <2>3. sig \notin mask[p] /\ sig \in mask'[p] /\ mask[p] \subseteq mask'[p]
        /\ \A q \in Leaders \ {p} : mask'[q] = mask[q]
    BY <1>0, <2>2 DEF ProcTypes
  <2> QED
    BY <1>0, <2>1, <2>2, <2>3, CreditMove
<1>6. ASSUME NEW p \in Leaders, Cleans(p)
      PROVE  CreditInv'
  <2>1. PICK to \in {"kill", "crashed"} : at' = [at EXCEPT ![p] = to]
    BY <1>6 DEF Cleans, Goes
  <2>2. at[p] = "clean" /\ cleanups' = cleanups + 1 /\ mask' = mask
    BY <1>6, Zenon DEF Cleans, Cleanup
  <2> QED
    BY <1>0, <2>1, <2>2, CreditMove, Sets
<1>7. ASSUME NEW p \in Leaders, Kills(p) \/ Reaps(p)
      PROVE  CreditInv'
  BY <1>0, <1>7, CreditMove, Sets DEF Kills, Reaps, Goes, Rest
<1>8. ASSUME NEW g \in Generators, Fails(g)
      PROVE  CreditInv'
  <2>1. at[g] = "fork" /\ at' = [at EXCEPT ![g] = "kill"]
        /\ UNCHANGED <<mask, cleanups>>
    BY <1>8 DEF Fails, Goes, ProcInv, GeneratorInv
  <2> QED
    BY <1>0, <2>1, CreditMove, Sets
<1>9. ASSUME \/ InitSucceeds \/ MainForks("fork1", "hackers", "fork2")
             \/ MainForks("fork2", "serfs", "wait") \/ MainCloses \/ MainCleans \/ MainExits
      PROVE  CreditInv'
  BY <1>9, CreditMain
<1>10. ASSUME NEW p \in Leaders, Fails(p)
       PROVE  CreditInv'
  BY <1>8, <1>10, CreditMain, Sets
<1> QED
  BY <1>2, <1>3, <1>4, <1>5, <1>6, <1>7, <1>9, <1>10 DEF PNext, Regular, WayOut, Leader

-----------------------------------------------------------------------------
(* The theorems of the processes.                                          *)

LEMMA IPInvNext == IPInv /\ [PNext]_allVars => IPInv'
BY PersonsStep, TypeInvNext, ProcInvNext, CreditInvNext DEF IPInv

LEMMA IPInvariant == PSpec => []IPInv
BY PInvInit, IPInvNext, PTL DEF PSpec

\* Every variable keeps its type; in particular cleanup() runs at most seven times,
\* however often the processes fail and are interrupted.
THEOREM ProcessTypes == PSpec => []PTypeOK
<1>1. IPInv => PTypeOK
  <2> SUFFICES ASSUME IPInv
               PROVE  PTypeOK
    OBVIOUS
  <2>1. cleanups \in 0..7
    BY CreditType DEF IPInv, CreditInv, ProcInv, ProcTypes
  <2> QED
    BY <2>1 DEF IPInv, TypeInv, ProcInv, ProcTypes, PTypeOK
<1> QED
  BY <1>1, IPInvariant, PTL

LEMMA NoOrphans == IPInv => NobodyIsOrphaned
<1> SUFFICES ASSUME IPInv, at["main"] = "exited"
             PROVE  Alive = {}
  BY DEF NobodyIsOrphaned
<1>1. \A g \in Generators : at[g] \in Over /\ \A m \in Kind(g) : ~Living(m)
  BY DEF IPInv, ProcInv, MainInv, GeneratorInv
<1>2. \A m \in Members : ~Living(m)
  BY <1>1, Sets
<1>3. \A p \in Leaders : at[p] \in Over
  BY <1>1, Sets
<1> QED
  BY <1>2, <1>3 DEF Alive

\* When main exits nobody is left, whoever failed and was interrupted, and when.
THEOREM NoneOrphaned == PSpec => []NobodyIsOrphaned
BY NoOrphans, IPInvariant, PTL

\* The shared memory outlives its users when nothing fails, and is removed whenever
\* main comes to its end in any other way than by a signal it does not handle.
THEOREM MemoryManaged == PSpec => []MemoryIsManaged
<1>1. IPInv => MemoryIsManaged
  <2> SUFFICES ASSUME IPInv
               PROVE  MemoryOutlivesUsers /\ MemoryIsRemoved
    BY DEF MemoryIsManaged
  <2>1. failures + interrupts = 0 => failures = 0 /\ interrupts = 0
    BY DEF IPInv, ProcInv, ProcTypes
  <2>2. MemoryOutlivesUsers
    <3> SUFFICES ASSUME cleanups > 0, failures = 0, interrupts = 0
                 PROVE  Alive \subseteq {"main"}
      BY <2>1 DEF MemoryOutlivesUsers
    <3>1. at["main"] \in {"leave", "exited"}
      BY DEF IPInv, ProcInv, CalmInv
    <3>2. \A g \in Generators : at[g] \in Over /\ \A m \in Kind(g) : ~Living(m)
      BY <3>1 DEF IPInv, ProcInv, MainInv, GeneratorInv
    <3> QED
      BY <3>2, Sets DEF Alive
  <2>3. MemoryIsRemoved
    BY DEF IPInv, ProcInv, RemovedInv, MemoryIsRemoved
  <2> QED
    BY <2>2, <2>3
<1> QED
  BY <1>1, IPInvariant, PTL

\* The crossing is right up to the moment in which a process is killed, and after it:
\* no mutex is shared and no crew is mixed because a signal came in between.
THEOREM CrossingSurvives ==
  PSpec => [](MutualExclusion /\ CrewsAreRight /\ OneCrossingAtATime /\ FinishTogether)
BY ProcessesImplementPersons, Mutex, Crews, OneCrossing, FinishBarrier, PTL
=============================================================================
