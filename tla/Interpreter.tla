----------------------------- MODULE Interpreter ----------------------------
(***************************************************************************)
(* What INP/proj2/cpu.vhd is to run: one instruction a step, of a language *)
(* with eight of them.  The pointer turns within the data, behind the      *)
(* program; a loop is skipped when its cell is zero.  Loops are simple: of *)
(* nested ones src/INP/proj2/README.md says that they are not supported.   *)
(***************************************************************************)
EXTENDS Integers, Sequences

CONSTANTS Addresses, DataStart,   \* the memory is 0..Addresses - 1
          Bytes,                  \* a cell is 0..Bytes - 1
          Code,                   \* the bytes of the instructions
          Typed                   \* what the keyboard may give

VARIABLES pc_reg, ptr_reg, mem, output

Is(i)     == mem[pc_reg] = Code[i]
Advance   == pc_reg' = (pc_reg + 1) % Addresses
Turn(by)  == LET size == Addresses - DataStart
             IN ptr_reg' = DataStart + ((ptr_reg - DataStart + by) % size)
Cell(d)   == mem' = [mem EXCEPT ![ptr_reg] = d]

Move(by)  == Advance /\ Turn(by) /\ UNCHANGED <<mem, output>>
Set(d)    == Advance /\ Cell(d) /\ UNCHANGED <<ptr_reg, output>>
Write     == /\ Advance /\ output' = Append(output, mem[ptr_reg])
             /\ UNCHANGED <<ptr_reg, mem>>
Pass      == Advance /\ UNCHANGED <<ptr_reg, mem, output>>

\* A loop without another one in it.
SimpleLoop(b, e) == /\ mem[b] = Code["["] /\ mem[e] = Code["]"]
                    /\ \A m \in b + 1..e - 1 : mem[m] \notin {Code["["], Code["]"]}

Skip == /\ \E e \in pc_reg + 1..Addresses - 1 :
             SimpleLoop(pc_reg, e) /\ pc_reg' = (e + 1) % Addresses
        /\ UNCHANGED <<ptr_reg, mem, output>>
Repeat == /\ \E b \in 0..pc_reg - 1 : SimpleLoop(b, pc_reg) /\ pc_reg' = b
          /\ UNCHANGED <<ptr_reg, mem, output>>

Restart == /\ pc_reg' = 0 /\ ptr_reg' = DataStart /\ UNCHANGED <<mem, output>>

Next ==
  \/ /\ Is(">") /\ Move(1)
  \/ /\ Is("<") /\ Move(-1)
  \/ /\ Is("+") /\ Set((mem[ptr_reg] + 1) % Bytes)
  \/ /\ Is("-") /\ Set((mem[ptr_reg] - 1) % Bytes)
  \/ /\ Is(".") /\ Write
  \/ /\ Is(",") /\ \E d \in Typed : Set(d)
  \/ /\ Is("[") /\ IF mem[ptr_reg] = 0 THEN Skip ELSE Pass
  \/ /\ Is("]") /\ IF mem[ptr_reg] = 0 THEN Pass ELSE Repeat
  \/ /\ \A i \in DOMAIN Code : ~Is(i)
     /\ Pass
  \/ Restart
=============================================================================
