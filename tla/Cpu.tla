--------------------------------- MODULE Cpu --------------------------------
(***************************************************************************)
(* INP/proj2/cpu.vhd: a processor with eight instructions, clock by clock. *)
(* The memory, which answers a clock after DATA_EN, the keyboard and the   *)
(* display are outside.  cnt_reg is never counted and is left out.         *)
(***************************************************************************)
EXTENDS Integers, Sequences

CONSTANTS Addresses, DataStart, Bytes, Code, Typed,   \* as in Interpreter
          Programs,         \* sequences of instructions
          MaxDisturbances   \* how often EN may fall or RESET rise: a bound

VARIABLES presentState, pc_reg, ptr_reg,
          DATA_RDWR,        \* kept from state to state: not every state sets it
          mem, DATA_RDATA,  \* the memory and what it has answered
          output,           \* what the display was given
          disturbances,
          paused,           \* history: EN has fallen in a state that counts
          beyond            \* history: the program has met a known error

cpuVars == <<presentState, pc_reg, ptr_reg, DATA_RDWR, mem, DATA_RDATA, output,
             disturbances, paused, beyond>>

CpuInit == /\ presentState = "off" /\ pc_reg = 0 /\ ptr_reg = DataStart
           /\ DATA_RDWR = 0 /\ DATA_RDATA = 0 /\ output = <<>>
           /\ mem = [a \in 0..Addresses - 1 |-> 0]
           /\ disturbances = 0 /\ paused = FALSE /\ beyond = FALSE

\* The program is put into the memory, whose other cells are zero, and RESET falls.
Load == /\ presentState = "off" /\ presentState' = "sidle"
        /\ \E p \in Programs :
             mem' = [a \in DOMAIN mem |->
                       IF a + 1 \in DOMAIN p /\ p[a + 1] \in DOMAIN Code
                       THEN Code[p[a + 1]] ELSE IF a + 1 \in DOMAIN p THEN 120 ELSE 0]
        /\ UNCHANGED <<pc_reg, ptr_reg, DATA_RDWR, DATA_RDATA, output, disturbances,
                       paused, beyond>>
-----------------------------------------------------------------------------
\* ireg_dec, which reads whatever the memory has answered last.
Is(i) == DATA_RDATA = Code[i]

Decoded == [i \in DOMAIN Code |->
  CASE i = ">" -> "sIncPtr"    [] i = "<" -> "sDecPtr"    [] i = "+" -> "sIncValue1"
    [] i = "-" -> "sDecValue1" [] i = "[" -> "sWhileB1"   [] i = "]" -> "sWhileE1"
    [] i = "." -> "sPutChar1"  [] i = "," -> "sGetChar1"]

Decode == IF DATA_RDATA = 0 THEN "shalt"
          ELSE IF \E i \in DOMAIN Code : Is(i)
               THEN Decoded[CHOOSE i \in DOMAIN Code : Is(i)] ELSE "sNop"

\* The next state where nothing has to be decided.
Simple == [sidle |-> "sfetch", sfetch |-> "sdecode", sIncPtr |-> "sfetch",
           sDecPtr |-> "sfetch", sIncValue1 |-> "sIncValue2", sIncValue2 |-> "sfetch",
           sDecValue1 |-> "sDecValue2", sDecValue2 |-> "sfetch",
           sGetChar1 |-> "sGetChar2", sPutChar1 |-> "sPutChar2",
           sWhileB2 |-> "sWhileB3", sWhileE1 |-> "sWhileE2", sWhileE3 |-> "sWhileE4",
           sNop |-> "sidle", shalt |-> "shalt"]

nextState(s, IN_VLD, OUT_BUSY) ==
  CASE s \in DOMAIN Simple -> Simple[s]
    [] s = "sdecode"   -> Decode
    [] s = "sGetChar2" -> IF IN_VLD THEN "sfetch" ELSE s
    [] s = "sPutChar2" -> IF OUT_BUSY THEN s ELSE "sfetch"
    [] s = "sWhileB1"  -> IF DATA_RDATA = 0 THEN "sWhileB2" ELSE "sfetch"
    [] s = "sWhileB3"  -> IF Is("]") THEN "sfetch" ELSE "sWhileB2"
    [] s = "sWhileE2"  -> IF DATA_RDATA = 0 THEN "sfetch" ELSE "sWhileE3"
    [] s = "sWhileE4"  -> IF Is("[") THEN "sfetch" ELSE "sWhileE3"

\* The signals of a state.  A mutant counts on while the keyboard has nothing.
pc_inc_early(s, IN_VLD, OUT_BUSY) ==
  \/ s \in {"sIncPtr", "sDecPtr", "sIncValue2", "sDecValue2", "sWhileB1", "sWhileB3",
            "sNop", "sGetChar2"}
  \/ (s = "sPutChar2" /\ ~OUT_BUSY)
  \/ (s = "sWhileE2" /\ DATA_RDATA = 0)
pc_inc(s, IN_VLD, OUT_BUSY) ==
  \/ s \in {"sIncPtr", "sDecPtr", "sIncValue2", "sDecValue2", "sWhileB1", "sWhileB3", "sNop"}
  \/ (s = "sGetChar2" /\ IN_VLD) \/ (s = "sPutChar2" /\ ~OUT_BUSY)
  \/ (s = "sWhileE2" /\ DATA_RDATA = 0)
pc_dec(s) == (s = "sWhileE2" /\ DATA_RDATA # 0) \/ (s = "sWhileE4" /\ ~Is("["))

Reads(s)  == s \in {"sfetch", "sIncValue1", "sDecValue1", "sPutChar1", "sWhileB1", "sWhileE1"}
Stores(s, IN_VLD) == s \in {"sIncValue2", "sDecValue2"} \/ (s = "sGetChar2" /\ IN_VLD)

DATA_EN(s, IN_VLD) == Reads(s) \/ Stores(s, IN_VLD) \/ s \in {"sWhileB2", "sWhileE3"}
RdWr(s, IN_VLD)    == IF Reads(s) THEN 0 ELSE IF Stores(s, IN_VLD) THEN 1 ELSE DATA_RDWR

DATA_ADDR(s) == IF s \in {"sfetch", "sWhileB2", "sWhileE3"} THEN pc_reg ELSE ptr_reg
DATA_WDATA(s, IN_DATA) == CASE s = "sIncValue2" -> (DATA_RDATA + 1) % Bytes
                            [] s = "sDecValue2" -> (DATA_RDATA - 1) % Bytes
                            [] OTHER            -> IN_DATA
-----------------------------------------------------------------------------
\* The address that the program has reached: a "[" that is being looked for counts.
Reached == IF presentState \in {"sWhileE3", "sWhileE4"}
           THEN CHOOSE b \in 0..pc_reg : /\ mem[b] = Code["["]
                                         /\ \A m \in b + 1..pc_reg : mem[m] # Code["["]
           ELSE pc_reg

I == INSTANCE Interpreter WITH pc_reg <- Reached

\* The errors that src/INP/proj2/README.md records: a loop that should be skipped is not
\* (test 7), and a loop with another in it goes back to the wrong "[" (test 9).
LoopError(s) ==
  \/ s = "sWhileB1" /\ mem[ptr_reg] = 0
  \/ /\ s = "sWhileE2" /\ DATA_RDATA # 0
     /\ ~ \E b \in 0..pc_reg - 1 : I!SimpleLoop(b, pc_reg)
-----------------------------------------------------------------------------
\* A rising edge of CLK.  EN holds the state, but not the counters, the memory or the
\* display.
Edge(EN, IN_VLD, OUT_BUSY, IN_DATA) ==
  LET s   == presentState
      inc == pc_inc(s, IN_VLD, OUT_BUSY)
  IN /\ s # "off"
     /\ presentState' = IF EN THEN nextState(s, IN_VLD, OUT_BUSY) ELSE s
     /\ pc_reg'  = (pc_reg + CASE pc_dec(s) -> -1 [] inc -> 1 [] OTHER -> 0) % Addresses
     /\ ptr_reg' = (ptr_reg + CASE s = "sIncPtr" -> 1 [] s = "sDecPtr" -> -1
                                [] OTHER -> 0) % Addresses
     /\ DATA_RDWR' = RdWr(s, IN_VLD)
     /\ LET en == DATA_EN(s, IN_VLD)
            a  == DATA_ADDR(s)
        IN /\ mem' = IF en /\ DATA_RDWR' = 1
                     THEN [mem EXCEPT ![a] = DATA_WDATA(s, IN_DATA)] ELSE mem
           /\ DATA_RDATA' = IF en /\ DATA_RDWR' = 0 THEN mem[a] ELSE DATA_RDATA
     /\ output' = IF s = "sPutChar2" /\ ~OUT_BUSY THEN Append(output, DATA_RDATA)
                                                  ELSE output
     /\ paused' = (paused \/ (~EN /\ (inc \/ pc_dec(s))))
     \* A pointer that leaves the data is the third of the errors (test 4).
     /\ beyond' = (beyond \/ LoopError(s) \/ ptr_reg' \notin DataStart..Addresses - 1)
     /\ IF EN THEN UNCHANGED disturbances
        ELSE disturbances < MaxDisturbances /\ disturbances' = disturbances + 1

RESET == /\ presentState # "off" /\ disturbances < MaxDisturbances
         /\ disturbances' = disturbances + 1
         /\ presentState' = "sidle" /\ pc_reg' = 0 /\ ptr_reg' = DataStart
         /\ UNCHANGED <<DATA_RDWR, mem, DATA_RDATA, output, paused, beyond>>

CpuNext == \/ Load \/ RESET
           \/ \E EN, IN_VLD, OUT_BUSY \in BOOLEAN, d \in Typed : Edge(EN, IN_VLD, OUT_BUSY, d)
-----------------------------------------------------------------------------
\* cpu.vhd: whatever the keyboard and the display do, the memory and the display change
\* as the program says, one instruction after another, until EN falls in a state that
\* counts or the program meets one of the errors that are on record: the pointer leaves
\* the data, a loop should be skipped, or has another one in it.
RunsThePrograms ==
  [][paused' \/ beyond' \/ presentState = "off" \/ I!Next]_<<Reached, ptr_reg, mem, output>>
=============================================================================
