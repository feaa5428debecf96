--------------------------- MODULE Threads_proofs ---------------------------
(***************************************************************************)
(* Theorems of two programs with threads: the shell, for any number of     *)
(* lines, processes and signals, and the name service, for any clients,    *)
(* command lines and table of users.                                       *)
(*                                                                         *)
(* The threads of the name service share the cursor of getpwent.  One that *)
(* no other disturbs is alone in its search (AloneInv), so that it finds   *)
(* the rows for its key up to the cursor (Reads), and its records, as the  *)
(* client will print them, are the lines for the keys before and for those *)
(* rows (Says).  The rest is about data: what is taken of a table on the   *)
(* way through it (TakenPlaces), and that the rank of a column among those *)
(* asked for is its place in a record (RankCounts).                        *)
(***************************************************************************)
EXTENDS Shell, NameService, SequenceTheorems, FiniteSetTheorems, WellFoundedInduction, TLAPS

-----------------------------------------------------------------------------
(* The shell.                                                              *)
Places == {"test", "read", "deliver", "wait", "asleep", "woken", "bye", "check", "parse",
           "fork", "record", "waitpid", "clear", "join exec", "join parse", "over"}
Busy   == {"woken", "parse", "fork", "record", "waitpid", "clear"}

Told   == "wakeup" \notin noted

\* While parseWorker does not wait, execWorker has nothing to do.
TurnInv == Told /\ pc["parse"] \notin {"wait", "asleep", "over"} => pc["exec"] \notin Busy

\* On the way to fork there is a program, and the loops go on.
ForkInv == /\ pc["exec"] = "fork" => program \in Commands
           /\ Told /\ pc["exec"] \in {"parse", "fork"} => run

\* What is delivered is due, and so is what execWorker was woken for.
DueInv == Told => /\ pc["parse"] = "deliver" => due # "none"
                  /\ pc["exec"] = "woken" /\ run => due # "none"
                  /\ pc["exec"] \in {"parse", "fork"} => due # "none"

\* After a process that was started too late execWorker comes to its end.
LateInv == "late" \in noted =>
             ~run /\ pc["exec"] \in {"record", "waitpid", "clear", "test", "over"}

\* Who says good-bye has cleared run.
ByeInv == pc["parse"] = "bye" => ~run

ShellInv == TypeOK /\ TurnInv /\ ForkInv /\ DueInv /\ LateInv /\ ByeInv

LEMMA ShellInvInit == Init => ShellInv
<1> SUFFICES ASSUME Init
             PROVE  ShellInv
  OBVIOUS
<1>1. pc \in [Threads -> Places] /\ pc["parse"] = "test" /\ pc["exec"] = "test"
  BY DEF Init, Threads, Places
<1>2. children \in Seq(Child) /\ activePid \in 0..Len(children)
  <2>1. children = <<>> /\ activePid = 0
    BY DEF Init
  <2>2. <<>> \in Seq(Child) /\ Len(<<>>) = 0
    OBVIOUS
  <2> QED
    BY <2>1, <2>2
<1>3. /\ run \in BOOLEAN /\ buffer = "blank" /\ reads = 0 /\ program = "none"
      /\ sigChld \in BOOLEAN /\ sigInt \in BOOLEAN /\ pressed = 0 /\ inWait = {}
      /\ due = "none" /\ noted = {}
  BY DEF Init
<1>4. TypeOK
  <2>1. 0 \in 0..MaxLines /\ 0 \in 0..MaxInterrupts
    BY ShellAssumption
  <2>2. /\ pc \in [Threads -> Places] /\ buffer \in Lines \cup {"blank"}
        /\ inWait \subseteq Threads /\ program \in Commands \cup {"none"}
    BY <1>1, <1>3
  <2> QED
    BY <1>2, <1>3, <2>1, <2>2 DEF TypeOK, Places
<1>5. TurnInv /\ ForkInv /\ DueInv /\ LateInv /\ ByeInv
  BY <1>1, <1>3 DEF TurnInv, ForkInv, DueInv, LateInv, ByeInv, Busy
<1> QED
  BY <1>4, <1>5 DEF ShellInv

-----------------------------------------------------------------------------
(* The steps.                                                              *)

\* The parts of TypeOK that are not about the place of a thread.
DataTypeOK ==
  /\ run \in BOOLEAN
  /\ buffer \in Lines \cup {"blank"} /\ reads \in 0..MaxLines
  /\ program \in Commands \cup {"none"}
  /\ children \in Seq(Child) /\ activePid \in 0..Len(children)
  /\ sigChld \in BOOLEAN /\ sigInt \in BOOLEAN /\ pressed \in 0..MaxInterrupts
  /\ inWait \subseteq Threads
  /\ due \in {"typed", "again", "none"} /\ noted \subseteq {"wakeup", "late"}

LEMMA TypeParts ==
  /\ TypeOK <=> pc \in [Threads -> Places] /\ DataTypeOK
  /\ TypeOK' <=> pc' \in [Threads -> Places] /\ DataTypeOK'
BY DEF TypeOK, DataTypeOK, Places

\* A child whose status changes is a child.
LEMMA StatusType ==
  ASSUME DataTypeOK, NEW c \in Int, NEW s \in {"running", "zombie", "reaped"}
  PROVE  LET ch == [children EXCEPT ![c].status = s]
         IN ch \in Seq(Child) /\ Len(ch) = Len(children)
<1> DEFINE ch == [children EXCEPT ![c].status = s]
<1>1. children \in [1..Len(children) -> Child] /\ Len(children) \in Nat
  BY DEF DataTypeOK
<1>2. c \in 1..Len(children) => [children[c] EXCEPT !.status = s] \in Child
  BY <1>1 DEF Child
<1>3. ch \in [1..Len(children) -> Child]
  BY <1>1, <1>2
<1> QED
  BY <1>1, <1>3

\* A step that moves parseWorker, without a signal for the other thread.
LEMMA ParseMoves ==
  ASSUME ShellInv, NEW to \in Places, pc' = [pc EXCEPT !["parse"] = to], DataTypeOK',
         Told /\ to \notin {"wait", "asleep", "over"} => pc["exec"] \notin Busy,
         UNCHANGED <<program, history>>, ~run => ~run',
         Told /\ pc["exec"] \in {"parse", "fork"} => run',
         Told /\ to = "deliver" => due # "none", to = "bye" => ~run'
  PROVE  ShellInv'
<1>1. /\ pc' \in [Threads -> Places] /\ pc'["parse"] = to /\ pc'["exec"] = pc["exec"]
      /\ run \in BOOLEAN /\ run' \in BOOLEAN
  BY TypeParts DEF ShellInv, Threads, DataTypeOK
<1>2. UNCHANGED <<program, due, noted>>
  BY DEF history
<1> QED
  BY <1>1, <1>2, TypeParts
     DEF ShellInv, TurnInv, ForkInv, DueInv, LateInv, ByeInv, Busy, Told

LEMMA ParseStep ==
  ASSUME ShellInv, ParseWorker
  PROVE  ShellInv'
<1> USE DEF ShellInv
<1>0. DataTypeOK /\ pc \in [Threads -> Places]
  BY TypeParts
<1>1. CASE ParseTest
  <2>1. DataTypeOK'
    BY <1>0, <1>1 DEF ParseTest, DataTypeOK, input, procs, signals, history
  <2> QED
    BY <1>1, <2>1, ParseMoves DEF ParseTest, Goto, TurnInv, ForkInv, Places
<1>2. CASE EndOfInput
  <2>1. DataTypeOK'
    BY <1>0, <1>2 DEF EndOfInput, DataTypeOK, input, procs, signals, history
  <2> QED
    BY <1>2, <2>1, ParseMoves DEF EndOfInput, Goto, TurnInv, Busy, Places
<1>3. ASSUME NEW line \in Lines, Read(line) PROVE ShellInv'
  <2>1. DataTypeOK'
    BY <1>0, <1>3, ShellAssumption DEF Read, DataTypeOK, procs, signals
  <2>2. /\ Treat(line) \in {"bye", "test", "deliver"}
        /\ Treat(line) = "deliver" => line \in Commands
        /\ Treat(line) = "bye" => line = "exit"
    BY DEF Treat, Lines
  <2>3. /\ pc["parse"] = "read" /\ pc'["parse"] = Treat(line) /\ pc'["exec"] = pc["exec"]
        /\ pc' \in [Threads -> Places]
    BY <1>0, <1>3, <2>2 DEF Read, Goto, Threads, Places
  <2>4. /\ program' = program /\ noted' = noted /\ run' = (run /\ line # "exit")
        /\ due' = IF line \in Commands THEN "typed" ELSE "none"
    BY <1>3 DEF Read
  <2>5. Told => pc["exec"] \notin Busy
    BY <2>3 DEF TurnInv
  <2> QED
    BY <2>1, <2>2, <2>3, <2>4, <2>5, TypeParts
       DEF TurnInv, ForkInv, DueInv, LateInv, ByeInv, Busy, Told
<1>4. CASE ParseWoken
  <2>1. DataTypeOK'
    BY <1>0, <1>4 DEF ParseWoken, DataTypeOK, input, procs, signals, history
  <2> QED
    BY <1>4, <2>1, ParseMoves DEF ParseWoken, Goto, TurnInv, ForkInv, Places
<1>5. CASE WaitThread("parse")
  <2>1. DataTypeOK'
    BY <1>0, <1>5 DEF WaitThread, DataTypeOK, input, procs, signals, history
  <2> QED
    BY <1>5, <2>1, ParseMoves DEF WaitThread, Goto, ForkInv, Places
<1>6. CASE Deliver \/ Bye
  <2>1. DataTypeOK'
    BY <1>0, <1>6 DEF Deliver, Bye, DataTypeOK, input, procs, signals, history
  <2>2. PICK to \in {"wait", "over"} :
          /\ pc["parse"] = IF to = "wait" THEN "deliver" ELSE "bye"
          /\ pc' = [pc EXCEPT !["parse"] = to,
                              !["exec"] = IF @ = "asleep" THEN "woken" ELSE @]
    BY <1>6 DEF Deliver, Bye, SignalThread, Other, AfterDeliver
  <2>3. /\ pc' \in [Threads -> Places] /\ pc'["parse"] = to
        /\ pc'["exec"] = IF pc["exec"] = "asleep" THEN "woken" ELSE pc["exec"]
    BY <1>0, <2>2 DEF Threads, Places
  <2>4. UNCHANGED <<run, program, due, noted>>
    BY <1>6 DEF Deliver, Bye, history
  <2>5. TurnInv' /\ ForkInv' /\ LateInv' /\ ByeInv'
    BY <2>2, <2>3, <2>4 DEF TurnInv, ForkInv, LateInv, ByeInv, Busy, Told
  <2>6. DueInv'
    <3>1. to = "over" /\ Told => ~run
      BY <2>2 DEF ByeInv
    <3> QED
      BY <2>2, <2>3, <2>4, <3>1 DEF DueInv, Told
  <2> QED
    BY <2>1, <2>3, <2>5, <2>6, TypeParts
<1> QED
  BY <1>1, <1>2, <1>3, <1>4, <1>5, <1>6 DEF ParseWorker

\* A step that moves execWorker.
LEMMA ExecMoves ==
  ASSUME ShellInv, NEW to \in Places, pc' = [pc EXCEPT !["exec"] = to], DataTypeOK',
         to \in Busy => pc["exec"] \in Busy, to # "woken",
         to = "fork" => program' \in Commands,
         Told /\ to \in {"parse", "fork"} => run' /\ due' # "none",
         UNCHANGED history, ~run => ~run',
         "late" \in noted => to \in {"record", "waitpid", "clear", "test", "over"}
  PROVE  ShellInv'
<1>1. /\ pc' \in [Threads -> Places] /\ pc'["exec"] = to /\ pc'["parse"] = pc["parse"]
      /\ run \in BOOLEAN /\ run' \in BOOLEAN
  BY TypeParts DEF ShellInv, Threads, DataTypeOK
<1>2. UNCHANGED <<due, noted>>
  BY DEF history
<1> QED
  BY <1>1, <1>2, TypeParts
     DEF ShellInv, TurnInv, ForkInv, DueInv, LateInv, ByeInv, Busy, Told

LEMMA ExecStep ==
  ASSUME ShellInv, ExecWorker
  PROVE  ShellInv'
<1> USE DEF ShellInv
<1>0. DataTypeOK /\ pc \in [Threads -> Places]
  BY TypeParts
<1>1. CASE ExecTest
  <2>1. DataTypeOK'
    BY <1>0, <1>1 DEF ExecTest, DataTypeOK, input, procs, signals, history
  <2> QED
    BY <1>1, <2>1, ExecMoves DEF LateInv, DueInv, ForkInv, Told, history, ExecTest, Goto, Busy, Places
<1>2. CASE WaitThread("exec")
  <2>1. DataTypeOK'
    BY <1>0, <1>2 DEF WaitThread, DataTypeOK, input, procs, signals, history
  <2> QED
    BY <1>2, <2>1, ExecMoves DEF LateInv, DueInv, ForkInv, Told, history, WaitThread, Goto, Busy, Places
<1>3. CASE ExecWoken
  <2>1. DataTypeOK'
    BY <1>0, <1>3 DEF ExecWoken, DataTypeOK, input, procs, signals, history
  <2> QED
    BY <1>3, <2>1, ExecMoves DEF LateInv, DueInv, ForkInv, Told, history, ExecWoken, MayGoOn, Goto, Busy, Places
<1>4. CASE Parse
  <2>1. program' \in Commands
    BY <1>4 DEF Parse, Commands
  <2>2. DataTypeOK'
    BY <1>0, <1>4, <2>1 DEF Parse, DataTypeOK, input, procs, signals, history
  <2> QED
    BY <1>4, <2>1, <2>2, ExecMoves DEF LateInv, DueInv, ForkInv, Told, history, Parse, Goto, Busy, Places
<1>5. CASE Fork
  <2>1. [kind |-> program, status |-> "running"] \in Child
    BY <1>5 DEF Fork, Goto, ForkInv, Child
  <2>2. children' \in Seq(Child) /\ Len(children') = Len(children) + 1
    BY <1>0, <1>5, <2>1 DEF Fork, DataTypeOK
  <2>3. DataTypeOK'
    BY <1>0, <1>5, <2>2 DEF Fork, DataTypeOK, input, signals
  <2>4. PICK to \in {"record", "clear"} : pc' = [pc EXCEPT !["exec"] = to]
    BY <1>5 DEF Fork, Goto
  <2>5. /\ pc' \in [Threads -> Places] /\ pc'["exec"] = to /\ pc'["parse"] = pc["parse"]
        /\ pc["exec"] = "fork" /\ run' = run /\ run \in BOOLEAN
        /\ noted' = IF run THEN noted ELSE noted \cup {"late"}
    <3>1. to \in Places /\ "exec" \in Threads /\ "parse" \in Threads
      BY DEF Places, Threads
    <3> QED
      BY <1>0, <1>5, <2>4, <3>1 DEF Fork, Goto, DataTypeOK
  <2>6. Told' => Told /\ pc["parse"] # "deliver" /\ (pc'["parse"] = pc["parse"])
    BY <2>5 DEF Told, TurnInv, Busy
  <2>7. TurnInv' /\ ForkInv' /\ DueInv' /\ LateInv' /\ ByeInv'
    BY <2>4, <2>5, <2>6 DEF TurnInv, ForkInv, DueInv, LateInv, ByeInv, Busy, Told
  <2> QED
    BY <2>3, <2>5, <2>7, TypeParts
<1>6. CASE ForkFails
  <2>1. DataTypeOK'
    BY <1>0, <1>6 DEF ForkFails, DataTypeOK, input, procs, signals, history
  <2> QED
    BY <1>6, <2>1, ExecMoves DEF LateInv, DueInv, ForkInv, Told, history, ForkFails, Goto, Busy, Places
<1>7. CASE Record
  <2>1. DataTypeOK'
    BY <1>0, <1>7 DEF Record, DataTypeOK, input, signals, history
  <2> QED
    BY <1>7, <2>1, ExecMoves DEF LateInv, DueInv, ForkInv, Told, history, Record, Goto, Busy, Places
<1>8. CASE Waitpid
  <2>1. DataTypeOK'
    <3>1. activePid \in Int
      BY <1>0 DEF DataTypeOK
    <3>2. children' \in Seq(Child) /\ Len(children') = Len(children)
      BY <1>0, <1>8, <3>1, StatusType DEF Waitpid
    <3> QED
      BY <1>0, <1>8, <3>2 DEF Waitpid, DataTypeOK, input, signals, history
  <2> QED
    BY <1>8, <2>1, ExecMoves DEF LateInv, DueInv, ForkInv, Told, history, Waitpid, Goto, Busy, Places
<1>9. CASE Clear
  <2>1. DataTypeOK'
    BY <1>0, <1>9 DEF Clear, DataTypeOK, input, procs, signals, history
  <2>2. /\ pc' \in [Threads -> Places] /\ pc'["exec"] = "test"
        /\ pc'["parse"] = IF pc["parse"] = "asleep" THEN "woken" ELSE pc["parse"]
    BY <1>0, <1>9 DEF Clear, SignalThread, Other, Threads, Places
  <2>3. UNCHANGED <<run, due, noted>>
    BY <1>9 DEF Clear, history
  <2>4. TurnInv' /\ ForkInv' /\ DueInv' /\ LateInv' /\ ByeInv'
    BY <2>2, <2>3 DEF TurnInv, ForkInv, DueInv, LateInv, ByeInv, Busy, Told
  <2> QED
    BY <2>1, <2>2, <2>4, TypeParts
<1> QED
  BY <1>1, <1>2, <1>3, <1>4, <1>5, <1>6, <1>7, <1>8, <1>9 DEF ExecWorker

\* A handler moves its thread only out of read and out of waitpid.
LEMMA HandlerMoves ==
  ASSUME ShellInv, NEW t \in Threads, pc' = [pc EXCEPT ![t] = Interrupted(t)], DataTypeOK',
         due' = Redue(t), UNCHANGED <<run, program, noted>>
  PROVE  ShellInv'
<1> USE DEF ShellInv
<1>0. pc \in [Threads -> Places]
  BY TypeParts
<1>1. CASE t = "parse" /\ pc[t] = "read"
  <2>1. PICK to \in {"test", "deliver"} :
          /\ pc' = [pc EXCEPT !["parse"] = to]
          /\ to = "deliver" => due' # "none"
    BY <1>1 DEF Interrupted, Redue
  <2>2. /\ pc' \in [Threads -> Places] /\ pc'["parse"] = to /\ pc'["exec"] = pc["exec"]
    <3>1. to \in Places /\ "exec" \in Threads /\ "parse" \in Threads
      BY DEF Places, Threads
    <3> QED
      BY <1>0, <2>1, <3>1
  <2>3. Told => pc["exec"] \notin Busy
    BY <1>1 DEF TurnInv
  <2>4. TurnInv' /\ ForkInv' /\ DueInv' /\ LateInv' /\ ByeInv'
    BY <1>1, <2>1, <2>2, <2>3 DEF TurnInv, ForkInv, DueInv, LateInv, ByeInv, Busy, Told
  <2> QED
    BY <2>2, <2>4, TypeParts
<1>2. CASE ~(t = "parse" /\ pc[t] = "read")
  <2>1. /\ due' = due
        /\ \/ t = "exec" /\ pc[t] = "waitpid" /\ Interrupted(t) = "clear"
           \/ Interrupted(t) = pc[t]
    BY <1>2 DEF Interrupted, Redue
  <2>2. /\ pc' \in [Threads -> Places] /\ pc'["parse"] = pc["parse"]
        /\ pc'["exec"] = pc["exec"] \/ (pc["exec"] = "waitpid" /\ pc'["exec"] = "clear")
    BY <1>0, <2>1 DEF Threads, Places
  <2>3. TurnInv' /\ ForkInv' /\ DueInv' /\ LateInv' /\ ByeInv'
    BY <2>1, <2>2 DEF TurnInv, ForkInv, DueInv, LateInv, ByeInv, Busy, Told
  <2> QED
    BY <2>2, <2>3, TypeParts
<1> QED
  BY <1>1, <1>2

\* A step that moves neither worker.
LEMMA NobodyMoves ==
  ASSUME ShellInv, DataTypeOK', pc' \in [Threads -> Places], pc'["parse"] = pc["parse"],
         pc'["exec"] = pc["exec"], UNCHANGED <<run, program, history>>
  PROVE  ShellInv'
BY TypeParts DEF ShellInv, TurnInv, ForkInv, DueInv, LateInv, ByeInv, Told, history

\* A wait that returns by itself ends what is promised of those that were told.
LEMMA WakesUpStep ==
  ASSUME ShellInv, NEW t \in Threads, WakesUp(t)
  PROVE  ShellInv'
<1> USE DEF ShellInv
<1>0. DataTypeOK /\ pc \in [Threads -> Places]
  BY TypeParts
<1>1. DataTypeOK'
  BY <1>0 DEF WakesUp, DataTypeOK, input, procs, signals
<1>2. /\ pc[t] = "asleep" /\ pc' = [pc EXCEPT ![t] = "woken"]
      /\ UNCHANGED <<run, program>> /\ noted' = noted \cup {"wakeup"}
  BY DEF WakesUp, Goto
<1>3. /\ pc' \in [Threads -> Places]
      /\ \A th \in {"parse", "exec"} :
           pc'[th] = pc[th] \/ (pc[th] = "asleep" /\ pc'[th] = "woken")
  BY <1>0, <1>2 DEF Threads, Places
<1>4. TurnInv' /\ ForkInv' /\ DueInv' /\ LateInv' /\ ByeInv'
  BY <1>2, <1>3 DEF TurnInv, ForkInv, DueInv, LateInv, ByeInv, Told
<1> QED
  BY <1>1, <1>3, <1>4, TypeParts

LEMMA ShellInvNext == ShellInv /\ [Next]_vars => ShellInv'
<1> SUFFICES ASSUME ShellInv, [Next]_vars
             PROVE  ShellInv'
  OBVIOUS
<1>0. DataTypeOK /\ pc \in [Threads -> Places]
  BY TypeParts DEF ShellInv
<1>1. CASE ParseWorker
  BY <1>1, ParseStep
<1>2. CASE ExecWorker
  BY <1>2, ExecStep
<1>3. CASE Join
  <2>1. DataTypeOK'
    BY <1>0, <1>3 DEF Join, DataTypeOK, input, procs, signals, history
  <2>2. /\ pc' \in [Threads -> Places]
        /\ pc'["parse"] = pc["parse"] /\ pc'["exec"] = pc["exec"]
    BY <1>0, <1>3 DEF Join, Goto, Threads, Places
  <2> QED
    BY <1>3, <2>1, <2>2, NobodyMoves DEF Join
<1>4. CASE CtrlC
  <2>1. DataTypeOK'
    BY <1>0, <1>4, ShellAssumption DEF CtrlC, DataTypeOK, input, procs, history
  <2> QED
    BY <1>0, <1>4, <2>1, NobodyMoves DEF CtrlC
<1>5. ASSUME NEW t \in Threads, TakeChld(t) PROVE ShellInv'
  <2>1. DataTypeOK'
    BY <1>0, <1>5 DEF TakeChld, Redue, DataTypeOK, input, procs
  <2> QED
    BY <1>5, <2>1, HandlerMoves DEF TakeChld
<1>6. ASSUME NEW t \in Threads, WaitReturns(t) PROVE ShellInv'
  <2>1. children' \in Seq(Child) /\ Len(children') = Len(children)
    <3>1. CASE UNCHANGED children
      BY <1>0, <3>1 DEF DataTypeOK
    <3>2. ASSUME NEW c \in Zombies, children' = [children EXCEPT ![c].status = "reaped"]
          PROVE  children' \in Seq(Child) /\ Len(children') = Len(children)
      <4>1. c \in Int
        BY <1>0 DEF Zombies, DataTypeOK
      <4> QED
        BY <1>0, <3>2, <4>1, StatusType
    <3> QED
      BY <1>6, <3>1, <3>2 DEF WaitReturns
  <2>2. DataTypeOK'
    BY <1>0, <1>6, <2>1 DEF WaitReturns, DataTypeOK, input, history
  <2> QED
    BY <1>0, <1>6, <2>2, NobodyMoves DEF WaitReturns
<1>7. ASSUME NEW t \in Threads, TakeInt(t) PROVE ShellInv'
  <2>1. DataTypeOK'
    BY <1>0, <1>7 DEF TakeInt, Redue, DataTypeOK, input, procs
  <2>2. CASE pc' = pc /\ due' = due
    BY <1>0, <1>7, <2>1, <2>2, NobodyMoves DEF TakeInt, history
  <2>3. CASE pc' = [pc EXCEPT ![t] = Interrupted(t)] /\ due' = Redue(t)
    BY <1>7, <2>1, <2>3, HandlerMoves DEF TakeInt
  <2> QED
    BY <1>7, <2>2, <2>3 DEF TakeInt
<1>8. ASSUME NEW c \in DOMAIN children, ChildEnds(c) PROVE ShellInv'
  <2>1. c \in Int
    BY <1>0 DEF DataTypeOK
  <2>2. children' \in Seq(Child) /\ Len(children') = Len(children)
    BY <1>0, <1>8, <2>1, StatusType DEF ChildEnds
  <2>3. DataTypeOK'
    BY <1>0, <1>8, <2>2 DEF ChildEnds, DataTypeOK, input, history
  <2> QED
    BY <1>0, <1>8, <2>3, NobodyMoves DEF ChildEnds
<1>9. CASE UNCHANGED vars
  <2>1. DataTypeOK'
    BY <1>0, <1>9 DEF vars, DataTypeOK
  <2> QED
    BY <1>0, <1>9, <2>1, NobodyMoves DEF vars, history
<1>10. ASSUME NEW t \in Threads, WakesUp(t) PROVE ShellInv'
  BY <1>10, WakesUpStep
<1> QED
  BY <1>1, <1>2, <1>3, <1>4, <1>5, <1>6, <1>7, <1>8, <1>9, <1>10 DEF Next, Handlers

-----------------------------------------------------------------------------
(* The theorems.                                                           *)

\* main.c: the variables keep their types; the process in the foreground is one that was
\* forked.
THEOREM ShellTypeCorrect == Spec => []TypeOK
<1>1. ShellInv => TypeOK
  BY DEF ShellInv
<1> QED
  BY <1>1, ShellInvInit, ShellInvNext, PTL DEF Spec

\* parseWorker, execWorker: they take turns, although signals of the condition variable are
\* lost and handlers interrupt read and waitpid, as long as no wait returns without a signal.
THEOREM TurnsAreTaken == Spec => []PromptMeansIdle
<1>1. ShellInv => PromptMeansIdle
  BY DEF ShellInv, TurnInv, PromptMeansIdle, Busy, Told
<1> QED
  BY <1>1, ShellInvInit, ShellInvNext, PTL DEF Spec

\* Only fork makes a new process.
LEMMA OnlyForkStarts ==
  ASSUME DataTypeOK, Next, ~Fork
  PROVE  Len(children') = Len(children)
<1>1. CASE ParseWorker
  BY <1>1 DEF ParseWorker, ParseTest, EndOfInput, Bye, Deliver, WaitThread, ParseWoken,
              Read, procs
<1>2. CASE ExecWorker
  <2>1. CASE Waitpid
    BY <2>1, StatusType DEF Waitpid, DataTypeOK
  <2>2. CASE ~Waitpid
    BY <1>2, <2>2 DEF ExecWorker, ExecTest, WaitThread, ExecWoken, Parse, ForkFails, Record,
                      Clear, procs
  <2> QED
    BY <2>1, <2>2
<1>3. CASE Join \/ CtrlC
  BY <1>3 DEF Join, CtrlC, procs
<1>4. ASSUME NEW t \in Threads, TakeChld(t) \/ TakeInt(t) \/ WakesUp(t)
      PROVE  Len(children') = Len(children)
  BY <1>4 DEF TakeChld, TakeInt, WakesUp, procs
<1>5. ASSUME NEW t \in Threads, WaitReturns(t)
      PROVE  Len(children') = Len(children)
  <2>1. ASSUME NEW c \in Zombies, children' = [children EXCEPT ![c].status = "reaped"]
        PROVE  Len(children') = Len(children)
    <3>1. c \in Int
      BY DEF Zombies, DataTypeOK
    <3> QED
      BY <2>1, <3>1, StatusType
  <2> QED
    BY <1>5, <2>1 DEF WaitReturns
<1>6. ASSUME NEW c \in DOMAIN children, ChildEnds(c)
      PROVE  Len(children') = Len(children)
  <2>1. c \in Int
    BY DEF DataTypeOK
  <2> QED
    BY <1>6, <2>1, StatusType DEF ChildEnds
<1> QED
  BY <1>1, <1>2, <1>3, <1>4, <1>5, <1>6 DEF Next, Handlers

\* execWorker: it forks for what was delivered to it, and tests run after each wait; a wait
\* that returns without a signal is excepted as the property says.
THEOREM StartsAreDue == Spec => StartsWhatIsDue
<1>1. ShellInv /\ [Next]_vars =>
        [Len(children') > Len(children) =>
           \/ run /\ due # "none"
           \/ "wakeup" \in noted /\ (run \/ "late" \notin noted)]_vars
  <2> SUFFICES ASSUME ShellInv, Next, Len(children') > Len(children)
               PROVE  \/ run /\ due # "none"
                      \/ "wakeup" \in noted /\ (run \/ "late" \notin noted)
    OBVIOUS
  <2>1. DataTypeOK
    BY TypeParts DEF ShellInv
  <2>2. Fork
    <3>1. Len(children) \in Nat
      BY <2>1 DEF DataTypeOK
    <3> QED
      BY <2>1, <3>1, OnlyForkStarts
  <2>3. pc["exec"] = "fork"
    BY <2>2 DEF Fork, Goto
  <2> QED
    BY <2>3 DEF ShellInv, ForkInv, DueInv, LateInv, Told
<1> QED
  BY <1>1, ShellInvInit, ShellInvNext, PTL DEF Spec, StartsWhatIsDue

-----------------------------------------------------------------------------
(* Induction: the least of a set, and what is carried on from a beginning. *)

LEMMA Least ==
  ASSUME NEW T \in SUBSET Nat, T # {}
  PROVE  \E n \in T : \A m \in T : n <= m
<1> DEFINE R == OpToRel(<, Nat)
<1>1. IsWellFoundedOn(R, Nat)
  BY NatLessThanWellFounded
<1>2. \A n, m \in Nat : <<m, n>> \in R <=> m < n
  BY DEF OpToRel
<1> HIDE DEF R
<1>3. PICK n \in T : \A m \in T : ~ (<<m, n>> \in R)
  BY <1>1, WFMin
<1>4. ASSUME NEW m \in T PROVE n <= m
  <2>1. n \in Nat /\ m \in Nat
    OBVIOUS
  <2>2. ~(m < n)
    BY <1>2, <1>3, <2>1, Zenon
  <2> QED
    BY <2>1, <2>2
<1> QED
  BY <1>4

\* What is carried on n times from a beginning.
Steps(n, S) == [(1..n) \X S -> S]
Carries(f, n, S, b, G) == /\ f \in [0..n -> S] /\ f[0] = b
                          /\ \A i \in 1..n : f[i] = G[<<i, f[i - 1]>>]

LEMMA CarriedOn ==
  ASSUME NEW n \in Nat, NEW S, NEW b \in S, NEW G \in Steps(n, S)
  PROVE  \E f : Carries(f, n, S, b, G)
<1> USE DEF Steps
<1> DEFINE Ok(m, f) == f[0] = b /\ \A i \in 1..m : f[i] = G[<<i, f[i - 1]>>]
           T == {m \in 0..n : ~\E f \in [0..m -> S] : Ok(m, f)}
<1>1. ASSUME T # {} PROVE FALSE
  <2>1. T \in SUBSET Nat
    OBVIOUS
  <2>2. PICK m \in T : \A k \in T : m <= k
    BY <1>1, <2>1, Least
  <2>3. m \in 0..n /\ m \in Nat
    OBVIOUS
  <2>4. m # 0
    <3> DEFINE f == [i \in 0..0 |-> b]
    <3>1. f \in [0..0 -> S] /\ Ok(0, f)
      OBVIOUS
    <3> QED
      BY <3>1
  <2>5. m - 1 \in 0..n /\ m - 1 \notin T
    BY <2>2, <2>3, <2>4
  <2>6. PICK f \in [0..m - 1 -> S] : Ok(m - 1, f)
    BY <2>5
  <2> DEFINE g == [i \in 0..m |-> IF i = m THEN G[<<m, f[m - 1]>>] ELSE f[i]]
  <2>7. m - 1 \in 0..m - 1 /\ <<m, f[m - 1]>> \in (1..n) \X S
    BY <2>3, <2>4
  <2>8. g \in [0..m -> S]
    <3>1. ASSUME NEW i \in 0..m PROVE g[i] \in S
      <4>1. CASE i = m
        BY <2>7, <4>1
      <4>2. CASE i # m
        BY <2>3, <4>2
      <4> QED
        BY <4>1, <4>2
    <3> QED
      BY <3>1
  <2>9. Ok(m, g)
    <3>1. g[0] = b
      BY <2>3, <2>4, <2>6
    <3>2. ASSUME NEW i \in 1..m PROVE g[i] = G[<<i, g[i - 1]>>]
      <4>1. i - 1 \in 0..m /\ i - 1 # m /\ g[i - 1] = f[i - 1]
        BY <2>3
      <4>2. CASE i = m
        BY <4>1, <4>2
      <4>3. CASE i # m
        <5>1. i \in 1..m - 1 /\ g[i] = f[i]
          BY <2>3, <4>3
        <5> QED
          BY <2>6, <4>1, <5>1
      <4> QED
        BY <4>2, <4>3
    <3> QED
      BY <3>1, <3>2
  <2> HIDE DEF Ok, g
  <2> QED
    BY <2>2, <2>8, <2>9
<1>2. n \in 0..n /\ n \notin T
  BY <1>1
<1>3. PICK f \in [0..n -> S] : Ok(n, f)
  BY <1>2
<1>4. Carries(f, n, S, b, G)
  BY <1>3 DEF Carries
<1> QED
  BY <1>4

\* Two functions that begin with one value, and go on alike, are one.
Is(f, n)       == f = [i \in 0..n |-> f[i]]
Alike(f, g, n) == f[0] = g[0] /\ \A i \in 1..n : f[i - 1] = g[i - 1] => f[i] = g[i]

LEMMA OneFunction ==
  ASSUME NEW n \in Nat, NEW f, NEW g, Is(f, n), Is(g, n), Alike(f, g, n)
  PROVE  f = g
<1> USE DEF Is, Alike
<1> DEFINE D == {i \in 0..n : f[i] # g[i]}
<1>1. ASSUME D # {} PROVE FALSE
  <2>1. D \in SUBSET Nat
    OBVIOUS
  <2>2. PICK i \in D : \A j \in D : i <= j
    BY <1>1, <2>1, Least
  <2>3. i \in 0..n /\ f[i] # g[i]
    OBVIOUS
  <2>4. i \in 1..n /\ i - 1 \in 0..n /\ ~(i <= i - 1)
    BY <2>3
  <2>5. f[i - 1] = g[i - 1]
    BY <2>2, <2>4
  <2> QED
    BY <2>3, <2>4, <2>5
<1>2. \A i \in 0..n : f[i] = g[i]
  BY <1>1
<1> QED
  BY <1>2

-----------------------------------------------------------------------------
(* What is taken of a sequence.                                            *)

LEMMA TakenFacts ==
  ASSUME NEW V, NEW s \in Seq(V), NEW W
  PROVE  /\ Taken(s, W) \in [0..Len(s) -> Seq(V)]
         /\ Taken(s, W)[0] = <<>>
         /\ \A r \in 1..Len(s) :
              Taken(s, W)[r] = IF r \in W THEN Append(Taken(s, W)[r - 1], s[r])
                               ELSE Taken(s, W)[r - 1]
<1> DEFINE n == Len(s)
           S == Seq(V)
           P(f) == f = [i \in 0..n |-> IF i = 0 THEN <<>>
                                       ELSE IF i \in W THEN Append(f[i - 1], s[i]) ELSE f[i - 1]]
           G == [p \in (1..n) \X S |-> IF p[1] \in W THEN Append(p[2], s[p[1]]) ELSE p[2]]
<1>1. n \in Nat /\ <<>> \in S
  OBVIOUS
<1>2. G \in Steps(n, S)
  <2>1. ASSUME NEW p \in (1..n) \X S
        PROVE  (IF p[1] \in W THEN Append(p[2], s[p[1]]) ELSE p[2]) \in S
    <3>1. p[1] \in 1..n /\ p[2] \in Seq(V) /\ s[p[1]] \in V
      OBVIOUS
    <3>2. Append(p[2], s[p[1]]) \in Seq(V)
      BY <3>1
    <3> QED
      BY <3>1, <3>2
  <2> QED
    BY <2>1 DEF Steps
<1>3. \A i \in 1..n, x \in S : G[<<i, x>>] = IF i \in W THEN Append(x, s[i]) ELSE x
  OBVIOUS
<1> HIDE DEF G
<1>4. PICK f \in [0..n -> S] : f[0] = <<>> /\ \A i \in 1..n : f[i] = G[<<i, f[i - 1]>>]
  <2>1. \E f : Carries(f, n, S, <<>>, G)
    <3> HIDE DEF n, S
    <3> QED
      BY <1>1, <1>2, CarriedOn
  <2> QED
    BY <2>1 DEF Carries
<1>5. \A i \in 1..n : f[i] = IF i \in W THEN Append(f[i - 1], s[i]) ELSE f[i - 1]
  <2>1. ASSUME NEW i \in 1..n
        PROVE  f[i] = IF i \in W THEN Append(f[i - 1], s[i]) ELSE f[i - 1]
    <3>1. i - 1 \in 0..n
      BY <1>1
    <3>2. f[i - 1] \in S
      BY <3>1
    <3>3. f[i] = G[<<i, f[i - 1]>>]
      BY <1>4
    <3> QED
      BY <1>3, <3>2, <3>3
  <2> QED
    BY <2>1
<1>0. P(f)
  <2>1. ASSUME NEW i \in 0..n
        PROVE  f[i] = IF i = 0 THEN <<>>
                      ELSE IF i \in W THEN Append(f[i - 1], s[i]) ELSE f[i - 1]
    <3>1. CASE i = 0
      BY <1>4, <3>1
    <3>2. CASE i # 0
      <4>1. i \in 1..n
        BY <1>1, <3>2
      <4> QED
        BY <1>5, <3>2, <4>1
    <3> QED
      BY <3>1, <3>2
  <2> QED
    BY <2>1
<1>6. Taken(s, W) = CHOOSE g : P(g)
  BY Zenon DEF Taken
<1> DEFINE t == Taken(s, W)
<1>7. P(t)
  <2> HIDE DEF P
  <2> QED
    BY <1>0, <1>6
<1> HIDE DEF t
<1>8. \A i \in 0..n : t[i] = IF i = 0 THEN <<>>
                             ELSE IF i \in W THEN Append(t[i - 1], s[i]) ELSE t[i - 1]
  BY <1>7
<1>9. t[0] = <<>>
  BY <1>1, <1>8
<1>10. \A r \in 1..n : t[r] = IF r \in W THEN Append(t[r - 1], s[r]) ELSE t[r - 1]
  BY <1>1, <1>8
<1>11. t = f
  <2>1. Is(t, n) /\ Is(f, n)
    BY <1>7 DEF Is
  <2>2. Alike(t, f, n)
    BY <1>4, <1>5, <1>9, <1>10, Zenon DEF Alike
  <2> HIDE DEF n, P
  <2> QED
    BY <1>1, <2>1, <2>2, OneFunction
<1> QED
  BY <1>9, <1>10, <1>11 DEF t

\* Of what is wanted, that which is reached up to an index.
UpTo(W, r) == W \cap (1..r)

LEMMA UpToFacts ==
  ASSUME NEW W, NEW r \in Nat
  PROVE  /\ IsFiniteSet(UpTo(W, r)) /\ Cardinality(UpTo(W, r)) \in Nat
         /\ Cardinality(UpTo(W, 0)) = 0
         /\ r + 1 \in W => Cardinality(UpTo(W, r + 1)) = Cardinality(UpTo(W, r)) + 1
         /\ r + 1 \notin W => UpTo(W, r + 1) = UpTo(W, r)
         /\ \A m \in 1..r : /\ Cardinality(UpTo(W, m)) <= Cardinality(UpTo(W, r))
                            /\ m \in W => Cardinality(UpTo(W, m)) > 0
<1>1. ASSUME NEW m \in Nat
      PROVE  IsFiniteSet(UpTo(W, m)) /\ Cardinality(UpTo(W, m)) \in Nat
  <2>1. IsFiniteSet(1..m)
    BY FS_Interval
  <2>2. UpTo(W, m) \subseteq 1..m
    BY DEF UpTo
  <2>3. IsFiniteSet(UpTo(W, m))
    BY <2>1, <2>2, FS_Subset
  <2> QED
    BY <2>3, FS_CardinalityType
<1>2. Cardinality(UpTo(W, 0)) = 0
  <2>1. UpTo(W, 0) = {}
    BY DEF UpTo
  <2> QED
    BY <2>1, FS_EmptySet
<1>3. ASSUME r + 1 \in W PROVE Cardinality(UpTo(W, r + 1)) = Cardinality(UpTo(W, r)) + 1
  <2>1. UpTo(W, r + 1) = UpTo(W, r) \cup {r + 1} /\ r + 1 \notin UpTo(W, r)
    BY <1>3 DEF UpTo
  <2> QED
    BY <1>1, <2>1, FS_AddElement
<1>4. r + 1 \notin W => UpTo(W, r + 1) = UpTo(W, r)
  BY DEF UpTo
<1>5. ASSUME NEW m \in 1..r
      PROVE  /\ Cardinality(UpTo(W, m)) <= Cardinality(UpTo(W, r))
             /\ m \in W => Cardinality(UpTo(W, m)) > 0
  <2>1. UpTo(W, m) \subseteq UpTo(W, r) /\ m \in Nat
    BY DEF UpTo
  <2>2. Cardinality(UpTo(W, m)) <= Cardinality(UpTo(W, r))
    BY <1>1, <2>1, FS_Subset
  <2>3. m \in W => UpTo(W, m) # {}
    BY DEF UpTo
  <2>4. m \in W => Cardinality(UpTo(W, m)) # 0
    BY <1>1, <2>1, <2>3, FS_EmptySet
  <2>5. Cardinality(UpTo(W, m)) \in Nat
    BY <1>1, <2>1
  <2> QED
    BY <2>2, <2>4, <2>5
<1> QED
  BY <1>1, <1>2, <1>3, <1>4, <1>5

\* The place of what is taken is the count of what is wanted so far.
LEMMA TakenPlaces ==
  ASSUME NEW V, NEW s \in Seq(V), NEW W, NEW n \in 0..Len(s)
  PROVE  /\ Taken(s, W)[n] \in Seq(V)
         /\ Len(Taken(s, W)[n]) = Cardinality(UpTo(W, n))
         /\ \A m \in UpTo(W, n) : /\ Taken(s, W)[n][Cardinality(UpTo(W, m))] = s[m]
                                  /\ Cardinality(UpTo(W, m)) \in 1..Len(Taken(s, W)[n])
<1> DEFINE t == Taken(s, W)
           C(r) == Cardinality(UpTo(W, r))
           Ok(r) == Len(t[r]) = C(r) /\ \A m \in UpTo(W, r) : t[r][C(m)] = s[m]
           T == {r \in 0..Len(s) : ~Ok(r)}
<1>1. /\ t \in [0..Len(s) -> Seq(V)] /\ t[0] = <<>>
      /\ \A r \in 1..Len(s) : t[r] = IF r \in W THEN Append(t[r - 1], s[r]) ELSE t[r - 1]
  BY TakenFacts
<1>2. Len(s) \in Nat
  OBVIOUS
<1> HIDE DEF t
<1>3. ASSUME T # {} PROVE FALSE
  <2>1. T \in SUBSET Nat
    OBVIOUS
  <2>2. PICK r \in T : \A q \in T : r <= q
    BY <1>3, <2>1, Least
  <2>3. r \in 0..Len(s) /\ ~Ok(r)
    OBVIOUS
  <2>4. r # 0
    <3>1. C(0) = 0
      BY UpToFacts
    <3>2. UpTo(W, 0) = {}
      BY DEF UpTo
    <3>3. Len(t[0]) = 0
      BY <1>1
    <3>4. Ok(0)
      BY <3>1, <3>2, <3>3
    <3> QED
      BY <2>3, <3>4
  <2> DEFINE p == r - 1
  <2>5. p \in Nat /\ p \in 0..Len(s) /\ p + 1 = r /\ r \in 1..Len(s) /\ ~(r <= p)
    BY <1>2, <2>3, <2>4
  <2>6. p \notin T
    BY <2>2, <2>5
  <2>7. Ok(p)
    BY <2>5, <2>6
  <2>8. t[p] \in Seq(V) /\ s[r] \in V /\ Len(t[p]) = C(p) /\ C(p) \in Nat
    BY <1>1, <2>5, <2>7
  <2>9. t[r] = IF r \in W THEN Append(t[p], s[r]) ELSE t[p]
    BY <1>1, <2>5
  <2>10. /\ r \in W => C(r) = C(p) + 1
         /\ r \notin W => UpTo(W, r) = UpTo(W, p)
         /\ \A m \in 1..p : C(m) <= C(p) /\ (m \in W => C(m) > 0)
    <3> HIDE DEF p
    <3> QED
      BY <2>5, UpToFacts
  <2>11. CASE r \notin W
    BY <2>3, <2>7, <2>9, <2>10, <2>11
  <2>12. CASE r \in W
    <3>1. Len(t[r]) = C(r)
      BY <2>8, <2>9, <2>10, <2>12
    <3>2. ASSUME NEW m \in UpTo(W, r) PROVE t[r][C(m)] = s[m]
      <4>1. CASE m = r
        BY <2>8, <2>9, <2>10, <2>12, <4>1
      <4>2. CASE m # r
        <5>1. m \in 1..p /\ m \in W /\ m \in UpTo(W, p) /\ m \in Nat
          BY <2>5, <4>2 DEF UpTo
        <5>2. C(m) \in Nat
          BY <5>1, UpToFacts
        <5>3. C(m) \in 1..Len(t[p])
          BY <2>8, <2>10, <5>1, <5>2
        <5>4. t[r][C(m)] = t[p][C(m)]
          BY <2>8, <2>9, <2>12, <5>3
        <5> QED
          BY <2>7, <5>1, <5>4
      <4> QED
        BY <4>1, <4>2
    <3> QED
      BY <2>3, <3>1, <3>2
  <2> QED
    BY <2>11, <2>12
<1>4. Ok(n)
  BY <1>3
<1>5. t[n] \in Seq(V)
  BY <1>1
<1>6. ASSUME NEW m \in UpTo(W, n) PROVE C(m) \in 1..Len(t[n])
  <2>1. m \in 1..n /\ m \in W /\ n \in Nat /\ m \in Nat
    BY DEF UpTo
  <2>2. C(m) <= C(n) /\ C(m) > 0 /\ C(m) \in Nat /\ C(n) \in Nat
    BY <2>1, UpToFacts
  <2> QED
    BY <1>4, <2>2
<1> QED
  BY <1>4, <1>5, <1>6 DEF t

-----------------------------------------------------------------------------
(* Sequences after each other.                                             *)

Joined(seqs) == CHOOSE f : f = [i \in 0..Len(seqs) |-> IF i = 0 THEN <<>>
                                                       ELSE f[i - 1] \o seqs[i]]

LEMMA JoinedFacts ==
  ASSUME NEW V, NEW s \in Seq(Seq(V))
  PROVE  /\ Joined(s) \in [0..Len(s) -> Seq(V)] /\ Joined(s)[0] = <<>>
         /\ \A i \in 1..Len(s) : Joined(s)[i] = Joined(s)[i - 1] \o s[i]
         /\ FlattenSeq(s) = Joined(s)[Len(s)]
<1> DEFINE n == Len(s)
           S == Seq(V)
           P(f) == f = [i \in 0..n |-> IF i = 0 THEN <<>> ELSE f[i - 1] \o s[i]]
           G == [p \in (1..n) \X S |-> p[2] \o s[p[1]]]
<1>1. n \in Nat /\ <<>> \in S /\ \A i \in 1..n : s[i] \in S
  OBVIOUS
<1>2. G \in Steps(n, S)
  <2>1. ASSUME NEW p \in (1..n) \X S PROVE p[2] \o s[p[1]] \in S
    <3>1. p[1] \in 1..n /\ p[2] \in Seq(V) /\ s[p[1]] \in Seq(V)
      BY <1>1
    <3> QED
      BY <3>1
  <2> QED
    BY <2>1 DEF Steps
<1>3. \A i \in 1..n, x \in S : G[<<i, x>>] = x \o s[i]
  OBVIOUS
<1> HIDE DEF G
<1>4. PICK f \in [0..n -> S] : f[0] = <<>> /\ \A i \in 1..n : f[i] = G[<<i, f[i - 1]>>]
  <2>1. \E f : Carries(f, n, S, <<>>, G)
    <3> HIDE DEF n, S
    <3> QED
      BY <1>1, <1>2, CarriedOn
  <2> QED
    BY <2>1 DEF Carries
<1>5. \A i \in 1..n : f[i] = f[i - 1] \o s[i]
  <2>1. ASSUME NEW i \in 1..n PROVE f[i] = f[i - 1] \o s[i]
    <3>1. i - 1 \in 0..n
      BY <1>1
    <3>2. f[i - 1] \in S
      BY <3>1
    <3>3. f[i] = G[<<i, f[i - 1]>>]
      BY <1>4
    <3> QED
      BY <1>3, <3>2, <3>3
  <2> QED
    BY <2>1
<1>6. P(f)
  <2>1. ASSUME NEW i \in 0..n PROVE f[i] = IF i = 0 THEN <<>> ELSE f[i - 1] \o s[i]
    <3>1. CASE i = 0
      BY <1>4, <3>1
    <3>2. CASE i # 0
      <4>1. i \in 1..n
        BY <1>1, <3>2
      <4> QED
        BY <1>5, <3>2, <4>1
    <3> QED
      BY <3>1, <3>2
  <2> QED
    BY <2>1
<1>7. Joined(s) = CHOOSE g : P(g)
  BY Zenon DEF Joined
<1> DEFINE t == Joined(s)
<1>8. P(t)
  <2> HIDE DEF P
  <2> QED
    BY <1>6, <1>7
<1> HIDE DEF t
<1>9. \A i \in 0..n : t[i] = IF i = 0 THEN <<>> ELSE t[i - 1] \o s[i]
  BY <1>8
<1>10. t[0] = <<>>
  BY <1>1, <1>9
<1>11. \A i \in 1..n : t[i] = t[i - 1] \o s[i]
  <2>1. \A i \in 1..n : i \in 0..n /\ i # 0
    BY <1>1
  <2> QED
    BY <1>9, <2>1, Zenon
<1>12. t = f
  <2>1. Is(t, n) /\ Is(f, n)
    BY <1>8 DEF Is
  <2>2. Alike(t, f, n)
    BY <1>4, <1>5, <1>10, <1>11, Zenon DEF Alike
  <2> HIDE DEF n, P
  <2> QED
    BY <1>1, <2>1, <2>2, OneFunction
<1>14. n # 0 => t[1] = t[0] \o s[1]
  <2>1. n # 0 => 1 \in 1..n
    BY <1>1
  <2>2. 1 - 1 = 0
    OBVIOUS
  <2> QED
    BY <1>11, <2>1, <2>2
<1>13. FlattenSeq(s) = t[n]
  <2>1. CASE n = 0
    <3>1. s = <<>> /\ FlattenSeq(s) = s
      BY <2>1 DEF FlattenSeq
    <3> QED
      BY <1>10, <2>1, <3>1
  <2>2. CASE n # 0
    <3> DEFINE Q(g) == g = [i \in 1..n |-> IF i = 1 THEN s[i] ELSE g[i - 1] \o s[i]]
               h == [i \in 1..n |-> t[i]]
    <3>1. FlattenSeq(s) = (CHOOSE g : Q(g))[n]
      BY <2>2, Zenon DEF FlattenSeq
    <3>2. Q(h)
      <4>1. ASSUME NEW i \in 1..n PROVE h[i] = IF i = 1 THEN s[i] ELSE h[i - 1] \o s[i]
        <5>1. CASE i = 1
          <6>1. t[1] = <<>> \o s[1] /\ s[1] \in Seq(V)
            BY <1>1, <1>10, <1>14, <5>1
          <6> QED
            BY <5>1, <6>1
        <5>2. CASE i # 1
          <6>1. i - 1 \in 1..n
            BY <1>1, <5>2
          <6> QED
            BY <1>11, <5>2, <6>1
        <5> QED
          BY <5>1, <5>2
      <4> QED
        BY <4>1
    <3> DEFINE g == CHOOSE u : Q(u)
    <3>3. Q(g)
      <4> HIDE DEF Q, h
      <4> QED
        BY <3>2
    <3> HIDE DEF g
    <3>4. \A i \in 1..n : g[i] = IF i = 1 THEN s[i] ELSE g[i - 1] \o s[i]
      BY <3>3
    <3> DEFINE k == [i \in 0..n |-> IF i = 0 THEN <<>> ELSE g[i]]
    <3>5. k[0] = <<>> /\ \A i \in 1..n : k[i] = g[i]
      BY <1>1
    <3>6. Is(k, n) /\ Is(t, n)
      BY <1>8 DEF Is
    <3>7. Alike(k, t, n)
      <4>1. ASSUME NEW i \in 1..n, k[i - 1] = t[i - 1] PROVE k[i] = t[i]
        <5>1. CASE i = 1
          <6>1. t[1] = <<>> \o s[1] /\ s[1] \in Seq(V)
            BY <1>1, <1>10, <1>14, <5>1
          <6> QED
            BY <3>4, <3>5, <5>1, <6>1
        <5>2. CASE i # 1
          <6>1. i - 1 \in 1..n
            BY <1>1, <5>2
          <6>2. k[i - 1] = g[i - 1] /\ k[i] = g[i] /\ g[i] = g[i - 1] \o s[i]
            BY <3>4, <3>5, <5>2, <6>1
          <6> QED
            BY <1>11, <4>1, <6>2
        <5> QED
          BY <5>1, <5>2
      <4> HIDE DEF k
      <4> QED
        BY <1>10, <3>5, <4>1, Zenon DEF Alike
    <3>8. k = t
      <4> HIDE DEF k, n, P
      <4> QED
        BY <1>1, <3>6, <3>7, OneFunction
    <3>9. n \in 1..n
      BY <1>1, <2>2
    <3> HIDE DEF k
    <3> QED
      BY <3>1, <3>5, <3>8, <3>9 DEF g
  <2> QED
    BY <2>1, <2>2
<1> QED
  BY <1>10, <1>11, <1>12, <1>13 DEF t

-----------------------------------------------------------------------------
(* The command line. *)

\* No column is asked for twice.
Args == {t \in [flags : SUBSET {o.opt : o \in Options}, l : Seq(AnyKey), u : Seq(AnyKey),
                order : Seq(ToSet(Columns)), ok : BOOLEAN] :
           t.ok => /\ \A i \in 1..Len(t.order) : t.order[i] \in t.flags
                   /\ \A i, j \in 1..Len(t.order) : t.order[i] = t.order[j] => i = j}

LEMMA ColumnFacts ==
  /\ Len(Columns) = 6 /\ Columns \in Seq(ToSet(Columns))
  /\ \A n \in 1..6 : Columns[n] \in ToSet(Columns) /\ Position(Columns[n]) = n
  /\ \A x \in ToSet(Columns) : Position(x) \in 1..6 /\ Columns[Position(x)] = x
  /\ "l" \notin ToSet(Columns) /\ "u" \notin ToSet(Columns)
<1>1. Len(Columns) = 6 /\ DOMAIN Columns = 1..6
  BY DEF Columns
<1>2. ToSet(Columns) = {Columns[n] : n \in 1..6}
  BY <1>1 DEF ToSet
<1>3. Columns \in Seq(ToSet(Columns))
  <2> DEFINE T == ToSet(Columns)
  <2>1. \A n \in 1..6 : Columns[n] \in T
    BY <1>2
  <2> HIDE DEF T
  <2>2. Columns \in Seq(T)
    BY <2>1 DEF Columns
  <2> QED
    BY <2>2 DEF T
<1>4. \A n, m \in 1..6 : Columns[n] = Columns[m] => n = m
  BY DEF Columns
<1>5. ASSUME NEW n \in 1..6 PROVE Position(Columns[n]) = n
  BY <1>1, <1>4 DEF Position
<1>6. \A x \in ToSet(Columns) : Position(x) \in 1..6 /\ Columns[Position(x)] = x
  BY <1>2, <1>5
<1>7. "l" \notin ToSet(Columns) /\ "u" \notin ToSet(Columns)
  <2>1. \A n \in 1..6 : Columns[n] # "l" /\ Columns[n] # "u"
    BY DEF Columns
  <2> QED
    BY <1>2, <2>1
<1> QED
  BY <1>1, <1>2, <1>3, <1>5, <1>6, <1>7

LEMMA ParsesOption ==
  ASSUME NamesAssumption, NEW t \in Args, NEW o \in Options
  PROVE  ParseOption(t, o) \in Args
<1> DEFINE s == SetFlag(t, o.opt)
<1>1. /\ t = [flags |-> t.flags, l |-> t.l, u |-> t.u, order |-> t.order, ok |-> t.ok]
      /\ t.flags \subseteq {p.opt : p \in Options} /\ t.l \in Seq(AnyKey) /\ t.u \in Seq(AnyKey)
      /\ t.order \in Seq(ToSet(Columns)) /\ t.ok \in BOOLEAN
      /\ t.ok => /\ \A i \in 1..Len(t.order) : t.order[i] \in t.flags
                 /\ \A i, j \in 1..Len(t.order) : t.order[i] = t.order[j] => i = j
  BY DEF Args
<1>2. o.keys \in Seq(AnyKey) /\ o.opt \in {p.opt : p \in Options}
  BY DEF NamesAssumption
<1> DEFINE F == (t.flags \cup {o.opt}) \ CASE o.opt = "l" -> {"u"} [] o.opt = "u" -> {"l"}
                                           [] OTHER -> {}
           K == t.ok /\ o.opt \notin t.flags
<1>3. s = [t EXCEPT !.ok = K, !.flags = F]
  BY DEF SetFlag
<1>4. /\ F \subseteq {p.opt : p \in Options} /\ K \in BOOLEAN
      /\ \A x \in ToSet(Columns) : x \in t.flags \cup {o.opt} => x \in F
      /\ K => t.ok /\ o.opt \notin t.flags
  <2>1. F \subseteq {p.opt : p \in Options} /\ K \in BOOLEAN /\ (K => t.ok /\ o.opt \notin t.flags)
    BY <1>1, <1>2
  <2>2. ASSUME NEW x \in ToSet(Columns), x \in t.flags \cup {o.opt} PROVE x \in F
    <3>1. x # "l" /\ x # "u"
      BY ColumnFacts
    <3> QED
      BY <2>2, <3>1
  <2> QED
    BY <2>1, <2>2
<1> HIDE DEF F, K
<1>11. s = [flags |-> F, l |-> t.l, u |-> t.u, order |-> t.order, ok |-> K]
  <2>1. s = [[t EXCEPT !.ok = K] EXCEPT !.flags = F]
    BY <1>3
  <2>2. [t EXCEPT !.ok = K] = [flags |-> t.flags, l |-> t.l, u |-> t.u, order |-> t.order, ok |-> K]
    BY <1>1
  <2> HIDE DEF s
  <2>3. [[flags |-> t.flags, l |-> t.l, u |-> t.u, order |-> t.order, ok |-> K] EXCEPT !.flags = F]
        = [flags |-> F, l |-> t.l, u |-> t.u, order |-> t.order, ok |-> K]
    OBVIOUS
  <2> QED
    BY <2>1, <2>2, <2>3
<1>5. \A i \in 1..Len(t.order) : t.order[i] \in ToSet(Columns)
  BY <1>1
<1>6. s \in Args
  <2>1. K => \A i \in 1..Len(t.order) : t.order[i] \in F
    BY <1>1, <1>4, <1>5
  <2> QED
    BY <1>1, <1>4, <1>11, <2>1 DEF Args
<1>7. CASE o.opt = "l"
  <2>1. ParseOption(t, o) = [flags |-> F, l |-> t.l \o o.keys, u |-> t.u, order |-> t.order, ok |-> K]
    <3>1. ParseOption(t, o) = [s EXCEPT !.l = @ \o o.keys]
      BY <1>7, ColumnFacts DEF ParseOption
    <3> HIDE DEF s
    <3> QED
      BY <1>11, <3>1
  <2>2. t.l \o o.keys \in Seq(AnyKey)
    BY <1>1, <1>2
  <2>3. K => \A i \in 1..Len(t.order) : t.order[i] \in F
    BY <1>1, <1>4, <1>5
  <2> QED
    BY <1>1, <1>4, <2>1, <2>2, <2>3 DEF Args
<1>8. CASE o.opt = "u"
  <2>1. ParseOption(t, o) = [flags |-> F, l |-> t.l, u |-> t.u \o o.keys, order |-> t.order, ok |-> K]
    <3>1. ParseOption(t, o) = [s EXCEPT !.u = @ \o o.keys]
      BY <1>8, ColumnFacts DEF ParseOption
    <3> HIDE DEF s
    <3> QED
      BY <1>11, <3>1
  <2>2. t.u \o o.keys \in Seq(AnyKey)
    BY <1>1, <1>2
  <2>3. K => \A i \in 1..Len(t.order) : t.order[i] \in F
    BY <1>1, <1>4, <1>5
  <2> QED
    BY <1>1, <1>4, <2>1, <2>2, <2>3 DEF Args
<1>9. CASE o.opt \in ToSet(Columns)
  <2> DEFINE q == Append(t.order, o.opt)
             n == Len(t.order)
  <2>1. o.opt # "l" /\ o.opt # "u"
    BY <1>9, ColumnFacts
  <2>2. ParseOption(t, o) = [flags |-> F, l |-> t.l, u |-> t.u, order |-> q, ok |-> K]
    <3>1. ParseOption(t, o) = [s EXCEPT !.order = Append(@, o.opt)]
      BY <1>9, <2>1 DEF ParseOption
    <3> HIDE DEF s
    <3> QED
      BY <1>11, <3>1
  <2>3. /\ n \in Nat /\ Len(q) = n + 1 /\ q[n + 1] = o.opt /\ \A i \in 1..n : q[i] = t.order[i]
        /\ q \in Seq(ToSet(Columns))
    BY <1>1, <1>9
  <2> HIDE DEF q, n
  <2>4. ASSUME K, NEW i \in 1..Len(q) PROVE q[i] \in F
    <3>1. CASE i = n + 1
      BY <1>4, <1>9, <2>3, <3>1
    <3>2. CASE i # n + 1
      <4>1. i \in 1..n
        BY <2>3, <3>2
      <4>2. q[i] = t.order[i] /\ t.order[i] \in t.flags /\ t.order[i] \in ToSet(Columns)
        BY <1>1, <1>4, <1>5, <2>3, <2>4, <4>1 DEF n
      <4> QED
        BY <1>4, <4>2
    <3> QED
      BY <3>1, <3>2
  <2>5. ASSUME K, NEW i \in 1..Len(q), NEW j \in 1..Len(q), q[i] = q[j] PROVE i = j
    <3>1. \A m \in 1..n : q[m] # o.opt
      BY <1>1, <1>4, <2>3, <2>5 DEF n
    <3>2. i \in 1..n \/ i = n + 1
      BY <2>3
    <3>3. j \in 1..n \/ j = n + 1
      BY <2>3
    <3>4. CASE i \in 1..n /\ j \in 1..n
      BY <1>1, <1>4, <2>3, <2>5, <3>4 DEF n
    <3>5. CASE i = n + 1 \/ j = n + 1
      BY <2>3, <2>5, <3>1, <3>2, <3>3, <3>5
    <3> QED
      BY <3>2, <3>3, <3>4, <3>5
  <2> QED
    BY <1>1, <1>4, <2>2, <2>3, <2>4, <2>5 DEF Args
<1>10. CASE o.opt \notin {"l", "u"} /\ o.opt \notin ToSet(Columns)
  <2>1. ParseOption(t, o) = s
    BY <1>10 DEF ParseOption
  <2> QED
    BY <1>6, <2>1
<1> QED
  BY <1>7, <1>8, <1>9, <1>10

LEMMA NoArgsParsed == NoArgs \in Args
<1>1. <<>> \in Seq(AnyKey) /\ <<>> \in Seq(ToSet(Columns)) /\ Len(<<>>) = 0 /\ 1..0 = {}
  OBVIOUS
<1> QED
  BY <1>1 DEF NoArgs, Args

LEMMA ArgsParsed ==
  ASSUME NamesAssumption, NEW options \in Seq(Options)
  PROVE  Parsed(options) \in Args
<1> DEFINE n == Len(options)
           P(f) == f = [i \in 0..n |-> IF i = 0 THEN NoArgs ELSE ParseOption(f[i - 1], options[i])]
           G == [p \in (1..n) \X Args |-> ParseOption(p[2], options[p[1]])]
<1>1. n \in Nat /\ NoArgs \in Args /\ \A i \in 1..n : options[i] \in Options
  BY NoArgsParsed
<1>2. G \in Steps(n, Args)
  <2>1. ASSUME NEW p \in (1..n) \X Args PROVE ParseOption(p[2], options[p[1]]) \in Args
    <3>1. p[1] \in 1..n /\ p[2] \in Args
      OBVIOUS
    <3> QED
      BY <1>1, <3>1, ParsesOption
  <2> QED
    BY <2>1 DEF Steps
<1>3. \A i \in 1..n, x \in Args : G[<<i, x>>] = ParseOption(x, options[i])
  OBVIOUS
<1> HIDE DEF G
<1>4. PICK f \in [0..n -> Args] : f[0] = NoArgs /\ \A i \in 1..n : f[i] = G[<<i, f[i - 1]>>]
  <2>1. \E f : Carries(f, n, Args, NoArgs, G)
    <3> HIDE DEF n
    <3> QED
      BY <1>1, <1>2, CarriedOn
  <2> QED
    BY <2>1 DEF Carries
<1>5. \A i \in 1..n : f[i] = ParseOption(f[i - 1], options[i])
  <2>1. ASSUME NEW i \in 1..n PROVE f[i] = ParseOption(f[i - 1], options[i])
    <3>1. i - 1 \in 0..n
      BY <1>1
    <3>2. f[i - 1] \in Args
      BY <3>1
    <3>3. f[i] = G[<<i, f[i - 1]>>]
      BY <1>4
    <3> QED
      BY <1>3, <3>2, <3>3
  <2> QED
    BY <2>1
<1>6. P(f)
  <2>1. ASSUME NEW i \in 0..n
        PROVE  f[i] = IF i = 0 THEN NoArgs ELSE ParseOption(f[i - 1], options[i])
    <3>1. CASE i = 0
      BY <1>4, <3>1
    <3>2. CASE i # 0
      <4>1. i \in 1..n
        BY <1>1, <3>2
      <4> QED
        BY <1>5, <3>2, <4>1
    <3> QED
      BY <3>1, <3>2
  <2> QED
    BY <2>1
<1> DEFINE t == CHOOSE g : P(g)
<1>7. Parsed(options) = t[n]
  BY Zenon DEF Parsed
<1>8. P(t)
  <2> HIDE DEF P
  <2> QED
    BY <1>6
<1> HIDE DEF t
<1>9. \A i \in 0..n : t[i] = IF i = 0 THEN NoArgs ELSE ParseOption(t[i - 1], options[i])
  BY <1>8
<1>10. t[0] = NoArgs
  BY <1>1, <1>9
<1>11. \A i \in 1..n : t[i] = ParseOption(t[i - 1], options[i])
  <2>1. \A i \in 1..n : i \in 0..n /\ i # 0
    BY <1>1
  <2> QED
    BY <1>9, <2>1, Zenon
<1>12. t = f
  <2>1. Is(t, n) /\ Is(f, n)
    BY <1>8 DEF Is
  <2>2. Alike(t, f, n)
    BY <1>4, <1>5, <1>10, <1>11, Zenon DEF Alike
  <2> HIDE DEF n, P
  <2> QED
    BY <1>1, <2>1, <2>2, OneFunction
<1>13. n \in 0..n
  BY <1>1
<1> QED
  BY <1>7, <1>12, <1>13

-----------------------------------------------------------------------------
(* The columns of a record.                                                *)

\* A function onto a finite set that takes no value twice counts it.
LEMMA CountedOnce ==
  ASSUME NEW S, NEW T, IsFiniteSet(T), NEW f \in [S -> T],
         \A x, y \in S : f[x] = f[y] => x = y, \A z \in T : \E x \in S : f[x] = z
  PROVE  Cardinality(S) = Cardinality(T)
<1>1. f \in Injection(S, T)
  BY DEF Injection, IsInjective
<1>2. f \in Surjection(S, T)
  BY DEF Surjection
<1> QED
  BY <1>1, <1>2, FS_Injection

\* What the server is asked for: the places of the columns in the table.
Wanted(a) == {n \in 1..Len(Columns) : Contains(a.order, Columns[n])}
Row       == [ToSet(Columns) -> Value]

LEMMA RankCounts ==
  ASSUME NEW a \in Args, a.ok, NEW k \in 1..Len(a.order)
  PROVE  /\ Position(a.order[k]) \in Wanted(a) /\ Position(a.order[k]) \in 1..6
         /\ Rank(a.order, k) = Cardinality(UpTo(Wanted(a), Position(a.order[k])))
<1> DEFINE o == a.order
           P(j) == Position(o[j])
           m == P(k)
           J == {j \in 1..Len(o) : P(k) > P(j)}
           T == UpTo(Wanted(a), m - 1)
           f == [j \in J |-> P(j)]
<1>1. /\ o \in Seq(ToSet(Columns)) /\ Len(o) \in Nat
      /\ \A i, j \in 1..Len(o) : o[i] = o[j] => i = j
  BY DEF Args
<1>2. \A j \in 1..Len(o) : P(j) \in 1..6 /\ Columns[P(j)] = o[j] /\ P(j) \in Wanted(a)
  <2>1. ASSUME NEW j \in 1..Len(o)
        PROVE  P(j) \in 1..6 /\ Columns[P(j)] = o[j] /\ P(j) \in Wanted(a)
    <3>1. o[j] \in ToSet(Columns)
      BY <1>1
    <3>2. P(j) \in 1..6 /\ Columns[P(j)] = o[j]
      BY <3>1, ColumnFacts
    <3>3. Contains(o, Columns[P(j)])
      BY <3>2 DEF Contains
    <3> QED
      BY <3>2, <3>3, ColumnFacts DEF Wanted
  <2> QED
    BY <2>1
<1>3. m \in 1..6 /\ m - 1 \in Nat /\ (m - 1) + 1 = m /\ m \in Wanted(a)
  <2>1. m \in 1..6 /\ m \in Wanted(a)
    BY <1>2
  <2> HIDE DEF m
  <2> QED
    BY <2>1
<1>4. IsFiniteSet(T) /\ Cardinality(UpTo(Wanted(a), m)) = Cardinality(T) + 1
  BY <1>3, UpToFacts
<1>5. ASSUME NEW j \in J PROVE P(j) \in T
  <2>1. j \in 1..Len(o) /\ m > P(j)
    OBVIOUS
  <2>2. P(j) \in 1..6 /\ P(j) \in Wanted(a)
    BY <1>2, <2>1
  <2> HIDE DEF P, m
  <2>3. P(j) \in 1..m - 1
    BY <1>3, <2>1, <2>2
  <2> QED
    BY <2>2, <2>3 DEF UpTo
<1>6. \A x, y \in J : P(x) = P(y) => x = y
  BY <1>1, <1>2
<1>7. ASSUME NEW z \in T PROVE \E x \in J : P(x) = z
  <2>1. z \in 1..6 /\ z < m /\ Contains(o, Columns[z])
    BY <1>3, ColumnFacts DEF UpTo, Wanted
  <2>2. PICK j \in 1..Len(o) : o[j] = Columns[z]
    BY <2>1 DEF Contains
  <2>3. P(j) = z
    BY <2>1, <2>2, ColumnFacts
  <2> QED
    BY <1>3, <2>1, <2>3
<1>8. f \in [J -> T] /\ \A j \in J : f[j] = P(j)
  BY <1>5
<1> HIDE DEF f, T, J
<1>9. Cardinality(J) = Cardinality(T)
  <2>1. \A x, y \in J : f[x] = f[y] => x = y
    BY <1>6, <1>8
  <2>2. \A z \in T : \E x \in J : f[x] = z
    BY <1>7, <1>8
  <2> QED
    BY <1>4, <1>8, <2>1, <2>2, CountedOnce
<1>10. Rank(o, k) = 1 + Cardinality(J)
  BY DEF Rank, J
<1>11. Cardinality(T) \in Nat
  BY <1>4, FS_CardinalityType
<1> QED
  BY <1>3, <1>4, <1>9, <1>10, <1>11

LEMMA AnswerFits ==
  ASSUME NamesAssumption, NEW a \in Args, NEW u \in Row
  PROVE  /\ AddToRecords(a, u) \in Seq(Value)
         /\ a.ok => \A k \in 1..Len(a.order) :
                      AddToRecords(a, u)[Rank(a.order, k)] = u[a.order[k]]
<1> DEFINE s == [n \in 1..Len(Columns) |-> u[Columns[n]]]
<1>1. s \in Seq(Value) /\ Len(s) = 6 /\ \A n \in 1..6 : s[n] = u[Columns[n]]
  <2>1. \A n \in 1..6 : u[Columns[n]] \in Value
    BY ColumnFacts DEF Row
  <2> QED
    BY <2>1, ColumnFacts
<1>2. AddToRecords(a, u) = Taken(s, Wanted(a))[6]
  BY ColumnFacts DEF AddToRecords, Wanted
<1> HIDE DEF s
<1>3. 6 \in 0..Len(s)
  BY <1>1
<1>4. /\ Taken(s, Wanted(a))[6] \in Seq(Value)
      /\ \A m \in UpTo(Wanted(a), 6) :
           Taken(s, Wanted(a))[6][Cardinality(UpTo(Wanted(a), m))] = s[m]
  BY <1>1, <1>3, TakenPlaces
<1>5. ASSUME a.ok, NEW k \in 1..Len(a.order)
      PROVE  AddToRecords(a, u)[Rank(a.order, k)] = u[a.order[k]]
  <2>1. /\ Position(a.order[k]) \in Wanted(a) /\ Position(a.order[k]) \in 1..6
        /\ Rank(a.order, k) = Cardinality(UpTo(Wanted(a), Position(a.order[k])))
    BY <1>5, RankCounts
  <2>2. a.order[k] \in ToSet(Columns)
    BY DEF Args
  <2>3. Columns[Position(a.order[k])] = a.order[k]
    BY <2>2, ColumnFacts
  <2>4. Position(a.order[k]) \in UpTo(Wanted(a), 6)
    BY <2>1 DEF UpTo
  <2> QED
    BY <1>1, <1>2, <1>4, <2>1, <2>3, <2>4
<1> QED
  BY <1>2, <1>4, <1>5

\* The client puts the columns of an answer back into the order of its command line.
LEMMA LineFits ==
  ASSUME NamesAssumption, NEW a \in Args, a.ok, NEW u \in Row, NEW i
  PROVE  Line(a, i, AddToRecords(a, u)) = ColumnsOf(a, u)
<1>1. AddToRecords(a, u) # NotFound
  BY AnswerFits DEF NamesAssumption
<1>2. \A k \in 1..Len(a.order) : AddToRecords(a, u)[Rank(a.order, k)] = u[a.order[k]]
  BY AnswerFits
<1>3. Line(a, i, AddToRecords(a, u))
      = [k \in 1..Len(a.order) |-> AddToRecords(a, u)[Rank(a.order, k)]]
  BY <1>1 DEF Line
<1> QED
  BY <1>2, <1>3 DEF ColumnsOf

-----------------------------------------------------------------------------
(* The lines for a key.                                                    *)

AnyLine       == Seq(Value) \cup {Missing(k) : k \in AnyKey}
HitsTo(a, k, r) == Taken(Users, RowsFor(a, k))[r]

\* The lines for the rows that the search has come to.
LinesTo(a, k, r) == [i \in 1..Len(HitsTo(a, k, r)) |-> ColumnsOf(a, HitsTo(a, k, r)[i])]

LEMMA RowFacts ==
  ASSUME NamesAssumption
  PROVE  /\ Users \in Seq(Row) /\ Len(Users) \in Nat
         /\ \A r \in 1..Len(Users) : Users[r] \in Row
<1>1. Users \in Seq(Row)
  BY DEF NamesAssumption, Row
<1> QED
  BY <1>1

LEMMA ColumnsFit ==
  ASSUME NEW a \in Args, NEW u \in Row
  PROVE  ColumnsOf(a, u) \in Seq(Value)
<1>1. \A i \in 1..Len(a.order) : a.order[i] \in ToSet(Columns)
  BY DEF Args
<1>2. Len(a.order) \in Nat
  BY DEF Args
<1> QED
  BY <1>1, <1>2 DEF ColumnsOf, Row

LEMMA LinesToFacts ==
  ASSUME NamesAssumption, NEW a \in Args, NEW k
  PROVE  /\ LinesTo(a, k, 0) = <<>>
         /\ \A r \in 0..Len(Users) : /\ LinesTo(a, k, r) \in Seq(Seq(Value))
                                     /\ Len(LinesTo(a, k, r)) = Cardinality(UpTo(RowsFor(a, k), r))
         /\ \A r \in 1..Len(Users) :
              LinesTo(a, k, r) = IF r \in RowsFor(a, k)
                                 THEN Append(LinesTo(a, k, r - 1), ColumnsOf(a, Users[r]))
                                 ELSE LinesTo(a, k, r - 1)
<1> DEFINE W == RowsFor(a, k)
           h(r) == HitsTo(a, k, r)
<1>1. /\ \A r \in 0..Len(Users) : h(r) \in Seq(Row)
      /\ h(0) = <<>>
      /\ \A r \in 1..Len(Users) : h(r) = IF r \in W THEN Append(h(r - 1), Users[r]) ELSE h(r - 1)
  <2> HIDE DEF W
  <2>1. /\ Taken(Users, W) \in [0..Len(Users) -> Seq(Row)] /\ Taken(Users, W)[0] = <<>>
        /\ \A r \in 1..Len(Users) :
             Taken(Users, W)[r] = IF r \in W THEN Append(Taken(Users, W)[r - 1], Users[r])
                                  ELSE Taken(Users, W)[r - 1]
    BY RowFacts, TakenFacts
  <2> QED
    BY <2>1 DEF HitsTo, W
<1>2. ASSUME NEW r \in 0..Len(Users) PROVE Len(h(r)) = Cardinality(UpTo(W, r))
  BY RowFacts, TakenPlaces DEF HitsTo
<1> HIDE DEF h, W
<1>3. \A r : LinesTo(a, k, r) = [i \in 1..Len(h(r)) |-> ColumnsOf(a, h(r)[i])]
  BY DEF LinesTo, h
<1>4. LinesTo(a, k, 0) = <<>>
  BY <1>1, <1>3
<1>5. ASSUME NEW r \in 0..Len(Users)
      PROVE  LinesTo(a, k, r) \in Seq(Seq(Value)) /\ Len(LinesTo(a, k, r)) = Len(h(r))
  <2>1. h(r) \in Seq(Row) /\ Len(h(r)) \in Nat
    BY <1>1
  <2>2. \A i \in 1..Len(h(r)) : ColumnsOf(a, h(r)[i]) \in Seq(Value)
    BY <2>1, ColumnsFit
  <2> QED
    BY <1>3, <2>1, <2>2
<1>6. ASSUME NEW r \in 1..Len(Users)
      PROVE  LinesTo(a, k, r) = IF r \in W
                                THEN Append(LinesTo(a, k, r - 1), ColumnsOf(a, Users[r]))
                                ELSE LinesTo(a, k, r - 1)
  <2>1. r - 1 \in 0..Len(Users)
    BY RowFacts
  <2>2. CASE r \in W
    <3> DEFINE g == h(r - 1)
               n == Len(g)
    <3>1. g \in Seq(Row) /\ n \in Nat /\ h(r) = Append(g, Users[r])
      BY <1>1, <2>1, <2>2
    <3> HIDE DEF g
    <3>2. Len(h(r)) = n + 1 /\ h(r)[n + 1] = Users[r] /\ \A i \in 1..n : h(r)[i] = g[i]
      BY <3>1
    <3>3. LinesTo(a, k, r - 1) = [i \in 1..n |-> ColumnsOf(a, g[i])]
      BY <1>3 DEF g
    <3>4. LinesTo(a, k, r) = [i \in 1..n + 1 |-> ColumnsOf(a, h(r)[i])]
      BY <1>3, <3>2
    <3>5. LinesTo(a, k, r - 1) \in Seq(Seq(Value)) /\ Len(LinesTo(a, k, r - 1)) = n
      BY <1>5, <2>1 DEF g
    <3> DEFINE A == Append(LinesTo(a, k, r - 1), ColumnsOf(a, Users[r]))
    <3>6. /\ Len(A) = n + 1 /\ DOMAIN A = 1..n + 1 /\ A = [i \in 1..n + 1 |-> A[i]]
          /\ A[n + 1] = ColumnsOf(a, Users[r])
          /\ \A i \in 1..n : A[i] = LinesTo(a, k, r - 1)[i]
      BY <3>1, <3>5
    <3> HIDE DEF A, n
    <3>7. ASSUME NEW i \in 1..n + 1 PROVE A[i] = ColumnsOf(a, h(r)[i])
      <4>1. CASE i = n + 1
        BY <3>2, <3>6, <4>1
      <4>2. CASE i # n + 1
        <5>1. i \in 1..n
          BY <3>1, <4>2
        <5>2. LinesTo(a, k, r - 1)[i] = ColumnsOf(a, g[i])
          BY <3>3, <5>1
        <5> QED
          BY <3>2, <3>6, <5>1, <5>2
      <4> QED
        BY <4>1, <4>2
    <3>8. LinesTo(a, k, r) = A
      BY <3>4, <3>6, <3>7
    <3> QED
      BY <2>2, <3>8 DEF A
  <2>3. CASE r \notin W
    <3>1. h(r) = h(r - 1)
      BY <1>1, <2>3
    <3>2. LinesTo(a, k, r) = LinesTo(a, k, r - 1)
      BY <1>3, <3>1
    <3> QED
      BY <2>3, <3>2
  <2> QED
    BY <2>2, <2>3
<1> QED
  BY <1>2, <1>4, <1>5, <1>6 DEF W

LEMMA LinesForFacts ==
  ASSUME NamesAssumption, NEW a \in Args, NEW k \in AnyKey
  PROVE  /\ LinesFor(a, k) \in Seq(AnyLine) /\ Len(LinesFor(a, k)) > 0
         /\ RowsFor(a, k) = {} => LinesFor(a, k) = <<Missing(k)>>
         /\ LinesTo(a, k, Len(Users)) = <<>> => RowsFor(a, k) = {}
         /\ ~ByLogin(a) /\ LinesTo(a, k, Len(Users)) # <<>>
              => LinesFor(a, k) = LinesTo(a, k, Len(Users))
         /\ ByLogin(a) => \A r \in RowsFor(a, k) :
              LinesTo(a, k, r - 1) = <<>> => LinesFor(a, k) = <<ColumnsOf(a, Users[r])>>
<1> DEFINE N == Len(Users)
           W == RowsFor(a, k)
           h == HitsTo(a, k, N)
           C(r) == Cardinality(UpTo(W, r))
<1>1. N \in Nat /\ N \in 0..N /\ W \subseteq 1..N
  BY RowFacts DEF RowsFor
<1>2. /\ h \in Seq(Row) /\ Len(h) = C(N)
      /\ \A m \in UpTo(W, N) : h[C(m)] = Users[m] /\ C(m) \in 1..Len(h)
  BY <1>1, RowFacts, TakenPlaces DEF HitsTo
<1>3. UpTo(W, N) = W
  BY <1>1 DEF UpTo
<1>4. LinesFor(a, k) = IF h = <<>> THEN <<Missing(k)>>
                       ELSE [i \in 1..(IF ByLogin(a) THEN 1 ELSE Len(h)) |-> ColumnsOf(a, h[i])]
  BY DEF LinesFor, HitsTo
<1>5. LinesTo(a, k, N) = [i \in 1..Len(h) |-> ColumnsOf(a, h[i])]
  BY DEF LinesTo
<1> HIDE DEF h, W, N
<1>6. h = <<>> <=> W = {}
  <2>1. ASSUME W = {} PROVE h = <<>>
    <3>1. C(N) = 0
      BY <1>3, <2>1, FS_EmptySet
    <3> QED
      BY <1>2, <3>1
  <2>2. ASSUME NEW m \in W PROVE h # <<>>
    <3>1. C(m) \in 1..Len(h)
      BY <1>2, <1>3
    <3> QED
      BY <3>1
  <2> QED
    BY <2>1, <2>2
<1>7. \A i \in 1..Len(h) : ColumnsOf(a, h[i]) \in Seq(Value)
  BY <1>2, ColumnsFit
<1>8. h # <<>> => Len(h) \in Nat /\ Len(h) > 0
  BY <1>2
<1>9. LinesFor(a, k) \in Seq(AnyLine) /\ Len(LinesFor(a, k)) > 0
  <2>1. CASE h = <<>>
    <3>1. Missing(k) \in AnyLine
      BY DEF AnyLine
    <3> QED
      BY <1>4, <2>1, <3>1
  <2>2. CASE h # <<>>
    <3> DEFINE n == IF ByLogin(a) THEN 1 ELSE Len(h)
    <3>1. n \in Nat /\ n > 0 /\ \A i \in 1..n : i \in 1..Len(h)
      BY <1>8, <2>2
    <3> HIDE DEF n
    <3>2. \A i \in 1..n : ColumnsOf(a, h[i]) \in AnyLine
      BY <1>7, <3>1 DEF AnyLine
    <3>3. LinesFor(a, k) = [i \in 1..n |-> ColumnsOf(a, h[i])]
      BY <1>4, <2>2 DEF n
    <3> QED
      BY <3>1, <3>2, <3>3
  <2> QED
    BY <2>1, <2>2
<1>10. LinesTo(a, k, N) = <<>> <=> h = <<>>
  <2>1. Len(LinesTo(a, k, N)) = Len(h)
    BY <1>2, <1>5
  <2>2. LinesTo(a, k, N) \in Seq(Seq(Value))
    BY <1>1, LinesToFacts DEF N
  <2> QED
    BY <1>2, <2>1, <2>2
<1>11. ASSUME ByLogin(a), NEW r \in W, LinesTo(a, k, r - 1) = <<>>
       PROVE  LinesFor(a, k) = <<ColumnsOf(a, Users[r])>>
  <2>1. r \in 1..N /\ r - 1 \in Nat /\ (r - 1) + 1 = r /\ r - 1 \in 0..N
    BY <1>1, <1>11
  <2>2. C(r - 1) = 0
    <3>1. Len(LinesTo(a, k, r - 1)) = C(r - 1)
      BY <2>1, LinesToFacts DEF N, W
    <3> QED
      BY <1>11, <3>1
  <2>3. C(r) = C(r - 1) + 1
    BY <1>11, <2>1, UpToFacts
  <2>4. h[1] = Users[r]
    BY <1>2, <1>3, <1>11, <2>2, <2>3
  <2>5. LinesFor(a, k) = [i \in 1..1 |-> ColumnsOf(a, h[i])]
    BY <1>4, <1>6, <1>11
  <2> QED
    BY <2>4, <2>5
<1>12. ~ByLogin(a) /\ h # <<>> => LinesFor(a, k) = LinesTo(a, k, N)
  BY <1>4, <1>5
<1>13. W = {} => LinesFor(a, k) = <<Missing(k)>>
  BY <1>4, <1>6
<1> QED
  BY <1>6, <1>9, <1>10, <1>11, <1>12, <1>13 DEF N, W

-----------------------------------------------------------------------------
(* The lines for the keys, one after another.                              *)

\* The lines for the first j keys.
AnswerTo(a, j) == Joined([i \in 1..Len(Asked(a)) |-> LinesFor(a, Asked(a)[i])])[j]

LEMMA AskedKeys ==
  ASSUME NEW a \in Args
  PROVE  /\ Asked(a) \in Seq(AnyKey) /\ Len(Asked(a)) \in Nat
         /\ \A i \in 1..Len(Asked(a)) : Asked(a)[i] \in AnyKey
<1>1. a.l \in Seq(AnyKey) /\ a.u \in Seq(AnyKey)
  BY DEF Args
<1>2. Asked(a) \in Seq(AnyKey)
  BY <1>1 DEF Asked
<1> QED
  BY <1>2

LEMMA AnswerFacts ==
  ASSUME NamesAssumption, NEW a \in Args
  PROVE  /\ AnswerTo(a, 0) = <<>>
         /\ \A j \in 0..Len(Asked(a)) : AnswerTo(a, j) \in Seq(AnyLine)
         /\ \A j \in 1..Len(Asked(a)) :
              AnswerTo(a, j) = AnswerTo(a, j - 1) \o LinesFor(a, Asked(a)[j])
         /\ FlattenSeq([i \in 1..Len(Asked(a)) |-> LinesFor(a, Asked(a)[i])])
            = AnswerTo(a, Len(Asked(a)))
<1> DEFINE s == [i \in 1..Len(Asked(a)) |-> LinesFor(a, Asked(a)[i])]
<1>1. /\ s \in Seq(Seq(AnyLine)) /\ Len(s) = Len(Asked(a))
      /\ \A i \in 1..Len(s) : s[i] = LinesFor(a, Asked(a)[i])
  <2>1. \A i \in 1..Len(Asked(a)) : LinesFor(a, Asked(a)[i]) \in Seq(AnyLine)
    BY AskedKeys, LinesForFacts
  <2> QED
    BY <2>1, AskedKeys
<1>2. \A j : AnswerTo(a, j) = Joined(s)[j]
  BY DEF AnswerTo
<1> HIDE DEF s
<1>3. /\ Joined(s) \in [0..Len(s) -> Seq(AnyLine)] /\ Joined(s)[0] = <<>>
      /\ \A i \in 1..Len(s) : Joined(s)[i] = Joined(s)[i - 1] \o s[i]
      /\ FlattenSeq(s) = Joined(s)[Len(s)]
  BY <1>1, JoinedFacts
<1>4. \A j \in 0..Len(Asked(a)) : AnswerTo(a, j) \in Seq(AnyLine)
  BY <1>1, <1>2, <1>3
<1>5. \A j \in 1..Len(Asked(a)) :
        AnswerTo(a, j) = AnswerTo(a, j - 1) \o LinesFor(a, Asked(a)[j])
  BY <1>1, <1>2, <1>3
<1>6. AnswerTo(a, 0) = <<>> /\ FlattenSeq(s) = AnswerTo(a, Len(Asked(a)))
  BY <1>1, <1>2, <1>3
<1> QED
  BY <1>4, <1>5, <1>6 DEF s

\* When a key is nobody's there is a line for each key before it, or main's count is off.
LEMMA OneLineEach ==
  ASSUME NamesAssumption, NEW a \in Args, ~CountIsOff(a),
         NEW k \in 1..Len(Asked(a)), RowsFor(a, Asked(a)[k]) = {}
  PROVE  Len(AnswerTo(a, k - 1)) = k - 1
<1> DEFINE L(j) == Len(AnswerTo(a, j))
           T == {j \in 0..k - 1 : L(j) # j}
<1>1. k \in Nat /\ Len(Asked(a)) \in Nat /\ k > 0 /\ k <= Len(Asked(a))
  BY AskedKeys
<1>2. \A i \in 1..k - 1 : Len(LinesFor(a, Asked(a)[i])) = 1
  <2>1. ASSUME NEW i \in 1..k - 1 PROVE Len(LinesFor(a, Asked(a)[i])) = 1
    <3>1. i \in 1..Len(Asked(a)) /\ i < k
      BY <1>1
    <3>2. /\ LinesFor(a, Asked(a)[i]) \in Seq(AnyLine) /\ Len(LinesFor(a, Asked(a)[i])) > 0
      BY <3>1, AskedKeys, LinesForFacts
    <3>3. ~ (Len(LinesFor(a, Asked(a)[i])) > 1)
      BY <3>1 DEF CountIsOff
    <3>4. Len(LinesFor(a, Asked(a)[i])) \in Nat
      BY <3>2
    <3>5. \A n \in Nat : n > 0 /\ ~ (n > 1) => n = 1
      OBVIOUS
    <3> QED
      BY <3>2, <3>3, <3>4, <3>5
  <2> QED
    BY <2>1
<1>3. ASSUME T # {} PROVE FALSE
  <2>1. T \in SUBSET Nat
    OBVIOUS
  <2>2. PICK j \in T : \A m \in T : j <= m
    BY <1>3, <2>1, Least
  <2>3. j \in 0..k - 1 /\ L(j) # j
    BY <2>2
  <2>4. j # 0
    <3>1. AnswerTo(a, 0) = <<>> /\ Len(<<>>) = 0
      BY AnswerFacts
    <3> QED
      BY <2>3, <3>1
  <2>5. j \in 1..k - 1 /\ j \in 1..Len(Asked(a)) /\ j - 1 \in 0..k - 1 /\ j - 1 < j
        /\ j - 1 \in 0..Len(Asked(a))
    BY <1>1, <2>3, <2>4
  <2>6. L(j - 1) = j - 1
    <3>1. j - 1 \notin T
      BY <2>2, <2>5
    <3> QED
      BY <2>5, <3>1
  <2>7. AnswerTo(a, j) = AnswerTo(a, j - 1) \o LinesFor(a, Asked(a)[j])
        /\ AnswerTo(a, j - 1) \in Seq(AnyLine)
    BY <2>5, AnswerFacts
  <2>8. LinesFor(a, Asked(a)[j]) \in Seq(AnyLine) /\ Len(LinesFor(a, Asked(a)[j])) = 1
    BY <1>2, <2>5, AskedKeys, LinesForFacts
  <2>9. L(j) = L(j - 1) + 1
    <3>1. \A b, s \in Seq(AnyLine) : Len(b \o s) = Len(b) + Len(s)
      OBVIOUS
    <3> QED
      BY <2>7, <2>8, <3>1
  <2> QED
    BY <2>3, <2>5, <2>6, <2>9
<1>4. k - 1 \in 0..k - 1 /\ k - 1 \notin T
  BY <1>1, <1>3
<1> QED
  BY <1>4

-----------------------------------------------------------------------------
(* The records that a thread has, as the client will print them.           *)

Records      == Seq(Seq(Value) \cup {NotFound})
Shown(a, rs) == [m \in 1..Len(rs) |-> Line(a, m, rs[m])]

LEMMA ShownGrows ==
  ASSUME NEW a, NEW rs \in Records, NEW x \in Seq(Value) \cup {NotFound},
         NEW s \in Seq(AnyLine), Shown(a, rs) = s, Line(a, Len(rs) + 1, x) \in AnyLine
  PROVE  Shown(a, Append(rs, x)) = Append(s, Line(a, Len(rs) + 1, x))
<1> DEFINE n == Len(rs)
           q == Append(rs, x)
           A == Append(s, Line(a, n + 1, x))
<1>1. /\ n \in Nat /\ Len(q) = n + 1 /\ q[n + 1] = x /\ \A m \in 1..n : q[m] = rs[m]
  BY DEF Records
<1>2. s = [m \in 1..n |-> Line(a, m, rs[m])]
  BY DEF Shown
<1>3. Shown(a, q) = [m \in 1..n + 1 |-> Line(a, m, q[m])]
  BY <1>1 DEF Shown
<1>4. Len(s) = n
  <2>1. DOMAIN s = 1..n
    BY <1>2
  <2> QED
    BY <1>1, <2>1
<1>5. /\ A = [m \in 1..n + 1 |-> A[m]] /\ A[n + 1] = Line(a, n + 1, x)
      /\ \A m \in 1..n : A[m] = s[m]
  BY <1>1, <1>4
<1> HIDE DEF A, q, n
<1>6. ASSUME NEW m \in 1..n + 1 PROVE A[m] = Line(a, m, q[m])
  <2>1. CASE m = n + 1
    BY <1>1, <1>5, <2>1
  <2>2. CASE m # n + 1
    <3>1. m \in 1..n
      BY <1>1, <2>2
    <3> QED
      BY <1>1, <1>2, <1>5, <3>1
  <2> QED
    BY <2>1, <2>2
<1> QED
  BY <1>3, <1>5, <1>6 DEF A, q, n

LEMMA NothingShown == \A a : Shown(a, <<>>) = <<>>
<1>1. \A a : Shown(a, <<>>) = [m \in 1..0 |-> Line(a, m, <<>>[m])]
  BY DEF Shown
<1> QED
  BY <1>1

LEMMA Behind ==
  ASSUME NEW T, NEW b \in Seq(T), NEW s \in Seq(T), NEW x \in T
  PROVE  Append(b \o s, x) = b \o Append(s, x) /\ b \o <<>> = b
OBVIOUS

-----------------------------------------------------------------------------
(* A thread that no other disturbs, and that has read all of its keys.     *)

\* The thread has shown the lines for the keys before the k-th, and these.
Says(a, k, rs, lines) == ~CountIsOff(a) => Shown(a, rs) = AnswerTo(a, k - 1) \o lines

\* The search has come to row r, and goes on.
Reads(a, k, f, r) == /\ f <=> LinesTo(a, k, r) # <<>>
                     /\ ByLogin(a) => LinesTo(a, k, r) = <<>>

\* With arguments a, keys ks, the k-th of which is next, found f and records rs, a thread
\* that is at t, the cursor of getpwent and its record.
Serves(a, ks, k, f, rs, t, cur, rw) ==
  /\ ks = Asked(a) /\ k \in 1..Len(ks) + 1
  /\ t = "done" => k = Len(ks) + 1
  /\ t \in {"get", "compare", "end"} => k <= Len(ks)
  /\ t \in {"set", "done"} => Says(a, k, rs, <<>>)
  /\ t = "get" => Reads(a, ks[k], f, cur) /\ Says(a, k, rs, LinesTo(a, ks[k], cur))
  /\ t = "compare" => /\ cur \in 1..Len(Users) /\ rw = Users[cur]
                      /\ Reads(a, ks[k], f, cur - 1)
                      /\ Says(a, k, rs, LinesTo(a, ks[k], cur - 1))
  /\ t = "end" => IF f THEN Says(a, k, rs, LinesFor(a, ks[k]))
                  ELSE RowsFor(a, ks[k]) = {} /\ Says(a, k, rs, <<>>)

LEMMA ServeBegins ==
  ASSUME NamesAssumption, NEW a \in Args, NEW f, NEW cur, NEW rw
  PROVE  Serves(a, Asked(a), 1, f, <<>>, "set", cur, rw)
<1>1. 1 \in 1..Len(Asked(a)) + 1
  BY AskedKeys
<1>2. Says(a, 1, <<>>, <<>>)
  <2>1. AnswerTo(a, 0) = <<>> /\ Shown(a, <<>>) = <<>>
    BY AnswerFacts, NothingShown
  <2>2. 1 - 1 = 0 /\ <<>> \o <<>> = <<>>
    OBVIOUS
  <2> QED
    BY <2>1, <2>2 DEF Says
<1> QED
  BY <1>1, <1>2 DEF Serves

LEMMA ServeSet ==
  ASSUME NamesAssumption, NEW a \in Args, NEW ks, NEW k, NEW f, NEW rs, NEW cur, NEW rw,
         NEW rw2, Serves(a, ks, k, f, rs, "set", cur, rw), k <= Len(ks)
  PROVE  Serves(a, ks, k, FALSE, rs, "get", 0, rw2)
<1>1. LinesTo(a, ks[k], 0) = <<>>
  BY LinesToFacts
<1>2. ks = Asked(a) /\ k \in 1..Len(ks) + 1 /\ Says(a, k, rs, <<>>)
  BY DEF Serves
<1>3. Reads(a, ks[k], FALSE, 0) /\ Says(a, k, rs, LinesTo(a, ks[k], 0))
  BY <1>1, <1>2 DEF Reads
<1> QED
  BY <1>2, <1>3 DEF Serves

LEMMA ServeRead ==
  ASSUME NamesAssumption, NEW a \in Args, NEW ks, NEW k, NEW f, NEW rs, NEW cur \in Nat,
         NEW rw, Serves(a, ks, k, f, rs, "get", cur, rw), cur < Len(Users)
  PROVE  Serves(a, ks, k, f, rs, "compare", cur + 1, Users[cur + 1])
<1>1. cur + 1 \in 1..Len(Users) /\ (cur + 1) - 1 = cur
  BY RowFacts
<1>2. /\ ks = Asked(a) /\ k \in 1..Len(ks) + 1 /\ k <= Len(ks)
      /\ Reads(a, ks[k], f, cur) /\ Says(a, k, rs, LinesTo(a, ks[k], cur))
  BY DEF Serves
<1> QED
  BY <1>1, <1>2 DEF Serves

LEMMA ServeReadAll ==
  ASSUME NamesAssumption, NEW a \in Args, NEW ks, NEW k, NEW f \in BOOLEAN, NEW rs, NEW rw,
         Serves(a, ks, k, f, rs, "get", Len(Users), rw)
  PROVE  Serves(a, ks, k, f, rs, "end", Len(Users), rw)
<1> DEFINE N == Len(Users)
<1>1. /\ ks = Asked(a) /\ k \in 1..Len(ks) + 1 /\ k <= Len(ks)
      /\ Reads(a, ks[k], f, N) /\ Says(a, k, rs, LinesTo(a, ks[k], N))
  BY DEF Serves
<1>2. ks[k] \in AnyKey
  BY <1>1, AskedKeys
<1> HIDE DEF N
<1>3. CASE f
  <2>1. LinesTo(a, ks[k], N) # <<>> /\ ~ByLogin(a)
    BY <1>1, <1>3 DEF Reads
  <2>2. LinesFor(a, ks[k]) = LinesTo(a, ks[k], N)
    BY <1>2, <2>1, LinesForFacts DEF N
  <2>3. Says(a, k, rs, LinesFor(a, ks[k]))
    BY <1>1, <2>2
  <2> QED
    BY <1>1, <1>3, <2>3 DEF Serves, N
<1>4. CASE ~f
  <2>1. LinesTo(a, ks[k], N) = <<>>
    BY <1>1, <1>4 DEF Reads
  <2>2. RowsFor(a, ks[k]) = {}
    BY <1>2, <2>1, LinesForFacts DEF N
  <2>3. Says(a, k, rs, <<>>)
    BY <1>1, <2>1
  <2> QED
    BY <1>1, <1>4, <2>2, <2>3 DEF Serves, N
<1> QED
  BY <1>3, <1>4

LEMMA ServeMatch ==
  ASSUME NamesAssumption, NEW a \in Args, a.ok, NEW ks, NEW k, NEW f, NEW rs \in Records,
         NEW cur, NEW rw, Serves(a, ks, k, f, rs, "compare", cur, rw),
         Matches(ks[k], rw, ByLogin(a))
  PROVE  Serves(a, ks, k, TRUE, Append(rs, AddToRecords(a, rw)),
                IF Ends(a) THEN "end" ELSE "get", cur, rw)
<1> DEFINE new == Append(rs, AddToRecords(a, rw))
           x == ColumnsOf(a, rw)
           was == LinesTo(a, ks[k], cur - 1)
<1>1. /\ ks = Asked(a) /\ k \in 1..Len(ks) + 1 /\ k <= Len(ks)
      /\ cur \in 1..Len(Users) /\ rw = Users[cur] /\ Reads(a, ks[k], f, cur - 1)
      /\ Says(a, k, rs, was)
  BY DEF Serves
<1>2. /\ cur \in RowsFor(a, ks[k]) /\ cur - 1 \in 0..Len(Users) /\ rw \in Row
      /\ ks[k] \in AnyKey /\ k - 1 \in 0..Len(Asked(a))
  BY <1>1, RowFacts, AskedKeys DEF RowsFor
<1>3. /\ LinesTo(a, ks[k], cur) = Append(was, x) /\ was \in Seq(Seq(Value))
      /\ x \in Seq(Value)
  BY <1>1, <1>2, LinesToFacts, ColumnsFit
<1>4. was \in Seq(AnyLine) /\ x \in AnyLine /\ AnswerTo(a, k - 1) \in Seq(AnyLine)
  <2>1. Seq(Value) \subseteq AnyLine
    BY DEF AnyLine
  <2>2. AnswerTo(a, k - 1) \in Seq(AnyLine)
    BY <1>2, AnswerFacts
  <2> HIDE DEF was, x
  <2>3. was \in Seq(AnyLine)
    BY <1>3, <2>1
  <2> QED
    BY <1>3, <2>1, <2>2, <2>3
<1>5. Says(a, k, new, Append(was, x))
  <2>1. SUFFICES ASSUME ~CountIsOff(a)
                 PROVE  Shown(a, new) = AnswerTo(a, k - 1) \o Append(was, x)
    BY DEF Says
  <2>2. Shown(a, rs) = AnswerTo(a, k - 1) \o was
    BY <1>1, <2>1 DEF Says
  <2> DEFINE b == AnswerTo(a, k - 1) \o was
  <2>3. b \in Seq(AnyLine)
    BY <1>4
  <2>4. Line(a, Len(rs) + 1, AddToRecords(a, rw)) = x
    BY <1>2, LineFits
  <2>5. AddToRecords(a, rw) \in Seq(Value) \cup {NotFound}
    BY <1>2, AnswerFits
  <2> HIDE DEF b, was, x
  <2>6. Shown(a, new) = Append(b, x)
    BY <1>4, <2>2, <2>3, <2>4, <2>5, ShownGrows DEF b
  <2>7. Append(b, x) = AnswerTo(a, k - 1) \o Append(was, x)
    <3> DEFINE p == AnswerTo(a, k - 1)
    <3> HIDE DEF p
    <3>1. p \in Seq(AnyLine) /\ b = p \o was
      BY <1>4 DEF b, p
    <3>2. Append(p \o was, x) = p \o Append(was, x)
      BY <1>4, <3>1, Behind
    <3> QED
      BY <3>1, <3>2 DEF p
  <2> QED
    BY <2>6, <2>7
<1>6. LinesTo(a, ks[k], cur) # <<>>
  BY <1>3
<1> HIDE DEF new, was, x
<1>7. CASE Ends(a)
  <2>1. ByLogin(a)
    BY <1>7 DEF Ends
  <2>2. was = <<>>
    BY <1>1, <2>1 DEF Reads, was
  <2>3. LinesFor(a, ks[k]) = <<x>>
    BY <1>1, <1>2, <2>1, <2>2, LinesForFacts DEF was, x
  <2>4. Says(a, k, new, LinesFor(a, ks[k]))
    <3>1. Append(<<>>, x) = <<x>>
      OBVIOUS
    <3> QED
      BY <1>5, <2>2, <2>3, <3>1
  <2>5. Serves(a, ks, k, TRUE, new, "end", cur, rw)
    BY <1>1, <2>4 DEF Serves
  <2> QED
    BY <1>7, <2>5 DEF new
<1>8. CASE ~Ends(a)
  <2>1. Reads(a, ks[k], TRUE, cur)
    BY <1>6, <1>8 DEF Reads, Ends
  <2>2. Says(a, k, new, LinesTo(a, ks[k], cur))
    BY <1>3, <1>5
  <2>3. Serves(a, ks, k, TRUE, new, "get", cur, rw)
    BY <1>1, <2>1, <2>2 DEF Serves
  <2> QED
    BY <1>8, <2>3 DEF new
<1> QED
  BY <1>7, <1>8

LEMMA ServeMiss ==
  ASSUME NamesAssumption, NEW a \in Args, NEW ks, NEW k, NEW f, NEW rs, NEW cur, NEW rw,
         Serves(a, ks, k, f, rs, "compare", cur, rw), ~Matches(ks[k], rw, ByLogin(a))
  PROVE  Serves(a, ks, k, f, rs, "get", cur, rw)
<1>1. /\ ks = Asked(a) /\ k \in 1..Len(ks) + 1 /\ k <= Len(ks)
      /\ cur \in 1..Len(Users) /\ rw = Users[cur] /\ Reads(a, ks[k], f, cur - 1)
      /\ Says(a, k, rs, LinesTo(a, ks[k], cur - 1))
  BY DEF Serves
<1>2. cur \notin RowsFor(a, ks[k])
  BY <1>1 DEF RowsFor
<1>3. LinesTo(a, ks[k], cur) = LinesTo(a, ks[k], cur - 1)
  BY <1>1, <1>2, LinesToFacts
<1>4. Reads(a, ks[k], f, cur) /\ Says(a, k, rs, LinesTo(a, ks[k], cur))
  BY <1>1, <1>3 DEF Reads
<1> QED
  BY <1>1, <1>4 DEF Serves

LEMMA ServeEnds ==
  ASSUME NamesAssumption, NEW a \in Args, NEW ks, NEW k, NEW f \in BOOLEAN,
         NEW rs \in Records, NEW cur, NEW rw, NEW rw2, Serves(a, ks, k, f, rs, "end", cur, rw)
  PROVE  Serves(a, ks, k + 1, f, IF f THEN rs ELSE Append(rs, NotFound), "set", 0, rw2)
<1> DEFINE new == IF f THEN rs ELSE Append(rs, NotFound)
           b == AnswerTo(a, k - 1)
<1>1. /\ ks = Asked(a) /\ k \in 1..Len(ks) + 1 /\ k <= Len(ks)
      /\ IF f THEN Says(a, k, rs, LinesFor(a, ks[k]))
         ELSE RowsFor(a, ks[k]) = {} /\ Says(a, k, rs, <<>>)
  BY DEF Serves
<1>2. /\ k \in 1..Len(Asked(a)) /\ k + 1 \in 1..Len(ks) + 1 /\ (k + 1) - 1 = k
      /\ k - 1 \in 0..Len(Asked(a)) /\ k \in Nat /\ (k - 1) + 1 = k
  BY <1>1, AskedKeys
<1>3. /\ AnswerTo(a, k) = b \o LinesFor(a, ks[k]) /\ b \in Seq(AnyLine)
      /\ ks[k] \in AnyKey
  BY <1>1, <1>2, AnswerFacts, AskedKeys
<1>4. AnswerTo(a, k) \in Seq(AnyLine) /\ AnswerTo(a, k) \o <<>> = AnswerTo(a, k)
  <2>1. AnswerTo(a, k) \in Seq(AnyLine)
    <3>1. k \in 0..Len(Asked(a))
      BY <1>2
    <3> QED
      BY <3>1, AnswerFacts
  <2> QED
    BY <2>1
<1> HIDE DEF b
<1>5. ASSUME ~CountIsOff(a) PROVE Shown(a, new) = AnswerTo(a, k)
  <2>1. CASE f
    BY <1>1, <1>3, <1>5, <2>1 DEF Says, b
  <2>2. CASE ~f
    <3>1. Shown(a, rs) = b
      <4>1. Shown(a, rs) = b \o <<>> /\ b \o <<>> = b
        BY <1>1, <1>3, <1>5, <2>2 DEF Says, b
      <4> QED
        BY <4>1
    <3>2. LinesFor(a, ks[k]) = <<Missing(ks[k])>>
      BY <1>1, <1>3, <2>2, LinesForFacts
    <3>3. Len(b) = k - 1
      BY <1>1, <1>2, <1>5, <2>2, OneLineEach DEF b
    <3>4. Len(rs) = Len(b)
      <4>1. Len(rs) \in Nat /\ DOMAIN Shown(a, rs) = 1..Len(rs)
        BY DEF Records, Shown
      <4>2. DOMAIN b = 1..Len(b) /\ Len(b) \in Nat
        BY <1>3
      <4> QED
        BY <3>1, <4>1, <4>2
    <3>5. Line(a, Len(rs) + 1, NotFound) = Missing(ks[k])
      <4>1. Len(rs) + 1 = k
        BY <1>2, <3>3, <3>4
      <4> QED
        BY <1>1, <4>1 DEF Line
    <3>6. Missing(ks[k]) \in AnyLine
      BY <1>3 DEF AnyLine
    <3>7. Shown(a, new) = Append(b, Missing(ks[k]))
      <4>1. NotFound \in Seq(Value) \cup {NotFound} /\ new = Append(rs, NotFound)
        BY <2>2
      <4> HIDE DEF new
      <4> QED
        BY <1>3, <3>1, <3>5, <3>6, <4>1, ShownGrows
    <3>8. Append(b, Missing(ks[k])) = b \o <<Missing(ks[k])>>
      BY <1>3, <3>6
    <3> QED
      BY <1>3, <3>2, <3>7, <3>8
  <2> QED
    BY <2>1, <2>2
<1>6. Says(a, k + 1, new, <<>>)
  BY <1>2, <1>4, <1>5 DEF Says
<1> HIDE DEF new
<1>7. Serves(a, ks, k + 1, f, new, "set", 0, rw2)
  BY <1>1, <1>2, <1>6 DEF Serves
<1> QED
  BY <1>7 DEF new

LEMMA ServeDone ==
  ASSUME NEW a \in Args, NEW ks, NEW k, NEW f, NEW rs, NEW cur, NEW rw,
         Serves(a, ks, k, f, rs, "set", cur, rw), k > Len(ks)
  PROVE  Serves(a, ks, k, f, rs, "done", cur, rw)
<1>1. ks = Asked(a) /\ k \in 1..Len(ks) + 1 /\ Says(a, k, rs, <<>>) /\ Len(ks) \in Nat
  BY AskedKeys DEF Serves
<1>2. k = Len(ks) + 1
  BY <1>1
<1> QED
  BY <1>1, <1>2 DEF Serves

\* The client of a thread that is done shows what was asked for.
LEMMA ServedShows ==
  ASSUME NamesAssumption, NEW a \in Args, NEW ks, NEW k, NEW f, NEW rs, NEW cur, NEW rw,
         Serves(a, ks, k, f, rs, "done", cur, rw), ~CountIsOff(a)
  PROVE  Shown(a, rs) = FlattenSeq([i \in 1..Len(Asked(a)) |-> LinesFor(a, Asked(a)[i])])
<1>1. ks = Asked(a) /\ k = Len(ks) + 1 /\ Says(a, k, rs, <<>>) /\ Len(ks) \in Nat
  BY AskedKeys DEF Serves
<1>2. k - 1 = Len(Asked(a)) /\ k - 1 \in 0..Len(Asked(a))
  BY <1>1
<1>3. AnswerTo(a, k - 1) \in Seq(AnyLine)
  BY <1>2, AnswerFacts
<1>4. Shown(a, rs) = AnswerTo(a, k - 1)
  <2>1. AnswerTo(a, k - 1) \o <<>> = AnswerTo(a, k - 1)
    BY <1>3
  <2> QED
    BY <1>1, <2>1 DEF Says
<1> QED
  BY <1>2, <1>4, AnswerFacts

\* A thread that is not in a search does not depend on getpwent.
LEMMA ServeElsewhere ==
  ASSUME NEW a, NEW ks, NEW k, NEW f, NEW rs, NEW t, NEW cur, NEW rw, NEW cur2, NEW rw2,
         Serves(a, ks, k, f, rs, t, cur, rw), t \in {"set", "done"}
  PROVE  Serves(a, ks, k, f, rs, t, cur2, rw2)
BY DEF Serves

-----------------------------------------------------------------------------
(* The invariant.                                                          *)

ClientPlaces == {"start", "refused", "connect", "flags", "wait", "gone", "done", "aborted",
                 "error"}
ThreadPlaces == {"none", "accepted", "set", "get", "compare", "end", "done"}

NamesTypeOK ==
  /\ cpc \in [Askers -> ClientPlaces] /\ tpc \in [Askers -> ThreadPlaces]
  /\ args \in [Askers -> Args] /\ printed = [c \in Askers |-> printed[c]]
  /\ keys \in [Askers -> Seq(AnyKey \cup {Junk})] /\ key \in [Askers -> Nat]
  /\ found \in [Askers -> BOOLEAN] /\ records \in [Askers -> Records]
  /\ cursor \in 0..Len(Users) /\ row \in Row \cup {Junk}
  /\ \A c \in Askers : tpc[c] = "compare" => row \in Row

\* A thread is there when its client has connected, with arguments that are valid; it
\* begins with no record.
BegunInv(c) ==
  /\ cpc[c] \in {"start", "refused", "connect"} => tpc[c] = "none"
  /\ cpc[c] \notin {"start", "refused"} => args[c].ok
  /\ tpc[c] \in {"none", "accepted"} => key[c] = 1 /\ records[c] = <<>>

\* One whose search no other has disturbed is alone.
AloneInv == \A c \in Searching \ disturbed : Searching = {c}

ServedInv(c) ==
  c \notin short \cup disturbed /\ cpc[c] # "gone" /\ tpc[c] \notin {"none", "accepted"}
    => Serves(args[c], keys[c], key[c], found[c], records[c], tpc[c], cursor, row)

Answer(a) == FlattenSeq([i \in 1..Len(Asked(a)) |-> LinesFor(a, Asked(a)[i])])
AnswerInv(c) ==
  c \notin short \cup disturbed /\ cpc[c] = "done" /\ ~CountIsOff(args[c])
    => printed[c] = Answer(args[c])

NamesInv == /\ NamesTypeOK /\ AloneInv
            /\ \A c \in Askers : BegunInv(c) /\ ServedInv(c) /\ AnswerInv(c)

LEMMA NamesInvRight == NamesInv => AnswersAreRight
BY DEF NamesInv, AnswerInv, Answer, AnswersAreRight

LEMMA NamesInitInv ==
  ASSUME NamesAssumption, NamesInit
  PROVE  NamesInv
<1>1. <<>> \in Seq(AnyKey \cup {Junk}) /\ <<>> \in Records /\ 0 \in 0..Len(Users)
  BY RowFacts DEF Records
<1>2. NamesTypeOK
  <2>1. /\ cpc \in [Askers -> ClientPlaces] /\ tpc \in [Askers -> ThreadPlaces]
        /\ args \in [Askers -> Args]
    BY NoArgsParsed DEF NamesInit, ClientPlaces, ThreadPlaces
  <2>2. /\ keys \in [Askers -> Seq(AnyKey \cup {Junk})] /\ key \in [Askers -> Nat]
        /\ found \in [Askers -> BOOLEAN] /\ records \in [Askers -> Records]
        /\ cursor \in 0..Len(Users) /\ row \in Row \cup {Junk}
    BY <1>1 DEF NamesInit
  <2>3. printed = [c \in Askers |-> printed[c]] /\ \A c \in Askers : tpc[c] # "compare"
    BY DEF NamesInit
  <2> QED
    BY <2>1, <2>2, <2>3 DEF NamesTypeOK
<1>3. \A c \in Askers : cpc[c] = "start" /\ tpc[c] = "none" /\ key[c] = 1 /\ records[c] = <<>>
  BY DEF NamesInit
<1>4. AloneInv
  BY <1>3 DEF AloneInv, Searching
<1>5. \A c \in Askers : BegunInv(c) /\ ServedInv(c) /\ AnswerInv(c)
  BY <1>3 DEF BegunInv, ServedInv, AnswerInv
<1> QED
  BY <1>2, <1>4, <1>5 DEF NamesInv

\* Nothing of a client and its thread changes.
Same(c) == /\ cpc'[c] = cpc[c] /\ args'[c] = args[c] /\ printed'[c] = printed[c]
           /\ tpc'[c] = tpc[c] /\ keys'[c] = keys[c] /\ key'[c] = key[c]
           /\ found'[c] = found[c] /\ records'[c] = records[c]

\* The others see nothing of a step, but for the searches that it disturbs.
LEMMA NamesStep ==
  ASSUME NamesInv, NEW d \in Askers, NamesTypeOK', AloneInv',
         BegunInv(d)', ServedInv(d)', AnswerInv(d)',
         \A c \in Askers \ {d} : Same(c),
         short \subseteq short', disturbed \subseteq disturbed',
         \A c \in (Searching \ disturbed') \ {d} : cursor' = cursor /\ row' = row
  PROVE  NamesInv'
<1>1. ASSUME NEW c \in Askers \ {d} PROVE BegunInv(c)' /\ ServedInv(c)' /\ AnswerInv(c)'
  <2>1. BegunInv(c) /\ ServedInv(c) /\ AnswerInv(c) /\ Same(c)
    BY DEF NamesInv
  <2>2. BegunInv(c)'
    BY <2>1 DEF BegunInv, Same
  <2>3. AnswerInv(c)'
    BY <2>1 DEF AnswerInv, Same
  <2>4. ServedInv(c)'
    <3>1. SUFFICES ASSUME c \notin short' \cup disturbed', cpc[c] # "gone",
                          tpc[c] \notin {"none", "accepted"}
                   PROVE  Serves(args[c], keys[c], key[c], found[c], records[c], tpc[c],
                                 cursor', row')
      BY <2>1 DEF ServedInv, Same
    <3>2. Serves(args[c], keys[c], key[c], found[c], records[c], tpc[c], cursor, row)
      BY <2>1, <3>1 DEF ServedInv
    <3>3. CASE tpc[c] \in {"set", "done"}
      BY <3>2, <3>3, ServeElsewhere
    <3>4. CASE tpc[c] \in {"get", "compare", "end"}
      <4>1. cursor' = cursor /\ row' = row
        BY <3>1, <3>4 DEF Searching
      <4> QED
        BY <3>2, <4>1
    <3>5. tpc[c] \in ThreadPlaces
      BY DEF NamesInv, NamesTypeOK
    <3> QED
      BY <3>1, <3>3, <3>4, <3>5 DEF ThreadPlaces
  <2> QED
    BY <2>2, <2>3, <2>4
<1> QED
  BY <1>1 DEF NamesInv

\* A step that leaves the searches alone.
LEMMA StillAlone ==
  ASSUME AloneInv, Searching' = Searching, disturbed' = disturbed
  PROVE  AloneInv'
BY DEF AloneInv

-----------------------------------------------------------------------------
(* The steps of a client.                                                  *)

LEMMA ParseArgsStep ==
  ASSUME NamesAssumption, NamesInv, NEW d \in Askers, ParseArgs(d)
  PROVE  NamesInv'
<1> USE DEF NamesInv
<1>1. PICK options \in Invocations[d] :
        /\ args' = [args EXCEPT ![d] = Parsed(options)]
        /\ cpc' = [cpc EXCEPT ![d] = IF CheckValidity(Parsed(options)) THEN "connect"
                                     ELSE "refused"]
  BY Zenon DEF ParseArgs
<1>2. /\ cpc[d] = "start"
      /\ UNCHANGED <<printed, tpc, keys, key, found, records, cursor, row, short, disturbed>>
  BY DEF ParseArgs, threadVars
<1>3. Parsed(options) \in Args
  <2>1. options \in Seq(Options)
    BY DEF NamesAssumption
  <2> QED
    BY <2>1, ArgsParsed
<1>4. tpc[d] = "none" /\ key[d] = 1 /\ records[d] = <<>>
  BY <1>2 DEF BegunInv
<1>5. NamesTypeOK'
  <2>1. cpc' \in [Askers -> ClientPlaces] /\ args' \in [Askers -> Args]
    BY <1>1, <1>3 DEF NamesTypeOK, ClientPlaces
  <2> QED
    BY <1>2, <2>1 DEF NamesTypeOK
<1>6. cpc'[d] \in {"connect", "refused"} /\ (cpc'[d] = "connect" => args'[d].ok)
  BY <1>1 DEF NamesTypeOK, CheckValidity
<1>7. BegunInv(d)' /\ ServedInv(d)' /\ AnswerInv(d)'
  BY <1>2, <1>4, <1>6 DEF BegunInv, ServedInv, AnswerInv
<1>8. \A c \in Askers \ {d} : Same(c)
  BY <1>1, <1>2 DEF Same, NamesTypeOK
<1>9. AloneInv'
  BY <1>2 DEF AloneInv, Searching
<1> QED
  BY <1>2, <1>5, <1>7, <1>8, <1>9, NamesStep

LEMMA ConnectStep ==
  ASSUME NamesInv, NEW d \in Askers, ConnectTo(d)
  PROVE  NamesInv'
<1> USE DEF NamesInv
<1>1. /\ cpc[d] = "connect" /\ cpc' = [cpc EXCEPT ![d] = "flags"]
      /\ tpc' = [tpc EXCEPT ![d] = "accepted"]
      /\ UNCHANGED <<args, printed, keys, key, found, records, cursor, row, short, disturbed>>
  BY DEF ConnectTo
<1>2. tpc[d] = "none" /\ args[d].ok /\ key[d] = 1 /\ records[d] = <<>>
  BY <1>1 DEF BegunInv
<1>3. NamesTypeOK'
  BY <1>1 DEF NamesTypeOK, ClientPlaces, ThreadPlaces
<1>4. cpc'[d] = "flags" /\ tpc'[d] = "accepted"
  BY <1>1 DEF NamesTypeOK
<1>5. BegunInv(d)' /\ ServedInv(d)' /\ AnswerInv(d)'
  BY <1>1, <1>2, <1>4 DEF BegunInv, ServedInv, AnswerInv
<1>6. \A c \in Askers \ {d} : Same(c)
  BY <1>1 DEF Same, NamesTypeOK
<1>7. Searching' = Searching
  BY <1>1, <1>2, <1>4 DEF Searching, NamesTypeOK
<1> QED
  BY <1>1, <1>3, <1>5, <1>6, <1>7, NamesStep, StillAlone

LEMMA SendDataStep ==
  ASSUME NamesInv, NEW d \in Askers, SendData(d)
  PROVE  NamesInv'
<1> USE DEF NamesInv
<1>1. PICK next \in {"wait", "gone"} : cpc' = [cpc EXCEPT ![d] = next]
  BY DEF SendData
<1>2. /\ cpc[d] = "flags"
      /\ UNCHANGED <<args, printed, tpc, keys, key, found, records, cursor, row, short,
                     disturbed>>
  BY DEF SendData, threadVars
<1>3. NamesTypeOK'
  BY <1>1, <1>2 DEF NamesTypeOK, ClientPlaces
<1>4. cpc'[d] \in {"wait", "gone"}
  BY <1>1 DEF NamesTypeOK
<1>5. BegunInv(d)' /\ ServedInv(d)' /\ AnswerInv(d)'
  BY <1>2, <1>4 DEF BegunInv, ServedInv, AnswerInv
<1>6. \A c \in Askers \ {d} : Same(c)
  BY <1>1, <1>2 DEF Same, NamesTypeOK
<1>7. Searching' = Searching
  BY <1>2 DEF Searching
<1> QED
  BY <1>2, <1>3, <1>5, <1>6, <1>7, NamesStep, StillAlone

LEMMA LoseStep ==
  ASSUME NamesInv, NEW d \in Askers, Lose(d)
  PROVE  NamesInv'
<1> USE DEF NamesInv
<1>1. /\ cpc[d] \in {"connect", "wait"} /\ cpc' = [cpc EXCEPT ![d] = "error"]
      /\ UNCHANGED <<args, printed, tpc, keys, key, found, records, cursor, row, short,
                     disturbed>>
  BY DEF Lose, threadVars
<1>2. NamesTypeOK'
  BY <1>1 DEF NamesTypeOK, ClientPlaces
<1>3. cpc'[d] = "error"
  BY <1>1 DEF NamesTypeOK
<1>4. BegunInv(d)' /\ ServedInv(d)' /\ AnswerInv(d)'
  BY <1>1, <1>3 DEF BegunInv, ServedInv, AnswerInv
<1>5. \A c \in Askers \ {d} : Same(c)
  BY <1>1 DEF Same, NamesTypeOK
<1>6. Searching' = Searching
  BY <1>1 DEF Searching
<1> QED
  BY <1>1, <1>2, <1>4, <1>5, <1>6, NamesStep, StillAlone

LEMMA ShowStep ==
  ASSUME NamesAssumption, NamesInv, NEW d \in Askers, Show(d)
  PROVE  NamesInv'
<1> USE DEF NamesInv
<1>1. PICK n \in 1..Len(records[d]) :
        /\ short' = IF n < Len(records[d]) THEN short \cup {d} ELSE short
        /\ IF \E i \in Len(Asked(args[d])) + 1..n : records[d][i] = NotFound
           THEN cpc' = [cpc EXCEPT ![d] = "aborted"] /\ UNCHANGED printed
           ELSE /\ printed' = [printed EXCEPT ![d] =
                                 [i \in 1..n |-> Line(args[d], i, records[d][i])]]
                /\ cpc' = [cpc EXCEPT ![d] = "done"]
  BY Zenon DEF Show
<1>2. /\ cpc[d] = "wait" /\ tpc[d] = "done"
      /\ UNCHANGED <<args, tpc, keys, key, found, records, cursor, row, disturbed>>
  BY DEF Show, threadVars
<1>3. /\ cpc' = [cpc EXCEPT ![d] = "aborted"] \/ cpc' = [cpc EXCEPT ![d] = "done"]
      /\ printed' = printed
           \/ printed' = [printed EXCEPT ![d] = [i \in 1..n |-> Line(args[d], i, records[d][i])]]
  BY <1>1, Zenon
<1>4. NamesTypeOK'
  <2>1. cpc' \in [Askers -> ClientPlaces]
    BY <1>3 DEF NamesTypeOK, ClientPlaces
  <2>2. printed' = [c \in Askers |-> printed'[c]]
    BY <1>3 DEF NamesTypeOK
  <2> QED
    BY <1>2, <2>1, <2>2 DEF NamesTypeOK
<1>5. cpc'[d] \in {"aborted", "done"}
  BY <1>3 DEF NamesTypeOK
<1>6. BegunInv(d)'
  BY <1>2, <1>5 DEF BegunInv
<1>7. short \subseteq short'
  BY <1>1
<1>8. ServedInv(d)'
  BY <1>2, <1>5, <1>7 DEF ServedInv
<1>9. AnswerInv(d)'
  <2>1. SUFFICES ASSUME d \notin short' \cup disturbed, cpc'[d] = "done", ~CountIsOff(args[d])
                 PROVE  printed'[d] = Answer(args[d])
    BY <1>2 DEF AnswerInv
  <2>2. Serves(args[d], keys[d], key[d], found[d], records[d], "done", cursor, row)
    BY <1>2, <1>7, <2>1 DEF ServedInv
  <2>3. args[d] \in Args /\ records[d] \in Records
    BY DEF NamesTypeOK
  <2>4. Shown(args[d], records[d]) = Answer(args[d])
    BY <2>1, <2>2, <2>3, ServedShows DEF Answer
  <2>5. n = Len(records[d])
    <3>1. Len(records[d]) \in Nat
      BY <2>3 DEF Records
    <3> QED
      BY <1>1, <2>1, <3>1
  <2>6. printed'[d] = [i \in 1..n |-> Line(args[d], i, records[d][i])]
    <3>1. cpc' # [cpc EXCEPT ![d] = "aborted"]
      BY <2>1 DEF NamesTypeOK
    <3>2. printed' = [printed EXCEPT ![d] = [i \in 1..n |-> Line(args[d], i, records[d][i])]]
      BY <1>1, <3>1, Zenon
    <3>3. d \in DOMAIN printed
      BY DEF NamesTypeOK
    <3> QED
      BY <3>2, <3>3
  <2> QED
    BY <2>4, <2>5, <2>6 DEF Shown
<1>10. \A c \in Askers \ {d} : Same(c)
  BY <1>2, <1>3 DEF Same, NamesTypeOK
<1>11. Searching' = Searching
  BY <1>2 DEF Searching
<1> QED
  BY <1>2, <1>4, <1>6, <1>7, <1>8, <1>9, <1>10, <1>11, NamesStep, StillAlone

-----------------------------------------------------------------------------
(* The steps of a thread.                                                  *)

LEMMA ReceivedFacts ==
  ASSUME NEW a \in Args, NEW n \in 0..Len(Asked(a))
  PROVE  /\ ReceivedPart(Asked(a), n) \in Seq(AnyKey \cup {Junk})
         /\ n = Len(Asked(a)) => ReceivedPart(Asked(a), n) = Asked(a)
<1> DEFINE s == Asked(a)
<1>1. s \in Seq(AnyKey) /\ Len(s) \in Nat /\ \A k \in 1..Len(s) : s[k] \in AnyKey
  BY AskedKeys
<1> HIDE DEF s
<1>2. ReceivedPart(s, n) = [k \in 1..Len(s) |-> IF k <= n THEN s[k] ELSE Junk]
  BY DEF ReceivedPart
<1>3. ReceivedPart(s, n) \in Seq(AnyKey \cup {Junk})
  BY <1>1, <1>2
<1>4. ASSUME n = Len(s) PROVE ReceivedPart(s, n) = s
  <2>1. ReceivedPart(s, n) = [k \in 1..Len(s) |-> s[k]]
    BY <1>1, <1>2, <1>4
  <2> QED
    BY <1>1, <2>1
<1> QED
  BY <1>3, <1>4 DEF s

LEMMA RecvStep ==
  ASSUME NamesAssumption, NamesInv, NEW d \in Askers, RecvPackets(d)
  PROVE  NamesInv'
<1> USE DEF NamesInv
<1>1. /\ tpc[d] = "accepted" /\ key[d] = 1 /\ records[d] = <<>>
      /\ UNCHANGED <<cpc, args, printed, key, found, records, cursor, row, disturbed>>
      /\ args[d].ok /\ args[d] \in Args
  BY DEF RecvPackets, askerVars, BegunInv, NamesTypeOK
<1>2. CASE tpc' = tpc /\ keys' = keys /\ short' = short
  <2>1. NamesTypeOK' /\ BegunInv(d)' /\ ServedInv(d)' /\ AnswerInv(d)' /\ Searching' = Searching
    BY <1>1, <1>2 DEF NamesTypeOK, BegunInv, ServedInv, AnswerInv, Searching
  <2>2. \A c \in Askers \ {d} : Same(c)
    BY <1>1, <1>2 DEF Same
  <2> QED
    BY <1>1, <1>2, <2>1, <2>2, NamesStep, StillAlone
<1>3. ASSUME NEW n \in 0..Len(Asked(args[d])),
             keys' = [keys EXCEPT ![d] = ReceivedPart(Asked(args[d]), n)],
             tpc' = [tpc EXCEPT ![d] = "set"], short \subseteq short',
             cpc[d] \in {"wait", "gone"},
             cpc[d] = "gone" \/ d \in short' \/ n = Len(Asked(args[d]))
      PROVE  NamesInv'
  <2>1. NamesTypeOK'
    <3>1. ReceivedPart(Asked(args[d]), n) \in Seq(AnyKey \cup {Junk})
      BY <1>1, ReceivedFacts
    <3>2. keys' \in [Askers -> Seq(AnyKey \cup {Junk})] /\ tpc' \in [Askers -> ThreadPlaces]
      BY <1>3, <3>1 DEF NamesTypeOK, ThreadPlaces
    <3>3. \A c \in Askers : tpc'[c] = "compare" => row' \in Row
      BY <1>1, <1>3 DEF NamesTypeOK
    <3> QED
      BY <1>1, <3>2, <3>3 DEF NamesTypeOK
  <2>2. tpc'[d] = "set" /\ keys'[d] = ReceivedPart(Asked(args[d]), n)
    BY <1>3 DEF NamesTypeOK
  <2>3. BegunInv(d)' /\ AnswerInv(d)'
    BY <1>1, <1>3, <2>2 DEF BegunInv, AnswerInv
  <2>4. ServedInv(d)'
    <3>1. SUFFICES ASSUME d \notin short', cpc[d] # "gone"
                   PROVE  Serves(args[d], keys'[d], 1, found[d], <<>>, "set", cursor, row)
      BY <1>1, <2>2 DEF ServedInv
    <3>2. keys'[d] = Asked(args[d])
      BY <1>1, <1>3, <2>2, <3>1, ReceivedFacts
    <3> QED
      BY <1>1, <3>2, ServeBegins
  <2>5. \A c \in Askers \ {d} : Same(c)
    BY <1>1, <1>3 DEF Same, NamesTypeOK
  <2>6. Searching' = Searching
    BY <1>1, <1>3, <2>2 DEF Searching, NamesTypeOK
  <2> QED
    BY <1>1, <1>3, <2>1, <2>3, <2>4, <2>5, <2>6, NamesStep, StillAlone
<1>4. Len(Asked(args[d])) \in Nat
  BY <1>1, AskedKeys
<1>5. ASSUME cpc[d] = "wait", tpc' = [tpc EXCEPT ![d] = "set"],
             NEW n \in 1..Len(Asked(args[d])),
             keys' = [keys EXCEPT ![d] = ReceivedPart(Asked(args[d]), n)],
             short' = IF n < Len(Asked(args[d])) THEN short \cup {d} ELSE short
      PROVE  NamesInv'
  <2>1. n \in 0..Len(Asked(args[d])) /\ (n < Len(Asked(args[d])) \/ n = Len(Asked(args[d])))
    BY <1>4
  <2>2. short \subseteq short' /\ (d \in short' \/ n = Len(Asked(args[d])))
    BY <1>5, <2>1
  <2> QED
    BY <1>3, <1>5, <2>1, <2>2
<1>6. CASE /\ cpc[d] = "gone" /\ keys' = [keys EXCEPT ![d] = ReceivedPart(Asked(args[d]), 0)]
           /\ tpc' = [tpc EXCEPT ![d] = "set"] /\ short' = short
  <2>1. 0 \in 0..Len(Asked(args[d])) /\ short \subseteq short'
    BY <1>4, <1>6
  <2> QED
    BY <1>3, <1>6, <2>1
<1> QED
  BY <1>2, <1>5, <1>6, Zenon DEF RecvPackets

LEMMA SetpwentStep ==
  ASSUME NamesAssumption, NamesInv, NEW d \in Askers, Setpwent(d)
  PROVE  NamesInv'
<1> USE DEF NamesInv
<1>1. /\ tpc[d] = "set" /\ key[d] <= Len(keys[d]) /\ cursor' = 0
      /\ tpc' = [tpc EXCEPT ![d] = "get"] /\ found' = [found EXCEPT ![d] = FALSE]
      /\ UNCHANGED <<cpc, args, printed, keys, key, records, row, short>>
  BY DEF Setpwent, askerVars
<1>2. disturbed' = IF Searching = {} THEN disturbed ELSE disturbed \cup Searching \cup {d}
  BY DEF Setpwent
<1>3. tpc'[d] = "get" /\ found'[d] = FALSE /\ args[d] \in Args
  BY <1>1 DEF NamesTypeOK
<1>4. NamesTypeOK'
  <2>1. tpc' \in [Askers -> ThreadPlaces] /\ found' \in [Askers -> BOOLEAN]
    BY <1>1 DEF NamesTypeOK, ThreadPlaces
  <2>2. cursor' \in 0..Len(Users)
    BY <1>1, RowFacts
  <2>3. \A c \in Askers : tpc'[c] = "compare" => row' \in Row
    BY <1>1 DEF NamesTypeOK
  <2> QED
    BY <1>1, <2>1, <2>2, <2>3 DEF NamesTypeOK
<1>5. BegunInv(d)' /\ AnswerInv(d)'
  <2>1. disturbed \subseteq disturbed'
    BY <1>2
  <2> QED
    BY <1>1, <1>3, <2>1 DEF BegunInv, AnswerInv
<1>6. ServedInv(d)'
  <2>1. SUFFICES ASSUME d \notin short \cup disturbed', cpc[d] # "gone"
                 PROVE  Serves(args[d], keys[d], key[d], FALSE, records[d], "get", 0, row)
    BY <1>1, <1>3 DEF ServedInv
  <2>2. d \notin disturbed
    BY <1>2, <2>1
  <2>3. Serves(args[d], keys[d], key[d], found[d], records[d], "set", cursor, row)
    BY <1>1, <2>1, <2>2 DEF ServedInv
  <2> QED
    BY <1>1, <1>3, <2>3, ServeSet
<1>7. \A c \in Askers \ {d} : Same(c)
  BY <1>1 DEF Same, NamesTypeOK
<1>8. Searching' = Searching \cup {d}
  BY <1>1, <1>3 DEF Searching, NamesTypeOK
<1>9. AloneInv'
  <2>1. CASE Searching = {}
    BY <1>8, <2>1 DEF AloneInv
  <2>2. CASE Searching # {}
    BY <1>2, <1>8, <2>2 DEF AloneInv
  <2> QED
    BY <2>1, <2>2
<1>10. /\ disturbed \subseteq disturbed'
       /\ \A c \in (Searching \ disturbed') \ {d} : cursor' = cursor /\ row' = row
  BY <1>2
<1> QED
  BY <1>1, <1>4, <1>5, <1>6, <1>7, <1>9, <1>10, NamesStep

LEMMA GetpwentStep ==
  ASSUME NamesAssumption, NamesInv, NEW d \in Askers, Getpwent(d)
  PROVE  NamesInv'
<1> USE DEF NamesInv
<1>1. /\ tpc[d] = "get"
      /\ UNCHANGED <<cpc, args, printed, keys, key, found, records, short, disturbed>>
      /\ args[d] \in Args /\ found[d] \in BOOLEAN /\ cursor \in Nat /\ cursor <= Len(Users)
  BY DEF Getpwent, askerVars, NamesTypeOK
<1>2. CASE cursor < Len(Users)
  <2>1. /\ row' = Users[cursor + 1] /\ cursor' = cursor + 1
        /\ tpc' = [tpc EXCEPT ![d] = "compare"]
    BY <1>2 DEF Getpwent
  <2>2. cursor' \in 0..Len(Users) /\ row' \in Row
    BY <1>1, <1>2, <2>1, RowFacts
  <2>3. NamesTypeOK' /\ tpc'[d] = "compare"
    BY <1>1, <2>1, <2>2 DEF NamesTypeOK, ThreadPlaces
  <2>4. BegunInv(d)' /\ AnswerInv(d)'
    BY <1>1, <2>3 DEF BegunInv, AnswerInv
  <2>5. ServedInv(d)'
    <3>1. SUFFICES ASSUME d \notin short \cup disturbed, cpc[d] # "gone"
                   PROVE  Serves(args[d], keys[d], key[d], found[d], records[d], "compare",
                                 cursor + 1, Users[cursor + 1])
      BY <1>1, <2>1, <2>3 DEF ServedInv
    <3>2. Serves(args[d], keys[d], key[d], found[d], records[d], "get", cursor, row)
      BY <1>1, <3>1 DEF ServedInv
    <3> QED
      BY <1>1, <1>2, <3>2, ServeRead
  <2>6. \A c \in Askers \ {d} : Same(c)
    BY <1>1, <2>1 DEF Same, NamesTypeOK
  <2>7. Searching' = Searching
    BY <1>1, <2>1, <2>3 DEF Searching, NamesTypeOK
  <2>8. (Searching \ disturbed') \ {d} = {}
    BY <1>1 DEF AloneInv, Searching
  <2> QED
    BY <1>1, <2>3, <2>4, <2>5, <2>6, <2>7, <2>8, NamesStep, StillAlone
<1>3. CASE ~ (cursor < Len(Users))
  <2>1. tpc' = [tpc EXCEPT ![d] = "end"] /\ UNCHANGED <<row, cursor>>
    BY <1>3 DEF Getpwent
  <2>2. cursor = Len(Users)
    BY <1>1, <1>3, RowFacts
  <2>3. NamesTypeOK' /\ tpc'[d] = "end"
    BY <1>1, <2>1 DEF NamesTypeOK, ThreadPlaces
  <2>4. BegunInv(d)' /\ AnswerInv(d)'
    BY <1>1, <2>3 DEF BegunInv, AnswerInv
  <2>5. ServedInv(d)'
    <3>1. SUFFICES ASSUME d \notin short \cup disturbed, cpc[d] # "gone"
                   PROVE  Serves(args[d], keys[d], key[d], found[d], records[d], "end",
                                 cursor, row)
      BY <1>1, <2>1, <2>3 DEF ServedInv
    <3>2. Serves(args[d], keys[d], key[d], found[d], records[d], "get", cursor, row)
      BY <1>1, <3>1 DEF ServedInv
    <3> QED
      BY <1>1, <2>2, <3>2, ServeReadAll
  <2>6. \A c \in Askers \ {d} : Same(c)
    BY <1>1, <2>1 DEF Same, NamesTypeOK
  <2>7. Searching' = Searching
    BY <1>1, <2>1, <2>3 DEF Searching, NamesTypeOK
  <2> QED
    BY <1>1, <2>1, <2>3, <2>4, <2>5, <2>6, <2>7, NamesStep, StillAlone
<1> QED
  BY <1>2, <1>3

LEMMA CompareStep ==
  ASSUME NamesAssumption, NamesInv, NEW d \in Askers, Compare(d)
  PROVE  NamesInv'
<1> USE DEF NamesInv
<1>1. /\ tpc[d] = "compare"
      /\ UNCHANGED <<cpc, args, printed, keys, key, cursor, row, short, disturbed>>
      /\ args[d] \in Args /\ records[d] \in Records /\ row \in Row
  BY DEF Compare, askerVars, NamesTypeOK
<1> DEFINE hit == Matches(keys[d][key[d]], row, ByLogin(args[d]))
           new == Append(records[d], AddToRecords(args[d], row))
           next == IF Ends(args[d]) THEN "end" ELSE "get"
<1>2. CASE hit
  <2>1. /\ found' = [found EXCEPT ![d] = TRUE]
        /\ records' = [records EXCEPT ![d] = new]
        /\ tpc' = [tpc EXCEPT ![d] = next]
    BY <1>2 DEF Compare
  <2>2. new \in Records
    <3>1. AddToRecords(args[d], row) \in Seq(Value) \cup {NotFound}
      BY <1>1, AnswerFits
    <3> QED
      BY <1>1, <3>1 DEF Records
  <2> HIDE DEF new, hit
  <2>3. next \in {"end", "get"}
    OBVIOUS
  <2> HIDE DEF next
  <2>4. NamesTypeOK'
    <3>1. /\ tpc' \in [Askers -> ThreadPlaces] /\ found' \in [Askers -> BOOLEAN]
          /\ records' \in [Askers -> Records]
      BY <2>1, <2>2, <2>3 DEF NamesTypeOK, ThreadPlaces
    <3>2. \A c \in Askers : tpc'[c] = "compare" => row' \in Row
      BY <1>1
    <3> QED
      BY <1>1, <3>1, <3>2 DEF NamesTypeOK
  <2>5. tpc'[d] = next /\ found'[d] = TRUE /\ records'[d] = new
    BY <2>1 DEF NamesTypeOK
  <2>6. BegunInv(d)' /\ AnswerInv(d)'
    BY <1>1, <2>3, <2>5 DEF BegunInv, AnswerInv
  <2>7. ServedInv(d)'
    <3>1. SUFFICES ASSUME d \notin short \cup disturbed, cpc[d] # "gone"
                   PROVE  Serves(args[d], keys[d], key[d], TRUE, new, next, cursor, row)
      BY <1>1, <2>5 DEF ServedInv
    <3>2. Serves(args[d], keys[d], key[d], found[d], records[d], "compare", cursor, row)
      BY <1>1, <3>1 DEF ServedInv
    <3>3. args[d].ok
      BY <1>1 DEF BegunInv
    <3> QED
      BY <1>1, <1>2, <3>2, <3>3, ServeMatch DEF hit, new, next
  <2>8. \A c \in Askers \ {d} : Same(c)
    BY <1>1, <2>1 DEF Same, NamesTypeOK
  <2>9. Searching' = Searching
    BY <1>1, <2>1, <2>3, <2>5 DEF Searching, NamesTypeOK
  <2> QED
    BY <1>1, <2>4, <2>6, <2>7, <2>8, <2>9, NamesStep, StillAlone
<1>3. CASE ~hit
  <2>1. tpc' = [tpc EXCEPT ![d] = "get"] /\ UNCHANGED <<found, records>>
    BY <1>3 DEF Compare
  <2> HIDE DEF hit
  <2>2. NamesTypeOK' /\ tpc'[d] = "get"
    BY <1>1, <2>1 DEF NamesTypeOK, ThreadPlaces
  <2>3. BegunInv(d)' /\ AnswerInv(d)'
    BY <1>1, <2>1, <2>2 DEF BegunInv, AnswerInv
  <2>4. ServedInv(d)'
    <3>1. SUFFICES ASSUME d \notin short \cup disturbed, cpc[d] # "gone"
                   PROVE  Serves(args[d], keys[d], key[d], found[d], records[d], "get",
                                 cursor, row)
      BY <1>1, <2>1, <2>2 DEF ServedInv
    <3>2. Serves(args[d], keys[d], key[d], found[d], records[d], "compare", cursor, row)
      BY <1>1, <3>1 DEF ServedInv
    <3> QED
      BY <1>1, <1>3, <3>2, ServeMiss DEF hit
  <2>5. \A c \in Askers \ {d} : Same(c)
    BY <1>1, <2>1 DEF Same, NamesTypeOK
  <2>6. Searching' = Searching
    BY <1>1, <2>1, <2>2 DEF Searching, NamesTypeOK
  <2> QED
    BY <1>1, <2>2, <2>3, <2>4, <2>5, <2>6, NamesStep, StillAlone
<1> QED
  BY <1>2, <1>3

LEMMA EndpwentStep ==
  ASSUME NamesAssumption, NamesInv, NEW d \in Askers, Endpwent(d)
  PROVE  NamesInv'
<1> USE DEF NamesInv
<1>1. /\ tpc[d] = "end" /\ cursor' = 0
      /\ records' = IF found[d] THEN records
                    ELSE [records EXCEPT ![d] = Append(records[d], NotFound)]
      /\ key' = [key EXCEPT ![d] = key[d] + 1] /\ tpc' = [tpc EXCEPT ![d] = "set"]
      /\ UNCHANGED <<cpc, args, printed, keys, found, row, short, disturbed>>
      /\ args[d] \in Args /\ records[d] \in Records /\ found[d] \in BOOLEAN /\ key[d] \in Nat
  BY DEF Endpwent, askerVars, NamesTypeOK
<1> DEFINE new == IF found[d] THEN records[d] ELSE Append(records[d], NotFound)
<1>2. tpc'[d] = "set" /\ key'[d] = key[d] + 1 /\ records' = [records EXCEPT ![d] = new]
      /\ records'[d] = new
  BY <1>1 DEF NamesTypeOK
<1>3. new \in Records
  BY <1>1 DEF Records
<1> HIDE DEF new
<1>4. NamesTypeOK'
  <2>1. /\ tpc' \in [Askers -> ThreadPlaces] /\ key' \in [Askers -> Nat]
        /\ records' \in [Askers -> Records]
    <3>1. tpc' \in [Askers -> ThreadPlaces]
      BY <1>1 DEF NamesTypeOK, ThreadPlaces
    <3>2. key' \in [Askers -> Nat]
      BY <1>1 DEF NamesTypeOK
    <3>3. records' \in [Askers -> Records]
      BY <1>2, <1>3 DEF NamesTypeOK
    <3> QED
      BY <3>1, <3>2, <3>3
  <2>2. cursor' \in 0..Len(Users)
    BY <1>1, RowFacts
  <2>3. \A c \in Askers : tpc'[c] = "compare" => row' \in Row
    BY <1>1 DEF NamesTypeOK
  <2> QED
    BY <1>1, <2>1, <2>2, <2>3 DEF NamesTypeOK
<1>5. BegunInv(d)' /\ AnswerInv(d)'
  BY <1>1, <1>2 DEF BegunInv, AnswerInv
<1>6. ServedInv(d)'
  <2>1. SUFFICES ASSUME d \notin short \cup disturbed, cpc[d] # "gone"
                 PROVE  Serves(args[d], keys[d], key[d] + 1, found[d], new, "set", 0, row)
    BY <1>1, <1>2 DEF ServedInv
  <2>2. Serves(args[d], keys[d], key[d], found[d], records[d], "end", cursor, row)
    BY <1>1, <2>1 DEF ServedInv
  <2> QED
    BY <1>1, <2>2, ServeEnds DEF new
<1>7. \A c \in Askers \ {d} : Same(c)
  BY <1>1, <1>2 DEF Same, NamesTypeOK
<1>8. Searching' = Searching \ {d} /\ d \in Searching
  BY <1>1, <1>2 DEF Searching, NamesTypeOK
<1>9. (Searching \ disturbed') \ {d} = {} /\ AloneInv'
  BY <1>1, <1>8 DEF AloneInv
<1> QED
  BY <1>1, <1>4, <1>5, <1>6, <1>7, <1>9, NamesStep

LEMMA ReplyStep ==
  ASSUME NamesInv, NEW d \in Askers, Reply(d)
  PROVE  NamesInv'
<1> USE DEF NamesInv
<1>1. /\ tpc[d] = "set" /\ key[d] > Len(keys[d])
      /\ UNCHANGED <<cpc, args, printed, keys, key, found, records, cursor, row, short,
                     disturbed>>
      /\ args[d] \in Args
  BY DEF Reply, askerVars, NamesTypeOK
<1>0. CASE tpc' = tpc
  <2>1. NamesTypeOK' /\ BegunInv(d)' /\ ServedInv(d)' /\ AnswerInv(d)' /\ Searching' = Searching
    BY <1>0, <1>1 DEF NamesTypeOK, BegunInv, ServedInv, AnswerInv, Searching
  <2>2. \A c \in Askers \ {d} : Same(c)
    BY <1>0, <1>1 DEF Same
  <2> QED
    BY <1>1, <2>1, <2>2, NamesStep, StillAlone
<1>a. SUFFICES ASSUME tpc' = [tpc EXCEPT ![d] = "done"]
               PROVE  NamesInv'
  BY <1>0 DEF Reply
<1>2. NamesTypeOK' /\ tpc'[d] = "done"
  BY <1>1, <1>a DEF NamesTypeOK, ThreadPlaces
<1>3. BegunInv(d)' /\ AnswerInv(d)'
  BY <1>1, <1>2 DEF BegunInv, AnswerInv
<1>4. ServedInv(d)'
  <2>1. SUFFICES ASSUME d \notin short \cup disturbed, cpc[d] # "gone"
                 PROVE  Serves(args[d], keys[d], key[d], found[d], records[d], "done",
                               cursor, row)
    BY <1>1, <1>2 DEF ServedInv
  <2>2. Serves(args[d], keys[d], key[d], found[d], records[d], "set", cursor, row)
    BY <1>1, <2>1 DEF ServedInv
  <2> QED
    BY <1>1, <2>2, ServeDone
<1>5. \A c \in Askers \ {d} : Same(c)
  BY <1>1, <1>a DEF Same, NamesTypeOK
<1>6. Searching' = Searching
  BY <1>1, <1>2, <1>a DEF Searching, NamesTypeOK
<1> QED
  BY <1>1, <1>2, <1>3, <1>4, <1>5, <1>6, NamesStep, StillAlone

LEMMA NamesNextInv ==
  ASSUME NamesAssumption, NamesInv, [NamesNext]_nameVars
  PROVE  NamesInv'
<1>1. CASE \E d \in Askers : \/ ParseArgs(d) \/ ConnectTo(d) \/ SendData(d) \/ Lose(d) \/ Show(d)
  BY <1>1, ParseArgsStep, ConnectStep, SendDataStep, LoseStep, ShowStep
<1>2. CASE \E d \in Askers : \/ RecvPackets(d) \/ Setpwent(d) \/ Getpwent(d) \/ Compare(d)
                             \/ Endpwent(d) \/ Reply(d)
  BY <1>2, RecvStep, SetpwentStep, GetpwentStep, CompareStep, EndpwentStep, ReplyStep
<1>3. CASE UNCHANGED nameVars
  <2>1. /\ UNCHANGED <<cpc, args, printed, tpc, keys, key, found, records>>
        /\ UNCHANGED <<cursor, row, short, disturbed>>
    BY <1>3 DEF nameVars
  <2>2. NamesTypeOK'
    BY <2>1 DEF NamesInv, NamesTypeOK
  <2>3. Searching' = Searching
    BY <2>1 DEF Searching
  <2>4. AloneInv'
    BY <2>1, <2>3 DEF NamesInv, AloneInv
  <2>5. \A c \in Askers : BegunInv(c)' /\ ServedInv(c)' /\ AnswerInv(c)'
    BY <2>1 DEF NamesInv, BegunInv, ServedInv, AnswerInv
  <2> QED
    BY <2>2, <2>4, <2>5 DEF NamesInv
<1> QED
  BY <1>1, <1>2, <1>3 DEF NamesNext

\* ProcessData, Passwd, main: for any clients, command lines and table of users, the client
\* prints the columns in the order of its command line, for each key in turn, if no read
\* was short and no search of another thread overlapped.
THEOREM NamesAnswersAreRight == NamesSpec => []AnswersAreRight
<1>1. NamesInit => NamesInv
  BY NamesHold, NamesInitInv
<1>2. NamesInv /\ [NamesNext]_nameVars => NamesInv'
  BY NamesHold, NamesNextInv
<1> QED
  BY <1>1, <1>2, NamesInvRight, PTL DEF NamesSpec
=============================================================================
