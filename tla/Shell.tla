------------------------------- MODULE Shell --------------------------------
(***************************************************************************)
(* POS/proj2/main.c: a shell of two threads, one that reads lines and one  *)
(* that runs them, and of two signal handlers that any thread may run.     *)
(*                                                                         *)
(* signalThread and waitThread hold the mutex only inside, so each of them *)
(* is one step up to the wait.  pthread_cond_wait stands without a         *)
(* predicate: a signal that finds nobody asleep is lost, and a return that *)
(* nobody signalled, which POSIX allows, is taken for one.  What a line    *)
(* says is left to CommandParser; here a line is what the threads tell     *)
(* apart.                                                                  *)
(***************************************************************************)
EXTENDS Integers, Sequences

CONSTANTS
  MaxLines,       \* bound: lines that are typed before the end of the input
  MaxChildren,    \* bound: processes the system grants, then fork fails
  MaxInterrupts   \* bound: how often Ctrl-C is pressed

ASSUME ShellAssumption == {MaxLines, MaxChildren, MaxInterrupts} \subseteq Nat

Commands == {"fg", "bg"}
Lines    == Commands \cup {"empty", "long", "exit"}
Threads  == {"main", "parse", "exec"}

VARIABLES
  pc,          \* where each thread is
  run,         \* the flag that both loops test
  buffer,      \* the line read last
  reads,       \* lines typed so far
  program,     \* what parseBuffer made of the buffer
  children,    \* the processes forked: kind and status
  activePid,   \* the foreground process forked last, 0 for none yet
  sigChld, sigInt,  \* signals that are pending
  pressed,     \* Ctrl-C so far
  inWait,      \* the threads that sit in wait() of sigChldHandler
  due,         \* history: what the buffer holds that was not run yet
  noted        \* history: what has happened that the properties except

vars == <<pc, run, buffer, reads, program, children, activePid, sigChld, sigInt,
          pressed, inWait, due, noted>>
input   == <<buffer, reads>>
history == <<due, noted>>
signals == <<sigChld, sigInt, pressed, inWait>>
procs   == <<children, activePid>>

Child == [kind : Commands, status : {"running", "zombie", "reaped"}]

TypeOK ==
  /\ pc \in [Threads -> {"test", "read", "deliver", "wait", "asleep", "woken", "bye",
                         "check", "parse", "fork", "record", "waitpid", "clear",
                         "join exec", "join parse", "over"}]
  /\ run \in BOOLEAN
  /\ buffer \in Lines \cup {"blank"} /\ reads \in 0..MaxLines
  /\ program \in Commands \cup {"none"}
  /\ children \in Seq(Child) /\ activePid \in 0..Len(children)
  /\ sigChld \in BOOLEAN /\ sigInt \in BOOLEAN /\ pressed \in 0..MaxInterrupts
  /\ inWait \subseteq Threads
  /\ due \in {"typed", "again", "none"} /\ noted \subseteq {"wakeup", "late"}

Init ==
  /\ pc = [t \in Threads |-> IF t = "main" THEN "join exec" ELSE "test"]
  /\ run = TRUE
  /\ buffer = "blank" /\ reads = 0
  /\ program = "none"
  /\ children = <<>> /\ activePid = 0
  /\ sigChld = FALSE /\ sigInt = FALSE /\ pressed = 0 /\ inWait = {}
  /\ due = "none" /\ noted = {}

Goto(t, from, to) == /\ pc[t] = from /\ t \notin inWait
                     /\ pc' = [pc EXCEPT ![t] = to]

-----------------------------------------------------------------------------
(* The condition variable.                                                 *)

Other(t) == IF t = "parse" THEN "exec" ELSE "parse"

\* signalThread: the other thread is woken if it sleeps, and nothing is
\* remembered if it does not.
SignalThread(t, from, to) ==
  /\ pc[t] = from /\ t \notin inWait
  /\ pc' = [pc EXCEPT ![t] = to,
              ![Other(t)] = IF @ = "asleep" THEN "woken" ELSE @]

WaitThread(t) == /\ Goto(t, "wait", "asleep")
                 /\ UNCHANGED <<run, input, program, procs, signals, history>>

\* pthread_cond_wait returns although nobody has signalled.
WakesUp(t) == /\ Goto(t, "asleep", "woken")
              /\ noted' = noted \cup {"wakeup"}
              /\ UNCHANGED <<run, input, program, procs, signals, due>>

-----------------------------------------------------------------------------
(* parseWorker                                                             *)

ParseTest == /\ Goto("parse", "test", IF run THEN "read" ELSE "over")
             /\ UNCHANGED <<run, input, program, procs, signals, history>>

\* Where the loop goes on with the line; the long one is dropped but has
\* overwritten the buffer.
Treat(line) == CASE line = "exit"             -> "bye"
                 [] line \in {"empty", "long"} -> "test"
                 [] OTHER                     -> "deliver"

Read(line) == /\ reads < MaxLines
              /\ Goto("parse", "read", Treat(line))
              /\ buffer' = line /\ reads' = reads + 1
              /\ run' = (run /\ line # "exit")
              /\ due' = IF line \in Commands THEN "typed" ELSE "none"
              /\ UNCHANGED <<program, procs, signals, noted>>

EndOfInput == /\ Goto("parse", "read", "bye")
              /\ run' = FALSE
              /\ UNCHANGED <<input, program, procs, signals, history>>

Bye == /\ SignalThread("parse", "bye", "over")
       /\ UNCHANGED <<run, input, program, procs, signals, history>>

\* Where the parser goes after signalThread; the mutants read on at once, and
\* go to a place of main.
ReadsOn      == "test"
AfterNothing == "join"
AfterDeliver == "wait"

Deliver == /\ SignalThread("parse", "deliver", AfterDeliver)
           /\ UNCHANGED <<run, input, program, procs, signals, history>>

ParseWoken == /\ Goto("parse", "woken", "test")
              /\ UNCHANGED <<run, input, program, procs, signals, history>>

ParseWorker == \/ ParseTest \/ EndOfInput \/ Bye \/ Deliver \/ WaitThread("parse")
               \/ ParseWoken \/ \E line \in Lines : Read(line)

-----------------------------------------------------------------------------
(* execWorker                                                              *)

ExecTest == /\ Goto("exec", "test", IF run THEN "wait" ELSE "over")
            /\ UNCHANGED <<run, input, program, procs, signals, history>>

\* The test after the wait; a mutant leaves it out.
NoTest   == TRUE
MayGoOn == run

ExecWoken == /\ Goto("exec", "woken", IF MayGoOn THEN "parse" ELSE "over")
             /\ UNCHANGED <<run, input, program, procs, signals, history>>

\* A blank buffer gives a program without arguments, whose execvp fails.  A line
\* that parseWorker has not ended may turn out as either kind, with what is left
\* of an older one behind it, and so may one that is being read.
Parse ==
  /\ Goto("exec", "parse", "fork")
  /\ program' \in CASE pc["parse"] \in {"read", "deliver"} -> Commands
                    [] buffer \in Commands -> {buffer}
                    [] buffer = "blank"    -> {"fg"}
                    [] OTHER               -> Commands
  /\ UNCHANGED <<run, input, procs, signals, history>>

Fork == /\ Goto("exec", "fork", IF program = "fg" THEN "record" ELSE "clear")
        /\ Len(children) < MaxChildren
        /\ children' = Append(children, [kind |-> program, status |-> "running"])
        /\ due' = "none"
        /\ noted' = IF run THEN noted ELSE noted \cup {"late"}
        /\ UNCHANGED <<run, input, program, activePid, signals>>

ForkFails == /\ Goto("exec", "fork", "over")
             /\ run' = FALSE
             /\ UNCHANGED <<input, program, procs, signals, history>>

Record == /\ Goto("exec", "record", "waitpid")
          /\ activePid' = Len(children)
          /\ UNCHANGED <<run, input, program, children, signals, history>>

\* The child is collected, or has been by the handler: ECHILD.
Waitpid == /\ Goto("exec", "waitpid", "clear")
           /\ children[activePid].status # "running"
           /\ children' = [children EXCEPT ![activePid].status = "reaped"]
           /\ UNCHANGED <<run, input, program, activePid, signals, history>>

\* clearProgram, and signalThread at the end of the loop.
Clear == /\ SignalThread("exec", "clear", "test")
         /\ program' = "none"
         /\ UNCHANGED <<run, input, procs, signals, history>>

ExecWorker == \/ ExecTest \/ WaitThread("exec") \/ ExecWoken \/ Parse \/ Fork
              \/ ForkFails \/ Record \/ Waitpid \/ Clear

-----------------------------------------------------------------------------
(* main, the children and the handlers                                     *)

Join == /\ \/ pc["exec"] = "over" /\ Goto("main", "join exec", "join parse")
           \/ pc["parse"] = "over" /\ Goto("main", "join parse", "over")
        /\ UNCHANGED <<run, input, program, procs, signals, history>>

ChildEnds(c) == /\ children[c].status = "running"
                /\ children' = [children EXCEPT ![c].status = "zombie"]
                /\ sigChld' = TRUE
                /\ UNCHANGED <<pc, run, input, program, activePid, sigInt, pressed,
                               inWait, history>>

\* A handler interrupts the system call of its thread: read() gives -1 and the
\* old buffer is treated again (its end is then written before the array, into a
\* gap), waitpid gives up on a child that still runs.
Interrupted(t) ==
  CASE t = "parse" /\ pc[t] = "read" ->
         IF buffer = "empty" THEN "test" ELSE "deliver"
    [] t = "exec" /\ pc[t] = "waitpid" /\ children[activePid].status = "running" ->
         "clear"
    [] OTHER -> pc[t]

\* What the buffer holds then: a line that is delivered again.
Redue(t) == IF t = "parse" /\ pc[t] = "read" /\ buffer # "empty" THEN "again" ELSE due

TakeChld(t) == /\ sigChld /\ t \notin inWait /\ pc[t] # "over"
               /\ sigChld' = FALSE
               /\ inWait' = inWait \cup {t}
               /\ pc' = [pc EXCEPT ![t] = Interrupted(t)]
               /\ due' = Redue(t)
               /\ UNCHANGED <<run, input, program, procs, sigInt, pressed, noted>>

Unreaped == {c \in DOMAIN children : children[c].status # "reaped"}
Zombies  == {c \in DOMAIN children : children[c].status = "zombie"}

\* wait() in sigChldHandler: any dead child, or -1 when there is no child.
WaitReturns(t) ==
  /\ t \in inWait
  /\ \/ Unreaped = {} /\ UNCHANGED children
     \/ \E c \in Zombies : children' = [children EXCEPT ![c].status = "reaped"]
  /\ inWait' = inWait \ {t}
  /\ UNCHANGED <<pc, run, input, program, activePid, sigChld, sigInt, pressed, history>>

CtrlC == /\ pressed < MaxInterrupts /\ pc["main"] # "over"
         /\ pressed' = pressed + 1 /\ sigInt' = TRUE
         /\ UNCHANGED <<pc, run, input, program, procs, sigChld, inWait, history>>

\* sigIntHandler: kill(0, SIGINT) reaches the shell itself again.  That the
\* signal ends a child is ChildEnds, which may happen at any time.
TakeInt(t) ==
  /\ sigInt /\ pc[t] # "over"
  /\ sigInt' = (activePid = 0)
  /\ inWait' = inWait \ {t}
  /\ IF t \in inWait
     THEN UNCHANGED <<pc, due>>
     ELSE pc' = [pc EXCEPT ![t] = Interrupted(t)] /\ due' = Redue(t)
  /\ UNCHANGED <<run, input, program, procs, sigChld, pressed, noted>>

Handlers == \/ CtrlC
            \/ \E t \in Threads : TakeChld(t) \/ WaitReturns(t) \/ TakeInt(t)

Next == \/ ParseWorker \/ ExecWorker \/ Join \/ Handlers
        \/ \E t \in Threads : WakesUp(t)
        \/ \E c \in DOMAIN children : ChildEnds(c)

Spec == Init /\ [][Next]_vars

\* The threads run; nothing is promised of the user and of the programs, nor
\* that a wait ever returns by itself.
FairSpec ==
  /\ Spec
  /\ WF_vars(ParseTest \/ Bye \/ Deliver \/ WaitThread("parse") \/ ParseWoken)
  /\ WF_vars(ExecWorker) /\ WF_vars(Join)
  /\ \A t \in Threads : WF_vars(WaitReturns(t))

-----------------------------------------------------------------------------
(* Properties.                                                             *)

\* While parseWorker reads into the buffer, execWorker is not using it and runs
\* no command in the foreground: the two signals alternate even when some of
\* them are lost and when handlers interrupt read() and waitpid().  Only a wait
\* that returned without a signal may have broken this.
PromptMeansIdle ==
  pc["parse"] = "read" /\ "wakeup" \notin noted =>
    pc["exec"] \notin {"woken", "parse", "fork", "record", "waitpid", "clear"}

\* execWorker starts one process for one delivery of a line: of a line that was
\* typed, or of one that an interrupted read() has delivered again.  And it starts
\* none once run is FALSE, however late it wakes up.  A wait that returned without
\* a signal may start a line once more, or none that was typed; even then at most
\* one process is started after the exit.
StartsWhatIsDue ==
  [][Len(children') > Len(children) =>
       \/ run /\ due # "none"
       \/ "wakeup" \in noted /\ (run \/ "late" \notin noted)]_vars

\* main.c:108, "Let the exec thread know that we are finished": then it ends.
ExecIsTold == pc["parse"] = "over" ~> pc["exec"] = "over"
=============================================================================
