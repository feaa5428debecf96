--------------------------- MODULE RiverProcesses ---------------------------
(***************************************************************************)
(* The processes around the river crossing: main, the two generators it    *)
(* forks and the persons these fork, and how a failed call or an interrupt *)
(* from the terminal takes all of them down.                               *)
(*                                                                         *)
(* A person takes the steps of RiverCrossing as long as it lives.  A       *)
(* signal is pending from killpg (or the terminal) until its handler       *)
(* starts; the handlers never return, they exit, and a signal is blocked   *)
(* while its own handler runs.  A process with a signal pending does not   *)
(* fork: the kernel runs the handler first.                                *)
(***************************************************************************)
EXTENDS RiverCrossing, TLC

CONSTANTS
  MaxFailures,    \* bound on the calls that fail: init or fork
  MaxInterrupts   \* bound on the interrupts from the terminal

ASSUME BoundsAssumption == MaxFailures \in Nat /\ MaxInterrupts \in Nat

VARIABLES
  at,         \* where main and the generators are
  handler,    \* the signal handler they have installed
  mask,       \* the signals that are blocked, in a handler
  closed,     \* whether fclose(output) has run
  dead,       \* the persons ended by a signal
  pending,    \* the signals pending for each process
  cleanups,   \* how often cleanup() has run
  failures, interrupts  \* how many there have been

procVars == <<at, handler, mask, closed, dead, pending, cleanups, failures,
              interrupts>>
allVars  == <<vars, procVars>>

Generators == {"hackers", "serfs"}
Leaders    == Generators \cup {"main"}
Signals    == {"TERM", "INT"}
Over       == {"none", "exited", "killed", "crashed"}

Kind(g)   == IF g = "hackers" THEN Hackers ELSE Serfs
Living(m) == pc[m] \notin {"unborn", "done"} /\ m \notin dead

\* The process group: everybody who is forked and has not ended.
Alive == {m \in Members : Living(m)} \cup {p \in Leaders : at[p] \notin Over}

PTypeOK ==
  /\ TypeOK
  /\ at \in [Leaders -> Over \cup {"init", "fork1", "fork2", "new", "fork",
                                   "wait", "closed", "leave", "clean", "kill",
                                   "reap"}]
  /\ handler \in [Leaders -> {"default", "cleanAndExit", "childExit"}]
  /\ mask \in [Leaders -> SUBSET Signals]
  /\ closed \in [Leaders -> BOOLEAN]
  /\ dead \subseteq Members
  /\ pending \in [Members \cup Leaders -> SUBSET Signals]
  /\ cleanups \in 0..7
  /\ failures \in 0..MaxFailures /\ interrupts \in 0..MaxInterrupts

PInit == /\ Init
         /\ at = [p \in Leaders |-> IF p = "main" THEN "init" ELSE "none"]
         /\ handler = [p \in Leaders |-> "default"]
         /\ mask = [p \in Leaders |-> {}]
         /\ closed = [p \in Leaders |-> FALSE]
         /\ dead = {}
         /\ pending = [p \in Members \cup Leaders |-> {}]
         /\ cleanups = 0 /\ failures = 0 /\ interrupts = 0

-----------------------------------------------------------------------------
(* The regular course.                                                     *)

Goes(p, place) == at' = [at EXCEPT ![p] = place]
Quiet(p)       == pending[p] = {}
Rest           == <<mask, closed, dead, pending, cleanups, failures, interrupts>>

Live(m) == /\ m \notin dead
           /\ Member(m)
           /\ UNCHANGED procVars

InitSucceeds == /\ at["main"] = "init"
                /\ Goes("main", "fork1")
                /\ handler' = [handler EXCEPT !["main"] = "cleanAndExit"]
                /\ UNCHANGED <<vars, Rest>>

\* main forks a generator, which inherits its handler.
MainForks(from, g, to) ==
  /\ at["main"] = from /\ Quiet("main")
  /\ at' = [at EXCEPT !["main"] = to, ![g] = "new"]
  /\ handler' = [handler EXCEPT ![g] = handler["main"]]
  /\ UNCHANGED <<vars, Rest>>

InstallChildExit(g) == /\ at[g] = "new"
                       /\ Goes(g, "fork")
                       /\ handler' = [handler EXCEPT ![g] = "childExit"]
                       /\ UNCHANGED <<vars, Rest>>

GeneratorForks(g) == /\ at[g] = "fork" /\ Quiet(g)
                     /\ \E m \in Kind(g) : Fork(m)
                     /\ UNCHANGED procVars

GeneratorWaits(g) == /\ at[g] = "fork"
                     /\ \A m \in Kind(g) : pc[m] # "unborn"
                     /\ Goes(g, "wait")
                     /\ UNCHANGED <<vars, handler, Rest>>

\* wait() until no child is left; a mutant waits for one child only.
OneChildOver(p) == IF p = "main" THEN \E g \in Generators : at[g] \in Over
                                 ELSE \E m \in Kind(p) : ~Living(m)
ChildrenOver(p) == IF p = "main" THEN \A g \in Generators : at[g] \in Over
                                 ELSE \A m \in Kind(p) : ~Living(m)

GeneratorExits(g) == /\ at[g] = "wait" /\ ChildrenOver(g)
                     /\ Goes(g, "exited")
                     /\ UNCHANGED <<vars, handler, Rest>>

\* cleanup() removes the semaphores and the memory; a mutant forgets to.
NoCleanup == cleanups' = cleanups
Cleanup   == cleanups' = cleanups + 1

\* After its two waits main closes the output, cleans up and exits; a signal may still
\* come in between.
MainCloses == /\ at["main"] = "wait" /\ ChildrenOver("main")
              /\ Goes("main", "closed")
              /\ closed' = [closed EXCEPT !["main"] = TRUE]
              /\ UNCHANGED <<vars, handler, mask, dead, pending, cleanups, failures,
                             interrupts>>

MainCleans == /\ at["main"] = "closed"
              /\ Goes("main", "leave")
              /\ Cleanup
              /\ UNCHANGED <<vars, handler, mask, closed, dead, pending, failures,
                             interrupts>>

MainExits == /\ at["main"] = "leave"
             /\ Goes("main", "exited")
             /\ UNCHANGED <<vars, handler, Rest>>

-----------------------------------------------------------------------------
(* Failures, interrupts and the way out: cleanAndExit and childExit.       *)

\* init fails, a generator cannot be forked, or a person cannot be forked.
Fails(p) ==
  /\ failures < MaxFailures
  /\ failures' = failures + 1
  /\ \/ /\ at[p] \in {"init", "fork1", "fork2"}
        /\ Goes(p, "clean")
     \/ /\ at[p] = "fork" /\ \E m \in Kind(p) : pc[m] = "unborn"
        /\ Goes(p, "kill")
  /\ UNCHANGED <<vars, handler, mask, closed, dead, pending, cleanups, interrupts>>

\* A person has one handler for both signals: the first that comes will do.
Send(sig) ==
  pending' = [p \in Members \cup Leaders |->
                IF p \in Leaders /\ p \in Alive THEN pending[p] \cup {sig}
                ELSE IF p \in Alive /\ pending[p] = {} THEN {"TERM"}
                ELSE pending[p]]

Interrupt == /\ interrupts < MaxInterrupts
             /\ at["main"] \notin Over
             /\ interrupts' = interrupts + 1
             /\ Send("INT")
             /\ UNCHANGED <<vars, at, handler, mask, closed, dead, cleanups,
                            failures>>

\* A person's childExit signals the group and exits: it has no children.
PersonHandles(m) == /\ Living(m) /\ ~Quiet(m)
                    /\ dead' = dead \cup {m}
                    /\ Send("TERM")
                    /\ UNCHANGED <<vars, at, handler, mask, closed, cleanups,
                                   failures, interrupts>>

Handles(p, sig) ==
  /\ at[p] \notin Over
  /\ sig \in pending[p] \ mask[p]
  /\ Goes(p, CASE handler[p] = "default"      -> "killed"
               [] handler[p] = "cleanAndExit" -> "clean"
               [] handler[p] = "childExit"    -> "kill")
  /\ mask' = [mask EXCEPT ![p] = @ \cup {sig}]
  /\ pending' = [pending EXCEPT ![p] = @ \ {sig}]
  /\ UNCHANGED <<vars, handler, closed, dead, cleanups, failures, interrupts>>

\* cleanup() and fclose(output).  The pointer stays set, and to close a file
\* twice is undefined: the process goes on, or is aborted.
Cleans(p) == /\ at[p] = "clean"
             /\ Cleanup
             /\ closed' = [closed EXCEPT ![p] = TRUE]
             /\ \/ Goes(p, "kill")
                \/ closed[p] /\ Goes(p, "crashed")
             /\ UNCHANGED <<vars, handler, mask, dead, pending, failures,
                            interrupts>>

\* killpg(0, SIGTERM) reaches the caller, too.
Kills(p) == /\ at[p] = "kill"
            /\ Send("TERM")
            /\ Goes(p, "reap")
            /\ UNCHANGED <<vars, handler, mask, closed, dead, cleanups, failures,
                           interrupts>>

Reaps(p) == /\ at[p] = "reap" /\ ChildrenOver(p)
            /\ Goes(p, "exited")
            /\ UNCHANGED <<vars, handler, Rest>>

Leader(p) == \/ \E sig \in Signals : Handles(p, sig)
             \/ Cleans(p) \/ Kills(p) \/ Reaps(p)

Regular == \/ \E m \in Members : Live(m)
           \/ InitSucceeds
           \/ MainForks("fork1", "hackers", "fork2")
           \/ MainForks("fork2", "serfs", "wait")
           \/ \E g \in Generators : \/ InstallChildExit(g) \/ GeneratorForks(g)
                                    \/ GeneratorWaits(g) \/ GeneratorExits(g)
           \/ MainCloses \/ MainCleans \/ MainExits

WayOut == \/ \E m \in Members : PersonHandles(m)
          \/ \E p \in Leaders : Leader(p)

PNext == \/ Regular \/ WayOut
         \/ Interrupt \/ \E p \in Leaders : Fails(p)
         \/ Alive = {} /\ UNCHANGED allVars

\* Nothing but the end of everybody is a final state: with a graph free of
\* cycles, which this one is, absence of deadlock means that all processes end.
PSpec == PInit /\ [][PNext]_allVars

-----------------------------------------------------------------------------
(* Bounds of the model checker.                                            *)

\* Persons of a kind are interchangeable.
Symmetry == Permutations(Hackers) \cup Permutations(Serfs)

\* Interrupts are explored where everybody has landed and nothing has failed, and
\* all but one person have ended: they race the regular ends.
LateInterrupt ==
  interrupts > 0 => /\ failures = 0
                    /\ waitingToFinish = MaxMembers
                    /\ Cardinality({m \in Members : pc[m] = "done"}) >= 3

-----------------------------------------------------------------------------
(* Properties.                                                             *)

\* When main exits, no generator and no person is left behind, on the regular
\* course as well as after a failure or an interrupt.
NobodyIsOrphaned == at["main"] = "exited" => Alive = {}

\* The shared memory is removed only when nobody but main is left, unless something has
\* failed.
MemoryOutlivesUsers ==
  cleanups > 0 /\ failures + interrupts = 0 => Alive \subseteq {"main"}

\* Once its handlers are installed main does not end without removing the shared
\* memory.  (An interrupt that comes earlier kills it, and the memory stays.)
MemoryIsRemoved == at["main"] \in {"exited", "crashed"} => cleanups > 0

\* rivercrossing.c, cleanup: the shared memory lives as long as its users, no shorter
\* and no longer.
MemoryIsManaged == MemoryOutlivesUsers /\ MemoryIsRemoved
=============================================================================
