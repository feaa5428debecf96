----------------------------- MODULE TicketLock -----------------------------
(***************************************************************************)
(* POS/proj1/main.c: threads that draw tickets and pass a critical section *)
(* in the order of the tickets, with one mutex and one condition variable. *)
(*                                                                         *)
(* await() returns with the mutex held; advance() gives it back first and  *)
(* increments actualTicket without it.  ++ on the volatile variable is a   *)
(* load and a store.                                                       *)
(***************************************************************************)
EXTENDS Integers, Sequences

CONSTANTS
  Threads,       \* the worker threads
  NoThread,      \* the owner of a free mutex
  PassThroughs   \* how many tickets are served

ASSUME TicketAssumption == NoThread \notin Threads /\ PassThroughs \in Nat

VARIABLES
  pc,            \* where each thread is in worker()
  ticket,        \* thread->ticket
  loaded,        \* what ++actualTicket has loaded
  nextTicket, actualTicket,
  owner,         \* the owner of mutexTicket
  printed,       \* the tickets printed so far
  main           \* the main thread: joins the workers and frees their data

vars == <<pc, ticket, loaded, nextTicket, actualTicket, owner, printed, main>>

Places == {"unborn", "get", "await", "check", "block", "asleep", "woken",
           "print", "unlock", "load", "store", "broadcast", "exit"}

TypeOK == /\ pc \in [Threads -> Places]
          /\ ticket \in [Threads -> Nat \cup {-1}]
          /\ loaded \in [Threads -> Nat]
          /\ nextTicket \in Nat \cup {-1}
          /\ actualTicket \in Nat
          /\ owner \in Threads \cup {NoThread}
          /\ printed \in Seq(Nat)
          /\ main \in {"create", "join", "exit"}

Init == /\ pc = [t \in Threads |-> "unborn"]
        /\ ticket = [t \in Threads |-> -1]
        /\ loaded = [t \in Threads |-> 0]
        /\ nextTicket = -1 /\ actualTicket = 0
        /\ owner = NoThread
        /\ printed = <<>>
        /\ main = "create"

Goto(t, from, to) == /\ pc[t] = from
                     /\ pc' = [pc EXCEPT ![t] = to]
Lock(t)   == owner = NoThread /\ owner' = t
Unlock(t) == owner = t /\ owner' = NoThread

-----------------------------------------------------------------------------
(* main                                                                    *)

Create(t) == /\ main = "create"
             /\ Goto(t, "unborn", "get")
             /\ UNCHANGED <<ticket, loaded, nextTicket, actualTicket, owner,
                            printed, main>>

Joining == /\ main = "create" /\ \A t \in Threads : pc[t] # "unborn"
           /\ main' = "join"
           /\ UNCHANGED <<pc, ticket, loaded, nextTicket, actualTicket, owner,
                          printed>>

Exit == /\ main = "join" /\ \A t \in Threads : pc[t] = "exit"
        /\ main' = "exit"
        /\ UNCHANGED <<pc, ticket, loaded, nextTicket, actualTicket, owner,
                       printed>>

-----------------------------------------------------------------------------
(* worker                                                                  *)

\* The test of the loop; a mutant serves one ticket too many.
UpToLimit(k)  == k <= PassThroughs
BelowLimit(k) == k < PassThroughs

\* getticket, and the test of the loop.
GetTicket(t) ==
  /\ owner = NoThread
  /\ nextTicket' = nextTicket + 1
  /\ ticket' = [ticket EXCEPT ![t] = nextTicket + 1]
  /\ Goto(t, "get", IF BelowLimit(nextTicket + 1) THEN "await" ELSE "exit")
  /\ UNCHANGED <<loaded, actualTicket, owner, printed, main>>

\* await: lock, and wait on the condition while it is another ticket's turn.
Await(t) == /\ Goto(t, "await", "check") /\ Lock(t)
            /\ UNCHANGED <<ticket, loaded, nextTicket, actualTicket, printed, main>>

\* The test of the loop in await; a mutant lets later tickets pass.
NotYetPassed(t) == ticket[t] >= actualTicket
MyTurn(t)       == ticket[t] = actualTicket

Check(t) ==
  /\ Goto(t, "check", IF MyTurn(t) THEN "print" ELSE "block")
  /\ UNCHANGED <<ticket, loaded, nextTicket, actualTicket, owner, printed, main>>

Block(t) == /\ Goto(t, "block", "asleep") /\ Unlock(t)
            /\ UNCHANGED <<ticket, loaded, nextTicket, actualTicket, printed, main>>

\* A condition variable may wake a thread without cause.
WakeUp(t) == /\ Goto(t, "asleep", "woken")
             /\ UNCHANGED <<ticket, loaded, nextTicket, actualTicket, owner,
                            printed, main>>

Resume(t) == /\ Goto(t, "woken", "check") /\ Lock(t)
             /\ UNCHANGED <<ticket, loaded, nextTicket, actualTicket, printed, main>>

\* The critical section.
PrintTicket(t) == /\ Goto(t, "print", "unlock")
                  /\ printed' = Append(printed, ticket[t])
                  /\ UNCHANGED <<ticket, loaded, nextTicket, actualTicket, owner,
                                 main>>

\* advance: unlock, increment, broadcast.
Release(t) == /\ Goto(t, "unlock", "load") /\ Unlock(t)
              /\ UNCHANGED <<ticket, loaded, nextTicket, actualTicket, printed,
                             main>>

Load(t) == /\ Goto(t, "load", "store")
           /\ loaded' = [loaded EXCEPT ![t] = actualTicket]
           /\ UNCHANGED <<ticket, nextTicket, actualTicket, owner, printed, main>>

\* What is stored; a mutant counts down.
OneLess(k)   == k - 1
Increment(k) == k + 1

Store(t) == /\ Goto(t, "store", "broadcast")
            /\ actualTicket' = Increment(loaded[t])
            /\ UNCHANGED <<ticket, loaded, nextTicket, owner, printed, main>>

Broadcast(t) ==
  /\ pc[t] = "broadcast"
  /\ pc' = [u \in Threads |-> IF u = t THEN "get"
                              ELSE IF pc[u] = "asleep" THEN "woken" ELSE pc[u]]
  /\ UNCHANGED <<ticket, loaded, nextTicket, actualTicket, owner, printed, main>>

Worker(t) == \/ GetTicket(t) \/ Await(t) \/ Check(t) \/ Block(t) \/ Resume(t)
             \/ PrintTicket(t) \/ Release(t) \/ Load(t) \/ Store(t)
             \/ Broadcast(t)

Next == \/ \E t \in Threads : Create(t) \/ Worker(t) \/ WakeUp(t)
        \/ Joining \/ Exit
        \/ main = "exit" /\ UNCHANGED vars

\* Every thread runs; nothing promises a wakeup without cause.
Fairness == /\ \A t \in Threads : WF_vars(Create(t)) /\ SF_vars(Worker(t))
            /\ WF_vars(Joining) /\ WF_vars(Exit)

Spec     == Init /\ [][Next]_vars
FairSpec == Spec /\ Fairness

-----------------------------------------------------------------------------
(* Properties.                                                             *)

\* test.sh: the tickets are printed in their order, none twice and none left
\* out, although the turn passes on outside the mutex.
InOrder == \A k \in 1..Len(printed) : printed[k] = k - 1

\* At most one thread is between the end of await and the store of advance, so
\* that no increment of actualTicket is lost.
Serving == {t \in Threads : pc[t] \in {"print", "unlock", "load", "store"}}
OneServed == \A t, u \in Serving : t = u

\* When the workers have been joined, every ticket below the limit was served.
AllServed == main = "exit" => Len(printed) = PassThroughs

\* test.sh reads the output to its end: the program comes to one.
Terminates == <>(main = "exit")
=============================================================================
