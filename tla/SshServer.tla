------------------------------ MODULE SshServer -----------------------------
(***************************************************************************)
(* ISA/sshserver.cpp and argparser.cpp: a server that takes passwords      *)
(* through libssh, logs every one and refuses them all.  The main thread   *)
(* accepts and counts, a thread for each connection exchanges messages.    *)
(***************************************************************************)
EXTENDS Integers, Sequences, FiniteSets, SequencesExt

CONSTANTS Guests,       \* each connects at most once
          Nobody,
          Messages,     \* what each guest sends: sequences of [type, user, password]
          CommandLines, \* sequences of [opt, value], as getopt gives them
          UInt,         \* how many values an unsigned int has
          DefaultClients, DefaultAttempts

VARIABLES
  options,                      \* what ArgParser has found
  main, guest, backlog,         \* run
  stopFlag, _connections,
  at, sent, taken,              \* the threads; the messages sent and got
  data, attempts,               \* of auth
  sessions, logFile             \* the sessions that are not free; the lines

vars == <<options, main, guest, backlog, stopFlag, _connections, at, sent, taken, data,
          attempts, sessions, logFile>>
mainVars   == <<options, main, guest, backlog>>
threadVars == <<at, sent, taken, data, attempts>>

NoText == ""
NoData == [login |-> NoText, password |-> NoText, logged |-> FALSE]

SshInit == /\ options = <<>> /\ main = "start" /\ guest = Nobody /\ backlog = <<>>
           /\ stopFlag = FALSE /\ _connections = 0
           /\ at = [g \in Guests |-> "none"] /\ sent = [g \in Guests |-> 0]
           /\ taken = [g \in Guests |-> 0] /\ data = [g \in Guests |-> NoData]
           /\ attempts = [g \in Guests |-> 0] /\ sessions = {} /\ logFile = <<>>

-----------------------------------------------------------------------------
(* ArgParser::parse. *)

\* No constructor sets _mode: it may also hold none of the values of its type.
Undefined == {"ftp", "ssh", "none", "garbage"}

\* A number is stored in an unsigned int, and then compared.  An option that getopt does
\* not know, or with other text behind its number, is "?".
ParseOption(s, o) ==
  CASE o.opt = "m" -> [s EXCEPT !.mode = o.value, !.bad = @ \/ o.value \notin {"ftp", "ssh"}]
    [] o.opt \in {"c", "t"} -> [s EXCEPT ![o.opt] = o.value % UInt,
                                        !.bad = @ \/ o.value % UInt < 1]
    [] o.opt = "p" -> [s EXCEPT !.set = @ \cup {"p"},
                                !.bad = @ \/ o.value % UInt \notin 1..65535]
    [] o.opt \in {"a", "l", "r"} -> [s EXCEPT !.set = IF o.value = "" THEN @ \ {o.opt}
                                                     ELSE @ \cup {o.opt}]
    [] OTHER -> [s EXCEPT !.bad = TRUE]

\* The members start with what the memory holds or with their defaults.
Parse(line, mode) ==
  FoldLeft(ParseOption, [mode |-> mode, c |-> DefaultClients, t |-> DefaultAttempts,
                         set |-> {}, bad |-> FALSE], line)

Accepted(s) == /\ ~s.bad /\ s.mode # "none" /\ {"a", "p", "l"} \subseteq s.set
               /\ s.mode = "ssh" => "r" \in s.set

\* main of the program: the SSH server runs unless the mode is FTP, even without a key
\* when the mode is garbage; it may fail to listen.
Main == /\ main = "start"
        /\ \E line \in CommandLines, mode \in Undefined :
             LET s == Parse(line, mode)
             IN /\ options' = s
                /\ \/ main' = "over"
                   \/ Accepted(s) /\ s.mode # "ftp" /\ main' = "loop"
        /\ UNCHANGED <<guest, backlog, stopFlag, _connections, threadVars, sessions, logFile>>

-----------------------------------------------------------------------------
(* The guests, and the signal. *)

Connect(g) == /\ main \notin {"start", "over"} /\ at[g] = "none" /\ g # guest
              /\ ~Contains(backlog, g) /\ g \notin sessions
              /\ backlog' = Append(backlog, g)
              /\ UNCHANGED <<options, main, guest, stopFlag, _connections, threadVars,
                             sessions, logFile>>

Send(g) == /\ at[g] \in {"auth", "get"} /\ sent[g] < Len(Messages[g])
           /\ sent' = [sent EXCEPT ![g] = @ + 1]
           /\ UNCHANGED <<mainVars, stopFlag, _connections, at, taken, data, attempts,
                          sessions, logFile>>

SignalHandler == /\ ~stopFlag /\ main \notin {"start", "over"} /\ stopFlag' = TRUE
                 /\ UNCHANGED <<mainVars, _connections, threadVars, sessions, logFile>>

-----------------------------------------------------------------------------
(* run. *)

\* The test of the loop, select interrupted, and select or its timeout.
Loop == /\ main = "loop" /\ stopFlag /\ main' = "join"
        /\ UNCHANGED <<options, guest, backlog, stopFlag, _connections, threadVars,
                       sessions, logFile>>

\* A session whose accept fails is freed at once.
Accept == /\ main = "loop" /\ backlog # <<>>
          /\ backlog' = Tail(backlog)
          /\ \/ /\ guest' = Head(backlog) /\ sessions' = sessions \cup {Head(backlog)}
                /\ main' = "count" /\ UNCHANGED at
             \/ /\ at' = [at EXCEPT ![Head(backlog)] = "done"]
                /\ UNCHANGED <<guest, sessions, main>>
          /\ UNCHANGED <<options, stopFlag, _connections, sent, taken, data, attempts, logFile>>

\* incConnections.
TooMany(n) == n + 1 > options.c

IncConnections ==
  /\ main = "count" /\ _connections' = _connections + 1
  /\ IF TooMany(_connections)
     THEN main' = "refuse" /\ UNCHANGED <<guest, at>>
     ELSE main' = "loop" /\ at' = [at EXCEPT ![guest] = "exchange"] /\ guest' = Nobody
  /\ UNCHANGED <<options, backlog, stopFlag, sent, taken, data, attempts, sessions, logFile>>

\* ssh_disconnect, ssh_free, decConnections.
Refuse == /\ main = "refuse" /\ _connections' = _connections - 1
          /\ sessions' = sessions \ {guest} /\ at' = [at EXCEPT ![guest] = "done"]
          /\ main' = "loop" /\ guest' = Nobody
          /\ UNCHANGED <<options, backlog, stopFlag, sent, taken, data, attempts, logFile>>

Join == /\ main = "join" /\ \A g \in Guests : at[g] \in {"none", "done"}
        /\ main' = "over"
        /\ UNCHANGED <<options, guest, backlog, stopFlag, _connections, threadVars, sessions,
                       logFile>>

-----------------------------------------------------------------------------
(* The thread of a connection. *)

Exchange(g) == /\ at[g] = "exchange"
               /\ \E next \in {"auth", "dec"} : at' = [at EXCEPT ![g] = next]
               /\ UNCHANGED <<mainVars, stopFlag, _connections, sent, taken, data, attempts,
                              sessions, logFile>>

\* The test of the loop of auth, then a wait for a message.
Test(g) == /\ at[g] = "auth"
           /\ at' = [at EXCEPT ![g] = IF stopFlag \/ attempts[g] = options.t
                                      THEN "last" ELSE "get"]
           /\ UNCHANGED <<mainVars, stopFlag, _connections, sent, taken, data, attempts,
                          sessions, logFile>>

Entry(g, d) == [guest |-> g, login |-> d.login, password |-> d.password]

\* What the log line of an attempt is made of: a mutant forgets the password first.
Forgets(d, m) == [d EXCEPT !.login = m.user, !.password = NoText, !.logged = TRUE]
Takes(d, m)   == [d EXCEPT !.login = m.user, !.password = m.password, !.logged = TRUE]

\* A message of auth; the case of a password falls through to that of any other method,
\* which forgets it.  Without a message the guest has disconnected.
Get(g) ==
  /\ at[g] = "get"
  /\ \/ /\ at' = [at EXCEPT ![g] = "last"] /\ UNCHANGED <<taken, data, attempts, logFile>>
     \/ /\ taken[g] < sent[g] /\ taken' = [taken EXCEPT ![g] = @ + 1]
        /\ at' = [at EXCEPT ![g] = "auth"]
        /\ LET m == Messages[g][taken[g] + 1]
           IN CASE m.type = "service" -> UNCHANGED <<data, attempts, logFile>>
                [] m.type = "password" ->
                     /\ logFile' = Append(logFile, Entry(g, Takes(data[g], m)))
                     /\ attempts' = [attempts EXCEPT ![g] = @ + 1]
                     /\ data' = [data EXCEPT ![g] = [Takes(@, m) EXCEPT !.password = NoText]]
                [] m.type = "none" ->
                     /\ data' = [data EXCEPT ![g] = [@ EXCEPT !.login = m.user,
                                                             !.password = NoText]]
                     /\ UNCHANGED <<attempts, logFile>>
  /\ UNCHANGED <<mainVars, stopFlag, _connections, sent, sessions>>

\* A connection without an attempt is logged when it ends.
LogOnce(g) == /\ at[g] = "last" /\ at' = [at EXCEPT ![g] = "dec"]
              /\ logFile' = IF data[g].logged THEN logFile
                            ELSE Append(logFile, Entry(g, data[g]))
              /\ UNCHANGED <<mainVars, stopFlag, _connections, sent, taken, data, attempts,
                             sessions>>

\* decConnections, then ssh_free.
DecConnections(g) == /\ at[g] = "dec" /\ at' = [at EXCEPT ![g] = "free"]
                     /\ _connections' = _connections - 1
                     /\ UNCHANGED <<mainVars, stopFlag, sent, taken, data, attempts,
                                    sessions, logFile>>

Free(g) == /\ at[g] = "free" /\ at' = [at EXCEPT ![g] = "done"]
           /\ sessions' = sessions \ {g}
           /\ UNCHANGED <<mainVars, stopFlag, _connections, sent, taken, data, attempts,
                          logFile>>

SshNext == \/ Main \/ SignalHandler \/ Loop \/ Accept \/ IncConnections \/ Refuse \/ Join
           \/ \E g \in Guests : \/ Connect(g) \/ Send(g) \/ Exchange(g) \/ Test(g) \/ Get(g)
                                \/ LogOnce(g) \/ DecConnections(g) \/ Free(g)
           \/ main = "over" /\ UNCHANGED vars
-----------------------------------------------------------------------------
InAuth == {g \in Guests : at[g] \in {"exchange", "auth", "get", "last", "dec"}}

\* run: the counter is that of the connections with a thread, and they are never more
\* than allowed.
CountsItsGuests ==
  main # "start" => /\ Cardinality(InAuth) <= options.c
                    /\ _connections = Cardinality(InAuth) + IF main = "refuse" THEN 1 ELSE 0

\* The passwords that were got from a guest and its lines in the log, by their positions,
\* and the place of a position among others.
Passwords(g) == {k \in 1..taken[g] : Messages[g][k].type = "password"}
Lines(g)     == {k \in 1..Len(logFile) : logFile[k].guest = g}
Rank(S, k)   == Cardinality({j \in S : j <= k})

\* auth: a guest is logged once for each password, in their order, with the password and
\* its own name, at most as often as attempts are allowed, or once without a password.
LogsEachAttempt ==
  \A g \in Guests :
    /\ Passwords(g) # {} =>
         /\ Cardinality(Lines(g)) = Cardinality(Passwords(g))
         /\ \A k \in Passwords(g), l \in Lines(g) :
              Rank(Passwords(g), k) = Rank(Lines(g), l) =>
                logFile[l] = [guest |-> g, login |-> Messages[g][k].user,
                              password |-> Messages[g][k].password]
    /\ Passwords(g) = {} =>
         /\ Cardinality(Lines(g)) <= 1 /\ \A l \in Lines(g) : logFile[l].password = NoText
         /\ at[g] \in {"auth", "get", "last"} => Lines(g) = {}
    /\ main # "start" => Cardinality(Passwords(g)) <= options.t

\* run: when it returns every session is free and nobody is counted.
FreesItsGuests == main = "over" => sessions = {} /\ _connections = 0
=============================================================================
