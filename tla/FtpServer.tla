----------------------------- MODULE FtpServer ------------------------------
(***************************************************************************)
(* ISA/ftpserver.cpp: a server that asks its clients for a name and a      *)
(* password, logs them and always answers that the login is invalid.  The  *)
(* main thread accepts and counts the connections; each connection has a   *)
(* thread, with the connection's buffer and its place in the dialogue.     *)
(*                                                                         *)
(* A line is a sequence of units: a verb of five characters, the letters   *)
(* of its argument, CR and LF.  Segments of TCP end anywhere between two   *)
(* units.                                                                  *)
(***************************************************************************)
EXTENDS Integers, Sequences, FiniteSets

CONSTANTS
  Clients,      \* each connects at most once, from an address of its own
  Nobody,
  Scripts,      \* what the clients may send: functions from Clients to sequences of
                \* units, in whole lines
  MaxClients,   \* _maxClients
  DefaultSize   \* defaultSize, in units

Units == UNION {UNION {{s[c][k] : k \in DOMAIN s[c]} : c \in Clients} : s \in Scripts}

ASSUME ServerAssumption == /\ MaxClients \in Nat /\ DefaultSize \in Nat \ {0}
                           /\ IsFiniteSet(Clients) /\ Nobody \notin Clients
                           /\ Scripts \subseteq [Clients -> Seq(Units)]

\* A line ends in CR LF, and neither comes alone.
ASSUME LinesAssumption ==
  \A s \in Scripts : \A c \in Clients : \A k \in 1..Len(s[c]) :
    /\ s[c][k] = "CR" => k < Len(s[c]) /\ s[c][k + 1] = "LF"
    /\ s[c][k] = "LF" => k > 1 /\ s[c][k - 1] = "CR"

VARIABLES
  stopFlag, connections, sin,   \* shared: stopFlag, _connections, _sin
  main, guest,                  \* where run is, and the socket it has accepted
  backlog,                      \* who waits to be accepted
  script, sent, hungUp,         \* the clients: what they send, how far they are
  open,                         \* whose sockets the server has open
  pc,                           \* where the threads are
  taken,                        \* how much of the script recv has returned
  state, buffer, bufferSize, capacity, address, login, password,   \* Data
  replies, logged               \* what was sent to a client, its line in the log

mainVars   == <<sin, main, guest, backlog>>
clientVars == <<script, sent, hungUp>>
dataVars   == <<taken, state, buffer, bufferSize, capacity, address, login, password>>
vars == <<stopFlag, connections, mainVars, clientVars, open, pc, dataVars, replies, logged>>

NoLine == [address |-> Nobody, login |-> <<>>, password |-> <<>>]
Code   == [READY_NEW_USER |-> 220, CHALLENGE_PASSWORD |-> 331, INVALID_LOGIN |-> 530]
States == DOMAIN Code \cup {"UNKNOWN"}
Total(c) == Len(script[c])

TypeOK ==
  /\ stopFlag \in BOOLEAN /\ script \in Scripts /\ connections \in 0..Cardinality(Clients)
  /\ {sin, guest} \subseteq Clients \cup {Nobody}
  /\ main \in {"loop", "select", "count", "refuse", "uncount", "join", "over"}
  /\ backlog \in Seq(Clients) /\ open \subseteq Clients /\ hungUp \subseteq Clients
  /\ pc \in [Clients -> {"none", "start", "loop", "receive", "test", "recv", "log",
                         "close", "uncount", "done"}]
  /\ state \in [Clients -> States]
  /\ \A c \in Clients :
       /\ sent[c] \in 0..Total(c) /\ taken[c] \in 0..sent[c]
       /\ bufferSize[c] \in 0..Len(buffer[c])
       /\ address[c] \in Clients \cup {Nobody}
       /\ login[c] \in Seq(Units) /\ password[c] \in Seq(Units)
       /\ replies[c] \in Seq({220, 331, 530})

Init ==
  /\ stopFlag = FALSE /\ connections = 0 /\ sin = Nobody
  /\ main = "loop" /\ guest = Nobody /\ backlog = <<>>
  /\ script \in Scripts /\ sent = [c \in Clients |-> 0] /\ hungUp = {}
  /\ open = {} /\ pc = [c \in Clients |-> "none"]
  /\ taken = [c \in Clients |-> 0]
  /\ state = [c \in Clients |-> "READY_NEW_USER"]
  /\ buffer = [c \in Clients |-> <<>>] /\ bufferSize = [c \in Clients |-> 0]
  /\ capacity = [c \in Clients |-> DefaultSize]
  /\ address = [c \in Clients |-> Nobody]
  /\ login = [c \in Clients |-> <<>>] /\ password = [c \in Clients |-> <<>>]
  /\ replies = [c \in Clients |-> <<>>] /\ logged = [c \in Clients |-> NoLine]

-----------------------------------------------------------------------------
(* The clients, and SIGINT or SIGQUIT. *)

Connected(c) == c \in open \/ c \in {backlog[k] : k \in DOMAIN backlog}

Connect(c) == /\ pc[c] = "none" /\ ~Connected(c) /\ c # guest /\ c \notin hungUp
              /\ backlog' = Append(backlog, c)
              /\ UNCHANGED <<stopFlag, connections, sin, main, guest, clientVars, open,
                             pc, dataVars, replies, logged>>

Send(c) == /\ Connected(c) /\ c \notin hungUp
           /\ \E n \in sent[c] + 1..Total(c) : sent' = [sent EXCEPT ![c] = n]
           /\ UNCHANGED <<stopFlag, connections, mainVars, script, hungUp, open, pc,
                          dataVars, replies, logged>>

HangUp(c) == /\ Connected(c) /\ c \notin hungUp
             /\ hungUp' = hungUp \cup {c}
             /\ UNCHANGED <<stopFlag, connections, mainVars, script, sent, open, pc,
                            dataVars, replies, logged>>

SignalHandler == /\ ~stopFlag /\ stopFlag' = TRUE
                 /\ UNCHANGED <<connections, mainVars, clientVars, open, pc, dataVars,
                                replies, logged>>

-----------------------------------------------------------------------------
(* The main thread: run. *)

\* The loop is left at the test of stopFlag, when the signal interrupts select, or when
\* accept fails.
Loop == /\ main \in {"loop", "select"}
        /\ \/ main = "loop" /\ ~stopFlag /\ main' = "select"
           \/ stopFlag /\ main' = "join"
           \/ main = "select" /\ backlog # <<>> /\ main' = "join"
        /\ UNCHANGED <<stopFlag, connections, sin, guest, backlog, clientVars, open, pc,
                       dataVars, replies, logged>>

\* select and accept, which writes the address of the peer to _sin.  A signal that
\* another thread has taken does not keep the main thread from it.
Accept == /\ main = "select" /\ backlog # <<>>
          /\ guest' = Head(backlog) /\ sin' = Head(backlog)
          /\ backlog' = Tail(backlog)
          /\ open' = open \cup {Head(backlog)}
          /\ main' = "count"
          /\ UNCHANGED <<stopFlag, connections, clientVars, pc, dataVars, replies, logged>>

\* Whether incConnections finds the server full; mutants compare before adding,
\* and refuse the last client there is room for.
OneTooMany(n)  == n > MaxClients
OneTooFew(n)   == n + 1 >= MaxClients
Full(n)        == n + 1 > MaxClients

\* A mutant does not count the client that it turns away.
CountIfServed(n) == IF Full(n) THEN n ELSE n + 1
Counted(n)       == n + 1

IncConnections ==
  /\ main = "count"
  /\ connections' = Counted(connections)
  /\ IF Full(connections)
     THEN main' = "refuse" /\ UNCHANGED <<guest, pc>>
     ELSE main' = "loop" /\ pc' = [pc EXCEPT ![guest] = "start"] /\ guest' = Nobody
  /\ UNCHANGED <<stopFlag, sin, backlog, clientVars, open, dataVars, replies, logged>>

\* closeConnection of a refused client: close, then the counter.
Refuse == /\ main = "refuse"
          /\ open' = open \ {guest}
          /\ pc' = [pc EXCEPT ![guest] = "done"]
          /\ main' = "uncount"
          /\ UNCHANGED <<stopFlag, connections, sin, guest, backlog, clientVars, dataVars,
                         replies, logged>>

\* A mutant leaves the refused client in the counter.
KeepCount(n) == n
Uncounted(n) == n - 1

Uncount == /\ main = "uncount"
           /\ connections' = Uncounted(connections)
           /\ main' = "loop" /\ guest' = Nobody
           /\ UNCHANGED <<stopFlag, sin, backlog, clientVars, open, pc, dataVars, replies,
                          logged>>

Join == /\ main = "join" /\ \A c \in Clients : pc[c] \in {"none", "done"}
        /\ main' = "over"
        /\ UNCHANGED <<stopFlag, connections, sin, guest, backlog, clientVars, open, pc,
                       dataVars, replies, logged>>

-----------------------------------------------------------------------------
(* The thread of a connection. *)

Goto(c, label) == pc' = [pc EXCEPT ![c] = label]
Shared         == <<stopFlag, mainVars, clientVars>>

\* The thread reads _sin when it gets there, not when it was created.
Start(c) == /\ pc[c] = "start"
            /\ address' = [address EXCEPT ![c] = sin]
            /\ Goto(c, "loop")
            /\ UNCHANGED <<Shared, connections, open, taken, state, buffer, bufferSize,
                           capacity, login, password, replies, logged>>

\* The head of the loop of startCommunication, and sendResponse.
Respond(c) ==
  /\ pc[c] = "loop"
  /\ \/ /\ stopFlag \/ state[c] = "UNKNOWN"
        /\ Goto(c, "log") /\ UNCHANGED replies
     \/ /\ ~stopFlag /\ state[c] # "UNKNOWN"
        /\ replies' = [replies EXCEPT ![c] = Append(@, Code[state[c]])]
        /\ Goto(c, IF state[c] = "INVALID_LOGIN" THEN "log" ELSE "receive")
  /\ UNCHANGED <<Shared, connections, open, dataVars, logged>>

\* receive until something has arrived: without it the call returns 1 and is
\* repeated, after a hang-up as after a timeout.
Receive(c) ==
  /\ pc[c] = "receive"
  /\ \/ stopFlag /\ Goto(c, "log") /\ UNCHANGED bufferSize
     \/ /\ ~stopFlag /\ taken[c] < sent[c]
        /\ bufferSize' = [bufferSize EXCEPT ![c] = 0]
        /\ Goto(c, "test")
  /\ UNCHANGED <<Shared, connections, open, taken, state, buffer, capacity, address,
                 login, password, replies, logged>>

\* parseCommand on the characters up to the first CR LF in the buffer, wherever
\* they come from.
LineEnds(b) == {k \in DOMAIN b : k < Len(b) /\ b[k] = "CR" /\ b[k + 1] = "LF"}

\* The name or password that is kept: a mutant adds to the one before.
Longer(before, s) == before \o s
Kept(before, s)   == s

ParseCommand(c, b) ==
  IF LineEnds(b) = {} THEN UNCHANGED <<state, login, password>>
  ELSE LET end == CHOOSE k \in LineEnds(b) : \A j \in LineEnds(b) : k <= j
           argument == SubSeq(b, 2, end - 1)
       IN CASE b[1] = "USER" -> /\ state' = [state EXCEPT ![c] = "CHALLENGE_PASSWORD"]
                                /\ login' = [login EXCEPT ![c] = Kept(@, argument)]
                                /\ UNCHANGED password
            [] b[1] = "PASS" -> /\ state' = [state EXCEPT ![c] = "INVALID_LOGIN"]
                                /\ password' = [password EXCEPT ![c] = Kept(@, argument)]
                                /\ UNCHANGED login
            [] OTHER -> /\ state' = [state EXCEPT ![c] = "UNKNOWN"]
                        /\ UNCHANGED <<login, password>>

\* isReadyToParse: the line is complete when its last two characters are CR LF; a
\* mutant looks for them anywhere in the buffer.  With one character the code looks at
\* buffer[-1]: that is the highest byte of the size of the heap block, which is no CR.
FindsAnEnd(b, size)     == LineEnds(b) # {}
IsReadyToParse(b, size) == size >= 2 /\ b[size - 1] = "CR" /\ b[size] = "LF"

\* Whether the buffer must grow; a mutant lets it be filled to the last place.
Overfull(size, cap) == size > cap
MustGrow(size, cap) == size >= cap

\* What one recv stores over the old contents of the buffer.
Over(b, size, new) ==
  [k \in 1..(IF Len(b) > size + Len(new) THEN Len(b) ELSE size + Len(new)) |->
     IF k \in size + 1..size + Len(new) THEN new[k - size] ELSE b[k]]

\* Before every recv; then the thread sleeps in it until something comes.
Test(c) == /\ pc[c] = "test" /\ Goto(c, IF stopFlag THEN "log" ELSE "recv")
           /\ UNCHANGED <<Shared, connections, open, dataVars, replies, logged>>

\* From the return of receive to the next turn of startCommunication.
Received(c, b) ==
  \/ stopFlag /\ Goto(c, "log") /\ UNCHANGED <<state, login, password>>
  \/ ~stopFlag /\ Goto(c, "loop") /\ ParseCommand(c, b)

\* recv returns all that has come, as far as there is room.
Least(m, n) == IF m < n THEN m ELSE n

Recv(c) ==
  /\ pc[c] = "recv"
  /\ \/ LET n    == Least(sent[c] - taken[c], capacity[c] - bufferSize[c])
              size == bufferSize[c] + n
              b    == Over(buffer[c], bufferSize[c],
                           SubSeq(script[c], taken[c] + 1, taken[c] + n))
          IN /\ n > 0
             /\ taken' = [taken EXCEPT ![c] = @ + n]
             /\ buffer' = [buffer EXCEPT ![c] = b]
             /\ bufferSize' = [bufferSize EXCEPT ![c] = size]
             /\ capacity' = [capacity EXCEPT ![c] = IF MustGrow(size, @) THEN 2 * @ ELSE @]
             /\ \/ IsReadyToParse(b, size) /\ Received(c, b)
                \/ /\ ~IsReadyToParse(b, size) /\ Goto(c, "test")
                   /\ UNCHANGED <<state, login, password>>
     \/ \* recv returns 0, the end of the stream
        /\ taken[c] = sent[c] /\ c \in hungUp
        /\ Received(c, buffer[c])
        /\ UNCHANGED <<taken, buffer, bufferSize, capacity>>
     \/ \* recv fails
        /\ c \in hungUp /\ Goto(c, "log")
        /\ UNCHANGED <<taken, buffer, bufferSize, capacity, state, login, password>>
  /\ UNCHANGED <<Shared, connections, open, address, replies, logged>>

Log(c) == /\ pc[c] = "log"
          /\ logged' = [logged EXCEPT ![c] = [address |-> address[c], login |-> login[c],
                                              password |-> password[c]]]
          /\ Goto(c, "close")
          /\ UNCHANGED <<Shared, connections, open, dataVars, replies>>

\* closeConnection: close, then the counter.
Close(c) == /\ pc[c] = "close"
            /\ open' = open \ {c} /\ Goto(c, "uncount")
            /\ UNCHANGED <<Shared, connections, dataVars, replies, logged>>

DecConnections(c) == /\ pc[c] = "uncount"
                     /\ connections' = connections - 1 /\ Goto(c, "done")
                     /\ UNCHANGED <<Shared, open, dataVars, replies, logged>>

Next == \/ SignalHandler \/ Loop \/ Accept \/ IncConnections \/ Refuse \/ Uncount \/ Join
        \/ \E c \in Clients :
             \/ Connect(c) \/ Send(c) \/ HangUp(c)
             \/ Start(c) \/ Respond(c) \/ Receive(c) \/ Test(c) \/ Recv(c)
             \/ Log(c) \/ Close(c) \/ DecConnections(c)
        \/ main = "over" /\ UNCHANGED vars   \* the program has ended

Spec == Init /\ [][Next]_vars
-----------------------------------------------------------------------------
Served == {c \in Clients : pc[c] \notin {"none", "done"}}

\* run and closeConnection: never more connections are served than allowed, and the
\* counter is theirs, plus one for a client that is being turned away.
AtMostMaxClients ==
  /\ Cardinality(Served) <= MaxClients
  /\ connections = Cardinality(Served) + IF main \in {"refuse", "uncount"} THEN 1 ELSE 0

\* run: a client is turned away only when all the places are taken.
RefusedOnlyWhenFull ==
  [][main' = "refuse" /\ main # "refuse" => Cardinality(Served) = MaxClients]_vars

\* The client has not broken off in the middle of a line.
InWholeLines(c) == c \in hungUp /\ sent[c] > 0 => script[c][sent[c]] = "LF"

LinesOf(c, n) == Cardinality({k \in 1..n : script[c][k] = "LF"})

\* What stands between a verb and the end of its line in the script.
IsArgument(c, verb, s) ==
  \E i \in 1..Total(c) : \E k \in i + 1..Total(c) :
    /\ script[c][i] = verb /\ script[c][k] = "CR"
    /\ \A j \in i..k - 1 : script[c][j] # "CR"
    /\ s = SubSeq(script[c], i + 1, k - 1)

\* startCommunication and receive: the greeting comes first, every further response
\* answers a line of its own, however the lines are cut into segments, and the
\* refusal is the last one.
RepliesAnswerLines ==
  \A c \in Clients :
    /\ replies[c] # <<>> => replies[c][1] = 220
    /\ InWholeLines(c) => Len(replies[c]) <= 1 + LinesOf(c, taken[c])
    /\ \A k \in 1..Len(replies[c]) - 1 : replies[c][k] # 530

\* parseCommand and log: the name and the password in the log are ones that the
\* client has sent, complete and from one line each, although the buffer still
\* holds the rest of longer lines.
LogsWhatWasSent ==
  \A c \in Clients : logged[c] # NoLine /\ InWholeLines(c) =>
    /\ logged[c].login = <<>> \/ IsArgument(c, "USER", logged[c].login)
    /\ logged[c].password = <<>> \/ IsArgument(c, "PASS", logged[c].password)

\* receive: strstr finds the end of the buffer inside its memory.
BufferIsTerminated == \A c \in Clients : Len(buffer[c]) < capacity[c]

\* run: when it returns, every connection that was served has its line in the log,
\* every socket is closed and the counter is zero.
EndsClean == main = "over" =>
  /\ open = {} /\ connections = 0
  /\ \A c \in Clients : address[c] # Nobody => logged[c].address = address[c]

\* ftpserver.h:100, "Log received client's data": the line of a client has its
\* address.
LogsOwnAddress == \A c \in Clients : logged[c] # NoLine => logged[c].address = c
=============================================================================
