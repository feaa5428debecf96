--------------------------- MODULE Servers_proofs ---------------------------
(***************************************************************************)
(* Theorems of the FTP server, for any clients and any limit, whatever the *)
(* clients send, however it is cut into segments, and whenever they hang   *)
(* up or the server is stopped; and, at the end, of the HTTP server, for   *)
(* any peers and any requests.                                             *)
(*                                                                         *)
(* The invariant of the FTP server has three parts: the types; what is so  *)
(* of each client by itself (its dialogue, its buffer and its line in the  *)
(* log); and what main and the shared counter have to do with all of them. *)
(***************************************************************************)
EXTENDS FtpServer, HttpServer, FiniteSetTheorems, SequenceTheorems, TLAPS

-----------------------------------------------------------------------------
(* Types.                                                                  *)

Labels == {"none", "start", "loop", "receive", "test", "recv", "log", "close",
           "uncount", "done"}
Codes  == {220, 331, 530}
Lines  == [address : Clients \cup {Nobody}, login : Seq(Units), password : Seq(Units)]

MainTypes ==
  /\ stopFlag \in BOOLEAN /\ script \in Scripts /\ connections \in Int
  /\ sin \in Clients \cup {Nobody} /\ guest \in Clients \cup {Nobody}
  /\ main \in {"loop", "select", "count", "refuse", "uncount", "join", "over"}
  /\ backlog \in Seq(Clients) /\ open \subseteq Clients /\ hungUp \subseteq Clients
  /\ pc \in [Clients -> Labels]

BufferTypes ==
  /\ sent \in [Clients -> Nat] /\ taken \in [Clients -> Nat]
  /\ buffer \in [Clients -> Seq(Units)]
  /\ bufferSize \in [Clients -> Nat] /\ capacity \in [Clients -> Nat]

DataTypes ==
  /\ state \in [Clients -> States]
  /\ address \in [Clients -> Clients \cup {Nobody}]
  /\ login \in [Clients -> Seq(Units)] /\ password \in [Clients -> Seq(Units)]
  /\ replies \in [Clients -> Seq(Codes)] /\ logged \in [Clients -> Lines]

Types == MainTypes /\ BufferTypes /\ DataTypes

\* What the client has sent is a part of its script, what was taken a part of that,
\* and the buffer's contents fit.
SizesInv(c) == /\ sent[c] <= Total(c) /\ taken[c] <= sent[c]
               /\ bufferSize[c] <= taken[c] /\ bufferSize[c] <= Len(buffer[c])
               /\ Len(buffer[c]) < capacity[c]

TypeInv == Types /\ \A c \in Clients : SizesInv(c)

LEMMA CodeValues ==
  /\ States = {"READY_NEW_USER", "CHALLENGE_PASSWORD", "INVALID_LOGIN", "UNKNOWN"}
  /\ \A s \in States : s # "UNKNOWN" => Code[s] \in Codes
  /\ Code["READY_NEW_USER"] = 220
  /\ \A s \in States : s # "UNKNOWN" /\ Code[s] = 530 => s = "INVALID_LOGIN"
BY DEF States, Code, Codes

LEMMA ScriptType ==
  ASSUME script \in Scripts, NEW c \in Clients
  PROVE  script[c] \in Seq(Units) /\ Total(c) \in Nat
BY ServerAssumption DEF Total

\* The first end of a line in the buffer.
FirstEnd(b, e) == e \in LineEnds(b) /\ \A j \in LineEnds(b) : e <= j

LEMMA LineEndType ==
  ASSUME NEW b \in Seq(Units), NEW e \in LineEnds(b)
  PROVE  e \in Nat /\ 1 <= e /\ e < Len(b) /\ b[e] = "CR" /\ b[e + 1] = "LF"
BY DEF LineEnds

\* A set of numbers has a least one.
LEMMA NatLeast ==
  ASSUME NEW T \in SUBSET Nat, T # {}
  PROVE  \E n \in T : \A j \in T : n <= j
<1>1. IsWellFoundedOn(OpToRel(<, Nat), Nat)
  BY NatLessThanWellFounded
<1>2. PICK n \in T : \A j \in T : <<j, n>> \notin OpToRel(<, Nat)
  BY <1>1, WFMin
<1>3. \A j \in T : ~(j < n)
  BY <1>2 DEF OpToRel
<1> QED
  BY <1>3

\* What parseCommand does with a buffer, without the CASE: nothing, or it takes the
\* characters between the verb and the first end of a line.
Argument(b, e) == SubSeq(b, 2, e - 1)

LEMMA Parsed ==
  ASSUME NEW c \in Clients, NEW b \in Seq(Units), ParseCommand(c, b)
  PROVE  \/ UNCHANGED <<state, login, password>>
         \/ \E e \in LineEnds(b) :
              /\ FirstEnd(b, e)
              /\ \/ /\ b[1] = "USER"
                    /\ state' = [state EXCEPT ![c] = "CHALLENGE_PASSWORD"]
                    /\ login' = [login EXCEPT ![c] = Argument(b, e)]
                    /\ password' = password
                 \/ /\ b[1] = "PASS"
                    /\ state' = [state EXCEPT ![c] = "INVALID_LOGIN"]
                    /\ password' = [password EXCEPT ![c] = Argument(b, e)]
                    /\ login' = login
                 \/ /\ state' = [state EXCEPT ![c] = "UNKNOWN"]
                    /\ UNCHANGED <<login, password>>
<1>1. CASE LineEnds(b) = {}
  BY <1>1, Zenon DEF ParseCommand
<1>2. CASE LineEnds(b) # {}
  <2> DEFINE e == CHOOSE k \in LineEnds(b) : \A j \in LineEnds(b) : k <= j
  <2>1. LineEnds(b) \subseteq Nat
    BY LineEndType
  <2>2. e \in LineEnds(b) /\ FirstEnd(b, e)
    BY <1>2, <2>1, NatLeast DEF FirstEnd
  <2>3. CASE b[1] = "USER"
    <3>1. b[1] # "PASS"
      BY <2>3
    <3>2. /\ state' = [state EXCEPT ![c] = "CHALLENGE_PASSWORD"]
          /\ login' = [login EXCEPT ![c] = Argument(b, e)]
          /\ password' = password
      BY <1>2, <2>3, <3>1, Zenon DEF ParseCommand, Kept, Argument
    <3> QED
      BY <2>2, <2>3, <3>2, Zenon
  <2>4. CASE b[1] = "PASS"
    <3>1. b[1] # "USER"
      BY <2>4
    <3>2. /\ state' = [state EXCEPT ![c] = "INVALID_LOGIN"]
          /\ password' = [password EXCEPT ![c] = Argument(b, e)]
          /\ login' = login
      BY <1>2, <2>4, <3>1, Zenon DEF ParseCommand, Kept, Argument
    <3> QED
      BY <2>2, <2>4, <3>2, Zenon
  <2>5. CASE b[1] # "USER" /\ b[1] # "PASS"
    <3>1. /\ state' = [state EXCEPT ![c] = "UNKNOWN"]
          /\ UNCHANGED <<login, password>>
      BY <1>2, <2>5, Zenon DEF ParseCommand
    <3> QED
      BY <2>2, <3>1, Zenon
  <2> QED
    BY <2>3, <2>4, <2>5
<1> QED
  BY <1>1, <1>2

\* What recv stores: the new units at their places, the old ones elsewhere.
LEMMA Stored ==
  ASSUME NEW b \in Seq(Units), NEW new \in Seq(Units), NEW size \in Nat, size <= Len(b)
  PROVE  /\ Over(b, size, new) \in Seq(Units)
         /\ Len(Over(b, size, new)) = IF Len(b) > size + Len(new) THEN Len(b)
                                      ELSE size + Len(new)
         /\ \A k \in 1..size : Over(b, size, new)[k] = b[k]
         /\ \A k \in 1..Len(new) : Over(b, size, new)[size + k] = new[k]
<1> DEFINE n == IF Len(b) > size + Len(new) THEN Len(b) ELSE size + Len(new)
           f == [k \in 1..n |-> IF k \in size + 1..size + Len(new) THEN new[k - size]
                                ELSE b[k]]
<1>1. n \in Nat /\ n >= size + Len(new) /\ n >= Len(b)
  OBVIOUS
<1>2. \A k \in 1..n : f[k] \in Units
  <2> SUFFICES ASSUME NEW k \in 1..n
               PROVE  f[k] \in Units
    OBVIOUS
  <2>1. CASE k \in size + 1..size + Len(new)
    BY <2>1
  <2>2. CASE k \notin size + 1..size + Len(new)
    <3>1. k \in 1..Len(b)
      BY <1>1, <2>2
    <3> QED
      BY <2>2, <3>1
  <2> QED
    BY <2>1, <2>2
<1>3. f \in Seq(Units) /\ Len(f) = n
  <2>1. f \in [1..n -> Units]
    BY <1>2
  <2> QED
    BY <1>1, <2>1
<1>4. /\ \A k \in 1..size : f[k] = b[k]
      /\ \A k \in 1..Len(new) : f[size + k] = new[k]
  BY <1>1
<1>5. Over(b, size, new) = f
  BY DEF Over
<1> HIDE DEF f
<1> QED
  BY <1>3, <1>4, <1>5

LEMMA Piece ==
  ASSUME NEW s \in Seq(Units), NEW m \in Nat, NEW n \in Nat, m + n <= Len(s)
  PROVE  /\ SubSeq(s, m + 1, m + n) \in Seq(Units)
         /\ Len(SubSeq(s, m + 1, m + n)) = n
         /\ \A k \in 1..n : SubSeq(s, m + 1, m + n)[k] = s[m + k]
OBVIOUS

\* What one recv does: it stores what has come, or finds the end of the stream, or fails.
LEMMA RecvStep ==
  ASSUME TypeInv, NEW c \in Clients, Recv(c)
  PROVE  \/ \E n \in Nat \ {0} : \E b \in Seq(Units) :
              /\ taken[c] + n <= sent[c] /\ bufferSize[c] + n <= capacity[c]
              /\ taken' = [taken EXCEPT ![c] = taken[c] + n]
              /\ buffer' = [buffer EXCEPT ![c] = b]
              /\ bufferSize' = [bufferSize EXCEPT ![c] = bufferSize[c] + n]
              /\ capacity' = [capacity EXCEPT ![c] =
                                IF bufferSize[c] + n >= capacity[c] THEN 2 * capacity[c]
                                ELSE capacity[c]]
              /\ Len(b) = IF Len(buffer[c]) > bufferSize[c] + n THEN Len(buffer[c])
                          ELSE bufferSize[c] + n
              /\ \A k \in 1..bufferSize[c] : b[k] = buffer[c][k]
              /\ \A k \in 1..n : b[bufferSize[c] + k] = script[c][taken[c] + k]
              /\ \/ IsReadyToParse(b, bufferSize[c] + n) /\ Received(c, b)
                 \/ /\ ~IsReadyToParse(b, bufferSize[c] + n) /\ Goto(c, "test")
                    /\ UNCHANGED <<state, login, password>>
         \/ /\ taken[c] = sent[c] /\ c \in hungUp /\ Received(c, buffer[c])
            /\ UNCHANGED <<taken, buffer, bufferSize, capacity>>
         \/ /\ c \in hungUp /\ Goto(c, "log")
            /\ UNCHANGED <<taken, buffer, bufferSize, capacity, state, login, password>>
<1> DEFINE n   == Least(sent[c] - taken[c], capacity[c] - bufferSize[c])
           new == SubSeq(script[c], taken[c] + 1, taken[c] + n)
           b   == Over(buffer[c], bufferSize[c], new)
<1>1. CASE /\ n > 0
           /\ taken' = [taken EXCEPT ![c] = @ + n]
           /\ buffer' = [buffer EXCEPT ![c] = b]
           /\ bufferSize' = [bufferSize EXCEPT ![c] = bufferSize[c] + n]
           /\ capacity' = [capacity EXCEPT ![c] = IF MustGrow(bufferSize[c] + n, @)
                                                  THEN 2 * @ ELSE @]
           /\ \/ IsReadyToParse(b, bufferSize[c] + n) /\ Received(c, b)
              \/ /\ ~IsReadyToParse(b, bufferSize[c] + n) /\ Goto(c, "test")
                 /\ UNCHANGED <<state, login, password>>
  <2>1. /\ sent[c] \in Nat /\ taken[c] \in Nat /\ capacity[c] \in Nat /\ bufferSize[c] \in Nat
        /\ buffer[c] \in Seq(Units) /\ script[c] \in Seq(Units)
        /\ sent[c] <= Len(script[c]) /\ bufferSize[c] <= Len(buffer[c])
    BY ScriptType DEF TypeInv, Types, MainTypes, BufferTypes, SizesInv, Total
  <2>2. /\ n \in Nat \ {0} /\ taken[c] + n <= sent[c] /\ bufferSize[c] + n <= capacity[c]
    BY <1>1, <2>1 DEF Least
  <2> HIDE DEF n
  <2>3. /\ new \in Seq(Units) /\ Len(new) = n
        /\ \A k \in 1..n : new[k] = script[c][taken[c] + k]
    <3>1. taken[c] + n <= Len(script[c]) /\ n \in Nat
      BY <2>1, <2>2
    <3> QED
      BY <2>1, <3>1, Piece, Zenon
  <2> HIDE DEF new
  <2>4. /\ b \in Seq(Units)
        /\ Len(b) = IF Len(buffer[c]) > bufferSize[c] + n THEN Len(buffer[c])
                    ELSE bufferSize[c] + n
        /\ \A k \in 1..bufferSize[c] : b[k] = buffer[c][k]
        /\ \A k \in 1..n : b[bufferSize[c] + k] = script[c][taken[c] + k]
    <3>1. /\ b \in Seq(Units)
          /\ Len(b) = IF Len(buffer[c]) > bufferSize[c] + Len(new) THEN Len(buffer[c])
                      ELSE bufferSize[c] + Len(new)
          /\ \A k \in 1..bufferSize[c] : b[k] = buffer[c][k]
          /\ \A k \in 1..Len(new) : b[bufferSize[c] + k] = new[k]
      BY <2>1, <2>3, Stored, Zenon
    <3> HIDE DEF b
    <3> QED
      BY <2>3, <3>1
  <2> HIDE DEF b
  <2>5. /\ taken' = [taken EXCEPT ![c] = taken[c] + n]
        /\ capacity' = [capacity EXCEPT ![c] =
                          IF bufferSize[c] + n >= capacity[c] THEN 2 * capacity[c]
                          ELSE capacity[c]]
    BY <1>1 DEF MustGrow
  <2> QED
    BY <1>1, <2>2, <2>4, <2>5
<1>2. CASE ~(n > 0 /\ taken' = [taken EXCEPT ![c] = @ + n] /\ buffer' = [buffer EXCEPT ![c] = b])
  BY <1>2 DEF Recv
<1> HIDE DEF n, b
<1>3. CASE /\ n > 0 /\ taken' = [taken EXCEPT ![c] = @ + n] /\ buffer' = [buffer EXCEPT ![c] = b]
  BY <1>1 DEF Recv, n, b
<1> QED
  BY <1>2, <1>3

\* What follows a line that was received: the log, or the next turn of the loop.
LEMMA ReceivedStep ==
  ASSUME Types, NEW c \in Clients, NEW b \in Seq(Units), Received(c, b)
  PROVE  \/ Goto(c, "log") /\ UNCHANGED <<state, login, password>>
         \/ Goto(c, "loop") /\ ParseCommand(c, b)
BY DEF Received

LEMMA ParsedTypes ==
  ASSUME Types, NEW c \in Clients, NEW b \in Seq(Units),
         ParseCommand(c, b) \/ UNCHANGED <<state, login, password>>
  PROVE  /\ state' \in [Clients -> States]
         /\ login' \in [Clients -> Seq(Units)] /\ password' \in [Clients -> Seq(Units)]
         /\ \A d \in Clients \ {c} : /\ state'[d] = state[d] /\ login'[d] = login[d]
                                     /\ password'[d] = password[d]
<1>1. CASE UNCHANGED <<state, login, password>>
  BY <1>1 DEF Types, DataTypes
<1>2. CASE ParseCommand(c, b)
  <2>1. \A e \in LineEnds(b) : Argument(b, e) \in Seq(Units)
    BY LineEndType DEF Argument
  <2>2. {"CHALLENGE_PASSWORD", "INVALID_LOGIN", "UNKNOWN"} \subseteq States
    BY CodeValues
  <2>3. ASSUME NEW e \in LineEnds(b), NEW to \in States, state' = [state EXCEPT ![c] = to],
               \/ login' = [login EXCEPT ![c] = Argument(b, e)] /\ password' = password
               \/ password' = [password EXCEPT ![c] = Argument(b, e)] /\ login' = login
               \/ UNCHANGED <<login, password>>
        PROVE  /\ state' \in [Clients -> States]
               /\ login' \in [Clients -> Seq(Units)] /\ password' \in [Clients -> Seq(Units)]
               /\ \A d \in Clients \ {c} : /\ state'[d] = state[d] /\ login'[d] = login[d]
                                           /\ password'[d] = password[d]
    <3>1. Argument(b, e) \in Seq(Units)
      BY <2>1
    <3> HIDE DEF Argument
    <3> QED
      BY <2>3, <3>1 DEF Types, DataTypes
  <2> HIDE DEF Argument
  <2> QED
    BY <1>1, <1>2, <2>2, <2>3, Parsed
<1> QED
  BY <1>1, <1>2

LEMMA TypeInvInit == Init => TypeInv
<1> SUFFICES ASSUME Init
             PROVE  TypeInv
  OBVIOUS
<1>1. NoLine \in Lines /\ "READY_NEW_USER" \in States
  BY CodeValues DEF NoLine, Lines
<1>2. MainTypes
  <2>1. backlog \in Seq(Clients) /\ pc \in [Clients -> Labels]
    BY DEF Init, Labels
  <2>2. connections \in Int /\ sin \in Clients \cup {Nobody} /\ guest \in Clients \cup {Nobody}
    BY DEF Init
  <2> QED
    BY <2>1, <2>2, Zenon DEF Init, MainTypes
<1>3. BufferTypes
  BY ServerAssumption DEF Init, BufferTypes
<1>4. DataTypes
  <2>1. replies \in [Clients -> Seq(Codes)] /\ logged \in [Clients -> Lines]
    BY <1>1 DEF Init
  <2>2. login \in [Clients -> Seq(Units)] /\ password \in [Clients -> Seq(Units)]
    BY DEF Init
  <2>3. state \in [Clients -> States] /\ address \in [Clients -> Clients \cup {Nobody}]
    BY <1>1 DEF Init
  <2> QED
    BY <2>1, <2>2, <2>3 DEF DataTypes
<1>5. \A c \in Clients : SizesInv(c)
  BY <1>2, ScriptType, ServerAssumption DEF Init, SizesInv, MainTypes
<1> QED
  BY <1>2, <1>3, <1>4, <1>5 DEF TypeInv, Types

LEMMA MainTypesNext == MainTypes /\ [Next]_vars => MainTypes'
<1> SUFFICES ASSUME MainTypes, [Next]_vars
             PROVE  MainTypes'
  OBVIOUS
<1> USE DEF MainTypes, Labels, mainVars, clientVars, Shared, Goto
<1>1. CASE SignalHandler
  BY <1>1 DEF SignalHandler
<1>2. CASE Loop
  BY <1>2 DEF Loop
<1>3. CASE Accept
  <2>1. Head(backlog) \in Clients /\ Tail(backlog) \in Seq(Clients)
    BY <1>3 DEF Accept
  <2> QED
    BY <1>3, <2>1 DEF Accept
<1>4. CASE IncConnections
  BY <1>4 DEF IncConnections, Counted
<1>5. CASE Refuse
  BY <1>5 DEF Refuse
<1>6. CASE Uncount
  BY <1>6 DEF Uncount, Uncounted
<1>7. CASE Join
  BY <1>7 DEF Join
<1>8. ASSUME NEW c \in Clients, Connect(c)
      PROVE  MainTypes'
  BY <1>8 DEF Connect
<1>9. ASSUME NEW c \in Clients, Send(c) \/ HangUp(c)
      PROVE  MainTypes'
  BY <1>9 DEF Send, HangUp
<1>10. ASSUME NEW c \in Clients, Start(c) \/ Respond(c) \/ Receive(c) \/ Test(c) \/ Log(c)
       PROVE  MainTypes'
  BY <1>10 DEF Start, Respond, Receive, Test, Log
<1>11. ASSUME NEW c \in Clients, Recv(c)
       PROVE  MainTypes'
  <2>1. UNCHANGED <<Shared, connections, open>>
    BY <1>11 DEF Recv
  <2>2. pc' \in [Clients -> Labels]
    <3>1. \E to \in {"log", "test", "loop"} : Goto(c, to)
      BY <1>11 DEF Recv, Received
    <3> QED
      BY <3>1
  <2> QED
    BY <2>1, <2>2
<1>12. ASSUME NEW c \in Clients, Close(c) \/ DecConnections(c)
       PROVE  MainTypes'
  BY <1>12 DEF Close, DecConnections
<1>13. CASE UNCHANGED vars
  BY <1>13 DEF vars
<1> QED
  BY <1>1, <1>2, <1>3, <1>4, <1>5, <1>6, <1>7, <1>8, <1>9, <1>10, <1>11, <1>12, <1>13 DEF Next

\* The steps that leave the buffers alone, and those that leave the data alone.
LEMMA DataStep ==
  ASSUME Types, [Next]_vars
  PROVE  \/ UNCHANGED <<state, address, login, password, replies, logged>>
         \/ \E c \in Clients : Start(c) \/ Respond(c) \/ Recv(c) \/ Log(c)
BY DEF Next, vars, mainVars, clientVars, dataVars, Shared, SignalHandler, Loop, Accept,
       IncConnections, Refuse, Uncount, Join, Connect, Send, HangUp, Receive, Test, Close,
       DecConnections

LEMMA BufferStep ==
  ASSUME Types, [Next]_vars
  PROVE  /\ script' = script
         /\ \/ UNCHANGED <<sent, taken, buffer, bufferSize, capacity>>
            \/ \E c \in Clients : Send(c) \/ Receive(c) \/ Recv(c)
BY DEF Next, vars, mainVars, clientVars, dataVars, Shared, SignalHandler, Loop, Accept,
       IncConnections, Refuse, Uncount, Join, Connect, Send, HangUp, Start, Respond, Receive,
       Test, Recv, Log, Close, DecConnections

LEMMA DataTypesNext == TypeInv /\ [Next]_vars => DataTypes'
<1> SUFFICES ASSUME TypeInv, [Next]_vars
             PROVE  DataTypes'
  OBVIOUS
<1>1. CASE UNCHANGED <<state, address, login, password, replies, logged>>
  BY <1>1 DEF TypeInv, Types, DataTypes
<1>2. ASSUME NEW c \in Clients, Start(c)
      PROVE  DataTypes'
  BY <1>2 DEF Start, TypeInv, Types, DataTypes, MainTypes
<1>3. ASSUME NEW c \in Clients, Respond(c)
      PROVE  DataTypes'
  <2>1. state[c] # "UNKNOWN" => Code[state[c]] \in Codes
    <3>1. state[c] \in States
      BY DEF TypeInv, Types, DataTypes
    <3> QED
      BY <3>1, CodeValues
  <2>2. replies' \in [Clients -> Seq(Codes)]
    <3>1. CASE UNCHANGED replies
      BY <3>1 DEF TypeInv, Types, DataTypes
    <3>2. CASE /\ state[c] # "UNKNOWN"
               /\ replies' = [replies EXCEPT ![c] = Append(@, Code[state[c]])]
      <4>1. Append(replies[c], Code[state[c]]) \in Seq(Codes)
        BY <2>1, <3>2 DEF TypeInv, Types, DataTypes
      <4> QED
        BY <3>2, <4>1 DEF TypeInv, Types, DataTypes
    <3> QED
      BY <1>3, <3>1, <3>2 DEF Respond
  <2> QED
    <3>1. UNCHANGED <<state, address, login, password, logged>>
      BY <1>3 DEF Respond, dataVars
    <3> QED
      BY <2>2, <3>1 DEF TypeInv, Types, DataTypes
<1>4. ASSUME NEW c \in Clients, Log(c)
      PROVE  DataTypes'
  <2>1. [address |-> address[c], login |-> login[c], password |-> password[c]] \in Lines
    BY DEF TypeInv, Types, DataTypes, Lines
  <2> QED
    BY <1>4, <2>1 DEF Log, TypeInv, Types, DataTypes, dataVars
<1>5. ASSUME NEW c \in Clients, Recv(c)
      PROVE  DataTypes'
  <2>1. /\ state' \in [Clients -> States]
        /\ login' \in [Clients -> Seq(Units)] /\ password' \in [Clients -> Seq(Units)]
    <3>1. ASSUME NEW b \in Seq(Units), Received(c, b)
          PROVE  /\ state' \in [Clients -> States]
                 /\ login' \in [Clients -> Seq(Units)] /\ password' \in [Clients -> Seq(Units)]
      BY <3>1, ReceivedStep, ParsedTypes DEF TypeInv
    <3>2. buffer[c] \in Seq(Units)
      BY DEF TypeInv, Types, BufferTypes
    <3>3. CASE UNCHANGED <<state, login, password>>
      BY <3>3 DEF TypeInv, Types, DataTypes
    <3>4. CASE ~UNCHANGED <<state, login, password>>
      <4>1. \E b \in Seq(Units) : Received(c, b)
        BY <1>5, <3>2, <3>4, RecvStep, Zenon
      <4> QED
        BY <3>1, <4>1
    <3> QED
      BY <3>3, <3>4
  <2>2. UNCHANGED <<address, replies, logged>>
    BY <1>5 DEF Recv
  <2> QED
    BY <2>1, <2>2 DEF TypeInv, Types, DataTypes
<1> QED
  BY <1>1, <1>2, <1>3, <1>4, <1>5, DataStep DEF TypeInv

LEMMA BufferTypesNext ==
  TypeInv /\ [Next]_vars => BufferTypes' /\ \A c \in Clients : SizesInv(c)'
<1> SUFFICES ASSUME TypeInv, [Next]_vars
             PROVE  BufferTypes' /\ \A c \in Clients : SizesInv(c)'
  OBVIOUS
<1>0. script' = script /\ \A c \in Clients : Total(c) \in Nat /\ Total(c)' = Total(c)
  BY ScriptType, BufferStep DEF TypeInv, Types, MainTypes, Total
<1>1. CASE UNCHANGED <<sent, taken, buffer, bufferSize, capacity>>
  BY <1>0, <1>1 DEF TypeInv, Types, BufferTypes, SizesInv
<1>2. ASSUME NEW c \in Clients, Send(c)
      PROVE  BufferTypes' /\ \A d \in Clients : SizesInv(d)'
  <2>1. PICK n \in sent[c] + 1..Total(c) : sent' = [sent EXCEPT ![c] = n]
    BY <1>2 DEF Send
  <2>2. n \in Nat /\ sent[c] <= n /\ n <= Total(c)
    BY <1>0, <2>1 DEF TypeInv, Types, BufferTypes
  <2>3. UNCHANGED <<taken, buffer, bufferSize, capacity>>
    BY <1>2 DEF Send, dataVars
  <2>4. BufferTypes'
    BY <2>1, <2>2, <2>3 DEF TypeInv, Types, BufferTypes
  <2>5. ASSUME NEW d \in Clients
        PROVE  SizesInv(d)'
    <3>1. sent'[d] = IF d = c THEN n ELSE sent[d]
      BY <2>1 DEF TypeInv, Types, BufferTypes
    <3>2. taken[d] \in Nat /\ sent[d] \in Nat
      BY DEF TypeInv, Types, BufferTypes
    <3>3. SizesInv(d)
      BY DEF TypeInv
    <3>4. sent'[d] <= Total(d) /\ taken[d] <= sent'[d]
      BY <1>0, <2>2, <3>1, <3>2, <3>3 DEF SizesInv
    <3> QED
      BY <1>0, <2>3, <3>3, <3>4 DEF SizesInv
  <2> QED
    BY <2>4, <2>5
<1>3. ASSUME NEW c \in Clients, Receive(c)
      PROVE  BufferTypes' /\ \A d \in Clients : SizesInv(d)'
  <2>1. UNCHANGED <<sent, taken, buffer, capacity>>
    BY <1>3 DEF Receive, Shared, clientVars
  <2>2. bufferSize' = bufferSize \/ bufferSize' = [bufferSize EXCEPT ![c] = 0]
    BY <1>3 DEF Receive
  <2>3. ASSUME NEW d \in Clients
        PROVE  bufferSize'[d] = bufferSize[d] \/ bufferSize'[d] = 0
    BY <2>2 DEF TypeInv, Types, BufferTypes
  <2>4. BufferTypes'
    <3>1. bufferSize' \in [Clients -> Nat]
      <4>1. bufferSize \in [Clients -> Nat]
        BY DEF TypeInv, Types, BufferTypes
      <4>2. CASE bufferSize' = [bufferSize EXCEPT ![c] = 0]
        BY <4>1, <4>2
      <4> QED
        BY <2>2, <4>1, <4>2
    <3> QED
      BY <2>1, <3>1 DEF TypeInv, Types, BufferTypes
  <2>5. ASSUME NEW d \in Clients
        PROVE  SizesInv(d)'
    <3>1. /\ taken[d] \in Nat /\ Len(buffer[d]) \in Nat /\ SizesInv(d)
          /\ bufferSize'[d] = bufferSize[d] \/ bufferSize'[d] = 0
      BY <2>3 DEF TypeInv, Types, BufferTypes
    <3> QED
      BY <1>0, <2>1, <3>1 DEF SizesInv
  <2> QED
    BY <2>4, <2>5
<1>4. ASSUME NEW c \in Clients, Recv(c)
      PROVE  BufferTypes' /\ \A d \in Clients : SizesInv(d)'
  <2>1. sent' = sent
    BY <1>4 DEF Recv, Shared, clientVars
  <2>2. CASE UNCHANGED <<taken, buffer, bufferSize, capacity>>
    BY <1>1, <2>1, <2>2
  <2>3. ASSUME NEW n \in Nat \ {0}, NEW b \in Seq(Units),
               taken[c] + n <= sent[c], bufferSize[c] + n <= capacity[c],
               taken' = [taken EXCEPT ![c] = taken[c] + n],
               buffer' = [buffer EXCEPT ![c] = b],
               bufferSize' = [bufferSize EXCEPT ![c] = bufferSize[c] + n],
               capacity' = [capacity EXCEPT ![c] =
                              IF bufferSize[c] + n >= capacity[c] THEN 2 * capacity[c]
                              ELSE capacity[c]],
               Len(b) = IF Len(buffer[c]) > bufferSize[c] + n THEN Len(buffer[c])
                        ELSE bufferSize[c] + n
        PROVE  BufferTypes' /\ \A d \in Clients : SizesInv(d)'
    <3>1. /\ taken[c] \in Nat /\ bufferSize[c] \in Nat /\ capacity[c] \in Nat
          /\ Len(buffer[c]) \in Nat /\ SizesInv(c)
      BY DEF TypeInv, Types, BufferTypes
    <3>2. BufferTypes'
      <4>1. taken[c] + n \in Nat /\ bufferSize[c] + n \in Nat /\ 2 * capacity[c] \in Nat
        BY <3>1
      <4> QED
        BY <2>1, <2>3, <3>1, <4>1 DEF TypeInv, Types, BufferTypes
    <3>3. SizesInv(c)'
      <4>1. /\ taken'[c] = taken[c] + n /\ buffer'[c] = b /\ bufferSize'[c] = bufferSize[c] + n
            /\ capacity'[c] = IF bufferSize[c] + n >= capacity[c] THEN 2 * capacity[c]
                              ELSE capacity[c]
        BY <2>3 DEF TypeInv, Types, BufferTypes
      <4> QED
        BY <1>0, <2>1, <2>3, <3>1, <4>1 DEF SizesInv
    <3>4. ASSUME NEW d \in Clients, d # c
          PROVE  SizesInv(d)'
      <4>1. /\ taken'[d] = taken[d] /\ buffer'[d] = buffer[d]
            /\ bufferSize'[d] = bufferSize[d] /\ capacity'[d] = capacity[d]
        BY <2>3, <3>4 DEF TypeInv, Types, BufferTypes
      <4> QED
        BY <1>0, <2>1, <4>1 DEF SizesInv, TypeInv
    <3> QED
      BY <3>2, <3>3, <3>4
  <2> QED
    BY <1>4, <2>2, <2>3, RecvStep
<1> QED
  BY <1>1, <1>2, <1>3, <1>4, BufferStep DEF TypeInv

LEMMA TypeInvNext == TypeInv /\ [Next]_vars => TypeInv'
BY MainTypesNext, DataTypesNext, BufferTypesNext DEF TypeInv, Types

LEMMA TypeInvariant == Spec => []TypeInv
<1>1. Init => TypeInv
  BY TypeInvInit
<1>2. TypeInv /\ [Next]_vars => TypeInv'
  BY TypeInvNext
<1> QED
  BY <1>1, <1>2, PTL DEF Spec

\* receive: strstr finds the end of the buffer inside its memory, whatever recv has
\* stored there.
THEOREM BufferInMemory == Spec => []BufferIsTerminated
<1>1. TypeInv => BufferIsTerminated
  BY DEF TypeInv, SizesInv, BufferIsTerminated
<1> QED
  BY <1>1, TypeInvariant, PTL

-----------------------------------------------------------------------------
(* Each client by itself.                                                  *)

\* The lines that the first n units of a script hold.
LFs(s, n) == Cardinality({k \in 1..n : s[k] = "LF"})

\* The dialogue: no response before the greeting, none after the refusal.
DialogueInv(c) ==
  /\ pc[c] \in {"none", "start"} => replies[c] = <<>> /\ taken[c] = 0
  /\ replies[c] # <<>> => replies[c][1] = 220
  /\ replies[c] = <<>> => /\ state[c] = "READY_NEW_USER"
                          /\ pc[c] \notin {"receive", "test", "recv"}
  /\ \A k \in 1..Len(replies[c]) - 1 : replies[c][k] # 530
  /\ pc[c] \in {"loop", "receive", "test", "recv"} =>
       \A k \in 1..Len(replies[c]) : replies[c][k] # 530

\* A response more than lines only after a line: while a line is being received, the
\* responses are those to the lines before it.
LinesInv(c) ==
  /\ pc[c] \in {"test", "recv"} => taken[c] - bufferSize[c] < sent[c]
  /\ InWholeLines(c) =>
       /\ Len(replies[c]) <= 1 + LFs(script[c], taken[c])
       /\ pc[c] = "loop" => Len(replies[c]) <= LFs(script[c], taken[c])
       /\ pc[c] \in {"test", "recv"} =>
            Len(replies[c]) <= 1 + LFs(script[c], taken[c] - bufferSize[c])

\* The buffer holds the units that were taken since receive began, at the start of a
\* line, and has not been ready to parse.
AtStart(c, n) == n = 0 \/ script[c][n] = "LF"
LineInv(c) ==
  /\ pc[c] \in {"test", "recv"} =>
       /\ \A k \in 1..bufferSize[c] :
            buffer[c][k] = script[c][taken[c] - bufferSize[c] + k]
       /\ ~IsReadyToParse(buffer[c], bufferSize[c])
  /\ InWholeLines(c) =>
       /\ pc[c] \in {"none", "start", "loop", "receive"} => AtStart(c, taken[c])
       /\ pc[c] \in {"test", "recv"} => AtStart(c, taken[c] - bufferSize[c])

\* What is kept, and then logged, was sent.
ArgumentIn(t, verb, s) ==
  s = <<>> \/ \E i \in 1..Len(t) : \E k \in i + 1..Len(t) :
                /\ t[i] = verb /\ t[k] = "CR"
                /\ \A j \in i..k - 1 : t[j] # "CR"
                /\ s = SubSeq(t, i + 1, k - 1)
LogInv(c) == InWholeLines(c) =>
  /\ ArgumentIn(script[c], "USER", login[c])
  /\ ArgumentIn(script[c], "PASS", password[c])
  /\ ArgumentIn(script[c], "USER", logged[c].login)
  /\ ArgumentIn(script[c], "PASS", logged[c].password)

\* Between run and the threads: the socket that run has accepted has no thread yet, and
\* nobody waits twice.
GuestInv ==
  /\ main \in {"count", "refuse"} => guest \in Clients /\ pc[guest] = "none" /\ guest \in open
  /\ main = "uncount" => guest \in Clients /\ pc[guest] = "done"
  /\ main \notin {"count", "refuse", "uncount"} => guest = Nobody
  /\ \A i \in 1..Len(backlog) : pc[backlog[i]] = "none" /\ backlog[i] \notin open
  /\ \A i, j \in 1..Len(backlog) : i # j => backlog[i] # backlog[j]

\* A socket is open from accept to close; a client that was served is in the log.
Busy == {"start", "loop", "receive", "test", "recv", "log", "close"}
SocketInv(c) ==
  /\ c \in open <=> pc[c] \in Busy \/ (main \in {"count", "refuse"} /\ c = guest)
  /\ main = "over" => pc[c] \in {"none", "done"}
  /\ pc[c] = "none" => address[c] = Nobody
  /\ pc[c] \in {"close", "uncount", "done"} /\ address[c] # Nobody =>
       logged[c].address = address[c]

DataSame(d) ==
  /\ taken'[d] = taken[d] /\ state'[d] = state[d]
  /\ buffer'[d] = buffer[d] /\ bufferSize'[d] = bufferSize[d] /\ capacity'[d] = capacity[d]
  /\ address'[d] = address[d] /\ login'[d] = login[d] /\ password'[d] = password[d]
  /\ replies'[d] = replies[d] /\ logged'[d] = logged[d]

ThreadStep(d) == \/ Start(d) \/ Respond(d) \/ Receive(d) \/ Test(d) \/ Recv(d)
                 \/ Log(d) \/ Close(d) \/ DecConnections(d)

\* A step of one thread leaves those of the others alone.
LEMMA OtherThreads ==
  ASSUME TypeInv, NEW c \in Clients, ThreadStep(c), NEW d \in Clients, d # c
  PROVE  pc'[d] = pc[d] /\ DataSame(d)
<1> USE DEF TypeInv, Types, MainTypes, BufferTypes, DataTypes, Goto, dataVars, DataSame
<1>1. CASE Start(c)
  BY <1>1 DEF Start
<1>2. CASE Respond(c)
  BY <1>2 DEF Respond
<1>3. CASE Receive(c)
  BY <1>3 DEF Receive
<1>4. CASE Test(c)
  BY <1>4 DEF Test
<1>5. CASE Log(c)
  BY <1>5 DEF Log
<1>6. CASE Close(c) \/ DecConnections(c)
  BY <1>6 DEF Close, DecConnections
<1>7. CASE Recv(c)
  <2>1. pc'[d] = pc[d]
    BY <1>7 DEF Recv, Received
  <2>2. address'[d] = address[d] /\ replies'[d] = replies[d] /\ logged'[d] = logged[d]
    BY <1>7 DEF Recv
  <2>3. /\ taken'[d] = taken[d] /\ buffer'[d] = buffer[d]
        /\ bufferSize'[d] = bufferSize[d] /\ capacity'[d] = capacity[d]
    BY <1>7 DEF Recv
  <2>4. state'[d] = state[d] /\ login'[d] = login[d] /\ password'[d] = password[d]
    <3>1. CASE UNCHANGED <<state, login, password>>
      BY <3>1
    <3>2. CASE ~UNCHANGED <<state, login, password>>
      <4>1. \E b \in Seq(Units) : Received(c, b)
        BY <1>7, <3>2, RecvStep, Zenon DEF TypeInv, Types, BufferTypes
      <4> QED
        BY <4>1, ReceivedStep, ParsedTypes
    <3> QED
      BY <3>1, <3>2
  <2> QED
    BY <2>1, <2>2, <2>3, <2>4
<1> QED
  BY <1>1, <1>2, <1>3, <1>4, <1>5, <1>6, <1>7 DEF ThreadStep

\* What a step does to one client's thread: nothing, or run begins or refuses it, or it
\* takes a step of its own.
LEMMA StepOf ==
  ASSUME TypeInv, GuestInv, [Next]_vars, NEW d \in Clients
  PROVE  \/ pc'[d] = pc[d] /\ DataSame(d)
         \/ pc[d] = "none" /\ pc'[d] \in {"start", "done"} /\ DataSame(d)
         \/ ThreadStep(d)
<1>1. CASE /\ SignalHandler \/ Loop \/ Accept \/ Uncount \/ Join \/ UNCHANGED vars
  BY <1>1 DEF SignalHandler, Loop, Accept, Uncount, Join, vars, dataVars, DataSame
<1>2. CASE IncConnections \/ Refuse
  BY <1>2 DEF IncConnections, Refuse, dataVars, DataSame, GuestInv, TypeInv, Types, MainTypes
<1>3. ASSUME NEW c \in Clients, Connect(c) \/ Send(c) \/ HangUp(c)
      PROVE  pc'[d] = pc[d] /\ DataSame(d)
  BY <1>3 DEF Connect, Send, HangUp, dataVars, DataSame
<1>4. ASSUME NEW c \in Clients, ThreadStep(c)
      PROVE  (pc'[d] = pc[d] /\ DataSame(d)) \/ ThreadStep(d)
  <2>1. CASE c = d
    BY <1>4, <2>1, Zenon
  <2>2. CASE c # d
    BY <1>4, <2>2, OtherThreads
  <2> QED
    BY <2>1, <2>2
<1> QED
  BY <1>1, <1>2, <1>3, <1>4, Zenon DEF Next, ThreadStep

\* The script does not change, no step takes back what was sent, and a client that has
\* broken off in the middle of a line stays there.
LEMMA ClientStep ==
  ASSUME TypeInv, [Next]_vars, NEW d \in Clients
  PROVE  /\ script' = script /\ sent[d] <= sent'[d]
         /\ InWholeLines(d)' => InWholeLines(d)
<1> USE DEF TypeInv, Types, MainTypes, BufferTypes
<1>1. CASE UNCHANGED <<script, sent, hungUp>>
  BY <1>1 DEF InWholeLines
<1>2. ASSUME NEW c \in Clients, Send(c)
      PROVE  /\ script' = script /\ sent[d] <= sent'[d]
             /\ InWholeLines(d)' => InWholeLines(d)
  <2>1. PICK n \in sent[c] + 1..Total(c) : sent' = [sent EXCEPT ![c] = n]
    BY <1>2 DEF Send
  <2>2. n \in Nat /\ sent[c] <= n /\ Total(c) \in Nat
    BY <2>1, ScriptType
  <2>3. script' = script /\ hungUp' = hungUp /\ c \notin hungUp
    BY <1>2 DEF Send
  <2>4. sent[d] <= sent'[d] /\ (d # c => sent'[d] = sent[d])
    <3>1. sent \in [Clients -> Nat]
      OBVIOUS
    <3> HIDE DEF TypeInv, Types, MainTypes, BufferTypes
    <3>2. sent'[d] = IF d = c THEN n ELSE sent[d]
      BY <2>1, <3>1
    <3> QED
      BY <2>2, <3>1, <3>2
  <2>5. InWholeLines(d)' => InWholeLines(d)
    BY <2>3, <2>4, Zenon DEF InWholeLines
  <2> QED
    BY <2>3, <2>4, <2>5
<1>3. ASSUME NEW c \in Clients, HangUp(c)
      PROVE  /\ script' = script /\ sent[d] <= sent'[d]
             /\ InWholeLines(d)' => InWholeLines(d)
  <2>1. script' = script /\ sent' = sent /\ hungUp' = hungUp \cup {c} /\ c \notin hungUp
    BY <1>3 DEF HangUp
  <2>2. sent[d] <= sent'[d]
    BY <2>1
  <2>3. InWholeLines(d)' => InWholeLines(d)
    BY <2>1, Zenon DEF InWholeLines
  <2> QED
    BY <2>1, <2>2, <2>3
<1>4. UNCHANGED <<script, sent, hungUp>> \/ \E c \in Clients : Send(c) \/ HangUp(c)
  BY DEF Next, vars, clientVars, Shared, SignalHandler, Loop, Accept,
       IncConnections, Refuse, Uncount, Join, Connect, Start, Respond, Receive,
       Test, Recv, Log, Close, DecConnections
<1> QED
  BY <1>1, <1>2, <1>3, <1>4

\* What recv does to its thread: it goes back to the test with a longer buffer, or it
\* goes on with the buffer it has; or it fails.
Turns(c) == /\ pc'[c] = "log" /\ state'[c] = state[c]
            /\ login'[c] = login[c] /\ password'[c] = password[c]

Parses(c, b) == Goto(c, "loop") /\ ParseCommand(c, b)

Grows(c, n, b) ==
  /\ taken[c] + n <= sent[c] /\ taken'[c] = taken[c] + n
  /\ bufferSize'[c] = bufferSize[c] + n /\ buffer'[c] = b
  /\ bufferSize[c] + n <= Len(b)
  /\ \A k \in 1..bufferSize[c] : b[k] = buffer[c][k]
  /\ \A k \in 1..n : b[bufferSize[c] + k] = script[c][taken[c] + k]

LEMMA RecvAt ==
  ASSUME TypeInv, NEW c \in Clients, Recv(c)
  PROVE  /\ pc[c] = "recv" /\ pc'[c] \in {"test", "log", "loop"}
         /\ address'[c] = address[c] /\ replies'[c] = replies[c] /\ logged'[c] = logged[c]
         /\ sent'[c] = sent[c]
         /\ \/ \E n \in Nat \ {0} : \E b \in Seq(Units) :
                 /\ Grows(c, n, b)
                 /\ \/ IsReadyToParse(b, bufferSize[c] + n) /\ (Turns(c) \/ Parses(c, b))
                    \/ /\ ~IsReadyToParse(b, bufferSize[c] + n) /\ pc'[c] = "test"
                       /\ login'[c] = login[c] /\ password'[c] = password[c]
                       /\ state'[c] = state[c]
            \/ /\ taken'[c] = taken[c] /\ buffer'[c] = buffer[c]
               /\ bufferSize'[c] = bufferSize[c]
               /\ Turns(c) \/ (taken[c] = sent[c] /\ c \in hungUp /\ Parses(c, buffer[c]))
<1>1. /\ UNCHANGED <<Shared, connections, open, address, replies, logged>> /\ pc[c] = "recv"
  BY DEF Recv
<1>2. ASSUME NEW to \in Labels, Goto(c, to)
      PROVE  pc'[c] = to
  BY <1>2 DEF Goto, TypeInv, Types, MainTypes
<1>3. {"log", "test", "loop"} \subseteq Labels
  BY DEF Labels
<1>4. ASSUME NEW b \in Seq(Units), Received(c, b)
      PROVE  Turns(c) \/ Parses(c, b)
  BY <1>2, <1>3, <1>4, ReceivedStep DEF TypeInv, Turns, Parses
<1>5. ASSUME Turns(c) \/ \E b \in Seq(Units) : Parses(c, b)
      PROVE  pc'[c] \in {"log", "loop"}
  BY <1>2, <1>3, <1>5 DEF Turns, Parses
<1>6. buffer[c] \in Seq(Units)
  BY DEF TypeInv, Types, BufferTypes
<1>7. ASSUME NEW n \in Nat \ {0}, NEW b \in Seq(Units),
             taken[c] + n <= sent[c],
             taken' = [taken EXCEPT ![c] = taken[c] + n],
             buffer' = [buffer EXCEPT ![c] = b],
             bufferSize' = [bufferSize EXCEPT ![c] = bufferSize[c] + n],
             Len(b) = IF Len(buffer[c]) > bufferSize[c] + n THEN Len(buffer[c])
                      ELSE bufferSize[c] + n,
             \A k \in 1..bufferSize[c] : b[k] = buffer[c][k],
             \A k \in 1..n : b[bufferSize[c] + k] = script[c][taken[c] + k]
      PROVE  Grows(c, n, b)
  <2>1. /\ taken'[c] = taken[c] + n /\ buffer'[c] = b
        /\ bufferSize'[c] = bufferSize[c] + n
    BY <1>7 DEF TypeInv, Types, BufferTypes
  <2>2. bufferSize[c] + n <= Len(b)
    BY <1>6, <1>7 DEF TypeInv, Types, BufferTypes
  <2> QED
    BY <1>7, <2>1, <2>2 DEF Grows
<1>8. CASE \E n \in Nat \ {0} : \E b \in Seq(Units) :
              /\ taken[c] + n <= sent[c] /\ bufferSize[c] + n <= capacity[c]
              /\ taken' = [taken EXCEPT ![c] = taken[c] + n]
              /\ buffer' = [buffer EXCEPT ![c] = b]
              /\ bufferSize' = [bufferSize EXCEPT ![c] = bufferSize[c] + n]
              /\ capacity' = [capacity EXCEPT ![c] =
                                IF bufferSize[c] + n >= capacity[c] THEN 2 * capacity[c]
                                ELSE capacity[c]]
              /\ Len(b) = IF Len(buffer[c]) > bufferSize[c] + n THEN Len(buffer[c])
                          ELSE bufferSize[c] + n
              /\ \A k \in 1..bufferSize[c] : b[k] = buffer[c][k]
              /\ \A k \in 1..n : b[bufferSize[c] + k] = script[c][taken[c] + k]
              /\ \/ IsReadyToParse(b, bufferSize[c] + n) /\ Received(c, b)
                 \/ /\ ~IsReadyToParse(b, bufferSize[c] + n) /\ Goto(c, "test")
                    /\ UNCHANGED <<state, login, password>>
  <2>1. PICK n \in Nat \ {0}, b \in Seq(Units) :
          /\ Grows(c, n, b)
          /\ \/ IsReadyToParse(b, bufferSize[c] + n) /\ Received(c, b)
             \/ /\ ~IsReadyToParse(b, bufferSize[c] + n) /\ Goto(c, "test")
                /\ UNCHANGED <<state, login, password>>
    BY <1>7, <1>8, Zenon
  <2>2. \/ IsReadyToParse(b, bufferSize[c] + n) /\ (Turns(c) \/ Parses(c, b))
        \/ /\ ~IsReadyToParse(b, bufferSize[c] + n) /\ pc'[c] = "test"
           /\ login'[c] = login[c] /\ password'[c] = password[c] /\ state'[c] = state[c]
    BY <1>2, <1>3, <1>4, <2>1, Zenon
  <2>3. pc'[c] \in {"test", "log", "loop"}
    BY <1>5, <2>2
  <2> QED
    BY <1>1, <2>1, <2>2, <2>3, Zenon DEF Shared, clientVars
<1>9. CASE /\ taken[c] = sent[c] /\ c \in hungUp /\ Received(c, buffer[c])
           /\ UNCHANGED <<taken, buffer, bufferSize, capacity>>
  <2>1. Turns(c) \/ Parses(c, buffer[c])
    BY <1>4, <1>6, <1>9
  <2>2. pc'[c] \in {"test", "log", "loop"}
    BY <1>5, <1>6, <2>1
  <2> QED
    BY <1>1, <1>9, <2>1, <2>2, Zenon DEF Shared, clientVars
<1>10. CASE /\ c \in hungUp /\ Goto(c, "log")
            /\ UNCHANGED <<taken, buffer, bufferSize, capacity, state, login, password>>
  <2>1. Turns(c)
    BY <1>2, <1>3, <1>10 DEF Turns
  <2>2. pc'[c] \in {"test", "log", "loop"}
    BY <1>5, <2>1
  <2> QED
    BY <1>1, <1>10, <2>1, <2>2, Zenon DEF Shared, clientVars
<1> QED
  BY <1>8, <1>9, <1>10, RecvStep

LEMMA Appended ==
  ASSUME NEW s \in Seq(Codes), NEW e \in Codes
  PROVE  /\ Append(s, e) # <<>> /\ Len(Append(s, e)) = Len(s) + 1 /\ Len(s) \in Nat
         /\ \A k \in 1..Len(s) : Append(s, e)[k] = s[k]
         /\ Append(s, e)[Len(s) + 1] = e
<1> DEFINE r == Append(s, e)
<1>1. Len(r) = Len(s) + 1 /\ Len(s) \in Nat /\ r \in Seq(Codes)
  OBVIOUS
<1>2. \A k \in 1..Len(s) : r[k] = s[k]
  OBVIOUS
<1>3. r[Len(s) + 1] = e
  OBVIOUS
<1> HIDE DEF r
<1>4. r # <<>>
  BY <1>1
<1> QED
  BY <1>1, <1>2, <1>3, <1>4 DEF r

LEMMA DialogueNext ==
  ASSUME TypeInv, GuestInv, [Next]_vars, NEW c \in Clients, DialogueInv(c)
  PROVE  DialogueInv(c)'
<1> USE DEF DialogueInv
<1>0. replies[c] \in Seq(Codes) /\ pc[c] \in Labels /\ state[c] \in States
  BY DEF TypeInv, Types, MainTypes, DataTypes
<1>1. CASE pc'[c] = pc[c] /\ DataSame(c)
  BY <1>1 DEF DataSame
<1>2. CASE pc[c] = "none" /\ pc'[c] \in {"start", "done"} /\ DataSame(c)
  BY <1>2 DEF DataSame
<1>3. CASE Start(c)
  <2>1. /\ pc[c] = "start" /\ pc'[c] = "loop" /\ replies' = replies /\ state' = state
        /\ taken' = taken
    BY <1>3 DEF Start, Goto, TypeInv, Types, MainTypes
  <2> QED
    BY <1>0, <2>1
<1>4. CASE Respond(c)
  <2>1. state' = state /\ taken' = taken /\ pc[c] = "loop"
    BY <1>4 DEF Respond, dataVars
  <2>2. CASE UNCHANGED replies /\ pc'[c] = "log"
    BY <2>1, <2>2
  <2>3. CASE /\ state[c] # "UNKNOWN" /\ replies'[c] = Append(replies[c], Code[state[c]])
             /\ pc'[c] = IF state[c] = "INVALID_LOGIN" THEN "log" ELSE "receive"
    <3>1. /\ Code[state[c]] \in Codes
          /\ state[c] = "READY_NEW_USER" => Code[state[c]] = 220
          /\ state[c] # "INVALID_LOGIN" => Code[state[c]] # 530
      <4>1. Code[state[c]] \in Codes /\ (Code[state[c]] = 530 => state[c] = "INVALID_LOGIN")
        BY <1>0, <2>3, CodeValues
      <4>2. state[c] = "READY_NEW_USER" => Code[state[c]] = 220
        BY CodeValues
      <4> QED
        BY <4>1, <4>2
    <3> DEFINE r == Append(replies[c], Code[state[c]])
    <3>2. /\ r # <<>> /\ Len(r) = Len(replies[c]) + 1 /\ Len(replies[c]) \in Nat
          /\ \A k \in 1..Len(replies[c]) : r[k] = replies[c][k]
          /\ r[Len(r)] = Code[state[c]]
      <4>1. /\ r # <<>> /\ Len(r) = Len(replies[c]) + 1 /\ Len(replies[c]) \in Nat
            /\ \A k \in 1..Len(replies[c]) : r[k] = replies[c][k]
            /\ r[Len(replies[c]) + 1] = Code[state[c]]
        <5> HIDE DEF DialogueInv
        <5>1. replies[c] \in Seq(Codes) /\ Code[state[c]] \in Codes
          BY <1>0, <3>1
        <5> QED
          BY <5>1, Appended, Zenon
      <4> HIDE DEF r
      <4> QED
        BY <4>1
    <3>3. r[1] = 220
      <4>1. CASE replies[c] = <<>>
        BY <3>1, <3>2, <4>1
      <4>2. CASE replies[c] # <<>>
        <5>1. 1 \in 1..Len(replies[c])
          BY <1>0, <4>2
        <5> QED
          BY <3>2, <4>2, <5>1
      <4> QED
        BY <4>1, <4>2
    <3> HIDE DEF r
    <3>4. \A k \in 1..Len(r) - 1 : r[k] # 530
      BY <2>1, <3>2
    <3>5. state[c] # "INVALID_LOGIN" => \A k \in 1..Len(r) : r[k] # 530
      <4> SUFFICES ASSUME state[c] # "INVALID_LOGIN", NEW k \in 1..Len(r)
                   PROVE  r[k] # 530
        OBVIOUS
      <4>1. k \in 1..Len(r) - 1 \/ k = Len(r)
        BY <3>2
      <4> QED
        BY <3>1, <3>2, <3>4, <4>1
    <3>6. replies'[c] = r
      BY <2>3 DEF r
    <3> QED
      BY <2>1, <2>3, <3>2, <3>3, <3>4, <3>5, <3>6
  <2> HIDE DEF DialogueInv
  <2>4. CASE stopFlag \/ state[c] = "UNKNOWN"
    <3>1. \/ UNCHANGED replies /\ Goto(c, "log")
          \/ /\ state[c] # "UNKNOWN"
             /\ replies' = [replies EXCEPT ![c] = Append(@, Code[state[c]])]
             /\ Goto(c, IF state[c] = "INVALID_LOGIN" THEN "log" ELSE "receive")
      BY <1>4, Zenon DEF Respond
    <3> QED
      BY <2>2, <2>3, <3>1 DEF Goto, TypeInv, Types, MainTypes, DataTypes
  <2>5. CASE ~stopFlag /\ state[c] # "UNKNOWN"
    <3>1. /\ replies' = [replies EXCEPT ![c] = Append(@, Code[state[c]])]
          /\ Goto(c, IF state[c] = "INVALID_LOGIN" THEN "log" ELSE "receive")
      BY <1>4, <2>5 DEF Respond
    <3> QED
      BY <2>3, <2>5, <3>1 DEF Goto, TypeInv, Types, MainTypes, DataTypes
  <2> QED
    BY <2>4, <2>5
<1>5. CASE Receive(c) \/ Test(c)
  <2>1. /\ pc[c] \in {"receive", "test"} /\ pc'[c] \in {"log", "test", "recv"}
        /\ replies' = replies /\ state' = state /\ taken' = taken
    BY <1>5 DEF Receive, Test, Goto, dataVars, TypeInv, Types, MainTypes
  <2> QED
    BY <2>1
<1>6. CASE Recv(c)
  <2>1. /\ pc[c] = "recv" /\ pc'[c] \in {"test", "log", "loop"} /\ replies'[c] = replies[c]
    BY <1>6, RecvAt
  <2> QED
    BY <2>1
<1>7. CASE Log(c) \/ Close(c) \/ DecConnections(c)
  <2>1. /\ pc'[c] \in {"close", "uncount", "done"}
        /\ replies' = replies /\ state' = state /\ taken' = taken
    BY <1>7 DEF Log, Close, DecConnections, Goto, dataVars, TypeInv, Types, MainTypes
  <2> QED
    BY <2>1
<1> HIDE DEF DialogueInv
<1> QED
  BY <1>1, <1>2, <1>3, <1>4, <1>5, <1>6, <1>7, StepOf DEF ThreadStep

LEMMA LFsGrow ==
  ASSUME NEW s, NEW m \in Nat, NEW n \in Nat, m <= n
  PROVE  /\ LFs(s, m) \in Nat /\ LFs(s, n) \in Nat /\ LFs(s, m) <= LFs(s, n)
         /\ m < n /\ s[n] = "LF" => LFs(s, m) + 1 <= LFs(s, n)
<1> DEFINE A(k) == {i \in 1..k : s[i] = "LF"}
<1>1. ASSUME NEW k \in Nat
      PROVE  IsFiniteSet(A(k)) /\ Cardinality(A(k)) \in Nat /\ LFs(s, k) = Cardinality(A(k))
  <2>1. IsFiniteSet(1..k) /\ A(k) \subseteq 1..k
    BY FS_Interval
  <2>2. IsFiniteSet(A(k))
    BY <2>1, FS_Subset
  <2> QED
    BY <2>2, FS_CardinalityType DEF LFs
<1>2. A(m) \subseteq A(n)
  OBVIOUS
<1>3. LFs(s, m) <= LFs(s, n)
  BY <1>1, <1>2, FS_Subset
<1>4. ASSUME m < n, s[n] = "LF"
      PROVE  LFs(s, m) + 1 <= LFs(s, n)
  <2>1. n \in A(n) /\ n \notin A(m)
    BY <1>4
  <2>2. A(m) \cup {n} \subseteq A(n)
    BY <1>2, <2>1
  <2> HIDE DEF A
  <2>3. IsFiniteSet(A(m) \cup {n}) /\ Cardinality(A(m) \cup {n}) = Cardinality(A(m)) + 1
    BY <1>1, <2>1, FS_AddElement
  <2>4. Cardinality(A(m) \cup {n}) <= Cardinality(A(n))
    BY <1>1, <2>2, FS_Subset
  <2> QED
    BY <1>1, <2>3, <2>4
<1> HIDE DEF A
<1> QED
  BY <1>1, <1>3, <1>4

LEMMA LinesNext ==
  ASSUME TypeInv, GuestInv, [Next]_vars, NEW c \in Clients, DialogueInv(c), LinesInv(c)
  PROVE  LinesInv(c)'
<1>0. /\ Len(replies[c]) \in Nat /\ taken[c] \in Nat /\ bufferSize[c] \in Nat
      /\ sent[c] \in Nat /\ sent'[c] \in Nat /\ taken[c] <= sent[c] /\ bufferSize[c] <= taken[c]
  <2>1. TypeInv'
    BY TypeInvNext
  <2> QED
    BY <2>1 DEF TypeInv, Types, BufferTypes, DataTypes, SizesInv
<1>2. ASSUME NEW m \in Nat, NEW n \in Nat, m <= n
      PROVE  /\ LFs(script[c], m) \in Nat /\ LFs(script[c], n) \in Nat
             /\ LFs(script[c], m) <= LFs(script[c], n)
             /\ m < n /\ script[c][n] = "LF" => LFs(script[c], m) + 1 <= LFs(script[c], n)
  BY <1>2, LFsGrow
<1>3. taken[c] - bufferSize[c] \in Nat /\ taken[c] - bufferSize[c] <= taken[c]
  BY <1>0
<1>4. /\ script'[c] = script[c] /\ sent[c] <= sent'[c]
      /\ InWholeLines(c)' => InWholeLines(c)
  <2>1. /\ script' = script /\ sent[c] <= sent'[c]
        /\ InWholeLines(c)' => InWholeLines(c)
    BY ClientStep
  <2> QED
    BY <2>1
<1>5. CASE pc'[c] = pc[c] /\ DataSame(c)
  BY <1>0, <1>3, <1>4, <1>5 DEF LinesInv, DataSame
<1>6. CASE pc[c] = "none" /\ pc'[c] \in {"start", "done"} /\ DataSame(c)
  BY <1>0, <1>4, <1>6 DEF LinesInv, DataSame
<1>7. CASE Start(c)
  <2>1. /\ pc[c] = "start" /\ pc'[c] = "loop" /\ replies' = replies /\ taken' = taken
    BY <1>7 DEF Start, Goto, TypeInv, Types, MainTypes
  <2>2. Len(replies[c]) = 0 /\ LFs(script[c], taken[c]) \in Nat
    BY <1>0, <1>2, <2>1 DEF DialogueInv
  <2> QED
    BY <1>4, <2>1, <2>2 DEF LinesInv
<1>8. CASE Respond(c)
  <2>1. taken' = taken /\ pc[c] = "loop" /\ pc'[c] \in {"log", "receive"}
    BY <1>8 DEF Respond, dataVars, Goto, TypeInv, Types, MainTypes
  <2>2. LFs(script[c], taken[c]) \in Nat
    BY <1>0, <1>2
  <2>3. Len(replies'[c]) \in {Len(replies[c]), Len(replies[c]) + 1}
    BY <1>8 DEF Respond, TypeInv, Types, DataTypes
  <2> QED
    BY <1>0, <1>4, <2>1, <2>2, <2>3 DEF LinesInv
<1>9. CASE Receive(c)
  <2>1. /\ replies' = replies /\ taken' = taken
        /\ \/ pc'[c] = "log"
           \/ pc'[c] = "test" /\ taken[c] < sent[c] /\ bufferSize'[c] = 0
    BY <1>9 DEF Receive, Goto, TypeInv, Types, MainTypes, BufferTypes
  <2> QED
    BY <1>0, <1>4, <2>1 DEF LinesInv
<1>10. CASE Test(c)
  <2>1. /\ replies' = replies /\ taken' = taken /\ bufferSize' = bufferSize
        /\ pc[c] = "test" /\ pc'[c] \in {"log", "recv"}
    BY <1>10 DEF Test, Goto, TypeInv, Types, MainTypes, dataVars
  <2>2. taken[c] - bufferSize[c] < sent'[c]
    BY <1>0, <1>4, <2>1 DEF LinesInv
  <2> QED
    BY <1>4, <2>1, <2>2 DEF LinesInv
<1>11. CASE Recv(c)
  <2>1. /\ pc[c] = "recv" /\ pc'[c] \in {"test", "log", "loop"}
        /\ replies'[c] = replies[c] /\ sent'[c] = sent[c]
    BY <1>11, RecvAt
  <2>2. ASSUME NEW n \in Nat \ {0}, NEW b \in Seq(Units), Grows(c, n, b),
               \/ IsReadyToParse(b, bufferSize[c] + n)
               \/ pc'[c] = "test"
        PROVE  LinesInv(c)'
    <3>1. /\ taken'[c] = taken[c] + n /\ bufferSize'[c] = bufferSize[c] + n
          /\ taken'[c] - bufferSize'[c] = taken[c] - bufferSize[c]
          /\ taken[c] <= taken[c] + n /\ taken[c] + n \in Nat
          /\ taken[c] - bufferSize[c] < taken[c] + n
      BY <1>0, <2>2 DEF Grows
    <3>2. LFs(script[c], taken[c]) <= LFs(script[c], taken[c] + n)
      BY <1>0, <1>2, <3>1
    <3>3. /\ LFs(script[c], taken[c] - bufferSize[c]) \in Nat
          /\ LFs(script[c], taken[c] + n) \in Nat /\ LFs(script[c], taken[c]) \in Nat
      BY <1>0, <1>2, <1>3, <3>1
    <3>4. ASSUME pc'[c] # "test"
          PROVE  LFs(script[c], taken[c] - bufferSize[c]) + 1 <= LFs(script[c], taken[c] + n)
      <4>1. b[bufferSize[c] + n] = "LF"
        BY <2>2, <3>4 DEF IsReadyToParse
      <4>2. script[c][taken[c] + n] = "LF"
        BY <2>2, <4>1 DEF Grows
      <4>3. taken[c] - bufferSize[c] <= taken[c] + n
        BY <1>0, <3>1
      <4> QED
        BY <1>2, <1>3, <3>1, <4>2, <4>3
    <3>5. InWholeLines(c)' => Len(replies[c]) <= 1 + LFs(script[c], taken[c] + n)
      BY <1>0, <1>4, <3>2, <3>3 DEF LinesInv
    <3>6. InWholeLines(c)' =>
            Len(replies[c]) <= 1 + LFs(script[c], taken[c] - bufferSize[c])
      BY <1>4, <2>1 DEF LinesInv
    <3>7. CASE pc'[c] = "test"
      <4>1. taken'[c] - bufferSize'[c] < sent'[c]
        BY <1>0, <1>4, <2>1, <3>1 DEF LinesInv
      <4> QED
        BY <1>4, <2>1, <3>1, <3>5, <3>6, <3>7, <4>1 DEF LinesInv
    <3>8. CASE pc'[c] \in {"log", "loop"}
      <4>1. InWholeLines(c)' => Len(replies[c]) <= LFs(script[c], taken[c] + n)
        BY <1>0, <3>3, <3>4, <3>6, <3>8
      <4> QED
        BY <1>4, <2>1, <3>1, <3>5, <3>8, <4>1 DEF LinesInv
    <3> QED
      BY <2>1, <3>7, <3>8
  <2>3. ASSUME taken'[c] = taken[c], bufferSize'[c] = bufferSize[c], pc'[c] = "log"
        PROVE  LinesInv(c)'
    BY <1>4, <2>1, <2>3 DEF LinesInv
  <2>4. ASSUME taken'[c] = taken[c], bufferSize'[c] = bufferSize[c], taken[c] = sent[c],
               c \in hungUp, pc'[c] = "loop"
        PROVE  LinesInv(c)'
    <3>1. /\ taken[c] - bufferSize[c] < taken[c] /\ taken[c] > 0
      BY <1>0, <2>1, <2>4 DEF LinesInv
    <3>2. InWholeLines(c)' => script[c][taken[c]] = "LF"
      BY <1>0, <1>4, <2>4, <3>1 DEF InWholeLines
    <3>3. LFs(script[c], taken[c] - bufferSize[c]) \in Nat /\ LFs(script[c], taken[c]) \in Nat
      BY <1>0, <1>2, <1>3
    <3>4. InWholeLines(c)' =>
            LFs(script[c], taken[c] - bufferSize[c]) + 1 <= LFs(script[c], taken[c])
      BY <1>0, <1>2, <1>3, <3>1, <3>2
    <3>5. InWholeLines(c)' =>
            Len(replies[c]) <= 1 + LFs(script[c], taken[c] - bufferSize[c])
      BY <1>4, <2>1 DEF LinesInv
    <3> QED
      BY <1>0, <1>4, <2>1, <2>4, <3>3, <3>4, <3>5 DEF LinesInv
  <2>5. ASSUME NEW b \in Seq(Units), Parses(c, b)
        PROVE  pc'[c] = "loop"
    BY <2>5 DEF Parses, Goto, TypeInv, Types, MainTypes
  <2>6. buffer[c] \in Seq(Units)
    BY DEF TypeInv, Types, BufferTypes
  <2> QED
    BY <1>11, <2>2, <2>3, <2>4, <2>5, <2>6, RecvAt DEF Turns
<1>12. CASE Log(c) \/ Close(c) \/ DecConnections(c)
  <2>1. /\ pc'[c] \in {"close", "uncount", "done"} /\ replies' = replies /\ taken' = taken
    BY <1>12 DEF Log, Close, DecConnections, Goto, dataVars, TypeInv, Types, MainTypes
  <2> QED
    BY <1>4, <2>1 DEF LinesInv
<1> QED
  BY <1>5, <1>6, <1>7, <1>8, <1>9, <1>10, <1>11, <1>12, StepOf DEF ThreadStep

\* The units of the line that is being received, after a recv.
LEMMA LineGrows ==
  ASSUME TypeInv, NEW c \in Clients, LineInv(c), pc[c] = "recv",
         NEW n \in Nat \ {0}, NEW b \in Seq(Units), Grows(c, n, b)
  PROVE  \A k \in 1..bufferSize[c] + n : b[k] = script[c][taken[c] - bufferSize[c] + k]
<1> SUFFICES ASSUME NEW k \in 1..bufferSize[c] + n
             PROVE  b[k] = script[c][taken[c] - bufferSize[c] + k]
  OBVIOUS
<1>1. taken[c] \in Nat /\ bufferSize[c] \in Nat
  BY DEF TypeInv, Types, BufferTypes
<1>2. CASE k <= bufferSize[c]
  <2>1. k \in 1..bufferSize[c]
    BY <1>1, <1>2
  <2> QED
    BY <2>1 DEF Grows, LineInv
<1>3. CASE k > bufferSize[c]
  <2>1. /\ k - bufferSize[c] \in 1..n /\ bufferSize[c] + (k - bufferSize[c]) = k
        /\ taken[c] + (k - bufferSize[c]) = taken[c] - bufferSize[c] + k
    BY <1>1, <1>3
  <2> DEFINE j == k - bufferSize[c]
  <2>2. b[bufferSize[c] + j] = script[c][taken[c] + j]
    BY <2>1 DEF Grows
  <2> QED
    BY <2>1, <2>2
<1> QED
  BY <1>1, <1>2, <1>3

LEMMA LineNext ==
  ASSUME TypeInv, GuestInv, [Next]_vars, NEW c \in Clients, DialogueInv(c), LinesInv(c),
         LineInv(c)
  PROVE  LineInv(c)'
<1>0. /\ taken[c] \in Nat /\ bufferSize[c] \in Nat
      /\ taken[c] <= sent[c] /\ bufferSize[c] <= taken[c] /\ sent[c] \in Nat
  BY DEF TypeInv, Types, BufferTypes, SizesInv
<1>1. /\ script'[c] = script[c]
      /\ InWholeLines(c)' => InWholeLines(c)
  <2>1. /\ script' = script
        /\ InWholeLines(c)' => InWholeLines(c)
    BY ClientStep
  <2> QED
    BY <2>1
<1>2. CASE pc'[c] = pc[c] /\ DataSame(c)
  BY <1>1, <1>2 DEF LineInv, AtStart, DataSame, IsReadyToParse
<1>3. CASE pc[c] = "none" /\ pc'[c] \in {"start", "done"} /\ DataSame(c)
  BY <1>1, <1>3 DEF LineInv, AtStart, DataSame
<1>4. CASE Start(c) \/ Respond(c)
  <2>1. /\ pc[c] \in {"start", "loop"} /\ pc'[c] \in {"loop", "log", "receive"}
        /\ taken' = taken
    BY <1>4 DEF Start, Respond, dataVars, Goto, TypeInv, Types, MainTypes
  <2> QED
    BY <1>1, <2>1 DEF LineInv, AtStart
<1>5. CASE Receive(c)
  <2>1. /\ taken' = taken /\ pc[c] = "receive"
        /\ pc'[c] = "log" \/ (pc'[c] = "test" /\ bufferSize'[c] = 0)
    BY <1>5 DEF Receive, Goto, TypeInv, Types, MainTypes, BufferTypes
  <2>2. taken[c] - 0 = taken[c] /\ ~(0 >= 2) /\ 1..0 = {}
    BY <1>0
  <2> QED
    BY <1>1, <2>1, <2>2 DEF LineInv, AtStart, IsReadyToParse
<1>6. CASE Test(c)
  <2>1. /\ taken' = taken /\ bufferSize' = bufferSize /\ buffer' = buffer
        /\ pc[c] = "test" /\ pc'[c] \in {"log", "recv"}
    BY <1>6 DEF Test, Goto, TypeInv, Types, MainTypes, dataVars
  <2> QED
    BY <1>1, <2>1 DEF LineInv, AtStart, IsReadyToParse
<1>7. CASE Recv(c)
  <2>1. /\ pc[c] = "recv" /\ pc'[c] \in {"test", "log", "loop"}
    BY <1>7, RecvAt
  <2>2. ASSUME NEW n \in Nat \ {0}, NEW b \in Seq(Units), Grows(c, n, b),
               ~IsReadyToParse(b, bufferSize[c] + n), pc'[c] = "test"
        PROVE  LineInv(c)'
    <3>1. /\ buffer'[c] = b /\ bufferSize'[c] = bufferSize[c] + n
          /\ taken'[c] - bufferSize'[c] = taken[c] - bufferSize[c]
      BY <1>0, <2>2 DEF Grows
    <3>2. \A k \in 1..bufferSize'[c] : buffer'[c][k] = script[c][taken[c] - bufferSize[c] + k]
      BY <2>1, <2>2, <3>1, LineGrows
    <3>3. ~IsReadyToParse(buffer'[c], bufferSize'[c])
      BY <2>2, <3>1
    <3>4. InWholeLines(c)' => AtStart(c, taken[c] - bufferSize[c])
      BY <1>1, <2>1 DEF LineInv
    <3> QED
      BY <1>1, <2>2, <3>1, <3>2, <3>3, <3>4 DEF LineInv, AtStart, IsReadyToParse
  <2>3. ASSUME NEW n \in Nat \ {0}, NEW b \in Seq(Units), Grows(c, n, b),
               IsReadyToParse(b, bufferSize[c] + n), pc'[c] \in {"log", "loop"}
        PROVE  LineInv(c)'
    <3>1. taken'[c] = taken[c] + n /\ script[c][taken[c] + n] = "LF"
      BY <2>3 DEF Grows, IsReadyToParse
    <3> QED
      BY <1>1, <2>3, <3>1 DEF LineInv, AtStart
  <2>4. ASSUME pc'[c] = "log"
        PROVE  LineInv(c)'
    BY <2>4 DEF LineInv
  <2>5. ASSUME taken'[c] = taken[c], taken[c] = sent[c], c \in hungUp, pc'[c] = "loop"
        PROVE  LineInv(c)'
    <3>1. taken[c] > 0
      BY <1>0, <2>1, <2>5 DEF LinesInv
    <3>2. InWholeLines(c)' => script[c][taken[c]] = "LF"
      BY <1>1, <2>5, <3>1 DEF InWholeLines
    <3> QED
      BY <1>1, <2>5, <3>2 DEF LineInv, AtStart
  <2>6. ASSUME NEW b \in Seq(Units), Parses(c, b)
        PROVE  pc'[c] = "loop"
    BY <2>6 DEF Parses, Goto, TypeInv, Types, MainTypes
  <2>7. buffer[c] \in Seq(Units)
    BY DEF TypeInv, Types, BufferTypes
  <2> QED
    BY <1>7, <2>2, <2>3, <2>4, <2>5, <2>6, <2>7, RecvAt DEF Turns
<1>8. CASE Log(c) \/ Close(c) \/ DecConnections(c)
  <2>1. pc'[c] \in {"close", "uncount", "done"}
    BY <1>8 DEF Log, Close, DecConnections, Goto, TypeInv, Types, MainTypes
  <2> QED
    BY <2>1 DEF LineInv
<1> QED
  BY <1>2, <1>3, <1>4, <1>5, <1>6, <1>7, <1>8, StepOf DEF ThreadStep

\* Two pieces of the same units are the same sequence.
LEMMA SamePiece ==
  ASSUME NEW b \in Seq(Units), NEW t \in Seq(Units), NEW m \in Nat, NEW e \in Nat, e >= 2,
         e <= Len(b), m + e <= Len(t), \A k \in 1..e : b[k] = t[m + k]
  PROVE  SubSeq(b, 2, e - 1) = SubSeq(t, m + 2, m + e - 1)
<1> DEFINE p == SubSeq(b, 2, e - 1)
           q == SubSeq(t, m + 2, m + e - 1)
<1>1. p \in Seq(Units) /\ Len(p) = e - 2 /\ \A k \in 1..e - 2 : p[k] = b[k + 1]
  OBVIOUS
<1>2. q \in Seq(Units) /\ Len(q) = e - 2 /\ \A k \in 1..e - 2 : q[k] = t[m + (k + 1)]
  OBVIOUS
<1> HIDE DEF p, q
<1>3. \A k \in 1..Len(p) : p[k] = q[k]
  <2> SUFFICES ASSUME NEW k \in 1..e - 2
               PROVE  p[k] = q[k]
    BY <1>1
  <2>1. k + 1 \in 1..e
    OBVIOUS
  <2> QED
    BY <1>1, <1>2, <2>1
<1>4. p = q
  BY <1>1, <1>2, <1>3, SeqEqual
<1> QED
  BY <1>4 DEF p, q

\* The argument of a line in the buffer stands in the script.
LEMMA ArgumentStands ==
  ASSUME LinesAssumption, script \in Scripts, NEW c \in Clients, NEW b \in Seq(Units),
         NEW m \in Nat, NEW size \in Nat, size <= Len(b), m + size <= Total(c),
         \A k \in 1..size : b[k] = script[c][m + k],
         NEW e, FirstEnd(b, e), e + 1 <= size, NEW verb, b[1] = verb, verb # "CR"
  PROVE  ArgumentIn(script[c], verb, Argument(b, e))
<1> DEFINE t == script[c]
           i == m + 1
           k == m + e
<1>0. t \in Seq(Units) /\ Total(c) = Len(t) /\ Len(t) \in Nat
  BY ScriptType DEF Total
<1>1. e \in Nat /\ 1 <= e /\ b[e] = "CR" /\ e < Len(b)
  BY LineEndType DEF FirstEnd
<1>2. e # 1
  BY <1>1
<1>3. i \in 1..Len(t) /\ k \in i + 1..Len(t)
  BY <1>0, <1>1, <1>2
<1>4. t[i] = verb /\ t[k] = "CR"
  <2>1. 1 \in 1..size /\ e \in 1..size
    BY <1>1
  <2> QED
    BY <1>1, <2>1
<1>5. ASSUME NEW j \in i..k - 1, t[j] = "CR"
      PROVE  FALSE
  <2>1. j - m \in 1..size /\ j - m < e /\ j - m + 1 \in 1..size /\ j - m + 1 <= Len(b)
        /\ m + (j - m) = j /\ m + (j - m + 1) = j + 1 /\ j \in 1..Len(t)
    BY <1>0, <1>1
  <2>2. t[j + 1] = "LF"
    BY <1>5, <2>1 DEF LinesAssumption
  <2> DEFINE h == j - m
  <2>3. b[h] = "CR" /\ b[h + 1] = "LF"
    <3>1. b[h] = t[m + h] /\ b[h + 1] = t[m + (h + 1)]
      BY <2>1
    <3> QED
      BY <1>5, <2>1, <2>2, <3>1
  <2>4. h \in LineEnds(b)
    BY <2>1, <2>3 DEF LineEnds
  <2> QED
    BY <1>1, <2>1, <2>4 DEF FirstEnd
<1>6. Argument(b, e) = SubSeq(t, i + 1, k - 1)
  <2>1. e >= 2 /\ e <= Len(b) /\ m + e <= Len(t) /\ \A l \in 1..e : b[l] = t[m + l]
    BY <1>0, <1>1, <1>2
  <2>2. SubSeq(b, 2, e - 1) = SubSeq(t, m + 2, m + e - 1)
    BY <1>0, <1>1, <2>1, SamePiece
  <2>3. i + 1 = m + 2 /\ k - 1 = m + e - 1
    BY <1>1
  <2> QED
    BY <2>2, <2>3 DEF Argument
<1> HIDE DEF i, k, t
<1> QED
  BY <1>3, <1>4, <1>5, <1>6 DEF ArgumentIn, t

\* What parseCommand keeps of a buffer that is ready to parse.
LEMMA KeptWasSent ==
  ASSUME LinesAssumption, TypeInv, NEW c \in Clients, NEW b \in Seq(Units),
         NEW m \in Nat, NEW size \in Nat, size <= Len(b), m + size <= Total(c),
         \A k \in 1..size : b[k] = script[c][m + k],
         IsReadyToParse(b, size), ParseCommand(c, b),
         ArgumentIn(script[c], "USER", login[c]), ArgumentIn(script[c], "PASS", password[c])
  PROVE  /\ ArgumentIn(script[c], "USER", login'[c])
         /\ ArgumentIn(script[c], "PASS", password'[c])
<1>1. CASE UNCHANGED <<state, login, password>>
  BY <1>1
<1>2. ASSUME NEW e \in LineEnds(b), FirstEnd(b, e), NEW verb, b[1] = verb, verb # "CR"
      PROVE  ArgumentIn(script[c], verb, Argument(b, e))
  <2>1. size - 1 \in LineEnds(b)
    BY DEF IsReadyToParse, LineEnds
  <2>2. e \in Nat /\ e <= size - 1
    BY <1>2, <2>1, LineEndType DEF FirstEnd
  <2>3. e + 1 <= size
    BY <2>2
  <2> QED
    BY <1>2, <2>3, ArgumentStands DEF TypeInv, Types, MainTypes
<1>3. ASSUME NEW e \in LineEnds(b), FirstEnd(b, e), b[1] = "USER",
             login' = [login EXCEPT ![c] = Argument(b, e)], password' = password
      PROVE  /\ ArgumentIn(script[c], "USER", login'[c])
             /\ ArgumentIn(script[c], "PASS", password'[c])
  <2>1. ArgumentIn(script[c], "USER", Argument(b, e))
    BY <1>2, <1>3
  <2>2. login'[c] = Argument(b, e)
    BY <1>3 DEF TypeInv, Types, DataTypes
  <2> QED
    BY <1>3, <2>1, <2>2
<1>4. ASSUME NEW e \in LineEnds(b), FirstEnd(b, e), b[1] = "PASS",
             password' = [password EXCEPT ![c] = Argument(b, e)], login' = login
      PROVE  /\ ArgumentIn(script[c], "USER", login'[c])
             /\ ArgumentIn(script[c], "PASS", password'[c])
  <2>1. ArgumentIn(script[c], "PASS", Argument(b, e))
    BY <1>2, <1>4
  <2>2. password'[c] = Argument(b, e)
    BY <1>4 DEF TypeInv, Types, DataTypes
  <2> QED
    BY <1>4, <2>1, <2>2
<1>5. CASE UNCHANGED <<login, password>>
  BY <1>5
<1> HIDE DEF Argument
<1> QED
  BY <1>1, <1>3, <1>4, <1>5, Parsed, Zenon

LEMMA LogNext ==
  ASSUME LinesAssumption, TypeInv, GuestInv, [Next]_vars, NEW c \in Clients, LinesInv(c),
         LineInv(c), LogInv(c)
  PROVE  LogInv(c)'
<1>0. /\ taken[c] \in Nat /\ bufferSize[c] \in Nat /\ script[c] \in Seq(Units)
      /\ taken[c] <= sent[c] /\ bufferSize[c] <= taken[c] /\ sent[c] \in Nat
      /\ sent[c] <= Total(c) /\ Total(c) \in Nat /\ Total(c) = Len(script[c])
      /\ buffer[c] \in Seq(Units) /\ bufferSize[c] <= Len(buffer[c])
  BY ScriptType DEF TypeInv, Types, MainTypes, BufferTypes, SizesInv, Total
<1>1. /\ script'[c] = script[c]
      /\ InWholeLines(c)' => InWholeLines(c)
  <2>1. /\ script' = script
        /\ InWholeLines(c)' => InWholeLines(c)
    BY ClientStep
  <2> QED
    BY <2>1
<1> SUFFICES ASSUME InWholeLines(c), InWholeLines(c)'
             PROVE  LogInv(c)'
  BY <1>1 DEF LogInv
<1>2. /\ ArgumentIn(script[c], "USER", login[c])
      /\ ArgumentIn(script[c], "PASS", password[c])
      /\ ArgumentIn(script[c], "USER", logged[c].login)
      /\ ArgumentIn(script[c], "PASS", logged[c].password)
  BY DEF LogInv
<1>3. ASSUME /\ ArgumentIn(script[c], "USER", login'[c])
             /\ ArgumentIn(script[c], "PASS", password'[c])
             /\ ArgumentIn(script[c], "USER", logged'[c].login)
             /\ ArgumentIn(script[c], "PASS", logged'[c].password)
      PROVE  LogInv(c)'
  BY <1>1, <1>3, Zenon DEF LogInv
<1>4. CASE DataSame(c)
  BY <1>2, <1>3, <1>4 DEF DataSame
<1>5. CASE Start(c) \/ Respond(c) \/ Receive(c) \/ Test(c) \/ Close(c) \/ DecConnections(c)
  <2>1. UNCHANGED <<login, password, logged>>
    BY <1>5 DEF Start, Respond, Receive, Test, Close, DecConnections, dataVars
  <2> QED
    BY <1>2, <1>3, <2>1
<1>6. CASE Log(c)
  <2>1. /\ logged'[c].login = login[c] /\ logged'[c].password = password[c]
        /\ UNCHANGED <<login, password>>
    BY <1>6 DEF Log, dataVars, TypeInv, Types, DataTypes
  <2> QED
    BY <1>2, <1>3, <2>1
<1>7. CASE Recv(c)
  <2>1. pc[c] = "recv" /\ logged'[c] = logged[c]
    BY <1>7, RecvAt
  <2>2. CASE login'[c] = login[c] /\ password'[c] = password[c]
    BY <1>2, <1>3, <2>1, <2>2
  <2>3. ASSUME NEW n \in Nat \ {0}, NEW b \in Seq(Units), Grows(c, n, b),
               IsReadyToParse(b, bufferSize[c] + n), ParseCommand(c, b)
        PROVE  LogInv(c)'
    <3> DEFINE m == taken[c] - bufferSize[c]
               size == bufferSize[c] + n
    <3>1. m \in Nat /\ size \in Nat /\ size <= Len(b) /\ m + size <= Total(c)
      <4>1. taken[c] + n <= sent[c] /\ size <= Len(b)
        BY <2>3, Zenon DEF Grows
      <4>2. m \in Nat /\ size \in Nat /\ m + size = taken[c] + n
        BY <1>0
      <4>3. taken[c] + n <= Total(c)
        BY <1>0, <4>1
      <4> QED
        BY <4>1, <4>2, <4>3
    <3>2. \A k \in 1..size : b[k] = script[c][m + k]
      BY <2>1, <2>3, LineGrows
    <3>3. IsReadyToParse(b, size)
      BY <2>3
    <3> HIDE DEF m, size
    <3>4. /\ ArgumentIn(script[c], "USER", login'[c])
          /\ ArgumentIn(script[c], "PASS", password'[c])
      BY <1>2, <2>3, <3>1, <3>2, <3>3, KeptWasSent
    <3> QED
      BY <1>2, <1>3, <2>1, <3>4
  <2>4. ASSUME taken[c] = sent[c], c \in hungUp
        PROVE  FALSE
    <3>1. /\ taken[c] - bufferSize[c] < taken[c] /\ bufferSize[c] \in 1..bufferSize[c]
          /\ taken[c] > 0 /\ taken[c] \in 1..Len(script[c])
      BY <1>0, <2>1, <2>4 DEF LinesInv
    <3>2. script[c][taken[c]] = "LF"
      BY <2>4, <3>1 DEF InWholeLines
    <3>3. taken[c] > 1 /\ script[c][taken[c] - 1] = "CR"
      BY <3>1, <3>2 DEF LinesAssumption, TypeInv, Types, MainTypes
    <3>4. CASE bufferSize[c] = 1
      <4>1. AtStart(c, taken[c] - 1)
        BY <2>1, <3>4 DEF LineInv
      <4> QED
        BY <1>0, <3>3, <4>1 DEF AtStart
    <3>5. CASE bufferSize[c] >= 2
      <4>1. /\ bufferSize[c] - 1 \in 1..bufferSize[c]
            /\ taken[c] - bufferSize[c] + bufferSize[c] = taken[c]
            /\ taken[c] - bufferSize[c] + (bufferSize[c] - 1) = taken[c] - 1
        BY <1>0, <3>5
      <4> DEFINE l == bufferSize[c] - 1
      <4>2. /\ buffer[c][bufferSize[c]] = script[c][taken[c] - bufferSize[c] + bufferSize[c]]
            /\ buffer[c][l] = script[c][taken[c] - bufferSize[c] + l]
        BY <2>1, <3>1, <4>1 DEF LineInv
      <4>3. buffer[c][bufferSize[c]] = "LF" /\ buffer[c][bufferSize[c] - 1] = "CR"
        BY <3>2, <3>3, <4>1, <4>2
      <4> QED
        BY <2>1, <3>5, <4>3 DEF LineInv, IsReadyToParse
    <3> QED
      BY <1>0, <3>1, <3>4, <3>5
  <2> QED
    BY <1>7, <2>2, <2>3, <2>4, RecvAt DEF Turns, Parses
<1> QED
  BY <1>4, <1>5, <1>6, <1>7, StepOf DEF ThreadStep

-----------------------------------------------------------------------------
(* run, its sockets and the counter.                                       *)

\* A thread's step seen from run.
LEMMA ThreadPlaces ==
  ASSUME TypeInv, NEW c \in Clients, ThreadStep(c)
  PROVE  /\ UNCHANGED <<main, guest, backlog>>
         /\ pc[c] \notin {"none", "done"} /\ pc'[c] # "none"
         /\ \/ pc[c] = "uncount" /\ pc'[c] = "done" /\ connections' = connections - 1
            \/ pc'[c] # "done" /\ connections' = connections
         /\ \/ open' = open /\ (pc[c] \in Busy <=> pc'[c] \in Busy)
            \/ open' = open \ {c} /\ pc[c] = "close" /\ pc'[c] = "uncount"
<1> USE DEF TypeInv, Types, MainTypes, Goto, Shared, mainVars, Busy
<1>1. CASE Start(c)
  BY <1>1 DEF Start
<1>2. CASE Respond(c)
  BY <1>2 DEF Respond
<1>3. CASE Receive(c)
  BY <1>3 DEF Receive
<1>4. CASE Test(c)
  BY <1>4 DEF Test
<1>5. CASE Recv(c)
  <2>1. pc[c] = "recv" /\ pc'[c] \in {"test", "log", "loop"}
    BY <1>5, RecvAt
  <2>2. UNCHANGED <<main, guest, backlog, connections, open>>
    BY <1>5 DEF Recv
  <2> QED
    BY <2>1, <2>2
<1>6. CASE Log(c)
  BY <1>6 DEF Log
<1>7. CASE Close(c)
  BY <1>7 DEF Close
<1>8. CASE DecConnections(c)
  BY <1>8 DEF DecConnections
<1> QED
  BY <1>1, <1>2, <1>3, <1>4, <1>5, <1>6, <1>7, <1>8 DEF ThreadStep

\* What run, the clients and the signal do to the places of the threads.
LEMMA OtherSteps ==
  ASSUME TypeInv, [Next]_vars
  PROVE  \/ IncConnections \/ Refuse \/ Accept
         \/ Uncount /\ UNCHANGED <<pc, open, backlog>>
         \/ Loop /\ UNCHANGED <<pc, open, guest, backlog, connections>>
         \/ Join /\ UNCHANGED <<pc, open, guest, backlog, connections>>
         \/ \E c \in Clients : Connect(c)
         \/ UNCHANGED <<main, pc, open, guest, backlog, connections>>
         \/ \E c \in Clients : ThreadStep(c)
BY DEF Next, vars, mainVars, clientVars, Shared, SignalHandler, Loop, Join, Uncount, Send,
       HangUp, ThreadStep

LEMMA GuestNext ==
  ASSUME TypeInv, GuestInv, [Next]_vars, \A c \in Clients : SocketInv(c)
  PROVE  GuestInv'
<1> USE DEF GuestInv
<1>0. /\ backlog \in Seq(Clients) /\ pc \in [Clients -> Labels] /\ Len(backlog) \in Nat
      /\ \A i \in 1..Len(backlog) : backlog[i] \in Clients
  BY DEF TypeInv, Types, MainTypes
<1>1. CASE IncConnections
  <2>1. /\ main = "count" /\ UNCHANGED <<backlog, open>>
        /\ \/ main' = "refuse" /\ UNCHANGED <<guest, pc>>
           \/ main' = "loop" /\ pc' = [pc EXCEPT ![guest] = "start"] /\ guest' = Nobody
    BY <1>1 DEF IncConnections
  <2>2. ASSUME NEW i \in 1..Len(backlog)
        PROVE  pc'[backlog[i]] = "none"
    BY <1>0, <2>1
  <2> QED
    BY <2>1, <2>2
<1>2. CASE Refuse
  <2>1. /\ main = "refuse" /\ main' = "uncount" /\ UNCHANGED <<backlog, guest>>
        /\ open' = open \ {guest} /\ pc' = [pc EXCEPT ![guest] = "done"]
    BY <1>2 DEF Refuse
  <2>2. ASSUME NEW i \in 1..Len(backlog)
        PROVE  pc'[backlog[i]] = "none" /\ backlog[i] \notin open'
    BY <1>0, <2>1
  <2>3. pc'[guest] = "done" /\ guest \in Clients
    BY <1>0, <2>1
  <2> QED
    BY <2>1, <2>2, <2>3
<1>3. CASE Accept
  <2>1. /\ main = "select" /\ main' = "count" /\ backlog # <<>> /\ pc' = pc
        /\ guest' = Head(backlog) /\ backlog' = Tail(backlog)
        /\ open' = open \cup {Head(backlog)}
    BY <1>3 DEF Accept
  <2>2. /\ Head(backlog) = backlog[1] /\ 1 \in 1..Len(backlog)
        /\ Len(backlog') = Len(backlog) - 1
        /\ \A i \in 1..Len(backlog') : /\ backlog'[i] = backlog[i + 1]
                                       /\ i + 1 \in 1..Len(backlog) /\ i + 1 # 1
    BY <1>0, <2>1
  <2>3. guest' \in Clients /\ pc'[guest'] = "none" /\ guest' \in open'
    BY <1>0, <2>1, <2>2
  <2>4. ASSUME NEW i \in 1..Len(backlog')
        PROVE  pc'[backlog'[i]] = "none" /\ backlog'[i] \notin open'
    <3>1. backlog[i + 1] # backlog[1]
      BY <2>2
    <3> QED
      BY <2>1, <2>2, <3>1
  <2>5. ASSUME NEW i \in 1..Len(backlog'), NEW j \in 1..Len(backlog'), i # j
        PROVE  backlog'[i] # backlog'[j]
    <3>1. i + 1 # j + 1
      BY <2>5
    <3> QED
      BY <2>2, <3>1
  <2> QED
    BY <2>1, <2>3, <2>4, <2>5
<1>4. CASE Uncount /\ UNCHANGED <<pc, open, backlog>>
  BY <1>4 DEF Uncount
<1>5. CASE Loop /\ UNCHANGED <<pc, open, guest, backlog, connections>>
  BY <1>5 DEF Loop
<1>6. CASE Join /\ UNCHANGED <<pc, open, guest, backlog, connections>>
  BY <1>6 DEF Join
<1>7. ASSUME NEW c \in Clients, Connect(c)
      PROVE  GuestInv'
  <2>1. /\ pc[c] = "none" /\ c \notin open /\ \A i \in 1..Len(backlog) : backlog[i] # c
        /\ backlog' = Append(backlog, c) /\ UNCHANGED <<main, guest, open, pc>>
    BY <1>0, <1>7 DEF Connect, Connected
  <2>2. /\ Len(backlog') = Len(backlog) + 1 /\ backlog'[Len(backlog')] = c
        /\ \A i \in 1..Len(backlog') : i # Len(backlog') =>
             i \in 1..Len(backlog) /\ backlog'[i] = backlog[i]
    BY <1>0, <2>1
  <2>3. \A i \in 1..Len(backlog') : pc'[backlog'[i]] = "none" /\ backlog'[i] \notin open'
    BY <2>1, <2>2
  <2>4. \A i, j \in 1..Len(backlog') : i # j => backlog'[i] # backlog'[j]
    BY <2>1, <2>2
  <2> QED
    BY <2>1, <2>3, <2>4
<1>8. CASE UNCHANGED <<main, pc, open, guest, backlog, connections>>
  BY <1>8
<1>9. ASSUME NEW c \in Clients, ThreadStep(c)
      PROVE  GuestInv'
  <2>1. /\ UNCHANGED <<main, guest, backlog>> /\ pc[c] \notin {"none", "done"}
        /\ open' = open \/ open' = open \ {c}
    BY <1>9, ThreadPlaces
  <2>2. \A d \in Clients : d # c => pc'[d] = pc[d]
    BY <1>9, OtherThreads
  <2>3. \A i \in 1..Len(backlog) : pc'[backlog[i]] = "none" /\ backlog[i] \notin open'
    BY <1>0, <2>1, <2>2
  <2>4. /\ main \in {"count", "refuse"} => pc'[guest] = "none" /\ guest \in open'
        /\ main = "uncount" => pc'[guest] = "done"
    BY <2>1, <2>2
  <2> QED
    BY <2>1, <2>3, <2>4
<1> QED
  BY <1>1, <1>2, <1>3, <1>4, <1>5, <1>6, <1>7, <1>8, <1>9, OtherSteps

LEMMA SocketNext ==
  ASSUME TypeInv, GuestInv, [Next]_vars, NEW c \in Clients, SocketInv(c)
  PROVE  SocketInv(c)'
<1>0. pc \in [Clients -> Labels] /\ guest \in Clients \cup {Nobody}
  BY DEF TypeInv, Types, MainTypes
<1>1. CASE ThreadStep(c)
  <2>1. /\ UNCHANGED <<main, guest>> /\ pc[c] \notin {"none", "done"} /\ pc'[c] # "none"
        /\ \/ open' = open /\ (pc[c] \in Busy <=> pc'[c] \in Busy)
           \/ open' = open \ {c} /\ pc[c] = "close" /\ pc'[c] = "uncount"
    BY <1>1, ThreadPlaces
  <2>2. main \in {"count", "refuse"} => guest # c
    BY <2>1 DEF GuestInv
  <2>3. c \in open' <=> pc'[c] \in Busy \/ (main' \in {"count", "refuse"} /\ c = guest')
    BY <2>1, <2>2 DEF SocketInv, Busy
  <2>4. main' # "over"
    BY <2>1 DEF SocketInv
  <2>5. pc'[c] \in {"close", "uncount", "done"} /\ address'[c] # Nobody =>
          logged'[c].address = address'[c]
    <3>1. CASE Log(c)
      BY <3>1 DEF Log, dataVars, TypeInv, Types, DataTypes
    <3>2. CASE Close(c) \/ DecConnections(c)
      BY <3>2 DEF Close, DecConnections, dataVars, SocketInv
    <3>3. CASE Start(c) \/ Respond(c) \/ Receive(c) \/ Test(c)
      <4>1. pc'[c] \in {"loop", "log", "receive", "test", "recv"}
        BY <1>0, <3>3 DEF Start, Respond, Receive, Test, Goto
      <4> QED
        BY <4>1
    <3>4. CASE Recv(c)
      <4>1. pc'[c] \in {"test", "log", "loop"}
        BY <3>4, RecvAt
      <4> QED
        BY <4>1
    <3> QED
      BY <1>1, <3>1, <3>2, <3>3, <3>4 DEF ThreadStep
  <2> QED
    BY <2>1, <2>3, <2>4, <2>5 DEF SocketInv
<1>2. ASSUME NEW d \in Clients, ThreadStep(d), d # c
      PROVE  SocketInv(c)'
  <2>1. pc'[c] = pc[c] /\ DataSame(c)
    BY <1>2, OtherThreads
  <2>2. UNCHANGED <<main, guest>> /\ (c \in open' <=> c \in open)
    BY <1>2, ThreadPlaces
  <2> QED
    BY <2>1, <2>2 DEF SocketInv, DataSame
<1>3. CASE ~\E d \in Clients : ThreadStep(d)
  <2>1. DataSame(c)
    BY <1>1, <1>3, StepOf DEF DataSame
  <2>2. CASE IncConnections
    <3>1. /\ main = "count" /\ open' = open
          /\ \/ main' = "refuse" /\ UNCHANGED <<guest, pc>>
             \/ main' = "loop" /\ pc' = [pc EXCEPT ![guest] = "start"]
      BY <2>2 DEF IncConnections
    <3>2. CASE main' = "refuse" /\ UNCHANGED <<guest, pc>>
      BY <2>1, <3>1, <3>2 DEF SocketInv, DataSame
    <3>3. CASE main' = "loop" /\ pc' = [pc EXCEPT ![guest] = "start"]
      <4>1. pc'[c] = IF c = guest THEN "start" ELSE pc[c]
        BY <1>0, <3>3
      <4>2. pc[guest] = "none" /\ guest \in open
        BY <3>1 DEF GuestInv
      <4> QED
        BY <2>1, <3>1, <3>3, <4>1, <4>2 DEF SocketInv, DataSame, Busy
    <3> QED
      BY <3>1, <3>2, <3>3
  <2>3. CASE Refuse
    <3>1. /\ main = "refuse" /\ main' = "uncount" /\ guest' = guest
          /\ open' = open \ {guest} /\ pc' = [pc EXCEPT ![guest] = "done"]
          /\ pc[guest] = "none"
      BY <2>3 DEF Refuse, GuestInv
    <3>2. pc'[c] = IF c = guest THEN "done" ELSE pc[c]
      BY <1>0, <3>1
    <3> QED
      BY <2>1, <3>1, <3>2 DEF SocketInv, DataSame, Busy
  <2>4. CASE Accept
    <3>1. /\ main = "select" /\ main' = "count" /\ pc' = pc
          /\ guest' = Head(backlog) /\ open' = open \cup {Head(backlog)}
      BY <2>4 DEF Accept
    <3> QED
      BY <2>1, <3>1 DEF SocketInv, DataSame
  <2>5. CASE Uncount /\ UNCHANGED <<pc, open, backlog>>
    <3>1. main = "uncount" /\ main' = "loop" /\ UNCHANGED <<pc, open>>
      BY <2>5 DEF Uncount
    <3> QED
      BY <2>1, <3>1 DEF SocketInv, DataSame
  <2>6. CASE Loop /\ UNCHANGED <<pc, open, guest, backlog, connections>>
    <3>1. main \in {"loop", "select"} /\ main' \in {"select", "join"}
      BY <2>6 DEF Loop
    <3> QED
      BY <2>1, <2>6, <3>1 DEF SocketInv, DataSame
  <2>7. CASE Join /\ UNCHANGED <<pc, open, guest, backlog, connections>>
    <3>1. main = "join" /\ main' = "over" /\ pc[c] \in {"none", "done"}
      BY <2>7 DEF Join
    <3> QED
      BY <2>1, <2>7, <3>1 DEF SocketInv, DataSame
  <2>8. ASSUME NEW d \in Clients, Connect(d)
        PROVE  SocketInv(c)'
    <3>1. UNCHANGED <<main, guest, open, pc>>
      BY <2>8 DEF Connect
    <3> QED
      BY <2>1, <3>1 DEF SocketInv, DataSame
  <2>9. CASE UNCHANGED <<main, pc, open, guest, backlog, connections>>
    BY <2>1, <2>9 DEF SocketInv, DataSame
  <2> QED
    BY <1>3, <2>2, <2>3, <2>4, <2>5, <2>6, <2>7, <2>8, <2>9, OtherSteps
<1> QED
  BY <1>1, <1>2, <1>3

LEMMA ServedFinite == IsFiniteSet(Served) /\ Cardinality(Served) \in Nat
<1>1. Served \subseteq Clients /\ IsFiniteSet(Clients)
  BY ServerAssumption DEF Served
<1>2. IsFiniteSet(Served)
  BY <1>1, FS_Subset
<1> QED
  BY <1>2, FS_CardinalityType

\* The counter and run's limit when main is about to count its guest.
LEMMA CountNext ==
  ASSUME TypeInv, GuestInv, [Next]_vars, \A c \in Clients : SocketInv(c), AtMostMaxClients
  PROVE  AtMostMaxClients'
<1> DEFINE extra == IF main \in {"refuse", "uncount"} THEN 1 ELSE 0
           n == Cardinality(Served)
<1>0. /\ connections \in Int /\ MaxClients \in Nat /\ n \in Nat /\ IsFiniteSet(Served)
      /\ n <= MaxClients /\ connections = n + extra
      /\ pc \in [Clients -> Labels]
  BY ServedFinite, ServerAssumption DEF AtMostMaxClients, TypeInv, Types, MainTypes
<1>1. ASSUME Served' = Served, connections' = connections,
             main' \in {"refuse", "uncount"} <=> main \in {"refuse", "uncount"}
      PROVE  AtMostMaxClients'
  BY <1>1 DEF AtMostMaxClients
<1>2. CASE IncConnections
  <2>1. main = "count" /\ guest \in Clients /\ pc[guest] = "none" /\ guest \notin Served
    BY <1>2 DEF IncConnections, GuestInv, Served
  <2>2. connections' = connections + 1 /\ connections = n
    BY <1>0, <1>2, <2>1 DEF IncConnections, Counted
  <2>3. CASE Full(connections)
    <3>1. main' = "refuse" /\ pc' = pc
      BY <1>2, <2>3 DEF IncConnections
    <3>2. Served' = Served
      BY <3>1 DEF Served
    <3> QED
      BY <1>0, <2>2, <3>1, <3>2 DEF AtMostMaxClients
  <2>4. CASE ~Full(connections)
    <3>1. main' = "loop" /\ pc' = [pc EXCEPT ![guest] = "start"]
      BY <1>2, <2>4 DEF IncConnections
    <3>2. Served' = Served \cup {guest}
      BY <1>0, <2>1, <3>1 DEF Served
    <3>3. Cardinality(Served') = n + 1
      BY <1>0, <2>1, <3>2, FS_AddElement
    <3>4. n + 1 <= MaxClients
      BY <1>0, <2>2, <2>4 DEF Full
    <3> QED
      BY <1>0, <2>2, <3>1, <3>3, <3>4 DEF AtMostMaxClients
  <2> QED
    BY <2>3, <2>4
<1>3. CASE Refuse
  <2>1. /\ main = "refuse" /\ main' = "uncount" /\ connections' = connections
        /\ pc' = [pc EXCEPT ![guest] = "done"] /\ pc[guest] = "none"
    BY <1>3 DEF Refuse, GuestInv
  <2>2. Served' = Served
    BY <1>0, <2>1 DEF Served
  <2> QED
    BY <1>1, <2>1, <2>2
<1>4. CASE Accept
  BY <1>1, <1>4 DEF Accept, Served
<1>5. CASE Uncount /\ UNCHANGED <<pc, open, backlog>>
  <2>1. main = "uncount" /\ main' = "loop" /\ connections' = connections - 1
    BY <1>5 DEF Uncount, Uncounted
  <2>2. Served' = Served
    BY <1>5 DEF Served
  <2> QED
    BY <1>0, <2>1, <2>2 DEF AtMostMaxClients
<1>6. CASE Loop /\ UNCHANGED <<pc, open, guest, backlog, connections>>
  BY <1>1, <1>6 DEF Loop, Served
<1>7. CASE Join /\ UNCHANGED <<pc, open, guest, backlog, connections>>
  BY <1>1, <1>7 DEF Join, Served
<1>8. ASSUME NEW c \in Clients, Connect(c)
      PROVE  AtMostMaxClients'
  BY <1>1, <1>8 DEF Connect, Served
<1>9. CASE UNCHANGED <<main, pc, open, guest, backlog, connections>>
  BY <1>1, <1>9 DEF Served
<1>10. ASSUME NEW c \in Clients, ThreadStep(c)
       PROVE  AtMostMaxClients'
  <2>1. /\ main' = main /\ pc[c] \notin {"none", "done"} /\ pc'[c] # "none"
        /\ \/ pc'[c] = "done" /\ connections' = connections - 1
           \/ pc'[c] # "done" /\ connections' = connections
    BY <1>10, ThreadPlaces
  <2>2. \A d \in Clients : d # c => pc'[d] = pc[d]
    BY <1>10, OtherThreads
  <2>3. CASE pc'[c] # "done"
    <3>1. Served' = Served
      BY <2>1, <2>2, <2>3 DEF Served
    <3> QED
      BY <1>1, <2>1, <2>3, <3>1
  <2>4. CASE pc'[c] = "done" /\ connections' = connections - 1
    <3>1. Served' = Served \ {c} /\ c \in Served
      BY <2>1, <2>2, <2>4 DEF Served
    <3>2. Cardinality(Served') = n - 1
      BY <1>0, <3>1, FS_RemoveElement
    <3> QED
      BY <1>0, <2>1, <2>4, <3>2 DEF AtMostMaxClients
  <2> QED
    BY <2>1, <2>3, <2>4
<1> QED
  BY <1>2, <1>3, <1>4, <1>5, <1>6, <1>7, <1>8, <1>9, <1>10, OtherSteps

-----------------------------------------------------------------------------
(* The theorems.                                                           *)

ClientInv(c) == DialogueInv(c) /\ LinesInv(c) /\ LineInv(c) /\ SocketInv(c)

FtpInv == TypeInv /\ GuestInv /\ AtMostMaxClients /\ \A c \in Clients : ClientInv(c)

LEMMA FtpInvInit == Init => FtpInv
<1> SUFFICES ASSUME Init
             PROVE  FtpInv
  OBVIOUS
<1>1. TypeInv
  BY TypeInvInit
<1>2. GuestInv
  BY DEF Init, GuestInv
<1>3. AtMostMaxClients
  <2>1. Served = {}
    BY DEF Init, Served
  <2>2. Cardinality(Served) = 0
    BY <2>1, FS_EmptySet
  <2> QED
    BY <2>2, ServerAssumption DEF Init, AtMostMaxClients
<1>4. ASSUME NEW c \in Clients
      PROVE  ClientInv(c)
  <2>1. DialogueInv(c)
    BY DEF Init, DialogueInv
  <2>2. LinesInv(c)
    <3>1. LFs(script[c], 0) \in Nat
      BY LFsGrow
    <3> QED
      BY <3>1 DEF Init, LinesInv
  <2>3. LineInv(c)
    BY DEF Init, LineInv, AtStart
  <2>4. SocketInv(c)
    BY DEF Init, SocketInv, Busy
  <2> QED
    BY <2>1, <2>2, <2>3, <2>4 DEF ClientInv
<1> QED
  BY <1>1, <1>2, <1>3, <1>4 DEF FtpInv

LEMMA FtpInvNext == FtpInv /\ [Next]_vars => FtpInv'
<1> SUFFICES ASSUME FtpInv, [Next]_vars
             PROVE  FtpInv'
  OBVIOUS
<1>1. TypeInv /\ GuestInv /\ AtMostMaxClients
  BY DEF FtpInv
<1>2. \A c \in Clients : SocketInv(c)
  BY DEF FtpInv, ClientInv
<1>3. TypeInv'
  BY <1>1, TypeInvNext
<1>4. GuestInv' /\ AtMostMaxClients'
  BY <1>1, <1>2, GuestNext, CountNext
<1>5. ASSUME NEW c \in Clients
      PROVE  ClientInv(c)'
  <2>1. DialogueInv(c) /\ LinesInv(c) /\ LineInv(c) /\ SocketInv(c)
    BY DEF FtpInv, ClientInv
  <2>2. DialogueInv(c)' /\ LinesInv(c)'
    BY <1>1, <2>1, DialogueNext, LinesNext
  <2>3. LineInv(c)' /\ SocketInv(c)'
    BY <1>1, <2>1, LineNext, SocketNext
  <2> QED
    BY <2>2, <2>3 DEF ClientInv
<1> QED
  BY <1>3, <1>4, <1>5 DEF FtpInv

LEMMA FtpInvariant == Spec => []FtpInv
<1> QED
  BY FtpInvInit, FtpInvNext, PTL DEF Spec

\* The fields of the server and of its connections have the types of the code, and
\* the counter never exceeds the number of the clients.
THEOREM FieldTypes == Spec => []TypeOK
<1>1. FtpInv => TypeOK
  <2> SUFFICES ASSUME FtpInv
               PROVE  TypeOK
    OBVIOUS
  <2>1. MainTypes /\ BufferTypes /\ DataTypes
    BY DEF FtpInv, TypeInv, Types
  <2>2. connections \in 0..Cardinality(Clients)
    <3> DEFINE n == Cardinality(Served)
    <3>1. /\ n \in Nat /\ IsFiniteSet(Served) /\ Cardinality(Clients) \in Nat
          /\ connections = n + IF main \in {"refuse", "uncount"} THEN 1 ELSE 0
      BY ServedFinite, FS_CardinalityType, ServerAssumption DEF FtpInv, AtMostMaxClients
    <3>2. CASE main \notin {"refuse", "uncount"}
      <4>1. n <= Cardinality(Clients)
        BY FS_Subset, ServerAssumption DEF Served
      <4> QED
        BY <3>1, <3>2, <4>1
    <3>3. CASE main \in {"refuse", "uncount"}
      <4>1. guest \in Clients /\ guest \notin Served
        BY <3>3 DEF FtpInv, GuestInv, Served
      <4>2. Served \cup {guest} \subseteq Clients
        BY <4>1 DEF Served
      <4> HIDE DEF n
      <4>3. Cardinality(Served \cup {guest}) = n + 1
        BY <3>1, <4>1, FS_AddElement DEF n
      <4>4. n + 1 <= Cardinality(Clients)
        BY <4>2, <4>3, FS_Subset, ServerAssumption
      <4> QED
        BY <3>1, <3>3, <4>4
    <3> QED
      BY <3>2, <3>3
  <2>3. ASSUME NEW c \in Clients
        PROVE  /\ sent[c] \in 0..Total(c) /\ taken[c] \in 0..sent[c]
               /\ bufferSize[c] \in 0..Len(buffer[c])
               /\ address[c] \in Clients \cup {Nobody}
               /\ login[c] \in Seq(Units) /\ password[c] \in Seq(Units)
               /\ replies[c] \in Seq({220, 331, 530})
    <3>1. SizesInv(c) /\ Total(c) \in Nat /\ Len(buffer[c]) \in Nat
      BY <2>1, ScriptType DEF FtpInv, TypeInv, MainTypes, BufferTypes
    <3>2. sent[c] \in 0..Total(c) /\ taken[c] \in 0..sent[c] /\ bufferSize[c] \in 0..Len(buffer[c])
      BY <2>1, <3>1 DEF BufferTypes, SizesInv
    <3> QED
      BY <2>1, <3>2 DEF DataTypes, Codes
  <2> QED
    BY <2>1, <2>2, <2>3 DEF TypeOK, MainTypes, DataTypes, Labels
<1> QED
  BY <1>1, FtpInvariant, PTL

\* run, closeConnection: never more connections are served than allowed, and the
\* counter is theirs, plus one while a client is being turned away.
THEOREM ServesAtMostMaxClients == Spec => []AtMostMaxClients
<1>1. FtpInv => AtMostMaxClients
  BY DEF FtpInv
<1> QED
  BY <1>1, FtpInvariant, PTL

\* run: a client is turned away only when all the places are taken.
THEOREM TurnsAwayOnlyWhenFull == Spec => RefusedOnlyWhenFull
<1>1. FtpInv /\ [Next]_vars => (main' = "refuse" /\ main # "refuse"
                                  => Cardinality(Served) = MaxClients)
  <2> SUFFICES ASSUME FtpInv, [Next]_vars, main' = "refuse", main # "refuse"
               PROVE  Cardinality(Served) = MaxClients
    OBVIOUS
  <2>1. TypeInv /\ AtMostMaxClients
    BY DEF FtpInv
  <2>2. IncConnections
    <3>1. ASSUME NEW c \in Clients, ThreadStep(c)
          PROVE  main' = main
      BY <2>1, <3>1, ThreadPlaces
    <3>2. ASSUME NEW c \in Clients, Connect(c)
          PROVE  main' = main
      BY <3>2 DEF Connect
    <3> QED
      BY <2>1, <3>1, <3>2, OtherSteps DEF Refuse, Accept, Uncount, Loop, Join
  <2>3. main = "count" /\ Full(connections)
    BY <2>2 DEF IncConnections
  <2> QED
    BY <2>1, <2>3, ServedFinite, ServerAssumption DEF AtMostMaxClients, Full
<1> QED
  BY <1>1, FtpInvariant, PTL DEF Spec, RefusedOnlyWhenFull

\* run: when it returns, every socket is closed, the counter is zero and every
\* connection that was served has its line in the log.
THEOREM NothingLeft == Spec => []EndsClean
<1>1. FtpInv => EndsClean
  <2> SUFFICES ASSUME FtpInv, main = "over"
               PROVE  /\ open = {} /\ connections = 0
                      /\ \A c \in Clients : address[c] # Nobody =>
                           logged[c].address = address[c]
    BY DEF EndsClean
  <2>1. \A c \in Clients : SocketInv(c)
    BY DEF FtpInv, ClientInv
  <2>2. \A c \in Clients : pc[c] \in {"none", "done"}
    BY <2>1 DEF SocketInv
  <2>3. open = {}
    <3>1. open \subseteq Clients
      BY DEF FtpInv, TypeInv, Types, MainTypes
    <3> QED
      BY <2>1, <2>2, <3>1 DEF SocketInv, Busy
  <2>4. connections = 0
    <3>1. Served = {}
      BY <2>2 DEF Served
    <3>2. Cardinality(Served) = 0
      BY <3>1, FS_EmptySet
    <3> QED
      BY <3>2 DEF FtpInv, AtMostMaxClients
  <2>5. \A c \in Clients : address[c] # Nobody => logged[c].address = address[c]
    BY <2>1, <2>2 DEF SocketInv
  <2> QED
    BY <2>3, <2>4, <2>5
<1> QED
  BY <1>1, FtpInvariant, PTL

\* startCommunication and receive: the greeting comes first, every further response
\* answers a line of its own, however the lines are cut into segments, and the
\* refusal is the last one.
THEOREM RepliesFollowLines == Spec => []RepliesAnswerLines
<1>1. FtpInv => RepliesAnswerLines
  <2> SUFFICES ASSUME FtpInv, NEW c \in Clients
               PROVE  /\ replies[c] # <<>> => replies[c][1] = 220
                      /\ InWholeLines(c) => Len(replies[c]) <= 1 + LinesOf(c, taken[c])
                      /\ \A k \in 1..Len(replies[c]) - 1 : replies[c][k] # 530
    BY DEF RepliesAnswerLines
  <2>1. DialogueInv(c) /\ LinesInv(c)
    BY DEF FtpInv, ClientInv
  <2>2. LinesOf(c, taken[c]) = LFs(script[c], taken[c])
    BY DEF LinesOf, LFs
  <2> QED
    BY <2>1, <2>2 DEF DialogueInv, LinesInv
<1> QED
  BY <1>1, FtpInvariant, PTL

LEMMA LogInvariant ==
  ASSUME LinesAssumption
  PROVE  Spec => [](\A c \in Clients : LogInv(c))
<1>1. Init => \A c \in Clients : LogInv(c)
  <2> SUFFICES ASSUME Init, NEW c \in Clients
               PROVE  LogInv(c)
    OBVIOUS
  <2>1. login[c] = <<>> /\ password[c] = <<>> /\ logged[c] = NoLine
    BY DEF Init
  <2> QED
    BY <2>1 DEF LogInv, ArgumentIn, NoLine
<1>2. FtpInv /\ (\A c \in Clients : LogInv(c)) /\ [Next]_vars
        => (\A c \in Clients : LogInv(c))'
  <2> SUFFICES ASSUME FtpInv, \A c \in Clients : LogInv(c), [Next]_vars, NEW c \in Clients
               PROVE  LogInv(c)'
    OBVIOUS
  <2>1. TypeInv /\ GuestInv /\ LinesInv(c) /\ LineInv(c) /\ LogInv(c)
    BY DEF FtpInv, ClientInv
  <2> QED
    BY <2>1, LinesAssumption, LogNext
<1> QED
  BY <1>1, <1>2, FtpInvariant, PTL DEF Spec

\* parseCommand and log: the name and the password in the log are ones that the client
\* has sent, complete and from one line each, whatever the buffer still holds of
\* longer lines.
THEOREM LogsHoldWhatWasSent ==
  ASSUME LinesAssumption
  PROVE  Spec => []LogsWhatWasSent
<1>1. TypeInv /\ (\A c \in Clients : LogInv(c)) => LogsWhatWasSent
  <2> SUFFICES ASSUME TypeInv, NEW c \in Clients, LogInv(c), InWholeLines(c)
               PROVE  /\ logged[c].login = <<>> \/ IsArgument(c, "USER", logged[c].login)
                      /\ logged[c].password = <<>> \/ IsArgument(c, "PASS", logged[c].password)
    BY DEF LogsWhatWasSent
  <2>1. ASSUME NEW verb, NEW s, ArgumentIn(script[c], verb, s)
        PROVE  s = <<>> \/ IsArgument(c, verb, s)
    BY <2>1, Zenon DEF ArgumentIn, IsArgument, Total
  <2> QED
    BY <2>1 DEF LogInv
<1> QED
  BY <1>1, TypeInvariant, LogInvariant, PTL


-----------------------------------------------------------------------------
(* The HTTP server.                                                        *)

\* Requests and memory are made of units of U, and no request is empty.
HttpAssumption(U) == /\ \A c \in Peers : Requests[c] \in Seq(Seq(U) \ {<<>>})
                     /\ Memory \subseteq Seq(U)

HttpSpec == HttpInit /\ [][HttpNext]_httpVars

-----------------------------------------------------------------------------
(* The inductive invariant, of each connection by itself.                  *)

Answers(U) == {Handle(p) : p \in U} \cup {NoReply}

HttpTypeInv(U) ==
  /\ running \in BOOLEAN /\ manager \subseteq Peers
  /\ gone \subseteq Peers /\ eager \subseteq Peers /\ cut \subseteq Peers
  /\ failed \subseteq Peers
  /\ socket \in [Peers -> {"none", "backlog", "open", "closed"}]
  /\ keepAlive \in [Peers -> BOOLEAN] /\ reading \in [Peers -> BOOLEAN]
  /\ writing \in [Peers -> BOOLEAN] /\ waiting \in [Peers -> BOOLEAN]
  /\ expired \in [Peers -> BOOLEAN] /\ ready \in [Peers -> Nat]
  /\ asked \in [Peers -> Nat]
  /\ inbox \in [Peers -> Seq(U)] /\ _buffer \in [Peers -> Seq(U)]
  /\ _reply \in [Peers -> Answers(U)] /\ answered \in [Peers -> Seq(Answers(U))]

\* Before it is accepted a connection has done nothing; open sockets are the manager's.
ConnectionInv(c) ==
  /\ socket[c] \in {"none", "backlog"} => ~reading[c] /\ ~writing[c] /\ ~keepAlive[c]
  /\ socket[c] = "open" <=> c \in manager

\* What the server waits for on a connection: the next request, or the end of a write; a
\* kept one has a timer that is running, or whose handler is queued.
WaitsFor(c) ==
  running /\ c \in manager /\ c \notin failed /\ ~writing[c] =>
    IF keepAlive[c] THEN IF expired[c] THEN ready[c] > 0 ELSE waiting[c]
                    ELSE reading[c]

\* A peer that waits, and no request of which was cut, has at most one request without an
\* answer: it has arrived, or the reply is being written, or its answer was lost.
AnswerInv(c) ==
  c \notin eager \cup cut =>
    /\ asked[c] <= Len(Requests[c]) /\ Len(answered[c]) <= asked[c]
    /\ inbox[c] # <<>> => /\ ~writing[c] /\ Len(answered[c]) + 1 = asked[c]
                          /\ inbox[c] = Requests[c][asked[c]]
    /\ writing[c] => /\ Len(answered[c]) + 1 = asked[c]
                     /\ _reply[c] = Handle(Requests[c][asked[c]][1])
                     /\ KeepAlive(Requests[c][asked[c]]) => keepAlive[c]
    /\ \A k \in 1..Len(answered[c]) : answered[c][k] = Handle(Requests[c][k][1])

PeerInv(c) == ConnectionInv(c) /\ ~(reading[c] /\ writing[c]) /\ WaitsFor(c) /\ AnswerInv(c)

HttpInv(U) == HttpTypeInv(U) /\ \A c \in Peers : PeerInv(c)

-----------------------------------------------------------------------------
(* Steps of one connection leave the others alone.                         *)

Same(c) ==
  /\ running' => running
  /\ (c \in manager' <=> c \in manager) /\ (c \in failed' <=> c \in failed)
  /\ (c \in eager' <=> c \in eager) /\ (c \in cut' <=> c \in cut)
  /\ socket'[c] = socket[c] /\ inbox'[c] = inbox[c] /\ asked'[c] = asked[c]
  /\ keepAlive'[c] = keepAlive[c] /\ _reply'[c] = _reply[c]
  /\ reading'[c] = reading[c] /\ writing'[c] = writing[c] /\ waiting'[c] = waiting[c]
  /\ ready'[c] = ready[c] /\ expired'[c] = expired[c] /\ answered'[c] = answered[c]

LEMMA SamePeer ==
  ASSUME NEW c \in Peers, PeerInv(c), Same(c)
  PROVE  PeerInv(c)'
BY DEF PeerInv, ConnectionInv, WaitsFor, AnswerInv, Same

\* It is enough to look at the connection that moves.
LEMMA OneConnection ==
  ASSUME NEW U, HttpInv(U), NEW c \in Peers, HttpTypeInv(U)',
         \A d \in Peers \ {c} : Same(d), PeerInv(c)'
  PROVE  HttpInv(U)'
BY SamePeer DEF HttpInv

\* read: what is parsed begins with what was read, and holds all of it.
LEMMA ReadsTheFirst ==
  ASSUME NEW U, NEW old \in Seq(U), NEW new \in Seq(U), new # <<>>
  PROVE  /\ Overlaid(old, new) \in Seq(U)
         /\ Path(Overlaid(old, new)) = new[1]
         /\ KeepAlive(new) => KeepAlive(Overlaid(old, new))
<1> DEFINE rest == SubSeq(old, Len(new) + 1, Len(old))
<1>1. rest \in Seq(U)
  BY SubSeqProperties
<1>2. new \o rest \in Seq(U) /\ Len(new) \in Nat \ {0} /\ (new \o rest)[1] = new[1]
  BY <1>1
<1>3. new \o rest # <<>>
  BY <1>1, <1>2
<1>4. ASSUME KeepAlive(new) PROVE KeepAlive(new \o rest)
  <2>1. PICK i \in 1..Len(new) : new[i] = "keep"
    BY <1>4 DEF KeepAlive, Contains
  <2>2. i \in 1..Len(new \o rest) /\ (new \o rest)[i] = new[i]
    BY <1>1, <2>1
  <2> QED
    BY <2>1, <2>2 DEF KeepAlive, Contains
<1> QED
  BY <1>2, <1>3, <1>4 DEF Overlaid, Path

\* read: what was left behind marks the connection; otherwise all of it was taken.
LEMMA TakesAll ==
  ASSUME NEW U, NEW s \in Seq(U), NEW n \in 1..Len(s)
  PROVE  /\ SubSeq(s, 1, n) \in Seq(U) /\ SubSeq(s, 1, n) # <<>>
         /\ SubSeq(s, 1, n)[1] = s[1]
         /\ SubSeq(s, n + 1, Len(s)) \in Seq(U)
         /\ n = Len(s) => SubSeq(s, 1, n) = s /\ SubSeq(s, n + 1, Len(s)) = <<>>
<1>1. SubSeq(s, n + 1, Len(s)) \in Seq(U)
  BY SubSeqProperties
<1>2. /\ SubSeq(s, 1, n) \in Seq(U) /\ Len(SubSeq(s, 1, n)) = n
      /\ \A i \in 1..n : SubSeq(s, 1, n)[i] = s[i]
  BY SubSeqProperties
<1>3. n = Len(s) => SubSeq(s, 1, n) = s
  BY <1>2
<1>4. n = Len(s) => SubSeq(s, n + 1, Len(s)) = <<>>
  OBVIOUS
<1> QED
  BY <1>1, <1>2, <1>3, <1>4

-----------------------------------------------------------------------------
(* The steps.                                                              *)

LEMMA HttpInvInit ==
  ASSUME NEW U, HttpAssumption(U), HttpInit
  PROVE  HttpInv(U)
BY DEF HttpInit, HttpAssumption, HttpInv, HttpTypeInv, PeerInv, ConnectionInv, WaitsFor,
       AnswerInv, Answers

LEMMA HttpInvNext ==
  ASSUME NEW U, HttpAssumption(U), HttpInv(U), [HttpNext]_httpVars
  PROVE  HttpInv(U)'
<1> USE DEF HttpInv, HttpTypeInv, peerVars, timerVars, answerVars
<1>1. ASSUME NEW c \in Peers, Arrive(c) PROVE HttpInv(U)'
  <2>1. HttpTypeInv(U)' /\ \A d \in Peers \ {c} : Same(d)
    BY <1>1 DEF Arrive, Same
  <2>2. PeerInv(c)'
    BY <1>1 DEF Arrive, PeerInv, ConnectionInv, WaitsFor, AnswerInv
  <2> QED
    BY <2>1, <2>2, OneConnection
<1>2. ASSUME NEW c \in Peers, Ask(c) PROVE HttpInv(U)'
  <2> DEFINE r == Requests[c][asked[c] + 1]
  <2>1. r \in Seq(U) /\ asked[c] + 1 \in 1..Len(Requests[c])
    BY <1>2 DEF HttpAssumption, Ask
  <2>2. HttpTypeInv(U)' /\ \A d \in Peers \ {c} : Same(d)
    BY <1>2, <2>1 DEF Ask, Same
  <2>3. AnswerInv(c)'
    <3> SUFFICES ASSUME c \notin eager' \cup cut' PROVE AnswerInv(c)'
      BY DEF AnswerInv
    <3>1. c \notin eager \cup cut /\ Len(answered[c]) = asked[c] /\ inbox[c] = <<>> /\ ~writing[c]
      BY <1>2 DEF Ask, PeerInv, AnswerInv
    <3>2. inbox'[c] = r /\ asked'[c] = asked[c] + 1
          /\ UNCHANGED <<answered, writing, _reply>>
      BY <1>2, <2>1, <3>1 DEF Ask
    <3> QED
      BY <2>1, <3>1, <3>2 DEF PeerInv, AnswerInv
  <2>4. ConnectionInv(c)' /\ ~(reading[c] /\ writing[c])' /\ WaitsFor(c)'
    BY <1>2 DEF Ask, PeerInv, ConnectionInv, WaitsFor
  <2> QED
    BY <2>2, <2>3, <2>4, OneConnection DEF PeerInv
<1>3. ASSUME NEW c \in Peers, Depart(c) PROVE HttpInv(U)'
  <2>1. HttpTypeInv(U)' /\ \A d \in Peers \ {c} : Same(d)
    BY <1>3 DEF Depart, Same
  <2>2. PeerInv(c)'
    BY <1>3 DEF Depart, PeerInv, ConnectionInv, WaitsFor, AnswerInv
  <2> QED
    BY <2>1, <2>2, OneConnection
<1>4. CASE AwaitStop
  <2>1. HttpTypeInv(U)'
    BY <1>4 DEF AwaitStop
  <2>2. ASSUME NEW c \in Peers PROVE PeerInv(c)'
    BY <1>4 DEF AwaitStop, PeerInv, ConnectionInv, WaitsFor, AnswerInv
  <2> QED
    BY <2>1, <2>2
<1>5. ASSUME NEW c \in Peers, accept(c) PROVE HttpInv(U)'
  <2>1. HttpTypeInv(U)' /\ \A d \in Peers \ {c} : Same(d)
    BY <1>5 DEF accept, Same
  <2>2. PeerInv(c)'
    BY <1>5 DEF accept, PeerInv, ConnectionInv, WaitsFor, AnswerInv
  <2> QED
    BY <2>1, <2>2, OneConnection
<1>6. ASSUME NEW c \in Peers, Read(c) PROVE HttpInv(U)'
  <2>0. PICK n \in 1..Len(inbox[c]) :
          LET b == Overlaid(_buffer[c], SubSeq(inbox[c], 1, n))
          IN /\ _buffer' = [_buffer EXCEPT ![c] = b]
             /\ keepAlive' = [keepAlive EXCEPT ![c] = KeepAlive(b)]
             /\ _reply' = [_reply EXCEPT ![c] = Handle(Path(b))]
             /\ inbox' = [inbox EXCEPT ![c] = SubSeq(inbox[c], n + 1, Len(inbox[c]))]
             /\ cut' = IF n < Len(inbox[c]) THEN cut \cup {c} ELSE cut
    BY <1>6 DEF Read
  <2> DEFINE new == SubSeq(inbox[c], 1, n)
             rest == SubSeq(inbox[c], n + 1, Len(inbox[c]))
             b == Overlaid(_buffer[c], new)
  <2>1. /\ new \in Seq(U) /\ new # <<>> /\ new[1] = inbox[c][1] /\ rest \in Seq(U)
        /\ n = Len(inbox[c]) => new = inbox[c] /\ rest = <<>>
    <3>1. inbox[c] \in Seq(U)
      OBVIOUS
    <3> HIDE DEF HttpInv, HttpTypeInv
    <3> QED
      BY <3>1, TakesAll
  <2>2. /\ b \in Seq(U) /\ Path(b) = inbox[c][1] /\ inbox[c][1] \in U
        /\ KeepAlive(b) \in BOOLEAN /\ Handle(Path(b)) \in Answers(U)
        /\ n = Len(inbox[c]) => (KeepAlive(inbox[c]) => KeepAlive(b))
    <3>1. /\ b \in Seq(U) /\ Path(b) = new[1] /\ (KeepAlive(new) => KeepAlive(b))
      BY <2>1, ReadsTheFirst
    <3>2. new[1] \in U
      BY <2>1
    <3> QED
      BY <2>1, <3>1, <3>2 DEF KeepAlive, Contains, Answers
  <2>3. /\ _buffer' = [_buffer EXCEPT ![c] = b]
        /\ keepAlive' = [keepAlive EXCEPT ![c] = KeepAlive(b)]
        /\ _reply' = [_reply EXCEPT ![c] = Handle(Path(b))]
        /\ inbox' = [inbox EXCEPT ![c] = rest]
        /\ cut' = IF n < Len(inbox[c]) THEN cut \cup {c} ELSE cut
        /\ reading' = [reading EXCEPT ![c] = FALSE]
        /\ writing' = [writing EXCEPT ![c] = TRUE]
        /\ reading[c] /\ socket[c] = "open"
        /\ UNCHANGED <<running, manager, socket, asked, eager, gone, failed, answered,
                       timerVars>>
    BY <1>6, <2>0 DEF Read
  <2>9. inbox[c] # <<>>
    BY <2>0
  <2> HIDE DEF b, rest, new
  <2>4. HttpTypeInv(U)'
    BY <2>1, <2>2, <2>3
  <2>5. \A d \in Peers \ {c} : Same(d)
    BY <2>3 DEF Same
  <2>6. AnswerInv(c)'
    <3> SUFFICES ASSUME c \notin eager' \cup cut' PROVE AnswerInv(c)'
      BY DEF AnswerInv
    <3>1. n = Len(inbox[c]) /\ c \notin eager \cup cut
      BY <2>0, <2>3
    <3>2. /\ inbox'[c] = <<>> /\ writing'[c] /\ _reply'[c] = Handle(inbox[c][1])
          /\ keepAlive'[c] = KeepAlive(b) /\ (KeepAlive(inbox[c]) => KeepAlive(b))
      BY <2>1, <2>2, <2>3, <3>1
    <3>3. /\ asked[c] <= Len(Requests[c]) /\ Len(answered[c]) + 1 = asked[c]
          /\ inbox[c] = Requests[c][asked[c]]
          /\ \A k \in 1..Len(answered[c]) : answered[c][k] = Handle(Requests[c][k][1])
      BY <2>9, <3>1 DEF PeerInv, AnswerInv
    <3> QED
      BY <2>3, <3>2, <3>3 DEF AnswerInv
  <2>7. ConnectionInv(c)' /\ ~(reading[c] /\ writing[c])' /\ WaitsFor(c)'
    BY <2>2, <2>3 DEF PeerInv, ConnectionInv, WaitsFor
  <2> QED
    BY <2>4, <2>5, <2>6, <2>7, OneConnection DEF PeerInv
<1>7. ASSUME NEW c \in Peers, ReadFails(c) PROVE HttpInv(U)'
  <2>1. HttpTypeInv(U)' /\ \A d \in Peers \ {c} : Same(d)
    <3>1. HttpTypeInv(U)'
      BY <1>7 DEF ReadFails, Stop, Leave
    <3>2. \A d \in Peers \ {c} : Same(d)
      BY <1>7 DEF ReadFails, Stop, Leave, Same
    <3> QED
      BY <3>1, <3>2
  <2>2. PeerInv(c)'
    BY <1>7 DEF ReadFails, Stop, Leave, PeerInv, ConnectionInv, WaitsFor, AnswerInv
  <2> QED
    BY <2>1, <2>2, OneConnection
<1>8. ASSUME NEW c \in Peers, Write(c) PROVE HttpInv(U)'
  <2>1. HttpTypeInv(U)' /\ \A d \in Peers \ {c} : Same(d)
    <3>1. HttpTypeInv(U)'
      <4>1. Append(answered[c], _reply[c]) \in Seq(Answers(U))
        OBVIOUS
      <4>2. answered' \in [Peers -> Seq(Answers(U))]
        BY <1>8, <4>1 DEF Write
      <4>3. /\ manager' \subseteq Peers /\ waiting' \in [Peers -> BOOLEAN]
            /\ socket' \in [Peers -> {"none", "backlog", "open", "closed"}]
            /\ expired' \in [Peers -> BOOLEAN] /\ reading' \in [Peers -> BOOLEAN]
            /\ writing' \in [Peers -> BOOLEAN]
        BY <1>8 DEF Write, Rearm, Again, Stop, Leave
      <4> QED
        BY <1>8, <4>2, <4>3 DEF Write, Rearm
    <3>2. \A d \in Peers \ {c} : Same(d)
      BY <1>8 DEF Write, Rearm, Again, Stop, Leave, Same
    <3> QED
      BY <3>1, <3>2
  <2>2. AnswerInv(c)'
    <3> SUFFICES ASSUME c \notin eager' \cup cut' PROVE AnswerInv(c)'
      BY DEF AnswerInv
    <3>1. /\ answered'[c] = Append(answered[c], _reply[c]) /\ ~writing'[c] /\ writing[c]
          /\ UNCHANGED <<inbox, asked, eager, cut>>
      BY <1>8 DEF Write
    <3>2. /\ Len(answered[c]) + 1 = asked[c] /\ inbox[c] = <<>>
          /\ _reply[c] = Handle(Requests[c][asked[c]][1])
          /\ \A k \in 1..Len(answered[c]) : answered[c][k] = Handle(Requests[c][k][1])
          /\ asked[c] <= Len(Requests[c])
      BY <3>1 DEF PeerInv, AnswerInv
    <3>3. answered[c] \in Seq(Answers(U)) /\ _reply[c] \in Answers(U)
      OBVIOUS
    <3>4. /\ Len(answered'[c]) = asked[c] /\ answered'[c][asked[c]] = _reply[c]
          /\ \A k \in 1..Len(answered[c]) : answered'[c][k] = answered[c][k]
      BY <3>1, <3>2, <3>3
    <3>5. \A k \in 1..Len(answered'[c]) : k \in 1..Len(answered[c]) \/ k = asked[c]
      BY <3>2, <3>3, <3>4
    <3> QED
      BY <3>1, <3>2, <3>4, <3>5 DEF AnswerInv
  <2>3. ConnectionInv(c)' /\ ~(reading[c] /\ writing[c])' /\ WaitsFor(c)'
    BY <1>8 DEF Write, Rearm, Again, Stop, Leave, PeerInv, ConnectionInv, WaitsFor
  <2> QED
    BY <2>1, <2>2, <2>3, OneConnection DEF PeerInv
<1>9. ASSUME NEW c \in Peers, WriteFails(c) PROVE HttpInv(U)'
  <2>1. HttpTypeInv(U)' /\ \A d \in Peers \ {c} : Same(d)
    <3>1. HttpTypeInv(U)'
      BY <1>9 DEF WriteFails, Rearm, Stop, Leave
    <3>2. \A d \in Peers \ {c} : Same(d)
      BY <1>9 DEF WriteFails, Rearm, Stop, Leave, Same
    <3> QED
      BY <3>1, <3>2
  <2>2. AnswerInv(c)'
    BY <1>9 DEF WriteFails, PeerInv, AnswerInv
  <2>3. ConnectionInv(c)' /\ ~(reading[c] /\ writing[c])' /\ WaitsFor(c)'
    BY <1>9 DEF WriteFails, Rearm, Stop, Leave, PeerInv, ConnectionInv, WaitsFor
  <2> QED
    BY <2>1, <2>2, <2>3, OneConnection DEF PeerInv
<1>10. ASSUME NEW c \in Peers, Expire(c) PROVE HttpInv(U)'
  <2>1. HttpTypeInv(U)' /\ \A d \in Peers \ {c} : Same(d)
    BY <1>10 DEF Expire, Same
  <2>2. AnswerInv(c)'
    BY <1>10 DEF Expire, PeerInv, AnswerInv
  <2>3. ConnectionInv(c)' /\ ~(reading[c] /\ writing[c])' /\ WaitsFor(c)'
    BY <1>10 DEF Expire, PeerInv, ConnectionInv, WaitsFor
  <2> QED
    BY <2>1, <2>2, <2>3, OneConnection DEF PeerInv
<1>11. ASSUME NEW c \in Peers, HandleTimeout(c) PROVE HttpInv(U)'
  <2>1. HttpTypeInv(U)' /\ \A d \in Peers \ {c} : Same(d)
    <3>1. HttpTypeInv(U)'
      <4>1. ready[c] - 1 \in Nat /\ ready' = [ready EXCEPT ![c] = ready[c] - 1]
        BY <1>11 DEF HandleTimeout
      <4>2. ready' \in [Peers -> Nat]
        BY <4>1
      <4>3. /\ manager' \subseteq Peers
            /\ socket' \in [Peers -> {"none", "backlog", "open", "closed"}]
        BY <1>11 DEF HandleTimeout, Stop, Leave
      <4> QED
        BY <1>11, <4>2, <4>3 DEF HandleTimeout
    <3>2. \A d \in Peers \ {c} : Same(d)
      BY <1>11 DEF HandleTimeout, Stop, Leave, Same
    <3> QED
      BY <3>1, <3>2
  <2>2. AnswerInv(c)'
    BY <1>11 DEF HandleTimeout, PeerInv, AnswerInv
  <2>3. ConnectionInv(c)' /\ ~(reading[c] /\ writing[c])' /\ WaitsFor(c)'
    BY <1>11 DEF HandleTimeout, TooLate, Alive, Stop, Leave, PeerInv, ConnectionInv, WaitsFor
  <2> QED
    BY <2>1, <2>2, <2>3, OneConnection DEF PeerInv
<1>12. CASE UNCHANGED httpVars
  <2>1. \A c \in Peers : Same(c)
    BY <1>12 DEF httpVars, Same
  <2>2. HttpTypeInv(U)'
    BY <1>12 DEF httpVars
  <2> QED
    BY <2>1, <2>2, SamePeer
<1> QED
  BY <1>1, <1>2, <1>3, <1>4, <1>5, <1>6, <1>7, <1>8, <1>9, <1>10, <1>11, <1>12 DEF HttpNext

-----------------------------------------------------------------------------
(* The theorems.                                                           *)

LEMMA HttpSafe ==
  ASSUME NEW U, HttpInv(U)
  PROVE  AnswersTheRequests /\ NobodyIsForgotten
<1>1. AnswersTheRequests
  BY DEF HttpInv, PeerInv, AnswerInv, AnswersTheRequests
<1>2. NobodyIsForgotten
  BY DEF HttpInv, HttpTypeInv, PeerInv, ConnectionInv, WaitsFor, NobodyIsForgotten
<1> QED
  BY <1>1, <1>2

\* Connection: the k-th answer answers the k-th request of a peer that waits for answers
\* and each of whose requests was read at once, and keeps the connection when the request
\* asks for that, whatever older requests or the initial memory left in the buffer.
THEOREM RequestsAnswered ==
  ASSUME NEW CONSTANT U, HttpAssumption(U)
  PROVE  HttpSpec => []AnswersTheRequests
<1>1. HttpInit => HttpInv(U)
  BY HttpInvInit
<1>2. HttpInv(U) /\ [HttpNext]_httpVars => HttpInv(U)'
  BY HttpInvNext
<1>3. HttpInv(U) => AnswersTheRequests
  BY HttpSafe
<1> QED
  BY <1>1, <1>2, <1>3, PTL DEF HttpSpec

\* ConnectionManager: every open socket can be closed by a signal, and the server waits
\* for something of every connection that it keeps.
THEOREM NobodyForgotten ==
  ASSUME NEW CONSTANT U, HttpAssumption(U)
  PROVE  HttpSpec => []NobodyIsForgotten
<1>1. HttpInit => HttpInv(U)
  BY HttpInvInit
<1>2. HttpInv(U) /\ [HttpNext]_httpVars => HttpInv(U)'
  BY HttpInvNext
<1>3. HttpInv(U) => NobodyIsForgotten
  BY HttpSafe
<1> QED
  BY <1>1, <1>2, <1>3, PTL DEF HttpSpec

\* handle_timeout: whichever handlers are queued, a kept connection of a peer that is there
\* leaves the manager only when its deadline has passed.
THEOREM UsedIsKept == HttpSpec => KeptWhileInUse
<1> DEFINE Stays == \A c \in manager \ manager' :
                     ~running' \/ c \in gone \/ ~keepAlive[c] \/ expired[c]
<1>1. ASSUME NEW c \in Peers,
             Arrive(c) \/ Ask(c) \/ Depart(c) \/ accept(c) \/ Read(c) \/ Expire(c)
      PROVE  Stays
  BY <1>1 DEF Arrive, Ask, Depart, accept, Read, Expire
<1>2. ASSUME NEW c \in Peers, ReadFails(c) \/ Write(c) \/ WriteFails(c)
      PROVE  Stays
  BY <1>2 DEF ReadFails, Write, WriteFails, Stop, Leave
<1>3. ASSUME NEW c \in Peers, HandleTimeout(c)
      PROVE  Stays
  BY <1>3 DEF HandleTimeout, TooLate, Stop, Leave
<1>4. ASSUME AwaitStop PROVE Stays
  BY <1>4 DEF AwaitStop
<1>5. ASSUME UNCHANGED httpVars PROVE Stays
  BY <1>5 DEF httpVars
<1>6. [HttpNext]_httpVars => [Stays]_httpVars
  BY <1>1, <1>2, <1>3, <1>4, <1>5 DEF HttpNext
<1> QED
  BY <1>6, PTL DEF HttpSpec, KeptWhileInUse
=============================================================================
