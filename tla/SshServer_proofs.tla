-------------------------- MODULE SshServer_proofs --------------------------
(***************************************************************************)
(* Theorems of the SSH server, for any guests, messages and command lines. *)
(***************************************************************************)
EXTENDS SshServer, FiniteSetTheorems, TLAPS

\* What a command line gives as the limit of clients is a number.
SshAssumption ==
  /\ IsFiniteSet(Guests) /\ Nobody \notin Guests
  /\ \A line \in CommandLines, mode \in Undefined : Parse(line, mode).c \in Nat

SshSpec == SshInit /\ [][SshNext]_vars

-----------------------------------------------------------------------------
(* The inductive invariant.                                                *)

Inside == {"exchange", "auth", "get", "last", "dec"}
Places == Inside \cup {"none", "free", "done"}
Awaited == main \in {"count", "refuse"}

SshTypeInv ==
  /\ main \in {"start", "loop", "count", "refuse", "join", "over"}
  /\ at \in [Guests -> Places]
  /\ main # "start" => options.c \in Nat

\* A guest is in the backlog, or the one that run holds, before it gets its thread; and
\* not at both nor twice.
WaitingInv ==
  /\ backlog \in Seq(Guests)
  /\ \A i \in 1..Len(backlog) : at[backlog[i]] = "none" /\ backlog[i] # guest
  /\ \A i, j \in 1..Len(backlog) : backlog[i] = backlog[j] => i = j
  /\ IF Awaited THEN guest \in Guests /\ at[guest] = "none" ELSE guest = Nobody

\* Before the options are read and after run has returned there are no threads.
QuietInv == main \in {"start", "over"} => \A g \in Guests : at[g] \in {"none", "done"}

\* A session is the one that run holds or that of a thread that has not freed it.
SessionInv ==
  \A g \in sessions : g \in Guests /\ (g = guest \/ at[g] \in Inside \cup {"free"})

CountInv == /\ _connections = Cardinality(InAuth) + IF main = "refuse" THEN 1 ELSE 0
            /\ main # "start" => Cardinality(InAuth) <= options.c

SshInv == SshTypeInv /\ WaitingInv /\ QuietInv /\ SessionInv /\ CountInv

-----------------------------------------------------------------------------
(* Counting the connections.                                               *)

LEMMA InAuthFinite ==
  ASSUME SshAssumption
  PROVE  IsFiniteSet(InAuth) /\ Cardinality(InAuth) \in Nat
<1>1. IsFiniteSet(InAuth)
  BY FS_Subset DEF SshAssumption, InAuth
<1> QED
  BY <1>1, FS_CardinalityType

\* Without threads nobody is counted.
LEMMA NobodyInAuth ==
  ASSUME \A g \in Guests : at[g] \in {"none", "done"}
  PROVE  Cardinality(InAuth) = 0
<1>1. InAuth = {}
  BY DEF InAuth
<1> QED
  BY <1>1, FS_EmptySet

\* What a step of one guest does to the number.
LEMMA OneMoves ==
  ASSUME SshAssumption, NEW g \in Guests, NEW to \in Places, at \in [Guests -> Places],
         at' = [at EXCEPT ![g] = to]
  PROVE  /\ (at[g] \in Inside <=> to \in Inside) => Cardinality(InAuth') = Cardinality(InAuth)
         /\ at[g] \notin Inside /\ to \in Inside =>
              Cardinality(InAuth') = Cardinality(InAuth) + 1
         /\ at[g] \in Inside /\ to \notin Inside =>
              Cardinality(InAuth') = Cardinality(InAuth) - 1
<1>1. ASSUME at[g] \in Inside <=> to \in Inside
      PROVE  InAuth' = InAuth
  BY <1>1 DEF InAuth, Inside
<1>2. ASSUME at[g] \notin Inside, to \in Inside
      PROVE  InAuth' = InAuth \cup {g} /\ g \notin InAuth
  BY <1>2 DEF InAuth, Inside
<1>3. ASSUME at[g] \in Inside, to \notin Inside
      PROVE  InAuth' = InAuth \ {g} /\ g \in InAuth
  BY <1>3 DEF InAuth, Inside
<1>4. Cardinality(InAuth \cup {g}) = Cardinality(InAuth) + 1 \/ g \in InAuth
  BY InAuthFinite, FS_AddElement
<1>5. Cardinality(InAuth \ {g}) = Cardinality(InAuth) - 1 \/ g \notin InAuth
  BY InAuthFinite, FS_RemoveElement
<1>6. (at[g] \in Inside <=> to \in Inside) => Cardinality(InAuth') = Cardinality(InAuth)
  BY <1>1
<1>7. at[g] \notin Inside /\ to \in Inside =>
        Cardinality(InAuth') = Cardinality(InAuth) + 1
  BY <1>2, <1>4
<1>8. at[g] \in Inside /\ to \notin Inside =>
        Cardinality(InAuth') = Cardinality(InAuth) - 1
  BY <1>3, <1>5
<1> QED
  BY <1>6, <1>7, <1>8

LEMMA SameInAuth ==
  ASSUME UNCHANGED at
  PROVE  InAuth' = InAuth
BY DEF InAuth

-----------------------------------------------------------------------------
(* The steps.                                                              *)

LEMMA SshInvInit ==
  ASSUME SshAssumption, SshInit
  PROVE  SshInv
<1>1. Cardinality(InAuth) = 0
  BY NobodyInAuth DEF SshInit
<1> QED
  BY <1>1 DEF SshInit, SshInv, SshTypeInv, WaitingInv, QuietInv, SessionInv, CountInv,
             Awaited, Places, Inside

\* A step of a thread, which is inside or frees its session.
LEMMA ThreadStep ==
  ASSUME SshAssumption, SshInv, NEW g \in Guests, NEW to \in Places,
         at' = [at EXCEPT ![g] = to], UNCHANGED mainVars,
         \/ at[g] \in Inside /\ to \in Inside /\ UNCHANGED <<_connections, sessions>>
         \/ at[g] = "dec" /\ to = "free" /\ _connections' = _connections - 1
            /\ UNCHANGED sessions
         \/ at[g] = "free" /\ to = "done" /\ sessions' = sessions \ {g}
            /\ UNCHANGED _connections
  PROVE  SshInv'
<1> USE DEF SshInv, SshTypeInv
<1>1. SshTypeInv'
  BY DEF mainVars
<1>2. WaitingInv'
  BY DEF WaitingInv, Awaited, mainVars, Inside
<1>3. QuietInv'
  BY DEF QuietInv, mainVars, Inside
<1>4. SessionInv'
  BY DEF SessionInv, WaitingInv, Awaited, mainVars, Inside
<1>5. CASE at[g] = "dec" /\ to = "free" /\ _connections' = _connections - 1
  <2>1. Cardinality(InAuth') = Cardinality(InAuth) - 1
    BY <1>5, OneMoves DEF Inside
  <2> QED
    BY <1>1, <1>2, <1>3, <1>4, <1>5, <2>1, InAuthFinite DEF CountInv, mainVars
<1>6. CASE /\ at[g] \in Inside <=> to \in Inside
           /\ UNCHANGED _connections
  <2>1. Cardinality(InAuth') = Cardinality(InAuth)
    BY <1>6, OneMoves
  <2> QED
    BY <1>1, <1>2, <1>3, <1>4, <1>6, <2>1 DEF CountInv, mainVars
<1> QED
  BY <1>5, <1>6 DEF Inside

LEMMA SshInvNext ==
  ASSUME SshAssumption, SshInv, [SshNext]_vars
  PROVE  SshInv'
<1> USE DEF SshInv, SshTypeInv
<1>1. CASE Main
  <2>1. PICK line \in CommandLines, mode \in Undefined :
          options' = Parse(line, mode)
    BY <1>1 DEF Main
  <2>2. options'.c \in Nat
    BY <2>1 DEF SshAssumption
  <2>3. main = "start" /\ main' \in {"loop", "over"}
    BY <1>1 DEF Main
  <2>4. UNCHANGED <<guest, backlog, _connections, at, sessions>>
    BY <1>1 DEF Main, threadVars
  <2>5. SshTypeInv'
    BY <2>2, <2>3, <2>4
  <2>6. WaitingInv' /\ SessionInv' /\ QuietInv'
    BY <2>3, <2>4 DEF WaitingInv, SessionInv, QuietInv, Awaited
  <2>7. Cardinality(InAuth) = 0
    BY <2>3, NobodyInAuth DEF QuietInv
  <2>8. CountInv'
    BY <2>2, <2>3, <2>4, <2>7, SameInAuth DEF CountInv
  <2> QED
    BY <2>5, <2>6, <2>8
<1>2. CASE SignalHandler \/ UNCHANGED vars \/ \E g \in Guests : Send(g)
  <2>1. UNCHANGED <<options, main, guest, backlog, _connections, at, sessions>>
    BY <1>2 DEF SignalHandler, Send, vars, mainVars, threadVars
  <2> QED
    BY <2>1, SameInAuth DEF WaitingInv, QuietInv, SessionInv, CountInv, Awaited
<1>3. CASE Loop
  <2>1. UNCHANGED <<options, guest, backlog, _connections, at, sessions>>
        /\ main = "loop" /\ main' = "join"
    BY <1>3 DEF Loop, threadVars
  <2> QED
    BY <2>1, SameInAuth DEF WaitingInv, QuietInv, SessionInv, CountInv, Awaited
<1>4. CASE Join
  <2>1. UNCHANGED <<options, guest, backlog, _connections, at, sessions>>
        /\ main = "join" /\ main' = "over" /\ \A g \in Guests : at[g] \in {"none", "done"}
    BY <1>4 DEF Join, threadVars
  <2> QED
    BY <2>1, SameInAuth DEF WaitingInv, QuietInv, SessionInv, CountInv, Awaited
<1>5. ASSUME NEW g \in Guests, Connect(g) PROVE SshInv'
  <2>1. /\ UNCHANGED <<options, main, guest, _connections, at, sessions>>
        /\ backlog' = Append(backlog, g) /\ at[g] = "none" /\ g # guest
        /\ \A i \in 1..Len(backlog) : backlog[i] # g
    BY <1>5 DEF Connect, Contains, threadVars
  <2>2. /\ backlog' \in Seq(Guests) /\ Len(backlog') = Len(backlog) + 1
        /\ \A i \in 1..Len(backlog) : backlog'[i] = backlog[i]
        /\ backlog'[Len(backlog) + 1] = g
    BY <2>1 DEF WaitingInv
  <2>3. \A i \in 1..Len(backlog') : i \in 1..Len(backlog) \/ i = Len(backlog) + 1
    BY <2>2 DEF WaitingInv
  <2>4. WaitingInv'
    BY <2>1, <2>2, <2>3 DEF WaitingInv, Awaited
  <2> QED
    BY <2>1, <2>4, SameInAuth DEF QuietInv, SessionInv, CountInv
<1>6. CASE Accept
  <2> DEFINE h == Head(backlog)
  <2>1. main = "loop" /\ backlog # <<>> /\ backlog' = Tail(backlog)
        /\ UNCHANGED <<options, _connections>>
    BY <1>6 DEF Accept
  <2>2. h \in Guests /\ at[h] = "none" /\ h = backlog[1] /\ 1 \in 1..Len(backlog)
    BY <2>1 DEF WaitingInv
  <2>3. /\ backlog' \in Seq(Guests) /\ Len(backlog') = Len(backlog) - 1
        /\ \A i \in 1..Len(backlog') : i + 1 \in 1..Len(backlog)
                                       /\ backlog'[i] = backlog[i + 1]
    BY <2>1 DEF WaitingInv
  <2>4. /\ \A i \in 1..Len(backlog') : /\ at[backlog'[i]] = "none"
                                        /\ backlog'[i] # h /\ backlog'[i] # guest
        /\ \A i, j \in 1..Len(backlog') : backlog'[i] = backlog'[j] => i = j
    <3>1. \A i \in 1..Len(backlog') : i \in Int /\ i + 1 # 1
      BY <2>3
    <3>2. \A i \in 1..Len(backlog') : /\ at[backlog'[i]] = "none"
                                      /\ backlog'[i] # h /\ backlog'[i] # guest
      BY <2>2, <2>3, <3>1 DEF WaitingInv
    <3>3. ASSUME NEW i \in 1..Len(backlog'), NEW j \in 1..Len(backlog'),
                 backlog'[i] = backlog'[j]
          PROVE  i = j
      <4>1. i + 1 \in 1..Len(backlog) /\ j + 1 \in 1..Len(backlog)
            /\ backlog[i + 1] = backlog[j + 1]
        BY <2>3, <3>3
      <4>2. i + 1 = j + 1
        BY <4>1 DEF WaitingInv
      <4> QED
        BY <4>2, <3>1
    <3> QED
      BY <3>2, <3>3
  <2>5. CASE guest' = h /\ sessions' = sessions \cup {h} /\ main' = "count" /\ UNCHANGED at
    <3>1. WaitingInv'
      BY <2>2, <2>3, <2>4, <2>5 DEF WaitingInv, Awaited
    <3>2. guest = Nobody
      BY <2>1 DEF WaitingInv, Awaited
    <3>3. SessionInv'
      BY <2>2, <2>5, <3>2 DEF SessionInv, SshAssumption
    <3>5. QuietInv' /\ SshTypeInv'
      BY <2>1, <2>5 DEF QuietInv
    <3>4. CountInv'
      BY <2>1, <2>5, SameInAuth DEF CountInv
    <3> QED
      BY <3>1, <3>3, <3>4, <3>5
  <2>6. CASE at' = [at EXCEPT ![h] = "done"] /\ UNCHANGED <<guest, sessions, main>>
    <3>1. WaitingInv'
      BY <2>1, <2>2, <2>3, <2>4, <2>6 DEF WaitingInv, Awaited
    <3>2. SessionInv' /\ QuietInv' /\ SshTypeInv'
      BY <2>1, <2>2, <2>6 DEF SessionInv, QuietInv, Places, Inside
    <3>3. Cardinality(InAuth') = Cardinality(InAuth)
      BY <2>2, <2>6, OneMoves DEF Places, Inside
    <3>4. CountInv'
      BY <2>1, <2>6, <3>3 DEF CountInv
    <3> QED
      BY <3>1, <3>2, <3>4
  <2> QED
    BY <1>6, <2>5, <2>6 DEF Accept
<1>7. CASE IncConnections
  <2>1. main = "count" /\ _connections' = _connections + 1
        /\ UNCHANGED <<options, backlog, sessions>>
    BY <1>7 DEF IncConnections
  <2>2. guest \in Guests /\ at[guest] = "none" /\ guest # Nobody
    BY <2>1 DEF WaitingInv, Awaited, SshAssumption
  <2>3. CASE TooMany(_connections) /\ main' = "refuse" /\ UNCHANGED <<guest, at>>
    <3>1. WaitingInv' /\ SessionInv' /\ QuietInv' /\ SshTypeInv'
      BY <2>1, <2>2, <2>3 DEF WaitingInv, Awaited, SessionInv, QuietInv
    <3>2. CountInv'
      BY <2>1, <2>3, SameInAuth, InAuthFinite DEF CountInv
    <3> QED
      BY <3>1, <3>2
  <2>4. CASE /\ ~TooMany(_connections) /\ main' = "loop" /\ guest' = Nobody
             /\ at' = [at EXCEPT ![guest] = "exchange"]
    <3>1. WaitingInv'
      BY <2>1, <2>2, <2>4 DEF WaitingInv, Awaited, SshAssumption
    <3>2. SessionInv' /\ QuietInv' /\ SshTypeInv'
      BY <2>1, <2>2, <2>4 DEF SessionInv, QuietInv, Places, Inside
    <3>3. Cardinality(InAuth') = Cardinality(InAuth) + 1
      BY <2>2, <2>4, OneMoves DEF Places, Inside
    <3>4. CountInv'
      BY <2>1, <2>4, <3>3, InAuthFinite DEF CountInv, TooMany
    <3> QED
      BY <3>1, <3>2, <3>4
  <2> QED
    BY <1>7, <2>3, <2>4 DEF IncConnections
<1>8. CASE Refuse
  <2>1. /\ main = "refuse" /\ main' = "loop" /\ _connections' = _connections - 1
        /\ sessions' = sessions \ {guest} /\ at' = [at EXCEPT ![guest] = "done"]
        /\ guest' = Nobody /\ UNCHANGED <<options, backlog>>
    BY <1>8 DEF Refuse
  <2>2. guest \in Guests /\ at[guest] = "none" /\ guest # Nobody
    BY <2>1 DEF WaitingInv, Awaited, SshAssumption
  <2>3. WaitingInv'
    BY <2>1, <2>2 DEF WaitingInv, Awaited, SshAssumption
  <2>4. SessionInv' /\ QuietInv' /\ SshTypeInv'
    BY <2>1, <2>2 DEF SessionInv, QuietInv, Places, Inside
  <2>5. Cardinality(InAuth') = Cardinality(InAuth)
    BY <2>1, <2>2, OneMoves DEF Places, Inside
  <2>6. CountInv'
    BY <2>1, <2>5, InAuthFinite DEF CountInv
  <2> QED
    BY <2>3, <2>4, <2>6
<1>9. ASSUME NEW g \in Guests, Exchange(g) \/ Test(g) \/ Get(g) \/ LogOnce(g)
      PROVE  SshInv'
  <2>1. PICK to \in Inside : at' = [at EXCEPT ![g] = to]
    BY <1>9 DEF Exchange, Test, Get, LogOnce, Inside
  <2>2. at[g] \in Inside /\ UNCHANGED <<mainVars, _connections, sessions>>
    BY <1>9 DEF Exchange, Test, Get, LogOnce, Inside
  <2> QED
    BY <2>1, <2>2, ThreadStep DEF Places
<1>10. ASSUME NEW g \in Guests, DecConnections(g) \/ Free(g)
       PROVE  SshInv'
  BY <1>10, ThreadStep DEF DecConnections, Free, Places, Inside
<1> QED
  BY <1>1, <1>2, <1>3, <1>4, <1>5, <1>6, <1>7, <1>8, <1>9, <1>10 DEF SshNext

-----------------------------------------------------------------------------
(* The theorems.                                                           *)

\* What run's counter says, and what is left when run returns.
LEMMA SshSafe ==
  ASSUME SshAssumption, SshInv
  PROVE  CountsItsGuests /\ FreesItsGuests
<1>1. CountsItsGuests
  BY DEF SshInv, CountInv, CountsItsGuests
<1>2. main = "over" => Cardinality(InAuth) = 0 /\ guest = Nobody
  BY NobodyInAuth DEF SshInv, QuietInv, WaitingInv, Awaited
<1>3. FreesItsGuests
  BY <1>2 DEF SshInv, CountInv, SessionInv, QuietInv, FreesItsGuests, Inside,
                 SshAssumption
<1> QED
  BY <1>1, <1>3

\* incConnections, decConnections: the counter is the number of connections with a thread,
\* never above the limit, whatever guests send and whenever the signal comes.
THEOREM GuestsCounted ==
  ASSUME SshAssumption
  PROVE  SshSpec => []CountsItsGuests
<1>1. SshInit => SshInv
  BY SshInvInit
<1>2. SshInv /\ [SshNext]_vars => SshInv'
  BY SshInvNext
<1>3. SshInv => CountsItsGuests
  BY SshSafe
<1> QED
  BY <1>1, <1>2, <1>3, PTL DEF SshSpec

\* run: it returns after every session is freed, and nobody is counted.
THEOREM GuestsFreed ==
  ASSUME SshAssumption
  PROVE  SshSpec => []FreesItsGuests
<1>1. SshInit => SshInv
  BY SshInvInit
<1>2. SshInv /\ [SshNext]_vars => SshInv'
  BY SshInvNext
<1>3. SshInv => FreesItsGuests
  BY SshSafe
<1> QED
  BY <1>1, <1>2, <1>3, PTL DEF SshSpec

-----------------------------------------------------------------------------
(* What is logged.                                                         *)

Texts == STRING \cup {NoText}
LineType == [guest : Guests, login : Texts, password : Texts]
DataType == [login : Texts, password : Texts, logged : BOOLEAN]
MessageType == [type : {"service", "password", "none"}, user : Texts, password : Texts]

\* Messages are what the type says, and a command line gives as the limit of attempts a
\* number.
MessagesAssumption ==
  /\ \A line \in CommandLines, mode \in Undefined : Parse(line, mode).t \in Nat
  /\ Messages \in [Guests -> Seq(MessageType)]

\* The lines and what has been taken keep their types.
LogTypes ==
  /\ sent \in [Guests -> Nat] /\ taken \in [Guests -> Nat] /\ attempts \in [Guests -> Nat]
  /\ data \in [Guests -> DataType]
  /\ logFile \in Seq(LineType)
  /\ main # "start" => options.t \in Nat

\* The k-th line of a guest is its k-th password; without one there is at most the line of
\* its end.
LinesMatch(g) ==
  /\ Passwords(g) # {} =>
       /\ Cardinality(Lines(g)) = Cardinality(Passwords(g))
       /\ \A k \in Passwords(g), l \in Lines(g) :
            Rank(Passwords(g), k) = Rank(Lines(g), l) =>
              logFile[l] = [guest |-> g, login |-> Messages[g][k].user,
                            password |-> Messages[g][k].password]
  /\ Passwords(g) = {} =>
       /\ Cardinality(Lines(g)) <= 1 /\ \A l \in Lines(g) : logFile[l].password = NoText
       /\ at[g] \in {"none", "exchange", "auth", "get", "last"} => Lines(g) = {}

\* What auth keeps of a guest: whether it has tried, no password, and how often it has
\* tried.
TriedInv(g) == data[g].logged <=> Passwords(g) # {}
NoSecret(g) == data[g].password = NoText
KeptInv(g) ==
  /\ sent[g] <= Len(Messages[g]) /\ taken[g] <= sent[g]
  /\ attempts[g] = Cardinality(Passwords(g))
  /\ at[g] \in {"none", "exchange"} => taken[g] = 0
  /\ main = "start" => at[g] = "none"
  /\ main # "start" => attempts[g] <= options.t
  /\ at[g] = "get" => attempts[g] < options.t

LogInv == /\ LogTypes
          /\ \A g \in Guests : TriedInv(g) /\ NoSecret(g) /\ KeptInv(g) /\ LinesMatch(g)

-----------------------------------------------------------------------------
(* Positions.                                                              *)

LEMMA InitialFinite ==
  ASSUME NEW n \in Nat, NEW S \in SUBSET (1..n)
  PROVE  IsFiniteSet(S) /\ Cardinality(S) \in Nat
<1>1. IsFiniteSet(1..n)
  BY FS_Interval
<1>2. IsFiniteSet(S)
  BY <1>1, FS_Subset
<1> QED
  BY <1>2, FS_CardinalityType

\* A position behind all others comes last, and the places of the others stay.
LEMMA RankAfter ==
  ASSUME NEW n \in Nat, NEW S \in SUBSET (1..n)
  PROVE  /\ Cardinality(S \cup {n + 1}) = Cardinality(S) + 1
         /\ Rank(S \cup {n + 1}, n + 1) = Cardinality(S) + 1
         /\ \A k \in S : /\ Rank(S \cup {n + 1}, k) = Rank(S, k)
                         /\ Rank(S, k) # Cardinality(S) + 1
<1>1. IsFiniteSet(S) /\ Cardinality(S) \in Nat
  BY InitialFinite
<1>2. n + 1 \notin S
  OBVIOUS
<1>3. Cardinality(S \cup {n + 1}) = Cardinality(S) + 1
  BY <1>1, <1>2, FS_AddElement
<1>4. {j \in S \cup {n + 1} : j <= n + 1} = S \cup {n + 1}
  <2>1. \A j \in S : j <= n + 1
    OBVIOUS
  <2>2. n + 1 <= n + 1
    OBVIOUS
  <2> QED
    BY <2>1, <2>2, Zenon
<1>5. ASSUME NEW k \in S
      PROVE  /\ Rank(S \cup {n + 1}, k) = Rank(S, k)
             /\ Rank(S, k) # Cardinality(S) + 1
  <2>1. {j \in S \cup {n + 1} : j <= k} = {j \in S : j <= k}
    OBVIOUS
  <2>2. Cardinality({j \in S : j <= k}) <= Cardinality(S)
        /\ Cardinality({j \in S : j <= k}) \in Nat
    <3>1. {j \in S : j <= k} \subseteq S
      OBVIOUS
    <3> QED
      BY <1>1, <3>1, FS_Subset, FS_CardinalityType
  <2> QED
    BY <1>1, <2>1, <2>2 DEF Rank
<1> QED
  BY <1>3, <1>4, <1>5 DEF Rank

LEMMA PasswordsFinite ==
  ASSUME LogTypes, NEW g \in Guests
  PROVE  /\ Passwords(g) \in SUBSET (1..taken[g]) /\ Lines(g) \in SUBSET (1..Len(logFile))
         /\ Cardinality(Passwords(g)) \in Nat /\ Cardinality(Lines(g)) \in Nat
<1>1. taken[g] \in Nat /\ Len(logFile) \in Nat
  BY DEF LogTypes
<1>2. Passwords(g) \in SUBSET (1..taken[g]) /\ Lines(g) \in SUBSET (1..Len(logFile))
  BY DEF Passwords, Lines
<1> QED
  BY <1>1, <1>2, InitialFinite

\* A new line is one more of its guest and none of the others.
LEMMA OneMoreLine ==
  ASSUME LogTypes,
         NEW e \in LineType,
         logFile' = Append(logFile, e)
  PROVE  /\ logFile' \in Seq(LineType)
         /\ Lines(e.guest)' = Lines(e.guest) \cup {Len(logFile) + 1}
         /\ logFile'[Len(logFile) + 1] = e
         /\ \A g \in Guests : /\ g # e.guest => Lines(g)' = Lines(g)
                              /\ \A l \in Lines(g) : logFile'[l] = logFile[l]
<1>1. /\ logFile' \in Seq(LineType)
      /\ Len(logFile') = Len(logFile) + 1 /\ Len(logFile) \in Nat
      /\ logFile'[Len(logFile) + 1] = e
      /\ \A l \in 1..Len(logFile) : logFile'[l] = logFile[l]
  BY DEF LogTypes
<1>2. 1..Len(logFile') = (1..Len(logFile)) \cup {Len(logFile) + 1}
  BY <1>1
<1>3. ASSUME NEW g \in Guests
      PROVE  /\ g # e.guest => Lines(g)' = Lines(g)
             /\ g = e.guest => Lines(g)' = Lines(g) \cup {Len(logFile) + 1}
             /\ \A l \in Lines(g) : logFile'[l] = logFile[l]
  BY <1>1, <1>2 DEF Lines
<1>4. e.guest \in Guests
  BY DEF LineType
<1> QED
  BY <1>1, <1>3, <1>4

\* A new message is one more password, or not.
LEMMA OneMoreMessage ==
  ASSUME LogTypes, NEW g \in Guests, taken' = [taken EXCEPT ![g] = @ + 1]
  PROVE  /\ Messages[g][taken[g] + 1].type = "password" =>
              Passwords(g)' = Passwords(g) \cup {taken[g] + 1}
         /\ Messages[g][taken[g] + 1].type # "password" => Passwords(g)' = Passwords(g)
         /\ \A d \in Guests : d # g => Passwords(d)' = Passwords(d)
<1>1. taken[g] \in Nat /\ taken'[g] = taken[g] + 1
  BY DEF LogTypes
<1>2. 1..taken'[g] = (1..taken[g]) \cup {taken[g] + 1}
  BY <1>1
<1>3. \A d \in Guests : d # g => taken'[d] = taken[d]
  BY DEF LogTypes
<1> QED
  BY <1>1, <1>2, <1>3 DEF Passwords

-----------------------------------------------------------------------------
(* The steps.                                                              *)

LEMMA LogInvInit ==
  ASSUME MessagesAssumption, SshInit
  PROVE  LogInv
<1>1. LogTypes
  <2>1. NoData \in DataType
    BY DEF NoData, DataType, Texts
  <2>2. <<>> \in Seq(LineType)
    OBVIOUS
  <2> QED
    BY <2>1, <2>2 DEF SshInit, LogTypes
<1>2. ASSUME NEW g \in Guests
      PROVE  Passwords(g) = {} /\ Lines(g) = {}
  BY DEF SshInit, Passwords, Lines
<1>3. ASSUME NEW g \in Guests
      PROVE  TriedInv(g) /\ NoSecret(g) /\ KeptInv(g) /\ LinesMatch(g)
  <2>1. Messages[g] \in Seq(MessageType)
    BY DEF MessagesAssumption
  <2>2. Len(Messages[g]) >= 0
    BY <2>1
  <2>3. Cardinality(Passwords(g)) = 0 /\ Cardinality(Lines(g)) = 0
    BY <1>2, FS_EmptySet
  <2>4. KeptInv(g)
    BY <2>2, <2>3 DEF SshInit, KeptInv
  <2>5. LinesMatch(g)
    BY <1>2, <2>3 DEF LinesMatch
  <2>6. TriedInv(g) /\ NoSecret(g)
    BY <1>2 DEF SshInit, TriedInv, NoSecret, NoData
  <2> QED
    BY <2>4, <2>5, <2>6
<1> QED
  BY <1>1, <1>3 DEF LogInv

\* How a guest may move while nothing is got from it.
Moves(g) ==
  \/ at'[g] = at[g]
  \/ at[g] = "none" /\ at'[g] = "exchange"
  \/ at[g] = "exchange" /\ at'[g] = "auth"
  \/ at[g] = "auth" /\ at'[g] = "get" /\ attempts[g] # options.t
  \/ at[g] \in {"auth", "get"} /\ at'[g] = "last"
  \/ at'[g] \in {"dec", "free", "done"}

LEMMA QuietStep ==
  ASSUME LogInv, UNCHANGED <<taken, data, attempts, logFile>>,
         sent' \in [Guests -> Nat],
         \A g \in Guests : /\ sent[g] <= sent'[g] /\ sent'[g] <= Len(Messages[g])
                           /\ Moves(g),
         main # "start" => UNCHANGED options /\ main' # "start",
         main' # "start" => options'.t \in Nat,
         main' = "start" => UNCHANGED at
  PROVE  LogInv'
<1>1. LogTypes'
  BY DEF LogInv, LogTypes
<1>2. ASSUME NEW g \in Guests
      PROVE  TriedInv(g)' /\ NoSecret(g)' /\ KeptInv(g)' /\ LinesMatch(g)'
  <2>1. Passwords(g)' = Passwords(g) /\ Lines(g)' = Lines(g)
    BY DEF Passwords, Lines
  <2>2. KeptInv(g) /\ LinesMatch(g) /\ Moves(g) /\ LogTypes
    BY DEF LogInv
  <2>0. TriedInv(g)' /\ NoSecret(g)'
    <3>1. TriedInv(g) /\ NoSecret(g)
      BY DEF LogInv
    <3> QED
      BY <2>1, <3>1 DEF TriedInv, NoSecret
  <2>3. LinesMatch(g)'
    BY <2>1, <2>2 DEF LinesMatch, Moves
  <2>4. taken[g] \in Nat /\ sent[g] \in Nat /\ sent'[g] \in Nat /\ attempts[g] \in Nat
    BY <2>2 DEF LogTypes
  <2>5. taken[g] <= sent'[g]
    BY <2>2, <2>4 DEF KeptInv
  <2>6. main = "start" => attempts[g] = 0
    <3>1. ASSUME main = "start" PROVE Passwords(g) = {}
      BY <2>2, <3>1 DEF KeptInv, Passwords
    <3> QED
      BY <2>2, <3>1, FS_EmptySet DEF KeptInv
  <2>7. main' # "start" => attempts[g] <= options'.t
    BY <2>2, <2>4, <2>6 DEF KeptInv
  <2>8. at'[g] = "get" => attempts[g] < options'.t
    BY <2>2, <2>4, <2>7, <1>1 DEF KeptInv, Moves, LogTypes
  <2>9. KeptInv(g)'
    BY <2>1, <2>2, <2>5, <2>7, <2>8 DEF KeptInv, Moves
  <2> QED
    BY <2>0, <2>3, <2>9
<1> QED
  BY <1>1, <1>2 DEF LogInv

\* What auth keeps of a guest after a message: never its password.
LEMMA KeptData ==
  ASSUME NEW d \in DataType, NEW m \in MessageType
  PROVE  LET t == [Takes(d, m) EXCEPT !.password = NoText]
             n == [d EXCEPT !.login = m.user, !.password = NoText]
         IN /\ t \in DataType /\ t.password = NoText /\ t.logged
            /\ n \in DataType /\ n.password = NoText /\ n.logged = d.logged
<1>1. m.user \in Texts /\ m.password \in Texts /\ NoText \in Texts
  BY DEF MessageType, Texts
<1>2. Takes(d, m) \in DataType /\ Takes(d, m).logged
  BY <1>1 DEF DataType, Takes
<1> DEFINE t == [Takes(d, m) EXCEPT !.password = NoText]
           n == [d EXCEPT !.login = m.user, !.password = NoText]
<1>3. t \in DataType /\ t.password = NoText /\ t.logged
  BY <1>1, <1>2 DEF DataType
<1>4. n \in DataType /\ n.password = NoText /\ n.logged = d.logged
  BY <1>1 DEF DataType
<1> QED
  BY <1>3, <1>4

\* A message of a guest, and what is logged of it.
LEMMA GetStep ==
  ASSUME MessagesAssumption, LogInv, NEW g \in Guests, at \in [Guests -> Places],
         Get(g), at'[g] # "last"
  PROVE  LogInv'
<1> DEFINE m == Messages[g][taken[g] + 1]
<1>1. /\ at[g] = "get" /\ taken[g] < sent[g] /\ taken' = [taken EXCEPT ![g] = @ + 1]
      /\ at' = [at EXCEPT ![g] = "auth"]
      /\ UNCHANGED <<options, main, sent>>
  BY DEF Get, mainVars
<1>2. /\ m.type = "service" => UNCHANGED <<data, attempts, logFile>>
      /\ m.type = "password" =>
           /\ logFile' = Append(logFile, Entry(g, Takes(data[g], m)))
           /\ attempts' = [attempts EXCEPT ![g] = @ + 1]
           /\ data' = [data EXCEPT ![g] = [Takes(@, m) EXCEPT !.password = NoText]]
      /\ m.type = "none" =>
           /\ data' = [data EXCEPT ![g] = [@ EXCEPT !.login = m.user, !.password = NoText]]
           /\ UNCHANGED <<attempts, logFile>>
  BY <1>1 DEF Get
<1>3. LogTypes /\ KeptInv(g) /\ LinesMatch(g) /\ NoSecret(g)
  BY DEF LogInv
<1>4. taken[g] \in Nat /\ sent[g] \in Nat /\ attempts[g] \in Nat
      /\ data[g] \in DataType
  BY <1>3 DEF LogTypes
<1>5. m \in MessageType
  <2>1. Messages[g] \in Seq(MessageType)
    BY DEF MessagesAssumption
  <2>2. taken[g] + 1 \in 1..Len(Messages[g])
    BY <1>1, <1>3, <1>4, <2>1 DEF KeptInv
  <2> QED
    BY <2>1, <2>2
<1>6. ASSUME NEW d \in Guests, d # g
      PROVE  /\ UNCHANGED <<at[d], sent[d], taken[d], data[d], attempts[d]>>
             /\ Passwords(d)' = Passwords(d)
  <2>1. UNCHANGED <<at[d], sent[d], taken[d]>>
    BY <1>1, <1>3, <1>6 DEF LogTypes
  <2>2. UNCHANGED <<data[d], attempts[d]>>
    BY <1>2, <1>3, <1>5, <1>6 DEF LogTypes, MessageType
  <2> QED
    BY <2>1, <2>2, <1>1, <1>3, <1>6, OneMoreMessage
<1>7. taken' \in [Guests -> Nat] /\ sent' \in [Guests -> Nat]
      /\ (main' # "start" => options'.t \in Nat) /\ taken'[g] = taken[g] + 1
      /\ at'[g] = "auth" /\ main # "start"
  BY <1>1, <1>3, <1>4 DEF LogTypes, KeptInv
<1>8. CASE m.type = "password"
  <2> DEFINE e == [guest |-> g, login |-> m.user, password |-> m.password]
  <2>1. Entry(g, Takes(data[g], m)) = e
    BY <1>4, <1>5 DEF Entry, Takes
  <2>2. logFile' = Append(logFile, e)
        /\ e \in LineType /\ e.guest = g
    BY <1>2, <1>5, <1>8, <2>1 DEF MessageType, LineType
  <2>3. /\ logFile' \in Seq(LineType)
        /\ Lines(g)' = Lines(g) \cup {Len(logFile) + 1}
        /\ logFile'[Len(logFile) + 1] = e
        /\ \A d \in Guests : /\ d # g => Lines(d)' = Lines(d)
                             /\ \A l \in Lines(d) : logFile'[l] = logFile[l]
    BY <1>3, <2>2, OneMoreLine
  <2>4. Passwords(g)' = Passwords(g) \cup {taken[g] + 1}
    BY <1>1, <1>3, <1>8, OneMoreMessage
  <2>5. /\ data' \in [Guests -> DataType]
        /\ data'[g].logged /\ data'[g].password = NoText
        /\ attempts' \in [Guests -> Nat] /\ attempts'[g] = attempts[g] + 1
    <3> DEFINE n == [Takes(data[g], m) EXCEPT !.password = NoText]
    <3>1. data' = [data EXCEPT ![g] = n]
      BY <1>2, <1>8
    <3>2. n \in DataType /\ n.logged /\ n.password = NoText
      BY <1>4, <1>5, KeptData
    <3>3. data \in [Guests -> DataType] /\ attempts \in [Guests -> Nat]
      BY <1>3 DEF LogTypes
    <3> HIDE DEF n
    <3>4. data' \in [Guests -> DataType] /\ data'[g] = n
      BY <3>1, <3>2, <3>3
    <3>5. attempts' \in [Guests -> Nat] /\ attempts'[g] = attempts[g] + 1
      BY <1>2, <1>4, <1>8, <3>3
    <3> QED
      BY <3>2, <3>4, <3>5
  <2>6. LogTypes'
    BY <1>7, <2>3, <2>5 DEF LogTypes
  <2>7. /\ Passwords(g) \in SUBSET (1..taken[g]) /\ Lines(g) \in SUBSET (1..Len(logFile))
        /\ Cardinality(Passwords(g)) \in Nat /\ Len(logFile) \in Nat
    BY <1>3, PasswordsFinite DEF LogTypes
  <2>8. /\ Cardinality(Passwords(g)') = Cardinality(Passwords(g)) + 1
        /\ Rank(Passwords(g)', taken[g] + 1) = Cardinality(Passwords(g)) + 1
        /\ \A k \in Passwords(g) : /\ Rank(Passwords(g)', k) = Rank(Passwords(g), k)
                                   /\ Rank(Passwords(g), k) # Cardinality(Passwords(g)) + 1
    <3>1. /\ Cardinality(Passwords(g) \cup {taken[g] + 1}) = Cardinality(Passwords(g)) + 1
          /\ Rank(Passwords(g) \cup {taken[g] + 1}, taken[g] + 1) = Cardinality(Passwords(g)) + 1
          /\ \A k \in Passwords(g) :
               /\ Rank(Passwords(g) \cup {taken[g] + 1}, k) = Rank(Passwords(g), k)
               /\ Rank(Passwords(g), k) # Cardinality(Passwords(g)) + 1
      BY <1>4, <2>7, RankAfter
    <3> QED
      BY <2>4, <3>1
  <2>9. /\ Cardinality(Lines(g)') = Cardinality(Lines(g)) + 1
        /\ Rank(Lines(g)', Len(logFile) + 1) = Cardinality(Lines(g)) + 1
        /\ \A l \in Lines(g) : /\ Rank(Lines(g)', l) = Rank(Lines(g), l)
                               /\ Rank(Lines(g), l) # Cardinality(Lines(g)) + 1
    <3>1. /\ Cardinality(Lines(g) \cup {Len(logFile) + 1}) = Cardinality(Lines(g)) + 1
          /\ Rank(Lines(g) \cup {Len(logFile) + 1}, Len(logFile) + 1) = Cardinality(Lines(g)) + 1
          /\ \A l \in Lines(g) :
               /\ Rank(Lines(g) \cup {Len(logFile) + 1}, l) = Rank(Lines(g), l)
               /\ Rank(Lines(g), l) # Cardinality(Lines(g)) + 1
      BY <2>7, RankAfter
    <3> QED
      BY <2>3, <3>1
  <2>10. Cardinality(Lines(g)) = Cardinality(Passwords(g))
    <3>1. ASSUME Passwords(g) = {} PROVE Lines(g) = {}
      BY <1>1, <1>3, <3>1 DEF LinesMatch
    <3> QED
      BY <1>3, <3>1 DEF LinesMatch
  <2>11. ASSUME NEW k \in Passwords(g)', NEW l \in Lines(g)',
                Rank(Passwords(g)', k) = Rank(Lines(g)', l)
         PROVE  logFile'[l] = [guest |-> g, login |-> Messages[g][k].user,
                               password |-> Messages[g][k].password]
    <3>1. CASE k = taken[g] + 1 /\ l = Len(logFile) + 1
      BY <2>3, <3>1
    <3>2. CASE k \in Passwords(g) /\ l \in Lines(g)
      <4>1. Rank(Passwords(g), k) = Rank(Lines(g), l)
        BY <2>8, <2>9, <2>11, <3>2
      <4>2. Passwords(g) # {}
        BY <3>2
      <4>3. logFile'[l] = logFile[l]
        BY <2>3, <3>2
      <4> QED
        BY <1>3, <3>2, <4>1, <4>2, <4>3 DEF LinesMatch
    <3>3. CASE k = taken[g] + 1 /\ l \in Lines(g)
      BY <2>8, <2>9, <2>10, <2>11, <3>3
    <3>4. CASE k \in Passwords(g) /\ l = Len(logFile) + 1
      BY <2>8, <2>9, <2>10, <2>11, <3>4
    <3> QED
      BY <2>3, <2>4, <3>1, <3>2, <3>3, <3>4
  <2>12. Cardinality(Lines(g)') = Cardinality(Passwords(g)')
    BY <2>8, <2>9, <2>10
  <2>13. LinesMatch(g)'
    BY <2>4, <2>11, <2>12 DEF LinesMatch
  <2>14. TriedInv(g)' /\ NoSecret(g)'
    BY <2>4, <2>5 DEF TriedInv, NoSecret
  <2>15. KeptInv(g)'
    <3>1. attempts'[g] <= options'.t
      BY <1>1, <1>3, <1>4, <1>7, <2>5 DEF KeptInv, LogTypes
    <3> QED
      <4>1. Cardinality(Passwords(g)') = Cardinality(Passwords(g)) + 1
        BY <2>8
      <4>2. attempts'[g] = Cardinality(Passwords(g))'
        BY <1>3, <2>5, <4>1 DEF KeptInv
      <4>3. taken'[g] <= sent'[g] /\ sent'[g] <= Len(Messages[g])
        BY <1>1, <1>3, <1>4, <1>7 DEF KeptInv
      <4>4. main' # "start" /\ at'[g] = "auth"
        BY <1>1, <1>7
      <4> QED
        BY <3>1, <4>2, <4>3, <4>4 DEF KeptInv
  <2>16. ASSUME NEW d \in Guests, d # g
         PROVE  TriedInv(d)' /\ NoSecret(d)' /\ KeptInv(d)' /\ LinesMatch(d)'
    <3>1. KeptInv(d) /\ LinesMatch(d) /\ TriedInv(d) /\ NoSecret(d)
      BY DEF LogInv
    <3>6. TriedInv(d)' /\ NoSecret(d)'
      BY <1>6, <2>16, <3>1 DEF TriedInv, NoSecret
    <3>2. Passwords(d)' = Passwords(d) /\ Lines(d)' = Lines(d)
      BY <1>6, <2>3, <2>16
    <3>3. \A l \in Lines(d) : logFile'[l] = logFile[l]
      BY <2>3
    <3>4. KeptInv(d)'
      BY <1>1, <1>6, <2>16, <3>1, <3>2 DEF KeptInv
    <3>5. LinesMatch(d)'
      BY <1>6, <2>16, <3>1, <3>2, <3>3 DEF LinesMatch
    <3> QED
      BY <3>4, <3>5, <3>6
  <2> QED
    BY <2>6, <2>13, <2>15, <2>16, <2>14 DEF LogInv
<1>9. CASE m.type # "password"
  <2>1. UNCHANGED <<attempts, logFile>>
    BY <1>2, <1>5, <1>9 DEF MessageType
  <2>2. /\ data' \in [Guests -> DataType]
        /\ data'[g].logged = data[g].logged /\ data'[g].password = NoText
    <3>1. data \in [Guests -> DataType]
      BY <1>3 DEF LogTypes
    <3>2. CASE m.type = "service"
      BY <1>2, <1>3, <3>1, <3>2 DEF NoSecret
    <3>3. CASE m.type = "none"
      <4> DEFINE n == [data[g] EXCEPT !.login = m.user, !.password = NoText]
      <4>1. data' = [data EXCEPT ![g] = n]
        BY <1>2, <3>3
      <4>2. n \in DataType /\ n.logged = data[g].logged /\ n.password = NoText
        BY <1>4, <1>5, KeptData
      <4> HIDE DEF n
      <4> QED
        BY <3>1, <4>1, <4>2
    <3> QED
      BY <1>5, <1>9, <3>2, <3>3 DEF MessageType
  <2>3. Passwords(g)' = Passwords(g)
    BY <1>1, <1>3, <1>9, OneMoreMessage
  <2>4. LogTypes'
    BY <1>3, <1>7, <2>1, <2>2 DEF LogTypes
  <2>5. \A d \in Guests : Lines(d)' = Lines(d)
    BY <2>1 DEF Lines
  <2>6. KeptInv(g)' /\ LinesMatch(g)'
    <3>1. KeptInv(g)'
      BY <1>1, <1>3, <1>4, <1>7, <2>1, <2>2, <2>3 DEF KeptInv
    <3>2. LinesMatch(g)'
      BY <1>1, <1>3, <1>7, <2>1, <2>3, <2>5 DEF LinesMatch
    <3> QED
      BY <3>1, <3>2
  <2>7. ASSUME NEW d \in Guests, d # g
        PROVE  TriedInv(d)' /\ NoSecret(d)' /\ KeptInv(d)' /\ LinesMatch(d)'
    <3>1. KeptInv(d) /\ LinesMatch(d) /\ TriedInv(d) /\ NoSecret(d)
      BY DEF LogInv
    <3>5. TriedInv(d)' /\ NoSecret(d)'
      BY <1>6, <2>7, <3>1 DEF TriedInv, NoSecret
    <3>2. Passwords(d)' = Passwords(d)
      BY <1>6, <2>7
    <3>3. KeptInv(d)'
      BY <1>1, <1>6, <2>7, <3>1, <3>2 DEF KeptInv
    <3>4. LinesMatch(d)'
      BY <1>6, <2>1, <2>5, <2>7, <3>1, <3>2 DEF LinesMatch
    <3> QED
      BY <3>3, <3>4, <3>5
  <2>8. TriedInv(g)' /\ NoSecret(g)'
    <3>1. TriedInv(g)
      BY DEF LogInv
    <3> QED
      BY <2>2, <2>3, <3>1 DEF TriedInv, NoSecret
  <2> QED
    BY <2>4, <2>6, <2>7, <2>8 DEF LogInv
<1> QED
  BY <1>8, <1>9

\* A guest that has not tried gets its line when it ends.
LEMMA LogOnceStep ==
  ASSUME LogInv, NEW g \in Guests, at \in [Guests -> Places], LogOnce(g), ~data[g].logged
  PROVE  LogInv'
<1> DEFINE e == Entry(g, data[g])
<1>1. /\ at[g] = "last" /\ at' = [at EXCEPT ![g] = "dec"] /\ logFile' = Append(logFile, e)
      /\ UNCHANGED <<options, main, sent, taken, data, attempts>>
  BY DEF LogOnce, mainVars
<1>2. LogTypes /\ KeptInv(g) /\ LinesMatch(g) /\ TriedInv(g) /\ NoSecret(g)
  BY DEF LogInv
<1>3. Passwords(g) = {}
  BY <1>2 DEF TriedInv
<1>4. Lines(g) = {}
  BY <1>1, <1>2, <1>3 DEF LinesMatch
<1>5. data[g] \in DataType
  BY <1>2 DEF LogTypes
<1>6. e \in LineType /\ e.guest = g /\ e.password = NoText
  BY <1>2, <1>5 DEF Entry, LineType, DataType, NoSecret
<1>7. /\ logFile' \in Seq(LineType)
      /\ Lines(g)' = Lines(g) \cup {Len(logFile) + 1}
      /\ logFile'[Len(logFile) + 1] = e
      /\ \A d \in Guests : /\ d # g => Lines(d)' = Lines(d)
                           /\ \A l \in Lines(d) : logFile'[l] = logFile[l]
  <2> HIDE DEF e
  <2> QED
    BY <1>1, <1>2, <1>6, OneMoreLine
<1>8. LogTypes'
  BY <1>1, <1>2, <1>7 DEF LogTypes
<1>9. \A d \in Guests : Passwords(d)' = Passwords(d)
  BY <1>1 DEF Passwords
<1>10. LinesMatch(g)'
  <2>1. Lines(g)' = {Len(logFile) + 1}
    BY <1>4, <1>7
  <2>2. Cardinality(Lines(g)') = 1
    BY <2>1, FS_Singleton
  <2>3. \A l \in Lines(g)' : logFile'[l].password = NoText
    BY <1>6, <1>7, <2>1
  <2>4. at'[g] = "dec" /\ Passwords(g)' = {}
    BY <1>1, <1>3, <1>9
  <2> QED
    BY <2>2, <2>3, <2>4 DEF LinesMatch
<1>11. ASSUME NEW d \in Guests
       PROVE  TriedInv(d)' /\ NoSecret(d)' /\ KeptInv(d)' /\ (d # g => LinesMatch(d)')
  <2>1. TriedInv(d) /\ NoSecret(d) /\ KeptInv(d) /\ LinesMatch(d) /\ Passwords(d)' = Passwords(d)
    BY <1>9 DEF LogInv
  <2>2. TriedInv(d)' /\ NoSecret(d)'
    BY <1>1, <2>1 DEF TriedInv, NoSecret
  <2>3. at'[d] = at[d] \/ at'[d] = "dec"
    BY <1>1
  <2>4. KeptInv(d)'
    BY <1>1, <1>2, <2>1, <2>3 DEF KeptInv
  <2>5. ASSUME d # g PROVE LinesMatch(d)'
    <3>1. Lines(d)' = Lines(d) /\ \A l \in Lines(d) : logFile'[l] = logFile[l]
      BY <1>7, <2>5
    <3>2. at'[d] = at[d] /\ UNCHANGED <<main, options>>
      BY <1>1, <2>5
    <3> QED
      BY <2>1, <3>1, <3>2 DEF LinesMatch
  <2> QED
    BY <2>2, <2>4, <2>5
<1> QED
  BY <1>8, <1>10, <1>11 DEF LogInv

LEMMA LogInvNext ==
  ASSUME SshAssumption, MessagesAssumption, SshInv, LogInv, [SshNext]_vars
  PROVE  LogInv'
<1>1. at \in [Guests -> Places]
  BY DEF SshInv, SshTypeInv
<1>2. \A g \in Guests : sent[g] <= Len(Messages[g]) /\ sent[g] \in Nat /\ sent[g] <= sent[g]
  BY DEF LogInv, KeptInv, LogTypes
<1>3. sent \in [Guests -> Nat] /\ (main # "start" => options.t \in Nat)
  BY DEF LogInv, LogTypes
<1>4. CASE Main
  <2>1. options'.t \in Nat
    <3>1. PICK line \in CommandLines, mode \in Undefined :
            options' = Parse(line, mode)
      BY <1>4 DEF Main
    <3> QED
      BY <3>1 DEF MessagesAssumption
  <2>2. /\ UNCHANGED <<taken, data, attempts, logFile, sent, at>> /\ main = "start"
        /\ main' # "start"
    BY <1>4 DEF Main, threadVars
  <2> QED
    BY <1>2, <1>3, <2>1, <2>2, QuietStep DEF Moves
<1>5. CASE SignalHandler \/ Loop \/ Join \/ UNCHANGED vars \/ \E g \in Guests : Connect(g)
  <2>1. /\ UNCHANGED <<options, taken, data, attempts, logFile, sent, at>>
        /\ main # "start" => main' # "start"
        /\ main = "start" => main' = "start"
    BY <1>5 DEF SignalHandler, Loop, Join, Connect, vars, mainVars, threadVars
  <2> QED
    BY <1>2, <1>3, <2>1, QuietStep DEF Moves
<1>6. ASSUME NEW g \in Guests, Send(g)
      PROVE  LogInv'
  <2>1. /\ UNCHANGED <<options, main, taken, data, attempts, logFile, at>>
        /\ sent[g] < Len(Messages[g]) /\ sent' = [sent EXCEPT ![g] = @ + 1]
    BY <1>6 DEF Send, mainVars
  <2>2. Len(Messages[g]) \in Nat
    BY DEF MessagesAssumption
  <2>3. sent' \in [Guests -> Nat]
        /\ \A d \in Guests : sent[d] <= sent'[d] /\ sent'[d] <= Len(Messages[d])
    BY <1>2, <1>3, <2>1, <2>2
  <2> QED
    BY <1>3, <2>1, <2>3, QuietStep DEF Moves
<1>7. CASE Accept \/ IncConnections \/ Refuse
  <2>1. /\ UNCHANGED <<options, taken, data, attempts, logFile, sent>>
        /\ main # "start" /\ main' # "start"
    BY <1>7 DEF Accept, IncConnections, Refuse
  <2>2. ASSUME NEW g \in Guests PROVE Moves(g)
    <3>1. CASE Accept
      BY <1>1, <3>1 DEF Accept, Moves
    <3>2. CASE IncConnections
      <4>1. at[guest] = "none"
        BY <3>2 DEF IncConnections, SshInv, WaitingInv, Awaited
      <4> QED
        BY <1>1, <3>2, <4>1 DEF IncConnections, Moves
    <3>3. CASE Refuse
      BY <1>1, <3>3 DEF Refuse, Moves
    <3> QED
      BY <1>7, <3>1, <3>2, <3>3
  <2> QED
    BY <1>2, <1>3, <2>1, <2>2, QuietStep
<1>8. ASSUME NEW g \in Guests,
             \/ Exchange(g) \/ Test(g) \/ DecConnections(g) \/ Free(g)
             \/ (Get(g) /\ at'[g] = "last")
             \/ (LogOnce(g) /\ data[g].logged)
      PROVE  LogInv'
  <2>1. /\ UNCHANGED <<options, main, taken, data, attempts, logFile, sent>>
        /\ \A d \in Guests : d # g => at'[d] = at[d]
        /\ Moves(g)
    <3>1. CASE Exchange(g)
      BY <1>1, <3>1 DEF Exchange, mainVars, Moves
    <3>2. CASE Test(g)
      BY <1>1, <3>2 DEF Test, mainVars, Moves
    <3>3. CASE DecConnections(g) \/ Free(g)
      BY <1>1, <3>3 DEF DecConnections, Free, mainVars, Moves
    <3>4. CASE Get(g) /\ at'[g] = "last"
      BY <1>1, <3>4 DEF Get, mainVars, Moves
    <3>5. CASE LogOnce(g) /\ data[g].logged
      BY <1>1, <3>5 DEF LogOnce, mainVars, Moves
    <3> QED
      BY <1>8, <3>1, <3>2, <3>3, <3>4, <3>5
  <2>2. \A d \in Guests : Moves(d)
    BY <2>1 DEF Moves
  <2>3. main # "start"
    BY <1>8 DEF SshInv, QuietInv, Exchange, Test, DecConnections, Free, Get, LogOnce
  <2> QED
    BY <1>2, <1>3, <2>1, <2>2, <2>3, QuietStep
<1>9. ASSUME NEW g \in Guests, Get(g), at'[g] # "last"
      PROVE  LogInv'
  BY <1>1, <1>9, GetStep
<1>10. ASSUME NEW g \in Guests, LogOnce(g), ~data[g].logged
       PROVE  LogInv'
  BY <1>1, <1>10, LogOnceStep
<1> QED
  BY <1>4, <1>5, <1>6, <1>7, <1>8, <1>9, <1>10 DEF SshNext

\* auth and log: the log holds a line for each password that a guest has tried, in their
\* order, although the case of a password falls through to the one that forgets it.
THEOREM AttemptsLogged ==
  ASSUME SshAssumption, MessagesAssumption
  PROVE  SshSpec => []LogsEachAttempt
<1>1. SshInit => SshInv /\ LogInv
  BY SshInvInit, LogInvInit
<1>2. SshInv /\ LogInv /\ [SshNext]_vars => SshInv' /\ LogInv'
  BY SshInvNext, LogInvNext
<1>3. LogInv => LogsEachAttempt
  <2> SUFFICES ASSUME LogInv, NEW g \in Guests
               PROVE  LinesMatch(g) /\ (main # "start" => Cardinality(Passwords(g)) <= options.t)
    BY DEF LinesMatch, LogsEachAttempt
  <2> QED
    BY DEF LogInv, KeptInv
<1> QED
  BY <1>1, <1>2, <1>3, PTL DEF SshSpec
=============================================================================
