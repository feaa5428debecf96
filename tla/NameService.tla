----------------------------- MODULE NameService ----------------------------
(***************************************************************************)
(* IPK/proj1: a client asks for columns of the records of some users, by   *)
(* login or by number; the server answers each client in a thread of its   *)
(* own.  The threads share the position of getpwent in the table of users  *)
(* and the record that it fills, for both belong to the process.           *)
(***************************************************************************)
EXTENDS Naturals, Sequences, FiniteSets, SequencesExt

CONSTANTS Askers,       \* the clients
          Invocations,  \* the command lines of each: sequences of [opt, keys]
          Users,        \* the table: a sequence of records with a field per column
          Lower,        \* what strcasecmp compares of a login
          Junk, NotFound

Columns == <<"L", "U", "G", "N", "H", "S">>    \* in the order of AddToRecords

\* What the command lines and the table are made of.
Options == UNION {ToSet(o) : o \in UNION {Invocations[c] : c \in Askers}}
AnyKey  == UNION {ToSet(o.keys) : o \in Options}
Value   == {Users[r][col] : r \in 1..Len(Users), col \in ToSet(Columns)}

\* Command lines are sequences of options, and the keys of an option a sequence; the users
\* have a value in each column, and no record is the one that says there is none.
NamesAssumption ==
  /\ \A c \in Askers : Invocations[c] \subseteq Seq(Options)
  /\ \A o \in Options : o.keys \in Seq(AnyKey)
  /\ Users \in Seq([ToSet(Columns) -> Value])
  /\ NotFound \notin Seq(Value)
ASSUME NamesHold == NamesAssumption

VARIABLES
  cpc, args, printed,   \* the clients: where they are, what ParseArgs found, their output
  tpc, keys, key, found, records,   \* the threads
  cursor, row,          \* of getpwent
  down,                 \* an exception in a thread has ended the server
  short, disturbed      \* those of whom a read was short; whose searches overlapped

nameVars == <<cpc, args, printed, tpc, keys, key, found, records, cursor, row, down,
              short, disturbed>>
askerVars == <<cpc, args, printed>>
threadVars == <<tpc, keys, key, found, records>>

NoArgs == [flags |-> {}, l |-> <<>>, u |-> <<>>, order |-> <<>>, ok |-> TRUE]

NamesInit ==
  /\ cpc = [c \in Askers |-> "start"] /\ args = [c \in Askers |-> NoArgs]
  /\ printed = [c \in Askers |-> <<>>] /\ tpc = [c \in Askers |-> "none"]
  /\ keys = [c \in Askers |-> <<>>] /\ key = [c \in Askers |-> 1]
  /\ found = [c \in Askers |-> FALSE] /\ records = [c \in Askers |-> <<>>]
  /\ cursor = 0 /\ row = Junk /\ down = FALSE /\ short = {} /\ disturbed = {}

-----------------------------------------------------------------------------
(* ClientArgParser. *)

\* -l and -u take each other back; no flag may be set twice.
SetFlag(s, f) ==
  [s EXCEPT !.ok = @ /\ f \notin s.flags,
            !.flags = (@ \cup {f}) \ CASE f = "l" -> {"u"} [] f = "u" -> {"l"} [] OTHER -> {}]

ParseOption(s, o) ==
  LET t == SetFlag(s, o.opt)
  IN CASE o.opt = "l" -> [t EXCEPT !.l = @ \o o.keys]
       [] o.opt = "u" -> [t EXCEPT !.u = @ \o o.keys]
       [] o.opt \in ToSet(Columns) -> [t EXCEPT !.order = Append(@, o.opt)]
       [] OTHER -> t

CheckValidity(s) == /\ s.ok /\ {"h", "p"} \subseteq s.flags
                    /\ \/ "l" \in s.flags /\ s.l # <<>>
                       \/ "u" \in s.flags /\ s.u # <<>>
                    /\ s.order # <<>>

\* One option after another.
Parsed(options) ==
  LET s[i \in 0..Len(options)] == IF i = 0 THEN NoArgs ELSE ParseOption(s[i - 1], options[i])
  IN s[Len(options)]

ParseArgs(c) ==
  /\ cpc[c] = "start"
  /\ \E options \in Invocations[c] :
       LET s == Parsed(options)
       IN /\ args' = [args EXCEPT ![c] = s]
          /\ cpc' = [cpc EXCEPT ![c] = IF CheckValidity(s) THEN "connect" ELSE "refused"]
  /\ UNCHANGED <<printed, threadVars, cursor, row, down, short, disturbed>>

\* What the flags and data packets say of the arguments a.
ByLogin(a) == "l" \in a.flags
Asked(a)   == IF ByLogin(a) THEN a.l ELSE a.u

-----------------------------------------------------------------------------
(* Sending the request. *)

ConnectTo(c) == /\ cpc[c] = "connect" /\ ~down
                /\ cpc' = [cpc EXCEPT ![c] = "flags"] /\ tpc' = [tpc EXCEPT ![c] = "accepted"]
                /\ UNCHANGED <<args, printed, keys, key, found, records, cursor, row, down,
                               short, disturbed>>

\* The flags packet and the data packet; or the client breaks off between them.
SendData(c) == /\ cpc[c] = "flags"
               /\ \E next \in {"wait", "gone"} : cpc' = [cpc EXCEPT ![c] = next]
               /\ UNCHANGED <<args, printed, threadVars, cursor, row, down, short, disturbed>>

\* Socket::Recv makes one call of read and takes what has come for the packet.
ReceivedPart(s, n) == [k \in 1..Len(s) |-> IF k <= n THEN s[k] ELSE Junk]

RecvPackets(c) ==
  /\ ~down /\ tpc[c] = "accepted"
  /\ \/ /\ cpc[c] = "wait"
        /\ \E n \in 1..Len(Asked(args[c])) :
             /\ keys' = [keys EXCEPT ![c] = ReceivedPart(Asked(args[c]), n)]
             /\ short' = IF n < Len(Asked(args[c])) THEN short \cup {c} ELSE short
        /\ tpc' = [tpc EXCEPT ![c] = "set"] /\ UNCHANGED down
     \/ \* nothing comes: the packet is what was there
        /\ cpc[c] = "gone"
        /\ keys' = [keys EXCEPT ![c] = ReceivedPart(Asked(args[c]), 0)]
        /\ tpc' = [tpc EXCEPT ![c] = "set"] /\ UNCHANGED <<down, short>>
     \/ \* the address has no name, or an opcode is wrong: an exception ends the server
        down' = TRUE /\ UNCHANGED <<keys, short, tpc>>
  /\ UNCHANGED <<askerVars, key, found, records, cursor, row, disturbed>>

-----------------------------------------------------------------------------
(* Passwd: my_getpwnam and my_getpwuid, a step for each call of the library. *)

Searching == {c \in Askers : tpc[c] \in {"get", "compare", "end"}}

Setpwent(c) ==
  /\ ~down /\ tpc[c] = "set" /\ key[c] <= Len(keys[c])
  /\ cursor' = 0 /\ tpc' = [tpc EXCEPT ![c] = "get"]
  /\ found' = [found EXCEPT ![c] = FALSE]
  /\ disturbed' = IF Searching = {} THEN disturbed ELSE disturbed \cup Searching \cup {c}
  /\ UNCHANGED <<askerVars, keys, key, records, row, down, short>>

Getpwent(c) ==
  /\ ~down /\ tpc[c] = "get"
  /\ IF cursor < Len(Users)
     THEN /\ row' = Users[cursor + 1] /\ cursor' = cursor + 1
          /\ tpc' = [tpc EXCEPT ![c] = "compare"]
     ELSE tpc' = [tpc EXCEPT ![c] = "end"] /\ UNCHANGED <<row, cursor>>
  /\ UNCHANGED <<askerVars, keys, key, found, records, down, short, disturbed>>

Matches(k, u, byLogin) ==
  /\ k # Junk
  /\ IF byLogin THEN Lower[k] = Lower[u.L] ELSE k = u.U

\* The search by login ends at the first match; a mutant goes on.
GoesOn(a) == FALSE
Ends(a)   == ByLogin(a)

\* What is taken of a sequence on the way through it: the items with the given indexes.
Taken(s, wanted) ==
  LET t[n \in 0..Len(s)] == IF n = 0 THEN <<>>
                            ELSE IF n \in wanted THEN Append(t[n - 1], s[n]) ELSE t[n - 1]
  IN t

\* The columns that are wanted, in the order of the table.
AddToRecords(a, u) ==
  Taken([n \in 1..Len(Columns) |-> u[Columns[n]]],
        {n \in 1..Len(Columns) : Contains(a.order, Columns[n])})[Len(Columns)]

Compare(c) ==
  /\ ~down /\ tpc[c] = "compare"
  /\ IF Matches(keys[c][key[c]], row, ByLogin(args[c]))
     THEN /\ found' = [found EXCEPT ![c] = TRUE]
          /\ records' = [records EXCEPT ![c] = Append(@, AddToRecords(args[c], row))]
          /\ tpc' = [tpc EXCEPT ![c] = IF Ends(args[c]) THEN "end" ELSE "get"]
     ELSE tpc' = [tpc EXCEPT ![c] = "get"] /\ UNCHANGED <<found, records>>
  /\ UNCHANGED <<askerVars, keys, key, cursor, row, down, short, disturbed>>

\* endpwent: the next getpwent, of any thread, starts from the beginning.
Endpwent(c) ==
  /\ ~down /\ tpc[c] = "end" /\ cursor' = 0
  /\ records' = IF found[c] THEN records ELSE [records EXCEPT ![c] = Append(@, NotFound)]
  /\ key' = [key EXCEPT ![c] = @ + 1] /\ tpc' = [tpc EXCEPT ![c] = "set"]
  /\ UNCHANGED <<askerVars, keys, found, row, down, short, disturbed>>

-----------------------------------------------------------------------------
(* The answer. *)

\* The rest of ProcessData.  To write to a client that has gone may end the server: nobody
\* handles SIGPIPE.
Reply(c) == /\ ~down /\ tpc[c] = "set" /\ key[c] > Len(keys[c])
            /\ \/ tpc' = [tpc EXCEPT ![c] = "done"] /\ UNCHANGED down
               \/ cpc[c] = "gone" /\ down' = TRUE /\ UNCHANGED tpc
            /\ UNCHANGED <<askerVars, keys, key, found, records, cursor, row, short,
                           disturbed>>

\* rightOrder: the place that each column of the command line has in a record.  A
\* mutant counts the columns behind it.
Position(col) == CHOOSE k \in 1..Len(Columns) : Columns[k] = col
RankFromEnd(order, i) ==
  1 + Cardinality({j \in 1..Len(order) : Position(order[i]) < Position(order[j])})
Rank(order, i) ==
  1 + Cardinality({j \in 1..Len(order) : Position(order[i]) > Position(order[j])})

\* What is printed of a key that is nobody's, and of a record.
Missing(k) == <<"was not found", k>>

Line(a, i, r) == IF r = NotFound THEN Missing(Asked(a)[i])
                 ELSE [k \in 1..Len(a.order) |-> r[Rank(a.order, k)]]

\* main of the client: the answer is read, perhaps not all of it, and printed up to
\* what is missing; a line about a key that there is not is an exception.
Show(c) ==
  /\ cpc[c] = "wait" /\ tpc[c] = "done"
  /\ \E n \in 1..Len(records[c]) :
       /\ short' = IF n < Len(records[c]) THEN short \cup {c} ELSE short
       /\ IF \E i \in Len(Asked(args[c])) + 1..n : records[c][i] = NotFound
          THEN cpc' = [cpc EXCEPT ![c] = "aborted"] /\ UNCHANGED printed
          ELSE /\ printed' = [printed EXCEPT ![c] =
                                [i \in 1..n |-> Line(args[c], i, records[c][i])]]
               /\ cpc' = [cpc EXCEPT ![c] = "done"]
  /\ UNCHANGED <<args, threadVars, cursor, row, down, disturbed>>

\* The server has gone.
Lose(c) == /\ down /\ cpc[c] \in {"connect", "wait"} /\ tpc[c] # "done"
           /\ cpc' = [cpc EXCEPT ![c] = "error"]
           /\ UNCHANGED <<args, printed, threadVars, cursor, row, down, short, disturbed>>

NamesNext ==
  \/ \E c \in Askers : \/ ParseArgs(c) \/ ConnectTo(c) \/ SendData(c) \/ RecvPackets(c)
                       \/ Setpwent(c) \/ Getpwent(c) \/ Compare(c) \/ Endpwent(c)
                       \/ Reply(c) \/ Show(c) \/ Lose(c)
  \/ /\ \A c \in Askers : /\ cpc[c] \in {"refused", "gone", "done", "aborted", "error"}
                          /\ down \/ tpc[c] \in {"none", "done"}
     /\ UNCHANGED nameVars

NamesSpec == NamesInit /\ [][NamesNext]_nameVars
-----------------------------------------------------------------------------
\* The rows of the table that a key is for, and the lines that it should give: one for the
\* first login that is the same but for case, one for each user with that number, or one
\* that says there is none.
RowsFor(a, k)    == {r \in 1..Len(Users) : Matches(k, Users[r], ByLogin(a))}
ColumnsOf(a, u)  == [i \in 1..Len(a.order) |-> u[a.order[i]]]
LinesFor(a, k) ==
  LET hits == Taken(Users, RowsFor(a, k))[Len(Users)]
  IN IF hits = <<>> THEN <<Missing(k)>>
     ELSE [i \in 1..(IF ByLogin(a) THEN 1 ELSE Len(hits)) |-> ColumnsOf(a, hits[i])]

\* Two users have the number that was asked for, and a key further on is nobody's: main
\* counts one line per key, and names another.
CountIsOff(a) ==
  \E i, j \in 1..Len(Asked(a)) : /\ i < j /\ Len(LinesFor(a, Asked(a)[i])) > 1
                                 /\ RowsFor(a, Asked(a)[j]) = {}

\* ProcessData, my_getpwnam, my_getpwuid, main: the client prints the columns in the
\* order of its command line, for each key in turn, with the columns and keys sent and
\* answered in other orders; unless a read was short or the searches of two threads
\* overlapped.
AnswersAreRight ==
  \A c \in Askers \ (short \cup disturbed) :
    cpc[c] = "done" /\ ~CountIsOff(args[c]) =>
      printed[c] = FlattenSeq([i \in 1..Len(Asked(args[c])) |->
                                 LinesFor(args[c], Asked(args[c])[i])])
=============================================================================
