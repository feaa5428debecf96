------------------------------ MODULE MCServers -----------------------------
(***************************************************************************)
(* The programs that speak over a network, checked in one run: the first   *)
(* state of a behaviour chooses one of them, and only that one then moves. *)
(* FtpServer comes with the dialogues of MCFtpServer; it, HttpServer and   *)
(* NameService are extended, so their theorems are about the properties    *)
(* checked here.                                                           *)
(***************************************************************************)
EXTENDS MCFtpServer, HttpServer, NameService

CONSTANTS p1, p2, NotWritten

VARIABLES
  program,
  stage, uri, server, port, path, ei, response, arrived, streambuf, chunkTransfer, data,
  payload,
  options, sshMain, sshGuest, sshBacklog, sshStop, _connections, at, sshSent, sshTaken,
  sshData, attempts, sessions, logFile

-----------------------------------------------------------------------------
(* HTTP: a long request and then a short one on a kept connection, beside another; the
   memory that the buffer is made of may hold the words that keep a connection. *)
MCRequests == [p \in Peers |-> IF p = p1 THEN << <<"dir", "host", "keep">>, <<"file">> >>
                                         ELSE << <<"none", "keep">> >>]
MCMemory == {<<"host", "host", "host">>, <<"host", "host", "keep">>}

(* All addresses of one to three characters; a response with a length, one without, a
   refusal, one in two chunks of which the first ends in a zero, and one whose data ends,
   and holds, what looks like the last chunk. *)
Uris == UNION {[1..n -> {"h", "/", ":"}] : n \in 1..3}
Eol  == <<"CR", "LF">>
Response(status, header, body) == <<status>> \o Eol \o <<header>> \o Eol \o Eol \o body
Responses ==
  {[units |-> Response("200", "length", <<"a", "b">>), length |-> 2, body |-> <<"a", "b">>],
   [units |-> Response("200", "type", <<"a">>), length |-> -1, body |-> <<"a">>],
   [units |-> Response("404", "length", <<"a", "b">>), length |-> 2, body |-> <<>>],
   [units |-> Response("200", "chunked",
                <<"2">> \o Eol \o <<"a", "0">> \o Eol \o <<"1">> \o Eol \o <<"b">> \o Eol
                \o <<"0">> \o Eol \o Eol), length |-> -1, body |-> <<"a", "0", "b">>],
   [units |-> Response("200", "chunked",
                <<"3">> \o Eol \o <<"0">> \o Eol \o Eol
                \o <<"6">> \o Eol \o <<"0">> \o Eol \o Eol \o <<"b">> \o Eol
                \o <<"0">> \o Eol \o Eol), length |-> -1,
     body |-> <<"0">> \o Eol \o <<"0">> \o Eol \o Eol \o <<"b">>]}
C == INSTANCE HttpClient WITH Endpoints <- 2, sent <- response, response <- streambuf

(* Two users of one number whose logins differ in case only; one client asks by login,
   with the case wrong, and for three columns turned round, the other by number, with
   the key that is nobody's before or behind, or with an option given twice. *)
User(name, id) == [L |-> name, U |-> id, G |-> id, N |-> name, H |-> name, S |-> "sh"]
MCUsers   == <<User("root", "0"), User("ada", "1"), User("Root", "0")>>
Option(o) == [opt |-> o, keys |-> <<>>]
List(o, s) == [opt |-> o, keys |-> s]
MCInvocations ==
  [c \in Askers |->
     IF c = p1 THEN {<<Option("h"), Option("p"), Option("U"), List("l", <<"eve", "ROOT">>),
                       Option("G"), Option("L")>>}
     ELSE {<<Option("h"), Option("p"), List("u", <<"7", "0">>), Option("G")>>,
           <<Option("h"), Option("p"), List("u", <<"0", "7">>), Option("G")>>,
           <<Option("h"), Option("p"), List("u", <<"0">>), Option("G"), Option("G")>>}]
MCLower == [k \in {"root", "ada", "Root", "ROOT", "eve"} |->
              IF k \in {"Root", "ROOT"} THEN "root" ELSE k]

(* More passwords than attempts, and a guest who gives none; options that suffice, that
   leave the mode out, with a number below zero, a number too small, a port too large. *)
Message(t, u, p) == [type |-> t, user |-> u, password |-> p]
Messages ==
  [g \in Peers |-> IF g = p1
     THEN <<Message("service", "", ""), Message("password", "ann", "x"),
            Message("password", "bob", "y"), Message("password", "bob", "x")>>
     ELSE <<Message("none", "eve", "")>>]
Set(o, v) == [opt |-> o, value |-> v]
Usual == <<Set("a", "addr"), Set("p", 22), Set("l", "log")>>
CommandLines == {<<Set("m", "ssh"), Set("c", 1), Set("r", "key")>> \o Usual, Usual,
                 <<Set("m", "ssh"), Set("c", -1), Set("r", "key")>> \o Usual,
                 <<Set("m", "ftp"), Set("t", 0)>> \o Usual, <<Set("?", "")>> \o Usual,
                 Usual \o <<Set("m", "ssh"), Set("r", "key"), Set("p", -1)>>}
S == INSTANCE SshServer WITH
       Guests <- Peers, UInt <- 131072, DefaultClients <- 2, DefaultAttempts <- 2, main <- sshMain,
       guest <- sshGuest, backlog <- sshBacklog, stopFlag <- sshStop, sent <- sshSent,
       taken <- sshTaken, data <- sshData

-----------------------------------------------------------------------------
ServersInit ==
  /\ program \in {"ftp", "http", "client", "names", "ssh"}
  /\ Init /\ (program # "ftp" => script = CHOOSE s \in Scripts : TRUE)
  /\ HttpInit /\ (program # "http" => _buffer = [c \in Peers |-> CHOOSE m \in MCMemory : TRUE])
  /\ C!ClientInit /\ NamesInit /\ S!SshInit

clientVarsHttp == <<stage, uri, server, port, path, ei, response, arrived, streambuf,
                    chunkTransfer, data, payload>>
sshVars    == <<options, sshMain, sshGuest, sshBacklog, sshStop, _connections, at, sshSent,
                sshTaken, sshData, attempts, sessions, logFile>>

ServersNext ==
  /\ UNCHANGED program
  /\ \/ /\ program = "ftp" /\ Next
        /\ UNCHANGED <<httpVars, clientVarsHttp, nameVars, sshVars>>
     \/ /\ program = "http" /\ HttpNext
        /\ UNCHANGED <<vars, clientVarsHttp, nameVars, sshVars>>
     \/ /\ program = "client" /\ C!ClientNext
        /\ UNCHANGED <<vars, httpVars, nameVars, sshVars>>
     \/ /\ program = "names" /\ NamesNext
        /\ UNCHANGED <<vars, httpVars, clientVarsHttp, sshVars>>
     \/ /\ program = "ssh" /\ S!SshNext
        /\ UNCHANGED <<vars, httpVars, clientVarsHttp, nameVars>>

ServersSpec == ServersInit /\ [][ServersNext]_<<program, vars, httpVars, clientVarsHttp,
                                               nameVars, sshVars>>
-----------------------------------------------------------------------------
\* The fields of ftpserver.cpp, connection.cpp and client.cpp have the types of the code;
\* the counters of ftpserver.cpp and sshserver.cpp are right, and the latter logs each
\* attempt and frees each session (see the modules).
CountersAreRight ==
  /\ TypeOK /\ HttpTypeOK /\ C!ClientTypeOK /\ AtMostMaxClients
  /\ S!CountsItsGuests /\ S!LogsEachAttempt /\ S!FreesItsGuests

\* connection.cpp and ftpserver.cpp: no client is timed out or turned away too early (see
\* HttpServer and FtpServer).
NobodyIsCutOff == KeptWhileInUse /\ RefusedOnlyWhenFull

\* client.cpp and uriparser.cpp: see HttpClient.
PayloadIsTheBody == C!PayloadIsTheBody /\ C!UriIsSplit
=============================================================================
