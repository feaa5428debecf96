----------------------------- MODULE HttpServer -----------------------------
(***************************************************************************)
(* IPK/proj2: the asynchronous HTTP server without chunked transfer        *)
(* (maxchunk = 0).  One thread runs the handlers of io_service one after   *)
(* the other; an action is one handler.  An asynchronous operation is      *)
(* outstanding from its start to its handler, and the handlers of several  *)
(* connections and of their timers come in any order.                      *)
(*                                                                         *)
(* A request is a sequence of units: its path, other headers, and "keep"   *)
(* for the header Connection: Keep-Alive.                                  *)
(***************************************************************************)
EXTENDS Naturals, Sequences, SequencesExt

CONSTANTS Peers,        \* each connects at most once
          Requests,     \* what each peer sends: from Peers to sequences of requests
          Memory,       \* what _buffer may hold when a Connection is made: sequences of
                        \* units, as long as the array
          BadPaths, Directories, Indexed, Files   \* malformed paths; the tree www

VARIABLES
  running,              \* the acceptor is open and io_service has not been stopped
  manager,              \* the connections of ConnectionManager
  socket,               \* "none", "backlog", "open" or "closed"
  inbox, asked,         \* what has arrived and was not read; how many requests a peer
                        \* has sent
  eager, cut,           \* the peers that did not wait for an answer before the next
                        \* request; those of which a read left something behind
  gone,
  _buffer, keepAlive, _reply,   \* of a Connection
  reading, writing,     \* a handler of async_read_some, of async_write is outstanding
  waiting, ready,       \* async_wait is outstanding; handlers queued without an error
  expired,              \* the deadline of tKeepAlive has passed
  failed,               \* kept connections of which a write has failed
  answered              \* the replies that a peer was sent

httpVars == <<running, manager, socket, inbox, asked, eager, cut, gone, _buffer,
              keepAlive, _reply, reading, writing, waiting, ready, expired, failed, answered>>

NoReply  == [path |-> "", status |-> 0, content |-> ""]
Replies  == [path : STRING, status : {200, 400, 404}, content : STRING]

HttpTypeOK ==
  /\ running \in BOOLEAN /\ manager \subseteq Peers
  /\ socket \in [Peers -> {"none", "backlog", "open", "closed"}]
  /\ gone \subseteq Peers /\ eager \subseteq Peers /\ cut \subseteq Peers /\ failed \subseteq Peers
  /\ {keepAlive, reading, writing, waiting, expired} \subseteq [Peers -> BOOLEAN]
  /\ ready \in [Peers -> Nat]
  /\ \A c \in Peers : /\ asked[c] \in 0..Len(Requests[c])
                      /\ _reply[c] = NoReply \/ _reply[c] \in Replies

\* The constructor does not write to _buffer (connection.h:36).
HttpInit ==
  /\ running = TRUE /\ manager = {} /\ socket = [c \in Peers |-> "none"]
  /\ inbox = [c \in Peers |-> <<>>] /\ asked = [c \in Peers |-> 0]
  /\ eager = {} /\ cut = {} /\ gone = {} /\ failed = {}
  /\ _buffer \in [Peers -> Memory] /\ _reply = [c \in Peers |-> NoReply]
  /\ keepAlive = [c \in Peers |-> FALSE]
  /\ reading = [c \in Peers |-> FALSE] /\ writing = [c \in Peers |-> FALSE]
  /\ waiting = [c \in Peers |-> FALSE] /\ ready = [c \in Peers |-> 0]
  /\ expired = [c \in Peers |-> FALSE] /\ answered = [c \in Peers |-> <<>>]

peerVars   == <<inbox, asked, eager, cut, gone>>
timerVars  == <<waiting, ready, expired>>
answerVars == <<_buffer, keepAlive, _reply, failed, answered>>

-----------------------------------------------------------------------------
(* The peers, and SIGINT or SIGTERM. *)

Arrive(c) == /\ running /\ socket[c] = "none"
             /\ socket' = [socket EXCEPT ![c] = "backlog"]
             /\ UNCHANGED <<running, manager, peerVars, answerVars, reading, writing,
                            timerVars>>

\* A peer that does not wait for the answer to its last request is eager.
Ask(c) == /\ socket[c] \in {"backlog", "open"} /\ c \notin gone
          /\ asked[c] < Len(Requests[c])
          /\ asked' = [asked EXCEPT ![c] = @ + 1]
          /\ inbox' = [inbox EXCEPT ![c] = @ \o Requests[c][asked[c] + 1]]
          /\ eager' = IF Len(answered[c]) < asked[c] THEN eager \cup {c} ELSE eager
          /\ UNCHANGED <<running, manager, socket, cut, gone, answerVars, reading,
                         writing, timerVars>>

Depart(c) == /\ socket[c] \in {"backlog", "open"} /\ c \notin gone
             /\ gone' = gone \cup {c}
             /\ UNCHANGED <<running, manager, socket, inbox, asked, eager, cut, answerVars,
                            reading, writing, timerVars>>

\* The handler of await_stop: no other handler runs after it.
AwaitStop ==
  /\ running /\ running' = FALSE
  /\ socket' = [c \in Peers |-> IF c \in manager THEN "closed" ELSE socket[c]]
  /\ manager' = {}
  /\ UNCHANGED <<peerVars, answerVars, reading, writing, timerVars>>

-----------------------------------------------------------------------------
(* RequestParser. *)

\* handle: a directory gives its index.html or a list, another path a file.
Handle(p) ==
  LET reply(s, body) == [path |-> p, status |-> s, content |-> body]
  IN CASE p \in BadPaths    -> reply(400, "bad request")
       [] p \in Indexed     -> reply(200, "index.html")
       [] p \in Directories \ (Indexed \cup BadPaths) -> reply(200, "list")
       [] p \in Files       -> reply(200, p)
       [] OTHER             -> reply(404, "not found")

\* A mutant of Overlaid: what is read is stored behind what is there, at the first byte
\* not yet used.
Behind(old, new) == old \o new

\* async_read_some stores what it reads at the start of _buffer; the rest keeps what
\* an earlier, longer request left there, and parse is given all of it.
Overlaid(old, new) == new \o SubSeq(old, Len(new) + 1, Len(old))

\* parse: the path is the first word after the method.
Path(buffer) == Head(buffer)

KeepAlive(buffer) == Contains(buffer, "keep")

-----------------------------------------------------------------------------
(* Handlers. *)

\* Somebody holds a pointer to the connection: the manager, or an operation.  When
\* nobody does it is destroyed and its wait is cancelled.
Alive(c) == c \in manager \/ reading[c] \/ writing[c]

\* ConnectionManager::stop, which closes the socket.
Stop(c) == /\ manager' = manager \ {c}
           /\ socket' = [socket EXCEPT ![c] = "closed"]

\* The end of a handler that leaves the connection to its other operations.
Leave == UNCHANGED <<manager, socket>>

accept(c) ==
  /\ running /\ socket[c] = "backlog"
  /\ socket' = [socket EXCEPT ![c] = "open"]
  /\ manager' = manager \cup {c}
  /\ reading' = [reading EXCEPT ![c] = TRUE]
  /\ UNCHANGED <<running, peerVars, answerVars, writing, timerVars>>

\* read: async_read_some gives some of what has arrived, at most the length of _buffer;
\* be it a part of a request or more than one, it is parsed as one and write started.
\* Where inside a unit a request is cut is not told apart.
Read(c) ==
  /\ running /\ reading[c] /\ socket[c] = "open"
  /\ \E n \in 1..Len(inbox[c]) :
       /\ n <= Len(_buffer[c])
       /\ LET b == Overlaid(_buffer[c], SubSeq(inbox[c], 1, n))
          IN /\ _buffer' = [_buffer EXCEPT ![c] = b]
             /\ keepAlive' = [keepAlive EXCEPT ![c] = KeepAlive(b)]
             /\ _reply' = [_reply EXCEPT ![c] = Handle(Path(b))]
       /\ inbox' = [inbox EXCEPT ![c] = SubSeq(@, n + 1, Len(@))]
       /\ cut' = IF n < Len(inbox[c]) THEN cut \cup {c} ELSE cut
  /\ reading' = [reading EXCEPT ![c] = FALSE]
  /\ writing' = [writing EXCEPT ![c] = TRUE]
  /\ UNCHANGED <<running, manager, socket, asked, eager, gone, failed, answered,
                 timerVars>>

\* read: the peer has gone, or the socket was closed meanwhile, which aborts the
\* operation.
ReadFails(c) ==
  /\ running /\ reading[c] /\ reading' = [reading EXCEPT ![c] = FALSE]
  /\ \/ /\ socket[c] = "open" /\ c \in gone
        /\ IF keepAlive[c] THEN Leave ELSE Stop(c)
     \/ socket[c] = "closed" /\ Leave
  /\ UNCHANGED <<running, peerVars, answerVars, writing, timerVars>>

\* expires_from_now cancels the wait, but not a handler that is queued already; a
\* kept connection waits again.  A mutant does not.
NotAgain(c) == FALSE
Again(c)    == keepAlive[c]

Rearm(c, again) == /\ expired' = [expired EXCEPT ![c] = FALSE]
                   /\ waiting' = [waiting EXCEPT ![c] = again]
                   /\ UNCHANGED ready

\* write: the reply was sent; perhaps the socket was closed before its handler ran.
Write(c) ==
  /\ running /\ writing[c] /\ socket[c] \in {"open", "closed"}
  /\ writing' = [writing EXCEPT ![c] = FALSE]
  /\ answered' = [answered EXCEPT ![c] = Append(@, _reply[c])]
  /\ Rearm(c, Again(c))
  /\ reading' = [reading EXCEPT ![c] = keepAlive[c]]
  /\ IF keepAlive[c] THEN Leave ELSE Stop(c)
  /\ UNCHANGED <<running, peerVars, _buffer, keepAlive, _reply, failed>>

\* write: it failed, or was aborted by the close of the socket.
WriteFails(c) ==
  /\ running /\ writing[c] /\ writing' = [writing EXCEPT ![c] = FALSE]
  /\ Rearm(c, FALSE)
  /\ \/ /\ socket[c] = "open" /\ c \in gone
        /\ IF keepAlive[c] THEN failed' = failed \cup {c} /\ Leave
                           ELSE Stop(c) /\ UNCHANGED failed
     \/ socket[c] = "closed" /\ Leave /\ UNCHANGED failed
  /\ UNCHANGED <<running, peerVars, _buffer, keepAlive, _reply, answered, reading>>

\* Thirty seconds have passed since expires_from_now; the handler of the wait is
\* queued.
Expire(c) ==
  /\ running /\ Alive(c) /\ ~expired[c]
  /\ expired' = [expired EXCEPT ![c] = TRUE]
  /\ waiting' = [waiting EXCEPT ![c] = FALSE]
  /\ ready' = [ready EXCEPT ![c] = @ + IF waiting[c] THEN 1 ELSE 0]
  /\ UNCHANGED <<running, manager, socket, peerVars, answerVars, reading, writing>>

\* The deadline may have moved since the handler was queued; a mutant does not look.
TooLateAnyway(c) == TRUE
TooLate(c)       == expired[c]

\* handle_timeout; for a connection destroyed meanwhile, whose memory it reads, the
\* model takes the outcome that the deadline has not passed.
HandleTimeout(c) ==
  /\ running /\ ready[c] > 0
  /\ ready' = [ready EXCEPT ![c] = @ - 1]
  /\ IF Alive(c) /\ TooLate(c) THEN Stop(c) ELSE Leave
  /\ UNCHANGED <<running, peerVars, answerVars, reading, writing, waiting, expired>>

HttpNext == \/ AwaitStop
            \/ \E c \in Peers : \/ Arrive(c) \/ Ask(c) \/ Depart(c)
                                \/ accept(c) \/ Read(c) \/ ReadFails(c) \/ Write(c)
                                \/ WriteFails(c) \/ Expire(c) \/ HandleTimeout(c)
            \/ ~running /\ UNCHANGED httpVars
-----------------------------------------------------------------------------
\* Connection: the server and a peer that waits for each answer before its next
\* request, and each of whose requests is read at once, agree on which request an answer
\* belongs to, whatever an earlier request or the uninitialised memory left in the
\* buffer, and however reads, timers and other connections interleave; a request of it
\* that asks for Keep-Alive is kept.  No reply is replaced while it is being written.
AnswersTheRequests ==
  \A c \in Peers :
    /\ ~(reading[c] /\ writing[c])
    /\ c \notin eager \cup cut =>
         /\ \A k \in 1..Len(answered[c]) : answered[c][k] = Handle(Requests[c][k][1])
         /\ writing[c] => (KeepAlive(Requests[c][asked[c]]) => keepAlive[c])

\* ConnectionManager: an open socket belongs to a connection of the manager, so that
\* a signal closes every one; and the server still waits for something of it, unless
\* a write failed on a kept connection.
NobodyIsForgotten ==
  /\ \A c \in Peers : socket[c] = "open" => c \in manager
  /\ running => \A c \in manager \ failed :
                   reading[c] \/ writing[c] \/ waiting[c] \/ ready[c] > 0

\* handle_timeout, write: a connection that is to be kept, of a peer that is there, is
\* closed only when 30 seconds have passed since its last reply.
KeptWhileInUse ==
  [][\A c \in manager \ manager' :
       ~running' \/ c \in gone \/ ~keepAlive[c] \/ expired[c]]_httpVars
=============================================================================
