----------------------------- MODULE HttpClient -----------------------------
(***************************************************************************)
(* IPK/proj2: the HTTP client, a chain of handlers in which each starts    *)
(* the next operation, and its parser of addresses.  The response comes    *)
(* in segments that end anywhere; async_read_until gives its handler all   *)
(* that has come, the rest of the response perhaps included.               *)
(*                                                                         *)
(* A response is a sequence of units: the status code, header lines, CR,   *)
(* LF, hexadecimal sizes and letters of the body.                          *)
(***************************************************************************)
EXTENDS Integers, Sequences, SequencesExt, TLC

CONSTANTS Uris,         \* sequences of "/", ":" and letters
          Responses,    \* [units, length, body]: what a server may send, the value
                        \* of its Content-Length (or -1) and what it means
          Endpoints,    \* how many addresses a name may resolve to
          NotWritten    \* no payload

VARIABLES
  stage,                \* the operation that is outstanding
  uri, server, port, path,      \* of Uri
  ei,                   \* the endpoints that are left
  sent, arrived,        \* what the server sends; how much has been received
  response,             \* the streambuf
  chunkTransfer, data, payload

vars == <<stage, uri, server, port, path, ei, sent, arrived, response, chunkTransfer,
          data, payload>>

NoResponse == [units |-> <<>>, length |-> -1, body |-> <<>>]

ClientTypeOK ==
  /\ stage \in {"start", "resolve", "connect", "write", "read_header", "read_content",
                "read_data", "read_chunk_data", "over"}
  /\ ei \in 0..Endpoints /\ sent \in Responses \cup {NoResponse}
  /\ arrived \in 0..Len(sent.units) /\ chunkTransfer \in BOOLEAN

ClientInit ==
  /\ stage = "start" /\ uri = <<>> /\ server = <<>> /\ port = <<>> /\ path = <<>>
  /\ ei = 0 /\ sent = NoResponse /\ arrived = 0 /\ response = <<>>
  /\ chunkTransfer = FALSE /\ data = <<>> /\ payload = NotWritten

netVars  == <<sent, arrived>>
dataVars == <<response, chunkTransfer, data, payload>>
uriVars  == <<uri, server, port, path>>

-----------------------------------------------------------------------------
(* Uri. *)

\* The state of the parser after one more character; a mutant stays in the port.
AfterPort(c) == IF c = "/" THEN "s_port" ELSE "s_port"
LeavePort(c) == IF c = "/" THEN "s_path" ELSE "s_port"

UriStep(u, c) ==
  CASE u.state = "s_hostname" ->
         CASE c = "/" -> [u EXCEPT !.state = "s_path"]
           [] c = ":" -> [u EXCEPT !.state = "s_port"]
           [] OTHER   -> [u EXCEPT !.server = Append(@, c)]
    [] u.state = "s_port" ->
         [u EXCEPT !.state = LeavePort(c), !.port = IF c = "/" THEN @ ELSE Append(@, c)]
    [] u.state = "s_path" -> [u EXCEPT !.path = Append(@, c)]

ParseUri(s) ==
  LET u == FoldLeft(UriStep, [state |-> "s_hostname", server |-> <<>>, port |-> <<>>,
                              path |-> <<"/">>], s)
  IN [u EXCEPT !.port = IF @ = <<>> THEN <<"80">> ELSE @]

\* Client::Client.
Start == /\ stage = "start"
         /\ \E s \in Uris : LET u == ParseUri(s)
                            IN uri' = s /\ server' = u.server /\ port' = u.port /\ path' = u.path
         /\ stage' = "resolve"
         /\ UNCHANGED <<ei, netVars, dataVars>>

-----------------------------------------------------------------------------
(* From the name to the request. *)

Resolve == /\ stage = "resolve"
           /\ \/ stage' = "over" /\ UNCHANGED ei       \* an error
              \/ \E n \in 1..Endpoints : ei' = n - 1 /\ stage' = "connect"
           /\ UNCHANGED <<uriVars, netVars, dataVars>>

\* connect: after a failure the next endpoint is tried.
Connect == /\ stage = "connect"
           /\ \/ stage' = "write" /\ UNCHANGED ei
              \/ ei > 0 /\ ei' = ei - 1 /\ UNCHANGED stage
              \/ ei = 0 /\ stage' = "over" /\ UNCHANGED ei
           /\ UNCHANGED <<uriVars, netVars, dataVars>>

\* The request is written and the server decides what it sends.
ReadResponse == /\ stage = "write"
                /\ \/ stage' = "read_header" /\ sent' \in Responses
                   \/ stage' = "over" /\ UNCHANGED sent
                /\ UNCHANGED <<uriVars, ei, arrived, dataVars>>

-----------------------------------------------------------------------------
(* The response. *)

CRLF == <<"CR", "LF">>
Last0 == <<"0">> \o CRLF \o CRLF       \* the last chunk

Has(s, delimiter) == \E k \in 1..Len(s) : IsPrefix(delimiter, SubSeq(s, k, Len(s)))
From(s, delimiter) ==          \* what follows the first delimiter
  LET at == CHOOSE k \in 1..Len(s) :
              /\ IsPrefix(delimiter, SubSeq(s, k, Len(s)))
              /\ \A j \in 1..k - 1 : ~IsPrefix(delimiter, SubSeq(s, j, Len(s)))
  IN SubSeq(s, at + Len(delimiter), Len(s))

\* transfer_at_least of what is missing; a mutant waits for the whole body.
WholeBody == sent.length
Missing   == sent.length - Len(data)

\* What the operation that is outstanding waits for.
Complete ==
  CASE stage = "read_header"     -> Has(response, CRLF)
    [] stage = "read_content"    -> Has(response, CRLF \o CRLF)
    [] stage = "read_data"       -> Len(response) >= Missing
    [] stage = "read_chunk_data" -> Has(response, Last0)

Receiving == stage \in {"read_header", "read_content", "read_data", "read_chunk_data"}

\* One segment more, or the end of the stream, which is an error.
Receive == /\ Receiving /\ ~Complete
           /\ \/ \E n \in arrived + 1..Len(sent.units) :
                   /\ response' = response \o SubSeq(sent.units, arrived + 1, n)
                   /\ arrived' = n /\ UNCHANGED stage
              \/ stage' = "over" /\ UNCHANGED <<response, arrived>>
           /\ UNCHANGED <<uriVars, ei, sent, chunkTransfer, data, payload>>

\* read_header: the status line is taken from the streambuf; log_response writes what
\* there is for any status but 200.
ReadHeader ==
  /\ stage = "read_header" /\ Complete
  /\ response' = From(response, CRLF)
  /\ IF Head(response) = "200" THEN stage' = "read_content" /\ UNCHANGED payload
                               ELSE stage' = "over" /\ payload' = data
  /\ UNCHANGED <<uriVars, ei, netVars, chunkTransfer, data>>

\* How many units a size announces.
SizeOf == ("0" :> 0) @@ ("1" :> 1) @@ ("2" :> 2) @@ ("3" :> 3) @@ ("6" :> 6)

\* What reconstruct_chunks skips after the data of a chunk; a mutant only one character.
SkipOne == 1
Skip    == 2

\* reconstruct_chunks: chunks until one of size 0 or the end; where the last one is not
\* whole it takes what the new array happens to hold.
RECURSIVE Object(_)
Object(d) ==
  IF d = <<>> \/ SizeOf[Head(d)] = 0 THEN <<>>
  ELSE LET n == SizeOf[Head(d)]
       IN [k \in 1..n |-> IF 3 + k <= Len(d) THEN d[3 + k] ELSE "uninitialised"]
            \o Object(SubSeq(d, 4 + n + Skip, Len(d)))

\* read_content: the header lines, then the start of the body.
ReadContent ==
  /\ stage = "read_content" /\ Complete
  /\ LET body    == From(response, CRLF \o CRLF)
         chunked == Contains(SubSeq(response, 1, Len(response) - Len(body)), "chunked")
     IN /\ response' = <<>> /\ chunkTransfer' = chunked
        /\ \/ /\ ~chunked /\ sent.length = -1          \* no Content-Length
              /\ stage' = "over" /\ data' = body /\ UNCHANGED payload
           \/ /\ ~chunked /\ sent.length = Len(body)
              /\ stage' = "over" /\ data' = body /\ payload' = body
           \/ /\ ~chunked /\ sent.length \notin {-1, Len(body)}
              /\ stage' = "read_data" /\ data' = body /\ UNCHANGED payload
           \/ /\ chunked /\ Has(body, Last0)
              /\ stage' = "over" /\ data' = Object(body) /\ payload' = Object(body)
           \/ /\ chunked /\ ~Has(body, Last0)
              /\ stage' = "read_chunk_data" /\ data' = body /\ UNCHANGED payload
  /\ UNCHANGED <<uriVars, ei, netVars>>

\* read_data and read_chunk_data.
ReadRest ==
  /\ stage \in {"read_data", "read_chunk_data"} /\ Complete
  /\ LET all  == data \o response
         whole == IF stage = "read_data" THEN all ELSE Object(all)
     IN data' = whole /\ payload' = whole
  /\ stage' = "over" /\ response' = <<>>
  /\ UNCHANGED <<uriVars, ei, netVars, chunkTransfer>>

ClientNext == \/ Start \/ Resolve \/ Connect \/ ReadResponse
              \/ Receive \/ ReadHeader \/ ReadContent \/ ReadRest
              \/ stage = "over" /\ UNCHANGED vars
-----------------------------------------------------------------------------
\* Uri: the server is what precedes the first slash or colon, the path starts at the
\* first slash, and what is between is the port, 80 if there is nothing.
Cut(s, d)  == IF Contains(s, d) THEN SubSeq(s, 1, CHOOSE k \in 0..Len(s) - 1 :
                                 s[k + 1] = d /\ ~Contains(SubSeq(s, 1, k), d)) ELSE s
UriIsSplit ==
  stage # "start" =>
    LET host == Cut(uri, "/")
    IN /\ server = Cut(host, ":")
       /\ path = <<"/">> \o SubSeq(uri, Len(host) + 2, Len(uri))
       /\ LET rest == SubSeq(host, Len(server) + 2, Len(host))
          IN port = IF rest = <<>> THEN <<"80">> ELSE rest

\* The segments cut the last chunk so that its start ended what read_content saw.
LastChunkIsCut ==
  /\ chunkTransfer
  /\ \E k \in 1..Len(Last0) - 1 : IsSuffix(SubSeq(Last0, 1, k), data)

\* What has come holds the units of a last chunk, but inside the chunks: in their data.
\* A client that sees them when a segment ends takes them for the end.
LooksLikeTheEnd ==
  /\ chunkTransfer /\ arrived < Len(sent.units)
  /\ Has(SubSeq(sent.units, 1, arrived), Last0)

\* read_content, read_data, reconstruct_chunks: the payload is the body, wherever the
\* segments end, unless the data of the chunks looked like the end before all had come;
\* and it is written when everything has arrived, if the header says how long the body is
\* and no segment starts inside the last chunk, which is not looked for across two reads.
PayloadIsTheBody ==
  /\ payload # NotWritten => payload = sent.body \/ LooksLikeTheEnd
  /\ stage = "over" /\ sent # NoResponse /\ arrived = Len(sent.units) =>
       \/ payload # NotWritten \/ LastChunkIsCut
       \/ sent.length = -1 /\ ~Contains(sent.units, "chunked")
=============================================================================
