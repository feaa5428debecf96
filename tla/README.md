# A verification of FIT-Projects

The repository holds the course projects of one student: small, unrelated
programs, several of them concurrent, others built on a data structure whose
correctness is not obvious. This directory models them in TLA+, one family of
modules per program, checks the models with TLC on small instances and proves
the results that matter most with TLAPS for every size.

`PROJECT.json` is the index: `components` and their state of modelling, `runs`,
`map` (which lines of `src/` a definition stands for), `mutants` (a plausible bug
for every property, which the property's run must notice), `hazards`, `findings`
and `theorems`.

    tlc -workers 2 -config MCRiverCrossing2.cfg MCRiverCrossing.tla
    tlapm River_proofs.tla

## 1. Inventory

### Modelled

**River crossing** (`IOS/proj2/rivercrossing.c`). A main process forks two
generators, and these fork p hackers and p serfs. *State*: eight POSIX
semaphores, four shared counters, one counter of printed lines, the processes.
*Operations*: `member()` of every person, `generate()`, `main()`, and the signal
handlers `cleanAndExit` and `childExit`. *Interaction*: shared memory and
semaphores; signals to the process group. *Hard*: up to 2p processes interleave;
one counter serves three barriers in a row; two semaphores call people without
saying whom; a fork fails while others hold the mutex; signals meet handlers that
are already running. *Correct when*: sections exclude each other, every crew is
legal and has one captain, crossings do not overlap, nobody finishes before all
have landed, everybody crosses, and the shared memory is removed once nobody
uses it.

**Ticket lock** (`POS/proj1/main.c`). Threads draw tickets and enter a section in
their order. *State*: `nextTicket`, `actualTicket`, one mutex, one condition
variable. *Operations*: `getticket`, `await`, `advance`. *Hard*: `advance` gives the
mutex back before it increments `actualTicket`, with a load and a store. *Correct
when*: tickets are served in order, one at a time, all of them, and the
program ends.

**Shell** (`POS/proj2/main.c`). A thread reads and parses lines, another forks and
waits. *State*: the flag `run`, a buffer and the parsed program handed over, the
pid in the foreground, children. *Interaction*: two condition variables without a
predicate; SIGCHLD and SIGINT, whose handlers run in any thread. *Hard*: lost
wakeups, waits that return without a signal, `read` interrupted by a signal, `waitpid`
against `wait` in the handler.
*Correct when*: the threads take turns, one process is started for one delivery of a
line, nothing starts after `exit`, and `exit` ends the shell. Its parser (`parseBuffer`,
`clearProgram`) is a state machine over the characters of a line: *correct when* what was
meant is what is parsed, whatever was parsed before, and the arrays suffice.

**Structures of IAL**: a queue in an array (`c203.c`), a singly and a doubly linked
list with an active element (`c201.c`, `c206.c`), a hash table with chains
(`c016.c`), a recursive search tree (`c401.c`), and a search tree traversed and
disposed with explicit stacks (`c402.c`). *State*: arrays, or cells on the heap.
*Hard*: wrap-around, the corner cases of relinking, freed cells, malloc that fails.
*Correct when*: each behaves as the abstract structure and nothing leaks or
dangles.

**FTP server** (`ISA/ftpserver.cpp`). Accepts clients, answers USER and PASS, logs
them. *State*: a counter of connections, a log, a shared address, and a buffer and a place
in the dialogue per connection. *Interaction*: a main thread, a thread per client, TCP,
a signal to end. *Hard*: lines cut into segments, a buffer that keeps older text,
the limit of clients, the end while others are counting. *Correct when*: never more
clients than allowed, a response answers a line, the log holds what was sent, and
the end leaves nobody.

**SSH server** (`ISA/sshserver.cpp`, with the options of `argparser.cpp` and `main.cpp`).
Takes passwords through libssh, logs every one and accepts none. *State*: a counter of
connections, per connection the attempts and what will be logged. *Interaction*: as
the FTP server. *Hard*: the case of a password falls through to the one that
erases it; the counter is lowered before the session is freed. *Correct when*: one
line for each password, never more than the attempts allowed, one line for who gave
none, and the end frees every session.

**HTTP server** (`IPK/proj2`: `Server`, `Connection`, `ConnectionManager`,
`RequestParser`). *State*: a set of connections, per connection a buffer, a reply,
outstanding operations and a timer. *Interaction*: handlers of one `io_service`,
which run one after the other in any order. *Hard*: a handler queued before the
deadline moved, requests that arrive in parts, a buffer whose end is an older request or
what was in memory, connections that nothing waits for. *Correct when*: the k-th answer
answers the k-th request, one that asks to be kept is kept, a connection in use is not
closed, an open socket always belongs to the manager.

**HTTP client** (`IPK/proj2`: `Client`, `Uri`). A chain of handlers from the name to the
body. *Hard*: `async_read_until` hands over more than it waits for, and the end of a chunked
body is looked for in its data, too. *Correct when*: the payload is the body.

**Name service** (`IPK/proj1`). A client asks for columns of user records, the server
answers each in a thread. *State*: packets; the table of users with its one cursor and
one record, which belong to the process and not to a thread. *Hard*: short
reads, searches that overlap, the order of columns on the way there and back. *Correct
when*: undisturbed clients print what they asked for in the order they asked.

**Programs for processors in a line and in a mesh** (`PRL`): an enumeration sort and a
multiplication of matrices over MPI. *Interaction*: messages, in order between two
processes with the same tag only. *Correct when*: the result is sorted, or the product,
in every order of messages, and none is left over.

**Circuits** (`INC/fsm.vhd`, `INP/proj2/cpu.vhd`): a lock with a keypad, and a processor
with eight instructions. A clock is a step. *Hard*: several keys at once, one state
unlike its siblings; waiting for the keyboard, memory that answers a clock later,
`EN` and `RESET` at any clock. *Correct when*: the good message is shown exactly for
a code; the processor runs the program (`Interpreter`). `INP/proj2/README.md` records
that it does not run every program: three tests of nine are marked as errors.

**Signals** (`BMS`): an interleaver around a Reed-Solomon coder, and a demultiplexer of a
transport stream. *Hard*: a last block that is shorter; tables in any order, damaged, cut
into pieces. *Correct when*: a burst is mended; each program is shown with its packets.

**Texts and pictures** (`IJC`): a sieve with a decoder of messages hidden in a picture, a
count of words in a hash table, two variants of `fold`. *Hard*: allocations that fail,
words beyond the maximum, a picture that ends early. *Correct when*: the words are
counted once, no line is too wide and no word lost, what is decoded is what is there.

**Cellular automaton** (`IMS`): a virus in a lattice of cells. *State*: two lattices that
change places, a counter of what the step has changed so far, statistics. *Hard*: a rule
for one cell reads the counter that the cells before it have moved, and every rule has to
move it. *Correct when*: the counter and the statistics agree with the lattice as far as it
is made, and no cell outlives its kind.

### Not modelled

| program | what it is | why not |
|---|---|---|
| chunked mode of the HTTP server (`connection.cpp` 53 to 146, 213 to 239) | replies in chunks at random intervals | several `async_write`s overlap on one socket and one `content` string, which Boost forbids; what is sent is undefined, so there is nothing to state |
| `htab_remove.c`, `htab_statistics.c` of `IJC/proj2` | | no program calls them |
| `IMP/Sources/main.c` | scrolling display | a loop without an input, on hardware; next in the plan |
| `FLP` | minimisation of automata | a pure function; next in the plan |
| `IZP`, `IOS/proj1`, `IPP`, `INP/proj1` | sequential text and number programs | no state beyond a call |
| `IZG`, `ISS` | rasteriser, images | real numbers |
| `IIS`, `IDS` | web shop, database schema | a framework's and a database's concurrency |
| `ITS`, `TIN`, `ITO`, `IUS`, `BIS` | tests of other programs, documents | no program here |
| `PDS` | network tools | left out on purpose |

## 2. Modules

| module | models | is used by |
|---|---|---|
| `Crossing` | abstract: pier, seats, boats, home | `RiverCrossing` implements it |
| `RiverCrossing` | `member()`, semaphores and counters | `RiverProcesses`, `MCRiverCrossing` |
| `RiverProcesses` | main, generators, failures, signals; EXTENDS `RiverCrossing`, and holds the bounds of its run | |
| `River_proofs` | theorems of `RiverCrossing` and `RiverProcesses`; the refinement of `Crossing` | |
| `TicketLock` | the ticket lock | |
| `Shell` | the two threads, children and handlers of the shell | |
| `CommandParser`, `CommandParser_proofs` | `parseBuffer`, `clearProgram`; theorems | `MCCommandParser`, `MCPrograms` |
| `BoundedQueue`, `CursorList`, `Dictionary` | abstract: queue, list, table | the five below |
| `RingQueue` | `c203.c`, implements `BoundedQueue` | `MCStructures` |
| `SList`, `DLList` | `c201.c` and `c206.c`, both implement `CursorList` | `MCStructures` |
| `Containers_proofs` | that `RingQueue`, `DLList`, `SList` and `HashTable` implement what they promise | |
| `HashTable`, `SearchTree` | `c016.c`, `c401.c`, both implement `Dictionary` | `MCStructures` |
| `TreeWalk` | `c402.c` | `MCStructures` |
| `FtpServer` | `ftpserver.cpp` | `MCFtpServer`, `MCServers` |
| `SshServer`, `SshServer_proofs` | `sshserver.cpp`, `argparser.cpp`, `main.cpp` of ISA; theorems | `MCServers` |
| `HttpServer`, `HttpClient` | the two programs of `IPK/proj2` | `MCServers` |
| `Servers_proofs` | theorems of `FtpServer` and `HttpServer` | |
| `NameService` | both programs of `IPK/proj1` | `MCServers` |
| `Threads_proofs` | theorems of `Shell` and of `NameService` | |
| `WordReader` | `fgetw` of `IJC/proj2/io.c` | `WordCount`, `Fold` |
| `WordCount`, `Fold`, `Steganography` | the programs of `IJC` | `MCPrograms` |
| `EnumerationSort`, `MeshMultiply` | the programs of `PRL` | `MCPrograms` |
| `Parallel_proofs` | that `EnumerationSort` sorts, `MeshMultiply` multiplies and `TicketLock` keeps its order | |
| `Keypad` | `INC/fsm.vhd` | `MCPrograms` |
| `Interpreter` | abstract: the meaning of the eight instructions | `Cpu` implements it |
| `Cpu` | `INP/proj2/cpu.vhd` | `MCPrograms` |
| `Automata_proofs` | theorems of `Keypad`, `Cpu`, `CellularAutomaton` and `Interleaver` | |
| `Interleaver`, `Demultiplexor` | the programs of `BMS` | `MCPrograms` |
| `CellularAutomaton` | `CA.cpp` of `IMS` | `MCPrograms` |

### How state and actions correspond to the code

*River crossing.* `sem[s]` is the value of a semaphore, `pc[m]` the place of a
person in `member()`, named for what comes next. A section between
`sem_wait(EXCLUSIVE)` and `sem_post(EXCLUSIVE)` is two steps, `Lock` and the
section's body with its posts and the unlock: all the counters are only touched
there, so nobody can tell a finer division from this one (that sections exclude
each other is itself checked, as `MutualExclusion`). Every other wait is a step
(`Pass`), and so is every post outside a section: the captain's four posts are
four steps of `Steer`. The printed lines and their counter are left out. `at[p]`
of `RiverProcesses` is the place of main and of the two generators, `pending` the
signals that have been sent and not been handled; a handler never returns. At its end
main closes the output, cleans up and exits in three steps, between which a signal may
come.

*Ticket lock.* Each access to the mutex, to the condition variable and to
`actualTicket` outside the mutex is a step; `++actualTicket` is `Load` and `Store`.
`pthread_cond_wait` is `Block` (unlock and sleep, one step, as POSIX has it),
`Resume` (lock again), and `WakeUp` lets it return without cause.

*Shell.* `signalThread` and `waitThread` each lock the mutex, act and unlock it,
and touch nothing else, so each is one step; `waitThread` then sleeps. The wait has no
predicate (line 56), so `WakesUp` lets a sleeper go on at any moment as if it had been
signalled. Two history variables, which no action of the code reads, say what the
properties need: `due` is what the buffer holds and no process was started for (a line
typed, or one that an interrupted `read` delivers again), `noted` whether a wait has
returned without a signal and whether a process was started when `run` was FALSE. A handler is
run by whichever thread the kernel picks. A child may end at any time; the
interval between `fork` and `exec` in the child is left out.

*Parser.* A step is one turn of the loop of `parseBuffer`: a letter is read in one of
the six states of the code. A line is typed by `Begin` and its program dropped by
`Clear`, so that lines follow each other in one structure. Of the characters five
kinds are told apart: space, `<`, `>`, `&` and any other; a name is its first and
last position.

*Structures.* A function of C is an action, because nothing runs beside it; only
`TreeWalk` takes a step for each turn of an outer loop, since its stacks are the
subject. Cells of the heap are model values; `malloc` may fail at every call;
`allocated` is what must be in the structure. Which free cell `malloc` gives makes
no difference, since the code compares pointers for equality only, so the model
picks one. Freed cells are blank: the code's own reads of freed memory would show
as a wrong result.

*FTP server.* A line is a sequence of units (a verb, letters, CR, LF); the client
sends them in segments of any length, and `recv` returns what is there, up to the
room in the buffer. The limits of the buffer are scaled down with the units. `accept`
stores the address with the connection, one step, and the lookup of the name when
the thread starts is another, which is where `LogsOwnAddress` fails. An `accept` that fails
leaves the loop. Before its second character a line ends in `buffer[-1]` for the code
(line 196); that is the highest byte of the size of the heap block, never a CR, so
`IsReadyToParse` takes a line of one character for unfinished.

*SSH server.* The counter and the threads are those of `FtpServer`; a message is what
`ssh_message_get` returns. The options are parsed in the first step, from a
mode that the memory happens to hold, since no constructor sets it: with one that is none of
the three, the SSH server runs without the test for a key. Numbers go into an unsigned int, so
-1 clients are very many; what `getopt` does not know is refused.

*HTTP.* An action of `HttpServer` is a handler, as nothing interrupts one; `reading`,
`writing` and `waiting` say which operations are outstanding, `ready` counts the handlers
of the timer that are queued and cannot be cancelled any more. `shared_from_this` is
`Alive`: who is in the manager or has an operation outstanding is not destroyed. `Read` takes
any part of what has arrived, at most the length of `_buffer`, and parses the buffer as
one request, over what an older one or the uninitialised memory (`Memory`) has left there; `cut`
remembers whom it left something of. A request is a path and words that keep a connection or do
not, so a cut falls between these and not inside one. In `HttpClient` a response is a sequence of units, and `Receive` brings any number of them.

*Name service.* A call of `getpwent` is a step and so is what is done with the record,
since another thread's call may come between the two and overwrite it. An exception in a
thread ends the server: for an address without a name, a wrong opcode, and so does SIGPIPE when
a client has gone. The data packet may come in parts; the four bytes of the flags packet come
together.

*Processors.* A receive with everything up to the next one is a step; a channel is a
sequence for each sender, receiver and tag, which is what MPI guarantees.

*Circuits.* A step is a rising edge: registers take the values that the
combinational processes give for the present state. What a state leaves unset in the
code (`DATA_RDWR`) is a latch and is kept in a variable.

*Signals and texts.* A symbol of the interleaver is the pair of its word and its index,
so that it is told apart from all others; a packet is the table that it carries. What
parsing bytes to tables does is left out, but for where it reads too far.

*Cellular automaton.* A cell is a step, `Gen`, whose disjuncts are the rules in the order of
the code; `checkProbability` is a choice. How often a draw may infect or heal, make a cell
defective, or leave one dead is bounded by `MaxSurprises`. Of the quotients r/s the model
compares the products, since numbers of cells are small enough for doubles to tell
different quotients apart.

## 3. Runs

| run | question | instance | result |
|---|---|---|---|
| `one_boat` | do sections, barriers and FINISH work from the first fork to the last exit, and does everybody cross? | 2 hackers, 2 serfs, fairness | holds |
| `two_boats` | are two crossings in a row legal, separate, and steps of `Crossing`? | 4 and 4, from the moment all wait for the pier | holds |
| `failed_call` | does a failing `init` or `fork`, or an interrupt, take everybody down and leave no memory? | 2 and 2, one failure or one interrupt | holds |
| `tickets` | are tickets served in order, one at a time, all? | 3 threads, 4 tickets | holds |
| `tickets_end` | does the program end? | 2 threads, 2 tickets, fairness | **violated** |
| `shell` | do the threads take turns, does one process start for one delivery and none after exit? | 2 lines, 3 processes, 1 Ctrl-C | holds |
| `shell_exit` | does `execWorker` learn of the end? | 1 line | **violated** |
| `programs` | do the programs that compute from an input give what they should? | see below | holds |
| `four_words` | do the arguments fit? | 4 words | **violated** |
| `structures` | do the six structures implement their abstractions? | queue of 3, lists and table of 3 cells, trees of 4 and 5 | holds |
| `servers` | limits, dialogues, buffers, timers, logs, ends of the five programs on a network | 2 clients each, 1 place | holds |
| `ftp_address` | does the FTP log name the client's own address? | 2 clients, 1 place | **violated** |

The first state of a behaviour of `MCStructures`, `MCServers` and `MCPrograms` chooses one
of their components, and only its variables then move: one run asks one question of
several programs that share no state. A property that is the conjunction of several, one
for each of these programs, is named for the question.

### Why the bounds are enough

- `one_boat`: p = 2 is the least p, and it is one boat of two and two. Everything
  before the pier is in it: forks race persons that are already waiting.
- `two_boats`: with p = 4 there are all three mixes of a crew, in both orders, and
  remainders on the pier (3 + 1, 1 + 3) that must not be taken. The run starts in the
  reachable state in which all have printed "started" (forks are covered above), and
  uses symmetry within each kind, which is sound for its invariants and for an
  abstract step; the liveness in `one_boat` runs without symmetry.
- `failed_call`: one failure is enough to start the way out, and every handler then
  signals again. Interrupts are explored only where all have landed (constraint
  `LateInterrupt`): before that they do what a failed fork does; at the end they race
  the regular exits, and that is the interesting case. The graph of this model has no
  cycles (every step moves somebody on), so absence of deadlock is termination.
- `tickets`: with three threads one is served, one is asleep and one is between test
  and wait, all that the lock tells apart.
- `shell`: two lines show each hand-over in both directions; `MaxChildren` lets a
  background process outlive the next foreground one. Deadlock is not checked in the two
  runs of the shell: its threads do sleep for ever, the subject of `shell_exit`.
- `programs`, by component. *Parser*: up to three items, and all lines of five
  letters; the machine has a memory of one item and one letter, and lines follow one
  another, which `clearProgram` must get right. *Texts*: for `wordcount` every text of five
  characters from two letters, space and newline, for `fold` every text of none, three
  and six from one letter, space and newline: longer than the longest word, which has two
  and three letters; widths around that. *Sort*: two and three numbers with all patterns
  of equality. *Mesh*: shapes 2 by 2, 1 by 3 and 2 by 1 with numbers too many, and two jobs
  that do not fit. *Keypad*: every sequence of presses; a message of two clocks. *Processor*:
  a loop that moves between cells, a loop over what is typed that holds a character which
  is no instruction, an underflow of a cell, and three programs that run into the errors on
  record; one fall of `EN` or one reset at any moment.
  *Interleaver*: lengths from 1 to 15 around words of 4 and 4, bursts of 1 to 7, which is
  more than can be mended. *Demultiplexer*: up to six of nine packets in every order; among
  them the SDT in two pieces and its repetition, a damaged table, damaged data.
  *Cells*: lattices of 3 by 3, the least that the program takes, with spans of life of three
  and two steps, so that cells die, are replaced and get infected within four steps; two
  surprising draws.
  *Pictures*: the 512 pictures of 24 bytes that differ at a prime, with two bits to a
  character and primes below four limits.
- `structures`: three cells give the first, an inner and the last element; four
  nodes are the least tree in which the rightmost node of the left subtree is not
  its root and has a left child; five fill the stacks of `TreeWalk`. The states are
  compared by `View`, without the record of the last call, which no action reads; steps
  are still compared with the abstract ones including that record.
- `servers`: one place and two clients make one of them turned away or wait; the FTP
  buffer of three units must grow within the longer lines. At the HTTP server one
  connection is kept and asks a long and then a short thing, beside another one; each is read
  in all possible parts, into memory that holds the words of a request with and without
  Keep-Alive; a timer may fire at any moment. Five responses with all their segmentations: with
  and without a length, refused, in chunks with a zero at the end of the data, in chunks whose data
  look like the last chunk. Of three users two share a number, and their logins differ in case
  only; one client asks for three columns in a cyclic order, which is not its own inverse. The
  options of the SSH server cover a missing mode, -1 clients, a number and a port out of range, and
  an unknown option.

### Fairness

- Every process and thread that can take a step gets the processor again and again:
  weak fairness of each person (`RiverCrossing`), of each thread's own steps (`Shell`).
- `TicketLock` gives its workers strong fairness: a mutex that is free again and again
  is won at some time. With the weaker assumption `Terminates` would fail for a reason
  that is the scheduler's and not the code's; as it stands it fails although the
  mutex is fair.
- No fairness for the user, for the end of a child, for Ctrl-C, for clients, for
  wakeups without cause (`WakesUp`, `WakeUp`).

### What the findings say

1. `advance()` of the ticket lock gives the mutex away before it increments and
   broadcasts. Both can fall between another thread's test and its wait: the broadcast
   is lost, and if that thread has the next ticket nobody will broadcast again. Safety
   is not touched: `InOrder`, `OneServed` hold, and are proved.
2. The shell's `waitThread` waits without testing `run`: the signal that tells
   `execWorker` to end can come before it waits.
3. With four words on a line (and any multiple at which the array has just
   filled) the closing null pointer of `args` is stored behind the array.
4. The FTP server keeps the address of the last client accepted in a member that the
   threads read when they start; a client that is turned away meanwhile is enough
   to give another one's log the wrong address.

### What a property leaves out

- `MemoryIsManaged` does not speak of a signal between `shm_open` and the calls of
  `signal`: memory stays behind there.
- `PromptMeansIdle` speaks of behaviours in which no wait has returned without a signal, and so
  does `StartsWhatIsDue` where it says that every process belongs to a delivery and none starts
  after the exit. With such a return the claims fail in the code: `execWorker` parses a line that
  is being read, or starts the same one twice; it may have tested `run` when `exit` clears it, and
  then forks once more. What holds even so is in `StartsWhatIsDue`: at most that one process is
  started after the exit. A line that `parseWorker` delivers again because a signal has
  interrupted `read` counts as a delivery of its own (`due = "again"`): the code does start it again.
- `LinesAreParsed` says what is parsed of lines that are `Permitted`. The others are those in
  which an `&` directly behind a name is not the last letter (the machine stays in the name and
  stores it again, with the `&`), a mark follows `<` or `>` (it becomes the name of the file), or
  `<` comes right behind the name of an input, or `>` behind that of an output (it becomes a part
  of the name). Nothing in the repository says what such a line means. The part
  `ArgumentsAreWords` covers all lines.
- `LogsWhatWasSent` and `RepliesAnswerLines` leave clients out that break off in the
  middle of a line: for them the end of the stream passes for a line.
- The other half of the FTP server's hang-up: the connection keeps its place, as `receive`
  returns the same as after a timeout. Nothing in the code promises otherwise.
- `AnswersTheRequests` speaks of peers that wait for an answer before they ask again (of
  two requests that arrive together the server answers the first), and of which every request was
  read at once (not in `cut`): `connection.cpp` parses whatever `async_read_some` has given, so a
  request that arrives in two segments, or is longer than 8192 bytes, gets two answers, the
  second to whatever the rest begins with. A connection whose request does not ask for Keep-Alive
  may be kept all the same, because of what an older request or the memory has left behind it
  in the buffer; only the other direction is stated.
- `NobodyIsForgotten` leaves out kept connections of which a write has failed; the server
  holds them until it ends. `NobodyIsCutOff` allows the timer its 30 seconds.
- `PayloadIsTheBody` leaves out segments that cut the last chunk (`LastChunkIsCut`): the
  client then looks for a whole last chunk that never comes. It leaves out, too, a payload that
  was written when what had come held `0 CR LF CR LF` inside the chunks (`LooksLikeTheEnd`): chunk
  data that end in `0 CR LF`, or a size that ends in 0 before data that begin with CR LF.
  `client.cpp` 139 and 145 stop at the first such place; if a segment ends there the later chunks
  are lost, and the last one is filled up with what the new array holds. Responses without a length
  are never written, which is what `read_content` says it does.
- `AnswersAreRight` leaves out a client one of whose reads was short, and two clients whose
  searches overlapped; and command lines with a key that is nobody's behind a number that two
  users share, since the client counts one line for each key and names another key
  (`CountIsOff`).
- `DataIsFound`: a file whose length is a multiple of `dataSize` loses its last word in the
  decoder (`Decoder.cpp` 81), so it is left out; pieces of the SDT that are not in order may
  show anything (`garbled`); what `steg-decode` reads behind a picture is arbitrary.
  `bindMaps` erases from a set that it walks; the model takes the outcome that it works.
- `RunsThePrograms` ends where `EN` falls in a state that counts (`paused`): the counters
  do not look at `EN`. And it ends where a program meets one of the errors that
  `src/INP/proj2/README.md` records (`beyond`): the pointer leaves the data (test 4, `<+<++<+++`;
  the processor goes on into the memory of the program, 0 to 0xFFF, and line 18 of that file says
  that it writes there), a loop should be skipped (test 7: the test at `[` reads the
  instruction and not the cell), or has another loop in it (test 9: `]` goes back to the nearest
  `[`; line 14 says that nested loops are not supported). `Interpreter` says what the program
  means: the pointer turns within the data, a loop is skipped when its cell is zero. Where the
  processor departs from it, the model of the processor follows the code, and nothing is claimed.
- `KeypadOpens` takes wrong keys before the eighth digit of the first code for no keys,
  as TEST1_7 does: that this state lacks the branch for a wrong key (`fsm.vhd` 123) is not
  noticed.
- `TextIsFolded` compares the two variants on texts in which no line begins or ends with a
  space and no word is longer than the maximum of `fold.c`.
- `HashInRange` (in `HashTable`, no run) holds for keys of ASCII characters only.
- `HealthyAreCounted` counts a cell that rule 2c has just made defective among the infected of
  its kind, because the code does not lower the counter there: the share of resistant cells
  that rule 1c compares is off by such cells until the end of the step.
- Two remarks where the C standard says "undefined" and the build does no harm: the
  shell writes `buffer[-2]` when `read` returns -1, which hits padding; and a file is
  closed twice in `cleanAndExit`, which the model lets crash or go on (`Cleans`).

## 4. Proofs

`tlapm` proves, for every value of the constants:

**`River_proofs`**, first part: `RiverCrossing` (from the `Assumption` of the module:
hackers and serfs are disjoint finite sets of equal, even size, as argument parsing
guarantees).
- `TypeCorrect`. TypeOK is not inductive: that a captain posts at most four times
  needs `PostedInv`, which ties `posted` to his place, and that the counters do not
  become negative needs `CrewIsAvailable`.
- `Mutex`. `MutexInv` ties the semaphore to who is inside: it is one and nobody is, or
  zero and exactly one is.
- `FinishBarrier`. `FinishInv`: `waitingToFinish` is the number of those who have
  landed for good, and FINISH is positive only if that is everybody. Cardinalities
  from `FiniteSetTheorems`.

Second part: the crews (the same assumption, so every even p).
- `PierCounted`, `Crews`, `Together`, `OneCrossing`: the pier's counters count who waits
  there; a boat carries two and two or four of a kind and one captain; a crew leaves
  together; crossings do not overlap.
- `SemaphoresImplement`: every behaviour of `RiverCrossing` is one of `Crossing`, under the
  mapping of `RiverCrossing` (a seat is taken with the section that picks the crew; the
  crossing happens where the captain sails).

  All from one invariant, `CrewInv`. No property of these is inductive, because what keeps
  two crossings apart is the mutex that a captain holds from `Group` until he has
  landed, while the others are held together by numbers only: the calls on HACKER
  and SERF that nobody has answered yet, `waitingToBoard`, and the posts the captain still
  owes. `CrossingInv` says how many persons are at each place in each of four phases:
  *Open* (nobody crosses), *Boarding* (the captain has called, seats fill up), *Roles* (the
  boat is full, roles are printed), *Landing* (the captain has sailed, posts are owed).
  Each step then stays in its phase or enters the next, and the four phases exclude each
  other; counting persons in a set that gains or loses one is a lemma of its own, stated
  without the module's variables.

Third part: `RiverProcesses`, with any number of failed calls and interrupts
(`BoundsAssumption` says only that the bounds are numbers).
- `ProcessesImplementPersons`: every behaviour of the processes is one of `RiverCrossing`, and
  with it `CrossingSurvives`: what was proved of the crossing holds at any moment of a
  behaviour in which calls fail and processes are interrupted and killed.
- `NoneOrphaned`, `MemoryManaged`, `ProcessTypes`, from one invariant, `IPInv`. Its parts: main
  forks each generator once and closes, cleans up and exits when both are over (`MainInv`); a generator forks only
  while `childExit` is installed, which waits for the persons, so none lives when it is
  over (`GeneratorInv`); main has cleaned up before it kills its group (`RemovedInv`); without a
  failure or an interrupt nobody leaves the regular course (`CalmInv`). That `cleanup()`
  runs at most seven times in all needs a count of what each process may still do: a signal
  is blocked while its handler runs and after it, so each process has one credit for
  each signal and one while it is on the way to `cleanup()`, as main is from its first step
  (`CreditInv`).

**`Parallel_proofs`**, last part: `TicketLock` (any set of threads, any number of passes;
`TicketAssumption`).
- `TypeCorrect`, `TicketsInOrder`, `OneAtATime`, `AllTicketsServed`, from one invariant `IInv`: tickets in
  hand are distinct and below `nextTicket` (`TicketInv`); who is served has the ticket
  `actualTicket`, or has just stored its successor (`TurnInv`); what has been printed is
  0, 1, ... up to that one (`PrintInv`). Mutual exclusion of the served does not
  come from the mutex, which is given back early, but from the distinct tickets; that
  is why the unprotected increment is safe. `AllTicketsServed` adds `HeldInv`: a ticket
  that has been drawn and not printed is in somebody's hand, and workers leave only when all
  tickets are drawn. It assumes that there is a worker (`Threads # {}`): `main.c` takes any
  number, and without one it ends with all tickets left.

**`Containers_proofs`**. The queue (any length of the array, any alphabet; `QueueAssumption`).
- `QueueTypeCorrect`: `nextIndex` stays in the array.
- `RingIsAQueue`: the array implements `BoundedQueue`. The contents, read off
  from `f_index` to `b_index`, are a sequence (`ContentsAreASequence`); `queueUp`
  appends to it (`UpIsAppend`), `queueRemove` takes its head (`RemovingIsTail`); then each
  operation is the abstract one.

The two lists (any finite memory that NULL is not in, `ListAssumption`, any set of values;
`malloc` may fail at any call):
- `ListIsWhole`, `PointersImplementList`: `DLList` keeps one chain and implements `CursorList`
  (`ImplementsList`); `SingleIsWhole`, `SingleImplementsList`: so does `SList`, which is taken
  over the same variables with `rptr` for its `ptr`. That the cells are allocated is not
  enough to know what a deletion reads next to the active element. `ListInv` says it all at
  once: there is a sequence of cells, without repetition, that has exactly the allocated
  ones, `rptr` leads through it from `First`, `lptr` back from `Last`, and `Act` is on it. For a
  singly linked list its half `OneWay` is enough. `ThroughInsert`, `ThroughRemove`, `BackInsert` and
  `BackRemove` say what links put a cell in at a place of the sequence, or take one out,
  for any place and any two fields; `HeldInsert`, `PlaceInsert` and their twins say what that
  does to the values and to the place of the active element; each function is then one of
  the two at its own place. The chain that a field leads through is one (`LeadsIsOne`): two
  would differ at a least place. So nothing is proved by induction over the list, which the
  provers could not do, and the model says the chain by CHOOSE and not by recursion.

The hash table (any finite memory, any keys and values, any length):
- `TableIsSound`, `ChainsImplementTable`: `HashTable`, on the same cells, implements
  `Dictionary`. That the chains are sound is not inductive: a search that finds every item by
  its key does not say that the deleted item's successors stay on the chain. `HashInv` says
  that the chain of every index is a sequence as above of exactly the items with that index
  (`Bucket`), and that no two items have the same key; so each operation is
  `ThroughInsert` or `ThroughRemove` on one chain, and the others keep their links
  (`HashOther`). The theorems suppose that no key has a negative sum (`SumsAreNatural`), from
  which the comment on line 49 follows (`HashesInto`); the code does not see to it, as
  `char` is signed. That the characters of ASCII have such sums is induction over a key and not
  proved.

**`Threads_proofs`**. Of the shell (any number of lines, processes, interrupts;
`ShellAssumption`):
- `ShellTypeCorrect`; `TurnsAreTaken` (`PromptMeansIdle`) from `TurnInv`: as long as no wait has
  returned without a signal, `execWorker` is not on the way from its wait to `clearProgram` while
  `parseWorker` does not wait. It is inductive because each thread is then woken by the other
  only, and goes to wait after it has signalled; where a signal is lost nobody is woken.
- `StartsAreDue` (`StartsWhatIsDue`, an action property). Without such a return, what is delivered
  is due and stays so until the fork (`DueInv`), and between the test of `run` and `fork` only
  `execWorker` itself could clear it (`ForkInv`). With any number of such returns, a process that
  is started after the exit is the last one, because `execWorker` then finds `run` FALSE at its
  next test (`LateInv`, which needs that whoever says good-bye has cleared it, `ByeInv`).

Of the name service (any clients, command lines and table of users; `NamesAssumption` says that
command lines are sequences of options, that every user has a value in each column and that no
record is the one that says there is none):
- `NamesAnswersAreRight` (`AnswersAreRight`): however the steps of the threads interleave, a
  client whose reads were whole and whose searches met no other prints what the table has for
  its keys. The property speaks of the end only; what holds on the way is `Serves`: the records
  of a thread, as its client will print them (`Shown`), are the lines for the keys it is done
  with (`AnswerTo`) and those for the rows up to the cursor (`Says`), `found` tells whether there
  are any, and in a search by login there are none yet (`Reads`). The cursor and the record of
  `getpwent` belong to all, so this is inductive only with `AloneInv`: one in a search that
  nobody has disturbed is the only one there. Each call of the library then takes `Serves` a
  step further (`ServeSet` to `ServeDone`), and a step of another thread does not reach it
  (`NamesStep`). A record holds the columns in the order of the table; `RankCounts` says that
  `rightOrder` finds each one again, as the columns asked for that come before it in the table
  are counted once each, no flag being set twice (`ArgsParsed`). A line about a key that is
  nobody's names the right key, as each key before it has one line (`OneLineEach`). What a
  recursive function collects is carried on from a beginning (`CarriedOn`, `OneFunction`), which
  is where a least index stands for induction (`Least`).

**`CommandParser_proofs`** (lines of any length, one after another; `InputsAssumption` says that
they are made of the five kinds of letters, and that a program a line is said to mean is the one
it stands for, which TLC confirms of all lines that it is given).
- `LinesParsed` (`LinesAreParsed`) and `PermittedParsed`. What a line stands for is said without
  the machine (`StandsFor`): its words, those right behind `<` and `>` being names of files and the
  others arguments; the arguments in order (`Listed`), the last file of each kind (`LastOf`), and
  whether there is an `&`. There is one such program (`ListedOnce`, `LastOfOnce`): two lists
  would differ at a least place. The machine knows letters, not words, so the invariant
  `ParserInv` is about the words that have ended with the letters read so far (`Ended`): the
  program is what they make of it (`Collected`), and the state tells what the next word is
  for (`ReadingAt`). A letter ends one word or none (`Adds`, `AddsNone`), even the last letter of a
  line, with which a word ends one letter earlier than elsewhere; that is where such machines go
  wrong. `Opened`, `Between`, `Closed` and `Longer` are the four things a letter can be, and every
  branch of the six states is one of them. Of lines that are not permitted the part `Shape` still
  holds, from which `ArgumentsAreWords` and the types follow.

**`Servers_proofs`**. Of the FTP server (any finite set of clients, any scripts of theirs, cut
anywhere, any limit and initial size: `ServerAssumption`):
- `ServesAtMostMaxClients`, `TurnsAwayOnlyWhenFull` (an action property), `NothingLeft`. The
  counter is raised in one place, lowered in two, and is one too high while a client is
  turned away; where a guest is before it has a thread is `GuestInv`, whose socket is open
  `SocketInv`.
- `BufferInMemory`: in every connection the text stays below the capacity, so that its
  terminator fits, whatever has been received and however the buffer grew (`BufferTypes`).
- `RepliesFollowLines`: not inductive, because a response is sent after the line was taken,
  and the text that is taken but not parsed counts for nothing. `DialogueInv` and `LinesInv`
  bound the responses by the line feeds before the text in the buffer, and `LineInv` says
  what that text is: the part of the script that was taken last, which begins a line and
  holds no whole one.
- `LogsHoldWhatWasSent`: each name and password in the log is the whole argument of one line,
  whatever older text the buffer holds behind it (`LogInv`). For this CR and LF must come
  together (`LinesAssumption`), which is how the protocol ends a line.
- `FieldTypes`. All from `FtpInv`, which TLC has checked on an instance of two clients first.

Of the HTTP server (any peers, any requests that are not empty, any contents of the memory:
`HttpAssumption`):
- `RequestsAnswered`, `NobodyForgotten`, `UsedIsKept`, from an invariant of each connection.
  Requests are read in any parts; of a peer that waits, and whose requests were read at once,
  at most one has no answer, and it is in the inbox, or its reply is being
  written, or the answer was lost (`AnswerInv`); that older text or memory behind a request does
  not change its path, and takes no Keep-Alive away, is `ReadsTheFirst`. Any kept connection without a write has a timer that runs, or one that has
  expired with its handler still queued (`WaitsFor`). A step of one connection leaves the
  invariant of the others alone (`OneConnection`).

**`SshServer_proofs`** (any finite set of guests, any messages, any command lines that give a
number as the limit: `SshAssumption`).
- `GuestsCounted`, `GuestsFreed`. The counter is increased before the thread is there, in
  `count`, so the invariant needs where a guest is before: once in the backlog, or in the
  hand of `run`, and at neither when it has a thread (`WaitingInv`).
- `AttemptsLogged`: the k-th line of a guest is its k-th password, and there are no more of
  them than attempts are allowed, for any messages of the types that `auth` tells apart
  (`MessagesAssumption`). Not inductive: whether a line is written at the end depends on
  `logged`, which the case of a password sets before it falls through to the one that forgets
  the password. `LogInv` says that `logged` is set if and only if a password was got
  (`TriedInv`), that none is kept (`NoSecret`) and that `attempts` counts them (`KeptInv`). A
  line that is added comes last among the guest's (`RankAfter`), and leaves the places of the
  others.

**`Automata_proofs`**. For any length of a message with room on the display
(`KeypadAssumption`):
- `KeypadCorrect`, from `TypedInv`, which says for each state what the digits so far are: the
  beginning of which code, of what length, or of none.

For any program, memory and bytes of the instructions (`CpuAssumption`: the bytes differ and
none is zero):
- `AnyProgramIsRun`: `Cpu` implements `Interpreter` (`RunsThePrograms`), up to the moment when
  `EN` falls in a state that counts or the program meets an error on record. `CpuInv` says that a
  state carries out the instruction that is there (`Understood`), that what the memory
  answered last is the cell the state takes it for (`Answered`), and that nothing is written
  while the begin of a loop is looked for, although those states leave `DATA_RDWR` alone
  (`LooksBack`). `Effects` takes an edge apart; each clock then rests, ends an instruction
  (`Executes`), or belongs to the search, whose first clock is the interpreter's step
  (`SearchBegins`) and whose others change nothing it sees (`SearchGoesOn`), because the
  nearest `[` stays the same. A pointer that stays among the data turns there as in the whole
  memory (`WithinData`). That there is a nearest one needs a least number, from the
  theorem of well-founded relations (`Least`).

For a lattice of any size at least 1, with any cells, and lifespans above zero
(`LatticeAssumption`; the code has sizes from 3 and lifespans of 48, 6 and 4, and a new cell
whose kind does not live at all would be too old at once):
- `HealthyCounted` and `LatticeMade` (`HealthyAreCounted`, `LatticeIsMade`), from `CAInv`: in
  the middle of a step what is made is alive, what is counted is what is made (`Unfinished`),
  and where a step ends the statistics are those of the lattice that the next one reads.
  Each of the seven rules is one case of `CellMade`, about any cell that becomes any other and
  is counted so (`Recounted`); it rests on the places being reached in the order of their
  indexes, each once (`PlaceFacts`), which is the arithmetic of `at \div msize` and
  `at % msize`, and on what one place changes in a count (`CountChanged`).

Last part: the interleaver (words of any data and parity symbols, files of any length, bursts
of any bound; `InterAssumption` says only that the sizes are numbers and that a word has data).
- `BurstsMended` (`BurstsAreMended`), from `InterInv`: on its way the file has every symbol in its
  place, and then all but those that a burst hit. What makes it so is the arithmetic of `Map`. The
  symbols with one index are a row of places (`StartIs`); the rows follow each other (`StartFurther`),
  also behind the end of the short last word, where they are one symbol shorter; so no two symbols
  have one place and all are in the file (`SpotsApart`, `SpotIn`). Two symbols of a word are one
  row apart for each index between them, so a burst of at most q rows hits at most q of them
  (`FewHits`), q being what the coder mends. That the two programs mean the same by the length of
  a word, although one computes it from the file and the other from the medium, is `Computed` and
  `LengthIs`. As in the property, a length that is a multiple of `dataSize` is left out.

**`Parallel_proofs`**, first part. The sort (any file of numbers, as many processes as it needs):
- `EnumerationSortSorts` (`SortsNumbers`). `RanksSort` is about the numbers alone: a number's
  place is one more than the count of those it comes behind (`RankOf`), and as of two numbers
  always exactly one comes behind the other, equal ones too, the places are a permutation
  that sorts. For this `SortsNumbers` asks for a permutation of the places, and not for a
  sequence sorted by some other algorithm. The invariant `LineInv` says of every channel what it
  holds: on the way out the part of the line between what the process behind (`Seen`) and
  the one in front of it have seen (`ChY`), on the way back the part of a slave's numbers
  between what was got and what was given (`ChO`, `Got`, `Given`), and a slave's number for its
  place from the moment the one knows the place until the other has got it (`ChZ`). So the
  counter of each slave is the count over the numbers it has seen, and what the master gets
  from the last slave is the number of the next place down (`Written`), however messages of
  different processes overtake each other.

The mesh (matrices of any shape and any numbers; `JobsAssumption` says that they are numbers):
- `MeshMultiplies` (`MultipliesMatrices`), from `MeshInv`. Two neighbours may be any number of
  rounds apart, so what is on the way between them is the part of the row or the column that
  the one has had and the other has not (`Flow`), at the border what is left of the process's
  own values (`Rest`), and a number for process 0 from the end of a process until it is
  gathered (`Answers`). The number of a process is the sum of the products of the pairs so far
  (`Rounds`); that such a sum exists for every count is the one induction, carried out on the
  least count for which it would not (`Least`, `SumExists`), as the library's theorems of
  induction cannot be instantiated. The rest is the arithmetic of rows and columns (`RowColumn`):
  the left and upper neighbours of a process have its row and its column.

`MCServers` extends `FtpServer`, `HttpServer` and `NameService`, `MCPrograms` extends
`CommandParser`, `Keypad` and `Cpu`, and `MCStructures` extends `RingQueue` and `DLList`, so the
theorems about these speak of the very properties the runs check. The other properties of these modules that a theorem
bears on are conjunctions with a part for each of several programs, in modules that reach
RECURSIVE operators, and each part has its theorem: `ServesAtMostMaxClients`,
`FieldTypes`, `GuestsCounted`, `AttemptsLogged` and `GuestsFreed` those of
`CountersAreRight`, `UsedIsKept` and `TurnsAwayOnlyWhenFull` those of `NobodyIsCutOff`,
`ListIsWhole`, `SingleIsWhole` and `TableIsSound` those of `PointersAreSound`,
`SingleImplementsList` and `ChainsImplementTable` those of `ImplementsContainers`, and
`EnumerationSortSorts`, `MeshMultiplies`, `HealthyCounted` and `LatticeMade` those of
`ProcessesCompute`, and `BurstsMended` that of `DataIsFound` which is about the interleaver.

Only model-checked:
- liveness (`EverybodyCrosses`, `ImplementsFairCrossing`, and what the findings show), which
  needs ENABLED;
- what rests on RECURSIVE definitions (`SearchTree`, `TreeWalk`, `HttpClient`,
  `Steganography`), for which the provers have no rule, or on `SelectSeq` and folds of
  the libraries, whose theorems take an operator (`Demultiplexor`, `WordCount`, `Fold`).

## 5. Plan

Done: river crossing, ticket lock, shell and parser, structures, all servers and
clients, the programs of PRL, INC, INP/proj2, BMS, IJC and IMS. Next, in this order:

1. Theorems: that `WordCount` counts each word once, with `htab_foreach` and the hash table
   proved in `Containers_proofs`; `Demultiplexor` with recursive functions in place of folds.
2. A run for clients of the FTP server that break off, one for keys with negative sums in
   `HashTable`, one for overlapping searches in `NameService`.
3. The display of `IMP` with its 16-bit counters (`y % 8` is negative after 32767 turns, so
   that line 60 shifts by a negative number), and `FLP` as recursive functions.
4. `htab_remove.c`, which frees `keyBackup` twice, once a program calls it.
