----------------------------- MODULE MCPrograms -----------------------------
(***************************************************************************)
(* The programs that read one input, the parallel programs of PRL, the     *)
(* designs in VHDL and the simulation of IMS, checked in one run: the      *)
(* first state of a behaviour chooses one of them, and only that one then  *)
(* moves.  CommandParser comes with the lines of MCCommandParser; it and   *)
(* the designs in VHDL are extended, so that their theorems are about the  *)
(* properties checked here (LinesAreParsed, KeypadOpens, RunsThePrograms). *)
(***************************************************************************)
EXTENDS MCCommandParser, Keypad, Cpu

CONSTANT Lost

VARIABLES
  chosen,
  input, rest, htab, blocks, counts, exit,
  text, options, stage, unread, shown, first,
  stegExit, limit, primes, picture, stegI, stegJ, znak, printed, behind,
  numbers, sent, at, sortI, sortX, sortZ, sortC, sorted,
  job, rows, cols, meshN, under, phase, round, vecA, vecB, cell, result, gathered,
  size, medium, burst, written, onMedium,
  stream, packetsCounter, packets, PAT, NITPid, analyzedPAT, analyzedNIT, analyzedSDT,
  newSDT, sdtData, programElementary, programs, garbled, info,
  step, place, actualCells, nextCells, grown, statistics, ratioRS, surprises

-----------------------------------------------------------------------------
(* IJC: all texts of five characters, two of them letters, and of up to six, one of them
   a letter, with every kind of command line of fold. *)
WC == INSTANCE WordCount WITH
        Inputs <- [1..5 -> {97, 98, 32, 10}], Letters <- {97, 98}, NEWLINE <- 10,
        WORD_MAX_LENGTH <- 2, HASH_TAB_SIZE <- 2, output <- counts

Texts       == UNION {[1..k -> {97, 32, 10}] : k \in {0, 3, 6}}
Flag(f)     == [kind |-> f, value |-> 0]
Width(w)    == <<Flag("-w"), [kind |-> "number", value |-> w]>>
FoldOptions == {Width(3), Append(Width(2), Flag("-c")),
                <<Flag("-c")>> \o Width(0) \o <<Flag("name")>>, <<>>,
                <<Flag("-w")>>, <<Flag("-w"), Flag("-c")>>,
                <<Flag("name"), Flag("name")>>}
F == INSTANCE Fold WITH
       SPACE <- 32, Arguments <- FoldOptions, WORD_MAX_LENGTH <- 3, Letters <- {97},
       NEWLINE <- 10

\* A picture of 24 bytes is told by the bits at the nine primes below 24.
Held     == {2, 3, 5, 7, 11, 13, 17, 19, 23}
Pictures == {[k \in 0..23 |-> IF k \in Held THEN f[k] ELSE 0] : f \in [Held -> {0, 1}]}
G == INSTANCE Steganography WITH
       Limits <- {12, 20, 24, 26}, NUMBERS_TO_PRINT <- 2, Printable <- {<<1, 0>>, <<0, 1>>},
       CHAR_BIT <- 2, MAX_LIMIT <- 30, exit <- stegExit, numbers <- primes,
       data <- picture, i <- stegI, j <- stegJ

\* PRL: every input of two and three numbers, equal ones too; products of several shapes,
\* with numbers too many, and files that do not fit.
E == INSTANCE EnumerationSort WITH
       Inputs <- [1..3 -> {1, 2, 3}] \cup [1..2 -> {1, 2}],
       i <- sortI, x <- sortX, z <- sortZ, c <- sortC
Job(r, k, a, b) == [rows |-> r, cols |-> k, mat1 |-> a, mat2 |-> b]
Jobs == {Job(2, 2, <<1, 2, 3, 4>>, <<5, 6, 7, 8>>),
         Job(1, 3, <<1, 2>>, <<1, 2, 3, 4, 5, 6, 7>>),
         Job(2, 1, <<1, 2, 3, 4, 5, 6, 7>>, <<2, 3, 5>>),
         Job(0, 1, <<1>>, <<1>>), Job(1, 1, <<1, 2>>, <<1>>)}
M == INSTANCE MeshMultiply WITH n <- meshN

\* VHDL: a loop, a loop over what is typed with a character that is no instruction, an
\* underflow of a cell; and the three errors on record, in the end of the program only: a
\* pointer below the data, a loop to be skipped, a loop within a loop.
MCCode == (">" :> 62) @@ ("<" :> 60) @@ ("+" :> 43) @@ ("-" :> 45)
            @@ ("[" :> 91) @@ ("]" :> 93) @@ ("." :> 46) @@ ("," :> 44)
Boot == {<<"+", "+", "[", ">", "+", ".", "<", "-", "]">>,
         <<",", "[", ".", "-", "]", "x">>, <<">", "-", ".", "<", "-", "+", "<", "+">>,
         <<"-", "[", "+", "]", ">", "[", ".", "]">>,
         <<"+", "+", "[", "-", ">", "+", "[", "-", "]", "<", "]">>}

\* BMS: files of less than one word to almost four; a table of each kind, an SDT in two
\* pieces with the one after it, a damaged table and damaged data.
L == INSTANCE Interleaver WITH dataSize <- 4, paritySize <- 4, Sizes <- 1..15,
                               MaxBurst <- 7, program <- onMedium

Packet(pid, table) == [pid |-> pid, error |-> FALSE, start |-> TRUE, table |-> table,
                       entries |-> {}, program |-> 0, piece |-> 1]
Packets ==
  [pat   |-> [Packet(0, "PAT") EXCEPT
                !.entries = {<<0, 20>>, <<1, 101>>, <<2, 100>>, <<777, 5>>}],
   nit   |-> Packet(20, "NIT"),
   sdt1  |-> Packet(17, "SDT"),
   sdt2  |-> [Packet(17, "SDT") EXCEPT !.start = FALSE, !.piece = 2],
   again |-> Packet(17, "SDT"),
   pmt   |-> [Packet(101, "PMT") EXCEPT
                !.entries = {<<0, 201>>, <<1, 202>>, <<2, 8191>>, <<3, 999>>}, !.program = 1],
   bad   |-> [Packet(100, "PMT") EXCEPT
                !.entries = {<<0, 201>>}, !.program = 2, !.error = TRUE],
   video |-> Packet(201, "none"),
   audio |-> [Packet(202, "none") EXCEPT !.error = TRUE]]
D == INSTANCE Demultiplexor WITH MaxPackets <- 6, Services <- <<1, 2>>, Pieces <- 2

\* IMS: lattices of young and old cells of all four kinds, where four steps are enough
\* for a cell to die, to be replenished and to be infected again.
Cell(k, age)  == [state |-> k, lifeTime |-> age]
Young         == Cell("HEALTHY_R", 0)
Lattice(rows3) == [p \in (0..2) \X (0..2) |-> rows3[p[1] + 1][p[2] + 1]]
Lattices == {Lattice(<<<<Young, Cell("HEALTHY_R", 3), Cell("HEALTHY_S", 1)>>,
                       <<Cell("HEALTHY_R", 2), Cell("INFECTED_R", 0), Cell("HEALTHY_R", 3)>>,
                       <<Cell("INFECTED_S", 0), Young, Cell("HEALTHY_S", 2)>>>>),
             Lattice(<<<<Cell("HEALTHY_R", 3), Cell("HEALTHY_S", 3), Cell("HEALTHY_S", 3)>>,
                       <<Cell("HEALTHY_S", 0), Cell("INFECTED_S", 0), Cell("HEALTHY_S", 1)>>,
                       <<Cell("HEALTHY_S", 2), Young, Cell("INFECTED_R", 3)>>>>)}
A == INSTANCE CellularAutomaton WITH
       msize <- 3, cell_lifespan <- 3, infect_r_lifespan <- 3, infect_s_lifespan <- 2,
       Steps <- 4, MaxSurprises <- 2, at <- place, counter <- grown
-----------------------------------------------------------------------------
ProgramsInit ==
  /\ chosen \in {"shell", "wordcount", "fold", "steg", "sort", "mesh", "keypad", "cpu",
                 "interleaver", "demux", "automaton"}
  /\ Init /\ WC!WordInit /\ F!FoldInit /\ G!StegInit /\ E!SortInit /\ M!MeshInit
  /\ KeypadInit /\ CpuInit /\ L!InterInit /\ D!DemuxInit
  /\ A!CAInit /\ (chosen # "automaton" => actualCells = CHOOSE l \in Lattices : TRUE)

countVars == <<input, rest, htab, blocks, counts, exit>>
foldVars  == <<text, options, stage, unread, shown, first>>
stegVars  == <<stegExit, limit, primes, picture, stegI, stegJ, znak, printed, behind>>
sortVars  == <<numbers, sent, at, sortI, sortX, sortZ, sortC, sorted>>
meshVars  == <<job, rows, cols, meshN, under, phase, round, vecA, vecB, cell, result,
               gathered>>
interVars == <<size, medium, burst, written, onMedium>>
demuxVars == <<stream, packetsCounter, packets, PAT, NITPid, analyzedPAT, analyzedNIT,
               analyzedSDT, newSDT, sdtData, programElementary, programs, garbled, info>>
automatonVars == <<step, place, actualCells, nextCells, grown, statistics, ratioRS,
                   surprises>>

\* What the programs of the other groups keep.
OtherShell == UNCHANGED vars
OtherIJC   == UNCHANGED <<countVars, foldVars, stegVars>>
OtherPRL   == UNCHANGED <<sortVars, meshVars>>
OtherVHDL  == UNCHANGED <<keypadVars, cpuVars>>
OtherBMS   == UNCHANGED <<interVars, demuxVars>>
OtherIMS   == UNCHANGED automatonVars

ProgramsNext ==
  /\ UNCHANGED chosen
  /\ \/ /\ chosen = "shell" /\ Next
        /\ OtherIJC /\ OtherPRL /\ OtherVHDL /\ OtherBMS /\ OtherIMS
     \/ /\ chosen = "wordcount" /\ WC!WordNext /\ UNCHANGED <<foldVars, stegVars>>
        /\ OtherShell /\ OtherPRL /\ OtherVHDL /\ OtherBMS /\ OtherIMS
     \/ /\ chosen = "fold" /\ F!FoldNext /\ UNCHANGED <<countVars, stegVars>>
        /\ OtherShell /\ OtherPRL /\ OtherVHDL /\ OtherBMS /\ OtherIMS
     \/ /\ chosen = "steg" /\ G!StegNext /\ UNCHANGED <<countVars, foldVars>>
        /\ OtherShell /\ OtherPRL /\ OtherVHDL /\ OtherBMS /\ OtherIMS
     \/ /\ chosen = "sort" /\ E!SortNext /\ UNCHANGED meshVars
        /\ OtherShell /\ OtherIJC /\ OtherVHDL /\ OtherBMS /\ OtherIMS
     \/ /\ chosen = "mesh" /\ M!MeshNext /\ UNCHANGED sortVars
        /\ OtherShell /\ OtherIJC /\ OtherVHDL /\ OtherBMS /\ OtherIMS
     \/ /\ chosen = "keypad" /\ KeypadNext /\ UNCHANGED cpuVars
        /\ OtherShell /\ OtherIJC /\ OtherPRL /\ OtherBMS /\ OtherIMS
     \/ /\ chosen = "cpu" /\ CpuNext /\ UNCHANGED keypadVars
        /\ OtherShell /\ OtherIJC /\ OtherPRL /\ OtherBMS /\ OtherIMS
     \/ /\ chosen = "interleaver" /\ L!InterNext /\ UNCHANGED demuxVars
        /\ OtherShell /\ OtherIJC /\ OtherPRL /\ OtherVHDL /\ OtherIMS
     \/ /\ chosen = "demux" /\ D!DemuxNext /\ UNCHANGED interVars
        /\ OtherShell /\ OtherIJC /\ OtherPRL /\ OtherVHDL /\ OtherIMS
     \/ /\ chosen = "automaton" /\ A!CANext
        /\ OtherShell /\ OtherIJC /\ OtherPRL /\ OtherVHDL /\ OtherBMS

ProgramsSpec ==
  ProgramsInit /\ [][ProgramsNext]_<<chosen, vars, countVars, foldVars, stegVars, sortVars,
                                    meshVars, keypadVars, cpuVars, interVars, demuxVars,
                                    automatonVars>>
-----------------------------------------------------------------------------
\* IJC/proj2: wordcount counts every word, and the two fold programs keep every word and
\* the width (see WordCount and Fold).
TextsAreRight == WC!WordsAreCounted /\ F!TextIsFolded

\* PRL: the processes sort and multiply, in whatever order their messages come; IMS: the
\* automaton counts its cells while it makes them (see EnumerationSort, MeshMultiply and
\* CellularAutomaton).
ProcessesCompute == /\ E!SortsNumbers /\ M!MultipliesMatrices
                    /\ A!HealthyAreCounted /\ A!LatticeIsMade

\* BMS and IJC/proj1: what a stream, a damaged file or a picture holds is what is found
\* in it (see Demultiplexor, Interleaver and Steganography).
DataIsFound == D!StreamsAreCounted /\ L!BurstsAreMended /\ G!MessageIsFound
=============================================================================
