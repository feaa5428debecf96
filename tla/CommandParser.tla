--------------------------- MODULE CommandParser ----------------------------
(***************************************************************************)
(* POS/proj2/main.c, parseBuffer: the state machine that cuts a line into  *)
(* a program, its arguments, its files and the mark of the background, and *)
(* clearProgram, which makes the structure ready for the next line.        *)
(*                                                                         *)
(* A line is a sequence of letters, of which the code tells five kinds     *)
(* apart: letters of words ("w"), spaces ("blank"), <, > and &.  An        *)
(* argument is the pair of its first and last position.                    *)
(***************************************************************************)
EXTENDS Integers, Sequences

CONSTANT Inputs   \* the lines typed, each with the program it stands for

VARIABLES
  line,      \* the buffer
  meant,     \* what the line stands for
  i,         \* the letter to be read next
  state,     \* of the machine
  startPos,  \* first letter of the name being read
  program,   \* args, input, output, bg
  maxArgc    \* how many pointers args has room for

vars == <<line, meant, i, state, startPos, program, maxArgc>>

States == {"New", "Add", "Input", "InputAdd", "Output", "OutputAdd"}
NoFile == <<0, 0>>
Empty  == [args |-> <<>>, input |-> NoFile, output |-> NoFile, bg |-> FALSE]
Unknown == [Empty EXCEPT !.args = <<NoFile>>]   \* nothing is said of the line
DefaultArgc == 4

TypeOK ==
  /\ line \in Seq({"w", "blank", "<", ">", "&"}) /\ i \in 1..Len(line) + 1
  /\ state \in States /\ startPos \in 0..Len(line)
  /\ program.args \in Seq((1..Len(line)) \X (1..Len(line)))
  /\ program.input \in (0..Len(line)) \X (0..Len(line))
  /\ program.output \in (0..Len(line)) \X (0..Len(line))
  /\ program.bg \in BOOLEAN
  /\ maxArgc \in Nat

Init == /\ line = <<>> /\ meant = Empty
        /\ i = 1 /\ state = "New" /\ startPos = 0
        /\ program = Empty
        /\ maxArgc = DefaultArgc

-----------------------------------------------------------------------------
\* parseWorker hands a line over, and parseBuffer begins.
Begin == /\ line = <<>>
         /\ \E typed \in Inputs : line' = typed.line /\ meant' = typed.program
         /\ state' = "New" /\ startPos' = 0
         /\ UNCHANGED <<i, program, maxArgc>>

Char == line[i]
AtEnd == i = Len(line)
Read == i <= Len(line) /\ i' = i + 1 /\ UNCHANGED <<line, meant>>

\* One for the null pointer: the test before args grows.
Grown == IF Len(program.args) + 1 > maxArgc + 1 THEN 2 * maxArgc ELSE maxArgc

\* pushArgument, or saveFile, of the name that ends at endPos; bg is what is set
\* on the way.
Save(field, from, endPos, bg) ==
  /\ program' = [program EXCEPT
        !.bg = @ \/ bg,
        ![field] = IF field = "args" THEN Append(@, <<from, endPos>>) ELSE <<from, endPos>>]
  /\ maxArgc' = IF field = "args" THEN Grown ELSE maxArgc
Keep == UNCHANGED <<program, maxArgc>>

\* The first letter of a name; a name of one letter at the end is complete.
Open(field, to) == /\ state' = to /\ startPos' = i
                   /\ IF AtEnd THEN Save(field, i, i, FALSE) ELSE Keep

New == /\ state = "New" /\ Read
       /\ \/ /\ Char \in {"blank", "<", ">", "&"}
             /\ state' = CASE Char = "<" -> "Input" [] Char = ">" -> "Output"
                           [] OTHER -> "New"
             /\ program' = [program EXCEPT !.bg = @ \/ Char = "&"]
             /\ UNCHANGED <<startPos, maxArgc>>
          \/ Char = "w" /\ Open("args", "Add")

\* After < or > any letter but a space begins the name of the file.
File(from, field, to) ==
  /\ state = from /\ Read
  /\ \/ Char = "blank" /\ Keep /\ UNCHANGED <<state, startPos>>
     \/ Char # "blank" /\ Open(field, to)

\* Where a name ends; a mutant keeps the letter that ends it.
EndAtMark     == i
EndBeforeMark == i - 1

\* In a name: the redirections that end it; & ends it as well but leaves the
\* state as it is; a space, or the end of the line.
Name(in, field, redirections) ==
  /\ state = in /\ Read /\ UNCHANGED startPos
  /\ \/ /\ Char \in redirections
        /\ state' = (IF Char = "<" THEN "Input" ELSE "Output")
        /\ Save(field, startPos, EndBeforeMark, FALSE)
     \/ /\ Char = "&" /\ UNCHANGED state
        /\ Save(field, startPos, EndBeforeMark, TRUE)
     \/ /\ Char = "blank" /\ state' = "New"
        /\ Save(field, startPos, EndBeforeMark, FALSE)
     \/ /\ Char \notin redirections \cup {"blank", "&"}
        /\ IF AtEnd THEN state' = "New" /\ Save(field, startPos, i, FALSE)
                   ELSE Keep /\ UNCHANGED state

Add       == Name("Add", "args", {"<", ">"})
InputAdd  == Name("InputAdd", "input", {">"})
OutputAdd == Name("OutputAdd", "output", {"<"})
Input     == File("Input", "input", "InputAdd")
Output    == File("Output", "output", "OutputAdd")

\* clearProgram; a mutant leaves the background mark.
KeepsBg == [Empty EXCEPT !.bg = program.bg]
Cleared == Empty

Clear == /\ line # <<>> /\ i > Len(line)
         /\ program' = Cleared
         /\ line' = <<>> /\ meant' = Empty /\ i' = 1
         /\ state' = "New" /\ startPos' = 0
         /\ UNCHANGED maxArgc

Next == Begin \/ New \/ Add \/ Input \/ InputAdd \/ Output \/ OutputAdd \/ Clear

Spec == Init /\ [][Next]_vars

-----------------------------------------------------------------------------
(* What a line stands for, said of the whole line at once.                 *)

\* Between the letter m and the p-th one there are only spaces.
Behind(l, m, p) == \E q \in 1..p - 1 : l[q] = m /\ \A k \in q + 1..p - 1 : l[k] = "blank"

\* A word is as long as it can be.  It is the name of a file behind < or >, or an argument.
IsWord(l, a, b) == /\ a <= b /\ \A k \in a..b : l[k] = "w"
                   /\ a > 1 => l[a - 1] # "w"
                   /\ b < Len(l) => l[b + 1] # "w"
WordsOf(l)      == {w \in (1..Len(l)) \X (1..Len(l)) : IsWord(l, w[1], w[2])}
FileNames(l, m) == {w \in WordsOf(l) : Behind(l, m, w[1])}
ArgWords(l)     == {w \in WordsOf(l) : ~Behind(l, "<", w[1]) /\ ~Behind(l, ">", w[1])}

\* The arguments are all there, from left to right, and of the files the last of each kind.
Listed(s, W) == /\ s \in Seq(W) /\ \A w \in W : \E k \in DOMAIN s : s[k] = w
                /\ \A j, k \in DOMAIN s : j < k => s[j][1] < s[k][1]
LastOf(f, W) == IF W = {} THEN f = NoFile ELSE f \in W /\ \A w \in W : w[1] <= f[1]
StandsFor(l, p) ==
  /\ p = [args |-> p.args, input |-> p.input, output |-> p.output,
          bg |-> \E k \in 1..Len(l) : l[k] = "&"]
  /\ Listed(p.args, ArgWords(l))
  /\ LastOf(p.input, FileNames(l, "<")) /\ LastOf(p.output, FileNames(l, ">"))

\* The lines of which this is said: no mark is behind < or >, & is not right behind a word
\* unless it ends the line, and < is not right behind the name of an input, nor > right
\* behind that of an output.
Permitted(l) ==
  /\ \A p \in 1..Len(l) : l[p] \in {"<", ">", "&"} => ~Behind(l, "<", p) /\ ~Behind(l, ">", p)
  /\ \A p \in 2..Len(l) - 1 : l[p] = "&" => l[p - 1] # "w"
  /\ \A m \in {"<", ">"} : \A w \in FileNames(l, m) : w[2] < Len(l) => l[w[2] + 1] # m

\* Lines are made of these letters, and where something is said of one, it stands for that.
ASSUME InputsAssumption ==
  \A typed \in Inputs :
    /\ typed.line \in Seq({"w", "blank", "<", ">", "&"})
    /\ typed.program # Unknown => Permitted(typed.line) /\ StandsFor(typed.line, typed.program)

-----------------------------------------------------------------------------
(* Properties.                                                             *)

\* parseBuffer gives the program that the line stands for, whatever the line
\* before it was, for lines in which & stands alone or ends the line.
Parsed == i > Len(line) /\ meant # Unknown => program = meant

\* Whatever is typed, an argument is a part of the line that holds no space:
\* endPos never falls behind startPos, where the length would wrap around.
ArgumentsAreWords ==
  \A k \in DOMAIN program.args :
    LET from == program.args[k][1]  to == program.args[k][2] IN
    /\ 1 <= from /\ from <= to /\ to < i
    /\ \A p \in from..to : line[p] # "blank"
    /\ line[from] = "w"

\* POS/proj2/main.c, parseBuffer: a line gives the program that it stands for, and no
\* argument runs beyond its word.
LinesAreParsed == TypeOK /\ Parsed /\ ArgumentsAreWords

\* main.c:363, "One for null pointer": args has room for the arguments and the
\* null pointer after them.
FitsInArgs == Len(program.args) + 1 <= maxArgc
=============================================================================
