-------------------------- MODULE MCCommandParser ---------------------------
(* Lines for CommandParser: commands written down in every permitted way,  *)
(* and every sequence of letters up to a bound.                            *)
EXTENDS CommandParser, SequencesExt

CONSTANTS MaxItems,    \* bound: items in a command
          Kinds,       \* the kinds of items
          MaxLetters   \* bound: letters of an arbitrary line

\* An item and how it is written: spaces before it, spaces after < or >, and
\* the length of the word.
Items == [kind : Kinds \ {"bg"}, gap : 0..1, inner : 0..1, len : 1..2]
           \cup [kind : Kinds \cap {"bg"}, gap : 0..1, inner : {0}, len : {0}]

\* What may follow without a space: a redirection that the state before knows.
TightPairs == {<<"args", "input">>, <<"args", "output">>, <<"input", "output">>,
               <<"output", "input">>, <<"bg", "args">>, <<"bg", "input">>,
               <<"bg", "output">>, <<"bg", "bg">>}

Commands == UNION {[1..n -> Items] : n \in 1..MaxItems}
WellFormed(c, trail) ==
  /\ \A k \in DOMAIN c : c[k].kind = "args" => c[k].inner = 0
  /\ \A k \in 2..Len(c) :
       c[k].gap = 0 => \/ <<c[k - 1].kind, c[k].kind>> \in TightPairs
                       \/ c[k].kind = "bg" /\ k = Len(c) /\ trail = 0

Spaces(n)  == [k \in 1..n |-> "blank"]
Word(n)    == [k \in 1..n |-> "w"]
Mark(kind) == CASE kind = "input" -> <<"<">> [] kind = "output" -> <<">">>
                [] kind = "bg" -> <<"&">> [] OTHER -> <<>>

\* A line so far and the program it stands for, with one more item.
With(typed, item) ==
  LET text == typed.line \o Spaces(item.gap) \o Mark(item.kind) \o Spaces(item.inner)
      name == <<Len(text) + 1, Len(text) + item.len>>
  IN [line |-> text \o Word(item.len),
      program |-> [typed.program EXCEPT
         !.args   = IF item.kind = "args" THEN Append(@, name) ELSE @,
         !.input  = IF item.kind = "input" THEN name ELSE @,
         !.output = IF item.kind = "output" THEN name ELSE @,
         !.bg     = @ \/ item.kind = "bg"]]

Typing(c, trail) ==
  LET t == FoldLeft(With, [line |-> <<>>, program |-> Empty], c)
  IN [t EXCEPT !.line = @ \o Spaces(trail)]

TypedLines == {Typing(c, 0) : c \in {d \in Commands : WellFormed(d, 0)}}
                \cup {Typing(c, 1) : c \in {d \in Commands : WellFormed(d, 1)}}
AnyLines   == {[line |-> l, program |-> Unknown] :
                 l \in UNION {[1..n -> {"w", "blank", "<", ">", "&"}] : n \in 1..MaxLetters}}

MCInputs == AnyLines \cup TypedLines
=============================================================================
