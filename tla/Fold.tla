-------------------------------- MODULE Fold --------------------------------
(***************************************************************************)
(* IJC/proj2: fold.c and its variant fold2.cc, which break a text into     *)
(* lines of a given width.  A behaviour gives the same command line and    *)
(* text to fold.c and then to fold2.cc.                                    *)
(***************************************************************************)
EXTENDS WordReader

CONSTANTS Texts,            \* sequences of characters
          SPACE,
          Arguments,        \* sequences of [kind, value]: "-w", "-c", "number", "name"
          WORD_MAX_LENGTH   \* of fold.c alone

VARIABLES text, options,    \* options: [failed, width, c, file]
          stage,            \* "start", the program that runs, "end" or "failure"
          unread,
          shown,            \* [pos, NewLine, out] of the program that runs
          first             \* what fold.c wrote

foldVars == <<text, options, stage, unread, shown, first>>

Fresh == [pos |-> 0, NewLine |-> TRUE, out |-> <<>>]

FoldInit == /\ text = <<>> /\ options = [failed |-> FALSE] /\ stage = "start"
            /\ unread = <<>> /\ shown = Fresh /\ first = <<>>

-----------------------------------------------------------------------------
\* One argument of main: "-w" takes the next one, anything else is a file's name.  width
\* is at least 0 here.
Argument(o, a) ==
  CASE o.failed                             -> o
    [] ~o.failed /\ o.expects               -> IF a.kind = "number"
                                               THEN [o EXCEPT !.width = a.value, !.expects = FALSE]
                                               ELSE [o EXCEPT !.failed = TRUE]
    [] ~o.failed /\ ~o.expects /\ a.kind = "-w" -> [o EXCEPT !.expects = TRUE]
    [] ~o.failed /\ ~o.expects /\ a.kind = "-c" -> [o EXCEPT !.c = TRUE]
    [] OTHER -> [o EXCEPT !.failed = o.file, !.file = TRUE]

Parse(args) == LET o == FoldLeft(Argument, [failed |-> FALSE, expects |-> FALSE, width |-> 80,
                                            c |-> FALSE, file |-> FALSE], args)
               IN [o EXCEPT !.failed = @ \/ o.expects]

\* The file may not be opened.
Start == /\ stage = "start" /\ text' \in Texts /\ unread' = text'
         /\ \E args \in Arguments : options' = Parse(args)
         /\ \/ stage' = "failure" /\ (options'.failed \/ options'.file)
            \/ stage' = "fold.c" /\ ~options'.failed
         /\ UNCHANGED <<shown, first>>

\* A word of the given length, with -c cut to the width, although its whole length counts.
Placed(s, word) ==
  LET length == Len(word)
      w      == IF options.c THEN UpTo(word, options.width) ELSE word
      pos    == s.pos + length + (IF s.NewLine THEN 0 ELSE 1)
      over   == pos > options.width
      before == IF s.NewLine THEN <<>> ELSE IF over THEN <<NEWLINE>> ELSE <<SPACE>>
  IN [pos |-> IF over THEN length ELSE pos, NewLine |-> FALSE, out |-> s.out \o before \o w]

\* An empty line of the text ends the line that is begun and leaves one empty.
Broken(s) == [pos |-> 0, NewLine |-> TRUE,
              out |-> s.out \o (IF s.NewLine THEN <<NEWLINE>> ELSE <<NEWLINE, NEWLINE>>)]

Finished(s) == IF s.NewLine THEN s.out ELSE Append(s.out, NEWLINE)

\* vypis: one turn of the loop.
Vypis == /\ stage = "fold.c" /\ UNCHANGED <<text, options>>
         /\ LET r == Fgetw(unread, WORD_MAX_LENGTH)
            IN \/ /\ r.returned >= 0 /\ unread' = r.left
                  /\ shown' = IF r.returned = 0 THEN Broken(shown) ELSE Placed(shown, r.word)
                  /\ UNCHANGED <<stage, first>>
               \/ /\ r.returned = -1 /\ stage' = "fold2.cc" /\ unread' = text
                  /\ first' = Finished(shown) /\ shown' = Fresh

\* fold2: one line, with the words in it.
Ends       == {k \in DOMAIN unread : unread[k] = NEWLINE}
FullLine   == SubSeq(unread, 1, First(Ends, Len(unread) + 1) - 1)
Fold2 == /\ stage = "fold2.cc" /\ UNCHANGED <<text, options, first>>
         /\ \/ /\ unread # <<>>
               /\ unread' = SubSeq(unread, Len(FullLine) + 2, Len(unread))
               /\ shown' = IF FullLine = <<>> THEN Broken(shown)
                           ELSE FoldLeft(Placed, shown, WordsOf(FullLine))
               /\ UNCHANGED stage
            \/ /\ unread = <<>> /\ stage' = "end"
               /\ shown' = [shown EXCEPT !.out = Finished(shown)] /\ UNCHANGED unread

FoldNext == \/ Start \/ Vypis \/ Fold2
            \/ stage \in {"end", "failure"} /\ UNCHANGED foldVars
-----------------------------------------------------------------------------
\* The lines of a text that ends in a newline.
LinesOf(s) ==
  LET ends == {0} \cup {k \in DOMAIN s : s[k] = NEWLINE}
  IN {SubSeq(s, b + 1, First({k \in ends : k > b}, Len(s) + 1) - 1) : b \in ends \ {Len(s)}}

Cut(word) == IF options.c THEN UpTo(word, options.width) ELSE word

\* Lines that begin or end in white characters, and words beyond the maximum, which only
\* fold.c cuts, are where the two variants differ.
Plain == /\ \A k \in DOMAIN text : text[k] = SPACE =>
              /\ k > 1 /\ text[k - 1] # NEWLINE
              /\ k < Len(text) /\ text[k + 1] # NEWLINE
         /\ \A r \in Runs(text) : r[2] - r[1] < WORD_MAX_LENGTH

\* fold.c, fold2.cc: no word is lost or moved, each is cut only with -c; a line is wider
\* than asked only if it is a single word; and the two variants write the same.
TextIsFolded ==
  stage = "end" =>
    /\ \A l \in LinesOf(first) \cup LinesOf(shown.out) :
         Len(l) <= options.width \/ (~options.c /\ ToSet(l) \subseteq Letters)
    /\ options.width > 0 =>
         /\ WordsOf(shown.out) = [k \in DOMAIN WordsOf(text) |-> Cut(WordsOf(text)[k])]
         /\ WordsOf(first) = [k \in DOMAIN WordsOf(text) |->
                                Cut(UpTo(WordsOf(text)[k], WORD_MAX_LENGTH))]
    /\ Plain => first = shown.out
=============================================================================
