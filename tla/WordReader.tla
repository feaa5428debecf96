----------------------------- MODULE WordReader -----------------------------
(***************************************************************************)
(* IJC/proj2/io.c: fgetw, with which fold.c and wordcount.c read words.    *)
(***************************************************************************)
EXTENDS Integers, Sequences, FiniteSets, SequencesExt

CONSTANTS Letters,          \* the characters that are not white
          NEWLINE

Black(s, from) == {k \in from..Len(s) : s[k] \in Letters}
White(s, from) == {k \in from..Len(s) : s[k] \notin Letters}
First(S, otherwise) == IF S = {} THEN otherwise ELSE CHOOSE k \in S : \A j \in S : k <= j

UpTo(w, n) == SubSeq(w, 1, IF Len(w) < n THEN Len(w) ELSE n)

\* [returned, word, left]: 0 for a newline at once, otherwise the next word, cut to max,
\* or -1.  The character after the word is read too.
Fgetw(s, max) ==
  IF s # <<>> /\ Head(s) = NEWLINE THEN [returned |-> 0, word |-> <<>>, left |-> Tail(s)]
  ELSE IF Black(s, 1) = {} THEN [returned |-> -1, word |-> <<>>, left |-> <<>>]
  ELSE LET begin == First(Black(s, 1), 1)
           end   == First(White(s, begin), Len(s) + 1)
           word  == UpTo(SubSeq(s, begin, end - 1), max)
       IN [returned |-> Len(word), word |-> word, left |-> SubSeq(s, end + 1, Len(s))]

-----------------------------------------------------------------------------
\* The words of a text as a reader sees them: <<first, last>> of its longest runs of
\* letters.
Runs(s) == {<<i, j>> \in (DOMAIN s) \X (DOMAIN s) :
              /\ i <= j /\ \A k \in i..j : s[k] \in Letters
              /\ i = 1 \/ s[i - 1] \notin Letters
              /\ j = Len(s) \/ s[j + 1] \notin Letters}

WordsOf(s) == [k \in 1..Cardinality(Runs(s)) |->
                 LET r == SetToSortSeq(Runs(s), LAMBDA p, q : p[1] < q[1])[k]
                 IN SubSeq(s, r[1], r[2])]
=============================================================================
