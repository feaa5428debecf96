------------------------------ MODULE WordCount -----------------------------
(***************************************************************************)
(* IJC/proj2: wordcount, which counts the words of its input in a hash     *)
(* table: wordcount.c and the functions of htab that it calls.  A chain of *)
(* the table is the sequence of its items.                                 *)
(***************************************************************************)
EXTENDS WordReader

CONSTANTS Inputs,           \* sequences of codes of characters
          WORD_MAX_LENGTH,  \* at most 2: then the hash stays below 2^32
          HASH_TAB_SIZE

VARIABLES input, rest,      \* what stdin held, and what has not been read
          htab,             \* the chains
          blocks,           \* how many blocks of memory are allocated
          output, exit      \* what was written; "running", "success" or "failure"

wordVars == <<input, rest, htab, blocks, output, exit>>

Indices == 0..HASH_TAB_SIZE - 1
Empty   == [i \in Indices |-> <<>>]

WordInit == /\ input = <<>> /\ rest = <<>> /\ htab = Empty
            /\ blocks = 0 /\ output = <<>> /\ exit = "start"

\* htab_init, which may fail.
Start == /\ exit = "start" /\ input' \in Inputs /\ rest' = input'
         /\ \/ blocks' = 1 /\ exit' = "running"
            \/ blocks' = 0 /\ exit' = "failure"
         /\ UNCHANGED <<htab, output>>

-----------------------------------------------------------------------------
\* hash_function.
HashFunction(w) == FoldLeft(LAMBDA h, c : 65599 * h + c, 0, w) % HASH_TAB_SIZE

-----------------------------------------------------------------------------
\* htab_free: every item with its key, and the table.
FreeAll(more) == blocks' = more /\ htab' = Empty

\* Where the item of a word is in its chain, or one more.
Place(chain, w) == First({k \in DOMAIN chain : chain[k].key = w}, Len(chain) + 1)

\* The chain after htab_lookup and the increment of data: a new item comes last.
\* A mutant counts it from one.
CountedTwice(chain, w) ==
  IF Place(chain, w) <= Len(chain) THEN [chain EXCEPT ![Place(chain, w)].data = @ + 1]
  ELSE Append(chain, [key |-> w, data |-> 2])
Counted(chain, w) ==
  IF Place(chain, w) <= Len(chain) THEN [chain EXCEPT ![Place(chain, w)].data = @ + 1]
  ELSE Append(chain, [key |-> w, data |-> 1])

\* One turn of the loop of main.  htab_lookup needs a block for its copy of the word,
\* which it leaves behind when there is none for the item (the item and its key are
\* two more; if there is none for the key the item is given back).
Word ==
  /\ exit = "running"
  /\ LET r == Fgetw(rest, WORD_MAX_LENGTH)
         i == HashFunction(r.word)
         isNew == Place(htab[i], r.word) > Len(htab[i])
     IN /\ rest' = r.left
        /\ \/ r.returned = 0 /\ UNCHANGED <<htab, blocks, exit>>
           \/ /\ r.returned > 0
              /\ htab' = [htab EXCEPT ![i] = Counted(@, r.word)]
              /\ blocks' = blocks + IF isNew THEN 2 ELSE 0
              /\ UNCHANGED exit
           \/ \* the copy cannot be made, or else the item
              /\ r.returned > 0 /\ exit' = "failure"
              /\ (FreeAll(0) \/ (isNew /\ FreeAll(1)))
           \/ r.returned = -1 /\ exit' = "write" /\ UNCHANGED <<htab, blocks>>
  /\ UNCHANGED <<input, output>>

\* htab_foreach with print_item, and htab_free.
Finish == /\ exit = "write" /\ exit' = "success"
          /\ output' = FlattenSeq([k \in 1..HASH_TAB_SIZE |-> htab[k - 1]])
          /\ FreeAll(0) /\ UNCHANGED <<input, rest>>

WordNext == \/ Start \/ Word \/ Finish
            \/ exit \in {"success", "failure"} /\ UNCHANGED wordVars
-----------------------------------------------------------------------------
\* wordcount.c, io.c, htab_lookup.c: every word is written once, with the number of
\* times that it occurs, cut to its first letters; and the memory is given back, but
\* for the copy of the word for which there was no item.
WordsAreCounted ==
  /\ exit = "success" =>
       /\ blocks = 0
       /\ {<<output[k].key, output[k].data>> : k \in DOMAIN output} =
            LET words == [k \in DOMAIN WordsOf(input) |-> UpTo(WordsOf(input)[k], WORD_MAX_LENGTH)]
            IN {<<w, Cardinality({k \in DOMAIN words : words[k] = w})>> : w \in ToSet(words)}
       /\ \A j, k \in DOMAIN output : output[j].key = output[k].key => j = k
  /\ exit = "failure" => blocks <= 1
  /\ exit = "running" => blocks = 1 + 2 * Len(FlattenSeq([k \in 1..HASH_TAB_SIZE |-> htab[k - 1]]))
=============================================================================
