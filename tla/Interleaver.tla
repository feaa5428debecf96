----------------------------- MODULE Interleaver ----------------------------
(***************************************************************************)
(* BMS/proj1: Encoder.cpp and Decoder.cpp, which spread the code words of  *)
(* a file so that a burst of errors hits each word only a little.  The     *)
(* Reed-Solomon coder is a library: it mends half as many symbols of a     *)
(* word as there are parity symbols.  <<j, i>> is symbol i of word j.      *)
(***************************************************************************)
EXTENDS Integers, FiniteSets

CONSTANTS dataSize, paritySize,
          Sizes,            \* lengths of files
          MaxBurst,         \* the longest burst: a bound
          Lost              \* a symbol that is none of the file's

VARIABLES size,             \* of the file
          medium,           \* the encoded file, on its way
          burst,            \* how many symbols of it were damaged
          written,          \* what the decoder has written
          program           \* "encoder", "medium", "decoder", "end" or "failed"

interVars == <<size, medium, burst, written, program>>

blockSize     == dataSize + paritySize
CeilDiv(a, b) == (a + b - 1) \div b

\* Where symbol i of word j goes, when there are so many words and the last is shorter.
Map(j, i, blocks, lastBlockSize) ==
  j + i * blocks - IF i > lastBlockSize THEN i - lastBlockSize ELSE 0

InterInit == /\ size = 0 /\ medium = <<>> /\ burst = 0 /\ written = <<>>
             /\ program = "encoder"

\* encodeInput; of two symbols for one place the later one stays.
EncodeInput ==
  /\ program = "encoder" /\ program' = "medium" /\ size' \in Sizes
  /\ LET last    == (size' % dataSize) + paritySize
         encodedSize == (size' \div dataSize) * blockSize + IF size' % dataSize # 0 THEN last ELSE 0
         blocks  == CeilDiv(encodedSize, blockSize)
         Length(j) == paritySize + IF (j + 1) * dataSize > size' THEN size' - j * dataSize ELSE dataSize
         symbols == UNION {{j} \X (0..Length(j) - 1) : j \in 0..CeilDiv(size', dataSize) - 1}
         For(m)  == {s \in symbols : Map(s[1], s[2], blocks, last) = m}
     IN medium' = [m \in 0..encodedSize - 1 |->
                     IF For(m) = {} THEN Lost
                     ELSE CHOOSE s \in For(m) : \A t \in For(m) :
                            s[1] > t[1] \/ (s[1] = t[1] /\ s[2] >= t[2])]
  /\ UNCHANGED <<burst, written>>

\* openFile of either program.
Fail == /\ program \in {"encoder", "decoder"} /\ program' = "failed"
        /\ UNCHANGED <<size, medium, burst, written>>

\* Outside: neighbouring symbols are damaged.
Damage == /\ program = "medium" /\ program' = "decoder"
          /\ burst' \in 0..MaxBurst
          /\ \E from \in DOMAIN medium :
               medium' = [m \in DOMAIN medium |->
                            IF m \in from..from + burst' - 1 THEN Lost ELSE medium[m]]
          /\ UNCHANGED <<size, written>>

\* deInterleave and decodeInput.  When the last word is a whole one its length is taken
\* for 0 and none of it is fetched.
DecodeInput ==
  /\ program = "decoder" /\ program' = "end"
  /\ LET length == Cardinality(DOMAIN medium)
         blocks == CeilDiv(length, blockSize)
         last   == length % blockSize
         Fetched(j) == IF j = blocks - 1 THEN 0..last - 1 ELSE 0..blockSize - 1
         Length(j)  == IF (j + 1) * blockSize >= length THEN length - j * blockSize ELSE blockSize
         Got(j, i)  == IF i \in Fetched(j) THEN medium[Map(j, i, blocks, last)] ELSE Lost
         Wrong(j)   == {i \in 0..Length(j) - 1 : Got(j, i) # <<j, i>>}
         Mended(j, i) == IF Cardinality(Wrong(j)) <= paritySize \div 2 THEN <<j, i>> ELSE Got(j, i)
     IN written' = [s \in UNION {{j} \X (0..Length(j) - paritySize - 1) : j \in 0..blocks - 1} |->
                      Mended(s[1], s[2])]
  /\ UNCHANGED <<size, medium, burst>>

InterNext == \/ EncodeInput \/ Damage \/ DecodeInput \/ Fail
             \/ program \in {"end", "failed"} /\ UNCHANGED interVars

InterSpec == InterInit /\ [][InterNext]_interVars
-----------------------------------------------------------------------------
\* A burst that leaves no word with more errors than the coder mends.
Bearable == LET blocks == CeilDiv(Cardinality(DOMAIN medium), blockSize)
            IN burst <= (IF blocks > 1 THEN blocks - 1 ELSE 1) * (paritySize \div 2)

\* Encoder.cpp, Decoder.cpp: a file whose length is no multiple of dataSize comes back
\* as it was, although a burst has hit it.
BurstsAreMended ==
  program = "end" /\ size % dataSize # 0 /\ Bearable =>
    /\ DOMAIN written = {<<k \div dataSize, k % dataSize>> : k \in 0..size - 1}
    /\ \A s \in DOMAIN written : written[s] = s
=============================================================================
