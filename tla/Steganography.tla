---------------------------- MODULE Steganography ---------------------------
(***************************************************************************)
(* IJC/proj1: the prime sieve on an array of bits, prvocisla.c, which      *)
(* writes the greatest primes, and steg-encode.c and steg-decode.c, which  *)
(* look for a message in the bytes of a picture whose index is a prime.    *)
(***************************************************************************)
EXTENDS Integers, Sequences, FiniteSets, SequencesExt, FiniteSetsExt

CONSTANTS Limits, NUMBERS_TO_PRINT,   \* LIMIT of prvocisla.c, which is not a prime
          Pictures,                   \* data: the lowest bits of 0..3 * x * y - 1
          MAX_LIMIT, CHAR_BIT,
          Printable                   \* the characters that isprint lets through

VARIABLES exit,             \* the program that runs, "done" or "fatal"
          limit, numbers,   \* of prvocisla.c
          data,             \* of the picture
          i, j, znak,       \* how far steg-decode has come
          printed, behind   \* the message; whether it was read behind the data

stegVars == <<exit, limit, numbers, data, i, j, znak, printed, behind>>

StegInit == /\ exit = "start" /\ limit = 0 /\ numbers = {} /\ data = <<>> /\ i = 2 /\ j = 0
            /\ znak = [k \in 0..CHAR_BIT - 1 |-> 0] /\ printed = <<>> /\ behind = FALSE

\* Eratosthenes: the indices whose bit stays 0.
Sqrt(n)         == CHOOSE r \in 0..n : r * r <= n /\ n < (r + 1) * (r + 1)
Multiples(k, n) == {k * m : m \in 2..n} \cap (0..n - 1)
Eratosthenes(size) ==
  (0..size - 1) \ FoldLeft(LAMBDA set, k : IF k \in set THEN set ELSE set \cup Multiples(k, size),
                           {0, 1}, [k \in 1..Sqrt(size) - 1 |-> k + 1])

\* prvocisla.c: from LIMIT - 1 down to the last prime that is wanted, and up again.
RECURSIVE Down(_, _)
Down(k, count) == IF count = NUMBERS_TO_PRINT THEN k
                  ELSE Down(k - 1, count + IF k \in Eratosthenes(limit' + 1) THEN 1 ELSE 0)
Prvocisla == /\ exit = "start" /\ exit' = "done" /\ limit' \in Limits
             /\ numbers' = Eratosthenes(limit' + 1) \cap (Down(limit' - 1, 0)..limit')
             /\ UNCHANGED <<data, i, j, znak, printed, behind>>

\* ppm_read, which gives up on a wrong header or too few data.  steg-encode gives
\* SET_BIT the character it is about to hide, not the byte of the picture: the picture
\* that it writes is the one that it has read.
Read == /\ exit = "start" /\ exit' \in {"fatal", "decode"} /\ data' \in Pictures
        /\ UNCHANGED <<limit, numbers, i, j, znak, printed, behind>>

\* One turn of PrintMessage; behind the data there may be anything.
PrintMessage ==
  /\ exit = "decode" /\ i < MAX_LIMIT /\ i' = i + 1
  /\ IF i \notin Eratosthenes(MAX_LIMIT) THEN UNCHANGED <<exit, j, znak, printed, behind>>
     ELSE \E bit \in {0, 1} :
       /\ i \in DOMAIN data => bit = data[i]
       /\ behind' = (behind \/ i \notin DOMAIN data)
       /\ znak' = [znak EXCEPT ![j] = bit]
       /\ LET char == [k \in 1..CHAR_BIT |-> znak'[k - 1]]
              zero == \A k \in DOMAIN char : char[k] = 0
          IN \/ /\ j < CHAR_BIT - 1 /\ j' = j + 1 /\ UNCHANGED <<exit, printed>>
             \/ /\ j = CHAR_BIT - 1 /\ zero /\ exit' = "done" /\ UNCHANGED <<j, printed>>
             \/ /\ j = CHAR_BIT - 1 /\ ~zero /\ char \in Printable
                /\ printed' = Append(printed, char) /\ j' = 0 /\ UNCHANGED exit
             \/ /\ j = CHAR_BIT - 1 /\ ~zero /\ char \notin Printable
                /\ exit' = "fatal" /\ UNCHANGED <<j, printed>>
  /\ UNCHANGED <<limit, numbers, data>>

\* The message has no end.
NoEnd == /\ exit = "decode" /\ i = MAX_LIMIT /\ exit' = "fatal"
         /\ UNCHANGED <<limit, numbers, data, i, j, znak, printed, behind>>

StegNext == \/ Prvocisla \/ Read \/ PrintMessage \/ NoEnd
            \/ exit \in {"done", "fatal"} /\ UNCHANGED stegVars
-----------------------------------------------------------------------------
Primes(n) == {p \in 2..n - 1 : \A d \in 2..p - 1 : p % d # 0}

\* The k-th character that the picture holds, where it has one.
Nth(S, k)   == CHOOSE p \in S : Cardinality({q \in S : q <= p}) = k
Held        == Primes(Cardinality(DOMAIN data))
Hidden(k)   == [b \in 1..CHAR_BIT |-> data[Nth(Held, (k - 1) * CHAR_BIT + b)]]
Characters  == 1..Cardinality(Held) \div CHAR_BIT
Zero        == [b \in 1..CHAR_BIT |-> 0]

\* prvocisla.c writes the greatest primes below its limit.  steg-decode.c writes the
\* characters of the picture up to the first zero, and as long as it has not run beyond
\* the picture no others; it fails exactly if an odd one comes before.
MessageIsFound ==
  /\ limit # 0 => LET all == Primes(limit)
                  IN numbers = {p \in all : Cardinality({q \in all : q >= p}) <= NUMBERS_TO_PRINT}
  /\ data # <<>> /\ ~behind =>
       /\ printed = [k \in 1..Len(printed) |-> Hidden(k)]
       /\ \A k \in DOMAIN printed : printed[k] \in Printable
       /\ Len(printed) + 1 \in Characters =>
            /\ exit = "done" => Hidden(Len(printed) + 1) = Zero
            /\ exit = "fatal" /\ i > 2 => Hidden(Len(printed) + 1) \notin Printable \cup {Zero}
       /\ Len(printed) + 1 \notin Characters => exit # "done"
=============================================================================
