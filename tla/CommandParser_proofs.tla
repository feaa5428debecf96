------------------------ MODULE CommandParser_proofs ------------------------
(***************************************************************************)
(* parseBuffer gives the program that a line stands for, for lines of any  *)
(* length, one after another, and no argument runs beyond its word.        *)
(*                                                                         *)
(* What a line stands for is said of all its words at once; the machine    *)
(* reads letters.  The invariant is therefore about the words that have    *)
(* ended with the letters read so far (Ended): the program is the one they *)
(* make (Collected), and the state of the machine tells what the word that *)
(* has begun, or may begin with the next letter, will be (ReadingAt).      *)
(***************************************************************************)
EXTENDS CommandParser, SequenceTheorems, WellFoundedInduction, TLAPS

Letters == {"w", "blank", "<", ">", "&"}

-----------------------------------------------------------------------------
(* What a line stands for.                                                 *)

\* One letter further, what is behind a mark is so still after a space, or stands at it.
LEMMA BehindNext ==
  ASSUME NEW l, NEW m, m # "blank", NEW p \in Nat, p > 0
  PROVE  Behind(l, m, p + 1) <=> l[p] = m \/ (l[p] = "blank" /\ Behind(l, m, p))
<1>1. CASE l[p] = m
  <2>1. p \in 1..(p + 1) - 1 /\ \A k \in p + 1..(p + 1) - 1 : l[k] = "blank"
    OBVIOUS
  <2> QED
    BY <1>1, <2>1 DEF Behind
<1>2. CASE l[p] = "blank"
  <2>1. ASSUME Behind(l, m, p) PROVE Behind(l, m, p + 1)
    <3>1. PICK q \in 1..p - 1 : l[q] = m /\ \A k \in q + 1..p - 1 : l[k] = "blank"
      BY <2>1 DEF Behind
    <3>2. q \in 1..(p + 1) - 1 /\ \A k \in q + 1..(p + 1) - 1 : k \in q + 1..p - 1 \/ k = p
      OBVIOUS
    <3> QED
      BY <1>2, <3>1, <3>2 DEF Behind
  <2>2. ASSUME Behind(l, m, p + 1) PROVE Behind(l, m, p)
    <3>1. PICK q \in 1..(p + 1) - 1 : l[q] = m /\ \A k \in q + 1..(p + 1) - 1 : l[k] = "blank"
      BY <2>2 DEF Behind
    <3>2. q # p
      BY <1>2, <3>1
    <3>3. q \in 1..p - 1 /\ \A k \in q + 1..p - 1 : k \in q + 1..(p + 1) - 1
      BY <3>2
    <3> QED
      BY <3>1, <3>3 DEF Behind
  <2> QED
    BY <1>2, <2>1, <2>2
<1>3. CASE l[p] # m /\ l[p] # "blank"
  <2>1. ASSUME Behind(l, m, p + 1) PROVE FALSE
    <3>1. PICK q \in 1..(p + 1) - 1 : l[q] = m /\ \A k \in q + 1..(p + 1) - 1 : l[k] = "blank"
      BY <2>1 DEF Behind
    <3>2. q = p \/ p \in q + 1..(p + 1) - 1
      OBVIOUS
    <3> QED
      BY <1>3, <3>1, <3>2
  <2> QED
    BY <1>3, <2>1
<1> QED
  BY <1>1, <1>2, <1>3

\* Nothing is before the first letter.
LEMMA BehindFirst ==
  ASSUME NEW l, NEW m
  PROVE  ~Behind(l, m, 1)
BY DEF Behind

\* Right before it is the mark or a space.
LEMMA BehindNoWord ==
  ASSUME NEW l, NEW m, m \notin {"blank", "w"}, NEW p \in Nat, p > 0, Behind(l, m, p)
  PROVE  p > 1 /\ l[p - 1] # "w"
<1>1. p # 1
  BY BehindFirst
<1>2. p - 1 \in Nat /\ p - 1 > 0 /\ (p - 1) + 1 = p
  BY <1>1
<1>3. Behind(l, m, (p - 1) + 1)
  BY <1>2
<1>4. l[p - 1] = m \/ (l[p - 1] = "blank" /\ Behind(l, m, p - 1))
  <2> DEFINE r == p - 1
  <2>1. r \in Nat /\ r > 0 /\ Behind(l, m, r + 1)
    BY <1>2, <1>3
  <2> HIDE DEF r
  <2>2. l[r] = m \/ (l[r] = "blank" /\ Behind(l, m, r))
    BY <2>1, BehindNext
  <2> QED
    BY <2>2 DEF r
<1> QED
  BY <1>2, <1>4

\* Nothing is behind both marks.
LEMMA BehindOne ==
  ASSUME NEW l, NEW p \in Nat, Behind(l, "<", p), Behind(l, ">", p)
  PROVE  FALSE
<1>1. PICK q \in 1..p - 1 : l[q] = "<" /\ \A k \in q + 1..p - 1 : l[k] = "blank"
  BY DEF Behind
<1>2. PICK r \in 1..p - 1 : l[r] = ">" /\ \A k \in r + 1..p - 1 : l[k] = "blank"
  BY DEF Behind
<1>3. q = r \/ q \in r + 1..p - 1 \/ r \in q + 1..p - 1
  OBVIOUS
<1> QED
  BY <1>1, <1>2, <1>3

\* The words that have ended once j letters are read, and the letter after them or the end
\* is known.
EndedAt(l, j, w) == w[2] < j \/ (w[2] = Len(l) /\ j = Len(l))
Ended(l, j, W)   == {w \in W : EndedAt(l, j, w)}

\* A word that letters up to the j-th belong to.
Run(l, a, j) == /\ a \in 1..j /\ \A k \in a..j : l[k] = "w"
                /\ a > 1 => l[a - 1] # "w"

\* What a word of a line is.
LEMMA WordFacts ==
  ASSUME NEW l, Len(l) \in Nat, NEW w \in WordsOf(l)
  PROVE  /\ w = <<w[1], w[2]>> /\ w[1] \in 1..Len(l) /\ w[2] \in 1..Len(l) /\ w[1] <= w[2]
         /\ \A k \in w[1]..w[2] : l[k] = "w"
         /\ w[1] > 1 => l[w[1] - 1] # "w"
         /\ w[2] < Len(l) => l[w[2] + 1] # "w"
BY DEF WordsOf, IsWord

\* Two words that share a letter are one.
LEMMA RunEnds ==
  ASSUME NEW l, Len(l) \in Nat, NEW a \in Nat, NEW j \in 1..Len(l), Run(l, a, j),
         NEW w \in WordsOf(l), w[2] >= j, w[1] <= j
  PROVE  w[1] = a
<1>1. /\ w[1] \in 1..Len(l) /\ w[2] \in 1..Len(l)
      /\ \A k \in w[1]..w[2] : l[k] = "w"
      /\ w[1] > 1 => l[w[1] - 1] # "w"
  BY WordFacts
<1>2. a \in 1..j /\ (\A k \in a..j : l[k] = "w") /\ (a > 1 => l[a - 1] # "w")
  BY DEF Run
<1>3. ASSUME w[1] < a PROVE FALSE
  <2>1. a > 1 /\ a - 1 \in w[1]..w[2]
    BY <1>1, <1>2, <1>3
  <2> QED
    BY <1>1, <1>2, <2>1
<1>4. ASSUME a < w[1] PROVE FALSE
  <2>1. w[1] > 1 /\ w[1] - 1 \in a..j
    BY <1>1, <1>2, <1>4
  <2> QED
    BY <1>1, <1>2, <2>1
<1> QED
  BY <1>1, <1>2, <1>3, <1>4

\* With the next letter a word ends, that begins further on than those that have ended.
Adds(l, j, w) == /\ w \in WordsOf(l) /\ ~EndedAt(l, j, w)
                 /\ \A v \in WordsOf(l) : /\ EndedAt(l, j + 1, v) <=> EndedAt(l, j, v) \/ v = w
                                          /\ EndedAt(l, j, v) => v[1] < w[1]
AddsNone(l, j) == \A v \in WordsOf(l) : EndedAt(l, j + 1, v) <=> EndedAt(l, j, v)

\* When the j-th letter belongs to a word, and the next one does not.
LEMMA WordCloses ==
  ASSUME NEW l, Len(l) \in Nat, NEW a \in Nat, NEW j \in 1..Len(l) - 1, Run(l, a, j),
         l[j + 1] # "w"
  PROVE  Adds(l, j, <<a, j>>)
<1>1. a \in 1..j /\ (\A k \in a..j : l[k] = "w") /\ (a > 1 => l[a - 1] # "w")
  BY DEF Run
<1>2. <<a, j>> \in WordsOf(l)
  BY <1>1 DEF WordsOf, IsWord
<1>3. ASSUME NEW w \in WordsOf(l)
      PROVE  EndedAt(l, j + 1, w) <=> EndedAt(l, j, w) \/ w = <<a, j>>
  <2>1. /\ w = <<w[1], w[2]>> /\ w[1] \in 1..Len(l) /\ w[2] \in 1..Len(l) /\ w[1] <= w[2]
        /\ \A k \in w[1]..w[2] : l[k] = "w"
    BY WordFacts
  <2>2. w[2] = j => w = <<a, j>>
    <3>1. ASSUME w[2] = j PROVE w[1] = a
      BY <2>1, <3>1, RunEnds
    <3> QED
      BY <2>1, <3>1
  <2>3. w[2] # j + 1
    BY <2>1
  <2> QED
    BY <2>1, <2>2, <2>3 DEF EndedAt
<1>4. ~EndedAt(l, j, <<a, j>>)
  BY DEF EndedAt
<1>5. ASSUME NEW w \in WordsOf(l), EndedAt(l, j, w) PROVE w[1] < a
  <2>1. /\ w[1] \in 1..Len(l) /\ w[2] \in 1..Len(l) /\ w[1] <= w[2] /\ w[2] < j
        /\ w[2] < Len(l) => l[w[2] + 1] # "w"
    BY <1>5, WordFacts DEF EndedAt
  <2>2. ASSUME a <= w[1] PROVE FALSE
    <3>1. w[2] + 1 \in a..j /\ w[2] < Len(l)
      BY <1>1, <2>1, <2>2
    <3> QED
      BY <1>1, <2>1, <3>1
  <2> QED
    BY <1>1, <2>1, <2>2
<1> QED
  BY <1>2, <1>3, <1>4, <1>5 DEF Adds

\* When the line ends with a letter of a word.
LEMMA WordAtEnd ==
  ASSUME NEW l, Len(l) \in Nat, NEW a \in Nat, NEW j \in Nat, j + 1 = Len(l), Run(l, a, j + 1)
  PROVE  Adds(l, j, <<a, j + 1>>)
<1>1. /\ a \in 1..j + 1 /\ (\A k \in a..j + 1 : l[k] = "w") /\ (a > 1 => l[a - 1] # "w")
      /\ j + 1 \in 1..Len(l)
  BY DEF Run
<1>2. <<a, j + 1>> \in WordsOf(l)
  BY <1>1 DEF WordsOf, IsWord
<1>3. ASSUME NEW w \in WordsOf(l)
      PROVE  EndedAt(l, j + 1, w) <=> EndedAt(l, j, w) \/ w = <<a, j + 1>>
  <2>1. /\ w = <<w[1], w[2]>> /\ w[1] \in 1..Len(l) /\ w[2] \in 1..Len(l) /\ w[1] <= w[2]
        /\ \A k \in w[1]..w[2] : l[k] = "w"
        /\ w[2] < Len(l) => l[w[2] + 1] # "w"
    BY WordFacts
  <2>2. w[2] = j + 1 => w = <<a, j + 1>>
    <3>1. ASSUME w[2] = j + 1 PROVE w[1] = a
      BY <1>1, <2>1, <3>1, RunEnds
    <3> QED
      BY <2>1, <3>1
  <2>3. w[2] # j
    BY <1>1, <2>1
  <2> QED
    BY <2>1, <2>2, <2>3 DEF EndedAt
<1>4. ~EndedAt(l, j, <<a, j + 1>>)
  BY DEF EndedAt
<1>5. ASSUME NEW w \in WordsOf(l), EndedAt(l, j, w) PROVE w[1] < a
  <2>1. /\ w[1] \in 1..Len(l) /\ w[2] \in 1..Len(l) /\ w[1] <= w[2] /\ w[2] < j
        /\ w[2] < Len(l) => l[w[2] + 1] # "w"
    BY <1>5, WordFacts DEF EndedAt
  <2>2. ASSUME a <= w[1] PROVE FALSE
    <3>1. w[2] + 1 \in a..j + 1 /\ w[2] < Len(l)
      BY <1>1, <2>1, <2>2
    <3> QED
      BY <1>1, <2>1, <3>1
  <2> QED
    BY <1>1, <2>1, <2>2
<1> QED
  BY <1>2, <1>3, <1>4, <1>5 DEF Adds

\* Within a word, and outside of one, no word ends.
LEMMA NoWordEnds ==
  ASSUME NEW l, Len(l) \in Nat, NEW j \in Nat, j + 1 <= Len(l),
         \/ l[j + 1] = "w" /\ j + 1 < Len(l)
         \/ l[j + 1] # "w" /\ (j = 0 \/ l[j] # "w")
  PROVE  AddsNone(l, j)
<1>1. ASSUME NEW w \in WordsOf(l)
      PROVE  EndedAt(l, j + 1, w) <=> EndedAt(l, j, w)
  <2>1. /\ w[1] \in 1..Len(l) /\ w[2] \in 1..Len(l) /\ w[1] <= w[2]
        /\ \A k \in w[1]..w[2] : l[k] = "w"
        /\ w[2] < Len(l) => l[w[2] + 1] # "w"
    BY WordFacts
  <2>2. l[w[2]] = "w"
    BY <2>1
  <2>3. w[2] = j => l[j + 1] # "w" /\ l[j] = "w" /\ j # 0
    BY <2>1, <2>2
  <2>4. w[2] = j + 1 => l[j + 1] = "w"
    BY <2>2
  <2> QED
    BY <2>1, <2>3, <2>4 DEF EndedAt
<1> QED
  BY <1>1 DEF AddsNone

-----------------------------------------------------------------------------
(* Lists of words.                                                         *)

\* Of some numbers one is the least.
LEMMA Least ==
  ASSUME NEW T \in SUBSET Nat, T # {}
  PROVE  \E k \in T : \A m \in T : k <= m
<1> DEFINE R == OpToRel(<, Nat)
<1>1. IsWellFoundedOn(R, Nat)
  BY NatLessThanWellFounded
<1>2. \A k, m \in Nat : <<m, k>> \in R <=> m < k
  BY DEF OpToRel
<1> HIDE DEF R
<1>3. PICK k \in T : \A m \in T : ~ (<<m, k>> \in R)
  BY <1>1, WFMin
<1>4. ASSUME NEW m \in T PROVE k <= m
  <2>1. k \in Nat /\ m \in Nat
    OBVIOUS
  <2>2. ~(m < k)
    BY <1>2, <1>3, <2>1, Zenon
  <2> QED
    BY <2>1, <2>2
<1> QED
  BY <1>4

\* One more word at the end of the list.
LEMMA ListedMore ==
  ASSUME NEW W, NEW s, Listed(s, W), NEW w, \A v \in W : v[1] < w[1]
  PROVE  Listed(Append(s, w), W \cup {w})
<1> DEFINE V == W \cup {w}
           t == Append(s, w)
<1>1. /\ s \in Seq(W) /\ (\A v \in W : \E k \in DOMAIN s : s[k] = v)
      /\ \A j, k \in DOMAIN s : j < k => s[j][1] < s[k][1]
  BY DEF Listed
<1>2. Len(s) \in Nat /\ DOMAIN s = 1..Len(s) /\ \A k \in 1..Len(s) : s[k] \in W
  BY <1>1
<1>3. s \in Seq(V) /\ w \in V
  <2>1. W \subseteq V /\ w \in V
    OBVIOUS
  <2> HIDE DEF V
  <2> QED
    BY <1>1, <2>1
<1> HIDE DEF V
<1>4. /\ t \in Seq(V) /\ Len(t) = Len(s) + 1 /\ DOMAIN t = 1..Len(s) + 1
      /\ \A k \in 1..Len(s) : t[k] = s[k]
      /\ t[Len(s) + 1] = w
  <2>1. /\ t \in Seq(V) /\ Len(t) = Len(s) + 1
        /\ \A k \in 1..Len(s) : t[k] = s[k]
        /\ t[Len(s) + 1] = w
    BY <1>3, AppendProperties
  <2> HIDE DEF t
  <2>2. DOMAIN t = 1..Len(t)
    BY <2>1
  <2> QED
    BY <2>1, <2>2
<1> HIDE DEF t
<1>5. ASSUME NEW v \in V PROVE \E k \in DOMAIN t : t[k] = v
  <2>1. CASE v = w
    <3>1. Len(s) + 1 \in DOMAIN t
      BY <1>2, <1>4
    <3> QED
      BY <1>4, <2>1, <3>1
  <2>2. CASE v \in W
    <3>1. PICK k \in 1..Len(s) : s[k] = v
      BY <1>1, <1>2, <2>2
    <3>2. k \in DOMAIN t /\ t[k] = v
      BY <1>2, <1>4, <3>1
    <3> QED
      BY <3>2
  <2> QED
    BY <2>1, <2>2 DEF V
<1>6. ASSUME NEW j \in DOMAIN t, NEW k \in DOMAIN t, j < k PROVE t[j][1] < t[k][1]
  <2>1. j \in 1..Len(s) /\ t[j] = s[j] /\ s[j] \in W
    BY <1>2, <1>4, <1>6
  <2>2. CASE k \in 1..Len(s)
    BY <1>1, <1>2, <1>4, <1>6, <2>1, <2>2
  <2>3. CASE k = Len(s) + 1
    BY <1>4, <2>1, <2>3
  <2> QED
    BY <1>2, <1>4, <2>2, <2>3
<1> QED
  BY <1>4, <1>5, <1>6 DEF Listed, V, t

\* There is one such list.
LEMMA ListedOnce ==
  ASSUME NEW W, \A w \in W : w[1] \in Nat, NEW s, NEW t, Listed(s, W), Listed(t, W)
  PROVE  s = t
<1>1. /\ s \in Seq(W) /\ (\A v \in W : \E k \in DOMAIN s : s[k] = v)
      /\ \A j, k \in DOMAIN s : j < k => s[j][1] < s[k][1]
      /\ t \in Seq(W) /\ (\A v \in W : \E k \in DOMAIN t : t[k] = v)
      /\ \A j, k \in DOMAIN t : j < k => t[j][1] < t[k][1]
  BY DEF Listed
<1>2. /\ Len(s) \in Nat /\ DOMAIN s = 1..Len(s) /\ Len(t) \in Nat /\ DOMAIN t = 1..Len(t)
      /\ \A k \in 1..Len(s) : s[k] \in W /\ s[k][1] \in Nat
      /\ \A k \in 1..Len(t) : t[k] \in W /\ t[k][1] \in Nat
  BY <1>1
<1>33. /\ \A j, k \in DOMAIN s : j < k => s[j] # s[k]
       /\ \A j, k \in DOMAIN t : j < k => t[j] # t[k]
  <2>1. ASSUME NEW j \in DOMAIN s, NEW k \in DOMAIN s, j < k PROVE s[j] # s[k]
    <3>1. s[j][1] < s[k][1] /\ s[j][1] \in Nat
      BY <1>1, <1>2, <2>1
    <3> QED
      BY <3>1
  <2>2. ASSUME NEW j \in DOMAIN t, NEW k \in DOMAIN t, j < k PROVE t[j] # t[k]
    <3>1. t[j][1] < t[k][1] /\ t[j][1] \in Nat
      BY <1>1, <1>2, <2>2
    <3> QED
      BY <3>1
  <2> QED
    BY <2>1, <2>2
<1> DEFINE T == {k \in Nat : k > 0 /\ (k <= Len(s) \/ k <= Len(t))
                             /\ ~(k <= Len(s) /\ k <= Len(t) /\ s[k] = t[k])}
<1>3. ASSUME T # {} PROVE FALSE
  <2>1. PICK k \in T : \A m \in T : k <= m
    <3>1. T \in SUBSET Nat
      OBVIOUS
    <3> HIDE DEF T
    <3> QED
      BY <1>3, <3>1, Least
  <2>2. /\ k \in Nat /\ k > 0 /\ (k <= Len(s) \/ k <= Len(t))
        /\ ~(k <= Len(s) /\ k <= Len(t) /\ s[k] = t[k])
    OBVIOUS
  <2>3. ASSUME NEW m \in 1..k - 1 PROVE m <= Len(s) /\ m <= Len(t) /\ s[m] = t[m]
    <3>1. m \in Nat /\ m > 0 /\ m < k /\ (m <= Len(s) \/ m <= Len(t))
      BY <1>2, <2>2
    <3>2. m \notin T
      BY <2>1, <2>2, <3>1
    <3> QED
      BY <3>1, <3>2
  <2> HIDE DEF T
  <2>4. k <= Len(s)
    <3>1. ASSUME Len(s) < k PROVE FALSE
      <4>1. k \in DOMAIN t /\ t[k] \in W
        BY <1>2, <2>2, <3>1
      <4>2. PICK m \in DOMAIN s : s[m] = t[k]
        BY <1>1, <4>1
      <4>3. m \in 1..k - 1
        BY <1>2, <2>2, <3>1
      <4>4. t[m] = t[k] /\ m \in DOMAIN t /\ m < k
        BY <1>2, <2>2, <2>3, <4>2, <4>3
      <4> QED
        BY <1>33, <4>1, <4>4
    <3> QED
      BY <1>2, <2>2, <3>1
  <2>5. k <= Len(t)
    <3>1. ASSUME Len(t) < k PROVE FALSE
      <4>1. k \in DOMAIN s /\ s[k] \in W
        BY <1>2, <2>2, <3>1
      <4>2. PICK m \in DOMAIN t : t[m] = s[k]
        BY <1>1, <4>1
      <4>3. m \in 1..k - 1
        BY <1>2, <2>2, <3>1
      <4>4. s[m] = s[k] /\ m \in DOMAIN s /\ m < k
        BY <1>2, <2>2, <2>3, <4>2, <4>3
      <4> QED
        BY <1>33, <4>1, <4>4
    <3> QED
      BY <1>2, <2>2, <3>1
  <2>6. k \in DOMAIN s /\ k \in DOMAIN t /\ s[k] \in W /\ t[k] \in W /\ s[k] # t[k]
    BY <1>2, <2>2, <2>4, <2>5
  <2>7. PICK m \in DOMAIN t : t[m] = s[k]
    BY <1>1, <2>6
  <2>8. PICK j \in DOMAIN s : s[j] = t[k]
    BY <1>1, <2>6
  <2>9. m > k
    <3>1. ASSUME m < k PROVE FALSE
      <4>1. s[m] = s[k] /\ m \in DOMAIN s
        BY <1>2, <2>2, <2>3, <2>7, <3>1
      <4> QED
        BY <1>33, <2>6, <3>1, <4>1
    <3>2. m # k
      BY <2>6, <2>7
    <3> QED
      BY <1>2, <2>2, <3>1, <3>2
  <2>10. j > k
    <3>1. ASSUME j < k PROVE FALSE
      <4>1. t[j] = t[k] /\ j \in DOMAIN t
        BY <1>2, <2>2, <2>3, <2>8, <3>1
      <4> QED
        BY <1>33, <2>6, <3>1, <4>1
    <3>2. j # k
      BY <2>6, <2>8
    <3> QED
      BY <1>2, <2>2, <3>1, <3>2
  <2>11. t[k][1] < s[k][1]
    <3>1. t[k][1] < t[m][1]
      BY <1>1, <2>6, <2>9
    <3> QED
      BY <2>7, <3>1
  <2>12. s[k][1] < t[k][1]
    <3>1. s[k][1] < s[j][1]
      BY <1>1, <2>6, <2>10
    <3> QED
      BY <2>8, <3>1
  <2> QED
    BY <1>2, <2>6, <2>11, <2>12
<1>4. \A k \in Nat : k > 0 /\ (k <= Len(s) \/ k <= Len(t))
                     => k <= Len(s) /\ k <= Len(t) /\ s[k] = t[k]
  BY <1>3
<1>5. Len(s) = Len(t)
  <2> HIDE DEF T
  <2>1. ASSUME Len(s) < Len(t) PROVE FALSE
    <3>1. Len(t) \in Nat /\ Len(t) > 0 /\ ~(Len(t) <= Len(s))
      BY <1>2, <2>1
    <3> QED
      BY <1>4, <3>1
  <2>2. ASSUME Len(t) < Len(s) PROVE FALSE
    <3>1. Len(s) \in Nat /\ Len(s) > 0 /\ ~(Len(s) <= Len(t))
      BY <1>2, <2>2
    <3> QED
      BY <1>4, <3>1
  <2>3. Len(s) \in Nat /\ Len(t) \in Nat
    BY <1>2
  <2> QED
    BY <2>1, <2>2, <2>3
<1>6. \A k \in 1..Len(s) : s[k] = t[k]
  BY <1>2, <1>4
<1> QED
  BY <1>1, <1>5, <1>6, SeqEqual

\* Where a word begins tells it, and so the last of some words.
LEMMA WordByStart ==
  ASSUME NEW l, Len(l) \in Nat, NEW v \in WordsOf(l), NEW w \in WordsOf(l), v[1] = w[1]
  PROVE  v = w
<1>1. /\ v = <<v[1], v[2]>> /\ v[1] \in 1..Len(l) /\ v[2] \in 1..Len(l) /\ v[1] <= v[2]
      /\ \A k \in v[1]..v[2] : l[k] = "w"
      /\ v[2] < Len(l) => l[v[2] + 1] # "w"
  BY WordFacts
<1>2. /\ w = <<w[1], w[2]>> /\ w[1] \in 1..Len(l) /\ w[2] \in 1..Len(l) /\ w[1] <= w[2]
      /\ \A k \in w[1]..w[2] : l[k] = "w"
      /\ w[2] < Len(l) => l[w[2] + 1] # "w"
  BY WordFacts
<1>3. ASSUME v[2] < w[2] PROVE FALSE
  <2>1. v[2] + 1 \in w[1]..w[2] /\ v[2] < Len(l)
    BY <1>1, <1>2, <1>3
  <2> QED
    BY <1>1, <1>2, <2>1
<1>4. ASSUME w[2] < v[2] PROVE FALSE
  <2>1. w[2] + 1 \in v[1]..v[2] /\ w[2] < Len(l)
    BY <1>1, <1>2, <1>4
  <2> QED
    BY <1>1, <1>2, <2>1
<1>5. v[2] = w[2]
  BY <1>1, <1>2, <1>3, <1>4
<1> QED
  BY <1>1, <1>2, <1>5

\* There is one last word, and a word further on becomes the last.
LEMMA LastOfOnce ==
  ASSUME NEW l, Len(l) \in Nat, NEW W \in SUBSET WordsOf(l),
         NEW f, NEW g, LastOf(f, W), LastOf(g, W)
  PROVE  f = g
<1>1. CASE W = {}
  BY <1>1 DEF LastOf
<1>2. CASE W # {}
  <2>1. f \in W /\ g \in W /\ g[1] <= f[1] /\ f[1] <= g[1]
    BY <1>2 DEF LastOf
  <2>2. f[1] \in Nat /\ g[1] \in Nat
    BY <2>1, WordFacts
  <2> QED
    BY <2>1, <2>2, WordByStart
<1> QED
  BY <1>1, <1>2

LEMMA LastOfMore ==
  ASSUME NEW W, NEW w, w[1] \in Int, \A v \in W : v[1] < w[1] /\ v[1] \in Int
  PROVE  LastOf(w, W \cup {w})
BY DEF LastOf

-----------------------------------------------------------------------------
(* What the words so far make of the program.                              *)

Fields == {"args", "input", "output"}
Places(l) == (1..Len(l)) \X (1..Len(l))
Files(l)  == (0..Len(l)) \X (0..Len(l))
Programs(l) == [args : Seq(Places(l)), input : Files(l), output : Files(l), bg : BOOLEAN]

\* What a step makes of the program: one name more, or none.
Saved(q, p, field, w, b) ==
  q = [args   |-> IF field = "args" THEN Append(p.args, w) ELSE p.args,
       input  |-> IF field = "input" THEN w ELSE p.input,
       output |-> IF field = "output" THEN w ELSE p.output,
       bg     |-> p.bg \/ b]
Kept(q, p, b) ==
  q = [args |-> p.args, input |-> p.input, output |-> p.output, bg |-> p.bg \/ b]

\* What the first j letters of a line say.
NamesFor(l, field) == CASE field = "args" -> ArgWords(l)
                        [] field = "input" -> FileNames(l, "<")
                        [] field = "output" -> FileNames(l, ">")
Collected(l, j, p) ==
  /\ Listed(p.args, Ended(l, j, ArgWords(l)))
  /\ LastOf(p.input, Ended(l, j, FileNames(l, "<")))
  /\ LastOf(p.output, Ended(l, j, FileNames(l, ">")))
  /\ p.bg <=> \E k \in 1..j : l[k] = "&"

\* They are words.
LEMMA NamesAre ==
  ASSUME NEW l
  PROVE  /\ NamesFor(l, "args") = ArgWords(l) /\ NamesFor(l, "input") = FileNames(l, "<")
         /\ NamesFor(l, "output") = FileNames(l, ">")
         /\ ArgWords(l) \subseteq WordsOf(l)
         /\ \A m : FileNames(l, m) \subseteq WordsOf(l)
BY DEF NamesFor, ArgWords, FileNames

\* A word is for one field.
LEMMA NamesApart ==
  ASSUME NEW l, Len(l) \in Nat, NEW w \in WordsOf(l)
  PROVE  /\ w \in ArgWords(l) => w \notin FileNames(l, "<") /\ w \notin FileNames(l, ">")
         /\ w \in FileNames(l, "<") => w \notin FileNames(l, ">")
<1>1. w[1] \in Nat
  BY WordFacts
<1> QED
  BY <1>1, BehindOne DEF ArgWords, FileNames

\* One more letter may be the mark of the background.
LEMMA MarksMore ==
  ASSUME NEW l, NEW j \in Nat, NEW b \in BOOLEAN, b <=> l[j + 1] = "&", NEW x, NEW y,
         x <=> \E k \in 1..j : l[k] = "&", y <=> x \/ b
  PROVE  y <=> \E k \in 1..j + 1 : l[k] = "&"
<1>1. \A k \in 1..j + 1 : k \in 1..j \/ k = j + 1
  OBVIOUS
<1>2. (\A k \in 1..j : k \in 1..j + 1) /\ j + 1 \in 1..j + 1
  OBVIOUS
<1> QED
  BY <1>1, <1>2

\* The words that have ended, with one more or the same.
LEMMA EndedMore ==
  ASSUME NEW l, NEW j, NEW w, Adds(l, j, w), NEW W \in SUBSET WordsOf(l)
  PROVE  /\ w \in W => Ended(l, j + 1, W) = Ended(l, j, W) \cup {w}
         /\ w \notin W => Ended(l, j + 1, W) = Ended(l, j, W)
         /\ \A v \in Ended(l, j, W) : v \in WordsOf(l) /\ v[1] < w[1]
BY DEF Adds, Ended

LEMMA EndedSame ==
  ASSUME NEW l, NEW j, AddsNone(l, j), NEW W \in SUBSET WordsOf(l)
  PROVE  Ended(l, j + 1, W) = Ended(l, j, W)
BY DEF AddsNone, Ended

\* A word that ends is saved in its field, and where none ends none is saved.
LEMMA CollectSave ==
  ASSUME NEW l, Len(l) \in Nat, NEW j \in Nat, NEW p, NEW q, NEW field \in Fields, NEW w,
         NEW b \in BOOLEAN, Collected(l, j, p), Adds(l, j, w), w \in NamesFor(l, field),
         b <=> l[j + 1] = "&", Saved(q, p, field, w, b)
  PROVE  Collected(l, j + 1, q)
<1>1. /\ Listed(p.args, Ended(l, j, ArgWords(l)))
      /\ LastOf(p.input, Ended(l, j, FileNames(l, "<")))
      /\ LastOf(p.output, Ended(l, j, FileNames(l, ">")))
      /\ p.bg <=> \E k \in 1..j : l[k] = "&"
  BY DEF Collected
<1>2. /\ q.args = IF field = "args" THEN Append(p.args, w) ELSE p.args
      /\ q.input = IF field = "input" THEN w ELSE p.input
      /\ q.output = IF field = "output" THEN w ELSE p.output
      /\ q.bg <=> p.bg \/ b
  BY DEF Saved
<1>3. q.bg <=> \E k \in 1..j + 1 : l[k] = "&"
  BY <1>1, <1>2, MarksMore
<1>4. w \in WordsOf(l) /\ w[1] \in Int
  <2>1. w \in WordsOf(l)
    BY DEF Adds
  <2> QED
    BY <2>1, WordFacts
<1>5. ASSUME NEW W \in SUBSET WordsOf(l)
      PROVE  /\ w \in W => Ended(l, j + 1, W) = Ended(l, j, W) \cup {w}
             /\ w \notin W => Ended(l, j + 1, W) = Ended(l, j, W)
             /\ \A v \in Ended(l, j, W) : v[1] < w[1] /\ v[1] \in Int
  <2>1. \A v \in Ended(l, j, W) : v \in WordsOf(l) /\ v[1] < w[1]
    BY EndedMore
  <2>2. \A v \in WordsOf(l) : v[1] \in Int
    BY WordFacts
  <2> QED
    BY <2>1, <2>2, EndedMore
<1>6. ArgWords(l) \in SUBSET WordsOf(l) /\ \A m : FileNames(l, m) \in SUBSET WordsOf(l)
  BY NamesAre
<1>7. Listed(q.args, Ended(l, j + 1, ArgWords(l)))
  <2>1. CASE field = "args"
    <3>1. w \in ArgWords(l)
      BY <2>1, NamesAre
    <3>2. /\ Ended(l, j + 1, ArgWords(l)) = Ended(l, j, ArgWords(l)) \cup {w}
          /\ \A v \in Ended(l, j, ArgWords(l)) : v[1] < w[1]
      BY <1>5, <1>6, <3>1
    <3> QED
      BY <1>1, <1>2, <2>1, <3>2, ListedMore
  <2>2. CASE field # "args"
    <3>1. w \notin ArgWords(l)
      BY <1>4, <2>2, NamesAre, NamesApart DEF Fields
    <3> QED
      BY <1>1, <1>2, <1>5, <1>6, <2>2, <3>1
  <2> QED
    BY <2>1, <2>2
<1>8. LastOf(q.input, Ended(l, j + 1, FileNames(l, "<")))
  <2>1. CASE field = "input"
    <3>1. w \in FileNames(l, "<")
      BY <2>1, NamesAre
    <3>2. /\ Ended(l, j + 1, FileNames(l, "<")) = Ended(l, j, FileNames(l, "<")) \cup {w}
          /\ \A v \in Ended(l, j, FileNames(l, "<")) : v[1] < w[1] /\ v[1] \in Int
      BY <1>5, <1>6, <3>1
    <3>3. LastOf(w, Ended(l, j, FileNames(l, "<")) \cup {w})
      BY <1>4, <3>2, LastOfMore
    <3>4. q.input = w
      BY <1>2, <2>1
    <3> QED
      BY <3>2, <3>3, <3>4
  <2>2. CASE field # "input"
    <3>1. w \notin FileNames(l, "<")
      BY <1>4, <2>2, NamesAre, NamesApart DEF Fields
    <3> QED
      BY <1>1, <1>2, <1>5, <1>6, <2>2, <3>1
  <2> QED
    BY <2>1, <2>2
<1>9. LastOf(q.output, Ended(l, j + 1, FileNames(l, ">")))
  <2>1. CASE field = "output"
    <3>1. w \in FileNames(l, ">")
      BY <2>1, NamesAre
    <3>2. /\ Ended(l, j + 1, FileNames(l, ">")) = Ended(l, j, FileNames(l, ">")) \cup {w}
          /\ \A v \in Ended(l, j, FileNames(l, ">")) : v[1] < w[1] /\ v[1] \in Int
      BY <1>5, <1>6, <3>1
    <3>3. LastOf(w, Ended(l, j, FileNames(l, ">")) \cup {w})
      BY <1>4, <3>2, LastOfMore
    <3>4. q.output = w
      BY <1>2, <2>1
    <3> QED
      BY <3>2, <3>3, <3>4
  <2>2. CASE field # "output"
    <3>1. w \notin FileNames(l, ">")
      BY <1>4, <2>2, NamesAre, NamesApart DEF Fields
    <3> QED
      BY <1>1, <1>2, <1>5, <1>6, <2>2, <3>1
  <2> QED
    BY <2>1, <2>2
<1> QED
  BY <1>3, <1>7, <1>8, <1>9 DEF Collected

LEMMA CollectKeep ==
  ASSUME NEW l, NEW j \in Nat, NEW p, NEW q, NEW b \in BOOLEAN, Collected(l, j, p),
         AddsNone(l, j), b <=> l[j + 1] = "&", Kept(q, p, b)
  PROVE  Collected(l, j + 1, q)
<1>1. /\ Listed(p.args, Ended(l, j, ArgWords(l)))
      /\ LastOf(p.input, Ended(l, j, FileNames(l, "<")))
      /\ LastOf(p.output, Ended(l, j, FileNames(l, ">")))
      /\ p.bg <=> \E k \in 1..j : l[k] = "&"
  BY DEF Collected
<1>2. /\ q.args = p.args /\ q.input = p.input /\ q.output = p.output
      /\ q.bg <=> p.bg \/ b
  BY DEF Kept
<1>3. q.bg <=> \E k \in 1..j + 1 : l[k] = "&"
  BY <1>1, <1>2, MarksMore
<1>4. ArgWords(l) \in SUBSET WordsOf(l) /\ \A m : FileNames(l, m) \in SUBSET WordsOf(l)
  BY NamesAre
<1>5. \A W \in SUBSET WordsOf(l) : Ended(l, j + 1, W) = Ended(l, j, W)
  BY EndedSame
<1> QED
  BY <1>1, <1>2, <1>3, <1>4, <1>5 DEF Collected

\* Before the first letter nothing is collected, and after the last one all is.
LEMMA CollectNone ==
  ASSUME NEW l \in Seq(Letters)
  PROVE  Collected(l, 0, Empty)
<1>1. Len(l) \in Nat
  OBVIOUS
<1>2. ASSUME NEW w \in WordsOf(l) PROVE ~EndedAt(l, 0, w)
  <2>1. w[2] \in 1..Len(l)
    BY <1>1, WordFacts
  <2> QED
    BY <1>1, <2>1 DEF EndedAt
<1>3. \A W \in SUBSET WordsOf(l) : Ended(l, 0, W) = {}
  BY <1>2 DEF Ended
<1>4. ArgWords(l) \in SUBSET WordsOf(l) /\ \A m : FileNames(l, m) \in SUBSET WordsOf(l)
  BY NamesAre
<1>5. Listed(<<>>, {})
  BY DEF Listed
<1>6. LastOf(NoFile, {})
  BY DEF LastOf
<1>7. ~ \E k \in 1..0 : l[k] = "&"
  OBVIOUS
<1>8. Empty.args = <<>> /\ Empty.input = NoFile /\ Empty.output = NoFile /\ Empty.bg = FALSE
  BY DEF Empty
<1> QED
  BY <1>3, <1>4, <1>5, <1>6, <1>7, <1>8 DEF Collected

LEMMA CollectedIs ==
  ASSUME NEW l \in Seq(Letters), NEW p, Collected(l, Len(l), p)
  PROVE  /\ Listed(p.args, ArgWords(l))
         /\ LastOf(p.input, FileNames(l, "<")) /\ LastOf(p.output, FileNames(l, ">"))
         /\ p.bg <=> \E k \in 1..Len(l) : l[k] = "&"
<1>1. Len(l) \in Nat
  OBVIOUS
<1>2. ASSUME NEW w \in WordsOf(l) PROVE EndedAt(l, Len(l), w)
  <2>1. w[2] \in 1..Len(l)
    BY <1>1, WordFacts
  <2> QED
    BY <1>1, <2>1 DEF EndedAt
<1>3. \A W \in SUBSET WordsOf(l) : Ended(l, Len(l), W) = W
  BY <1>2 DEF Ended
<1>4. ArgWords(l) \in SUBSET WordsOf(l) /\ \A m : FileNames(l, m) \in SUBSET WordsOf(l)
  BY NamesAre
<1> QED
  BY <1>3, <1>4 DEF Collected

LEMMA CollectedStands ==
  ASSUME NEW l \in Seq(Letters), NEW p \in Programs(l), Collected(l, Len(l), p)
  PROVE  StandsFor(l, p)
<1>1. /\ Listed(p.args, ArgWords(l))
      /\ LastOf(p.input, FileNames(l, "<")) /\ LastOf(p.output, FileNames(l, ">"))
      /\ p.bg <=> \E k \in 1..Len(l) : l[k] = "&"
  BY CollectedIs
<1>2. (\E k \in 1..Len(l) : l[k] = "&") = p.bg
  BY <1>1 DEF Programs
<1>3. p = [args |-> p.args, input |-> p.input, output |-> p.output, bg |-> p.bg]
  BY DEF Programs
<1> QED
  BY <1>1, <1>2, <1>3 DEF StandsFor

\* A line stands for one program.
LEMMA CollectAll ==
  ASSUME NEW l \in Seq(Letters), NEW p \in Programs(l), Collected(l, Len(l), p),
         NEW q, StandsFor(l, q)
  PROVE  p = q
<1>1. Len(l) \in Nat
  OBVIOUS
<1>2. \A w \in WordsOf(l) : w[1] \in Nat
  BY <1>1, WordFacts
<1>4. ArgWords(l) \in SUBSET WordsOf(l) /\ \A m : FileNames(l, m) \in SUBSET WordsOf(l)
  BY NamesAre
<1>5. /\ Listed(p.args, ArgWords(l))
      /\ LastOf(p.input, FileNames(l, "<")) /\ LastOf(p.output, FileNames(l, ">"))
      /\ p.bg <=> \E k \in 1..Len(l) : l[k] = "&"
  BY CollectedIs
<1>6. /\ q = [args |-> q.args, input |-> q.input, output |-> q.output,
              bg |-> \E k \in 1..Len(l) : l[k] = "&"]
      /\ Listed(q.args, ArgWords(l))
      /\ LastOf(q.input, FileNames(l, "<")) /\ LastOf(q.output, FileNames(l, ">"))
  BY DEF StandsFor
<1>7. p.args = q.args
  <2>1. \A w \in ArgWords(l) : w[1] \in Nat
    BY <1>2, <1>4
  <2> QED
    BY <1>5, <1>6, <2>1, ListedOnce
<1>8. p.input = q.input /\ p.output = q.output
  BY <1>1, <1>4, <1>5, <1>6, LastOfOnce
<1>9. (\E k \in 1..Len(l) : l[k] = "&") = p.bg
  BY <1>5 DEF Programs
<1>10. p = [args |-> p.args, input |-> p.input, output |-> p.output, bg |-> p.bg]
  BY DEF Programs
<1> QED
  BY <1>6, <1>7, <1>8, <1>9, <1>10

-----------------------------------------------------------------------------
(* What is known when the k-th letter is read next: the machine is in a    *)
(* state, with a name from some letter on, and has a program.              *)

NameState == [args |-> "Add", input |-> "InputAdd", output |-> "OutputAdd"]
Kind(l, field, a) ==
  /\ field = "args" => ~Behind(l, "<", a) /\ ~Behind(l, ">", a)
  /\ field = "input" => Behind(l, "<", a)
  /\ field = "output" => Behind(l, ">", a)

\* Of any line: an argument is a part of the letters that have been read.
ArgAt(l, k, w) == /\ 1 <= w[1] /\ w[1] <= w[2] /\ w[2] < k
                  /\ \A r \in w[1]..w[2] : l[r] # "blank"
                  /\ l[w[1]] = "w"
InName(l, k, st, from, field) ==
  st = NameState[field] => /\ from \in 1..k - 1 /\ \A r \in from..k - 1 : l[r] # "blank"
                           /\ field = "args" => l[from] = "w"
Shape(l, k, st, from, p) ==
  /\ k \in 1..Len(l) + 1 /\ st \in States /\ from \in 0..Len(l) /\ p \in Programs(l)
  /\ \A field \in Fields : InName(l, k, st, from, field)
  /\ \A m \in DOMAIN p.args : ArgAt(l, k, p.args[m])

\* Of a permitted line: the program is what the letters so far say, and the state tells
\* what is behind them.
ReadingAt(l, k, st, from) ==
  /\ st = "New" => (k = 1 \/ l[k - 1] # "w") /\ ~Behind(l, "<", k) /\ ~Behind(l, ">", k)
  /\ st = "Input" => Behind(l, "<", k)
  /\ st = "Output" => Behind(l, ">", k)
  /\ \A field \in Fields : st = NameState[field] => Run(l, from, k - 1) /\ Kind(l, field, from)
Good(l, k, st, from, p) ==
  Permitted(l) => /\ Collected(l, k - 1, p)
                  /\ k <= Len(l) => ReadingAt(l, k, st, from)
Fit(l, k, st, from, p) == Shape(l, k, st, from, p) /\ Good(l, k, st, from, p)

\* The states of names are three, and no other ones.
LEMMA NameStates ==
  /\ NameState["args"] = "Add" /\ NameState["input"] = "InputAdd"
  /\ NameState["output"] = "OutputAdd"
  /\ \A f \in Fields : NameState[f] \in States /\ NameState[f] \notin {"New", "Input", "Output"}
  /\ \A f, g \in Fields : NameState[f] = NameState[g] => f = g
<1>1. NameState["args"] = "Add" /\ NameState["input"] = "InputAdd"
      /\ NameState["output"] = "OutputAdd"
  BY DEF NameState
<1> QED
  BY <1>1 DEF Fields, States

\* What is behind a word tells its field.
LEMMA KindNames ==
  ASSUME NEW l, NEW field \in Fields, NEW w \in WordsOf(l), Kind(l, field, w[1])
  PROVE  w \in NamesFor(l, field)
<1>1. CASE field = "args"
  BY <1>1, NamesAre DEF Kind, ArgWords
<1>2. CASE field = "input"
  BY <1>2, NamesAre DEF Kind, FileNames
<1>3. CASE field = "output"
  BY <1>3, NamesAre DEF Kind, FileNames
<1> QED
  BY <1>1, <1>2, <1>3 DEF Fields

\* It stays so when more is read.
LEMMA ArgAtMore ==
  ASSUME NEW l, NEW k \in Nat, NEW w, w[2] \in Nat, ArgAt(l, k, w)
  PROVE  ArgAt(l, k + 1, w)
BY DEF ArgAt

\* The program after a step.
LEMMA ShapeSave ==
  ASSUME NEW l \in Seq(Letters), NEW k \in 1..Len(l), NEW p \in Programs(l), NEW q,
         NEW field \in Fields, NEW w \in Places(l), NEW b \in BOOLEAN,
         Saved(q, p, field, w, b), field = "args" => ArgAt(l, k + 1, w),
         \A m \in DOMAIN p.args : ArgAt(l, k, p.args[m])
  PROVE  /\ q \in Programs(l)
         /\ \A m \in DOMAIN q.args : ArgAt(l, k + 1, q.args[m])
<1>1. /\ p.args \in Seq(Places(l)) /\ p.input \in Files(l) /\ p.output \in Files(l)
      /\ p.bg \in BOOLEAN
  BY DEF Programs
<1>2. Places(l) \subseteq Files(l) /\ Len(l) \in Nat
  BY DEF Places, Files
<1>3. ASSUME NEW m \in DOMAIN p.args PROVE ArgAt(l, k + 1, p.args[m])
  <2>1. p.args[m] \in Places(l)
    BY <1>1
  <2>2. p.args[m][2] \in Nat
    BY <2>1 DEF Places
  <2> QED
    BY <1>2, <2>2, ArgAtMore
<1>4. CASE field = "args"
  <2> DEFINE t == Append(p.args, w)
  <2>1. q = [args |-> t, input |-> p.input, output |-> p.output, bg |-> p.bg \/ b]
    BY <1>4 DEF Saved
  <2> HIDE DEF Places
  <2>2. /\ t \in Seq(Places(l)) /\ Len(t) = Len(p.args) + 1 /\ Len(p.args) \in Nat
        /\ \A m \in 1..Len(p.args) : t[m] = p.args[m]
        /\ t[Len(p.args) + 1] = w
    BY <1>1, AppendProperties
  <2> HIDE DEF t
  <2>3. ASSUME NEW m \in DOMAIN t PROVE ArgAt(l, k + 1, t[m])
    <3>1. m \in 1..Len(p.args) \/ m = Len(p.args) + 1
      BY <2>2
    <3>2. m \in 1..Len(p.args) => m \in DOMAIN p.args
      BY <1>1
    <3> QED
      BY <1>3, <1>4, <2>2, <3>1, <3>2
  <2>4. q \in Programs(l)
    BY <1>1, <2>1, <2>2 DEF Programs
  <2>5. q.args = t
    BY <2>1
  <2> QED
    BY <2>3, <2>4, <2>5
<1>5. CASE field # "args"
  <2>1. q.args = p.args
    BY <1>5 DEF Saved
  <2>2. q \in Programs(l)
    <3>1. w \in Files(l)
      BY <1>2
    <3> QED
      BY <1>1, <1>5, <3>1 DEF Saved, Programs
  <2> QED
    BY <1>3, <2>1, <2>2
<1> QED
  BY <1>4, <1>5

LEMMA ShapeKeep ==
  ASSUME NEW l \in Seq(Letters), NEW k \in 1..Len(l), NEW p \in Programs(l), NEW q,
         NEW b \in BOOLEAN, Kept(q, p, b),
         \A m \in DOMAIN p.args : ArgAt(l, k, p.args[m])
  PROVE  /\ q \in Programs(l)
         /\ \A m \in DOMAIN q.args : ArgAt(l, k + 1, q.args[m])
<1>1. /\ p.args \in Seq(Places(l)) /\ p.input \in Files(l) /\ p.output \in Files(l)
      /\ p.bg \in BOOLEAN
  BY DEF Programs
<1>2. ASSUME NEW m \in DOMAIN p.args PROVE ArgAt(l, k + 1, p.args[m])
  <2>1. p.args[m] \in Places(l) /\ k \in Nat
    BY <1>1
  <2>2. p.args[m][2] \in Nat
    BY <2>1 DEF Places
  <2> QED
    BY <2>1, <2>2, ArgAtMore
<1>3. q.args = p.args /\ q \in Programs(l)
  BY <1>1 DEF Kept, Programs
<1> QED
  BY <1>2, <1>3

-----------------------------------------------------------------------------
(* The letters of a line, one kind after another.                          *)

\* The first letter of a name.
LEMMA Opened ==
  ASSUME NEW l \in Seq(Letters), NEW k \in 1..Len(l), NEW st, NEW from, NEW p,
         Fit(l, k, st, from, p), NEW q, NEW field \in Fields,
         l[k] # "blank", field = "args" => l[k] = "w",
         Permitted(l) => l[k] = "w" /\ Kind(l, field, k) /\ (k = 1 \/ l[k - 1] # "w"),
         k = Len(l) => Saved(q, p, field, <<k, k>>, FALSE),
         k < Len(l) => Kept(q, p, FALSE)
  PROVE  Fit(l, k + 1, NameState[field], k, q)
<1>1. /\ p \in Programs(l) /\ Len(l) \in Nat
      /\ \A m \in DOMAIN p.args : ArgAt(l, k, p.args[m])
  BY DEF Fit, Shape
<1>2. \A r \in k..(k + 1) - 1 : r = k
  OBVIOUS
<1>3. field = "args" => ArgAt(l, k + 1, <<k, k>>)
  BY <1>2 DEF ArgAt
<1>4. <<k, k>> \in Places(l)
  BY DEF Places
<1>5. q \in Programs(l) /\ \A m \in DOMAIN q.args : ArgAt(l, k + 1, q.args[m])
  <2>1. CASE k = Len(l)
    BY <1>1, <1>3, <1>4, <2>1, ShapeSave
  <2>2. CASE k < Len(l)
    BY <1>1, <2>2, ShapeKeep
  <2> QED
    BY <1>1, <2>1, <2>2
<1>6. Shape(l, k + 1, NameState[field], k, q)
  <2>1. ASSUME NEW f \in Fields PROVE InName(l, k + 1, NameState[field], k, f)
    <3>1. NameState[field] = NameState[f] => f = field
      BY NameStates
    <3>2. k \in 1..(k + 1) - 1
      OBVIOUS
    <3> QED
      BY <1>2, <3>1, <3>2 DEF InName
  <2>2. k + 1 \in 1..Len(l) + 1 /\ k \in 0..Len(l)
    BY <1>1
  <2> QED
    BY <1>5, <2>1, <2>2, NameStates DEF Shape
<1>7. ASSUME Permitted(l) PROVE Collected(l, (k + 1) - 1, q)
  <2>1. Run(l, k, k)
    BY <1>7 DEF Run
  <2>2. Collected(l, k - 1, p) /\ k - 1 \in Nat /\ (k - 1) + 1 = k /\ l[k] = "w"
    BY <1>7 DEF Fit, Good
  <2> DEFINE j == k - 1
  <2>3. j \in Nat /\ j + 1 = k /\ Collected(l, j, p) /\ j + 1 <= Len(l)
    BY <1>1, <2>2
  <2> HIDE DEF j
  <2>4. CASE k = Len(l)
    <3>1. Adds(l, j, <<k, j + 1>>)
      BY <1>1, <2>1, <2>3, <2>4, WordAtEnd
    <3>2. <<k, k>> \in WordsOf(l) /\ Adds(l, j, <<k, k>>)
      BY <2>3, <3>1 DEF Adds
    <3>3. <<k, k>> \in NamesFor(l, field)
      <4>1. Kind(l, field, <<k, k>>[1])
        BY <1>7
      <4> QED
        BY <3>2, <4>1, KindNames
    <3>4. Collected(l, j + 1, q)
      <4>1. FALSE <=> l[j + 1] = "&"
        BY <1>7, <2>3
      <4> QED
        BY <1>1, <2>3, <2>4, <3>2, <3>3, <4>1, CollectSave
    <3> QED
      BY <2>3, <3>4
  <2>5. CASE k < Len(l)
    <3>1. AddsNone(l, j)
      BY <1>1, <2>2, <2>3, <2>5, NoWordEnds
    <3>2. Collected(l, j + 1, q)
      <4>1. FALSE <=> l[j + 1] = "&"
        BY <1>7, <2>3
      <4> QED
        BY <2>3, <2>5, <3>1, <4>1, CollectKeep
    <3> QED
      BY <2>3, <3>2
  <2> QED
    BY <1>1, <2>4, <2>5
<1>8. ASSUME Permitted(l) PROVE ReadingAt(l, k + 1, NameState[field], k)
  <2>1. Run(l, k, (k + 1) - 1)
    BY <1>8 DEF Run
  <2>2. \A f \in Fields : NameState[field] = NameState[f] => f = field
    BY NameStates
  <2> QED
    BY <1>8, <2>1, <2>2, NameStates DEF ReadingAt
<1> QED
  BY <1>6, <1>7, <1>8 DEF Fit, Good

\* A letter between names.
LEMMA Between ==
  ASSUME NEW l \in Seq(Letters), NEW k \in 1..Len(l), NEW st, NEW from, NEW p,
         Fit(l, k, st, from, p), NEW q, NEW b \in BOOLEAN, Kept(q, p, b),
         NEW to \in {"New", "Input", "Output"},
         Permitted(l) => /\ b <=> l[k] = "&"
                         /\ l[k] # "w" /\ (k = 1 \/ l[k - 1] # "w")
                         /\ to = "New" => ~Behind(l, "<", k + 1) /\ ~Behind(l, ">", k + 1)
                         /\ to = "Input" => Behind(l, "<", k + 1)
                         /\ to = "Output" => Behind(l, ">", k + 1)
  PROVE  Fit(l, k + 1, to, from, q)
<1>1. /\ p \in Programs(l) /\ Len(l) \in Nat /\ from \in 0..Len(l)
      /\ \A m \in DOMAIN p.args : ArgAt(l, k, p.args[m])
  BY DEF Fit, Shape
<1>2. q \in Programs(l) /\ \A m \in DOMAIN q.args : ArgAt(l, k + 1, q.args[m])
  BY <1>1, ShapeKeep
<1>3. Shape(l, k + 1, to, from, q)
  <2>1. ASSUME NEW f \in Fields PROVE InName(l, k + 1, to, from, f)
    BY NameStates DEF InName
  <2>2. k + 1 \in 1..Len(l) + 1 /\ to \in States
    BY <1>1 DEF States
  <2> QED
    BY <1>1, <1>2, <2>1, <2>2 DEF Shape
<1>4. ASSUME Permitted(l) PROVE Collected(l, (k + 1) - 1, q)
  <2>1. Collected(l, k - 1, p) /\ k - 1 \in Nat /\ (k - 1) + 1 = k
    BY <1>4 DEF Fit, Good
  <2> DEFINE j == k - 1
  <2>2. j \in Nat /\ j + 1 = k /\ Collected(l, j, p) /\ j + 1 <= Len(l) /\ (j = 0 \/ l[j] # "w")
    BY <1>1, <1>4, <2>1
  <2> HIDE DEF j
  <2>3. AddsNone(l, j)
    BY <1>1, <1>4, <2>2, NoWordEnds
  <2>4. Collected(l, j + 1, q)
    BY <1>4, <2>2, <2>3, CollectKeep
  <2> QED
    BY <2>2, <2>4
<1>5. ASSUME Permitted(l) PROVE ReadingAt(l, k + 1, to, from)
  <2>1. \A f \in Fields : to # NameState[f]
    BY NameStates
  <2>2. l[(k + 1) - 1] # "w"
    BY <1>5
  <2> QED
    BY <1>5, <2>1, <2>2 DEF ReadingAt
<1> QED
  BY <1>3, <1>4, <1>5 DEF Fit, Good

\* What the state of a name says.
LEMMA InAName ==
  ASSUME NEW l \in Seq(Letters), NEW k \in 1..Len(l), NEW from, NEW p, NEW field \in Fields,
         Fit(l, k, NameState[field], from, p)
  PROVE  /\ p \in Programs(l) /\ Len(l) \in Nat /\ from \in 1..k - 1 /\ k - 1 \in Nat
         /\ \A m \in DOMAIN p.args : ArgAt(l, k, p.args[m])
         /\ \A r \in from..k - 1 : l[r] # "blank"
         /\ field = "args" => l[from] = "w"
         /\ Permitted(l) => /\ Collected(l, k - 1, p) /\ Run(l, from, k - 1)
                            /\ Kind(l, field, from)
<1>1. InName(l, k, NameState[field], from, field)
  BY DEF Fit, Shape
<1>2. Permitted(l) => ReadingAt(l, k, NameState[field], from)
  BY DEF Fit, Good
<1> QED
  BY <1>1, <1>2 DEF Fit, Shape, Good, InName, ReadingAt

\* The letter that ends a name.
LEMMA Closed ==
  ASSUME NEW l \in Seq(Letters), NEW k \in 1..Len(l), NEW from, NEW p, NEW field \in Fields,
         Fit(l, k, NameState[field], from, p), NEW q, NEW b \in BOOLEAN,
         Saved(q, p, field, <<from, k - 1>>, b), l[k] \in {"blank", "<", ">", "&"},
         b <=> l[k] = "&", NEW to,
         to = CASE l[k] = "<" -> "Input" [] l[k] = ">" -> "Output"
                [] l[k] = "&" -> NameState[field] [] OTHER -> "New"
  PROVE  Fit(l, k + 1, to, from, q)
<1> DEFINE w == <<from, k - 1>>
<1>1. /\ p \in Programs(l) /\ Len(l) \in Nat /\ from \in 1..k - 1 /\ k - 1 \in Nat
      /\ \A m \in DOMAIN p.args : ArgAt(l, k, p.args[m])
      /\ \A r \in from..k - 1 : l[r] # "blank"
      /\ field = "args" => l[from] = "w"
      /\ Permitted(l) => /\ Collected(l, k - 1, p) /\ Run(l, from, k - 1)
                         /\ Kind(l, field, from)
  BY InAName
<1>2. w \in Places(l) /\ (field = "args" => ArgAt(l, k + 1, w))
  BY <1>1 DEF Places, ArgAt
<1>3. q \in Programs(l) /\ \A m \in DOMAIN q.args : ArgAt(l, k + 1, q.args[m])
  BY <1>1, <1>2, ShapeSave
<1>4. to \in States /\ (to = NameState[field] => l[k] = "&")
      /\ \A f \in Fields : to = NameState[f] => f = field
  BY NameStates DEF States
<1>5. Shape(l, k + 1, to, from, q)
  <2>1. ASSUME NEW f \in Fields, to = NameState[f] PROVE InName(l, k + 1, to, from, f)
    <3>1. f = field /\ l[k] # "blank"
      BY <1>4, <2>1
    <3>2. \A r \in from..(k + 1) - 1 : r \in from..k - 1 \/ r = k
      BY <1>1
    <3>3. from \in 1..(k + 1) - 1
      BY <1>1
    <3> QED
      BY <1>1, <3>1, <3>2, <3>3 DEF InName
  <2>2. \A f \in Fields : InName(l, k + 1, to, from, f)
    BY <2>1 DEF InName
  <2>3. k + 1 \in 1..Len(l) + 1 /\ from \in 0..Len(l)
    BY <1>1
  <2> QED
    BY <1>3, <1>4, <2>2, <2>3 DEF Shape
<1>6. ASSUME Permitted(l) PROVE Collected(l, (k + 1) - 1, q) /\ l[k - 1] = "w" /\ k # 1
  <2>1. /\ Collected(l, k - 1, p) /\ Run(l, from, k - 1) /\ Kind(l, field, from)
        /\ (k - 1) + 1 = k
    BY <1>1, <1>6
  <2> DEFINE j == k - 1
  <2>2. j \in 1..Len(l) - 1 /\ j \in Nat /\ j + 1 = k /\ Collected(l, j, p) /\ Run(l, from, j)
        /\ w = <<from, j>>
    BY <1>1, <2>1
  <2> HIDE DEF j, w
  <2>3. Adds(l, j, w)
    BY <1>1, <2>2, WordCloses
  <2>4. w \in NamesFor(l, field)
    <3>1. w \in WordsOf(l) /\ Kind(l, field, w[1])
      BY <2>1, <2>2, <2>3 DEF Adds
    <3> QED
      BY <3>1, KindNames
  <2>5. Saved(q, p, field, w, b)
    BY DEF w
  <2>6. Collected(l, j + 1, q)
    BY <1>1, <2>2, <2>3, <2>4, <2>5, CollectSave
  <2>7. l[j] = "w" /\ k # 1
    BY <2>2 DEF Run
  <2> QED
    BY <2>2, <2>6, <2>7 DEF j
<1>7. ASSUME Permitted(l), k + 1 <= Len(l) PROVE ReadingAt(l, k + 1, to, from)
  <2>1. l[k] # "&"
    <3>1. ASSUME l[k] = "&" PROVE FALSE
      <4>1. k \in 2..Len(l) - 1
        BY <1>1, <1>6, <1>7
      <4> QED
        BY <1>6, <1>7, <3>1, <4>1 DEF Permitted
    <3> QED
      BY <3>1
  <2>2. \A f \in Fields : to # NameState[f]
    BY <1>4, <2>1
  <2>3. \A m \in {"<", ">"} : ~Behind(l, m, k)
    BY <1>6, <1>7, BehindNoWord
  <2>4. \A m \in {"<", ">"} : Behind(l, m, k + 1) <=> l[k] = m
    <3>1. k \in Nat /\ k > 0
      OBVIOUS
    <3> QED
      BY <2>3, <3>1, BehindNext
  <2>5. l[(k + 1) - 1] # "w"
    OBVIOUS
  <2> QED
    BY <2>1, <2>2, <2>4, <2>5 DEF ReadingAt
<1> QED
  BY <1>5, <1>6, <1>7 DEF Fit, Good

\* A letter within a name, or its last one when it ends the line.
LEMMA Longer ==
  ASSUME NEW l \in Seq(Letters), NEW k \in 1..Len(l), NEW from, NEW p, NEW field \in Fields,
         Fit(l, k, NameState[field], from, p), NEW q, NEW to,
         l[k] # "blank", Permitted(l) => l[k] = "w",
         k = Len(l) => to = "New" /\ Saved(q, p, field, <<from, k>>, FALSE),
         k < Len(l) => to = NameState[field] /\ Kept(q, p, FALSE)
  PROVE  Fit(l, k + 1, to, from, q)
<1> DEFINE w == <<from, k>>
<1>1. /\ p \in Programs(l) /\ Len(l) \in Nat /\ from \in 1..k - 1 /\ k - 1 \in Nat
      /\ \A m \in DOMAIN p.args : ArgAt(l, k, p.args[m])
      /\ \A r \in from..k - 1 : l[r] # "blank"
      /\ field = "args" => l[from] = "w"
      /\ Permitted(l) => /\ Collected(l, k - 1, p) /\ Run(l, from, k - 1)
                         /\ Kind(l, field, from)
  BY InAName
<1>2. \A r \in from..k : l[r] # "blank"
  <2>1. \A r \in from..k : r \in from..k - 1 \/ r = k
    BY <1>1
  <2> QED
    BY <1>1, <2>1
<1>3. w \in Places(l) /\ (field = "args" => ArgAt(l, k + 1, w))
  BY <1>1, <1>2 DEF Places, ArgAt
<1>4. q \in Programs(l) /\ \A m \in DOMAIN q.args : ArgAt(l, k + 1, q.args[m])
  <2>1. CASE k = Len(l)
    BY <1>1, <1>3, <2>1, ShapeSave
  <2>2. CASE k < Len(l)
    BY <1>1, <2>2, ShapeKeep
  <2> QED
    BY <1>1, <2>1, <2>2
<1>5. to \in States /\ \A f \in Fields : to = NameState[f] => f = field /\ k < Len(l)
  <2>1. k = Len(l) \/ k < Len(l)
    BY <1>1
  <2> QED
    BY <2>1, NameStates DEF States
<1>6. Shape(l, k + 1, to, from, q)
  <2>1. ASSUME NEW f \in Fields, to = NameState[f] PROVE InName(l, k + 1, to, from, f)
    <3>1. f = field
      BY <1>5, <2>1
    <3>2. (k + 1) - 1 = k /\ from \in 1..k
      BY <1>1
    <3> QED
      BY <1>1, <1>2, <3>1, <3>2 DEF InName
  <2>2. \A f \in Fields : InName(l, k + 1, to, from, f)
    BY <2>1 DEF InName
  <2>3. k + 1 \in 1..Len(l) + 1 /\ from \in 0..Len(l)
    BY <1>1
  <2> QED
    BY <1>4, <1>5, <2>2, <2>3 DEF Shape
<1>7. ASSUME Permitted(l) PROVE Run(l, from, k)
  <2>1. Run(l, from, k - 1) /\ l[k] = "w"
    BY <1>1, <1>7
  <2>2. from \in 1..k /\ \A r \in from..k : r \in from..k - 1 \/ r = k
    BY <1>1
  <2> QED
    BY <2>1, <2>2 DEF Run
<1>8. ASSUME Permitted(l) PROVE Collected(l, (k + 1) - 1, q)
  <2>1. Collected(l, k - 1, p) /\ Kind(l, field, from) /\ (k - 1) + 1 = k /\ l[k] = "w"
    BY <1>1, <1>8
  <2> DEFINE j == k - 1
  <2>2. j \in Nat /\ j + 1 = k /\ j + 1 <= Len(l) /\ Collected(l, j, p) /\ l[j + 1] = "w"
    BY <1>1, <2>1
  <2>3. FALSE <=> l[j + 1] = "&"
    BY <2>2
  <2> HIDE DEF j, w
  <2>4. CASE k = Len(l)
    <3>1. Adds(l, j, <<from, j + 1>>)
      BY <1>1, <1>7, <1>8, <2>2, <2>4, WordAtEnd
    <3>2. Adds(l, j, w)
      BY <2>2, <3>1 DEF w
    <3>3. w \in NamesFor(l, field)
      <4>1. w \in WordsOf(l)
        BY <3>2 DEF Adds
      <4>2. Kind(l, field, w[1])
        BY <2>1 DEF w
      <4> QED
        BY <4>1, <4>2, KindNames
    <3>4. Saved(q, p, field, w, FALSE)
      BY <2>4 DEF w
    <3>5. Collected(l, j + 1, q)
      BY <1>1, <2>2, <2>3, <3>2, <3>3, <3>4, CollectSave
    <3> QED
      BY <2>2, <3>5
  <2>5. CASE k < Len(l)
    <3>1. AddsNone(l, j)
      BY <1>1, <2>2, <2>5, NoWordEnds
    <3>2. Collected(l, j + 1, q)
      BY <2>2, <2>3, <2>5, <3>1, CollectKeep
    <3> QED
      BY <2>2, <3>2
  <2> QED
    BY <1>1, <2>4, <2>5
<1>9. ASSUME Permitted(l), k + 1 <= Len(l) PROVE ReadingAt(l, k + 1, to, from)
  <2>1. to = NameState[field] /\ Run(l, from, (k + 1) - 1) /\ Kind(l, field, from)
    <3>1. k < Len(l) /\ (k + 1) - 1 = k
      BY <1>1, <1>9
    <3>2. Run(l, from, k)
      BY <1>7, <1>9
    <3> QED
      BY <1>1, <1>9, <3>1, <3>2
  <2>2. \A f \in Fields : to = NameState[f] => f = field
    BY <1>5
  <2> QED
    BY <2>1, <2>2, NameStates DEF ReadingAt
<1> QED
  BY <1>6, <1>8, <1>9 DEF Fit, Good

-----------------------------------------------------------------------------
(* The invariant and the steps.                                            *)

\* Said of a line: what it stands for, if anything.
Said  == meant # Unknown => Permitted(line) /\ StandsFor(line, meant)
Idle  == line = <<>> => i = 1 /\ program = Empty
ParserInv == /\ line \in Seq(Letters) /\ maxArgc \in Nat
             /\ Said /\ Idle /\ Fit(line, i, state, startPos, program)

\* What pushArgument and saveFile do.
LEMMA SaveIs ==
  ASSUME program \in Programs(line), NEW field \in Fields, NEW from, NEW to, NEW b \in BOOLEAN,
         Save(field, from, to, b)
  PROVE  Saved(program', program, field, <<from, to>>, b)
<1>1. program = [args |-> program.args, input |-> program.input, output |-> program.output,
                 bg |-> program.bg]
  BY DEF Programs
<1>2. CASE field = "args"
  BY <1>1, <1>2 DEF Save, Saved
<1>3. CASE field = "input"
  BY <1>1, <1>3 DEF Save, Saved
<1>4. CASE field = "output"
  BY <1>1, <1>4 DEF Save, Saved
<1> QED
  BY <1>2, <1>3, <1>4 DEF Fields

\* A step that saves nothing.
LEMMA KeepIs ==
  ASSUME program \in Programs(line), program' = program
  PROVE  Kept(program', program, FALSE)
<1>1. program = [args |-> program.args, input |-> program.input, output |-> program.output,
                 bg |-> program.bg] /\ program.bg \in BOOLEAN
  BY DEF Programs
<1>2. (program.bg \/ FALSE) = program.bg
  BY <1>1
<1> QED
  BY <1>1, <1>2 DEF Kept

\* The room for arguments stays a number.
LEMMA GrownIs ==
  ASSUME program \in Programs(line), maxArgc \in Nat, NEW field, NEW from, NEW to, NEW b,
         Save(field, from, to, b)
  PROVE  maxArgc' \in Nat
BY DEF Save, Grown, Programs

\* One letter is read.
LEMMA OneLetter ==
  ASSUME ParserInv, Read, maxArgc' \in Nat,
         Fit(line, i + 1, state', startPos', program')
  PROVE  ParserInv'
<1>1. i \in 1..Len(line) /\ line # <<>>
  <2>1. i \in 1..Len(line) + 1 /\ i <= Len(line) /\ Len(line) \in Nat
    BY DEF ParserInv, Fit, Shape, Read
  <2>2. line # <<>>
    <3>1. Len(line) # 0
      BY <2>1
    <3>2. ASSUME line = <<>> PROVE Len(line) = 0
      BY <3>2
    <3> QED
      BY <3>1, <3>2
  <2> QED
    BY <2>1, <2>2
<1>2. line' = line /\ meant' = meant /\ i' = i + 1
  BY DEF Read
<1> QED
  BY <1>1, <1>2 DEF ParserInv, Said, Idle

\* The first letter of a name.
LEMMA OpenStep ==
  ASSUME ParserInv, Read, NEW field \in Fields, NEW to, to = NameState[field],
         Open(field, to), Char # "blank", field = "args" => Char = "w",
         Permitted(line) => /\ Char = "w" /\ Kind(line, field, i)
                            /\ i = 1 \/ line[i - 1] # "w"
  PROVE  ParserInv'
<1>1. /\ line \in Seq(Letters) /\ maxArgc \in Nat /\ program \in Programs(line)
      /\ Fit(line, i, state, startPos, program) /\ i \in 1..Len(line)
  <2>1. i \in 1..Len(line) + 1 /\ i <= Len(line) /\ line \in Seq(Letters)
    BY DEF ParserInv, Fit, Shape, Read
  <2>2. i \in 1..Len(line)
    BY <2>1
  <2> QED
    BY <2>1, <2>2 DEF ParserInv, Fit, Shape
<1>2. state' = NameState[field] /\ startPos' = i
  BY DEF Open
<1>3. i = Len(line) => Saved(program', program, field, <<i, i>>, FALSE) /\ maxArgc' \in Nat
  <2>1. ASSUME i = Len(line) PROVE Save(field, i, i, FALSE)
    BY <2>1 DEF Open, AtEnd
  <2> QED
    BY <1>1, <2>1, SaveIs, GrownIs
<1>4. i # Len(line) => Kept(program', program, FALSE) /\ maxArgc' \in Nat
  <2>1. ASSUME i # Len(line) PROVE program' = program /\ maxArgc' = maxArgc
    BY <2>1 DEF Open, AtEnd, Keep
  <2> QED
    BY <1>1, <2>1, KeepIs
<1>5. Fit(line, i + 1, NameState[field], i, program')
  <2>1. i < Len(line) => Kept(program', program, FALSE)
    <3>1. i < Len(line) => i # Len(line)
      BY <1>1
    <3> QED
      BY <1>4, <3>1
  <2> QED
    BY <1>1, <1>3, <2>1, Opened DEF Char
<1> QED
  BY <1>2, <1>3, <1>4, <1>5, OneLetter

\* What is read is a letter, and a mark or a space is no word.
LEMMA Reading ==
  ASSUME ParserInv, Read
  PROVE  /\ line \in Seq(Letters) /\ maxArgc \in Nat /\ program \in Programs(line)
         /\ Fit(line, i, state, startPos, program) /\ i \in 1..Len(line)
         /\ Char = line[i] /\ Char \in Letters
         /\ Permitted(line) => ReadingAt(line, i, state, startPos)
<1>1. i \in 1..Len(line) + 1 /\ i <= Len(line) /\ line \in Seq(Letters)
  BY DEF ParserInv, Fit, Shape, Read
<1>2. i \in 1..Len(line)
  BY <1>1
<1> QED
  BY <1>1, <1>2 DEF ParserInv, Fit, Shape, Good, Char

\* Between names.
LEMMA NewStep ==
  ASSUME ParserInv, New
  PROVE  ParserInv'
<1>0. state = "New" /\ Read
  BY DEF New
<1>1. /\ line \in Seq(Letters) /\ maxArgc \in Nat /\ program \in Programs(line)
      /\ Fit(line, i, state, startPos, program) /\ i \in 1..Len(line)
      /\ Char = line[i] /\ Char \in Letters
      /\ Permitted(line) => ReadingAt(line, i, state, startPos)
  BY <1>0, Reading
<1>2. Permitted(line) => /\ i = 1 \/ line[i - 1] # "w"
                         /\ ~Behind(line, "<", i) /\ ~Behind(line, ">", i)
  BY <1>0, <1>1 DEF ReadingAt
<1>3. CASE Char \in {"blank", "<", ">", "&"}
  <2> DEFINE b == Char = "&"
  <2>1. /\ state' = CASE Char = "<" -> "Input" [] Char = ">" -> "Output" [] OTHER -> "New"
        /\ program' = [program EXCEPT !.bg = @ \/ Char = "&"]
        /\ startPos' = startPos /\ maxArgc' = maxArgc
    BY <1>3 DEF New, Open
  <2>2. Kept(program', program, b)
    BY <1>1, <2>1 DEF Kept, Programs
  <2>3. state' \in {"New", "Input", "Output"} /\ b \in BOOLEAN
    BY <2>1
  <2>4. \A m \in {"<", ">"} : Permitted(line) => (Behind(line, m, i + 1) <=> Char = m)
    <3>1. i \in Nat /\ i > 0
      BY <1>1
    <3> QED
      BY <1>1, <1>2, <3>1, BehindNext
  <2>5. Permitted(line) =>
          /\ b <=> line[i] = "&"
          /\ line[i] # "w" /\ (i = 1 \/ line[i - 1] # "w")
          /\ state' = "New" => ~Behind(line, "<", i + 1) /\ ~Behind(line, ">", i + 1)
          /\ state' = "Input" => Behind(line, "<", i + 1)
          /\ state' = "Output" => Behind(line, ">", i + 1)
    BY <1>1, <1>2, <1>3, <2>1, <2>4
  <2> HIDE DEF b
  <2>6. Fit(line, i + 1, state', startPos, program')
    BY <1>1, <2>2, <2>3, <2>5, Between
  <2> QED
    BY <1>0, <1>1, <2>1, <2>6, OneLetter
<1>4. CASE Char = "w" /\ Open("args", "Add")
  <2>1. Permitted(line) => Kind(line, "args", i)
    BY <1>2 DEF Kind
  <2>2. "args" \in Fields /\ "Add" = NameState["args"]
    BY NameStates DEF Fields
  <2> QED
    BY <1>0, <1>2, <1>4, <2>1, <2>2, OpenStep
<1> QED
  BY <1>3, <1>4 DEF New

\* After a mark for a file.
LEMMA FileStep ==
  ASSUME ParserInv, NEW m \in {"<", ">"}, NEW from, NEW field, NEW to, File(from, field, to),
         \/ from = "Input" /\ m = "<" /\ field = "input"
         \/ from = "Output" /\ m = ">" /\ field = "output",
         to = NameState[field]
  PROVE  ParserInv'
<1>0. state = from /\ Read /\ field \in Fields
  BY DEF File, Fields
<1>1. /\ line \in Seq(Letters) /\ maxArgc \in Nat /\ program \in Programs(line)
      /\ Fit(line, i, state, startPos, program) /\ i \in 1..Len(line)
      /\ Char = line[i] /\ Char \in Letters
      /\ Permitted(line) => ReadingAt(line, i, state, startPos)
  BY <1>0, Reading
<1>2. Permitted(line) => Behind(line, m, i)
  BY <1>0, <1>1 DEF ReadingAt
<1>3. Permitted(line) => i > 1 /\ line[i - 1] # "w"
  <2>1. i \in Nat /\ i > 0 /\ m \notin {"blank", "w"}
    BY <1>1
  <2> QED
    BY <1>2, <2>1, BehindNoWord
<1>4. CASE Char = "blank" /\ Keep /\ UNCHANGED <<state, startPos>>
  <2>1. Kept(program', program, FALSE) /\ maxArgc' = maxArgc /\ state' = state
        /\ startPos' = startPos
    BY <1>1, <1>4, KeepIs DEF Keep
  <2>2. Permitted(line) => Behind(line, m, i + 1)
    <3>1. i \in Nat /\ i > 0 /\ m # "blank"
      BY <1>1
    <3> QED
      BY <1>1, <1>2, <1>4, <3>1, BehindNext
  <2>3. Fit(line, i + 1, state, startPos, program')
    <3>1. state \in {"New", "Input", "Output"} /\ FALSE \in BOOLEAN
      BY <1>0
    <3>2. Permitted(line) =>
            /\ FALSE <=> line[i] = "&"
            /\ line[i] # "w" /\ (i = 1 \/ line[i - 1] # "w")
            /\ state = "New" => ~Behind(line, "<", i + 1) /\ ~Behind(line, ">", i + 1)
            /\ state = "Input" => Behind(line, "<", i + 1)
            /\ state = "Output" => Behind(line, ">", i + 1)
      BY <1>0, <1>1, <1>3, <1>4, <2>2
    <3> QED
      BY <1>1, <2>1, <3>1, <3>2, Between
  <2> QED
    BY <1>0, <1>1, <2>1, <2>3, OneLetter
<1>5. CASE Char # "blank" /\ Open(field, to)
  <2>1. Permitted(line) => Kind(line, field, i)
    BY <1>2 DEF Kind
  <2>2. Permitted(line) => Char = "w"
    <3>1. ASSUME Permitted(line), Char \in {"<", ">", "&"} PROVE FALSE
      BY <1>1, <1>2, <3>1 DEF Permitted
    <3> QED
      BY <1>1, <1>5, <3>1 DEF Letters
  <2> QED
    BY <1>0, <1>3, <1>5, <2>1, <2>2, OpenStep
<1> QED
  BY <1>4, <1>5 DEF File

\* In a name; red tells the marks that end it.
LEMMA NameStep ==
  ASSUME ParserInv, NEW field \in Fields, NEW red, Name(NameState[field], field, red),
         \/ field = "args" /\ red = {"<", ">"}
         \/ field = "input" /\ red = {">"}
         \/ field = "output" /\ red = {"<"}
  PROVE  ParserInv'
<1>0. state = NameState[field] /\ Read /\ startPos' = startPos
  BY DEF Name
<1>1. /\ line \in Seq(Letters) /\ maxArgc \in Nat /\ program \in Programs(line)
      /\ Fit(line, i, NameState[field], startPos, program) /\ i \in 1..Len(line)
      /\ Char = line[i] /\ Char \in Letters
  BY <1>0, Reading
<1>2. red \subseteq {"<", ">"}
  OBVIOUS
<1>3. ASSUME NEW b \in BOOLEAN, Save(field, startPos, EndBeforeMark, b), b <=> Char = "&",
             Char \in {"blank", "<", ">", "&"},
             state' = CASE Char = "<" -> "Input" [] Char = ">" -> "Output"
                        [] Char = "&" -> NameState[field] [] OTHER -> "New"
      PROVE  ParserInv'
  <2>1. Saved(program', program, field, <<startPos, i - 1>>, b) /\ maxArgc' \in Nat
    <3>1. Save(field, startPos, i - 1, b)
      BY <1>3 DEF EndBeforeMark
    <3> QED
      BY <1>1, <3>1, SaveIs, GrownIs
  <2>2. Fit(line, i + 1, state', startPos, program')
    BY <1>1, <1>3, <2>1, Closed
  <2> QED
    BY <1>0, <2>1, <2>2, OneLetter
<1>4. CASE Char \in red /\ state' = (IF Char = "<" THEN "Input" ELSE "Output")
           /\ Save(field, startPos, EndBeforeMark, FALSE)
  <2>1. Char \in {"<", ">"}
    BY <1>2, <1>4
  <2> QED
    BY <1>3, <1>4, <2>1
<1>5. CASE Char = "&" /\ state' = state /\ Save(field, startPos, EndBeforeMark, TRUE)
  BY <1>0, <1>3, <1>5
<1>6. CASE Char = "blank" /\ state' = "New" /\ Save(field, startPos, EndBeforeMark, FALSE)
  BY <1>3, <1>6
<1>7. CASE /\ Char \notin red \cup {"blank", "&"}
           /\ IF AtEnd THEN state' = "New" /\ Save(field, startPos, i, FALSE)
                       ELSE Keep /\ state' = state
  <2>1. Permitted(line) => Char = "w"
    <3>1. ASSUME Permitted(line), Char # "w" PROVE FALSE
      <4>1. \/ field = "input" /\ Char = "<"
            \/ field = "output" /\ Char = ">"
        BY <1>1, <1>7, <3>1 DEF Letters
      <4>2. PICK m \in {"<", ">"} : m = Char /\ (m = "<" <=> field = "input")
                                    /\ (m = ">" <=> field = "output")
        BY <4>1
      <4>3. /\ startPos \in 1..i - 1 /\ i - 1 \in Nat /\ Run(line, startPos, i - 1)
            /\ Kind(line, field, startPos)
        BY <1>1, <3>1, InAName
      <4> DEFINE w == <<startPos, i - 1>>
      <4>4. w \in WordsOf(line)
        <5> DEFINE j == i - 1
        <5>1. j \in 1..Len(line) - 1 /\ j + 1 = i /\ Len(line) \in Nat
          BY <1>1, <4>3
        <5>2. Run(line, startPos, j) /\ line[j + 1] # "w" /\ startPos \in Nat
          BY <1>1, <3>1, <4>3, <5>1
        <5> HIDE DEF j
        <5>3. Adds(line, j, <<startPos, j>>)
          BY <5>1, <5>2, WordCloses
        <5> QED
          BY <5>3 DEF Adds, j
      <4>5. Behind(line, m, w[1])
        BY <4>1, <4>2, <4>3 DEF Kind
      <4>6. w \in FileNames(line, m) /\ w[2] < Len(line) /\ line[w[2] + 1] = m
        <5>1. w[2] = i - 1 /\ (i - 1) + 1 = i /\ i - 1 < Len(line)
          BY <1>1
        <5>2. w \in FileNames(line, m)
          BY <4>4, <4>5 DEF FileNames
        <5> QED
          BY <1>1, <4>2, <5>1, <5>2
      <4> QED
        BY <3>1, <4>6 DEF Permitted
    <3> QED
      BY <3>1
  <2>2. i = Len(line) => /\ state' = "New" /\ maxArgc' \in Nat
                         /\ Saved(program', program, field, <<startPos, i>>, FALSE)
    <3>1. ASSUME i = Len(line) PROVE state' = "New" /\ Save(field, startPos, i, FALSE)
      BY <1>7, <3>1 DEF AtEnd
    <3> QED
      BY <1>1, <3>1, SaveIs, GrownIs
  <2>3. i # Len(line) => /\ state' = NameState[field] /\ maxArgc' \in Nat
                         /\ Kept(program', program, FALSE)
    <3>1. ASSUME i # Len(line)
          PROVE  state' = state /\ program' = program /\ maxArgc' = maxArgc
      BY <1>7, <3>1 DEF AtEnd, Keep
    <3> QED
      BY <1>0, <1>1, <3>1, KeepIs
  <2>4. Fit(line, i + 1, state', startPos, program')
    <3>1. i < Len(line) => state' = NameState[field] /\ Kept(program', program, FALSE)
      <4>1. i < Len(line) => i # Len(line)
        BY <1>1
      <4> QED
        BY <2>3, <4>1
    <3>2. line[i] # "blank" /\ (Permitted(line) => line[i] = "w")
      BY <1>1, <1>7, <2>1
    <3> QED
      BY <1>1, <2>2, <3>1, <3>2, Longer
  <2> QED
    BY <1>0, <2>2, <2>3, <2>4, OneLetter
<1> QED
  BY <1>4, <1>5, <1>6, <1>7 DEF Name

\* The line that is empty stands for nothing.
LEMMA EmptyLine ==
  Permitted(<<>>) /\ StandsFor(<<>>, Empty)
<1>1. Len(<<>>) = 0 /\ <<>> \in Seq(Letters)
  OBVIOUS
<1>2. WordsOf(<<>>) = {}
  BY <1>1 DEF WordsOf
<1>3. ArgWords(<<>>) = {} /\ \A m : FileNames(<<>>, m) = {}
  BY <1>2 DEF ArgWords, FileNames
<1>4. Permitted(<<>>)
  BY <1>1, <1>3 DEF Permitted
<1>5. Listed(<<>>, {}) /\ LastOf(NoFile, {})
  BY DEF Listed, LastOf
<1>6. Empty.args = <<>> /\ Empty.input = NoFile /\ Empty.output = NoFile
      /\ Empty = [args |-> <<>>, input |-> NoFile, output |-> NoFile, bg |-> FALSE]
  BY DEF Empty
<1>7. (\E k \in 1..0 : <<>>[k] = "&") = FALSE
  OBVIOUS
<1> QED
  BY <1>1, <1>3, <1>4, <1>5, <1>6, <1>7 DEF StandsFor

\* Where a line begins.
LEMMA FitAtBegin ==
  ASSUME NEW l \in Seq(Letters)
  PROVE  Fit(l, 1, "New", 0, Empty)
<1>1. Empty \in Programs(l) /\ DOMAIN Empty.args = {}
  BY DEF Empty, NoFile, Programs, Files
<1>2. \A f \in Fields : InName(l, 1, "New", 0, f)
  BY NameStates DEF InName
<1>3. Shape(l, 1, "New", 0, Empty)
  BY <1>1, <1>2 DEF Shape, States
<1>4. ReadingAt(l, 1, "New", 0)
  BY BehindFirst, NameStates DEF ReadingAt
<1>5. Collected(l, 1 - 1, Empty)
  BY CollectNone
<1> QED
  BY <1>3, <1>4, <1>5 DEF Fit, Good

\* A line is handed over, and the program is cleared.
LEMMA BeginStep ==
  ASSUME InputsAssumption, ParserInv, Begin
  PROVE  ParserInv'
<1>1. PICK typed \in Inputs : line' = typed.line /\ meant' = typed.program
  BY DEF Begin
<1>2. /\ i' = i /\ program' = program /\ maxArgc' = maxArgc /\ state' = "New" /\ startPos' = 0
      /\ line = <<>>
  BY DEF Begin
<1>3. i = 1 /\ program = Empty /\ maxArgc \in Nat
  BY <1>2 DEF ParserInv, Idle
<1>4. /\ line' \in Seq(Letters)
      /\ meant' # Unknown => Permitted(line') /\ StandsFor(line', meant')
  BY <1>1 DEF InputsAssumption, Letters
<1>5. Fit(line', 1, "New", 0, Empty)
  BY <1>4, FitAtBegin
<1> QED
  BY <1>2, <1>3, <1>4, <1>5 DEF ParserInv, Said, Idle

LEMMA ClearStep ==
  ASSUME ParserInv, Clear
  PROVE  ParserInv'
<1>1. /\ program' = Empty /\ line' = <<>> /\ meant' = Empty /\ i' = 1 /\ state' = "New"
      /\ startPos' = 0 /\ maxArgc' = maxArgc
  BY DEF Clear, Cleared
<1>2. <<>> \in Seq(Letters)
  OBVIOUS
<1>3. Fit(<<>>, 1, "New", 0, Empty)
  BY <1>2, FitAtBegin
<1> QED
  BY <1>1, <1>2, <1>3, EmptyLine DEF ParserInv, Said, Idle

\* What the invariant says when a line is read, and of each argument.
LEMMA ParserEnd ==
  ASSUME ParserInv
  PROVE  LinesAreParsed
<1>1. /\ line \in Seq(Letters) /\ maxArgc \in Nat /\ program \in Programs(line)
      /\ i \in 1..Len(line) + 1 /\ state \in States /\ startPos \in 0..Len(line)
      /\ \A m \in DOMAIN program.args : ArgAt(line, i, program.args[m])
      /\ Permitted(line) => Collected(line, i - 1, program)
  BY DEF ParserInv, Fit, Shape, Good
<1>2. TypeOK
  BY <1>1 DEF TypeOK, Letters, Programs, Places, Files
<1>3. ArgumentsAreWords
  BY <1>1 DEF ArgumentsAreWords, ArgAt
<1>4. Parsed
  <2>1. ASSUME i > Len(line), meant # Unknown PROVE program = meant
    <3>1. i - 1 = Len(line)
      BY <1>1, <2>1
    <3>2. Permitted(line) /\ StandsFor(line, meant)
      BY <2>1 DEF ParserInv, Said
    <3>3. Collected(line, Len(line), program)
      BY <1>1, <3>1, <3>2
    <3> QED
      BY <1>1, <3>2, <3>3, CollectAll
  <2> QED
    BY <2>1 DEF Parsed
<1> QED
  BY <1>2, <1>3, <1>4 DEF LinesAreParsed

LEMMA ParserAlways == Spec => []ParserInv
<1>1. Init => ParserInv
  <2> SUFFICES ASSUME Init PROVE ParserInv
    OBVIOUS
  <2>0. <<>> \in Seq(Letters)
    OBVIOUS
  <2>1. Fit(<<>>, 1, "New", 0, Empty)
    BY <2>0, FitAtBegin
  <2>2. /\ line = <<>> /\ meant = Empty /\ i = 1 /\ state = "New" /\ startPos = 0
        /\ program = Empty /\ maxArgc \in Nat
    BY DEF Init, DefaultArgc
  <2> QED
    BY <2>0, <2>1, <2>2, EmptyLine DEF ParserInv, Said, Idle
<1>2. ParserInv /\ [Next]_vars => ParserInv'
  <2> SUFFICES ASSUME ParserInv, [Next]_vars PROVE ParserInv'
    OBVIOUS
  <2>1. CASE Begin
    BY <2>1, InputsAssumption, BeginStep
  <2>2. CASE New
    BY <2>2, NewStep
  <2>3. CASE Add
    <3>1. Name(NameState["args"], "args", {"<", ">"}) /\ "args" \in Fields
      BY <2>3, NameStates DEF Add, Fields
    <3> QED
      BY <3>1, NameStep
  <2>4. CASE Input
    BY <2>4, NameStates, FileStep DEF Input
  <2>5. CASE InputAdd
    <3>1. Name(NameState["input"], "input", {">"}) /\ "input" \in Fields
      BY <2>5, NameStates DEF InputAdd, Fields
    <3> QED
      BY <3>1, NameStep
  <2>6. CASE Output
    BY <2>6, NameStates, FileStep DEF Output
  <2>7. CASE OutputAdd
    <3>1. Name(NameState["output"], "output", {"<"}) /\ "output" \in Fields
      BY <2>7, NameStates DEF OutputAdd, Fields
    <3> QED
      BY <3>1, NameStep
  <2>8. CASE Clear
    BY <2>8, ClearStep
  <2>9. CASE UNCHANGED vars
    BY <2>9 DEF vars, ParserInv, Said, Idle
  <2> QED
    BY <2>1, <2>2, <2>3, <2>4, <2>5, <2>6, <2>7, <2>8, <2>9 DEF Next
<1> QED
  BY <1>1, <1>2, PTL DEF Spec

\* parseBuffer gives the program that a line stands for, whatever the line and the lines
\* before it, and an argument is a part of its line without a space.
THEOREM LinesParsed == Spec => []LinesAreParsed
<1>1. ParserInv => LinesAreParsed
  BY ParserEnd
<1> QED
  BY <1>1, ParserAlways, PTL

\* The same of every line that is permitted, without a word about what was meant: what
\* parseBuffer makes of it is all its arguments in order, the last file of each kind and
\* whether there is an &.
PermittedAreParsed == i > Len(line) /\ Permitted(line) => StandsFor(line, program)
THEOREM PermittedParsed == Spec => []PermittedAreParsed
<1>1. ASSUME ParserInv, i > Len(line), Permitted(line) PROVE StandsFor(line, program)
  <2>1. /\ line \in Seq(Letters) /\ program \in Programs(line) /\ i \in 1..Len(line) + 1
        /\ Collected(line, i - 1, program)
    BY <1>1 DEF ParserInv, Fit, Shape, Good
  <2>2. i - 1 = Len(line)
    BY <1>1, <2>1
  <2> QED
    BY <2>1, <2>2, CollectedStands
<1>2. ParserInv => PermittedAreParsed
  BY <1>1 DEF PermittedAreParsed
<1> QED
  BY <1>2, ParserAlways, PTL
=============================================================================
