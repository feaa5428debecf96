-------------------------- MODULE Parallel_proofs --------------------------
(***************************************************************************)
(* The enumeration sort puts the numbers of any file in order, in whatever *)
(* order the messages of different processes come.                         *)
(*                                                                         *)
(* The place of a number is one more than the count of numbers it comes    *)
(* behind; that the places are a permutation which sorts is proved first.  *)
(* The invariant then says of every channel what is in it: the part of the *)
(* line of numbers between what the two processes at its ends have seen,   *)
(* the one message that tells a place, or the part of the numbers on their *)
(* way back that the one has given and the other has not got.              *)
(*                                                                         *)
(* The mesh of processes multiplies two matrices of any shape.  There too  *)
(* the invariant says of every channel what is in it: the part of a row or *)
(* a column between what the one process has passed on and the other has   *)
(* taken, and of every process that its number is the sum of the products  *)
(* of the pairs it has seen.                                               *)
(*                                                                         *)
(* The ticket lock of POS keeps its order for any threads and any number   *)
(* of tickets.                                                             *)
(***************************************************************************)
EXTENDS EnumerationSort, MeshMultiply, TicketLock, SequenceTheorems,
        FiniteSetTheorems, WellFoundedInduction, TLAPS

-----------------------------------------------------------------------------
(* Parts of a sequence of messages.                                        *)

\* A part of a sequence of messages: those that come after the a-th, up to the b-th.
Piece(f, a, b) == [j \in 1..b - a |-> f[a + j]]

\* Its length, and when nothing is under way.
LEMMA PieceIs ==
  ASSUME NEW a \in Nat, NEW b \in Nat, a <= b, NEW S, NEW f, \A j \in a + 1..b : f[j] \in S
  PROVE  /\ Piece(f, a, b) \in Seq(S) /\ Len(Piece(f, a, b)) = b - a
         /\ Piece(f, a, b) = <<>> <=> a = b
<1>1. ASSUME NEW j \in 1..b - a PROVE f[a + j] \in S
  <2>1. a + j \in a + 1..b
    OBVIOUS
  <2> QED
    BY <2>1
<1>2. b - a \in Nat /\ Piece(f, a, b) \in [1..b - a -> S]
  BY <1>1 DEF Piece
<1>3. Piece(f, a, b) \in Seq(S) /\ Len(Piece(f, a, b)) = b - a
  BY <1>2, IsASeq, LenProperties DEF Piece
<1> HIDE DEF Piece
<1>4. Piece(f, a, b) = <<>> <=> b - a = 0
  BY <1>3, EmptySeq
<1> QED
  BY <1>3, <1>4

\* The first of the messages is received.
LEMMA PieceTaken ==
  ASSUME NEW a \in Nat, NEW b \in Nat, a < b, NEW f
  PROVE  /\ Piece(f, a, b) # <<>> /\ Head(Piece(f, a, b)) = f[a + 1]
         /\ Tail(Piece(f, a, b)) = Piece(f, a + 1, b)
<1> DEFINE s == Piece(f, a, b)
           t == Piece(f, a + 1, b)
           S == {f[j] : j \in a + 1..b}
<1>0. \A j \in a + 1..b : f[j] \in S
  OBVIOUS
<1> HIDE DEF S
<1>1. s \in Seq(S) /\ Len(s) = b - a /\ s # <<>>
  BY <1>0, PieceIs
<1>2. t \in Seq(S) /\ Len(t) = b - (a + 1)
  <2>1. \A j \in (a + 1) + 1..b : f[j] \in S
    BY <1>0
  <2> HIDE DEF t
  <2>2. a + 1 \in Nat /\ a + 1 <= b
    OBVIOUS
  <2> QED
    BY <2>1, <2>2, PieceIs DEF t
<1>3. /\ \A j \in 1..b - a : s[j] = f[a + j]
      /\ \A j \in 1..b - (a + 1) : t[j] = f[a + 1 + j]
  BY DEF Piece
<1> HIDE DEF s, t
<1>4. /\ Tail(s) \in Seq(S) /\ Len(Tail(s)) = Len(s) - 1
      /\ \A j \in 1..Len(Tail(s)) : Tail(s)[j] = s[j + 1] /\ Head(s) = s[1]
  BY <1>1, HeadTailProperties
<1>5. \A j \in 1..Len(t) : Tail(s)[j] = t[j]
  <2>1. ASSUME NEW j \in 1..Len(t) PROVE Tail(s)[j] = t[j]
    <3>1. j \in 1..Len(Tail(s)) /\ j \in 1..b - (a + 1) /\ j + 1 \in 1..b - a
          /\ a + 1 + j = a + (j + 1)
      BY <1>1, <1>2, <1>4
    <3> QED
      BY <1>3, <1>4, <3>1
  <2> QED
    BY <2>1
<1>6. Len(Tail(s)) = Len(t)
  BY <1>1, <1>2, <1>4
<1>7. Tail(s) = t
  BY <1>2, <1>4, <1>5, <1>6, SeqEqual
<1>8. Head(s) = f[a + 1]
  <2>1. 1 \in 1..b - a
    OBVIOUS
  <2>2. Head(s) = s[1]
    BY <1>1
  <2> QED
    BY <1>3, <2>1, <2>2
<1> QED
  BY <1>1, <1>7, <1>8 DEF s, t

\* The next message is sent.
LEMMA PieceAppended ==
  ASSUME NEW a \in Nat, NEW b \in Nat, a <= b, NEW f
  PROVE  Append(Piece(f, a, b), f[b + 1]) = Piece(f, a, b + 1)
<1> DEFINE s == Piece(f, a, b)
           t == Piece(f, a, b + 1)
           e == f[b + 1]
           S == {f[j] : j \in a + 1..b + 1}
<1>0. \A j \in a + 1..b + 1 : f[j] \in S
  OBVIOUS
<1> HIDE DEF S
<1>1. s \in Seq(S) /\ Len(s) = b - a
  <2>1. \A j \in a + 1..b : f[j] \in S
    BY <1>0
  <2> QED
    BY <2>1, PieceIs
<1>2. t \in Seq(S) /\ Len(t) = b + 1 - a
  <2>1. b + 1 \in Nat /\ a <= b + 1
    OBVIOUS
  <2> QED
    BY <1>0, <2>1, PieceIs
<1>3. /\ \A j \in 1..b - a : s[j] = f[a + j]
      /\ \A j \in 1..b + 1 - a : t[j] = f[a + j]
  BY DEF Piece
<1>4. e \in S
  BY <1>0, b + 1 \in a + 1..b + 1
<1> HIDE DEF s, t
<1>5. /\ Append(s, e) \in Seq(S) /\ Len(Append(s, e)) = Len(s) + 1
      /\ \A j \in 1..Len(s) : Append(s, e)[j] = s[j]
      /\ Append(s, e)[Len(s) + 1] = e
  BY <1>1, <1>4, AppendProperties
<1>6. ASSUME NEW j \in 1..Len(t) PROVE Append(s, e)[j] = t[j]
  <2>1. CASE j \in 1..Len(s)
    BY <1>1, <1>2, <1>3, <1>5, <2>1
  <2>2. CASE j = Len(s) + 1
    <3>1. j = b + 1 - a /\ a + j = b + 1 /\ j \in 1..b + 1 - a
      BY <1>1, <2>2
    <3> QED
      BY <1>3, <1>5, <2>2, <3>1
  <2> QED
    BY <1>1, <1>2, <2>1, <2>2
<1>7. Len(Append(s, e)) = Len(t)
  BY <1>1, <1>2, <1>5
<1>8. Append(s, e) = t
  BY <1>2, <1>5, <1>6, <1>7, SeqEqual
<1> QED
  BY <1>8 DEF s, t

-----------------------------------------------------------------------------
(* The places of the numbers.                                              *)

\* Whether the number of a slave comes behind the k-th one, how many of the first ones
\* it comes behind, and its place.
Comes(k, id)     == Behind(k, id, numbers[id], numbers[k])
Behinds(id, m)   == {k \in 1..m : Comes(k, id)}
RankOf(id)       == 1 + Cardinality(Behinds(id, LastId))

\* The count is a number.
LEMMA BehindsFinite ==
  ASSUME NEW id, NEW m \in Nat
  PROVE  IsFiniteSet(Behinds(id, m)) /\ Cardinality(Behinds(id, m)) \in Nat
<1>1. IsFiniteSet(1..m)
  BY FS_Interval
<1>2. Behinds(id, m) \subseteq 1..m
  BY DEF Behinds
<1> QED
  BY <1>1, <1>2, FS_Subset, FS_CardinalityType

\* One more number of the line adds at most one.
LEMMA BehindsCount ==
  ASSUME NEW id, NEW m \in Nat
  PROVE  Cardinality(Behinds(id, m + 1)) =
           Cardinality(Behinds(id, m)) + IF Comes(m + 1, id) THEN 1 ELSE 0
<1>1. IsFiniteSet(Behinds(id, m)) /\ Cardinality(Behinds(id, m)) \in Nat
  BY BehindsFinite
<1>2. m + 1 \notin Behinds(id, m)
  BY DEF Behinds
<1>3. CASE Comes(m + 1, id)
  <2>1. Behinds(id, m + 1) = Behinds(id, m) \cup {m + 1}
    BY <1>3 DEF Behinds
  <2> QED
    BY <1>1, <1>2, <1>3, <2>1, FS_AddElement
<1>4. CASE ~Comes(m + 1, id)
  <2>1. Behinds(id, m + 1) = Behinds(id, m)
    BY <1>4 DEF Behinds
  <2> QED
    BY <1>1, <1>4, <2>1
<1> QED
  BY <1>3, <1>4

\* What comes behind another number has a place further on.
LEMMA RankLess ==
  ASSUME numbers \in Seq(Nat), NEW a \in Slaves, NEW b \in Slaves, Comes(a, b)
  PROVE  RankOf(a) < RankOf(b)
<1>1. LastId \in Nat /\ \A k \in Slaves : numbers[k] \in Nat
  BY DEF LastId, Slaves
<1>2. a \notin Behinds(a, LastId)
  BY <1>1 DEF Behinds, Comes, Behind, Slaves
<1>3. ASSUME NEW k \in Behinds(a, LastId) PROVE k \in Behinds(b, LastId)
  <2>1. k \in Slaves /\ Comes(k, a)
    BY DEF Behinds, Slaves
  <2>2. Comes(k, b)
    BY <1>1, <2>1 DEF Comes, Behind, Slaves
  <2> QED
    BY <2>1, <2>2 DEF Behinds, Slaves
<1>4. a \in Behinds(b, LastId)
  BY DEF Behinds, Slaves
<1>5. IsFiniteSet(Behinds(a, LastId)) /\ IsFiniteSet(Behinds(b, LastId))
      /\ Cardinality(Behinds(a, LastId)) \in Nat /\ Cardinality(Behinds(b, LastId)) \in Nat
  BY <1>1, BehindsFinite
<1>6. Cardinality(Behinds(a, LastId)) < Cardinality(Behinds(b, LastId))
  <2>1. Behinds(a, LastId) \subseteq Behinds(b, LastId)
    BY <1>3
  <2>2. Behinds(a, LastId) # Behinds(b, LastId)
    BY <1>2, <1>4
  <2>3. /\ Cardinality(Behinds(a, LastId)) <= Cardinality(Behinds(b, LastId))
        /\ Cardinality(Behinds(a, LastId)) # Cardinality(Behinds(b, LastId))
    BY <1>5, <2>1, <2>2, FS_Subset
  <2> QED
    BY <1>5, <2>3
<1> QED
  BY <1>5, <1>6 DEF RankOf

\* The ranks are a permutation of the slaves that sorts the numbers.
LEMMA RanksSort ==
  ASSUME numbers \in Seq(Nat)
  PROVE  /\ \A id \in Slaves : RankOf(id) \in Slaves
         /\ \A a, b \in Slaves : RankOf(a) = RankOf(b) => a = b
         /\ \A k \in Slaves : \E id \in Slaves : RankOf(id) = k
         /\ \A a, b \in Slaves : RankOf(a) < RankOf(b) => numbers[a] <= numbers[b]
<1>1. LastId \in Nat /\ \A k \in Slaves : numbers[k] \in Nat
  BY DEF LastId, Slaves
<1>2. \A a, b \in Slaves : a # b => Comes(a, b) \/ Comes(b, a)
  BY <1>1 DEF Comes, Behind, Slaves
<1>3. IsFiniteSet(Slaves) /\ Cardinality(Slaves) = LastId
  BY <1>1, FS_Interval DEF Slaves
<1>4. ASSUME NEW id \in Slaves PROVE RankOf(id) \in Slaves
  <2>1. id \notin Behinds(id, LastId)
    BY <1>1 DEF Behinds, Comes, Behind, Slaves
  <2>2. Behinds(id, LastId) \subseteq Slaves
    BY DEF Behinds, Slaves
  <2>3. IsFiniteSet(Behinds(id, LastId)) /\ Cardinality(Behinds(id, LastId)) \in Nat
    BY <1>1, BehindsFinite
  <2>4. Cardinality(Behinds(id, LastId)) <= LastId /\ Cardinality(Behinds(id, LastId)) # LastId
    BY <1>3, <2>1, <2>2, FS_Subset
  <2> QED
    BY <1>1, <2>3, <2>4 DEF RankOf, Slaves
<1>5. ASSUME NEW a \in Slaves, NEW b \in Slaves, RankOf(a) = RankOf(b) PROVE a = b
  <2>1. RankOf(a) \in Nat
    BY <1>4 DEF Slaves
  <2>2. ~Comes(a, b) /\ ~Comes(b, a)
    BY <1>5, <2>1, RankLess
  <2> QED
    BY <1>2, <2>2
<1>6. \A k \in Slaves : \E id \in Slaves : RankOf(id) = k
  <2> DEFINE f  == [id \in Slaves |-> RankOf(id)]
  <2>1. f \in [Slaves -> Slaves] /\ \A a, b \in Slaves : f[a] = f[b] => a = b
    BY <1>4, <1>5
  <2> HIDE DEF f
  <2>2. f \in Injection(Slaves, Slaves)
    BY <2>1 DEF Injection, IsInjective
  <2>3. f \in Surjection(Slaves, Slaves)
    BY <1>3, <2>2, FS_Injection
  <2>4. \A k \in Slaves : \E id \in Slaves : f[id] = k
    BY <2>3 DEF Surjection
  <2> QED
    BY <2>4 DEF f
<1>7. ASSUME NEW a \in Slaves, NEW b \in Slaves, RankOf(a) < RankOf(b)
      PROVE  numbers[a] <= numbers[b]
  <2>1. RankOf(a) \in Nat /\ RankOf(b) \in Nat
    BY <1>4 DEF Slaves
  <2>2. ~Comes(b, a) /\ a # b
    BY <1>7, <2>1, RankLess
  <2>3. Comes(a, b)
    BY <1>2, <2>2
  <2> QED
    BY <1>1, <2>3 DEF Comes, Behind
<1> QED
  BY <1>4, <1>5, <1>6, <1>7

-----------------------------------------------------------------------------
(* The invariant.                                                          *)

\* How many numbers of the line a process has, and how many it passed on and got at the end.
Early    == {"x", "y", "z"}
Ranked   == {"z", "o", "end"}
Seen(p)  == IF p = 0 \/ at[p] \in Ranked THEN LastId ELSE i[p] - 1
Given(p) == IF at[p] \in Early THEN 0 ELSE i[p]
Got(p)   == IF at[p] \in Early THEN 0 ELSE i[p] - 1

\* The number that belongs to a place, and what a slave passes on, from its own place down.
Owner(k)   == CHOOSE id \in Slaves : RankOf(id) = k
InPlace(k) == numbers[Owner(k)]
Out(p)     == [j \in 1..p |-> InPlace(p - j + 1)]

\* Types.
SortTypes == /\ numbers \in Seq(Nat) /\ LastId \in Nat \ {0}
             /\ at \in [0..LastId -> Early \cup Ranked \cup {"collect"}]
             /\ i \in [0..LastId -> Nat]
             /\ x \in [Slaves -> Nat] /\ z \in [Slaves -> Nat] /\ c \in [Slaves -> Nat]
             /\ sorted \in [Slaves -> Nat]
             /\ sent \in [(0..LastId) \X (0..LastId) \X Tags -> Seq(Nat)]

\* The loops of the master and of the slaves.
Loops == /\ \/ at[0] = "collect" /\ i[0] \in Slaves
            \/ at[0] = "end" /\ i[0] = LastId + 1
         /\ \A id \in Slaves : /\ at[id] \in Early \cup Ranked
                               /\ at[id] \in {"x", "z"} => i[id] = 1
                               /\ at[id] = "y" => i[id] \in Slaves
                               /\ at[id] = "o" => i[id] \in 1..id - 1
                               /\ at[id] = "end" => i[id] = id

\* A slave has its number and has counted how many of those it has seen are in front.
SlaveValues == \A id \in Slaves : /\ at[id] # "x" => x[id] = numbers[id]
                             /\ c[id] = 1 + Cardinality(Behinds(id, Seen(id)))

\* Nobody has seen a number before the process in front of it, or got one not given.
Ordered == \A id \in Slaves : Seen(id) <= Seen(id - 1) /\ Got(Onward(id)) <= Given(id)

\* A slave that has its number has it from one that knew the place of it.
Sources == \A q \in Slaves : at[q] \in Early \/ at[Owner(q)] \in Ranked

\* What the channels hold, by tag.
ChX == \A p, q \in 0..LastId :
         sent[<<p, q, "tag_x">>] =
           IF p = 0 /\ q # 0 /\ at[q] = "x" THEN <<numbers[q]>> ELSE <<>>
ChY == \A p, q \in 0..LastId :
         sent[<<p, q, "tag_y">>] =
           IF q = p + 1 THEN Piece(numbers, Seen(q), Seen(p)) ELSE <<>>
ChZ == \A p, q \in 0..LastId :
         sent[<<p, q, "tag_z">>] =
           IF p # 0 /\ q # 0 /\ at[p] \in Ranked /\ RankOf(p) = q /\ at[q] \in Early
           THEN <<numbers[p]>> ELSE <<>>
ChO == \A p, q \in 0..LastId :
         sent[<<p, q, "tag_o">>] =
           IF p # 0 /\ q = Onward(p) THEN Piece(Out(p), Got(q), Given(p)) ELSE <<>>

\* What the master has written, from the end.
Written == \A k \in Slaves : k > LastId + 1 - i[0] => sorted[k] = InPlace(k)

LineInv == /\ SortTypes /\ Loops /\ SlaveValues /\ Ordered /\ Sources
           /\ ChX /\ ChY /\ ChZ /\ ChO /\ Written
SortInvariant == numbers # <<>> => LineInv

-----------------------------------------------------------------------------
(* What the steps have in common.                                          *)

\* The processes.
LEMMA SlaveFacts ==
  ASSUME SortTypes
  PROVE  /\ LastId \in Nat \ {0} /\ Slaves = 1..LastId
         /\ \A k \in Slaves : numbers[k] \in Nat
         /\ 0 \in 0..LastId /\ LastId \in 0..LastId /\ LastId \in Slaves
         /\ \A id \in Slaves : /\ id \in Nat /\ id # 0 /\ id \in 0..LastId /\ id - 1 \in 0..LastId
                               /\ id - 1 # id /\ id <= LastId
         /\ \A id \in Slaves : /\ Onward(id) \in 0..LastId /\ Onward(id) # id
                               /\ id # LastId => Onward(id) = id + 1 /\ id + 1 \in Slaves
                               /\ id = LastId => Onward(id) = 0
         /\ \A p \in 0..LastId : p # 0 => p \in Slaves /\ (p - 1) + 1 = p
<1>1. LastId \in Nat \ {0} /\ Slaves = 1..LastId /\ numbers \in Seq(Nat)
  BY DEF SortTypes, Slaves
<1>2. \A k \in Slaves : numbers[k] \in Nat
  BY <1>1 DEF LastId
<1> HIDE DEF LastId, Slaves
<1>3. \A id \in Slaves : /\ id \in Nat /\ id # 0 /\ id \in 0..LastId /\ id - 1 \in 0..LastId
                         /\ id - 1 # id /\ id <= LastId
  BY <1>1
<1>4. \A id \in Slaves : /\ Onward(id) \in 0..LastId /\ Onward(id) # id
                         /\ id # LastId => Onward(id) = id + 1 /\ id + 1 \in Slaves
                         /\ id = LastId => Onward(id) = 0
  BY <1>1 DEF Onward
<1>5. \A p \in 0..LastId : p # 0 => p \in Slaves /\ (p - 1) + 1 = p
  BY <1>1
<1> QED
  BY <1>1, <1>2, <1>3, <1>4, <1>5

\* The numbers by their places.
LEMMA PlaceFacts ==
  ASSUME SortTypes
  PROVE  /\ \A id \in Slaves : RankOf(id) \in Slaves /\ InPlace(RankOf(id)) = numbers[id]
         /\ \A k \in Slaves : InPlace(k) \in Nat /\ Owner(k) \in Slaves
         /\ \A a, b \in Slaves : RankOf(a) = RankOf(b) => a = b
         /\ \A id \in Slaves : \A j \in 1..id : /\ Out(id)[j] = InPlace(id - j + 1)
                                                /\ Out(id)[j] \in Nat
<1>1. numbers \in Seq(Nat)
  BY DEF SortTypes
<1>2. /\ \A id \in Slaves : RankOf(id) \in Slaves
      /\ \A a, b \in Slaves : RankOf(a) = RankOf(b) => a = b
      /\ \A k \in Slaves : \E id \in Slaves : RankOf(id) = k
  BY <1>1, RanksSort
<1>3. \A k \in Slaves : Owner(k) \in Slaves /\ RankOf(Owner(k)) = k
  BY <1>2 DEF Owner
<1>4. \A id \in Slaves : Owner(RankOf(id)) = id
  BY <1>2, <1>3
<1>5. \A k \in Slaves : InPlace(k) \in Nat
  BY <1>3, SlaveFacts DEF InPlace
<1>6. ASSUME NEW id \in Slaves, NEW j \in 1..id
      PROVE  Out(id)[j] = InPlace(id - j + 1) /\ Out(id)[j] \in Nat
  <2>1. id \in 1..LastId
    BY SlaveFacts
  <2>2. id - j + 1 \in Slaves
    <3>1. LastId \in Nat /\ Slaves = 1..LastId
      BY SlaveFacts
    <3> QED
      BY <2>1, <3>1
  <2> QED
    BY <1>5, <2>2 DEF Out
<1> QED
  BY <1>2, <1>3, <1>4, <1>5, <1>6 DEF InPlace

\* What has been seen, given and got so far, within its bounds.
LEMMA LineFacts ==
  ASSUME LineInv
  PROVE  /\ \A p \in 0..LastId : Seen(p) \in 0..LastId
         /\ \A id \in Slaves : Given(id) \in 0..id /\ Got(Onward(id)) \in 0..id
<1>1. /\ LastId \in Nat \ {0} /\ Slaves = 1..LastId /\ i \in [0..LastId -> Nat]
      /\ \A id \in Slaves : id \in Nat /\ id # 0 /\ id \in 0..LastId /\ Onward(id) \in 0..LastId
      /\ \A p \in 0..LastId : p # 0 => p \in Slaves
  BY SlaveFacts DEF LineInv, SortTypes
<1>2. ASSUME NEW p \in 0..LastId PROVE Seen(p) \in 0..LastId
  <2>1. CASE p = 0 \/ at[p] \in Ranked
    BY <1>1, <2>1 DEF Seen
  <2>2. CASE p # 0 /\ at[p] \notin Ranked
    <3>1. p \in Slaves /\ at[p] \in {"x", "y"}
      BY <1>1, <2>2 DEF LineInv, Loops, Early, Ranked
    <3>2. i[p] \in 1..LastId
      BY <1>1, <3>1 DEF LineInv, Loops
    <3> QED
      BY <1>1, <2>2, <3>2 DEF Seen
  <2> QED
    BY <2>1, <2>2
<1>3. ASSUME NEW id \in Slaves PROVE Given(id) \in 0..id
  <2>1. CASE at[id] \in Early
    BY <1>1, <2>1 DEF Given
  <2>2. CASE at[id] \notin Early
    <3>1. at[id] \in {"o", "end"}
      BY <2>2 DEF LineInv, Loops, Early, Ranked
    <3>2. i[id] \in 0..id
      BY <1>1, <3>1 DEF LineInv, Loops
    <3> QED
      BY <2>2, <3>2 DEF Given
  <2> QED
    BY <2>1, <2>2
<1>4. ASSUME NEW id \in Slaves PROVE Got(Onward(id)) \in 0..id
  <2>1. Got(Onward(id)) <= Given(id) /\ Given(id) \in 0..id
    BY <1>3 DEF LineInv, Ordered
  <2>2. Got(Onward(id)) \in Nat
    <3>1. CASE at[Onward(id)] \in Early
      BY <3>1 DEF Got
    <3>2. CASE at[Onward(id)] \notin Early
      <4>1. i[Onward(id)] \in Nat /\ i[Onward(id)] # 0
        <5>1. CASE Onward(id) = 0
          BY <1>1, <5>1 DEF LineInv, Loops
        <5>2. CASE Onward(id) # 0
          <6>1. Onward(id) \in Slaves
            BY <1>1, <5>2
          <6>2. at[Onward(id)] \in {"o", "end"}
            BY <3>2, <6>1 DEF LineInv, Loops, Early, Ranked
          <6> QED
            BY <1>1, <6>1, <6>2 DEF LineInv, Loops
        <5> QED
          BY <5>1, <5>2
      <4> QED
        BY <3>2, <4>1 DEF Got
    <3> QED
      BY <3>1, <3>2
  <2> QED
    BY <1>1, <2>1, <2>2
<1> QED
  BY <1>2, <1>3, <1>4

\* One message taken, one sent; what the channels hold then, one tag at a time.
Channels == (0..LastId) \X (0..LastId) \X Tags

Changed(s, s2, p, q, t, messages) ==
  \A p2 \in 0..LastId : \A q2 \in 0..LastId : \A t2 \in Tags :
    s2[<<p2, q2, t2>>] = IF p2 = p /\ q2 = q /\ t2 = t THEN messages ELSE s[<<p2, q2, t2>>]

\* A message is received.
LEMMA TakenIs ==
  ASSUME SortTypes, NEW p \in 0..LastId, NEW q \in 0..LastId, NEW t \in Tags,
         sent[<<p, q, t>>] # <<>>
  PROVE  /\ Taken(sent, p, q, t) \in [Channels -> Seq(Nat)]
         /\ Message(p, q, t) \in Nat
         /\ Changed(sent, Taken(sent, p, q, t), p, q, t, Tail(sent[<<p, q, t>>]))
<1>1. sent \in [Channels -> Seq(Nat)] /\ <<p, q, t>> \in Channels
  BY DEF SortTypes, Channels
<1>2. sent[<<p, q, t>>] \in Seq(Nat)
  BY <1>1
<1>3. Tail(sent[<<p, q, t>>]) \in Seq(Nat) /\ Head(sent[<<p, q, t>>]) \in Nat
  BY <1>2, HeadTailProperties
<1>4. \A p2, q2 \in 0..LastId : \A t2 \in Tags : <<p2, q2, t2>> \in Channels
  BY DEF Channels
<1>5. Taken(sent, p, q, t) \in [Channels -> Seq(Nat)]
  BY <1>1, <1>3 DEF Taken
<1>6. \A ch \in Channels : Taken(sent, p, q, t)[ch] =
                             IF ch = <<p, q, t>> THEN Tail(sent[<<p, q, t>>]) ELSE sent[ch]
  BY <1>1 DEF Taken
<1>7. Message(p, q, t) \in Nat
  BY <1>3 DEF Message
<1>8. Changed(sent, Taken(sent, p, q, t), p, q, t, Tail(sent[<<p, q, t>>]))
  BY <1>4, <1>6 DEF Changed
<1> QED
  BY <1>5, <1>7, <1>8

\* A message is sent.
LEMMA AfterIs ==
  ASSUME NEW s \in [Channels -> Seq(Nat)], NEW p \in 0..LastId, NEW q \in 0..LastId,
         NEW t \in Tags, NEW m \in Nat
  PROVE  /\ After(s, p, q, t, m) \in [Channels -> Seq(Nat)]
         /\ Changed(s, After(s, p, q, t, m), p, q, t, Append(s[<<p, q, t>>], m))
<1>1. <<p, q, t>> \in Channels
  BY DEF Channels
<1>2. Append(s[<<p, q, t>>], m) \in Seq(Nat)
  BY <1>1, AppendProperties
<1>4. \A p2, q2 \in 0..LastId : \A t2 \in Tags : <<p2, q2, t2>> \in Channels
  BY DEF Channels
<1>5. After(s, p, q, t, m) \in [Channels -> Seq(Nat)]
  BY <1>1, <1>2 DEF After
<1>6. \A ch \in Channels : After(s, p, q, t, m)[ch] =
                             IF ch = <<p, q, t>> THEN Append(s[<<p, q, t>>], m) ELSE s[ch]
  BY <1>1 DEF After
<1>7. Changed(s, After(s, p, q, t, m), p, q, t, Append(s[<<p, q, t>>], m))
  BY <1>4, <1>6 DEF Changed
<1> QED
  BY <1>5, <1>7

\* The channels of one tag.
OneChanged(s, s2, p, q, t, messages) ==
  \A p2 \in 0..LastId : \A q2 \in 0..LastId :
    s2[<<p2, q2, t>>] = IF p2 = p /\ q2 = q THEN messages ELSE s[<<p2, q2, t>>]
NoneChanged(s, s2, t) ==
  \A p2 \in 0..LastId : \A q2 \in 0..LastId : s2[<<p2, q2, t>>] = s[<<p2, q2, t>>]

\* Only the channels of its tag change.
LEMMA ChangedByTag ==
  ASSUME NEW s, NEW s2, NEW p, NEW q, NEW t \in Tags, NEW messages,
         Changed(s, s2, p, q, t, messages)
  PROVE  /\ OneChanged(s, s2, p, q, t, messages)
         /\ \A t2 \in Tags : t2 # t => NoneChanged(s, s2, t2)
  BY DEF Changed, OneChanged, NoneChanged

\* What stays the same when the file does.
LEMMA Rigid ==
  ASSUME numbers' = numbers
  PROVE  /\ LastId' = LastId /\ Slaves' = Slaves
         /\ \A id : /\ RankOf(id)' = RankOf(id) /\ Onward(id)' = Onward(id)
                    /\ InPlace(id)' = InPlace(id) /\ Out(id)' = Out(id)
                    /\ \A m : Behinds(id, m)' = Behinds(id, m)
<1>1. LastId' = LastId
  BY DEF LastId
<1>2. Slaves' = Slaves
  BY <1>1 DEF Slaves
<1>3. \A id, m : Behinds(id, m)' = Behinds(id, m)
  BY DEF Behinds, Comes
<1>4. \A id : RankOf(id)' = RankOf(id)
  BY <1>1, <1>3 DEF RankOf
<1>5. \A id : Onward(id)' = Onward(id)
  BY <1>1 DEF Onward
<1>6. \A k : InPlace(k)' = InPlace(k)
  <2>1. \A k : Owner(k)' = Owner(k)
    BY <1>2, <1>4 DEF Owner
  <2> QED
    BY <2>1 DEF InPlace
<1>7. \A p : Out(p)' = Out(p)
  BY <1>6 DEF Out
<1> QED
  BY <1>1, <1>2, <1>3, <1>4, <1>5, <1>6, <1>7

\* A step that leaves the channels of a tag alone, and what they depend on.
LEMMA KeptX ==
  ASSUME LineInv, numbers' = numbers,
         \A q \in Slaves : at'[q] = "x" <=> at[q] = "x",
         NoneChanged(sent, sent', "tag_x")
  PROVE  ChX'
<1>1. LastId' = LastId /\ \A p \in 0..LastId : p # 0 => p \in Slaves
  BY Rigid, SlaveFacts DEF LineInv
<1> QED
  BY <1>1 DEF LineInv, ChX, NoneChanged

LEMMA KeptY ==
  ASSUME LineInv, numbers' = numbers,
         \A p \in 0..LastId : Seen(p)' = Seen(p),
         NoneChanged(sent, sent', "tag_y")
  PROVE  ChY'
<1>1. LastId' = LastId
  BY Rigid
<1>2. ChY
  BY DEF LineInv
<1>3. ASSUME NEW p \in 0..LastId, NEW q \in 0..LastId
      PROVE  sent'[<<p, q, "tag_y">>] =
               IF q = p + 1 THEN Piece(numbers, Seen(q)', Seen(p)') ELSE <<>>
  BY <1>2 DEF ChY, NoneChanged
<1> QED
  BY <1>1, <1>3 DEF ChY

LEMMA KeptZ ==
  ASSUME LineInv, numbers' = numbers,
         \A q \in Slaves : /\ at'[q] \in Ranked <=> at[q] \in Ranked
                           /\ at'[q] \in Early <=> at[q] \in Early,
         NoneChanged(sent, sent', "tag_z")
  PROVE  ChZ'
<1>1. /\ LastId' = LastId /\ \A p \in 0..LastId : p # 0 => p \in Slaves
      /\ \A p : RankOf(p)' = RankOf(p)
  BY Rigid, SlaveFacts DEF LineInv
<1>2. ChZ
  BY DEF LineInv
<1>3. ASSUME NEW p \in 0..LastId, NEW q \in 0..LastId
      PROVE  sent'[<<p, q, "tag_z">>] =
               IF p # 0 /\ q # 0 /\ at'[p] \in Ranked /\ RankOf(p) = q /\ at'[q] \in Early
               THEN <<numbers[p]>> ELSE <<>>
  <2>1. sent'[<<p, q, "tag_z">>] =
          IF p # 0 /\ q # 0 /\ at[p] \in Ranked /\ RankOf(p) = q /\ at[q] \in Early
          THEN <<numbers[p]>> ELSE <<>>
    BY <1>2 DEF ChZ, NoneChanged
  <2>2. /\ p # 0 => (at'[p] \in Ranked <=> at[p] \in Ranked)
        /\ q # 0 => (at'[q] \in Early <=> at[q] \in Early)
    BY <1>1
  <2> QED
    BY <2>1, <2>2
<1> QED
  BY <1>1, <1>3 DEF ChZ

LEMMA KeptO ==
  ASSUME LineInv, numbers' = numbers,
         \A p \in 0..LastId : Got(p)' = Got(p) /\ Given(p)' = Given(p),
         NoneChanged(sent, sent', "tag_o")
  PROVE  ChO'
<1>1. /\ LastId' = LastId
      /\ \A p : Out(p)' = Out(p) /\ Onward(p)' = Onward(p)
  BY Rigid
<1>2. ChO
  BY DEF LineInv
<1>3. ASSUME NEW p \in 0..LastId, NEW q \in 0..LastId
      PROVE  sent'[<<p, q, "tag_o">>] =
               IF p # 0 /\ q = Onward(p) THEN Piece(Out(p), Got(q)', Given(p)') ELSE <<>>
  BY <1>2 DEF ChO, NoneChanged
<1> QED
  BY <1>1, <1>3 DEF ChO

\* A slave that knows its place goes on knowing it.
LEMMA KeptSources ==
  ASSUME LineInv, numbers' = numbers,
         \A q \in Slaves : /\ at[q] \in Ranked => at'[q] \in Ranked
                           /\ at[q] \in Early => at'[q] \in Early
  PROVE  Sources'
<1>1. \A q \in Slaves : Owner(q)' = Owner(q) /\ Owner(q) \in Slaves
  BY PlaceFacts, Rigid DEF LineInv, Owner
<1>2. Slaves' = Slaves
  BY Rigid
<1> QED
  BY <1>1, <1>2 DEF LineInv, Sources

-----------------------------------------------------------------------------
(* The steps.                                                              *)

\* A slave gets its number.
LEMMA RecvXStep ==
  ASSUME LineInv, NEW id \in Slaves, RecvX(id)
  PROVE  LineInv'
<1>1. /\ at[id] = "x" /\ sent[<<0, id, "tag_x">>] # <<>>
      /\ x' = [x EXCEPT ![id] = Message(0, id, "tag_x")]
      /\ sent' = Taken(sent, 0, id, "tag_x")
      /\ at' = [at EXCEPT ![id] = "y"]
      /\ UNCHANGED <<numbers, i, z, c, sorted>>
  BY DEF RecvX, Waits
<1>2. /\ LastId \in Nat \ {0} /\ Slaves = 1..LastId /\ 0 \in 0..LastId /\ id \in 0..LastId
      /\ id # 0 /\ \A k \in Slaves : numbers[k] \in Nat
      /\ \A p \in 0..LastId : p # 0 => p \in Slaves
      /\ \A p \in Slaves : p \in 0..LastId /\ p - 1 \in 0..LastId /\ Onward(p) \in 0..LastId
  BY SlaveFacts DEF LineInv
<1>3. /\ LastId' = LastId /\ Slaves' = Slaves
      /\ \A p : Onward(p)' = Onward(p) /\ \A m : Behinds(p, m)' = Behinds(p, m)
      /\ \A p : InPlace(p)' = InPlace(p)
  BY <1>1, Rigid
<1>4. at \in [0..LastId -> Early \cup Ranked \cup {"collect"}] /\ i[id] = 1
  BY <1>1 DEF LineInv, SortTypes, Loops
<1>5. sent[<<0, id, "tag_x">>] = <<numbers[id]>>
  BY <1>1, <1>2 DEF LineInv, ChX
<1>6. Message(0, id, "tag_x") = numbers[id] /\ Tail(sent[<<0, id, "tag_x">>]) = <<>>
  BY <1>2, <1>5 DEF Message
<1>7. SortTypes /\ "tag_x" \in Tags /\ "tag_y" \in Tags /\ "tag_z" \in Tags /\ "tag_o" \in Tags
      /\ "tag_y" # "tag_x" /\ "tag_z" # "tag_x" /\ "tag_o" # "tag_x"
  BY DEF LineInv, Tags
<1>a. /\ sent' \in [Channels -> Seq(Nat)]
      /\ Changed(sent, sent', 0, id, "tag_x", Tail(sent[<<0, id, "tag_x">>]))
  BY <1>1, <1>2, <1>7, TakenIs
<1>b. /\ OneChanged(sent, sent', 0, id, "tag_x", <<>>)
      /\ NoneChanged(sent, sent', "tag_y") /\ NoneChanged(sent, sent', "tag_z")
      /\ NoneChanged(sent, sent', "tag_o")
  BY <1>6, <1>7, <1>a, ChangedByTag
<1>8. /\ at' \in [0..LastId -> Early \cup Ranked \cup {"collect"}]
      /\ \A p \in 0..LastId : at'[p] = IF p = id THEN "y" ELSE at[p]
  BY <1>1, <1>2, <1>4 DEF Early
<1>9. \A p \in 0..LastId : Seen(p)' = Seen(p) /\ Given(p)' = Given(p) /\ Got(p)' = Got(p)
  BY <1>1, <1>2, <1>3, <1>8 DEF Seen, Given, Got, Early, Ranked
<1>10. SortTypes'
  BY <1>1, <1>2, <1>3, <1>6, <1>8, <1>a DEF LineInv, SortTypes, Channels
<1>11. Loops'
  BY <1>1, <1>2, <1>3, <1>4, <1>8 DEF LineInv, Loops, Early
<1>12. SlaveValues'
  <2>1. ASSUME NEW p \in Slaves
        PROVE  /\ at'[p] # "x" => x'[p] = numbers[p]
               /\ c[p] = 1 + Cardinality(Behinds(p, Seen(p)'))
    <3>1. /\ at[p] # "x" => x[p] = numbers[p]
          /\ c[p] = 1 + Cardinality(Behinds(p, Seen(p)))
      BY DEF LineInv, SlaveValues
    <3>2. Seen(p)' = Seen(p) /\ (at'[p] # "x" /\ p # id => at[p] # "x")
      BY <1>2, <1>8, <1>9
    <3>3. x'[p] = IF p = id THEN numbers[p] ELSE x[p]
      BY <1>1, <1>6 DEF LineInv, SortTypes
    <3> QED
      BY <3>1, <3>2, <3>3
  <2> QED
    BY <1>1, <1>3, <2>1 DEF SlaveValues
<1>13. Ordered'
  BY <1>2, <1>3, <1>9 DEF LineInv, Ordered
<1>14. ChX'
  <2>1. ASSUME NEW p \in 0..LastId, NEW q \in 0..LastId
        PROVE  sent'[<<p, q, "tag_x">>] =
                 IF p = 0 /\ q # 0 /\ at'[q] = "x" THEN <<numbers[q]>> ELSE <<>>
    <3>1. sent[<<p, q, "tag_x">>] =
            IF p = 0 /\ q # 0 /\ at[q] = "x" THEN <<numbers[q]>> ELSE <<>>
      BY DEF LineInv, ChX
    <3>2. at'[q] = IF q = id THEN "y" ELSE at[q]
      BY <1>8
    <3>3. "x" # "y"
      OBVIOUS
    <3>4. sent'[<<p, q, "tag_x">>] = IF p = 0 /\ q = id THEN <<>> ELSE sent[<<p, q, "tag_x">>]
      BY <1>b DEF OneChanged
    <3> QED
      BY <3>1, <3>2, <3>3, <3>4
  <2> QED
    BY <1>1, <1>3, <2>1 DEF ChX
<1>15. ChY'
  BY <1>1, <1>9, <1>b, KeptY
<1>16. ChZ'
  BY <1>1, <1>2, <1>8, <1>b, KeptZ DEF Early, Ranked
<1>17. ChO'
  BY <1>1, <1>9, <1>b, KeptO
<1>18. Written'
  BY <1>1, <1>3 DEF LineInv, Written
<1>19. Sources'
  BY <1>1, <1>2, <1>8, KeptSources DEF Early, Ranked
<1> QED
  BY <1>10, <1>11, <1>12, <1>13, <1>14, <1>15, <1>16, <1>17, <1>18, <1>19 DEF LineInv

\* The number that comes next along the line, and the place it tells the slave.
LEMMA NextNumber ==
  ASSUME LineInv, NEW id \in Slaves, at[id] = "y", sent[<<id - 1, id, "tag_y">>] # <<>>
  PROVE  /\ Seen(id) = i[id] - 1 /\ Seen(id) + 1 = i[id] /\ i[id] \in Slaves
         /\ Seen(id) < Seen(id - 1) /\ Seen(id) \in Nat /\ Seen(id - 1) \in 0..LastId
         /\ Message(id - 1, id, "tag_y") = numbers[i[id]]
         /\ Tail(sent[<<id - 1, id, "tag_y">>]) = Piece(numbers, Seen(id) + 1, Seen(id - 1))
         /\ c[id] + (IF Behind(i[id], id, x[id], numbers[i[id]]) THEN 1 ELSE 0)
              = 1 + Cardinality(Behinds(id, i[id]))
<1>1. /\ LastId \in Nat \ {0} /\ Slaves = 1..LastId /\ id \in 0..LastId /\ id - 1 \in 0..LastId
      /\ id # 0 /\ id = (id - 1) + 1 /\ \A k \in Slaves : numbers[k] \in Nat
  BY SlaveFacts DEF LineInv
<1>2. i[id] \in Slaves
  BY DEF LineInv, Loops
<1>3. Seen(id) = i[id] - 1
  BY <1>1 DEF Seen, Ranked
<1>4. Seen(id) \in 0..LastId /\ Seen(id - 1) \in 0..LastId /\ Seen(id) <= Seen(id - 1)
  BY <1>1, LineFacts DEF LineInv, Ordered
<1>5. sent[<<id - 1, id, "tag_y">>] = Piece(numbers, Seen(id), Seen(id - 1))
  BY <1>1 DEF LineInv, ChY
<1>6. \A j \in Seen(id) + 1..Seen(id - 1) : numbers[j] \in Nat
  BY <1>1, <1>4
<1>7. Seen(id) < Seen(id - 1)
  <2>1. Seen(id) # Seen(id - 1)
    BY <1>4, <1>5, <1>6, PieceIs
  <2> QED
    BY <1>4, <2>1
<1>8. /\ Head(Piece(numbers, Seen(id), Seen(id - 1))) = numbers[Seen(id) + 1]
      /\ Tail(Piece(numbers, Seen(id), Seen(id - 1))) = Piece(numbers, Seen(id) + 1, Seen(id - 1))
  BY <1>4, <1>6, <1>7, PieceTaken
<1>9. Seen(id) + 1 = i[id] /\ i[id] - 1 \in Nat
  BY <1>1, <1>2, <1>3
<1>10. Message(id - 1, id, "tag_y") = numbers[i[id]]
  BY <1>5, <1>8, <1>9 DEF Message
<1>11. c[id] + (IF Behind(i[id], id, x[id], numbers[i[id]]) THEN 1 ELSE 0)
         = 1 + Cardinality(Behinds(id, i[id]))
  <2>1. x[id] = numbers[id] /\ c[id] = 1 + Cardinality(Behinds(id, i[id] - 1))
    BY <1>3 DEF LineInv, SlaveValues
  <2>2. Cardinality(Behinds(id, (i[id] - 1) + 1)) =
          Cardinality(Behinds(id, i[id] - 1)) + IF Comes((i[id] - 1) + 1, id) THEN 1 ELSE 0
    BY <1>9, BehindsCount
  <2>3. (i[id] - 1) + 1 = i[id]
    BY <1>1, <1>2
  <2>4. Cardinality(Behinds(id, i[id])) =
          Cardinality(Behinds(id, i[id] - 1)) + IF Comes(i[id], id) THEN 1 ELSE 0
    BY <2>2, <2>3
  <2>5. Comes(i[id], id) <=> Behind(i[id], id, x[id], numbers[i[id]])
    BY <2>1 DEF Comes
  <2>6. Cardinality(Behinds(id, i[id] - 1)) \in Nat
    BY <1>9, BehindsFinite
  <2> QED
    BY <2>1, <2>4, <2>5, <2>6
<1> QED
  BY <1>2, <1>3, <1>4, <1>5, <1>7, <1>8, <1>9, <1>10, <1>11

\* The slave takes a number from the one in front of it and passes it on.
LEMMA PassedOn ==
  ASSUME LineInv, NEW id \in Slaves, numbers' = numbers,
         Seen(id) < Seen(id - 1),
         \A p \in 0..LastId : Seen(p)' = IF p = id THEN Seen(id) + 1 ELSE Seen(p),
         NEW s1, OneChanged(sent, s1, id - 1, id, "tag_y",
                            Piece(numbers, Seen(id) + 1, Seen(id - 1))),
         NEW s2, IF id = LastId THEN s2 = s1
                 ELSE OneChanged(s1, s2, id, id + 1, "tag_y",
                                 Append(s1[<<id, id + 1, "tag_y">>], numbers[Seen(id) + 1])),
         NoneChanged(s2, sent', "tag_y")
  PROVE  ChY' /\ \A p \in Slaves : Seen(p)' <= Seen(p - 1)'
<1>1. /\ LastId \in Nat \ {0} /\ Slaves = 1..LastId /\ id \in 0..LastId /\ id - 1 \in 0..LastId
      /\ id \in Nat /\ id # 0 /\ \A k \in Slaves : numbers[k] \in Nat
      /\ \A p \in Slaves : p \in 0..LastId /\ p - 1 \in 0..LastId /\ p \in Nat
  BY SlaveFacts DEF LineInv
<1>2. LastId' = LastId /\ Slaves' = Slaves
  BY Rigid
<1>3. \A p \in 0..LastId : Seen(p) \in 0..LastId
  BY LineFacts
<1>4. \A p, q \in 0..LastId : sent[<<p, q, "tag_y">>] =
                                IF q = p + 1 THEN Piece(numbers, Seen(q), Seen(p)) ELSE <<>>
  BY DEF LineInv, ChY
<1>5. ASSUME id # LastId
      PROVE  Append(s1[<<id, id + 1, "tag_y">>], numbers[Seen(id) + 1]) =
               Piece(numbers, Seen(id + 1), Seen(id) + 1)
  <2>1. id + 1 \in 0..LastId /\ id + 1 \in Slaves /\ id + 1 # id /\ (id + 1) - 1 = id
    BY <1>1, <1>5
  <2>2. s1[<<id, id + 1, "tag_y">>] = Piece(numbers, Seen(id + 1), Seen(id))
    BY <1>1, <1>4, <2>1 DEF OneChanged
  <2>3. Seen(id + 1) <= Seen(id)
    BY <2>1 DEF LineInv, Ordered
  <2>4. Seen(id + 1) \in Nat /\ Seen(id) \in Nat
    BY <1>1, <1>3, <2>1
  <2>5. \A j \in Seen(id + 1) + 1..Seen(id) + 1 : numbers[j] \in Nat
    <3>1. Seen(id) + 1 <= LastId
      BY <1>1, <1>3
    <3> QED
      BY <1>1, <2>4, <3>1
  <2> QED
    BY <2>2, <2>3, <2>4, <2>5, PieceAppended
<1>6. ASSUME NEW p \in 0..LastId, NEW q \in 0..LastId
      PROVE  sent'[<<p, q, "tag_y">>] =
               IF q = p + 1 THEN Piece(numbers, Seen(q)', Seen(p)') ELSE <<>>
  <2>1. sent'[<<p, q, "tag_y">>] = s2[<<p, q, "tag_y">>]
    BY DEF NoneChanged
  <2>2. s1[<<p, q, "tag_y">>] =
          IF p = id - 1 /\ q = id THEN Piece(numbers, Seen(id) + 1, Seen(id - 1))
          ELSE sent[<<p, q, "tag_y">>]
    BY DEF OneChanged
  <2>3. s2[<<p, q, "tag_y">>] =
          IF p = id /\ q = id + 1 THEN Piece(numbers, Seen(id + 1), Seen(id) + 1)
          ELSE s1[<<p, q, "tag_y">>]
    <3>1. CASE id = LastId
      <4>1. ~(p = id /\ q = id + 1)
        BY <1>1, <3>1
      <4> QED
        BY <3>1, <4>1
    <3>2. CASE id # LastId
      BY <1>5, <3>2 DEF OneChanged
    <3> QED
      BY <3>1, <3>2
  <2>4. CASE q # p + 1
    <3>1. ~(p = id - 1 /\ q = id) /\ ~(p = id /\ q = id + 1)
      BY <1>1, <2>4
    <3> QED
      BY <1>4, <2>1, <2>2, <2>3, <2>4, <3>1
  <2>5. CASE q = p + 1 /\ q = id
    <3>1. p = id - 1 /\ p # id
      BY <1>1, <2>5
    <3>2. Seen(q)' = Seen(id) + 1 /\ Seen(p)' = Seen(id - 1)
      BY <1>1, <2>5, <3>1
    <3> QED
      BY <2>1, <2>2, <2>3, <2>5, <3>1, <3>2
  <2>6. CASE q = p + 1 /\ p = id
    <3>1. q = id + 1 /\ q # id
      BY <1>1, <2>6
    <3>2. Seen(p)' = Seen(id) + 1 /\ Seen(q)' = Seen(id + 1)
      BY <1>1, <2>6, <3>1
    <3> QED
      BY <2>1, <2>3, <2>6, <3>1, <3>2
  <2>7. CASE q = p + 1 /\ q # id /\ p # id
    BY <1>4, <2>1, <2>2, <2>3, <2>7
  <2> QED
    BY <2>4, <2>5, <2>6, <2>7
<1>7. ChY'
  BY <1>2, <1>6 DEF ChY
<1>8. ASSUME NEW p \in Slaves PROVE Seen(p)' <= Seen(p - 1)'
  <2>1. Seen(p) <= Seen(p - 1) /\ p \in 0..LastId /\ p - 1 \in 0..LastId /\ p - 1 # p
    BY <1>1 DEF LineInv, Ordered
  <2>2. Seen(p) \in Nat /\ Seen(p - 1) \in Nat /\ Seen(id - 1) \in Nat
    BY <1>1, <1>3, <2>1
  <2> QED
    BY <2>1, <2>2
<1> QED
  BY <1>7, <1>8

\* What a turn of the loop does, when the place is known and when it is not yet.
LEMMA RecvYStep ==
  ASSUME LineInv, NEW id \in Slaves, RecvY(id)
  PROVE  LineInv'
<1> DEFINE y == Message(id - 1, id, "tag_y")
           s1 == Taken(sent, id - 1, id, "tag_y")
           s2 == IF id = LastId THEN s1 ELSE After(s1, id, id + 1, "tag_y", y)
           r == c[id] + IF Behind(i[id], id, x[id], y) THEN 1 ELSE 0
<1>1. /\ at[id] = "y" /\ sent[<<id - 1, id, "tag_y">>] # <<>>
      /\ c' = [c EXCEPT ![id] = r]
      /\ IF i[id] = LastId
         THEN /\ sent' = After(s2, id, r, "tag_z", x[id])
              /\ at' = [at EXCEPT ![id] = "z"] /\ i' = [i EXCEPT ![id] = 1]
         ELSE sent' = s2 /\ i' = [i EXCEPT ![id] = @ + 1] /\ UNCHANGED at
      /\ UNCHANGED <<numbers, x, z, sorted>>
  BY DEF RecvY, Waits
<1>2. /\ LastId \in Nat \ {0} /\ Slaves = 1..LastId /\ 0 \in 0..LastId /\ id \in 0..LastId
      /\ id - 1 \in 0..LastId /\ id # 0 /\ id \in Nat /\ \A k \in Slaves : numbers[k] \in Nat
      /\ \A p \in 0..LastId : p # 0 => p \in Slaves
      /\ \A p \in Slaves : p \in 0..LastId /\ p - 1 \in 0..LastId /\ Onward(p) \in 0..LastId
  BY SlaveFacts DEF LineInv
<1>3. /\ LastId' = LastId /\ Slaves' = Slaves
      /\ \A p : Onward(p)' = Onward(p) /\ \A m : Behinds(p, m)' = Behinds(p, m)
      /\ \A p : InPlace(p)' = InPlace(p) /\ RankOf(p)' = RankOf(p)
  BY <1>1, Rigid
<1>4. /\ Seen(id) = i[id] - 1 /\ Seen(id) + 1 = i[id] /\ i[id] \in Slaves
      /\ Seen(id) < Seen(id - 1) /\ y = numbers[i[id]]
      /\ Tail(sent[<<id - 1, id, "tag_y">>]) = Piece(numbers, Seen(id) + 1, Seen(id - 1))
      /\ r = 1 + Cardinality(Behinds(id, i[id]))
  BY <1>1, NextNumber
<1>5. /\ "tag_x" \in Tags /\ "tag_y" \in Tags /\ "tag_z" \in Tags /\ "tag_o" \in Tags
      /\ "tag_x" # "tag_y" /\ "tag_z" # "tag_y" /\ "tag_o" # "tag_y"
      /\ "tag_x" # "tag_z" /\ "tag_y" # "tag_z" /\ "tag_o" # "tag_z"
  BY DEF Tags
<1>6. /\ at \in [0..LastId -> Early \cup Ranked \cup {"collect"}] /\ i \in [0..LastId -> Nat]
      /\ c \in [Slaves -> Nat] /\ x[id] = numbers[id]
  BY <1>1 DEF LineInv, SortTypes, SlaveValues
<1>7. /\ s1 \in [Channels -> Seq(Nat)]
      /\ Changed(sent, s1, id - 1, id, "tag_y", Piece(numbers, Seen(id) + 1, Seen(id - 1)))
  BY <1>1, <1>2, <1>4, <1>5, TakenIs DEF LineInv
<1>8. /\ OneChanged(sent, s1, id - 1, id, "tag_y", Piece(numbers, Seen(id) + 1, Seen(id - 1)))
      /\ NoneChanged(sent, s1, "tag_x") /\ NoneChanged(sent, s1, "tag_z")
      /\ NoneChanged(sent, s1, "tag_o")
  BY <1>5, <1>7, ChangedByTag
<1> HIDE DEF s1, y, r
<1>9. /\ s2 \in [Channels -> Seq(Nat)]
      /\ IF id = LastId THEN s2 = s1
         ELSE OneChanged(s1, s2, id, id + 1, "tag_y", Append(s1[<<id, id + 1, "tag_y">>], y))
      /\ NoneChanged(s1, s2, "tag_x") /\ NoneChanged(s1, s2, "tag_z")
      /\ NoneChanged(s1, s2, "tag_o")
  <2>1. CASE id = LastId
    BY <1>7, <2>1 DEF NoneChanged
  <2>2. CASE id # LastId
    <3>1. id + 1 \in 0..LastId /\ y \in Nat
      BY <1>2, <1>4, <2>2
    <3>2. /\ After(s1, id, id + 1, "tag_y", y) \in [Channels -> Seq(Nat)]
          /\ Changed(s1, After(s1, id, id + 1, "tag_y", y), id, id + 1, "tag_y",
                     Append(s1[<<id, id + 1, "tag_y">>], y))
      BY <1>2, <1>5, <1>7, <3>1, AfterIs
    <3>3. s2 = After(s1, id, id + 1, "tag_y", y)
      BY <2>2
    <3> HIDE DEF s2
    <3> QED
      BY <1>5, <2>2, <3>2, <3>3, ChangedByTag
  <2> QED
    BY <2>1, <2>2
<1> HIDE DEF s2
<1>10. r \in Nat
  BY <1>2, <1>4, BehindsFinite
<1>11. ASSUME i[id] = LastId PROVE r = RankOf(id) /\ r \in Slaves /\ r \in 0..LastId /\ r # 0
  <2>1. r = RankOf(id)
    BY <1>4, <1>11 DEF RankOf
  <2>2. r \in Slaves
    BY <2>1, PlaceFacts DEF LineInv
  <2> QED
    BY <1>2, <2>1, <2>2
<1>12. /\ sent' \in [Channels -> Seq(Nat)]
       /\ NoneChanged(s2, sent', "tag_x") /\ NoneChanged(s2, sent', "tag_y")
       /\ NoneChanged(s2, sent', "tag_o")
       /\ IF i[id] = LastId
          THEN OneChanged(s2, sent', id, r, "tag_z", Append(s2[<<id, r, "tag_z">>], x[id]))
          ELSE NoneChanged(s2, sent', "tag_z")
  <2>1. CASE i[id] # LastId
    BY <1>1, <1>9, <2>1 DEF NoneChanged
  <2>2. CASE i[id] = LastId
    <3>1. x[id] \in Nat /\ r \in 0..LastId /\ sent' = After(s2, id, r, "tag_z", x[id])
      BY <1>1, <1>2, <1>6, <1>11, <2>2
    <3>2. /\ After(s2, id, r, "tag_z", x[id]) \in [Channels -> Seq(Nat)]
          /\ Changed(s2, After(s2, id, r, "tag_z", x[id]), id, r, "tag_z",
                     Append(s2[<<id, r, "tag_z">>], x[id]))
      BY <1>2, <1>5, <1>9, <3>1, AfterIs
    <3> QED
      BY <1>5, <2>2, <3>1, <3>2, ChangedByTag
  <2> QED
    BY <2>1, <2>2
<1>13. /\ \A p \in 0..LastId : at'[p] = IF p = id /\ i[id] = LastId THEN "z" ELSE at[p]
       /\ \A p \in 0..LastId : i'[p] = IF p = id THEN IF i[id] = LastId THEN 1 ELSE i[id] + 1
                                       ELSE i[p]
       /\ at' \in [0..LastId -> Early \cup Ranked \cup {"collect"}] /\ i' \in [0..LastId -> Nat]
  <2>1. CASE i[id] = LastId
    <3>1. at' = [at EXCEPT ![id] = "z"] /\ i' = [i EXCEPT ![id] = 1]
      BY <1>1, <2>1
    <3>2. "z" \in Early \cup Ranked \cup {"collect"} /\ 1 \in Nat
      BY DEF Early
    <3>3. /\ at' \in [0..LastId -> Early \cup Ranked \cup {"collect"}]
          /\ \A p \in 0..LastId : at'[p] = IF p = id THEN "z" ELSE at[p]
      BY <1>6, <3>1, <3>2
    <3>4. i' \in [0..LastId -> Nat] /\ \A p \in 0..LastId : i'[p] = IF p = id THEN 1 ELSE i[p]
      BY <1>6, <3>1, <3>2
    <3> QED
      BY <2>1, <3>3, <3>4
  <2>2. CASE i[id] # LastId
    <3>1. i[id] + 1 \in Nat
      BY <1>2, <1>6
    <3> QED
      BY <1>1, <1>2, <1>6, <2>2, <3>1
  <2> QED
    BY <2>1, <2>2
<1>14. \A p \in 0..LastId : Seen(p)' = IF p = id THEN Seen(id) + 1 ELSE Seen(p)
  <2>1. ASSUME NEW p \in 0..LastId, p # id PROVE Seen(p)' = Seen(p)
    BY <1>3, <1>13, <2>1 DEF Seen
  <2>2. Seen(id)' = i[id]
    <3>1. CASE i[id] = LastId
      BY <1>2, <1>3, <1>13, <3>1 DEF Seen, Ranked
    <3>2. CASE i[id] # LastId
      <4>1. at'[id] = "y" /\ i'[id] = i[id] + 1 /\ (i[id] + 1) - 1 = i[id]
        BY <1>1, <1>2, <1>4, <1>13, <3>2
      <4> QED
        BY <1>2, <4>1 DEF Seen, Ranked
    <3> QED
      BY <3>1, <3>2
  <2> QED
    BY <1>4, <2>1, <2>2
<1>15. \A p \in 0..LastId : Given(p)' = Given(p) /\ Got(p)' = Got(p)
  BY <1>1, <1>13 DEF Given, Got, Early
<1>16. SortTypes'
  <2>1. c' \in [Slaves -> Nat]
    BY <1>1, <1>6, <1>10
  <2> QED
    BY <1>1, <1>3, <1>12, <1>13, <2>1 DEF LineInv, SortTypes, Channels
<1>17. Loops'
  <2>1. \/ at'[0] = "collect" /\ i'[0] \in Slaves
        \/ at'[0] = "end" /\ i'[0] = LastId + 1
    BY <1>2, <1>13 DEF LineInv, Loops
  <2>2. ASSUME NEW p \in Slaves
        PROVE  /\ at'[p] \in Early \cup Ranked
               /\ at'[p] \in {"x", "z"} => i'[p] = 1
               /\ at'[p] = "y" => i'[p] \in Slaves
               /\ at'[p] = "o" => i'[p] \in 1..p - 1
               /\ at'[p] = "end" => i'[p] = p
    <3>1. CASE p # id
      <4>1. at'[p] = at[p] /\ i'[p] = i[p]
        BY <1>2, <1>13, <3>1
      <4> QED
        BY <4>1 DEF LineInv, Loops
    <3>2. CASE p = id /\ i[id] = LastId
      BY <1>2, <1>13, <3>2 DEF Early
    <3>3. CASE p = id /\ i[id] # LastId
      <4>1. i[id] + 1 \in Slaves
        BY <1>2, <1>4, <3>3
      <4> QED
        BY <1>1, <1>2, <1>13, <3>3, <4>1 DEF Early
    <3> QED
      BY <3>1, <3>2, <3>3
  <2> QED
    BY <1>3, <2>1, <2>2 DEF Loops
<1>18. SlaveValues'
  <2>1. ASSUME NEW p \in Slaves
        PROVE  /\ at'[p] # "x" => x[p] = numbers[p]
               /\ c'[p] = 1 + Cardinality(Behinds(p, Seen(p)'))
    <3>1. /\ at[p] # "x" => x[p] = numbers[p]
          /\ c[p] = 1 + Cardinality(Behinds(p, Seen(p)))
      BY DEF LineInv, SlaveValues
    <3>2. CASE p # id
      <4>1. at'[p] = at[p] /\ Seen(p)' = Seen(p) /\ c'[p] = c[p]
        BY <1>1, <1>2, <1>6, <1>13, <1>14, <3>2
      <4> QED
        BY <3>1, <4>1
    <3>3. CASE p = id
      <4>1. Seen(id)' = i[id] /\ c'[id] = r
        BY <1>1, <1>2, <1>4, <1>6, <1>14
      <4> QED
        BY <1>4, <1>6, <3>3, <4>1
    <3> QED
      BY <3>2, <3>3
  <2> QED
    BY <1>1, <1>3, <2>1 DEF SlaveValues
<1>19. ChY' /\ \A p \in Slaves : Seen(p)' <= Seen(p - 1)'
  <2>1. IF id = LastId THEN s2 = s1
        ELSE OneChanged(s1, s2, id, id + 1, "tag_y",
                        Append(s1[<<id, id + 1, "tag_y">>], numbers[Seen(id) + 1]))
    BY <1>4, <1>9
  <2> QED
    BY <1>1, <1>4, <1>8, <1>12, <1>14, <2>1, PassedOn
<1>20. Ordered'
  <2>1. \A p \in Slaves : Got(Onward(p))' <= Given(p)'
    BY <1>2, <1>3, <1>15 DEF LineInv, Ordered
  <2> QED
    BY <1>3, <1>19, <2>1 DEF Ordered
<1>21. NoneChanged(sent, sent', "tag_x") /\ NoneChanged(sent, sent', "tag_o")
       /\ NoneChanged(sent, s2, "tag_z")
  BY <1>8, <1>9, <1>12 DEF NoneChanged
<1>22. ChX'
  <2>1. \A q \in Slaves : at'[q] = "x" <=> at[q] = "x"
    BY <1>1, <1>2, <1>13
  <2> QED
    BY <1>1, <1>21, <2>1, KeptX
<1>23. ChO'
  BY <1>1, <1>15, <1>21, KeptO
<1>24. ChZ'
  <2>1. CASE i[id] # LastId
    <3>1. NoneChanged(sent, sent', "tag_z")
      BY <1>12, <1>21, <2>1 DEF NoneChanged
    <3>2. \A q \in Slaves : at'[q] = at[q]
      BY <1>2, <1>13, <2>1
    <3> QED
      BY <1>1, <3>1, <3>2, KeptZ
  <2>2. CASE i[id] = LastId
    <3>1. \A p, q \in 0..LastId : sent[<<p, q, "tag_z">>] =
            IF p # 0 /\ q # 0 /\ at[p] \in Ranked /\ RankOf(p) = q /\ at[q] \in Early
            THEN <<numbers[p]>> ELSE <<>>
      BY DEF LineInv, ChZ
    <3>2. s2[<<id, r, "tag_z">>] = <<>> /\ Append(<<>>, numbers[id]) = <<numbers[id]>>
      <4>1. sent[<<id, r, "tag_z">>] = <<>>
        BY <1>1, <1>2, <1>11, <2>2, <3>1 DEF Ranked
      <4> QED
        BY <1>2, <1>11, <1>21, <2>2, <4>1 DEF NoneChanged
    <3>3. OneChanged(s2, sent', id, r, "tag_z", <<numbers[id]>>)
      BY <1>6, <1>12, <2>2, <3>2
    <3>4. \A p, q \in 0..LastId : sent'[<<p, q, "tag_z">>] =
            IF p = id /\ q = r THEN <<numbers[id]>> ELSE sent[<<p, q, "tag_z">>]
      BY <1>21, <3>3 DEF OneChanged, NoneChanged
    <3>5. at[r] \in Early
      <4>1. Owner(r) = id
        BY <1>11, <2>2, PlaceFacts DEF LineInv, Owner
      <4> QED
        BY <1>1, <1>11, <2>2, <4>1 DEF LineInv, Sources, Ranked
    <3>6. ASSUME NEW p \in 0..LastId, NEW q \in 0..LastId
          PROVE  sent'[<<p, q, "tag_z">>] =
                   IF p # 0 /\ q # 0 /\ at'[p] \in Ranked /\ RankOf(p) = q /\ at'[q] \in Early
                   THEN <<numbers[p]>> ELSE <<>>
      <4>1. /\ at'[p] = (IF p = id THEN "z" ELSE at[p]) /\ at'[q] = (IF q = id THEN "z" ELSE at[q])
            /\ "z" \in Ranked /\ "z" \in Early /\ at[id] \in Early /\ at[id] \notin Ranked
        BY <1>1, <1>13, <2>2 DEF Early, Ranked
      <4>2. CASE p = id /\ q = r
        BY <1>2, <1>11, <2>2, <3>4, <3>5, <4>1, <4>2
      <4>3. CASE p = id /\ q # r
        BY <1>2, <1>11, <2>2, <3>1, <3>4, <4>1, <4>3
      <4>4. CASE p # id
        BY <3>1, <3>4, <4>1, <4>4
      <4> QED
        BY <4>2, <4>3, <4>4
    <3> QED
      BY <1>1, <1>3, <3>6 DEF ChZ
  <2> QED
    BY <2>1, <2>2
<1>25. Sources'
  BY <1>1, <1>2, <1>13, KeptSources DEF Early, Ranked
<1>26. Written'
  BY <1>1, <1>2, <1>3, <1>13 DEF LineInv, Written
<1> QED
  BY <1>16, <1>17, <1>18, <1>19, <1>20, <1>22, <1>23, <1>24, <1>25, <1>26 DEF LineInv

\* The channels on the way back when a message is taken and none passed on yet.
Between(s) ==
  \A p \in 0..LastId : \A q \in 0..LastId :
    s[<<p, q, "tag_o">>] =
      IF p # 0 /\ q = Onward(p) THEN Piece(Out(p), Got(q)', Given(p)) ELSE <<>>

LEMMA OutTypes ==
  ASSUME LineInv, NEW p \in Slaves, NEW a \in Nat, NEW b \in 0..p
  PROVE  \A j \in a + 1..b : Out(p)[j] \in Nat
<1>1. p \in Nat /\ \A j \in 1..p : Out(p)[j] \in Nat
  BY SlaveFacts, PlaceFacts DEF LineInv
<1>2. \A j \in a + 1..b : j \in 1..p
  BY <1>1
<1> QED
  BY <1>1, <1>2

\* The number that comes next from a slave to the one behind it or to the master.
LEMMA NextPlace ==
  ASSUME LineInv, NEW p \in Slaves, sent[<<p, Onward(p), "tag_o">>] # <<>>
  PROVE  /\ Got(Onward(p)) \in Nat /\ Given(p) \in 0..p /\ Got(Onward(p)) < Given(p)
         /\ Message(p, Onward(p), "tag_o") = InPlace(p - Got(Onward(p)))
         /\ Tail(sent[<<p, Onward(p), "tag_o">>]) = Piece(Out(p), Got(Onward(p)) + 1, Given(p))
<1> DEFINE a == Got(Onward(p))
           b == Given(p)
<1>1. p \in Nat /\ p # 0 /\ p \in 0..LastId /\ Onward(p) \in 0..LastId
  BY SlaveFacts DEF LineInv
<1>2. a \in 0..p /\ b \in 0..p /\ a <= b
  BY LineFacts DEF LineInv, Ordered
<1>3. sent[<<p, Onward(p), "tag_o">>] = Piece(Out(p), a, b)
  BY <1>1 DEF LineInv, ChO
<1> HIDE DEF a, b
<1>4. a \in Nat /\ b \in Nat
  BY <1>1, <1>2
<1>5. \A j \in a + 1..b : Out(p)[j] \in Nat
  BY <1>2, <1>4, OutTypes
<1>6. a < b
  <2>1. a # b
    BY <1>2, <1>3, <1>4, <1>5, PieceIs
  <2> QED
    BY <1>2, <1>5, <2>1
<1>7. /\ Head(Piece(Out(p), a, b)) = Out(p)[a + 1]
      /\ Tail(Piece(Out(p), a, b)) = Piece(Out(p), a + 1, b)
  BY <1>4, <1>5, <1>6, PieceTaken
<1>8. Out(p)[a + 1] = InPlace(p - a)
  <2>1. a + 1 \in 1..p /\ p - (a + 1) + 1 = p - a
    BY <1>1, <1>2, <1>5, <1>6
  <2>2. Out(p)[a + 1] = InPlace(p - (a + 1) + 1)
    BY <2>1, PlaceFacts DEF LineInv
  <2> QED
    BY <2>1, <2>2
<1>9. Message(p, Onward(p), "tag_o") = InPlace(p - a)
  BY <1>3, <1>7, <1>8 DEF Message
<1> QED
  BY <1>2, <1>3, <1>5, <1>6, <1>7, <1>9 DEF a, b

\* That number is taken.
LEMMA TakenBack ==
  ASSUME LineInv, NEW p \in Slaves,
         \A q \in 0..LastId : Got(q)' = IF q = Onward(p) THEN Got(q) + 1 ELSE Got(q),
         NEW s, OneChanged(sent, s, p, Onward(p), "tag_o",
                           Piece(Out(p), Got(Onward(p)) + 1, Given(p)))
  PROVE  Between(s)
<1>1. /\ Onward(p) \in 0..LastId /\ p \in 0..LastId /\ p # 0
      /\ \A q \in 0..LastId : q # 0 => q \in Slaves
  BY SlaveFacts DEF LineInv
<1>2. \A q \in Slaves : Onward(q) = Onward(p) => q = p
  <2>1. LastId \in Nat \ {0} /\ Slaves = 1..LastId
    BY SlaveFacts DEF LineInv
  <2> HIDE DEF LastId, Slaves
  <2> QED
    BY <2>1 DEF Onward
<1>3. ASSUME NEW r \in 0..LastId, NEW q \in 0..LastId
      PROVE  s[<<r, q, "tag_o">>] =
               IF r # 0 /\ q = Onward(r) THEN Piece(Out(r), Got(q)', Given(r)) ELSE <<>>
  <2>1. s[<<r, q, "tag_o">>] = IF r = p /\ q = Onward(p)
                                THEN Piece(Out(p), Got(Onward(p)) + 1, Given(p))
                                ELSE sent[<<r, q, "tag_o">>]
    BY DEF OneChanged
  <2>2. sent[<<r, q, "tag_o">>] =
          IF r # 0 /\ q = Onward(r) THEN Piece(Out(r), Got(q), Given(r)) ELSE <<>>
    BY DEF LineInv, ChO
  <2>3. CASE r = p /\ q = Onward(p)
    <3>1. Got(q)' = Got(Onward(p)) + 1
      BY <2>3
    <3> QED
      BY <1>1, <2>1, <2>3, <3>1
  <2>4. CASE r # 0 /\ q = Onward(r) /\ r # p
    <3>1. q # Onward(p)
      BY <1>1, <1>2, <2>4
    <3>2. Got(q)' = Got(q)
      BY <3>1
    <3> QED
      BY <2>1, <2>2, <2>4, <3>2
  <2>5. CASE ~(r # 0 /\ q = Onward(r))
    BY <1>1, <2>1, <2>2, <2>5
  <2> QED
    BY <2>3, <2>4, <2>5
<1> QED
  BY <1>3 DEF Between

\* A slave passes the next one of its numbers on.
LEMMA PassedBack ==
  ASSUME LineInv, NEW id \in Slaves, numbers' = numbers,
         Given(id) < id, Given(id)' = Given(id) + 1,
         \A p \in 0..LastId : p # id => Given(p)' = Given(p),
         \A q \in 0..LastId : q # id => Got(q)' = Got(q),
         NEW s, Between(s),
         OneChanged(s, sent', id, Onward(id), "tag_o",
                    Append(s[<<id, Onward(id), "tag_o">>], InPlace(id - Given(id))))
  PROVE  ChO'
<1> DEFINE a == Got(Onward(id))
           b == Given(id)
<1>1. /\ id \in Nat /\ id # 0 /\ id \in 0..LastId
      /\ Onward(id) \in 0..LastId /\ Onward(id) # id
  BY SlaveFacts DEF LineInv
<1>2. a \in Nat /\ b \in Nat /\ a <= b /\ b + 1 \in 0..id /\ b < id
  <2>1. a \in 0..id /\ b \in 0..id /\ a <= b
    BY LineFacts DEF LineInv, Ordered
  <2> QED
    BY <1>1, <2>1
<1>3. s[<<id, Onward(id), "tag_o">>] = Piece(Out(id), a, b)
  <2>1. ASSUME NEW q \in 0..LastId, q = Onward(id)
        PROVE  s[<<id, q, "tag_o">>] = Piece(Out(id), Got(q), b)
    <3>1. Got(q)' = Got(q)
      BY <1>1, <2>1
    <3>2. s[<<id, q, "tag_o">>] = Piece(Out(id), Got(q)', b)
      BY <1>1, <2>1 DEF Between
    <3> QED
      BY <3>1, <3>2
  <2> QED
    BY <1>1, <2>1
<1>4. Out(id)[b + 1] = InPlace(id - b)
  <2> HIDE DEF b
  <2>1. b + 1 \in 1..id /\ id - (b + 1) + 1 = id - b
    BY <1>1, <1>2
  <2>2. Out(id)[b + 1] = InPlace(id - (b + 1) + 1)
    BY <2>1, PlaceFacts DEF LineInv
  <2> QED
    BY <2>1, <2>2
<1>5. Append(s[<<id, Onward(id), "tag_o">>], InPlace(id - b)) = Piece(Out(id), a, b + 1)
  <2> HIDE DEF a, b
  <2>1. \A j \in a + 1..b + 1 : Out(id)[j] \in Nat
    BY <1>2, OutTypes
  <2>2. Append(Piece(Out(id), a, b), Out(id)[b + 1]) = Piece(Out(id), a, b + 1)
    BY <1>2, <2>1, PieceAppended
  <2> QED
    BY <1>3, <1>4, <2>2
<1>6. /\ LastId' = LastId
      /\ \A p : Out(p)' = Out(p) /\ Onward(p)' = Onward(p)
  BY Rigid
<1>7. ASSUME NEW p \in 0..LastId, NEW q \in 0..LastId
      PROVE  sent'[<<p, q, "tag_o">>] =
               IF p # 0 /\ q = Onward(p) THEN Piece(Out(p), Got(q)', Given(p)') ELSE <<>>
  <2>1. sent'[<<p, q, "tag_o">>] =
          IF p = id /\ q = Onward(id) THEN Piece(Out(id), a, b + 1) ELSE s[<<p, q, "tag_o">>]
    BY <1>5 DEF OneChanged
  <2>2. s[<<p, q, "tag_o">>] =
          IF p # 0 /\ q = Onward(p) THEN Piece(Out(p), Got(q)', Given(p)) ELSE <<>>
    BY DEF Between
  <2>3. CASE p = id /\ q = Onward(id)
    <3>1. Got(q)' = a /\ Given(p)' = b + 1
      BY <1>1, <2>3
    <3> QED
      BY <1>1, <2>1, <2>3, <3>1
  <2>4. CASE p # id
    BY <2>1, <2>2, <2>4
  <2>5. CASE p = id /\ q # Onward(id)
    BY <2>1, <2>2, <2>5
  <2> QED
    BY <2>3, <2>4, <2>5
<1> QED
  BY <1>6, <1>7 DEF ChO

\* The number that belongs to a place, from whoever it comes.
LEMMA OwnNumber ==
  ASSUME LineInv, NEW id \in Slaves, NEW from \in Slaves, sent[<<from, id, "tag_z">>] # <<>>
  PROVE  /\ at[from] \in Ranked /\ RankOf(from) = id /\ Owner(id) = from
         /\ Message(from, id, "tag_z") = InPlace(id)
         /\ Tail(sent[<<from, id, "tag_z">>]) = <<>>
<1>1. id # 0 /\ from # 0 /\ id \in 0..LastId /\ from \in 0..LastId /\ numbers[from] \in Nat
  BY SlaveFacts DEF LineInv
<1>2. /\ at[from] \in Ranked /\ RankOf(from) = id
      /\ sent[<<from, id, "tag_z">>] = <<numbers[from]>>
  BY <1>1 DEF LineInv, ChZ
<1>3. Owner(id) = from
  BY <1>2, PlaceFacts DEF LineInv, Owner
<1>4. Head(<<numbers[from]>>) = numbers[from] /\ Tail(<<numbers[from]>>) = <<>>
  BY <1>1
<1> QED
  BY <1>2, <1>3, <1>4 DEF Message, InPlace

\* A slave gets the number of its place and is the first to pass one back.
LEMMA RecvZStep ==
  ASSUME LineInv, NEW id \in Slaves, RecvZ(id)
  PROVE  LineInv'
<1>1. /\ at[id] = "z" /\ at' = [at EXCEPT ![id] = IF id = 1 THEN "end" ELSE "o"]
      /\ UNCHANGED <<numbers, i, x, c, sorted>>
  BY DEF RecvZ
<1>2. PICK from \in Slaves :
        /\ sent[<<from, id, "tag_z">>] # <<>>
        /\ z' = [z EXCEPT ![id] = Message(from, id, "tag_z")]
        /\ sent' = After(Taken(sent, from, id, "tag_z"), id, Onward(id), "tag_o", z'[id])
  BY DEF RecvZ, Waits
<1>3. /\ LastId \in Nat \ {0} /\ Slaves = 1..LastId /\ 0 \in 0..LastId /\ id \in 0..LastId
      /\ from \in 0..LastId /\ id # 0 /\ from # 0 /\ id \in Nat
      /\ \A p \in 0..LastId : p # 0 => p \in Slaves
      /\ \A p \in Slaves : p \in 0..LastId /\ p - 1 \in 0..LastId /\ Onward(p) \in 0..LastId
  BY SlaveFacts DEF LineInv
<1>4. /\ LastId' = LastId /\ Slaves' = Slaves
      /\ \A p : Onward(p)' = Onward(p) /\ \A m : Behinds(p, m)' = Behinds(p, m)
      /\ \A p : InPlace(p)' = InPlace(p) /\ RankOf(p)' = RankOf(p)
  BY <1>1, Rigid
<1>5. /\ at[from] \in Ranked /\ RankOf(from) = id /\ Owner(id) = from
      /\ Message(from, id, "tag_z") = InPlace(id)
      /\ Tail(sent[<<from, id, "tag_z">>]) = <<>>
  BY <1>2, OwnNumber
<1>6. /\ "tag_x" \in Tags /\ "tag_y" \in Tags /\ "tag_z" \in Tags /\ "tag_o" \in Tags
      /\ "tag_x" # "tag_o" /\ "tag_y" # "tag_o" /\ "tag_z" # "tag_o"
      /\ "tag_x" # "tag_z" /\ "tag_y" # "tag_z" /\ "tag_o" # "tag_z"
  BY DEF Tags
<1>7. /\ at \in [0..LastId -> Early \cup Ranked \cup {"collect"}] /\ i \in [0..LastId -> Nat]
      /\ z \in [Slaves -> Nat] /\ i[id] = 1 /\ SortTypes
  BY <1>1 DEF LineInv, SortTypes, Loops
<1>8. InPlace(id) \in Nat /\ z'[id] = InPlace(id) /\ z' \in [Slaves -> Nat]
  BY <1>2, <1>5, <1>7, PlaceFacts
<1> DEFINE s1 == Taken(sent, from, id, "tag_z")
<1>9. s1 \in [Channels -> Seq(Nat)] /\ Changed(sent, s1, from, id, "tag_z", <<>>)
  <2>1. /\ s1 \in [Channels -> Seq(Nat)]
        /\ Changed(sent, s1, from, id, "tag_z", Tail(sent[<<from, id, "tag_z">>]))
    BY <1>2, <1>3, <1>6, <1>7, TakenIs
  <2> QED
    BY <1>5, <2>1
<1>10. /\ OneChanged(sent, s1, from, id, "tag_z", <<>>)
       /\ NoneChanged(sent, s1, "tag_x") /\ NoneChanged(sent, s1, "tag_y")
       /\ NoneChanged(sent, s1, "tag_o")
  BY <1>6, <1>9, ChangedByTag
<1>11. sent' = After(s1, id, Onward(id), "tag_o", InPlace(id))
  BY <1>2, <1>8
<1> HIDE DEF s1
<1>12. /\ sent' \in [Channels -> Seq(Nat)]
       /\ Changed(s1, sent', id, Onward(id), "tag_o",
                  Append(s1[<<id, Onward(id), "tag_o">>], InPlace(id)))
  BY <1>3, <1>6, <1>8, <1>9, <1>11, AfterIs
<1>13. /\ OneChanged(s1, sent', id, Onward(id), "tag_o",
                     Append(s1[<<id, Onward(id), "tag_o">>], InPlace(id)))
       /\ NoneChanged(s1, sent', "tag_x") /\ NoneChanged(s1, sent', "tag_y")
       /\ NoneChanged(s1, sent', "tag_z")
  BY <1>6, <1>12, ChangedByTag
<1>14. /\ NoneChanged(sent, sent', "tag_x") /\ NoneChanged(sent, sent', "tag_y")
       /\ OneChanged(sent, sent', from, id, "tag_z", <<>>)
  BY <1>10, <1>13 DEF NoneChanged, OneChanged
<1>15. /\ \A p \in 0..LastId : at'[p] = IF p = id THEN IF id = 1 THEN "end" ELSE "o" ELSE at[p]
       /\ at' \in [0..LastId -> Early \cup Ranked \cup {"collect"}]
  BY <1>1, <1>3, <1>7 DEF Ranked
<1>16. at'[id] \in {"o", "end"} /\ at'[id] \in Ranked /\ at'[id] \notin Early
  BY <1>3, <1>15 DEF Ranked, Early
<1>17. \A p \in 0..LastId : Seen(p)' = Seen(p)
  BY <1>1, <1>3, <1>4, <1>15, <1>16 DEF Seen, Ranked
<1>18. \A p \in 0..LastId : /\ Got(p)' = Got(p)
                            /\ Given(p)' = IF p = id THEN 1 ELSE Given(p)
  <2>1. ASSUME NEW p \in 0..LastId, p # id PROVE Got(p)' = Got(p) /\ Given(p)' = Given(p)
    BY <1>1, <1>15, <2>1 DEF Got, Given
  <2>2. Got(id)' = Got(id) /\ Given(id)' = 1
    BY <1>1, <1>7, <1>16 DEF Got, Given, Early
  <2> QED
    BY <2>1, <2>2
<1>19. Given(id) = 0
  BY <1>1 DEF Given, Early
<1>20. SortTypes'
  BY <1>1, <1>4, <1>8, <1>12, <1>15 DEF LineInv, SortTypes, Channels
<1>21. Loops'
  <2>1. \/ at'[0] = "collect" /\ i'[0] \in Slaves
        \/ at'[0] = "end" /\ i'[0] = LastId + 1
    BY <1>1, <1>3, <1>15 DEF LineInv, Loops
  <2>2. ASSUME NEW p \in Slaves
        PROVE  /\ at'[p] \in Early \cup Ranked
               /\ at'[p] \in {"x", "z"} => i'[p] = 1
               /\ at'[p] = "y" => i'[p] \in Slaves
               /\ at'[p] = "o" => i'[p] \in 1..p - 1
               /\ at'[p] = "end" => i'[p] = p
    <3>1. CASE p # id
      <4>1. at'[p] = at[p] /\ i'[p] = i[p]
        BY <1>1, <1>3, <1>15, <3>1
      <4> QED
        BY <4>1 DEF LineInv, Loops
    <3>2. CASE p = id /\ id = 1
      BY <1>1, <1>3, <1>7, <1>15, <3>2 DEF Ranked
    <3>3. CASE p = id /\ id # 1
      <4>1. 1 \in 1..id - 1
        BY <1>3, <3>3
      <4>2. at'[p] = "o" /\ i'[p] = 1
        BY <1>1, <1>3, <1>7, <1>15, <3>3
      <4> QED
        BY <3>3, <4>1, <4>2 DEF Ranked
    <3> QED
      BY <3>1, <3>2, <3>3
  <2> QED
    BY <1>4, <2>1, <2>2 DEF Loops
<1>22. SlaveValues'
  <2>1. ASSUME NEW p \in Slaves
        PROVE  /\ at'[p] # "x" => x[p] = numbers[p]
               /\ c[p] = 1 + Cardinality(Behinds(p, Seen(p)'))
    <3>1. Seen(p)' = Seen(p) /\ (at'[p] # "x" => at[p] # "x")
      BY <1>1, <1>3, <1>15, <1>17
    <3> QED
      BY <3>1 DEF LineInv, SlaveValues
  <2> QED
    BY <1>1, <1>4, <2>1 DEF SlaveValues
<1>23. Ordered'
  <2>1. ASSUME NEW p \in Slaves, NEW q \in 0..LastId, q = Onward(p)
        PROVE  Seen(p)' <= Seen(p - 1)' /\ Got(q)' <= Given(p)'
    <3>1. Seen(p) <= Seen(p - 1) /\ Got(q) <= Given(p)
      BY <2>1 DEF LineInv, Ordered
    <3>2. Given(p) <= Given(p)' /\ Given(p) \in Nat /\ Given(p)' \in Nat
      <4>1. p \in 0..LastId /\ Given(p) \in 0..p /\ p \in Nat
        BY LineFacts, SlaveFacts, <1>7
      <4> QED
        BY <1>18, <1>19, <4>1
    <3>3. Got(q) \in Nat
      <4>1. Got(q) \in 0..p
        BY <2>1, LineFacts
      <4> QED
        BY <1>3, <4>1
    <3> QED
      BY <1>3, <1>17, <1>18, <3>1, <3>2, <3>3
  <2> QED
    BY <1>3, <1>4, <2>1 DEF Ordered
<1>24. Sources'
  <2>1. ASSUME NEW q \in Slaves PROVE at'[q] \in Early \/ at'[Owner(q)] \in Ranked
    <3>1. Owner(q) \in Slaves /\ Owner(q) \in 0..LastId
      BY <1>3, <1>7, PlaceFacts
    <3>2. \A p \in 0..LastId : at[p] \in Ranked => at'[p] \in Ranked
      BY <1>15, <1>16
    <3>3. CASE q = id
      BY <1>3, <1>5, <3>2, <3>3
    <3>4. CASE q # id
      <4>1. at'[q] = at[q]
        BY <1>3, <1>15, <3>4
      <4> QED
        BY <3>1, <3>2, <4>1 DEF LineInv, Sources
    <3> QED
      BY <3>3, <3>4
  <2>2. \A q : Owner(q)' = Owner(q)
    BY <1>4 DEF Owner
  <2> QED
    BY <1>4, <2>1, <2>2 DEF Sources
<1>25. ChX'
  <2>1. \A q \in Slaves : at'[q] = "x" <=> at[q] = "x"
    BY <1>1, <1>3, <1>15
  <2> QED
    BY <1>1, <1>14, <2>1, KeptX
<1>26. ChY'
  BY <1>1, <1>14, <1>17, KeptY
<1>27. ChZ'
  <2>1. ASSUME NEW p \in 0..LastId, NEW q \in 0..LastId
        PROVE  sent'[<<p, q, "tag_z">>] =
                 IF p # 0 /\ q # 0 /\ at'[p] \in Ranked /\ RankOf(p) = q /\ at'[q] \in Early
                 THEN <<numbers[p]>> ELSE <<>>
    <3>1. sent[<<p, q, "tag_z">>] =
            IF p # 0 /\ q # 0 /\ at[p] \in Ranked /\ RankOf(p) = q /\ at[q] \in Early
            THEN <<numbers[p]>> ELSE <<>>
      BY DEF LineInv, ChZ
    <3>2. sent'[<<p, q, "tag_z">>] = IF p = from /\ q = id THEN <<>> ELSE sent[<<p, q, "tag_z">>]
      BY <1>14 DEF OneChanged
    <3>3. at'[p] \in Ranked <=> at[p] \in Ranked
      BY <1>1, <1>15, <1>16 DEF Ranked
    <3>4. CASE q = id
      <4>1. p # 0 /\ RankOf(p) = id => p = from
        BY <1>3, <1>5, <1>7, PlaceFacts
      <4> QED
        BY <1>16, <3>1, <3>2, <3>4, <4>1
    <3>5. CASE q # id
      BY <1>15, <3>1, <3>2, <3>3, <3>5
    <3> QED
      BY <3>4, <3>5
  <2> QED
    BY <1>1, <1>4, <2>1 DEF ChZ
<1>28. ChO'
  <2>1. Between(s1)
    BY <1>10, <1>18 DEF LineInv, ChO, Between, NoneChanged
  <2>2. id - 0 = id /\ 0 < id /\ 0 + 1 = 1
    BY <1>3
  <2> QED
    BY <1>1, <1>3, <1>13, <1>18, <1>19, <2>1, <2>2, PassedBack
<1>29. Written'
  BY <1>1, <1>4 DEF LineInv, Written
<1> QED
  BY <1>20, <1>21, <1>22, <1>23, <1>24, <1>25, <1>26, <1>27, <1>28, <1>29 DEF LineInv

\* The loop counter of a slave on the way back.
LEMMA Counting ==
  ASSUME NEW last \in Nat, NEW k \in 1..last, NEW a \in 1..k - 1
  PROVE  /\ k - a \in 1..last /\ (k - 1) - (a - 1) = k - a
         /\ a + 1 # k => a + 1 \in 1..k - 1
         /\ (a + 1) - 1 = a /\ a + 1 \in Nat /\ a \in Nat /\ a < k /\ k - 1 # 0
  OBVIOUS

\* A slave passes a number back from the slave in front of it.
LEMMA RecvOStep ==
  ASSUME LineInv, NEW id \in Slaves, RecvO(id)
  PROVE  LineInv'
<1>1. /\ at[id] = "o" /\ sent[<<id - 1, id, "tag_o">>] # <<>>
      /\ z' = [z EXCEPT ![id] = Message(id - 1, id, "tag_o")]
      /\ sent' = After(Taken(sent, id - 1, id, "tag_o"), id, Onward(id), "tag_o", z'[id])
      /\ i' = [i EXCEPT ![id] = @ + 1]
      /\ at' = [at EXCEPT ![id] = IF i'[id] = id THEN "end" ELSE "o"]
      /\ UNCHANGED <<numbers, x, c, sorted>>
  BY DEF RecvO, Waits
<1>2. /\ LastId \in Nat \ {0} /\ Slaves = 1..LastId /\ 0 \in 0..LastId /\ id \in 0..LastId
      /\ id # 0 /\ id \in Nat /\ id - 1 \in 0..LastId
      /\ \A p \in 0..LastId : p # 0 => p \in Slaves
      /\ \A p \in Slaves : p \in 0..LastId /\ p - 1 \in 0..LastId /\ Onward(p) \in 0..LastId
  BY SlaveFacts DEF LineInv
<1>3. /\ at \in [0..LastId -> Early \cup Ranked \cup {"collect"}] /\ i \in [0..LastId -> Nat]
      /\ z \in [Slaves -> Nat] /\ i[id] \in 1..id - 1 /\ SortTypes
  BY <1>1 DEF LineInv, SortTypes, Loops
<1>a. /\ id - i[id] \in 1..LastId /\ (id - 1) - (i[id] - 1) = id - i[id]
      /\ i[id] + 1 # id => i[id] + 1 \in 1..id - 1
      /\ (i[id] + 1) - 1 = i[id] /\ i[id] + 1 \in Nat /\ i[id] \in Nat /\ i[id] < id
      /\ id - 1 # 0
  <2>1. LastId \in Nat /\ id \in 1..LastId /\ i[id] \in 1..id - 1
    BY <1>2, <1>3
  <2> QED
    BY <2>1, Counting
<1>4. /\ id - 1 \in Slaves /\ id - 1 # 0 /\ Onward(id - 1) = id /\ i[id] \in Nat
      /\ i[id] + 1 \in Nat /\ i[id] < id
  <2>1. id - 1 \in Slaves /\ id - 1 # LastId /\ (id - 1) + 1 = id
    BY <1>2, <1>3
  <2> HIDE DEF Slaves, LastId
  <2>2. Onward(id - 1) = id
    BY <2>1 DEF Onward
  <2> QED
    BY <1>a, <2>1, <2>2
<1>5. /\ LastId' = LastId /\ Slaves' = Slaves
      /\ \A p : Onward(p)' = Onward(p) /\ \A m : Behinds(p, m)' = Behinds(p, m)
      /\ \A p : InPlace(p)' = InPlace(p) /\ RankOf(p)' = RankOf(p)
  BY <1>1, Rigid
<1>6. Given(id) = i[id] /\ Got(id) = i[id] - 1 /\ Got(id) + 1 = i[id]
  BY <1>1, <1>4 DEF Given, Got, Early
<1>7. /\ Got(id) \in Nat /\ Given(id - 1) \in 0..id - 1 /\ Got(id) < Given(id - 1)
      /\ Message(id - 1, id, "tag_o") = InPlace((id - 1) - Got(id))
      /\ Tail(sent[<<id - 1, id, "tag_o">>]) = Piece(Out(id - 1), Got(id) + 1, Given(id - 1))
  <2>1. sent[<<id - 1, Onward(id - 1), "tag_o">>] # <<>>
    BY <1>1, <1>4
  <2>2. /\ Got(Onward(id - 1)) \in Nat /\ Given(id - 1) \in 0..id - 1
        /\ Got(Onward(id - 1)) < Given(id - 1)
        /\ Message(id - 1, Onward(id - 1), "tag_o") = InPlace((id - 1) - Got(Onward(id - 1)))
        /\ Tail(sent[<<id - 1, Onward(id - 1), "tag_o">>])
             = Piece(Out(id - 1), Got(Onward(id - 1)) + 1, Given(id - 1))
    BY <1>4, <2>1, NextPlace
  <2> QED
    BY <1>4, <2>2
<1>8. (id - 1) - Got(id) = id - Given(id) /\ id - Given(id) \in Slaves
  BY <1>2, <1>6, <1>a
<1>9. /\ InPlace(id - Given(id)) \in Nat /\ z'[id] = InPlace(id - Given(id))
      /\ z' \in [Slaves -> Nat]
  BY <1>1, <1>3, <1>7, <1>8, PlaceFacts
<1>10. /\ "tag_x" \in Tags /\ "tag_y" \in Tags /\ "tag_z" \in Tags /\ "tag_o" \in Tags
       /\ "tag_x" # "tag_o" /\ "tag_y" # "tag_o" /\ "tag_z" # "tag_o"
  BY DEF Tags
<1> DEFINE s1 == Taken(sent, id - 1, id, "tag_o")
<1>11. /\ s1 \in [Channels -> Seq(Nat)]
       /\ Changed(sent, s1, id - 1, id, "tag_o", Tail(sent[<<id - 1, id, "tag_o">>]))
  BY <1>1, <1>2, <1>3, <1>10, TakenIs
<1>12. /\ OneChanged(sent, s1, id - 1, id, "tag_o", Tail(sent[<<id - 1, id, "tag_o">>]))
       /\ NoneChanged(sent, s1, "tag_x") /\ NoneChanged(sent, s1, "tag_y")
       /\ NoneChanged(sent, s1, "tag_z")
  BY <1>10, <1>11, ChangedByTag
<1>13. sent' = After(s1, id, Onward(id), "tag_o", InPlace(id - Given(id)))
  BY <1>1, <1>9
<1> HIDE DEF s1
<1>14. /\ sent' \in [Channels -> Seq(Nat)]
       /\ Changed(s1, sent', id, Onward(id), "tag_o",
                  Append(s1[<<id, Onward(id), "tag_o">>], InPlace(id - Given(id))))
  BY <1>2, <1>9, <1>10, <1>11, <1>13, AfterIs
<1>15. /\ OneChanged(s1, sent', id, Onward(id), "tag_o",
                     Append(s1[<<id, Onward(id), "tag_o">>], InPlace(id - Given(id))))
       /\ NoneChanged(s1, sent', "tag_x") /\ NoneChanged(s1, sent', "tag_y")
       /\ NoneChanged(s1, sent', "tag_z")
  BY <1>10, <1>14, ChangedByTag
<1>16. /\ NoneChanged(sent, sent', "tag_x") /\ NoneChanged(sent, sent', "tag_y")
       /\ NoneChanged(sent, sent', "tag_z")
  BY <1>12, <1>15 DEF NoneChanged
<1>17. /\ \A p \in 0..LastId : i'[p] = IF p = id THEN i[id] + 1 ELSE i[p]
       /\ i' \in [0..LastId -> Nat]
  BY <1>1, <1>2, <1>3, <1>4
<1>18. /\ \A p \in 0..LastId : at'[p] = IF p = id THEN IF i[id] + 1 = id THEN "end" ELSE "o"
                                        ELSE at[p]
       /\ at' \in [0..LastId -> Early \cup Ranked \cup {"collect"}]
  <2>1. at' = [at EXCEPT ![id] = IF i[id] + 1 = id THEN "end" ELSE "o"]
    BY <1>1, <1>2, <1>17
  <2>2. "end" \in Ranked /\ "o" \in Ranked
    BY DEF Ranked
  <2> QED
    BY <1>3, <2>1, <2>2
<1>19. at'[id] \in {"o", "end"} /\ at'[id] \in Ranked /\ at'[id] \notin Early
  BY <1>2, <1>18 DEF Ranked, Early
<1>20. \A p \in 0..LastId : Seen(p)' = Seen(p)
  <2>1. ASSUME NEW p \in 0..LastId, p # id PROVE Seen(p)' = Seen(p)
    BY <1>5, <1>17, <1>18, <2>1 DEF Seen
  <2>2. Seen(id)' = Seen(id)
    BY <1>1, <1>5, <1>19 DEF Seen, Ranked
  <2> QED
    BY <2>1, <2>2
<1>21. \A p \in 0..LastId : /\ Got(p)' = IF p = id THEN Got(id) + 1 ELSE Got(p)
                            /\ Given(p)' = IF p = id THEN Given(id) + 1 ELSE Given(p)
  <2>1. ASSUME NEW p \in 0..LastId, p # id PROVE Got(p)' = Got(p) /\ Given(p)' = Given(p)
    BY <1>17, <1>18, <2>1 DEF Got, Given
  <2>2. Got(id)' = Got(id) + 1 /\ Given(id)' = Given(id) + 1
    <3>1. i'[id] = i[id] + 1 /\ i'[id] - 1 = i[id]
      BY <1>2, <1>17, <1>a
    <3>2. Given(id)' = i'[id] /\ Got(id)' = i'[id] - 1
      BY <1>19 DEF Got, Given
    <3> QED
      BY <1>6, <3>1, <3>2
  <2> QED
    BY <2>1, <2>2
<1>22. SortTypes'
  BY <1>1, <1>5, <1>9, <1>14, <1>17, <1>18 DEF LineInv, SortTypes, Channels
<1>23. Loops'
  <2>1. \/ at'[0] = "collect" /\ i'[0] \in Slaves
        \/ at'[0] = "end" /\ i'[0] = LastId + 1
    BY <1>2, <1>17, <1>18 DEF LineInv, Loops
  <2>2. ASSUME NEW p \in Slaves
        PROVE  /\ at'[p] \in Early \cup Ranked
               /\ at'[p] \in {"x", "z"} => i'[p] = 1
               /\ at'[p] = "y" => i'[p] \in Slaves
               /\ at'[p] = "o" => i'[p] \in 1..p - 1
               /\ at'[p] = "end" => i'[p] = p
    <3>1. CASE p # id
      <4>1. at'[p] = at[p] /\ i'[p] = i[p]
        BY <1>2, <1>17, <1>18, <3>1
      <4> QED
        BY <4>1 DEF LineInv, Loops
    <3>2. CASE p = id
      <4>1. i'[id] = i[id] + 1 /\ at'[id] = (IF i[id] + 1 = id THEN "end" ELSE "o")
        BY <1>2, <1>17, <1>18
      <4>2. i[id] + 1 # id => i[id] + 1 \in 1..id - 1
        BY <1>a
      <4> QED
        BY <1>19, <3>2, <4>1, <4>2
    <3> QED
      BY <3>1, <3>2
  <2> QED
    BY <1>5, <2>1, <2>2 DEF Loops
<1>24. SlaveValues'
  <2>1. ASSUME NEW p \in Slaves
        PROVE  /\ at'[p] # "x" => x[p] = numbers[p]
               /\ c[p] = 1 + Cardinality(Behinds(p, Seen(p)'))
    <3>1. Seen(p)' = Seen(p) /\ (at'[p] # "x" => at[p] # "x")
      BY <1>1, <1>2, <1>18, <1>20
    <3> QED
      BY <3>1 DEF LineInv, SlaveValues
  <2> QED
    BY <1>1, <1>5, <2>1 DEF SlaveValues
<1>25. Ordered'
  <2>1. ASSUME NEW p \in Slaves, NEW q \in 0..LastId, q = Onward(p)
        PROVE  Seen(p)' <= Seen(p - 1)' /\ Got(q)' <= Given(p)'
    <3>1. Seen(p) <= Seen(p - 1) /\ Got(q) <= Given(p) /\ q # p
      BY <2>1, <1>3, SlaveFacts DEF LineInv, Ordered
    <3>2. Given(p) \in Nat /\ Got(q) \in Nat /\ Given(p)' \in Nat /\ Given(p) <= Given(p)'
      <4>1. p \in 0..LastId /\ p \in Nat /\ Given(p) \in 0..p /\ Got(q) \in 0..p
        BY <2>1, LineFacts, SlaveFacts, <1>3
      <4> QED
        BY <1>21, <4>1
    <3>3. Got(q)' <= Given(p)'
      <4>1. CASE q # id
        BY <1>21, <3>1, <3>2, <4>1
      <4>2. CASE q = id
        <5>1. p = id - 1
          BY <1>2, <2>1, <4>2 DEF Onward
        <5> QED
          BY <1>2, <1>7, <1>21, <3>2, <4>2, <5>1
      <4> QED
        BY <4>1, <4>2
    <3> QED
      BY <1>2, <1>20, <3>1, <3>3
  <2> QED
    BY <1>2, <1>5, <2>1 DEF Ordered
<1>26. \A q \in Slaves : /\ at'[q] = "x" <=> at[q] = "x"
                         /\ at'[q] \in Ranked <=> at[q] \in Ranked
                         /\ at'[q] \in Early <=> at[q] \in Early
  BY <1>1, <1>2, <1>18, <1>19 DEF Ranked, Early
<1>27. Sources' /\ ChX' /\ ChZ'
  BY <1>1, <1>16, <1>26, KeptSources, KeptX, KeptZ
<1>28. ChY'
  BY <1>1, <1>16, <1>20, KeptY
<1>29. ChO'
  <2>1. OneChanged(sent, s1, id - 1, Onward(id - 1), "tag_o",
                   Piece(Out(id - 1), Got(Onward(id - 1)) + 1, Given(id - 1)))
    BY <1>4, <1>7, <1>12
  <2>2. Between(s1)
    BY <1>4, <1>21, <2>1, TakenBack
  <2>3. Given(id) < id /\ Given(id)' = Given(id) + 1
    BY <1>2, <1>4, <1>6, <1>21
  <2>4. \A q \in 0..LastId : q # id => Got(q)' = Got(q) /\ Given(q)' = Given(q)
    BY <1>21
  <2> QED
    BY <1>1, <1>15, <2>2, <2>3, <2>4, PassedBack
<1>30. Written'
  BY <1>1, <1>2, <1>5, <1>17 DEF LineInv, Written
<1> QED
  BY <1>22, <1>23, <1>24, <1>25, <1>27, <1>28, <1>29, <1>30 DEF LineInv

\* The loop counter of the master.
LEMMA CountingDown ==
  ASSUME NEW last \in Nat, NEW a \in 1..last
  PROVE  /\ a \in Nat /\ a + 1 \in Nat /\ (a + 1) - 1 = a /\ (a - 1) + 1 = a
         /\ last - a + 1 \in 1..last /\ last - (a - 1) = last - a + 1
         /\ IF a + 1 > last THEN a + 1 = last + 1 ELSE a + 1 \in 1..last
         /\ \A k \in 1..last : k > last + 1 - (a + 1) => k > last + 1 - a \/ k = last - a + 1
  OBVIOUS

\* The master writes the next number.
LEMMA CollectStep ==
  ASSUME LineInv, Collect
  PROVE  LineInv'
<1>1. /\ at[0] = "collect" /\ sent[<<LastId, 0, "tag_o">>] # <<>>
      /\ sorted' = [sorted EXCEPT ![LastId - i[0] + 1] = Message(LastId, 0, "tag_o")]
      /\ sent' = Taken(sent, LastId, 0, "tag_o")
      /\ i' = [i EXCEPT ![0] = @ + 1]
      /\ at' = [at EXCEPT ![0] = IF i'[0] > LastId THEN "end" ELSE "collect"]
      /\ UNCHANGED <<numbers, x, z, c>>
  BY DEF Collect, Waits
<1>2. /\ LastId \in Nat \ {0} /\ Slaves = 1..LastId /\ 0 \in 0..LastId /\ LastId \in 0..LastId
      /\ LastId \in Slaves /\ Onward(LastId) = 0
      /\ \A p \in 0..LastId : p # 0 => p \in Slaves
      /\ \A p \in Slaves : /\ p \in 0..LastId /\ p - 1 \in 0..LastId /\ Onward(p) \in 0..LastId
                           /\ p # 0 /\ p \in Nat
  BY SlaveFacts DEF LineInv
<1>3. /\ at \in [0..LastId -> Early \cup Ranked \cup {"collect"}] /\ i \in [0..LastId -> Nat]
      /\ sorted \in [Slaves -> Nat] /\ SortTypes /\ i[0] \in Slaves
  BY <1>1 DEF LineInv, SortTypes, Loops
<1>4. /\ LastId' = LastId /\ Slaves' = Slaves
      /\ \A p : Onward(p)' = Onward(p) /\ \A m : Behinds(p, m)' = Behinds(p, m)
      /\ \A p : InPlace(p)' = InPlace(p) /\ RankOf(p)' = RankOf(p)
  BY <1>1, Rigid
<1>a. LastId \in Nat /\ i[0] \in 1..LastId
  BY <1>2, <1>3
<1>b. /\ i[0] \in Nat /\ i[0] + 1 \in Nat /\ (i[0] + 1) - 1 = i[0] /\ (i[0] - 1) + 1 = i[0]
      /\ LastId - i[0] + 1 \in 1..LastId /\ LastId - (i[0] - 1) = LastId - i[0] + 1
      /\ IF i[0] + 1 > LastId THEN i[0] + 1 = LastId + 1 ELSE i[0] + 1 \in 1..LastId
      /\ \A k \in 1..LastId : k > LastId + 1 - (i[0] + 1)
                                => k > LastId + 1 - i[0] \/ k = LastId - i[0] + 1
  BY <1>a, CountingDown
<1>5. /\ i[0] \in Nat /\ i[0] + 1 \in Nat /\ (i[0] + 1) - 1 = i[0] /\ (i[0] - 1) + 1 = i[0]
      /\ LastId - i[0] + 1 \in Slaves /\ LastId - (i[0] - 1) = LastId - i[0] + 1
      /\ IF i[0] + 1 > LastId THEN i[0] + 1 = LastId + 1 ELSE i[0] + 1 \in Slaves
      /\ \A k \in Slaves : k > LastId + 1 - (i[0] + 1)
                               => k > LastId + 1 - i[0] \/ k = LastId - i[0] + 1
  BY <1>2, <1>b
<1>6. Got(0) = i[0] - 1 /\ Got(0) + 1 = i[0]
  BY <1>1, <1>5 DEF Got, Early
<1>7. /\ Got(0) \in Nat /\ Got(0) < Given(LastId) /\ Given(LastId) \in 0..LastId
      /\ Message(LastId, 0, "tag_o") = InPlace(LastId - i[0] + 1)
      /\ Tail(sent[<<LastId, 0, "tag_o">>]) = Piece(Out(LastId), Got(0) + 1, Given(LastId))
  <2>1. sent[<<LastId, Onward(LastId), "tag_o">>] # <<>>
    BY <1>1, <1>2
  <2>2. /\ Got(Onward(LastId)) \in Nat /\ Given(LastId) \in 0..LastId
        /\ Got(Onward(LastId)) < Given(LastId)
        /\ Message(LastId, Onward(LastId), "tag_o") = InPlace(LastId - Got(Onward(LastId)))
        /\ Tail(sent[<<LastId, Onward(LastId), "tag_o">>])
             = Piece(Out(LastId), Got(Onward(LastId)) + 1, Given(LastId))
    BY <1>2, <2>1, NextPlace
  <2> HIDE DEF LastId
  <2> QED
    BY <1>2, <1>5, <1>6, <2>2
<1>8. /\ "tag_x" \in Tags /\ "tag_y" \in Tags /\ "tag_z" \in Tags /\ "tag_o" \in Tags
      /\ "tag_x" # "tag_o" /\ "tag_y" # "tag_o" /\ "tag_z" # "tag_o"
  BY DEF Tags
<1>9. /\ sent' \in [Channels -> Seq(Nat)]
      /\ Changed(sent, sent', LastId, 0, "tag_o", Tail(sent[<<LastId, 0, "tag_o">>]))
  BY <1>1, <1>2, <1>3, <1>8, TakenIs
<1>10. /\ OneChanged(sent, sent', LastId, 0, "tag_o", Tail(sent[<<LastId, 0, "tag_o">>]))
       /\ NoneChanged(sent, sent', "tag_x") /\ NoneChanged(sent, sent', "tag_y")
       /\ NoneChanged(sent, sent', "tag_z")
  BY <1>8, <1>9, ChangedByTag
<1>11. /\ \A p \in 0..LastId : i'[p] = IF p = 0 THEN i[0] + 1 ELSE i[p]
       /\ i' \in [0..LastId -> Nat]
  BY <1>1, <1>2, <1>3, <1>5
<1>12. /\ \A p \in 0..LastId : at'[p] = IF p = 0 THEN IF i[0] + 1 > LastId THEN "end" ELSE "collect"
                                        ELSE at[p]
       /\ at' \in [0..LastId -> Early \cup Ranked \cup {"collect"}]
  <2>1. at' = [at EXCEPT ![0] = IF i[0] + 1 > LastId THEN "end" ELSE "collect"]
    BY <1>1, <1>2, <1>11
  <2>2. "end" \in Ranked
    BY DEF Ranked
  <2> QED
    BY <1>3, <2>1, <2>2
<1>13. \A k \in Slaves : sorted'[k] = IF k = LastId - i[0] + 1 THEN InPlace(k) ELSE sorted[k]
  BY <1>1, <1>3, <1>7
<1>14. sorted' \in [Slaves -> Nat]
  <2>1. InPlace(LastId - i[0] + 1) \in Nat
    BY <1>3, <1>5, PlaceFacts
  <2> QED
    BY <1>1, <1>3, <1>5, <1>7, <2>1
<1>15. \A p \in Slaves : at'[p] = at[p] /\ i'[p] = i[p]
  BY <1>2, <1>11, <1>12
<1>16. \A p \in 0..LastId : Seen(p)' = Seen(p)
  BY <1>2, <1>4, <1>15 DEF Seen
<1>17. /\ \A p \in 0..LastId : Got(p)' = IF p = 0 THEN Got(0) + 1 ELSE Got(p)
       /\ \A p \in Slaves : Given(p)' = Given(p)
  <2>1. \A p \in Slaves : Got(p)' = Got(p) /\ Given(p)' = Given(p)
    BY <1>15 DEF Got, Given
  <2>2. Got(0)' = Got(0) + 1
    <3>1. at'[0] \notin Early /\ i'[0] - 1 = i[0]
      BY <1>2, <1>5, <1>11, <1>12 DEF Early
    <3> QED
      BY <1>6, <3>1 DEF Got
  <2> QED
    BY <1>2, <2>1, <2>2
<1>18. SortTypes'
  BY <1>1, <1>4, <1>9, <1>11, <1>12, <1>14 DEF LineInv, SortTypes, Channels
<1>19. Loops'
  <2>1. \/ at'[0] = "collect" /\ i'[0] \in Slaves
        \/ at'[0] = "end" /\ i'[0] = LastId + 1
    <3>1. /\ at'[0] = (IF i[0] + 1 > LastId THEN "end" ELSE "collect") /\ i'[0] = i[0] + 1
      BY <1>2, <1>11, <1>12
    <3> QED
      BY <1>5, <3>1
  <2>2. \A p \in Slaves : /\ at'[p] \in Early \cup Ranked
                          /\ at'[p] \in {"x", "z"} => i'[p] = 1
                          /\ at'[p] = "y" => i'[p] \in Slaves
                          /\ at'[p] = "o" => i'[p] \in 1..p - 1
                          /\ at'[p] = "end" => i'[p] = p
    BY <1>15 DEF LineInv, Loops
  <2> QED
    BY <1>4, <2>1, <2>2 DEF Loops
<1>20. SlaveValues'
  BY <1>1, <1>2, <1>4, <1>15, <1>16 DEF LineInv, SlaveValues
<1>21. Ordered'
  <2>1. ASSUME NEW p \in Slaves, NEW q \in 0..LastId, q = Onward(p)
        PROVE  Seen(p)' <= Seen(p - 1)' /\ Got(q)' <= Given(p)'
    <3>1. Seen(p) <= Seen(p - 1) /\ Got(q) <= Given(p)
      BY <2>1 DEF LineInv, Ordered
    <3>2. CASE q # 0
      BY <1>2, <1>16, <1>17, <3>1, <3>2
    <3>3. CASE q = 0
      <4>1. p = LastId
        BY <1>2, <2>1, <3>3 DEF Onward
      <4> HIDE DEF LastId
      <4>2. Got(0) + 1 <= Given(LastId)
        BY <1>2, <1>7
      <4> QED
        BY <1>2, <1>16, <1>17, <3>1, <3>3, <4>1, <4>2
    <3> QED
      BY <3>2, <3>3
  <2> QED
    BY <1>2, <1>4, <2>1 DEF Ordered
<1>22. Sources' /\ ChX' /\ ChZ'
  BY <1>1, <1>10, <1>15, KeptSources, KeptX, KeptZ
<1>23. ChY'
  BY <1>1, <1>10, <1>16, KeptY
<1>24. ChO'
  <2>1. OneChanged(sent, sent', LastId, Onward(LastId), "tag_o",
                   Piece(Out(LastId), Got(Onward(LastId)) + 1, Given(LastId)))
    BY <1>2, <1>7, <1>10
  <2>2. \A q \in 0..LastId : Got(q)' = IF q = Onward(LastId) THEN Got(q) + 1 ELSE Got(q)
    BY <1>2, <1>17
  <2>3. \A s : OneChanged(sent, s, LastId, Onward(LastId), "tag_o",
                   Piece(Out(LastId), Got(Onward(LastId)) + 1, Given(LastId))) => Between(s)
    BY <1>2, <2>2, TakenBack
  <2>4. \A p : Out(p)' = Out(p)
    BY <1>1, Rigid
  <2>5. \A p \in 0..LastId : p # 0 => Given(p)' = Given(p)
    BY <1>2, <1>17
  <2>6. ASSUME NEW p \in 0..LastId, NEW q \in 0..LastId
        PROVE  sent'[<<p, q, "tag_o">>] =
                 IF p # 0 /\ q = Onward(p) THEN Piece(Out(p), Got(q)', Given(p)) ELSE <<>>
    BY <2>1, <2>3 DEF Between
  <2> QED
    BY <1>4, <2>4, <2>5, <2>6 DEF ChO
<1>25. Written'
  <2>1. ASSUME NEW k \in Slaves, k > LastId + 1 - i'[0] PROVE sorted'[k] = InPlace(k)
    <3>1. i'[0] = i[0] + 1
      BY <1>2, <1>11
    <3>2. k > LastId + 1 - i[0] \/ k = LastId - i[0] + 1
      BY <1>5, <2>1, <3>1
    <3> QED
      BY <1>13, <3>2 DEF LineInv, Written
  <2> QED
    BY <1>4, <2>1 DEF Written
<1> QED
  BY <1>18, <1>19, <1>20, <1>21, <1>22, <1>23, <1>24, <1>25 DEF LineInv

\* The master reads the file and sends the numbers.
LEMMA ReadFileStep ==
  ASSUME Inputs \subseteq Seq(Nat), numbers = <<>>, ReadFile
  PROVE  SortInvariant'
<1> SUFFICES ASSUME numbers' # <<>> PROVE LineInv'
  BY DEF SortInvariant
<1> DEFINE last == LastId'
<1>1. PICK file \in Inputs :
        /\ numbers' = file
        /\ sent' = [ch \in (0..Len(file)) \X (0..Len(file)) \X Tags |->
                     IF ch[1] = 0 /\ ch[3] = "tag_x" /\ ch[2] # 0 THEN <<file[ch[2]]>>
                     ELSE IF ch = <<0, 1, "tag_y">> THEN file ELSE <<>>]
        /\ at' = [p \in 0..Len(file) |-> IF p = 0 THEN "collect" ELSE "x"]
        /\ i' = [p \in 0..Len(file) |-> 1] /\ c' = [p \in 1..Len(file) |-> 1]
        /\ x' = [p \in 1..Len(file) |-> 0] /\ z' = [p \in 1..Len(file) |-> 0]
        /\ sorted' = [k \in 1..Len(file) |-> 0]
  BY DEF ReadFile
<1>2. numbers' \in Seq(Nat) /\ numbers' = file /\ last = Len(file) /\ Slaves' = 1..last
  BY <1>1 DEF LastId, Slaves
<1>3. last \in Nat \ {0}
  BY <1>2, EmptySeq, LenProperties
<1>4. /\ sent' = [ch \in (0..last) \X (0..last) \X Tags |->
                   IF ch[1] = 0 /\ ch[3] = "tag_x" /\ ch[2] # 0 THEN <<numbers'[ch[2]]>>
                   ELSE IF ch = <<0, 1, "tag_y">> THEN numbers' ELSE <<>>]
      /\ at' = [p \in 0..last |-> IF p = 0 THEN "collect" ELSE "x"]
      /\ i' = [p \in 0..last |-> 1] /\ c' = [p \in 1..last |-> 1]
      /\ x' = [p \in 1..last |-> 0] /\ z' = [p \in 1..last |-> 0]
      /\ sorted' = [k \in 1..last |-> 0]
  BY <1>1, <1>2
<1>5. \A k \in 1..last : numbers'[k] \in Nat
  BY <1>2
<1> HIDE DEF last
<1>6. \A p, q \in 0..last : \A t \in Tags :
        sent'[<<p, q, t>>] = IF p = 0 /\ t = "tag_x" /\ q # 0 THEN <<numbers'[q]>>
                             ELSE IF p = 0 /\ q = 1 /\ t = "tag_y" THEN numbers' ELSE <<>>
  BY <1>4
<1>7. /\ \A p \in 0..last : at'[p] = (IF p = 0 THEN "collect" ELSE "x") /\ i'[p] = 1
      /\ \A p \in 1..last : p \in 0..last /\ p # 0 /\ p - 1 \in 0..last
      /\ \A p \in 0..last : p # 0 => p \in 1..last
      /\ 0 \in 0..last
  BY <1>3, <1>4
<1>8. /\ \A p \in 0..last : Seen(p)' = IF p = 0 THEN last ELSE 0
      /\ \A p \in 0..last : Got(p)' = 0
      /\ \A p \in 1..last : Given(p)' = 0
  BY <1>7 DEF Seen, Got, Given, Early, Ranked, last
<1>9. "tag_x" \in Tags /\ "tag_y" \in Tags /\ "tag_z" \in Tags /\ "tag_o" \in Tags
  BY DEF Tags
<1>a. \A p, q \in 0..last :
        /\ sent'[<<p, q, "tag_x">>] = IF p = 0 /\ q # 0 THEN <<numbers'[q]>> ELSE <<>>
        /\ sent'[<<p, q, "tag_y">>] = IF p = 0 /\ q = 1 THEN numbers' ELSE <<>>
        /\ sent'[<<p, q, "tag_z">>] = <<>> /\ sent'[<<p, q, "tag_o">>] = <<>>
  <2> SUFFICES ASSUME NEW p \in 0..last, NEW q \in 0..last
               PROVE  /\ sent'[<<p, q, "tag_x">>] = IF p = 0 /\ q # 0 THEN <<numbers'[q]>> ELSE <<>>
                      /\ sent'[<<p, q, "tag_y">>] = IF p = 0 /\ q = 1 THEN numbers' ELSE <<>>
                      /\ sent'[<<p, q, "tag_z">>] = <<>> /\ sent'[<<p, q, "tag_o">>] = <<>>
    OBVIOUS
  <2>1. \A t \in Tags :
          sent'[<<p, q, t>>] = IF p = 0 /\ t = "tag_x" /\ q # 0 THEN <<numbers'[q]>>
                               ELSE IF p = 0 /\ q = 1 /\ t = "tag_y" THEN numbers' ELSE <<>>
    BY <1>6
  <2>2. sent'[<<p, q, "tag_x">>] = IF p = 0 /\ q # 0 THEN <<numbers'[q]>> ELSE <<>>
    BY <1>9, <2>1
  <2>3. sent'[<<p, q, "tag_y">>] = IF p = 0 /\ q = 1 THEN numbers' ELSE <<>>
    BY <1>9, <2>1
  <2>4. sent'[<<p, q, "tag_z">>] = <<>>
    BY <1>9, <2>1
  <2>5. sent'[<<p, q, "tag_o">>] = <<>>
    BY <1>9, <2>1
  <2> QED
    BY <2>2, <2>3, <2>4, <2>5
<1>10. \A f : Piece(f, 0, 0) = <<>>
  BY PieceIs
<1>11. Piece(numbers', 0, last) = numbers'
  <2>1. \A j \in 0 + 1..last : numbers'[j] \in Nat
    BY <1>3, <1>5
  <2>2. Piece(numbers', 0, last) \in Seq(Nat) /\ Len(Piece(numbers', 0, last)) = last
    BY <1>3, <2>1, PieceIs
  <2>3. ASSUME NEW j \in 1..last PROVE Piece(numbers', 0, last)[j] = numbers'[j]
    BY <1>3 DEF Piece
  <2>4. last = Len(numbers')
    BY <1>2
  <2> QED
    BY <1>2, <2>2, <2>3, <2>4, SeqEqual
<1>12. SortTypes'
  <2>1. sent' \in [(0..last) \X (0..last) \X Tags -> Seq(Nat)]
    <3>1. ASSUME NEW ch \in (0..last) \X (0..last) \X Tags PROVE sent'[ch] \in Seq(Nat)
      <4>1. PICK p \in 0..last, q \in 0..last, t \in Tags : ch = <<p, q, t>>
        OBVIOUS
      <4>2. sent'[ch] = IF p = 0 /\ t = "tag_x" /\ q # 0 THEN <<numbers'[q]>>
                        ELSE IF p = 0 /\ q = 1 /\ t = "tag_y" THEN numbers' ELSE <<>>
        BY <1>6, <4>1
      <4>3. q # 0 => <<numbers'[q]>> \in Seq(Nat)
        <5>1. q # 0 => numbers'[q] \in Nat
          BY <1>5, <1>7
        <5> QED
          BY <5>1
      <4>4. <<>> \in Seq(Nat)
        OBVIOUS
      <4> QED
        BY <1>2, <4>2, <4>3, <4>4
    <3> QED
      BY <1>4, <3>1
  <2>2. /\ at' \in [0..last -> Early \cup Ranked \cup {"collect"}] /\ i' \in [0..last -> Nat]
        /\ x' \in [1..last -> Nat] /\ z' \in [1..last -> Nat] /\ c' \in [1..last -> Nat]
        /\ sorted' \in [1..last -> Nat]
    BY <1>4 DEF Early
  <2> QED
    BY <1>2, <1>3, <2>1, <2>2 DEF SortTypes, last
<1>13. Loops'
  <2>1. 1 \in Slaves'
    BY <1>2, <1>3
  <2>2. at'[0] = "collect" /\ i'[0] \in Slaves'
    BY <1>7, <2>1
  <2>3. \A p \in Slaves' : at'[p] = "x" /\ i'[p] = 1
    BY <1>2, <1>7
  <2> QED
    BY <2>2, <2>3 DEF Loops, Early
<1>14. SlaveValues'
  <2>1. ASSUME NEW p \in 1..last PROVE Behinds(p, Seen(p))' = {}
    <3>1. Seen(p)' = 0
      BY <1>7, <1>8
    <3>2. Behinds(p, Seen(p))' = {k \in 1..Seen(p)' : Comes(k, p)'}
      BY DEF Behinds
    <3> QED
      BY <3>1, <3>2
  <2>2. Cardinality({}) = 0
    BY FS_EmptySet
  <2>3. \A p \in 1..last : c'[p] = 1 /\ at'[p] = "x"
    BY <1>4, <1>7
  <2>4. ASSUME NEW p \in 1..last
        PROVE  (c[p] = 1 + Cardinality(Behinds(p, Seen(p))))'
    <3>1. Behinds(p, Seen(p))' = {} /\ c'[p] = 1 /\ 1 = 1 + 0
      BY <2>1, <2>3
    <3> QED
      BY <2>2, <3>1
  <2> QED
    BY <1>2, <2>3, <2>4 DEF SlaveValues
<1>15. Ordered'
  <2>1. ASSUME NEW p \in 1..last
        PROVE  Seen(p)' <= Seen(p - 1)' /\ Got(Onward(p))' <= Given(p)'
    <3>1. Onward(p)' \in 0..last
      BY <1>3 DEF Onward, last
    <3>2. Got(Onward(p))' = 0
      BY <1>8, <3>1 DEF Got
    <3> QED
      BY <1>3, <1>7, <1>8, <3>2
  <2> QED
    BY <1>2, <2>1 DEF Ordered
<1>16. Sources'
  BY <1>2, <1>7 DEF Sources, Early
<1>17. ChX'
  <2>1. ASSUME NEW p \in 0..last, NEW q \in 0..last
        PROVE  sent'[<<p, q, "tag_x">>] =
                 IF p = 0 /\ q # 0 /\ at'[q] = "x" THEN <<numbers'[q]>> ELSE <<>>
    BY <1>7, <1>a
  <2> QED
    BY <2>1 DEF ChX, last
<1>18. ChY'
  <2>1. ASSUME NEW p \in 0..last, NEW q \in 0..last
        PROVE  sent'[<<p, q, "tag_y">>] =
                 IF q = p + 1 THEN Piece(numbers', Seen(q)', Seen(p)') ELSE <<>>
    <3>1. sent'[<<p, q, "tag_y">>] = IF p = 0 /\ q = 1 THEN numbers' ELSE <<>>
      BY <1>a
    <3>2. CASE p = 0 /\ q = 1
      BY <1>8, <1>11, <3>1, <3>2
    <3>3. CASE q = p + 1 /\ p # 0
      BY <1>8, <1>10, <3>1, <3>3
    <3> QED
      BY <3>1, <3>2, <3>3
  <2> QED
    BY <2>1 DEF ChY, last
<1>19. ChZ'
  <2>1. ASSUME NEW p \in 0..last, NEW q \in 0..last
        PROVE  sent'[<<p, q, "tag_z">>] = <<>> /\ (p # 0 => at'[p] \notin Ranked)
    BY <1>7, <1>a DEF Ranked
  <2> QED
    BY <2>1 DEF ChZ, last
<1>20. ChO'
  <2>1. ASSUME NEW p \in 0..last, NEW q \in 0..last
        PROVE  /\ sent'[<<p, q, "tag_o">>] = <<>>
               /\ p # 0 => Piece(Out(p)', Got(q)', Given(p)') = <<>>
    <3>1. p # 0 => Got(q)' = 0 /\ Given(p)' = 0
      BY <1>7, <1>8
    <3> QED
      BY <1>10, <1>a, <3>1
  <2> QED
    BY <2>1 DEF ChO, last
<1>21. Written'
  <2>1. \A k \in 1..last : ~(k > last + 1 - i'[0])
    BY <1>3, <1>7
  <2> QED
    BY <1>2, <2>1 DEF Written, last
<1> QED
  BY <1>12, <1>13, <1>14, <1>15, <1>16, <1>17, <1>18, <1>19, <1>20, <1>21 DEF LineInv

\* Nothing changes.
LEMMA LineStutters ==
  ASSUME LineInv, UNCHANGED sortVars
  PROVE  LineInv'
<1>1. UNCHANGED <<numbers, sent, at, i, x, z, c, sorted>>
  BY DEF sortVars
<1>2. /\ LastId' = LastId /\ Slaves' = Slaves
      /\ \A p : Onward(p)' = Onward(p) /\ \A m : Behinds(p, m)' = Behinds(p, m)
      /\ \A p : InPlace(p)' = InPlace(p) /\ RankOf(p)' = RankOf(p)
  BY <1>1, Rigid
<1>3. \A p : Seen(p)' = Seen(p) /\ Given(p)' = Given(p) /\ Got(p)' = Got(p)
  BY <1>1, <1>2 DEF Seen, Given, Got
<1>4. SortTypes' /\ Loops' /\ Written'
  BY <1>1, <1>2 DEF LineInv, SortTypes, Loops, Written
<1>5. SlaveValues'
  BY <1>1, <1>2, <1>3 DEF LineInv, SlaveValues
<1>6. Ordered'
  BY <1>2, <1>3 DEF LineInv, Ordered
<1>7. \A t : NoneChanged(sent, sent', t)
  BY <1>1 DEF NoneChanged
<1>8. Sources' /\ ChX' /\ ChY' /\ ChZ' /\ ChO'
  BY <1>1, <1>3, <1>7, KeptSources, KeptX, KeptY, KeptZ, KeptO
<1> QED
  BY <1>4, <1>5, <1>6, <1>8 DEF LineInv

\* Every step keeps the invariant.
LEMMA SortStep ==
  ASSUME Inputs \subseteq Seq(Nat), SortInvariant, [SortNext]_sortVars
  PROVE  SortInvariant'
<1>1. CASE numbers = <<>>
  <2>1. CASE ReadFile
    BY <1>1, <2>1, ReadFileStep
  <2>2. CASE UNCHANGED sortVars
    BY <1>1, <2>2 DEF SortInvariant, sortVars
  <2> QED
    BY <1>1, <2>1, <2>2 DEF SortNext, Sorted
<1>2. CASE numbers # <<>>
  <2>1. LineInv
    BY <1>2 DEF SortInvariant
  <2>2. CASE Collect
    BY <2>1, <2>2, CollectStep DEF SortInvariant
  <2>3. ASSUME NEW id \in Slaves, RecvX(id) \/ RecvY(id) \/ RecvZ(id) \/ RecvO(id)
        PROVE  SortInvariant'
    BY <2>1, <2>3, RecvXStep, RecvYStep, RecvZStep, RecvOStep DEF SortInvariant
  <2>4. CASE UNCHANGED sortVars
    BY <2>1, <2>4, LineStutters DEF SortInvariant
  <2>5. ~ReadFile
    BY <1>2 DEF ReadFile
  <2> QED
    BY <2>2, <2>3, <2>4, <2>5 DEF SortNext
<1> QED
  BY <1>1, <1>2

\* When all are done, the last number has its place and every channel is empty.
LEMMA SortedAtTheEnd ==
  ASSUME SortInvariant
  PROVE  SortsNumbers
<1> SUFFICES ASSUME Sorted
             PROVE  /\ DOMAIN sorted = Slaves
                    /\ \A j, k \in Slaves : j < k => sorted[j] <= sorted[k]
                    /\ \E p \in [Slaves -> Slaves] :
                         IsPermutation(p) /\ \A id \in Slaves : sorted[p[id]] = numbers[id]
                    /\ \A ch \in DOMAIN sent : sent[ch] = <<>>
  BY DEF SortsNumbers
<1>1. LineInv
  BY DEF SortInvariant, Sorted
<1>2. /\ LastId \in Nat \ {0} /\ Slaves = 1..LastId /\ 0 \in 0..LastId
      /\ \A p \in 0..LastId : p # 0 => p \in Slaves
      /\ \A p \in Slaves : /\ p \in Nat /\ p # 0 /\ p \in 0..LastId /\ Onward(p) \in 0..LastId
                           /\ p # LastId => Onward(p) = p + 1 /\ p + 1 \in Slaves
                           /\ p = LastId => Onward(p) = 0
  BY <1>1, SlaveFacts DEF LineInv
<1>3. /\ \A p \in 0..LastId : at[p] = "end"
      /\ i[0] = LastId + 1 /\ \A p \in Slaves : i[p] = p
  <2>1. \A p \in 0..LastId : at[p] = "end"
    BY <1>1 DEF Sorted, LineInv, SortTypes
  <2> QED
    BY <1>1, <1>2, <2>1 DEF LineInv, Loops
<1>4. DOMAIN sorted = Slaves /\ \A k \in Slaves : sorted[k] = InPlace(k)
  <2>1. \A k \in Slaves : k > LastId + 1 - i[0]
    BY <1>2, <1>3
  <2> QED
    BY <1>1, <2>1 DEF LineInv, SortTypes, Written
<1>5. /\ \A id \in Slaves : RankOf(id) \in Slaves /\ InPlace(RankOf(id)) = numbers[id]
      /\ \A a, b \in Slaves : RankOf(a) = RankOf(b) => a = b
      /\ \A k \in Slaves : Owner(k) \in Slaves /\ RankOf(Owner(k)) = k
      /\ \A a, b \in Slaves : RankOf(a) < RankOf(b) => numbers[a] <= numbers[b]
  <2>1. numbers \in Seq(Nat)
    BY <1>1 DEF LineInv, SortTypes
  <2>2. /\ \A k \in Slaves : \E id \in Slaves : RankOf(id) = k
        /\ \A a, b \in Slaves : RankOf(a) < RankOf(b) => numbers[a] <= numbers[b]
    BY <2>1, RanksSort
  <2> QED
    BY <1>1, <2>2, PlaceFacts DEF LineInv, Owner
<1>6. \A j, k \in Slaves : j < k => sorted[j] <= sorted[k]
  BY <1>4, <1>5 DEF InPlace
<1>7. \E p \in [Slaves -> Slaves] :
        IsPermutation(p) /\ \A id \in Slaves : sorted[p[id]] = numbers[id]
  <2> DEFINE f == [id \in Slaves |-> RankOf(id)]
  <2>1. f \in [Slaves -> Slaves] /\ \A id \in Slaves : f[id] = RankOf(id)
    BY <1>5
  <2> HIDE DEF f
  <2>2. IsPermutation(f) /\ \A id \in Slaves : sorted[f[id]] = numbers[id]
    BY <1>4, <1>5, <2>1 DEF IsPermutation
  <2> QED
    BY <2>1, <2>2
<1>8. ASSUME NEW p \in 0..LastId, NEW q \in 0..LastId, NEW t \in Tags
      PROVE  sent[<<p, q, t>>] = <<>>
  <2>1. CASE t = "tag_x"
    BY <1>1, <1>3, <2>1 DEF LineInv, ChX
  <2>2. CASE t = "tag_y"
    <3>1. Seen(p) = LastId /\ Seen(q) = LastId
      BY <1>3 DEF Seen, Ranked
    <3>2. Piece(numbers, LastId, LastId) = <<>>
      <4>1. LastId \in Nat /\ \A j \in LastId + 1..LastId : numbers[j] \in Nat
        BY <1>2
      <4> HIDE DEF LastId
      <4> QED
        BY <4>1, PieceIs
    <3> QED
      BY <1>1, <2>2, <3>1, <3>2 DEF LineInv, ChY
  <2>3. CASE t = "tag_z"
    <3>1. at[q] \notin Early
      BY <1>3 DEF Early
    <3> QED
      BY <1>1, <2>3, <3>1 DEF LineInv, ChZ
  <2>4. CASE t = "tag_o"
    <3>1. CASE p # 0 /\ q = Onward(p)
      <4>1. Given(p) = p
        BY <1>2, <1>3, <3>1 DEF Given, Early
      <4>2. Got(q) = p
        <5>1. Got(q) = i[q] - 1
          BY <1>3 DEF Got, Early
        <5>2. i[q] = p + 1
          BY <1>2, <1>3, <3>1
        <5> QED
          BY <1>2, <5>1, <5>2
      <4>3. Piece(Out(p), p, p) = <<>>
        <5>1. p \in Nat /\ \A j \in p + 1..p : Out(p)[j] \in Nat
          BY <1>2
        <5> QED
          BY <5>1, PieceIs
      <4> QED
        BY <1>1, <2>4, <3>1, <4>1, <4>2, <4>3 DEF LineInv, ChO
    <3>2. CASE ~(p # 0 /\ q = Onward(p))
      BY <1>1, <2>4, <3>2 DEF LineInv, ChO
    <3> QED
      BY <3>1, <3>2
  <2> QED
    BY <2>1, <2>2, <2>3, <2>4 DEF Tags
<1>9. \A ch \in DOMAIN sent : sent[ch] = <<>>
  <2>1. DOMAIN sent = (0..LastId) \X (0..LastId) \X Tags
    BY <1>1 DEF LineInv, SortTypes
  <2> QED
    BY <1>8, <2>1
<1> QED
  BY <1>4, <1>6, <1>7, <1>9

-----------------------------------------------------------------------------
\* es.cpp: for any number of processes and any file what the master writes are the numbers
\* of the file, each at a place of its own, in ascending order, equal numbers too, however
\* the messages of different processes overtake each other; and nothing is left unread.
THEOREM EnumerationSortSorts ==
  ASSUME Inputs \subseteq Seq(Nat)
  PROVE  SortSpec => []SortsNumbers
<1>1. SortInit => SortInvariant
  BY DEF SortInit, SortInvariant
<1>2. SortInvariant /\ [SortNext]_sortVars => SortInvariant'
  BY SortStep
<1>3. SortInvariant => SortsNumbers
  BY SortedAtTheEnd
<1> QED
  BY <1>1, <1>2, <1>3, PTL DEF SortSpec

-----------------------------------------------------------------------------
(* Sums, and induction over the numbers up to a last one.                   *)

LEMMA Least ==
  ASSUME NEW T \in SUBSET Nat, T # {}
  PROVE  \E k \in T : \A m \in T : k <= m
<1> DEFINE R == OpToRel(<, Nat)
<1>1. IsWellFoundedOn(R, Nat)
  BY NatLessThanWellFounded
<1>2. \A k, m \in Nat : <<m, k>> \in R <=> m < k
  BY DEF OpToRel
<1> HIDE DEF R
<1>3. PICK k \in T : \A m \in T : ~ (<<m, k>> \in R)
  BY <1>1, WFMin
<1>4. ASSUME NEW m \in T PROVE k <= m
  <2>1. k \in Nat /\ m \in Nat
    OBVIOUS
  <2>2. ~(m < k)
    BY <1>2, <1>3, <2>1, Zenon
  <2> QED
    BY <2>1, <2>2
<1> QED
  BY <1>4

\* A set of numbers with zero, and with each number the next one up to a last, is all.
LEMMA Induction ==
  ASSUME NEW m \in Nat, NEW S, 0 \in S, \A t \in 0..m - 1 : t \in S => t + 1 \in S
  PROVE  0..m \subseteq S
<1> DEFINE T == (0..m) \ S
<1>1. SUFFICES ASSUME T # {} PROVE FALSE
  OBVIOUS
<1>2. T \in SUBSET Nat
  OBVIOUS
<1>3. PICK k \in T : \A j \in T : k <= j
  <2> HIDE DEF T
  <2> QED
    BY <1>1, <1>2, Least
<1>4. k - 1 \in 0..m - 1 /\ k - 1 \notin T
  BY <1>3
<1> QED
  BY <1>3, <1>4

\* A sum as a recursive function exists and is what it says.
SumOf(f, d, m) == f = [t \in 0..m |-> IF t = 0 THEN 0 ELSE f[t - 1] + d[t]]

LEMMA SumExists ==
  ASSUME NEW m \in Nat, NEW d
  PROVE  \E f : SumOf(f, d, m)
<1> DEFINE S == {k \in Nat : \E f : SumOf(f, d, k)}
<1>1. 0 \in S
  <2>1. SumOf([t \in 0..0 |-> 0], d, 0)
    BY DEF SumOf
  <2> QED
    BY <2>1
<1>2. ASSUME NEW k \in 0..m - 1, k \in S PROVE k + 1 \in S
  <2>1. PICK f : SumOf(f, d, k)
    BY <1>2
  <2> DEFINE g == [t \in 0..k + 1 |-> IF t = k + 1 THEN f[k] + d[k + 1] ELSE f[t]]
  <2>2. ASSUME NEW t \in 0..k + 1
        PROVE  g[t] = IF t = 0 THEN 0 ELSE g[t - 1] + d[t]
    <3>1. CASE t = k + 1
      <4>1. t # 0 /\ t - 1 = k /\ t - 1 \in 0..k + 1 /\ t - 1 # k + 1
        BY <3>1
      <4> QED
        BY <3>1, <4>1
    <3>2. CASE t # k + 1
      <4>1. t \in 0..k /\ g[t] = f[t] /\ f[t] = IF t = 0 THEN 0 ELSE f[t - 1] + d[t]
        BY <2>1, <3>2 DEF SumOf
      <4>2. t # 0 => t - 1 \in 0..k + 1 /\ t - 1 # k + 1
        BY <3>2
      <4> QED
        BY <4>1, <4>2
    <3> QED
      BY <3>1, <3>2
  <2>3. SumOf(g, d, k + 1)
    <3>1. g = [t \in 0..k + 1 |-> g[t]]
      OBVIOUS
    <3> HIDE DEF g
    <3>2. [t \in 0..k + 1 |-> g[t]] = [t \in 0..k + 1 |-> IF t = 0 THEN 0 ELSE g[t - 1] + d[t]]
      BY <2>2
    <3> QED
      BY <3>1, <3>2 DEF SumOf
  <2> QED
    BY <2>3
<1> HIDE DEF S
<1>3. m \in S
  BY <1>1, <1>2, Induction
<1> QED
  BY <1>3 DEF S

LEMMA SumsAre ==
  ASSUME NEW r, NEW s, n \in Nat
  PROVE  Sums(r, s) = [t \in 0..n |-> IF t = 0 THEN 0
                                      ELSE Sums(r, s)[t - 1] + job.mat1[r * n + t]
                                                         * job.mat2[(t - 1) * cols + s + 1]]
<1> DEFINE d == [t \in 1..n |-> job.mat1[r * n + t] * job.mat2[(t - 1) * cols + s + 1]]
           F(f) == f = [t \in 0..n |-> IF t = 0 THEN 0
                                      ELSE f[t - 1] + job.mat1[r * n + t]
                                                         * job.mat2[(t - 1) * cols + s + 1]]
<1>1. Sums(r, s) = CHOOSE f : F(f)
  BY DEF Sums
<1>2. PICK f : SumOf(f, d, n)
  <2> HIDE DEF d
  <2> QED
    BY SumExists
<1>3. \A t \in 0..n : t # 0 => d[t] = job.mat1[r * n + t] * job.mat2[(t - 1) * cols + s + 1]
  OBVIOUS
<1>4. F(f)
  BY <1>2, <1>3 DEF SumOf
<1> HIDE DEF F
<1>5. F(Sums(r, s))
  BY <1>1, <1>4
<1> QED
  BY <1>5 DEF F

-----------------------------------------------------------------------------
(* The invariant of the mesh.                                               *)

\* What the files hold.
JobsAssumption ==
  Jobs \subseteq [rows : Int, cols : Int, mat1 : Seq(Int), mat2 : Seq(Int)]

\* The values that pass through a process: those of a row of the one matrix, with tag_a
\* from the left, and of a column of the other, with tag_b from above.
Ways == {"tag_a", "tag_b"}
Line(tag, p) == IF tag = "tag_a" THEN [t \in 1..n |-> job.mat1[(p \div cols) * n + t]]
                ELSE [t \in 1..n |-> job.mat2[(t - 1) * cols + (p % cols) + 1]]
Prev(tag, p) == IF tag = "tag_a" THEN p - 1 ELSE p - cols
Border(tag, p) == IF tag = "tag_a" THEN leftBorder(p) ELSE topBorder(p)
Own(tag, p) == IF tag = "tag_a" THEN vecA[p] ELSE vecB[p]
MeshChannels == Processes \X Processes \X {"tag_a", "tag_b", "tag_c"}

Sizes == /\ job \in Jobs /\ Valid(job) /\ rows = job.rows /\ cols = job.cols
         /\ n = Len(job.mat1) \div rows

MeshTypes ==
  /\ under \in [MeshChannels -> Seq(Int)]
  /\ phase \in [Processes -> {"values", "loop", "end"}] /\ round \in [Processes -> 0..n]
  /\ vecA \in [Processes -> Seq(Int)] /\ vecB \in [Processes -> Seq(Int)]
  /\ cell \in [Processes -> Int] /\ result \in Seq(Int) /\ gathered \in {"no", "yes"}

Rounds == \A p \in Processes : /\ phase[p] = "values" => round[p] = 0
                               /\ phase[p] = "end" => round[p] = n
                               /\ cell[p] = Sums(p \div cols, p % cols)[round[p]]

\* At the border of the mesh, the values that are left.
Rest(tag, p) == Own(tag, p) = IF Border(tag, p) /\ phase[p] # "values"
                              THEN Piece(Line(tag, p), round[p], n) ELSE <<>>
Owned == \A tag \in Ways, p \in Processes : Rest(tag, p)

\* Under way to a process are the values that its neighbour has had and it has not; those
\* from process 0 wait for a process at the border.
Flow(tag, q, p) ==
  /\ ~Border(tag, p) /\ q = Prev(tag, p) => round[p] <= round[q]
  /\ under[<<q, p, tag>>] =
       IF Border(tag, p)
       THEN IF q = 0 /\ phase[p] = "values" THEN Piece(Line(tag, p), 0, n) ELSE <<>>
       ELSE IF q = Prev(tag, p) THEN Piece(Line(tag, p), round[p], round[q]) ELSE <<>>
Flows == \A tag \in Ways, q, p \in Processes : Flow(tag, q, p)

Answers == \A q, p \in Processes :
  under[<<q, p, "tag_c">>] =
    IF p = 0 /\ phase[q] = "end" /\ Len(result) <= q THEN <<cell[q]>> ELSE <<>>

Gathered == /\ Len(result) <= rows * cols /\ (gathered = "yes" <=> Len(result) = rows * cols)
            /\ \A k \in 1..Len(result) : phase[k - 1] = "end" /\ result[k] = cell[k - 1]

MeshInv == /\ Sizes /\ MeshTypes /\ Rounds /\ Owned /\ Flows /\ Answers /\ Gathered
MeshInvariant == gathered \in {"no", "yes"} => MeshInv

-----------------------------------------------------------------------------
LEMMA Quotient ==
  ASSUME NEW a \in Nat, NEW m \in Nat \ {0}
  PROVE  /\ a \div m \in Nat /\ a % m \in 0..m - 1 /\ a = m * (a \div m) + (a % m)
  OBVIOUS

\* The quotient and the remainder are the only ones.
LEMMA QuotientIs ==
  ASSUME NEW m \in Nat \ {0}, NEW q \in Int, NEW r \in 0..m - 1, NEW a \in Nat, a = m * q + r
  PROVE  a \div m = q /\ a % m = r
<1> DEFINE u == a \div m
           v == a % m
<1>1. u \in Nat /\ v \in 0..m - 1 /\ a = m * u + v
  BY Quotient
<1> HIDE DEF u, v
<1>2. CASE u < q
  <2>1. m * (u + 1) <= m * q
    BY <1>1, <1>2
  <2>2. m * (u + 1) = m * u + m
    BY <1>1
  <2> QED
    BY <1>1, <2>1, <2>2
<1>3. CASE q < u
  <2>1. m * (q + 1) <= m * u
    BY <1>1, <1>3
  <2>2. m * (q + 1) = m * q + m
    BY <1>1
  <2> QED
    BY <1>1, <2>1, <2>2
<1>4. CASE q = u
  BY <1>1, <1>4
<1>5. q = u /\ v = r
  BY <1>1, <1>2, <1>3, <1>4
<1> QED
  BY <1>5 DEF u, v

\* A step to the left stays in the row, and a step up in the column.
LEMMA StepLeft ==
  ASSUME NEW m \in Nat \ {0}, NEW p \in Nat, p % m # 0
  PROVE  p - 1 \in Nat /\ (p - 1) \div m = p \div m
<1> DEFINE q == p \div m
           r == p % m
<1>1. q \in Nat /\ r \in 0..m - 1 /\ p = m * q + r /\ r # 0
  BY Quotient
<1> HIDE DEF q, r
<1>2. p - 1 \in Nat /\ r - 1 \in 0..m - 1 /\ p - 1 = m * q + (r - 1)
  BY <1>1
<1>3. (p - 1) \div m = q
  BY <1>1, <1>2, QuotientIs
<1> QED
  BY <1>2, <1>3 DEF q

LEMMA StepUp ==
  ASSUME NEW m \in Nat \ {0}, NEW p \in Nat, m <= p
  PROVE  p - m \in Nat /\ (p - m) % m = p % m
<1> DEFINE q == p \div m
           r == p % m
<1>1. q \in Nat /\ r \in 0..m - 1 /\ p = m * q + r
  BY Quotient
<1> HIDE DEF q, r
<1>2. p - m \in Nat /\ p - m = m * (q - 1) + r /\ q - 1 \in Int
  BY <1>1
<1>3. (p - m) % m = r
  BY <1>1, <1>2, QuotientIs
<1> QED
  BY <1>2, <1>3 DEF r

LEMMA SizeFacts ==
  ASSUME JobsAssumption, Sizes
  PROVE  /\ rows \in Nat \ {0} /\ cols \in Nat \ {0} /\ n \in Nat
         /\ job.mat1 \in Seq(Int) /\ job.mat2 \in Seq(Int)
         /\ n * rows <= Len(job.mat1) /\ n * cols <= Len(job.mat2)
         /\ rows * cols \in Nat \ {0}
<1>1. /\ rows \in Nat \ {0} /\ cols \in Nat \ {0}
      /\ job.mat1 \in Seq(Int) /\ job.mat2 \in Seq(Int)
  BY DEF JobsAssumption, Sizes, Valid
<1>2. Len(job.mat1) \in Nat /\ Len(job.mat2) \in Nat
  BY <1>1
<1>3. n = Len(job.mat1) \div rows /\ n = Len(job.mat2) \div cols
  BY <1>1 DEF Sizes, Valid
<1> DEFINE L == Len(job.mat1)
           M == Len(job.mat2)
<1> HIDE DEF L, M
<1>4. n \in Nat /\ rows * n <= L
  <2>1. L \in Nat /\ n = L \div rows
    BY <1>2, <1>3 DEF L
  <2>2. n \in Nat /\ L % rows \in 0..rows - 1 /\ L = rows * n + (L % rows)
    BY <1>1, <2>1, Quotient
  <2>3. rows * n \in Int /\ L % rows \in Nat
    BY <1>1, <2>2
  <2> QED
    BY <2>1, <2>2, <2>3
<1>5. cols * n <= M
  <2>1. M \in Nat /\ n = M \div cols
    BY <1>2, <1>3 DEF M
  <2>2. n \in Nat /\ M % cols \in 0..cols - 1 /\ M = cols * n + (M % cols)
    BY <1>1, <2>1, Quotient
  <2>3. cols * n \in Int /\ M % cols \in Nat
    BY <1>1, <2>2
  <2> QED
    BY <2>1, <2>2, <2>3
<1>6. n * rows = rows * n /\ n * cols = cols * n /\ rows * cols \in Nat \ {0}
  BY <1>1, <1>4
<1> QED
  BY <1>1, <1>4, <1>5, <1>6 DEF L, M

LEMMA RowColumn ==
  ASSUME NEW r \in Nat \ {0}, NEW m \in Nat \ {0}, NEW p \in 0..r * m - 1
  PROVE  p \div m \in 0..r - 1 /\ p % m \in 0..m - 1
<1> DEFINE q == p \div m
           s == p % m
<1>1. q \in Nat /\ s \in 0..m - 1 /\ p = m * q + s
  BY Quotient
<1> HIDE DEF q, s
<1>2. q < r
  <2>1. ASSUME r <= q PROVE FALSE
    <3>1. m * r <= m * q
      BY <1>1, <2>1
    <3> QED
      BY <1>1, <3>1
  <2> QED
    BY <1>1, <2>1
<1>3. q \in 0..r - 1 /\ s \in 0..m - 1
  BY <1>1, <1>2
<1> QED
  BY <1>3 DEF q, s

\* Every value of a line is a number of its matrix.
LEMMA LineTypes ==
  ASSUME JobsAssumption, Sizes, NEW tag \in Ways, NEW p \in Processes
  PROVE  \A t \in 1..n : Line(tag, p)[t] \in Int
<1>1. /\ rows \in Nat \ {0} /\ cols \in Nat \ {0} /\ n \in Nat
      /\ job.mat1 \in Seq(Int) /\ job.mat2 \in Seq(Int)
      /\ n * rows <= Len(job.mat1) /\ n * cols <= Len(job.mat2)
  BY SizeFacts
<1> DEFINE q == p \div cols
           s == p % cols
<1>2. q \in 0..rows - 1 /\ s \in 0..cols - 1
  BY <1>1, RowColumn DEF Processes
<1> HIDE DEF q, s
<1>3. ASSUME NEW t \in 1..n
      PROVE  /\ q * n + t \in Nat /\ 1 <= q * n + t /\ q * n + t <= n * rows
             /\ (t - 1) * cols + s + 1 \in Nat /\ 1 <= (t - 1) * cols + s + 1
             /\ (t - 1) * cols + s + 1 <= n * cols
  <2>1. q * n \in Nat /\ q * n + n <= n * rows
    <3>1. q + 1 <= rows /\ q + 1 \in Nat /\ q \in Nat
      BY <1>1, <1>2
    <3>2. (q + 1) * n <= rows * n
      BY <1>1, <3>1
    <3>3. (q + 1) * n = q * n + n /\ rows * n = n * rows /\ q * n \in Nat
      BY <1>1, <3>1
    <3> QED
      BY <3>2, <3>3
  <2>2. (t - 1) * cols \in Nat /\ (t - 1) * cols + cols <= n * cols
    <3>1. t <= n /\ t \in Nat /\ t - 1 \in Nat
      BY <1>1
    <3>2. t * cols <= n * cols
      BY <1>1, <3>1
    <3>3. (t - 1) * cols = t * cols - cols /\ (t - 1) * cols \in Nat
      BY <1>1, <3>1
    <3> QED
      BY <1>1, <3>2, <3>3
  <2> DEFINE u == q * n
             v == (t - 1) * cols
             w == n * rows
             y == n * cols
  <2>3. w \in Int /\ y \in Int
    BY <1>1
  <2> HIDE DEF u, v, w, y
  <2>4. u \in Nat /\ u + n <= w /\ v \in Nat /\ v + cols <= y
    BY <2>1, <2>2 DEF u, v, w, y
  <2>5. /\ u + t \in Nat /\ 1 <= u + t /\ u + t <= w
        /\ v + s + 1 \in Nat /\ 1 <= v + s + 1 /\ v + s + 1 <= y
    BY <1>1, <1>2, <2>3, <2>4
  <2> QED
    BY <2>5 DEF u, v, w, y
<1>4. ASSUME NEW t \in 1..n
      PROVE  job.mat1[q * n + t] \in Int /\ job.mat2[(t - 1) * cols + s + 1] \in Int
  <2> DEFINE L == Len(job.mat1)
             M == Len(job.mat2)
  <2>1. /\ L \in Nat /\ M \in Nat /\ n * rows <= L /\ n * cols <= M
        /\ \A k \in 1..L : job.mat1[k] \in Int
        /\ \A k \in 1..M : job.mat2[k] \in Int
    BY <1>1
  <2>2. n * rows \in Nat /\ n * cols \in Nat
    BY <1>1
  <2> HIDE DEF L, M
  <2>3. q * n + t \in 1..L /\ (t - 1) * cols + s + 1 \in 1..M
    BY <1>3, <2>1, <2>2
  <2> QED
    BY <2>1, <2>3
<1> QED
  BY <1>4 DEF Line, q, s

\* Two neighbours have the same values, and there is a neighbour inside of the mesh.
LEMMA Neighbours ==
  ASSUME JobsAssumption, Sizes, NEW tag \in Ways, NEW p \in Processes, ~Border(tag, p)
  PROVE  /\ Prev(tag, p) \in Processes /\ Prev(tag, p) # p
         /\ Line(tag, Prev(tag, p)) = Line(tag, p)
<1>1. rows \in Nat \ {0} /\ cols \in Nat \ {0} /\ rows * cols \in Nat
  BY SizeFacts
<1>2. p \in Nat /\ p <= rows * cols - 1
  BY <1>1 DEF Processes
<1>3. CASE tag = "tag_a"
  <2>1. p % cols # 0
    BY <1>3 DEF Border, leftBorder
  <2>2. p - 1 \in Nat /\ (p - 1) \div cols = p \div cols
    BY <1>1, <1>2, <2>1, StepLeft
  <2> QED
    BY <1>1, <1>2, <1>3, <2>2 DEF Prev, Line, Processes
<1>4. CASE tag = "tag_b"
  <2>1. cols <= p
    BY <1>1, <1>2, <1>4 DEF Border, topBorder
  <2>2. p - cols \in Nat /\ (p - cols) % cols = p % cols
    BY <1>1, <1>2, <2>1, StepUp
  <2> QED
    BY <1>1, <1>2, <1>4, <2>2 DEF Prev, Line, Processes
<1> QED
  BY <1>3, <1>4 DEF Ways

\* Where a process passes its values on.
LEMMA RightAndBelow ==
  ASSUME JobsAssumption, Sizes, NEW q \in Processes
  PROVE  /\ ~rightBorder(q) <=> q + 1 \in Processes /\ ~Border("tag_a", q + 1)
         /\ ~bottomBorder(q) <=> q + cols \in Processes /\ ~Border("tag_b", q + cols)
<1>1. rows \in Nat \ {0} /\ cols \in Nat \ {0} /\ rows * cols \in Nat
  BY SizeFacts
<1>2. q \in Nat /\ q <= rows * cols - 1
  BY <1>1 DEF Processes
<1>3. ASSUME q + 1 \notin Processes PROVE (q + 1) % cols = 0
  <2>1. q + 1 = cols * rows + 0
    BY <1>1, <1>2, <1>3 DEF Processes
  <2>2. 0 \in 0..cols - 1 /\ rows \in Int /\ q + 1 \in Nat
    BY <1>1, <1>2
  <2> DEFINE a == q + 1
             zero == 0
  <2> HIDE DEF a, zero
  <2>3. a \in Nat /\ zero \in 0..cols - 1 /\ a = cols * rows + zero
    BY <2>1, <2>2 DEF a, zero
  <2>4. a % cols = zero
    BY <1>1, <2>2, <2>3, QuotientIs
  <2> QED
    BY <2>4 DEF a, zero
<1>4. cols * (rows - 1) = rows * cols - cols
  BY <1>1
<1>5. q + cols \in Processes <=> q < cols * (rows - 1)
  BY <1>1, <1>2, <1>4 DEF Processes
<1>6. ~(q + cols < cols)
  BY <1>1, <1>2
<1>7. bottomBorder(q) <=> ~(q < cols * (rows - 1))
  BY <1>1, <1>2, <1>4 DEF bottomBorder
<1> QED
  BY <1>3, <1>5, <1>6, <1>7 DEF rightBorder, Border, leftBorder, topBorder

\* The processes, and the sizes that a step does not change.
LEMMA ProcessFacts ==
  ASSUME JobsAssumption, Sizes
  PROVE  /\ rows * cols \in Nat \ {0} /\ n \in Nat /\ cols \in Nat \ {0}
         /\ 0 \in Processes /\ \A p \in Processes : p \in Nat /\ p < rows * cols
<1>1. rows * cols \in Nat \ {0} /\ n \in Nat /\ cols \in Nat \ {0}
  BY SizeFacts
<1> QED
  BY <1>1 DEF Processes

LEMMA SizesKept ==
  ASSUME Sizes, UNCHANGED <<job, rows, cols, n>>
  PROVE  /\ Sizes' /\ Processes' = Processes /\ MeshChannels' = MeshChannels
         /\ \A tag, p : Line(tag, p)' = Line(tag, p) /\ Border(tag, p)' = Border(tag, p)
                        /\ Prev(tag, p)' = Prev(tag, p)
         /\ \A r, s : Sums(r, s)' = Sums(r, s)
<1>1. Sizes' /\ Processes' = Processes
  BY DEF Sizes, Valid, Processes
<1>2. MeshChannels' = MeshChannels
  BY <1>1 DEF MeshChannels
<1>3. \A tag, p : Line(tag, p)' = Line(tag, p)
  BY DEF Line
<1>4. \A tag, p : Border(tag, p)' = Border(tag, p)
  BY DEF Border, leftBorder, topBorder
<1>5. \A tag, p : Prev(tag, p)' = Prev(tag, p)
  BY DEF Prev
<1>6. \A r, s : Sums(r, s)' = Sums(r, s)
  BY DEF Sums
<1> QED
  BY <1>1, <1>2, <1>3, <1>4, <1>5, <1>6

\* What is under way to a process, or left of its own, begins with its next value.
Source(tag, id) == IF Border(tag, id) THEN Own(tag, id) ELSE under[<<Prev(tag, id), id, tag>>]
Reached(tag, id)   == IF Border(tag, id) THEN n ELSE round[Prev(tag, id)]

LEMMA SourceFacts ==
  ASSUME JobsAssumption, MeshInv, NEW tag \in Ways, NEW id \in Processes,
         phase[id] = "loop", Source(tag, id) # <<>>
  PROVE  /\ round[id] \in Nat /\ Reached(tag, id) \in 0..n /\ round[id] < Reached(tag, id)
         /\ Head(Source(tag, id)) = Line(tag, id)[round[id] + 1]
         /\ Tail(Source(tag, id)) = Piece(Line(tag, id), round[id] + 1, Reached(tag, id))
<1> DEFINE L == Line(tag, id)
           s == Source(tag, id)
           a == round[id]
           b == Reached(tag, id)
<1>1. n \in Nat /\ a \in 0..n /\ \A t \in 1..n : L[t] \in Int
  BY ProcessFacts, LineTypes DEF MeshInv, MeshTypes
<1>2. b \in 0..n /\ a <= b /\ s = Piece(L, a, b)
  <2>1. CASE Border(tag, id)
    BY <1>1, <2>1 DEF MeshInv, Owned, Rest, Source, Reached
  <2>2. CASE ~Border(tag, id)
    <3>1. Prev(tag, id) \in Processes
      BY <2>2, Neighbours DEF MeshInv
    <3> QED
      BY <1>1, <2>2, <3>1 DEF MeshInv, MeshTypes, Flows, Flow, Source, Reached
  <2> QED
    BY <2>1, <2>2
<1>3. s # <<>>
  OBVIOUS
<1> HIDE DEF L, s, a, b
<1>4. a \in Nat /\ b \in Nat /\ \A t \in a + 1..b : L[t] \in Int
  BY <1>1, <1>2
<1>5. a < b
  <2>1. Piece(L, a, b) = <<>> <=> a = b
    BY <1>2, <1>4, PieceIs
  <2> QED
    BY <1>2, <1>3, <1>4, <2>1
<1>6. Head(s) = L[a + 1] /\ Tail(s) = Piece(L, a + 1, b)
  <2>1. Head(Piece(L, a, b)) = L[a + 1] /\ Tail(Piece(L, a, b)) = Piece(L, a + 1, b)
    BY <1>4, <1>5, PieceTaken
  <2> QED
    BY <1>2, <2>1
<1> QED
  BY <1>2, <1>4, <1>5, <1>6 DEF L, s, a, b

\* A turn takes a value from each source, and passes both on.
LEMMA TurnMessages ==
  ASSUME JobsAssumption, MeshInv, NEW id \in Processes, Turn(id)
  PROVE  /\ DOMAIN under' = MeshChannels
         /\ \A q, p \in Processes : under'[<<q, p, "tag_c">>] = under[<<q, p, "tag_c">>]
         /\ \A tag \in Ways, q, p \in Processes :
              under'[<<q, p, tag>>] =
                IF ~Border(tag, p) /\ q = Prev(tag, p) /\ p = id THEN Tail(under[<<q, p, tag>>])
                ELSE IF ~Border(tag, p) /\ q = Prev(tag, p) /\ q = id
                     THEN Append(under[<<q, p, tag>>], Line(tag, id)[round[id] + 1])
                ELSE under[<<q, p, tag>>]
<1> DEFINE a  == Head(Left(id))
           b  == Head(Top(id))
           u1 == IF leftBorder(id) THEN under
                 ELSE [under EXCEPT ![<<id - 1, id, "tag_a">>] = Tail(@)]
           u2 == IF topBorder(id) THEN u1
                 ELSE [u1 EXCEPT ![<<id - cols, id, "tag_b">>] = Tail(@)]
           u3 == IF rightBorder(id) THEN u2
                 ELSE [u2 EXCEPT ![<<id, id + 1, "tag_a">>] = Append(@, a)]
           u4 == IF bottomBorder(id) THEN u3
                 ELSE [u3 EXCEPT ![<<id, id + cols, "tag_b">>] = Append(@, b)]
<1>1. under' = u4
  BY DEF Turn, Passed, Gone
<1>2. DOMAIN under = MeshChannels
  BY DEF MeshInv, MeshTypes
<1>3. /\ DOMAIN u1 = MeshChannels
      /\ \A ch \in MeshChannels :
           u1[ch] = IF ~leftBorder(id) /\ ch = <<id - 1, id, "tag_a">>
                    THEN Tail(under[ch]) ELSE under[ch]
  BY <1>2
<1>4. /\ DOMAIN u2 = MeshChannels
      /\ \A ch \in MeshChannels :
           u2[ch] = IF ~topBorder(id) /\ ch = <<id - cols, id, "tag_b">>
                    THEN Tail(u1[ch]) ELSE u1[ch]
  <2> HIDE DEF u1
  <2> QED
    BY <1>3
<1>5. /\ DOMAIN u3 = MeshChannels
      /\ \A ch \in MeshChannels :
           u3[ch] = IF ~rightBorder(id) /\ ch = <<id, id + 1, "tag_a">>
                    THEN Append(u2[ch], a) ELSE u2[ch]
  <2> HIDE DEF u1, u2, a
  <2> QED
    BY <1>4
<1>6. /\ DOMAIN u4 = MeshChannels
      /\ \A ch \in MeshChannels :
           u4[ch] = IF ~bottomBorder(id) /\ ch = <<id, id + cols, "tag_b">>
                    THEN Append(u3[ch], b) ELSE u3[ch]
  <2> HIDE DEF u1, u2, u3, a, b
  <2> QED
    BY <1>5
<1>7. a = Line("tag_a", id)[round[id] + 1] /\ b = Line("tag_b", id)[round[id] + 1]
  <2>1. /\ phase[id] = "loop" /\ "tag_a" \in Ways /\ "tag_b" \in Ways
        /\ Left(id) = Source("tag_a", id) /\ Top(id) = Source("tag_b", id)
        /\ Left(id) # <<>> /\ Top(id) # <<>>
    BY DEF Turn, Ways, Source, Left, Top, Border, Own, Prev
  <2> QED
    BY <2>1, SourceFacts
<1>8. /\ ~rightBorder(id) => id + 1 \in Processes
      /\ ~bottomBorder(id) => id + cols \in Processes
      /\ \A p \in Processes : (~Border("tag_a", p) /\ id = Prev("tag_a", p))
                              <=> (~rightBorder(id) /\ p = id + 1)
      /\ \A p \in Processes : (~Border("tag_b", p) /\ id = Prev("tag_b", p))
                              <=> (~bottomBorder(id) /\ p = id + cols)
  <2>1. cols \in Nat /\ \A p \in Processes : p \in Nat
    BY ProcessFacts DEF MeshInv
  <2>2. \A p \in Processes : (id = p - 1 <=> p = id + 1) /\ (id = p - cols <=> p = id + cols)
    BY <2>1
  <2>3. /\ ~rightBorder(id) <=> id + 1 \in Processes /\ ~Border("tag_a", id + 1)
        /\ ~bottomBorder(id) <=> id + cols \in Processes /\ ~Border("tag_b", id + cols)
    BY RightAndBelow DEF MeshInv
  <2>4. \A p : Prev("tag_a", p) = p - 1 /\ Prev("tag_b", p) = p - cols
    BY DEF Prev
  <2> QED
    BY <2>2, <2>3, <2>4
<1> HIDE DEF u1, u2, u3, u4, a, b
<1>9. ASSUME NEW q \in Processes, NEW p \in Processes
      PROVE  under'[<<q, p, "tag_c">>] = under[<<q, p, "tag_c">>]
  <2>1. <<q, p, "tag_c">> \in MeshChannels
    BY DEF MeshChannels
  <2> QED
    BY <1>1, <1>3, <1>4, <1>5, <1>6, <2>1
<1>10. ASSUME NEW q \in Processes, NEW p \in Processes
       PROVE  under'[<<q, p, "tag_a">>] =
                IF ~Border("tag_a", p) /\ q = Prev("tag_a", p) /\ p = id
                THEN Tail(under[<<q, p, "tag_a">>])
                ELSE IF ~Border("tag_a", p) /\ q = Prev("tag_a", p) /\ q = id
                     THEN Append(under[<<q, p, "tag_a">>], a)
                ELSE under[<<q, p, "tag_a">>]
  <2> DEFINE ch == <<q, p, "tag_a">>
  <2>1. ch \in MeshChannels
    BY DEF MeshChannels
  <2>2. /\ u4[ch] = u3[ch] /\ u2[ch] = u1[ch]
        /\ u1[ch] = IF ~leftBorder(id) /\ q = id - 1 /\ p = id THEN Tail(under[ch]) ELSE under[ch]
        /\ u3[ch] = IF ~rightBorder(id) /\ q = id /\ p = id + 1 THEN Append(u2[ch], a) ELSE u2[ch]
    BY <1>3, <1>4, <1>5, <1>6, <2>1
  <2>3. ~Border("tag_a", p) /\ q = Prev("tag_a", p) /\ p = id
        <=> ~leftBorder(id) /\ q = id - 1 /\ p = id
    BY DEF Border, Prev
  <2>4. ~Border("tag_a", p) /\ q = Prev("tag_a", p) /\ q = id
        <=> ~rightBorder(id) /\ q = id /\ p = id + 1
    BY <1>8
  <2>5. ~(p = id /\ p = id + 1)
    BY ProcessFacts DEF MeshInv
  <2> HIDE DEF ch
  <2>6. under'[ch] =
          IF ~Border("tag_a", p) /\ q = Prev("tag_a", p) /\ p = id THEN Tail(under[ch])
          ELSE IF ~Border("tag_a", p) /\ q = Prev("tag_a", p) /\ q = id
               THEN Append(under[ch], a) ELSE under[ch]
    BY <1>1, <2>2, <2>3, <2>4, <2>5
  <2> QED
    BY <2>6 DEF ch
<1>11. ASSUME NEW q \in Processes, NEW p \in Processes
       PROVE  under'[<<q, p, "tag_b">>] =
                IF ~Border("tag_b", p) /\ q = Prev("tag_b", p) /\ p = id
                THEN Tail(under[<<q, p, "tag_b">>])
                ELSE IF ~Border("tag_b", p) /\ q = Prev("tag_b", p) /\ q = id
                     THEN Append(under[<<q, p, "tag_b">>], b)
                ELSE under[<<q, p, "tag_b">>]
  <2> DEFINE ch == <<q, p, "tag_b">>
  <2>1. ch \in MeshChannels
    BY DEF MeshChannels
  <2>2. /\ u3[ch] = u2[ch] /\ u1[ch] = under[ch]
        /\ u2[ch] = IF ~topBorder(id) /\ q = id - cols /\ p = id THEN Tail(u1[ch]) ELSE u1[ch]
        /\ u4[ch] = IF ~bottomBorder(id) /\ q = id /\ p = id + cols
                    THEN Append(u3[ch], b) ELSE u3[ch]
    BY <1>3, <1>4, <1>5, <1>6, <2>1
  <2>3. ~Border("tag_b", p) /\ q = Prev("tag_b", p) /\ p = id
        <=> ~topBorder(id) /\ q = id - cols /\ p = id
    BY DEF Border, Prev
  <2>4. ~Border("tag_b", p) /\ q = Prev("tag_b", p) /\ q = id
        <=> ~bottomBorder(id) /\ q = id /\ p = id + cols
    BY <1>8
  <2>5. ~(p = id /\ p = id + cols)
    BY ProcessFacts DEF MeshInv
  <2> HIDE DEF ch
  <2>6. under'[ch] =
          IF ~Border("tag_b", p) /\ q = Prev("tag_b", p) /\ p = id THEN Tail(under[ch])
          ELSE IF ~Border("tag_b", p) /\ q = Prev("tag_b", p) /\ q = id
               THEN Append(under[ch], b) ELSE under[ch]
    BY <1>1, <2>2, <2>3, <2>4, <2>5
  <2> QED
    BY <2>6 DEF ch
<1>12. DOMAIN under' = MeshChannels
  BY <1>1, <1>6
<1> QED
  BY <1>7, <1>9, <1>10, <1>11, <1>12 DEF Ways

\* A turn adds the next product.
LEMMA TurnCell ==
  ASSUME JobsAssumption, MeshInv, NEW id \in Processes, Turn(id)
  PROVE  /\ round[id] + 1 \in 0..n
         /\ cell' = [cell EXCEPT ![id] = cell'[id]] /\ cell'[id] \in Int
         /\ cell'[id] = Sums(id \div cols, id % cols)[round[id] + 1]
<1> DEFINE a == Head(Left(id))
           b == Head(Top(id))
           t == round[id] + 1
           r == id \div cols
           s == id % cols
<1>1. /\ n \in Nat /\ round[id] \in 0..n /\ round[id] < n /\ round[id] \in Nat
      /\ cell \in [Processes -> Int] /\ cell[id] = Sums(r, s)[round[id]]
      /\ cell' = [cell EXCEPT ![id] = cell[id] + a * b]
  BY ProcessFacts DEF Turn, MeshInv, MeshTypes, Rounds
<1>2. t \in 1..n /\ t \in 0..n /\ t # 0 /\ t - 1 = round[id]
  BY <1>1
<1>3. a = Line("tag_a", id)[t] /\ b = Line("tag_b", id)[t]
  <2>1. /\ phase[id] = "loop" /\ "tag_a" \in Ways /\ "tag_b" \in Ways
        /\ Left(id) = Source("tag_a", id) /\ Top(id) = Source("tag_b", id)
        /\ Left(id) # <<>> /\ Top(id) # <<>>
    BY DEF Turn, Ways, Source, Left, Top, Border, Own, Prev
  <2> QED
    BY <2>1, SourceFacts
<1>4. a \in Int /\ b \in Int
  BY <1>2, <1>3, LineTypes DEF MeshInv, Ways
<1> HIDE DEF t
<1>5. a = job.mat1[r * n + t] /\ b = job.mat2[(t - 1) * cols + s + 1]
  BY <1>2, <1>3 DEF Line
<1> HIDE DEF a, b, r, s
<1>6. Sums(r, s)[t] = Sums(r, s)[t - 1] + job.mat1[r * n + t]
                                          * job.mat2[(t - 1) * cols + s + 1]
  <2> DEFINE f == Sums(r, s)
             e == job.mat1[r * n + t] * job.mat2[(t - 1) * cols + s + 1]
  <2>1. f = [k \in 0..n |-> IF k = 0 THEN 0
                            ELSE f[k - 1] + job.mat1[r * n + k]
                                            * job.mat2[(k - 1) * cols + s + 1]]
    BY <1>1, SumsAre
  <2> HIDE DEF f
  <2>2. f[t] = f[t - 1] + e
    BY <1>2, <2>1
  <2> QED
    BY <2>2 DEF f
<1>7. cell'[id] = cell[id] + a * b
  BY <1>1
<1>8. cell'[id] = Sums(r, s)[t]
  BY <1>1, <1>2, <1>5, <1>6, <1>7
<1>9. cell'[id] \in Int
  BY <1>1, <1>4, <1>7
<1> QED
  BY <1>1, <1>2, <1>7, <1>8, <1>9 DEF t, r, s

LEMMA TurnKeeps ==
  ASSUME JobsAssumption, MeshInv, gathered = "no", NEW id \in Processes, Turn(id)
  PROVE  MeshInv'
<1>1. /\ Sizes' /\ Processes' = Processes /\ MeshChannels' = MeshChannels
      /\ \A tag, p : Line(tag, p)' = Line(tag, p) /\ Border(tag, p)' = Border(tag, p)
                     /\ Prev(tag, p)' = Prev(tag, p)
      /\ \A r, s : Sums(r, s)' = Sums(r, s)
      /\ UNCHANGED <<job, rows, cols, n, phase, result, gathered>>
  BY SizesKept DEF MeshInv, Turn
<1>2. /\ n \in Nat /\ \A p \in Processes : round[p] \in 0..n /\ round[p] \in Nat
      /\ \A tag \in Ways, p \in Processes : \A t \in 1..n : Line(tag, p)[t] \in Int
      /\ phase[id] = "loop"
  BY ProcessFacts, LineTypes DEF MeshInv, MeshTypes, Turn
<1>3. /\ round[id] + 1 \in 0..n
      /\ cell' = [cell EXCEPT ![id] = cell'[id]] /\ cell'[id] \in Int
      /\ cell'[id] = Sums(id \div cols, id % cols)[round[id] + 1]
  BY TurnCell
<1>4. /\ round' = [round EXCEPT ![id] = round[id] + 1]
      /\ \A p \in Processes : /\ round'[p] = IF p = id THEN round[id] + 1 ELSE round[p]
                              /\ cell'[p] = IF p = id THEN cell'[id] ELSE cell[p]
                              /\ round'[p] \in 0..n /\ cell'[p] \in Int
      /\ round' \in [Processes -> 0..n] /\ cell' \in [Processes -> Int]
  <2>1. round' = [round EXCEPT ![id] = round[id] + 1]
    BY DEF Turn
  <2> QED
    BY <1>2, <1>3, <2>1 DEF MeshInv, MeshTypes
<1>5. /\ DOMAIN under' = MeshChannels
      /\ \A q, p \in Processes : under'[<<q, p, "tag_c">>] = under[<<q, p, "tag_c">>]
      /\ \A tag \in Ways, q, p \in Processes :
           under'[<<q, p, tag>>] =
             IF ~Border(tag, p) /\ q = Prev(tag, p) /\ p = id THEN Tail(under[<<q, p, tag>>])
             ELSE IF ~Border(tag, p) /\ q = Prev(tag, p) /\ q = id
                  THEN Append(under[<<q, p, tag>>], Line(tag, id)[round[id] + 1])
             ELSE under[<<q, p, tag>>]
  BY TurnMessages
<1>6. Rounds'
  BY <1>1, <1>2, <1>3, <1>4 DEF MeshInv, Rounds
<1>7. /\ \A tag \in Ways : Source(tag, id) # <<>>
      /\ \A tag \in Ways, p \in Processes :
           Own(tag, p)' = IF p = id /\ Border(tag, id) THEN Tail(Own(tag, p)) ELSE Own(tag, p)
      /\ vecA' \in [Processes -> Seq(Int)] /\ vecB' \in [Processes -> Seq(Int)]
  <2>1. vecA \in [Processes -> Seq(Int)] /\ vecB \in [Processes -> Seq(Int)]
    BY DEF MeshInv, MeshTypes
  <2>2. /\ vecA' = [vecA EXCEPT ![id] = IF leftBorder(id) THEN Tail(@) ELSE @]
        /\ vecB' = [vecB EXCEPT ![id] = IF topBorder(id) THEN Tail(@) ELSE @]
        /\ Left(id) # <<>> /\ Top(id) # <<>>
    BY DEF Turn
  <2>3. \A tag \in Ways : Source(tag, id) # <<>>
    BY <2>2 DEF Ways, Source, Left, Top, Border, Own, Prev
  <2>4. \A s \in Seq(Int) : s # <<>> => Tail(s) \in Seq(Int)
    BY HeadTailProperties
  <2>5. /\ leftBorder(id) => Tail(vecA[id]) \in Seq(Int)
        /\ topBorder(id) => Tail(vecB[id]) \in Seq(Int)
    BY <2>1, <2>2, <2>4 DEF Left, Top
  <2>6. vecA' \in [Processes -> Seq(Int)] /\ vecB' \in [Processes -> Seq(Int)]
    BY <2>1, <2>2, <2>5
  <2>7. \A tag \in Ways, p \in Processes :
           Own(tag, p)' = IF p = id /\ Border(tag, id) THEN Tail(Own(tag, p)) ELSE Own(tag, p)
    BY <2>1, <2>2 DEF Ways, Own, Border
  <2> QED
    BY <2>3, <2>6, <2>7
<1>8. Owned'
  <2>1. ASSUME NEW tag \in Ways, NEW p \in Processes
        PROVE  Own(tag, p)' = IF Border(tag, p) /\ phase[p] # "values"
                              THEN Piece(Line(tag, p), round'[p], n) ELSE <<>>
    <3>1. CASE p = id /\ Border(tag, id)
      <4>1. /\ Source(tag, id) = Own(tag, id) /\ Reached(tag, id) = n
            /\ Tail(Source(tag, id)) = Piece(Line(tag, id), round[id] + 1, Reached(tag, id))
        BY <1>2, <1>7, <3>1, SourceFacts DEF Source, Reached
      <4> QED
        BY <1>2, <1>4, <1>7, <3>1, <4>1
    <3>2. CASE ~(p = id /\ Border(tag, id))
      BY <1>4, <1>7, <3>2 DEF MeshInv, Owned, Rest
    <3> QED
      BY <3>1, <3>2
  <2>2. ASSUME NEW tag \in Ways, NEW p \in Processes'
        PROVE  Rest(tag, p)'
    BY <1>1, <2>1 DEF Rest, Piece
  <2> QED
    BY <2>2 DEF Owned
<1>9. ASSUME NEW tag \in Ways, NEW q \in Processes, NEW p \in Processes
      PROVE  /\ ~Border(tag, p) /\ q = Prev(tag, p) => round'[p] <= round'[q]
             /\ under'[<<q, p, tag>>] =
                  IF Border(tag, p)
                  THEN IF q = 0 /\ phase[p] = "values" THEN Piece(Line(tag, p), 0, n) ELSE <<>>
                  ELSE IF q = Prev(tag, p) THEN Piece(Line(tag, p), round'[p], round'[q])
                       ELSE <<>>
  <2> DEFINE L == Line(tag, p)
             u == under[<<q, p, tag>>]
  <2>1. /\ ~Border(tag, p) /\ q = Prev(tag, p) => round[p] <= round[q]
        /\ u = IF Border(tag, p)
               THEN IF q = 0 /\ phase[p] = "values" THEN Piece(L, 0, n) ELSE <<>>
               ELSE IF q = Prev(tag, p) THEN Piece(L, round[p], round[q]) ELSE <<>>
    BY DEF MeshInv, Flows, Flow
  <2>2. ~Border(tag, p) => Prev(tag, p) # p /\ Line(tag, Prev(tag, p)) = L
    BY Neighbours DEF MeshInv
  <2>3. \A t \in 1..n : L[t] \in Int
    BY <1>2
  <2>4. CASE ~Border(tag, p) /\ q = Prev(tag, p) /\ p = id
    <3>1. /\ Source(tag, id) = u /\ Reached(tag, id) = round[q]
          /\ round[id] < Reached(tag, id)
          /\ Tail(Source(tag, id)) = Piece(Line(tag, id), round[id] + 1, Reached(tag, id))
      BY <1>2, <1>7, <2>4, SourceFacts DEF Source, Reached
    <3>2. q # id /\ round'[q] = round[q] /\ round'[p] = round[p] + 1
      BY <1>4, <2>2, <2>4
    <3>3. round'[p] <= round'[q]
      BY <1>2, <2>4, <3>1, <3>2
    <3> QED
      BY <1>5, <2>4, <3>1, <3>2, <3>3
  <2>5. CASE ~Border(tag, p) /\ q = Prev(tag, p) /\ q = id
    <3>1. p # id /\ Line(tag, id) = L /\ round'[p] = round[p] /\ round'[q] = round[q] + 1
      BY <1>4, <2>2, <2>5
    <3>2. u = Piece(L, round[p], round[q]) /\ round[p] <= round[q]
      BY <2>1, <2>5
    <3>3. /\ round[p] \in Nat /\ round[q] \in Nat
          /\ \A j \in round[p] + 1..round[q] + 1 : L[j] \in Int
      BY <1>2, <1>3, <2>3, <2>5
    <3>4. Append(Piece(L, round[p], round[q]), L[round[q] + 1])
            = Piece(L, round[p], round[q] + 1)
      <4> HIDE DEF L
      <4> QED
        BY <3>2, <3>3, PieceAppended
    <3>5. under'[<<q, p, tag>>] = Append(u, L[round[q] + 1])
      BY <1>5, <2>5, <3>1
    <3>6. round'[p] <= round'[q]
      BY <3>1, <3>2, <3>3
    <3> QED
      BY <2>5, <3>1, <3>2, <3>4, <3>5, <3>6
  <2>6. CASE ~(~Border(tag, p) /\ q = Prev(tag, p) /\ (p = id \/ q = id))
    <3>1. under'[<<q, p, tag>>] = u
      BY <1>5, <2>6
    <3>2. ~Border(tag, p) /\ q = Prev(tag, p) => round'[p] = round[p] /\ round'[q] = round[q]
      BY <1>4, <2>6
    <3> HIDE DEF u, L
    <3>3. /\ ~Border(tag, p) /\ q = Prev(tag, p) => round'[p] <= round'[q]
          /\ u = IF Border(tag, p)
                 THEN IF q = 0 /\ phase[p] = "values" THEN Piece(L, 0, n) ELSE <<>>
                 ELSE IF q = Prev(tag, p) THEN Piece(L, round'[p], round'[q]) ELSE <<>>
      BY <2>1, <3>2
    <3> QED
      BY <3>1, <3>3 DEF L
  <2> QED
    BY <2>4, <2>5, <2>6
<1>10. Flows'
  <2>1. ASSUME NEW tag \in Ways, NEW q \in Processes', NEW p \in Processes'
        PROVE  Flow(tag, q, p)'
    BY <1>1, <1>9 DEF Flow, Piece
  <2> QED
    BY <2>1 DEF Flows
<1>11. Answers'
  <2>1. ASSUME NEW q \in Processes, NEW p \in Processes
        PROVE  under'[<<q, p, "tag_c">>] =
                 IF p = 0 /\ phase[q] = "end" /\ Len(result) <= q THEN <<cell'[q]>> ELSE <<>>
    <3>1. phase[q] = "end" => cell'[q] = cell[q]
      BY <1>2, <1>4
    <3> QED
      BY <1>5, <3>1 DEF MeshInv, Answers
  <2> QED
    BY <1>1, <2>1 DEF Answers
<1>12. Gathered'
  <2>1. ASSUME NEW k \in 1..Len(result) PROVE phase[k - 1] = "end" /\ result[k] = cell'[k - 1]
    <3>1. /\ phase[k - 1] = "end" /\ result[k] = cell[k - 1]
          /\ Len(result) <= rows * cols /\ Len(result) \in Nat
      BY DEF MeshInv, MeshTypes, Gathered
    <3>2. k - 1 \in Processes
      <4>1. rows * cols \in Nat
        BY ProcessFacts DEF MeshInv
      <4> DEFINE m == rows * cols
      <4> HIDE DEF m
      <4>2. k - 1 \in 0..m - 1
        BY <3>1, <4>1 DEF m
      <4> QED
        BY <4>2 DEF m, Processes
    <3> QED
      BY <1>2, <1>4, <3>1, <3>2
  <2>2. Len(result) <= rows * cols /\ (gathered = "yes" <=> Len(result) = rows * cols)
    BY DEF MeshInv, Gathered
  <2> QED
    BY <1>1, <2>1, <2>2 DEF Gathered
<1>13. MeshTypes'
  <2>1. ASSUME NEW ch \in MeshChannels PROVE under'[ch] \in Seq(Int)
    <3>1. PICK q \in Processes, p \in Processes, tag \in {"tag_a", "tag_b", "tag_c"} :
            ch = <<q, p, tag>>
      BY DEF MeshChannels
    <3>2. CASE tag = "tag_c"
      BY <1>5, <3>1, <3>2 DEF MeshInv, MeshTypes
    <3>3. CASE tag \in Ways
      <4> DEFINE L == Line(tag, p)
      <4>1. <<>> \in Seq(Int)
        OBVIOUS
      <4>2. round'[p] \in 0..n /\ round'[q] \in 0..n /\ \A t \in 1..n : L[t] \in Int
        BY <1>2, <1>4, <3>3
      <4>3. /\ under'[<<q, p, tag>>] \in
                 {<<>>, Piece(L, 0, n), Piece(L, round'[p], round'[q])}
            /\ under'[<<q, p, tag>>] = Piece(L, round'[p], round'[q])
               => round'[p] <= round'[q] \/ under'[<<q, p, tag>>] \in {<<>>, Piece(L, 0, n)}
        BY <1>9, <3>3
      <4> HIDE DEF L
      <4>4. Piece(L, 0, n) \in Seq(Int)
        <5>1. 0 \in Nat /\ 0 <= n /\ \A t \in 0 + 1..n : L[t] \in Int
          BY <1>2, <4>2
        <5> QED
          BY <1>2, <5>1, PieceIs
      <4>5. round'[p] <= round'[q] => Piece(L, round'[p], round'[q]) \in Seq(Int)
        <5>1. round'[p] \in Nat /\ round'[q] \in Nat
              /\ \A j \in round'[p] + 1..round'[q] : L[j] \in Int
          BY <1>2, <4>2
        <5> QED
          BY <5>1, PieceIs
      <4> QED
        BY <3>1, <4>1, <4>3, <4>4, <4>5, Zenon
    <3> QED
      BY <3>2, <3>3 DEF Ways
  <2>2. under' \in [MeshChannels -> Seq(Int)]
    <3>1. under' = [ch \in MeshChannels |-> under'[ch]]
      <4>1. under' = [ch \in DOMAIN under' |-> under'[ch]]
        BY DEF Turn, Passed, Gone, MeshInv, MeshTypes
      <4> QED
        BY <1>5, <4>1
    <3> QED
      BY <2>1, <3>1
  <2> QED
    BY <1>1, <1>4, <1>7, <2>2 DEF MeshInv, MeshTypes
<1> QED
  BY <1>1, <1>6, <1>8, <1>10, <1>11, <1>12, <1>13 DEF MeshInv

\* What the sizes and the lines are, of any state and so of the one after a step.
LEMMA LinesNext ==
  ASSUME JobsAssumption
  PROVE  (Sizes => /\ rows * cols \in Nat \ {0} /\ n \in Nat /\ cols \in Nat \ {0}
                   /\ \A p \in Processes : p \in Nat
                   /\ \A tag \in Ways, p \in Processes :
                        \A t \in 1..n : Line(tag, p)[t] \in Int
                   /\ \A r, s : Sums(r, s)[0] = 0)'
<1>1. Sizes => /\ rows * cols \in Nat \ {0} /\ n \in Nat /\ cols \in Nat \ {0}
               /\ \A p \in Processes : p \in Nat
               /\ \A tag \in Ways, p \in Processes :
                    \A t \in 1..n : Line(tag, p)[t] \in Int
               /\ \A r, s : Sums(r, s)[0] = 0
  <2>1. ASSUME Sizes, NEW r, NEW s PROVE Sums(r, s)[0] = 0
    <3> DEFINE f == Sums(r, s)
    <3>1. n \in Nat /\ 0 \in 0..n
      BY <2>1, ProcessFacts
    <3>2. f = [t \in 0..n |-> IF t = 0 THEN 0
                              ELSE f[t - 1] + job.mat1[r * n + t]
                                              * job.mat2[(t - 1) * cols + s + 1]]
      BY <3>1, SumsAre
    <3> HIDE DEF f
    <3>3. f[0] = 0
      BY <3>1, <3>2
    <3> QED
      BY <3>3 DEF f
  <2> QED
    BY <2>1, ProcessFacts, LineTypes
<1> QED
  BY <1>1, PTL

\* Before the first turn all of the lines are on their way to the borders.
LEMMA DistributeKeeps ==
  ASSUME JobsAssumption, Distribute, Valid(job')
  PROVE  MeshInv'
<1>1. /\ job' \in Jobs /\ rows' = job'.rows /\ cols' = job'.cols
      /\ n' = Len(job'.mat1) \div rows'
      /\ under' = [ch \in MeshChannels' |-> Sent(ch)]
      /\ phase' = [p \in Processes' |-> "values"] /\ round' = [p \in Processes' |-> 0]
      /\ vecA' = [p \in Processes' |-> <<>>] /\ vecB' = [p \in Processes' |-> <<>>]
      /\ cell' = [p \in Processes' |-> 0] /\ result' = <<>> /\ gathered' = "no"
  BY DEF Distribute, Processes, MeshChannels
<1>2. Sizes'
  BY <1>1 DEF Sizes, Valid
<1>3. /\ (rows * cols)' \in Nat \ {0} /\ n' \in Nat /\ cols' \in Nat \ {0}
      /\ \A p \in Processes' : p \in Nat
      /\ \A tag \in Ways, p \in Processes' : \A t \in 1..n' : Line(tag, p)'[t] \in Int
      /\ \A r, s : Sums(r, s)'[0] = 0
  BY <1>2, LinesNext
<1>4. ASSUME NEW q \in Processes', NEW p \in Processes', NEW tag \in Ways
      PROVE  Sent(<<q, p, tag>>) =
               IF Border(tag, p)' /\ q = 0 THEN Piece(Line(tag, p)', 0, n') ELSE <<>>
  <2>1. CASE tag = "tag_a"
    <3>1. Sent(<<q, p, tag>>) =
            IF q = 0 /\ p % cols' = 0
            THEN [k \in 1..n' |-> job'.mat1[getIndex(p \div cols', k - 1, n') + 1]] ELSE <<>>
      BY <2>1 DEF Sent
    <3>2. ASSUME NEW k \in 1..n'
          PROVE  getIndex(p \div cols', k - 1, n') + 1 = (p \div cols') * n' + (0 + k)
      <4> DEFINE r == p \div cols'
      <4>1. r \in Nat
        BY <1>3, Quotient
      <4> HIDE DEF r
      <4>2. n' * r + (k - 1) + 1 = r * n' + (0 + k)
        BY <1>3, <4>1
      <4> QED
        BY <4>2 DEF r, getIndex
    <3>3. Piece(Line(tag, p)', 0, n') = [k \in 1..n' |-> Line(tag, p)'[0 + k]]
      BY <1>3 DEF Piece
    <3>4. \A k \in 1..n' : Line(tag, p)'[0 + k] = job'.mat1[(p \div cols') * n' + (0 + k)]
      BY <1>3, <2>1 DEF Line
    <3>5. [k \in 1..n' |-> job'.mat1[getIndex(p \div cols', k - 1, n') + 1]]
            = Piece(Line(tag, p)', 0, n')
      BY <3>2, <3>3, <3>4
    <3> QED
      BY <2>1, <3>1, <3>5 DEF Border, leftBorder
  <2>2. CASE tag = "tag_b"
    <3>1. Sent(<<q, p, tag>>) =
            IF q = 0 /\ p < cols'
            THEN [k \in 1..n' |-> job'.mat2[getIndex(k - 1, p, cols') + 1]] ELSE <<>>
      BY <2>2 DEF Sent
    <3>2. ASSUME p < cols', NEW k \in 1..n'
          PROVE  getIndex(k - 1, p, cols') + 1 = ((0 + k) - 1) * cols' + (p % cols') + 1
      <4>1. p % cols' = p
        <5> DEFINE m == cols'
                   zero == 0
        <5>1. p \in 0..m - 1 /\ p \in Nat /\ m \in Nat \ {0} /\ zero \in Int /\ p = m * zero + p
          BY <1>3, <3>2
        <5> HIDE DEF m, zero
        <5>2. p % m = p
          BY <5>1, QuotientIs
        <5> QED
          BY <5>2 DEF m
      <4>2. cols' * (k - 1) + p + 1 = ((0 + k) - 1) * cols' + p + 1
        BY <1>3
      <4> QED
        BY <4>1, <4>2 DEF getIndex
    <3>3. Piece(Line(tag, p)', 0, n') = [k \in 1..n' |-> Line(tag, p)'[0 + k]]
      BY <1>3 DEF Piece
    <3>4. \A k \in 1..n' : Line(tag, p)'[0 + k]
                             = job'.mat2[((0 + k) - 1) * cols' + (p % cols') + 1]
      BY <1>3, <2>2 DEF Line
    <3>5. p < cols' => [k \in 1..n' |-> job'.mat2[getIndex(k - 1, p, cols') + 1]]
                         = Piece(Line(tag, p)', 0, n')
      BY <3>2, <3>3, <3>4
    <3> QED
      BY <2>2, <3>1, <3>5 DEF Border, topBorder
  <2> QED
    BY <2>1, <2>2 DEF Ways
<1>5. ASSUME NEW q \in Processes', NEW p \in Processes'
      PROVE  Sent(<<q, p, "tag_c">>) = <<>>
  BY DEF Sent
<1>6. ASSUME NEW q \in Processes', NEW p \in Processes', NEW tag \in Ways
      PROVE  /\ under'[<<q, p, tag>>] = Sent(<<q, p, tag>>)
             /\ under'[<<q, p, "tag_c">>] = <<>>
  BY <1>1, <1>5 DEF MeshChannels, Ways
<1>7. \A f : Piece(f, 0, 0) = <<>>
  <2>1. ASSUME NEW f PROVE Piece(f, 0, 0) = <<>>
    <3>1. \A j \in 0 + 1..0 : f[j] \in Int
      OBVIOUS
    <3> QED
      BY <3>1, PieceIs
  <2> QED
    BY <2>1
<1>8. MeshTypes'
  <2>1. ASSUME NEW ch \in MeshChannels' PROVE Sent(ch) \in Seq(Int)
    <3>1. PICK q \in Processes', p \in Processes', tag \in {"tag_a", "tag_b", "tag_c"} :
            ch = <<q, p, tag>>
      BY DEF MeshChannels
    <3>2. CASE tag = "tag_c"
      <4>1. <<>> \in Seq(Int) /\ Sent(ch) = <<>>
        BY <1>5, <3>1, <3>2
      <4> QED
        BY <4>1
    <3>3. CASE tag \in Ways
      <4> DEFINE L == Line(tag, p)'
      <4>1. <<>> \in Seq(Int) /\ \A t \in 1..n' : L[t] \in Int
        BY <1>3, <3>3
      <4>2. Sent(ch) \in {<<>>, Piece(L, 0, n')}
        BY <1>4, <3>1, <3>3
      <4> HIDE DEF L
      <4>3. Piece(L, 0, n') \in Seq(Int)
        <5>1. \A t \in 0 + 1..n' : L[t] \in Int
          BY <4>1
        <5>2. 0 \in Nat /\ 0 <= n'
          BY <1>3
        <5> QED
          BY <1>3, <5>1, <5>2, PieceIs
      <4> QED
        BY <4>1, <4>2, <4>3
    <3> QED
      BY <3>2, <3>3 DEF Ways
  <2>2. under' \in [MeshChannels' -> Seq(Int)]
    BY <1>1, <2>1
  <2>3. 0 \in 0..n' /\ <<>> \in Seq(Int) /\ 0 \in Int
    BY <1>3
  <2> QED
    BY <1>1, <2>2, <2>3 DEF MeshTypes
<1>9. Rounds'
  BY <1>1, <1>3 DEF Rounds
<1>10. Owned'
  BY <1>1 DEF Owned, Rest, Own
<1>11. ASSUME NEW tag \in Ways, NEW q \in Processes', NEW p \in Processes'
       PROVE  Flow(tag, q, p)'
  <2>1. round'[p] = 0 /\ round'[q] = 0 /\ phase'[p] = "values"
    BY <1>1
  <2>2. under'[<<q, p, tag>>] =
          IF Border(tag, p)' /\ q = 0 THEN Piece(Line(tag, p)', 0, n') ELSE <<>>
    BY <1>4, <1>6
  <2>3. Piece(Line(tag, p)', 0, 0) = <<>>
    BY <1>7
  <2>4. under'[<<q, p, tag>>] =
          IF Border(tag, p)'
          THEN IF q = 0 /\ phase'[p] = "values" THEN Piece(Line(tag, p)', 0, n') ELSE <<>>
          ELSE IF q = Prev(tag, p)' THEN Piece(Line(tag, p)', round'[p], round'[q]) ELSE <<>>
    <3> DEFINE L == Line(tag, p)'
    <3> HIDE DEF L
    <3> QED
      BY <2>1, <2>2, <2>3 DEF L
  <2> QED
    BY <2>1, <2>4 DEF Flow, Piece
<1>12. Flows'
  BY <1>11 DEF Flows
<1>13. Answers'
  BY <1>1, <1>6 DEF Answers, Ways
<1>14. Gathered'
  BY <1>1, <1>3 DEF Gathered
<1> QED
  BY <1>2, <1>8, <1>9, <1>10, <1>12, <1>13, <1>14 DEF MeshInv

\* A process at the border takes the values that process 0 sent.
LEMMA ValuesKeeps ==
  ASSUME JobsAssumption, MeshInv, gathered = "no", NEW id \in Processes, Values(id)
  PROVE  MeshInv'
<1>1. /\ Sizes' /\ Processes' = Processes /\ MeshChannels' = MeshChannels
      /\ \A tag, p : Line(tag, p)' = Line(tag, p) /\ Border(tag, p)' = Border(tag, p)
                     /\ Prev(tag, p)' = Prev(tag, p)
      /\ \A r, s : Sums(r, s)' = Sums(r, s)
      /\ UNCHANGED <<job, rows, cols, n, round, cell, result, gathered>>
  BY SizesKept DEF MeshInv, Values
<1>2. /\ n \in Nat /\ 0 \in Processes /\ phase[id] = "values" /\ round[id] = 0
      /\ \A p \in Processes : round[p] \in 0..n /\ round[p] \in Nat
      /\ \A p \in Processes : phase'[p] = IF p = id THEN "loop" ELSE phase[p]
      /\ phase' \in [Processes -> {"values", "loop", "end"}]
  BY ProcessFacts DEF MeshInv, MeshTypes, Rounds, Values
<1>3. /\ DOMAIN under = MeshChannels /\ \A ch \in MeshChannels : under[ch] \in Seq(Int)
      /\ <<0, id, "tag_a">> \in MeshChannels /\ <<0, id, "tag_b">> \in MeshChannels
      /\ <<>> \in Seq(Int)
  BY <1>2 DEF MeshInv, MeshTypes, MeshChannels
<1>4. /\ DOMAIN under' = MeshChannels
      /\ under' = [ch \in MeshChannels |->
                     IF \/ ch = <<0, id, "tag_a">> /\ leftBorder(id)
                        \/ ch = <<0, id, "tag_b">> /\ topBorder(id)
                     THEN <<>> ELSE under[ch]]
  <2> DEFINE a  == <<0, id, "tag_a">>
             b  == <<0, id, "tag_b">>
             u1 == [under EXCEPT ![a] = IF leftBorder(id) THEN <<>> ELSE @]
             u2 == [u1 EXCEPT ![b] = IF topBorder(id) THEN <<>> ELSE @]
  <2>1. under' = u2
    BY DEF Values
  <2>2. a # b
    OBVIOUS
  <2> HIDE DEF a, b
  <2>3. /\ DOMAIN u1 = MeshChannels
        /\ \A ch \in MeshChannels :
             u1[ch] = IF ch = a /\ leftBorder(id) THEN <<>> ELSE under[ch]
    BY <1>3 DEF a, b
  <2> HIDE DEF u1
  <2>4. /\ DOMAIN u2 = MeshChannels
        /\ \A ch \in MeshChannels :
             u2[ch] = IF ch = b /\ topBorder(id) THEN <<>> ELSE u1[ch]
    BY <2>3 DEF a, b
  <2>5. u2 = [ch \in MeshChannels |-> u2[ch]]
    BY <2>4
  <2> HIDE DEF u2
  <2>6. \A ch \in MeshChannels :
          u2[ch] = IF (ch = a /\ leftBorder(id)) \/ (ch = b /\ topBorder(id))
                   THEN <<>> ELSE under[ch]
    BY <2>2, <2>3, <2>4
  <2>7. u2 = [ch \in MeshChannels |->
                IF (ch = a /\ leftBorder(id)) \/ (ch = b /\ topBorder(id))
                THEN <<>> ELSE under[ch]]
    BY <2>5, <2>6
  <2> QED
    BY <2>1, <2>4, <2>7 DEF a, b
<1>5. /\ \A q, p \in Processes : under'[<<q, p, "tag_c">>] = under[<<q, p, "tag_c">>]
      /\ \A tag \in Ways, q, p \in Processes :
           under'[<<q, p, tag>>] = IF q = 0 /\ p = id /\ Border(tag, id) THEN <<>>
                                   ELSE under[<<q, p, tag>>]
  BY <1>4 DEF Ways, Border, MeshChannels
<1>6. \A tag \in Ways, p \in Processes :
        Own(tag, p)' = IF p # id THEN Own(tag, p)
                       ELSE IF Border(tag, id) THEN under[<<0, id, tag>>] ELSE <<>>
  BY DEF Values, Own, Border, Ways, MeshInv, MeshTypes
<1>7. Rounds'
  BY <1>1, <1>2 DEF MeshInv, Rounds
<1>8. ASSUME NEW tag \in Ways, NEW p \in Processes
      PROVE  Own(tag, p)' = IF Border(tag, p) /\ phase'[p] # "values"
                            THEN Piece(Line(tag, p), round[p], n) ELSE <<>>
  <2>1. CASE p = id
    <3>1. Border(tag, id) => under[<<0, id, tag>>] = Piece(Line(tag, id), 0, n)
      BY <1>2 DEF MeshInv, Flows, Flow
    <3> QED
      BY <1>2, <1>6, <2>1, <3>1
  <2>2. CASE p # id
    BY <1>2, <1>6, <2>2 DEF MeshInv, Owned, Rest
  <2> QED
    BY <2>1, <2>2
<1>9. Owned'
  <2>1. ASSUME NEW tag \in Ways, NEW p \in Processes'
        PROVE  Rest(tag, p)'
    BY <1>1, <1>8 DEF Rest, Piece
  <2> QED
    BY <2>1 DEF Owned
<1>10. ASSUME NEW tag \in Ways, NEW q \in Processes, NEW p \in Processes
       PROVE  /\ ~Border(tag, p) /\ q = Prev(tag, p) => round[p] <= round[q]
              /\ under'[<<q, p, tag>>] =
                   IF Border(tag, p)
                   THEN IF q = 0 /\ phase'[p] = "values" THEN Piece(Line(tag, p), 0, n)
                        ELSE <<>>
                   ELSE IF q = Prev(tag, p) THEN Piece(Line(tag, p), round[p], round[q])
                        ELSE <<>>
  BY <1>2, <1>5 DEF MeshInv, Flows, Flow
<1>11. Flows'
  <2>1. ASSUME NEW tag \in Ways, NEW q \in Processes', NEW p \in Processes'
        PROVE  Flow(tag, q, p)'
    BY <1>1, <1>10 DEF Flow, Piece
  <2> QED
    BY <2>1 DEF Flows
<1>12. Answers'
  <2>1. ASSUME NEW q \in Processes, NEW p \in Processes
        PROVE  under'[<<q, p, "tag_c">>] =
                 IF p = 0 /\ phase'[q] = "end" /\ Len(result) <= q THEN <<cell[q]>> ELSE <<>>
    BY <1>2, <1>5 DEF MeshInv, Answers
  <2> QED
    BY <1>1, <2>1 DEF Answers
<1>13. Gathered'
  <2>1. ASSUME NEW k \in 1..Len(result) PROVE phase'[k - 1] = "end" /\ result[k] = cell[k - 1]
    <3>1. phase[k - 1] = "end" /\ result[k] = cell[k - 1]
      BY DEF MeshInv, Gathered
    <3>2. phase' = [phase EXCEPT ![id] = "loop"] /\ k - 1 # id
      BY <1>2, <3>1 DEF Values
    <3> QED
      BY <3>1, <3>2 DEF MeshInv, MeshTypes
  <2>2. Len(result) <= rows * cols /\ (gathered = "yes" <=> Len(result) = rows * cols)
    BY DEF MeshInv, Gathered
  <2> QED
    BY <1>1, <2>1, <2>2 DEF Gathered
<1>14. MeshTypes'
  <2>1. under' \in [MeshChannels -> Seq(Int)]
    BY <1>3, <1>4
  <2>2. vecA' \in [Processes -> Seq(Int)] /\ vecB' \in [Processes -> Seq(Int)]
    BY <1>3 DEF Values, MeshInv, MeshTypes
  <2> QED
    BY <1>1, <1>2, <2>1, <2>2 DEF MeshInv, MeshTypes
<1> QED
  BY <1>1, <1>7, <1>9, <1>11, <1>12, <1>13, <1>14 DEF MeshInv

\* A process that is done sends its value.
LEMMA AnswerKeeps ==
  ASSUME JobsAssumption, MeshInv, gathered = "no", NEW id \in Processes, Answer(id)
  PROVE  MeshInv'
<1>1. /\ Sizes' /\ Processes' = Processes /\ MeshChannels' = MeshChannels
      /\ \A tag, p : Line(tag, p)' = Line(tag, p) /\ Border(tag, p)' = Border(tag, p)
                     /\ Prev(tag, p)' = Prev(tag, p) /\ Own(tag, p)' = Own(tag, p)
      /\ \A r, s : Sums(r, s)' = Sums(r, s)
      /\ UNCHANGED <<job, rows, cols, n, round, vecA, vecB, cell, result, gathered>>
  BY SizesKept DEF MeshInv, Answer, Own
<1>2. /\ n \in Nat /\ 0 \in Processes /\ phase[id] = "loop" /\ round[id] = n
      /\ \A p \in Processes : phase'[p] = IF p = id THEN "end" ELSE phase[p]
      /\ phase' \in [Processes -> {"values", "loop", "end"}]
      /\ cell[id] \in Int
  BY ProcessFacts DEF MeshInv, MeshTypes, Answer
<1>3. Len(result) \in Nat /\ Len(result) <= id
  <2>1. Len(result) \in Nat /\ id \in Nat
    BY ProcessFacts DEF MeshInv, MeshTypes
  <2>2. ASSUME id < Len(result) PROVE FALSE
    <3>1. id + 1 \in 1..Len(result) /\ (id + 1) - 1 = id
      BY <2>1, <2>2
    <3>2. phase[(id + 1) - 1] = "end"
      BY <3>1 DEF MeshInv, Gathered
    <3> QED
      BY <1>2, <3>1, <3>2
  <2> QED
    BY <2>1, <2>2
<1>4. /\ <<id, 0, "tag_c">> \in MeshChannels /\ under[<<id, 0, "tag_c">>] = <<>>
      /\ under \in [MeshChannels -> Seq(Int)]
  BY <1>2 DEF MeshInv, MeshTypes, MeshChannels, Answers
<1>5. under' = [under EXCEPT ![<<id, 0, "tag_c">>] = <<cell[id]>>]
  <2>1. Append(<<>>, cell[id]) = <<cell[id]>>
    OBVIOUS
  <2> QED
    BY <1>4, <2>1 DEF Answer
<1>6. /\ \A tag \in Ways, q, p \in Processes : under'[<<q, p, tag>>] = under[<<q, p, tag>>]
      /\ \A q, p \in Processes :
           under'[<<q, p, "tag_c">>] = IF q = id /\ p = 0 THEN <<cell[id]>>
                                       ELSE under[<<q, p, "tag_c">>]
  BY <1>4, <1>5 DEF Ways, MeshChannels
<1>7. Rounds'
  BY <1>1, <1>2 DEF MeshInv, Rounds
<1>8. Owned'
  <2>1. ASSUME NEW tag \in Ways, NEW p \in Processes
        PROVE  Own(tag, p) = IF Border(tag, p) /\ phase'[p] # "values"
                             THEN Piece(Line(tag, p), round[p], n) ELSE <<>>
    BY <1>2 DEF MeshInv, Owned, Rest
  <2>2. ASSUME NEW tag \in Ways, NEW p \in Processes'
        PROVE  Rest(tag, p)'
    BY <1>1, <2>1 DEF Rest, Piece
  <2> QED
    BY <2>2 DEF Owned
<1>9. Flows'
  <2>1. ASSUME NEW tag \in Ways, NEW q \in Processes, NEW p \in Processes
        PROVE  /\ ~Border(tag, p) /\ q = Prev(tag, p) => round[p] <= round[q]
               /\ under'[<<q, p, tag>>] =
                    IF Border(tag, p)
                    THEN IF q = 0 /\ phase'[p] = "values" THEN Piece(Line(tag, p), 0, n)
                         ELSE <<>>
                    ELSE IF q = Prev(tag, p) THEN Piece(Line(tag, p), round[p], round[q])
                         ELSE <<>>
    BY <1>2, <1>6 DEF MeshInv, Flows, Flow
  <2>2. ASSUME NEW tag \in Ways, NEW q \in Processes', NEW p \in Processes'
        PROVE  Flow(tag, q, p)'
    BY <1>1, <2>1 DEF Flow, Piece
  <2> QED
    BY <2>2 DEF Flows
<1>10. Answers'
  <2>1. ASSUME NEW q \in Processes, NEW p \in Processes
        PROVE  under'[<<q, p, "tag_c">>] =
                 IF p = 0 /\ phase'[q] = "end" /\ Len(result) <= q THEN <<cell[q]>> ELSE <<>>
    BY <1>2, <1>3, <1>6 DEF MeshInv, Answers
  <2> QED
    BY <1>1, <2>1 DEF Answers
<1>11. Gathered'
  <2>1. ASSUME NEW k \in 1..Len(result) PROVE phase'[k - 1] = "end" /\ result[k] = cell[k - 1]
    <3>1. phase[k - 1] = "end" /\ result[k] = cell[k - 1]
      BY DEF MeshInv, Gathered
    <3>2. phase' = [phase EXCEPT ![id] = "end"] /\ k - 1 # id
      BY <1>2, <3>1 DEF Answer
    <3> QED
      BY <3>1, <3>2 DEF MeshInv, MeshTypes
  <2>2. Len(result) <= rows * cols /\ (gathered = "yes" <=> Len(result) = rows * cols)
    BY DEF MeshInv, Gathered
  <2> QED
    BY <1>1, <2>1, <2>2 DEF Gathered
<1>12. MeshTypes'
  <2>1. <<cell[id]>> \in Seq(Int)
    BY <1>2
  <2>2. under' \in [MeshChannels -> Seq(Int)]
    BY <1>4, <1>5, <2>1
  <2> QED
    BY <1>1, <1>2, <2>2 DEF MeshInv, MeshTypes
<1> QED
  BY <1>1, <1>7, <1>8, <1>9, <1>10, <1>11, <1>12 DEF MeshInv

\* Process 0 takes the value of the next process.
LEMMA GatherKeeps ==
  ASSUME JobsAssumption, MeshInv, Gather
  PROVE  MeshInv'
<1> DEFINE from == Len(result)
<1>1. /\ Sizes' /\ Processes' = Processes /\ MeshChannels' = MeshChannels
      /\ \A tag, p : Line(tag, p)' = Line(tag, p) /\ Border(tag, p)' = Border(tag, p)
                     /\ Prev(tag, p)' = Prev(tag, p) /\ Own(tag, p)' = Own(tag, p)
      /\ \A r, s : Sums(r, s)' = Sums(r, s)
      /\ UNCHANGED <<job, rows, cols, n, phase, round, vecA, vecB, cell>>
  BY SizesKept DEF MeshInv, Gather, Own
<1>2. /\ from \in Nat /\ from <= rows * cols /\ from # rows * cols
      /\ rows * cols \in Nat /\ 0 \in Processes /\ result \in Seq(Int)
      /\ \A p \in Processes : p \in Nat
  BY ProcessFacts DEF MeshInv, MeshTypes, Gathered, Gather
<1>3. from \in Processes
  <2> DEFINE m == rows * cols
  <2> HIDE DEF m, from
  <2>1. from \in 0..m - 1
    BY <1>2 DEF m
  <2> QED
    BY <2>1 DEF m, Processes
<1>4. /\ phase[from] = "end" /\ under[<<from, 0, "tag_c">>] = <<cell[from]>>
      /\ cell[from] \in Int /\ <<from, 0, "tag_c">> \in MeshChannels
      /\ under \in [MeshChannels -> Seq(Int)]
  BY <1>2, <1>3 DEF MeshInv, MeshTypes, Answers, Gather, MeshChannels
<1>5. /\ result' = Append(result, cell[from]) /\ under' = [under EXCEPT ![<<from, 0, "tag_c">>] = <<>>]
      /\ gathered' = IF from + 1 = rows * cols THEN "yes" ELSE "no"
  <2>1. Head(<<cell[from]>>) = cell[from] /\ Tail(<<cell[from]>>) = <<>>
    OBVIOUS
  <2> QED
    BY <1>4, <2>1 DEF Gather
<1>6. /\ result' \in Seq(Int) /\ Len(result') = from + 1
      /\ \A k \in 1..from : result'[k] = result[k]
      /\ result'[from + 1] = cell[from]
  BY <1>2, <1>4, <1>5, AppendProperties
<1>7. /\ \A tag \in Ways, q, p \in Processes : under'[<<q, p, tag>>] = under[<<q, p, tag>>]
      /\ \A q, p \in Processes :
           under'[<<q, p, "tag_c">>] = IF q = from /\ p = 0 THEN <<>>
                                       ELSE under[<<q, p, "tag_c">>]
  BY <1>3, <1>4, <1>5 DEF Ways, MeshChannels
<1> HIDE DEF from
<1>8. Rounds'
  BY <1>1 DEF MeshInv, Rounds
<1>9. Owned'
  <2>1. ASSUME NEW tag \in Ways, NEW p \in Processes'
        PROVE  Rest(tag, p)'
    BY <1>1 DEF Piece, MeshInv, Owned, Rest
  <2> QED
    BY <2>1 DEF Owned, Rest
<1>10. Flows'
  <2>1. ASSUME NEW tag \in Ways, NEW q \in Processes, NEW p \in Processes
        PROVE  /\ ~Border(tag, p) /\ q = Prev(tag, p) => round[p] <= round[q]
               /\ under'[<<q, p, tag>>] =
                    IF Border(tag, p)
                    THEN IF q = 0 /\ phase[p] = "values" THEN Piece(Line(tag, p), 0, n)
                         ELSE <<>>
                    ELSE IF q = Prev(tag, p) THEN Piece(Line(tag, p), round[p], round[q])
                         ELSE <<>>
    BY <1>7 DEF MeshInv, Flows, Flow
  <2>2. ASSUME NEW tag \in Ways, NEW q \in Processes', NEW p \in Processes'
        PROVE  Flow(tag, q, p)'
    BY <1>1, <2>1 DEF Flow, Piece
  <2> QED
    BY <2>2 DEF Flows
<1>11. Answers'
  <2>1. ASSUME NEW q \in Processes, NEW p \in Processes
        PROVE  under'[<<q, p, "tag_c">>] =
                 IF p = 0 /\ phase[q] = "end" /\ Len(result') <= q THEN <<cell[q]>> ELSE <<>>
    <3>1. under[<<q, p, "tag_c">>] =
            IF p = 0 /\ phase[q] = "end" /\ from <= q THEN <<cell[q]>> ELSE <<>>
      BY DEF MeshInv, Answers, from
    <3>2. q # from => (from <= q <=> Len(result') <= q)
      BY <1>2, <1>6
    <3>3. ~(from + 1 <= from)
      BY <1>2
    <3> QED
      BY <1>6, <1>7, <3>1, <3>2, <3>3
  <2> QED
    BY <1>1, <2>1 DEF Answers
<1>12. Gathered'
  <2>1. ASSUME NEW k \in 1..Len(result') PROVE phase[k - 1] = "end" /\ result'[k] = cell[k - 1]
    <3>1. CASE k \in 1..from
      BY <1>6, <3>1 DEF MeshInv, Gathered, from
    <3>2. CASE k = from + 1
      <4>1. k - 1 = from
        BY <1>2, <3>2
      <4> QED
        BY <1>4, <1>6, <3>2, <4>1
    <3> QED
      BY <1>2, <1>6, <3>1, <3>2
  <2>2. /\ Len(result') <= rows * cols
        /\ gathered' = "yes" <=> Len(result') = rows * cols
    <3> DEFINE m == rows * cols
    <3> HIDE DEF m
    <3>1. /\ from + 1 <= m /\ (gathered' = "yes" <=> from + 1 = m)
      BY <1>2, <1>5 DEF m
    <3> QED
      BY <1>6, <3>1 DEF m
  <2> QED
    BY <1>1, <2>1, <2>2 DEF Gathered
<1>13. MeshTypes'
  <2>1. under' \in [MeshChannels -> Seq(Int)]
    BY <1>4, <1>5
  <2> QED
    BY <1>1, <1>5, <1>6, <2>1 DEF MeshInv, MeshTypes
<1> QED
  BY <1>1, <1>8, <1>9, <1>10, <1>11, <1>12, <1>13 DEF MeshInv

\* When the last value is there, every process is at the end and nothing is under way.
LEMMA MeshEnd ==
  ASSUME JobsAssumption, MeshInvariant
  PROVE  MultipliesMatrices
<1>1. SUFFICES ASSUME gathered = "yes"
               PROVE  /\ result = [k \in 1..rows * cols |->
                                     Sums((k - 1) \div cols, (k - 1) % cols)[n]]
                      /\ \A ch \in DOMAIN under : under[ch] = <<>>
  BY DEF MultipliesMatrices
<1>2. MeshInv
  BY <1>1 DEF MeshInvariant
<1>3. /\ rows * cols \in Nat /\ n \in Nat /\ result \in Seq(Int) /\ Len(result) = rows * cols
      /\ \A k \in 1..Len(result) : phase[k - 1] = "end" /\ result[k] = cell[k - 1]
      /\ \A p \in Processes : p \in Nat
  BY <1>1, <1>2, ProcessFacts DEF MeshInv, MeshTypes, Gathered
<1> DEFINE m == rows * cols
<1>4. m \in Nat /\ Processes = 0..m - 1
  BY <1>3 DEF Processes
<1>5. \A p \in Processes : phase[p] = "end" /\ round[p] = n
  <2> HIDE DEF m
  <2>1. ASSUME NEW p \in Processes PROVE phase[p] = "end"
    <3>1. p + 1 \in 1..m /\ (p + 1) - 1 = p
      BY <1>3, <1>4
    <3> QED
      BY <1>3, <3>1 DEF m
  <2> QED
    BY <1>2, <2>1 DEF MeshInv, Rounds
<1>6. ASSUME NEW k \in 1..m
      PROVE  result[k] = Sums((k - 1) \div cols, (k - 1) % cols)[n]
  <2>1. k - 1 \in Processes
    <3> HIDE DEF m
    <3> QED
      BY <1>3, <1>4
  <2>2. result[k] = cell[k - 1] /\ round[k - 1] = n
    BY <1>3, <1>5, <2>1
  <2> QED
    BY <1>2, <2>1, <2>2 DEF MeshInv, Rounds
<1>7. result = [k \in 1..m |-> result[k]]
  <2> HIDE DEF m
  <2> QED
    BY <1>3 DEF m
<1>8. ASSUME NEW ch \in DOMAIN under PROVE under[ch] = <<>>
  <2>1. PICK q \in Processes, p \in Processes, tag \in {"tag_a", "tag_b", "tag_c"} :
          ch = <<q, p, tag>>
    BY <1>2 DEF MeshInv, MeshTypes, MeshChannels
  <2>2. CASE tag = "tag_c"
    <3>1. q < Len(result)
      <4> HIDE DEF m
      <4> QED
        BY <1>3, <1>4 DEF m
    <3>2. ~(Len(result) <= q)
      BY <1>3, <3>1
    <3> QED
      BY <1>2, <2>1, <2>2, <3>2 DEF MeshInv, Answers
  <2>3. CASE tag \in Ways
    <3> DEFINE L == Line(tag, p)
    <3>1. Piece(L, n, n) = <<>>
      <4>1. \A t \in n + 1..n : L[t] \in Int
        BY <1>3
      <4> HIDE DEF L
      <4> QED
        BY <1>3, <4>1, PieceIs
    <3>2. round[p] = n /\ round[q] = n /\ phase[p] # "values"
      BY <1>5
    <3>3. under[<<q, p, tag>>] \in {<<>>, Piece(L, round[p], round[q])}
      BY <1>2, <2>3, <3>2 DEF MeshInv, Flows, Flow
    <3> QED
      BY <2>1, <3>1, <3>2, <3>3
  <2> QED
    BY <2>2, <2>3 DEF Ways
<1>9. [k \in 1..m |-> result[k]]
        = [k \in 1..m |-> Sums((k - 1) \div cols, (k - 1) % cols)[n]]
  BY <1>6
<1> QED
  BY <1>7, <1>8, <1>9

\* mm.cpp: what process 0 writes is the product of the matrices, for files with any numbers
\* and in whatever order the processes of the mesh run; no value is left under way.
THEOREM MeshMultiplies ==
  ASSUME JobsAssumption
  PROVE  MeshSpec => []MultipliesMatrices
<1>1. MeshInit => MeshInvariant
  BY DEF MeshInit, MeshInvariant
<1>2. MeshInvariant /\ [MeshNext]_meshVars => MeshInvariant'
  <2>1. SUFFICES ASSUME MeshInvariant, [MeshNext]_meshVars PROVE MeshInvariant'
    OBVIOUS
  <2>2. CASE Distribute
    <3>1. CASE Valid(job')
      BY <2>2, <3>1, DistributeKeeps DEF MeshInvariant
    <3>2. CASE ~Valid(job')
      BY <2>2, <3>2 DEF Distribute, MeshInvariant
    <3> QED
      BY <3>1, <3>2
  <2>3. CASE Gather
    BY <2>1, <2>3, GatherKeeps DEF MeshInvariant, Gather
  <2>4. ASSUME gathered = "no", NEW id \in Processes, Values(id) \/ Turn(id) \/ Answer(id)
        PROVE  MeshInvariant'
    BY <2>1, <2>4, ValuesKeeps, TurnKeeps, AnswerKeeps DEF MeshInvariant
  <2>5. CASE UNCHANGED meshVars
    <3>1. /\ UNCHANGED <<job, rows, cols, n, under, phase, round, vecA, vecB, cell, result, gathered>>
      BY <2>5 DEF meshVars
    <3>2. ASSUME MeshInv PROVE MeshInv'
      <4>1. /\ Sizes' /\ Processes' = Processes /\ MeshChannels' = MeshChannels
            /\ \A tag, p : Line(tag, p)' = Line(tag, p) /\ Border(tag, p)' = Border(tag, p)
                           /\ Prev(tag, p)' = Prev(tag, p)
            /\ \A r, s : Sums(r, s)' = Sums(r, s)
        BY <3>1, <3>2, SizesKept DEF MeshInv
      <4>2. MeshTypes' /\ Rounds' /\ Answers' /\ Gathered'
        BY <3>1, <3>2, <4>1 DEF MeshInv, MeshTypes, Rounds, Answers, Gathered
      <4>3. Owned'
        BY <3>1, <3>2, <4>1 DEF MeshInv, Owned, Rest, Own, Piece
      <4>4. ASSUME NEW tag \in Ways, NEW q \in Processes', NEW p \in Processes'
            PROVE  Flow(tag, q, p)'
        BY <3>1, <3>2, <4>1 DEF MeshInv, Flows, Flow, Piece
      <4>5. Flows'
        BY <4>4 DEF Flows
      <4> QED
        BY <4>1, <4>2, <4>3, <4>5 DEF MeshInv
    <3> QED
      BY <2>1, <3>1, <3>2 DEF MeshInvariant
  <2> QED
    BY <2>1, <2>2, <2>3, <2>4, <2>5 DEF MeshNext
<1>3. MeshInvariant => MultipliesMatrices
  BY MeshEnd
<1> QED
  BY <1>1, <1>2, <1>3, PTL DEF MeshSpec

-----------------------------------------------------------------------------
(* The ticket lock: the inductive invariant.                               *)

\* The places of a thread whose ticket is still to be served, and of those who
\* have printed it already.
Holding == {"await", "check", "block", "asleep", "woken", "print", "unlock",
            "load", "store"}
Passing == {"unlock", "load", "store"}

\* Tickets are drawn once, and not passed over.
TicketInv ==
  /\ actualTicket <= nextTicket + 1
  /\ \A t \in Threads : pc[t] \in Holding => ticket[t] \in actualTicket..nextTicket
  /\ \A t, u \in Threads :
       t # u /\ pc[t] \in Holding /\ pc[u] \in Holding => ticket[t] # ticket[u]

\* Whoever has left await holds the actual ticket, and increments that.
TurnInv == /\ \A t \in Serving : ticket[t] = actualTicket
           /\ \A t \in Threads : pc[t] = "store" => loaded[t] = actualTicket

\* The tickets below the actual one are printed; so is the actual one when its
\* thread is passing the turn on.
PrintInv == /\ InOrder
            /\ (\E t \in Threads : pc[t] \in Passing) =>
                 Len(printed) = actualTicket + 1
            /\ (\A t \in Threads : pc[t] \notin Passing) =>
                 Len(printed) = actualTicket

IInv == TypeOK /\ TicketInv /\ TurnInv /\ PrintInv

LEMMA InvInit == Init => IInv
BY TicketAssumption
DEF Init, IInv, TypeOK, Places, TicketInv, TurnInv, PrintInv, InOrder, Holding,
    Passing, Serving

-----------------------------------------------------------------------------
(* The steps of the ticket lock.                                           *)

\* A step of one thread that draws, prints and passes on nothing, and does not
\* enter the critical section.
LEMMA QuietStep ==
  ASSUME IInv, NEW t \in Threads, NEW to \in Places,
         pc' = [pc EXCEPT ![t] = to],
         pc[t] \notin Passing \cup {"print"},
         to \in Holding => pc[t] \in Holding,
         to \notin Passing \cup {"print"},
         owner' \in Threads \cup {NoThread},
         UNCHANGED <<ticket, loaded, nextTicket, actualTicket, printed, main>>
  PROVE  IInv'
<1> USE DEF IInv, TypeOK, Places
<1>1. TypeOK'
  OBVIOUS
<1>2. TicketInv'
  BY DEF TicketInv, Holding
<1>3. TurnInv'
  BY DEF TurnInv, Serving, Passing
<1>4. PrintInv'
  BY DEF PrintInv, InOrder, Passing
<1> QED
  BY <1>1, <1>2, <1>3, <1>4

LEMMA GetTicketStep ==
  ASSUME IInv, NEW t \in Threads, GetTicket(t)
  PROVE  IInv'
<1> USE DEF IInv, TypeOK, Places, GetTicket, Goto
<1>1. TypeOK'
  OBVIOUS
<1>2. TicketInv'
  BY DEF TicketInv, Holding
<1>3. TurnInv'
  BY DEF TurnInv, Serving
<1>4. PrintInv'
  BY DEF PrintInv, InOrder, Passing
<1> QED
  BY <1>1, <1>2, <1>3, <1>4

LEMMA CheckStep ==
  ASSUME IInv, NEW t \in Threads, Check(t)
  PROVE  IInv'
<1> USE DEF IInv, TypeOK, Places, Check, Goto, MyTurn
<1>1. TypeOK'
  OBVIOUS
<1>2. TicketInv'
  BY DEF TicketInv, Holding
<1>3. TurnInv'
  BY DEF TurnInv, Serving
<1>4. PrintInv'
  BY DEF PrintInv, InOrder, Passing
<1> QED
  BY <1>1, <1>2, <1>3, <1>4

LEMMA PrintStep ==
  ASSUME IInv, NEW t \in Threads, PrintTicket(t)
  PROVE  IInv'
<1> USE DEF IInv, TypeOK, Places, PrintTicket, Goto
<1>1. ticket[t] = actualTicket /\ pc[t] = "print" /\ pc'[t] = "unlock"
  BY DEF TurnInv, Serving
<1>2. \A u \in Threads : pc[u] \notin Passing
  BY <1>1 DEF TurnInv, TicketInv, Serving, Holding, Passing
<1>3. Len(printed) = actualTicket
  BY <1>2 DEF PrintInv
<1>4. /\ printed' \in Seq(Nat)
      /\ Len(printed') = actualTicket + 1
      /\ \A k \in 1..Len(printed') :
           printed'[k] = IF k = Len(printed) + 1 THEN ticket[t] ELSE printed[k]
  BY <1>1, <1>3
<1>5. TypeOK'
  BY <1>4
<1>6. TicketInv'
  BY DEF TicketInv, Holding
<1>7. TurnInv'
  BY DEF TurnInv, Serving
<1>8. InOrder'
  BY <1>1, <1>3, <1>4 DEF PrintInv, InOrder
<1>9. PrintInv'
  BY <1>1, <1>4, <1>8 DEF PrintInv, Passing
<1> QED
  BY <1>5, <1>6, <1>7, <1>9

LEMMA ReleaseLoadStep ==
  ASSUME IInv, NEW t \in Threads, Release(t) \/ Load(t)
  PROVE  IInv'
<1> USE DEF IInv, TypeOK, Places, Release, Load, Goto, Unlock
<1>1. TypeOK'
  OBVIOUS
<1>2. TicketInv'
  BY DEF TicketInv, Holding
<1>3. TurnInv'
  BY DEF TurnInv, Serving
<1>4. pc[t] \in Passing /\ pc'[t] \in Passing
  BY DEF Passing
<1>5. PrintInv'
  BY <1>4 DEF PrintInv, InOrder
<1> QED
  BY <1>1, <1>2, <1>3, <1>5

LEMMA StoreStep ==
  ASSUME IInv, NEW t \in Threads, Store(t)
  PROVE  IInv'
<1> USE DEF IInv, TypeOK, Places, Store, Goto, Increment
<1>1. /\ pc[t] = "store" /\ pc'[t] = "broadcast"
      /\ ticket[t] = actualTicket /\ actualTicket' = actualTicket + 1
  BY DEF TurnInv, Serving
<1>2. \A u \in Threads : u # t => pc[u] \notin Passing \cup {"print"}
  BY <1>1 DEF TurnInv, TicketInv, Serving, Holding, Passing
<1>3. TypeOK'
  BY <1>1
<1>4. TicketInv'
  <2>1. actualTicket' <= nextTicket' + 1
    BY <1>1 DEF TicketInv, Holding
  <2>2. \A u \in Threads : pc'[u] \in Holding =>
                             u # t /\ pc[u] \in Holding
    BY <1>1 DEF Holding
  <2>3. \A u \in Threads : pc'[u] \in Holding =>
                             ticket'[u] \in actualTicket'..nextTicket'
    <3> SUFFICES ASSUME NEW u \in Threads, pc'[u] \in Holding
                 PROVE  ticket'[u] \in actualTicket'..nextTicket'
      OBVIOUS
    <3>1. ticket[u] \in actualTicket..nextTicket /\ ticket[u] # ticket[t]
      BY <1>1, <2>2 DEF TicketInv, Holding
    <3> QED
      BY <1>1, <3>1
  <2> QED
    BY <2>1, <2>2, <2>3 DEF TicketInv
<1>5. TurnInv'
  BY <1>1, <1>2 DEF TurnInv, Serving, Passing
<1>6. Len(printed) = actualTicket + 1
  BY <1>1 DEF PrintInv, Passing
<1>7. PrintInv'
  BY <1>1, <1>2, <1>6 DEF PrintInv, InOrder, Passing
<1> QED
  BY <1>3, <1>4, <1>5, <1>7

LEMMA BroadcastStep ==
  ASSUME IInv, NEW t \in Threads, Broadcast(t)
  PROVE  IInv'
<1> USE DEF IInv, TypeOK, Places, Broadcast
<1>1. TypeOK'
  OBVIOUS
<1>2. \A u \in Threads : /\ pc'[u] \in Holding => pc[u] \in Holding
                         /\ pc'[u] \in Passing <=> pc[u] \in Passing
                         /\ pc'[u] = "print" <=> pc[u] = "print"
                         /\ pc'[u] = "store" <=> pc[u] = "store"
  BY DEF Holding, Passing
<1>3. TicketInv'
  BY <1>2 DEF TicketInv
<1>4. TurnInv'
  BY <1>2 DEF TurnInv, Serving, Passing
<1>5. PrintInv'
  BY <1>2 DEF PrintInv, InOrder
<1> QED
  BY <1>1, <1>3, <1>4, <1>5

LEMMA InvNext == IInv /\ [Next]_vars => IInv'
<1> SUFFICES ASSUME IInv, [Next]_vars
             PROVE  IInv'
  OBVIOUS
<1>1. ASSUME NEW t \in Threads,
             Create(t) \/ Await(t) \/ Block(t) \/ WakeUp(t) \/ Resume(t)
      PROVE  IInv'
  <2>1. CASE Create(t)
    BY <2>1, QuietStep
    DEF Create, Goto, IInv, TypeOK, Places, Passing, Holding
  <2>2. CASE Await(t)
    BY <2>2, QuietStep DEF Await, Goto, Lock, Places, Passing, Holding
  <2>3. CASE Block(t)
    BY <2>3, QuietStep DEF Block, Goto, Unlock, Places, Passing, Holding
  <2>4. CASE WakeUp(t)
    BY <2>4, QuietStep
    DEF WakeUp, Goto, IInv, TypeOK, Places, Passing, Holding
  <2>5. CASE Resume(t)
    BY <2>5, QuietStep DEF Resume, Goto, Lock, Places, Passing, Holding
  <2> QED
    BY <1>1, <2>1, <2>2, <2>3, <2>4, <2>5
<1>2. ASSUME Joining \/ Exit \/ UNCHANGED vars
      PROVE  IInv'
  <2>1. /\ main' \in {"create", "join", "exit"}
        /\ UNCHANGED <<pc, ticket, loaded, nextTicket, actualTicket, owner,
                       printed>>
    BY <1>2 DEF Joining, Exit, vars, IInv, TypeOK
  <2> QED
    BY <2>1 DEF IInv, TypeOK, TicketInv, TurnInv, PrintInv, InOrder, Serving
<1> QED
  BY <1>1, <1>2, GetTicketStep, CheckStep, PrintStep, ReleaseLoadStep, StoreStep,
     BroadcastStep
  DEF Next, Worker

-----------------------------------------------------------------------------
(* Every ticket below the limit is served.                                 *)

\* No ticket below the limit is lost: it is printed, not yet drawn, or held by a
\* thread; and the workers leave only when all of them are drawn.
HeldInv ==
  /\ actualTicket <= PassThroughs
  /\ \A t \in Threads : pc[t] \in Holding => ticket[t] < PassThroughs
  /\ \A k \in actualTicket..nextTicket :
       k < PassThroughs => \E t \in Threads : pc[t] \in Holding /\ ticket[t] = k
  /\ \A t \in Threads : pc[t] = "exit" => nextTicket >= PassThroughs
  /\ main = "exit" => \A t \in Threads : pc[t] = "exit"

\* A step that draws no ticket and leaves the actual one as it is.
LEMMA HeldQuietly ==
  ASSUME IInv, HeldInv,
         \A t \in Threads : /\ pc[t] \in Holding <=> pc'[t] \in Holding
                            /\ pc[t] = "exit" <=> pc'[t] = "exit",
         main' = "exit" => main = "exit" \/ \A t \in Threads : pc[t] = "exit",
         UNCHANGED <<ticket, nextTicket, actualTicket>>
  PROVE  HeldInv'
<1>1. \A k \in actualTicket'..nextTicket' :
        k < PassThroughs => \E t \in Threads : pc'[t] \in Holding /\ ticket'[t] = k
  BY DEF HeldInv
<1> QED
  BY <1>1 DEF HeldInv

LEMMA HeldGetTicket ==
  ASSUME IInv, HeldInv, NEW t \in Threads, GetTicket(t)
  PROVE  HeldInv'
<1> USE DEF IInv, TypeOK, Places, GetTicket, Goto, BelowLimit
<1>1. /\ pc[t] = "get" /\ pc' = [pc EXCEPT ![t] = IF nextTicket + 1 < PassThroughs
                                                  THEN "await" ELSE "exit"]
      /\ nextTicket' = nextTicket + 1 /\ ticket' = [ticket EXCEPT ![t] = nextTicket + 1]
      /\ actualTicket' = actualTicket /\ main' = main
  OBVIOUS
<1>2. \A u \in Threads : pc'[u] \in Holding => ticket'[u] < PassThroughs
  BY <1>1 DEF HeldInv, Holding
<1>3. ASSUME NEW k \in actualTicket'..nextTicket', k < PassThroughs
      PROVE  \E u \in Threads : pc'[u] \in Holding /\ ticket'[u] = k
  <2>1. CASE k = nextTicket + 1
    BY <1>1, <1>3, <2>1, TicketAssumption DEF Holding
  <2>2. CASE k # nextTicket + 1
    <3>1. k \in actualTicket..nextTicket
      BY <1>1, <2>2
    <3>2. PICK u \in Threads : pc[u] \in Holding /\ ticket[u] = k
      BY <1>3, <3>1 DEF HeldInv
    <3>3. u # t
      BY <1>1, <3>2 DEF Holding
    <3> QED
      BY <1>1, <3>2, <3>3
  <2> QED
    BY <2>1, <2>2
<1>4. \A u \in Threads : pc'[u] = "exit" => nextTicket' >= PassThroughs
  BY <1>1, TicketAssumption DEF HeldInv
<1>5. actualTicket' <= PassThroughs
  BY <1>1 DEF HeldInv
<1>6. main' # "exit"
  BY <1>1 DEF HeldInv
<1> QED
  BY <1>2, <1>3, <1>4, <1>5, <1>6 DEF HeldInv

LEMMA HeldStore ==
  ASSUME IInv, HeldInv, NEW t \in Threads, Store(t)
  PROVE  HeldInv'
<1> USE DEF IInv, TypeOK, Places, Store, Goto, Increment
<1>1. /\ pc[t] = "store" /\ pc' = [pc EXCEPT ![t] = "broadcast"]
      /\ ticket[t] = actualTicket /\ actualTicket' = actualTicket + 1
      /\ UNCHANGED <<ticket, nextTicket, main>>
  BY DEF TurnInv, Serving
<1>2. actualTicket' <= PassThroughs
  BY <1>1, TicketAssumption DEF HeldInv, Holding
<1>3. ASSUME NEW k \in actualTicket'..nextTicket', k < PassThroughs
      PROVE  \E u \in Threads : pc'[u] \in Holding /\ ticket'[u] = k
  <2>1. k \in actualTicket..nextTicket /\ k # actualTicket
    BY <1>1
  <2>2. PICK u \in Threads : pc[u] \in Holding /\ ticket[u] = k
    BY <1>3, <2>1 DEF HeldInv
  <2>3. u # t
    BY <1>1, <2>1, <2>2
  <2> QED
    BY <1>1, <2>2, <2>3
<1>4. \A u \in Threads : pc'[u] \in Holding => ticket'[u] < PassThroughs
  BY <1>1 DEF HeldInv, Holding
<1>5. \A u \in Threads : pc'[u] = "exit" => nextTicket' >= PassThroughs
  BY <1>1 DEF HeldInv
<1>6. main' # "exit"
  BY <1>1 DEF HeldInv
<1> QED
  BY <1>2, <1>3, <1>4, <1>5, <1>6 DEF HeldInv

LEMMA HeldNext == IInv /\ HeldInv /\ [Next]_vars => HeldInv'
<1> SUFFICES ASSUME IInv, HeldInv, [Next]_vars
             PROVE  HeldInv'
  OBVIOUS
<1> USE DEF IInv, TypeOK, Places, Holding
<1>1. ASSUME NEW t \in Threads, Create(t) \/ WakeUp(t) \/ Broadcast(t)
      PROVE  HeldInv'
  BY <1>1, HeldQuietly DEF Create, WakeUp, Broadcast, Goto
<1>2. ASSUME NEW t \in Threads, Await(t) \/ Check(t) \/ Block(t) \/ Resume(t)
      PROVE  HeldInv'
  BY <1>2, HeldQuietly DEF Await, Check, Block, Resume, Goto
<1>3. ASSUME NEW t \in Threads, PrintTicket(t) \/ Release(t) \/ Load(t)
      PROVE  HeldInv'
  BY <1>3, HeldQuietly DEF PrintTicket, Release, Load, Goto
<1>4. ASSUME Joining \/ Exit \/ UNCHANGED vars
      PROVE  HeldInv'
  BY <1>4, HeldQuietly DEF Joining, Exit, vars
<1> QED
  BY <1>1, <1>2, <1>3, <1>4, HeldGetTicket, HeldStore DEF Next, Worker

-----------------------------------------------------------------------------
(* The theorems.                                                           *)

LEMMA InvAlways == Spec => []IInv
BY InvInit, InvNext, PTL DEF Spec

\* Every variable keeps its type.
THEOREM TypeCorrect == Spec => []TypeOK
<1>1. IInv => TypeOK
  BY DEF IInv
<1> QED
  BY <1>1, InvAlways, PTL

\* The tickets are printed in their order, none twice and none left out.
THEOREM TicketsInOrder == Spec => []InOrder
<1>1. IInv => InOrder
  BY DEF IInv, PrintInv
<1> QED
  BY <1>1, InvAlways, PTL

\* At most one thread prints and passes the turn on, though it gives the mutex
\* back before it increments the variable that the others compare with.
THEOREM OneAtATime == Spec => []OneServed
<1>1. IInv => OneServed
  BY DEF IInv, TypeOK, TicketInv, TurnInv, OneServed, Serving, Holding
<1> QED
  BY <1>1, InvAlways, PTL

\* When the workers have been joined every ticket below the limit was served: none
\* was lost on the way from getticket to advance.  (Without a worker nothing is.)
THEOREM AllTicketsServed ==
  ASSUME Threads # {}
  PROVE  Spec => []AllServed
<1>1. Init => HeldInv
  BY TicketAssumption DEF Init, HeldInv, Holding
<1>2. IInv /\ HeldInv => AllServed
  <2> SUFFICES ASSUME IInv, HeldInv, main = "exit"
               PROVE  Len(printed) = PassThroughs
    BY DEF AllServed
  <2>1. PICK t \in Threads : TRUE
    OBVIOUS
  <2>2. \A u \in Threads : pc[u] = "exit" /\ pc[u] \notin Holding
    BY DEF HeldInv, Holding
  <2>3. nextTicket >= PassThroughs
    BY <2>1, <2>2 DEF HeldInv
  <2>4. ~(actualTicket < PassThroughs)
    <3> SUFFICES ASSUME actualTicket < PassThroughs
                 PROVE  FALSE
      OBVIOUS
    <3>1. actualTicket \in actualTicket..nextTicket
      BY <2>3, TicketAssumption DEF IInv, TypeOK
    <3> QED
      BY <2>2, <3>1 DEF HeldInv
  <2>5. Len(printed) = actualTicket
    BY <2>2 DEF IInv, PrintInv, Passing
  <2> QED
    BY <2>4, <2>5, TicketAssumption DEF HeldInv, IInv, TypeOK
<1> QED
  BY <1>1, <1>2, HeldNext, InvAlways, PTL DEF Spec
=============================================================================
