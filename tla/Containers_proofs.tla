-------------------------- MODULE Containers_proofs -------------------------
(***************************************************************************)
(* Four containers of IAL implement what they promise, for every size of   *)
(* the memory and every set of values.                                     *)
(*                                                                         *)
(* The queue in an array (RingQueue, BoundedQueue): the arithmetic is in   *)
(* two facts, that the next index is the one to the right or 0, and that   *)
(* the contents lie from f_index on, around the end of the array.          *)
(*                                                                         *)
(* The doubly and the singly linked list (DLList and SList, CursorList):   *)
(* the elements are one sequence of cells, without repetition, in which    *)
(* rptr leads on and lptr, where there is one, back.  What putting a cell  *)
(* in, and taking one out, does to that sequence is proved once, for any   *)
(* place; each operation is then one of the two at its own place, or       *)
(* leaves the sequence alone.  A sequence is compared with another at the  *)
(* least place where they differ, which takes the place of an induction.   *)
(*                                                                         *)
(* The hash table (HashTable, Dictionary): every chain is such a sequence, *)
(* of the items whose keys have its index.  An operation puts an item in   *)
(* the chain of its key, or takes it out, and leaves the others alone.     *)
(***************************************************************************)
EXTENDS RingQueue, DLList, SequenceTheorems, FiniteSetTheorems, WellFoundedInduction,
        TLAPS

-----------------------------------------------------------------------------
\* The queue in an array.
Letters == Chars \cup {NoChar}

\* nextIndex (c203.c:90) stays in the array and wraps around only at its end.
LEMMA NextIndexWraps ==
  ASSUME NEW i \in Indices
  PROVE  /\ NextIndex(i) \in Indices
         /\ NextIndex(i) = IF i + 1 = QUEUE_SIZE THEN 0 ELSE i + 1
  BY QueueAssumption, Z3T(60) DEF NextIndex, Indices

\* There is a first place.
LEMMA ZeroIsAnIndex == 0 \in Indices
  BY QueueAssumption DEF Indices

\* Every operation keeps the indices in the array and characters in it.
LEMMA QueueTypeStep == QueueTypeOK /\ [QueueNext]_queueVars => QueueTypeOK'
<1> SUFFICES ASSUME QueueTypeOK, [QueueNext]_queueVars PROVE QueueTypeOK'
  OBVIOUS
<1> USE ZeroIsAnIndex DEF QueueTypeOK, Codes
<1>1. NextIndex(f_index) \in Indices /\ NextIndex(b_index) \in Indices
  BY NextIndexWraps
<1>2. ASSUME NEW code \in Codes, QueueError(code), op' \in Codes
      PROVE  QueueTypeOK'
  BY <1>2 DEF QueueError
<1>3. CASE Reinit
  <2>1. CASE arr' = [i \in Indices |-> NoChar] /\ f_index' = 0 /\ b_index' = 0
             /\ err' = "" /\ UNCHANGED c
    BY <1>3, <2>1 DEF Reinit
  <2> QED
    BY <1>2, <1>3, <2>1 DEF Reinit
<1>4. CASE QueueFront
  BY <1>2, <1>4 DEF QueueFront
<1>5. CASE QueueRemove
  BY <1>1, <1>2, <1>5 DEF QueueRemove
<1>6. CASE QueueGet
  BY <1>1, <1>2, <1>6 DEF QueueGet
<1>7. ASSUME NEW x \in Chars, QueueUp(x) PROVE QueueTypeOK'
  BY <1>1, <1>2, <1>7 DEF QueueUp
<1>8. CASE UNCHANGED queueVars
  BY <1>8 DEF queueVars
<1> QED
  BY <1>3, <1>4, <1>5, <1>6, <1>7, <1>8 DEF QueueNext

\* The initial queue has its indices in the array, too.
LEMMA QueueTypeInit == QueueInit => QueueTypeOK
<1> SUFFICES ASSUME QueueInit PROVE QueueTypeOK
  OBVIOUS
<1>1. arr \in [Indices -> Letters]
  BY DEF QueueInit, Letters
<1> QED
  BY <1>1, ZeroIsAnIndex DEF QueueInit, QueueTypeOK, Codes, Letters

\* Both indices of c203.c stay inside the array, whatever is called and in
\* whatever order.
THEOREM QueueTypeCorrect == QueueSpec => []QueueTypeOK
  BY QueueTypeInit, QueueTypeStep, PTL DEF QueueSpec

-----------------------------------------------------------------------------
ContentsOK == /\ Count \in Indices
              /\ Contents \in Seq(Letters) /\ Len(Contents) = Count
              /\ \A k \in 1..Count : /\ Position(k) \in Indices
                                      /\ Contents[k] = arr[Position(k)]
              /\ Count = 0 <=> QueueEmpty
              /\ Count = QUEUE_SIZE - 1 <=> QueueFull

\* The contents are a sequence; equal indices mean an empty one and a full queue
\* has one character less than the array.
LEMMA ContentsAreASequence == QueueTypeOK => ContentsOK
<1> SUFFICES ASSUME QueueTypeOK PROVE ContentsOK
  OBVIOUS
<1>0. /\ QUEUE_SIZE \in Int /\ 0 < QUEUE_SIZE
      /\ f_index \in Int /\ 0 <= f_index /\ f_index < QUEUE_SIZE
      /\ b_index \in Int /\ 0 <= b_index /\ b_index < QUEUE_SIZE
  <2>1. f_index \in Indices /\ b_index \in Indices
    BY DEF QueueTypeOK
  <2> QED
    BY <2>1, QueueAssumption DEF Indices
<1>a. /\ Count \in Int /\ 0 <= Count /\ Count < QUEUE_SIZE
      /\ Count = 0 <=> f_index = b_index
  BY <1>0 DEF Count
<1>1. Count \in Indices /\ (Count = 0 <=> QueueEmpty)
  BY <1>0, <1>a DEF Indices, QueueEmpty
<1>2. ASSUME NEW k \in 1..Count PROVE Position(k) \in Indices
  <2>1. k \in Int /\ 1 <= k /\ k < QUEUE_SIZE
    BY <1>0, <1>a, <1>2
  <2>2. /\ Position(k) \in Int
        /\ 0 <= Position(k) /\ Position(k) <= QUEUE_SIZE - 1
    BY <1>0, <2>1 DEF Position
  <2> QED
    BY <1>0, <2>2 DEF Indices
<1>3. Count = QUEUE_SIZE - 1 <=> QueueFull
  <2>1. b_index \in Indices
    BY DEF QueueTypeOK
  <2>2. NextIndex(b_index) = IF b_index + 1 = QUEUE_SIZE THEN 0 ELSE b_index + 1
    BY <2>1, NextIndexWraps
  <2>3. CASE b_index + 1 = QUEUE_SIZE
    BY <1>0, <2>2, <2>3 DEF Count, QueueFull
  <2>4. CASE b_index + 1 # QUEUE_SIZE
    BY <1>0, <2>2, <2>4 DEF Count, QueueFull
  <2> QED
    BY <2>3, <2>4
<1>4. Contents \in [1..Count -> Letters]
  BY <1>2 DEF QueueTypeOK, Contents, Letters
<1>5. Count \in Nat
  BY <1>1 DEF Indices
<1>6. Contents \in Seq(Letters)
  BY <1>4, <1>5, SeqDef
<1>7. Len(Contents) = Count
  BY <1>4, <1>5
<1>8. \A k \in 1..Count : Contents[k] = arr[Position(k)]
  BY DEF Contents
<1> QED
  BY <1>1, <1>2, <1>3, <1>6, <1>7, <1>8 DEF ContentsOK

\* Taking the first place away takes the head off the contents.
LEMMA RemovingIsTail ==
  ASSUME QueueTypeOK, QueueTypeOK', ~QueueEmpty,
         f_index' = NextIndex(f_index), UNCHANGED <<arr, b_index>>
  PROVE  /\ Contents # <<>>
         /\ Head(Contents) = arr[f_index]
         /\ Contents' = Tail(Contents)
<1>1. /\ QUEUE_SIZE \in Int /\ 0 < QUEUE_SIZE
      /\ f_index \in Int /\ 0 <= f_index /\ f_index < QUEUE_SIZE
      /\ b_index \in Int /\ 0 <= b_index /\ b_index < QUEUE_SIZE
      /\ f_index # b_index /\ b_index' = b_index
      /\ f_index' = IF f_index + 1 = QUEUE_SIZE THEN 0 ELSE f_index + 1
  <2>1. f_index \in Indices /\ b_index \in Indices
    BY DEF QueueTypeOK
  <2>2. f_index' = IF f_index + 1 = QUEUE_SIZE THEN 0 ELSE f_index + 1
    BY <2>1, NextIndexWraps
  <2> QED
    BY <2>1, <2>2, QueueAssumption DEF Indices, QueueEmpty
<1>2. /\ Contents \in Seq(Letters) /\ Len(Contents) = Count
      /\ \A k \in 1..Count : Contents[k] = arr[Position(k)]
  BY ContentsAreASequence DEF ContentsOK
<1>3. /\ (Contents \in Seq(Letters))' /\ (Len(Contents) = Count)'
      /\ \A k \in 1..Count' : Contents'[k] = arr'[Position(k)']
  <2>1. ContentsOK'
    BY ContentsAreASequence, PTL
  <2> QED
    BY <2>1 DEF ContentsOK
<1>4. /\ Count \in Int /\ 0 < Count /\ Count < QUEUE_SIZE
      /\ Count' = Count - 1
  BY <1>1 DEF Count
<1>5. Contents # <<>>
  BY <1>2, <1>4
<1>6. Head(Contents) = arr[f_index]
  <2>1. 1 \in 1..Count /\ Position(1) = f_index
    BY <1>1, <1>4 DEF Position
  <2> QED
    BY <1>2, <1>5, <2>1
<1>7. /\ Tail(Contents) \in Seq(Letters) /\ Len(Tail(Contents)) = Count - 1
      /\ \A k \in 1..(Count - 1) : Tail(Contents)[k] = Contents[k + 1]
  BY <1>2, <1>5, HeadTailProperties
<1>8. ASSUME NEW k \in 1..(Count - 1)
      PROVE  Contents'[k] = Tail(Contents)[k]
  <2>1. k \in Int /\ 1 <= k /\ k <= Count - 1
    BY <1>4, <1>8
  <2>2. Position(k)' = Position(k + 1)
    BY <1>1, <1>4, <2>1 DEF Position
  <2>3. k \in 1..Count' /\ k + 1 \in 1..Count
    BY <1>4, <2>1
  <2> QED
    BY <1>2, <1>3, <1>7, <2>2, <2>3
<1>9. Contents' = Tail(Contents)
  BY <1>3, <1>4, <1>7, <1>8, SeqEqual
<1> QED
  BY <1>5, <1>6, <1>9

\* Filling the place at b_index puts a character at the end of the contents.
LEMMA UpIsAppend ==
  ASSUME QueueTypeOK, QueueTypeOK', ~QueueFull, NEW x \in Chars,
         arr' = [arr EXCEPT ![b_index] = x], b_index' = NextIndex(b_index),
         UNCHANGED f_index
  PROVE  Contents' = Append(Contents, x)
<1>1. /\ QUEUE_SIZE \in Int /\ 0 < QUEUE_SIZE
      /\ f_index \in Int /\ 0 <= f_index /\ f_index < QUEUE_SIZE
      /\ b_index \in Int /\ 0 <= b_index /\ b_index < QUEUE_SIZE
      /\ f_index' = f_index /\ b_index' # f_index
      /\ b_index' = IF b_index + 1 = QUEUE_SIZE THEN 0 ELSE b_index + 1
  <2>1. f_index \in Indices /\ b_index \in Indices
    BY DEF QueueTypeOK
  <2>2. b_index' = IF b_index + 1 = QUEUE_SIZE THEN 0 ELSE b_index + 1
    BY <2>1, NextIndexWraps
  <2> QED
    BY <2>1, <2>2, QueueAssumption DEF Indices, QueueFull
<1>2. /\ Contents \in Seq(Letters) /\ Len(Contents) = Count
      /\ \A k \in 1..Count : Position(k) \in Indices /\ Contents[k] = arr[Position(k)]
  BY ContentsAreASequence DEF ContentsOK
<1>3. /\ (Contents \in Seq(Letters))' /\ (Len(Contents) = Count)'
      /\ \A k \in 1..Count' : Contents'[k] = arr'[Position(k)']
  <2>1. ContentsOK'
    BY ContentsAreASequence, PTL
  <2> QED
    BY <2>1 DEF ContentsOK
<1>4. /\ Count \in Int /\ 0 <= Count /\ Count < QUEUE_SIZE
      /\ Count' = Count + 1
  BY <1>1 DEF Count
<1>5. /\ Append(Contents, x) \in Seq(Letters)
      /\ Len(Append(Contents, x)) = Count + 1
      /\ \A k \in 1..Count : Append(Contents, x)[k] = Contents[k]
      /\ Append(Contents, x)[Count + 1] = x
  <2>1. x \in Letters
    BY DEF Letters
  <2> QED
    BY <1>2, <2>1, AppendProperties
<1>6. ASSUME NEW k \in 1..(Count + 1)
      PROVE  Contents'[k] = Append(Contents, x)[k]
  <2>1. k \in Int /\ 1 <= k /\ k <= Count + 1 /\ k \in 1..Count'
    BY <1>4, <1>6
  <2>2. Position(k)' = Position(k)
    BY <1>1 DEF Position
  <2>3. arr \in [Indices -> Letters] /\ b_index \in Indices
    BY DEF QueueTypeOK, Letters
  <2>4. CASE k = Count + 1
    <3>1. Position(k) = b_index
      BY <1>1, <1>4, <2>1, <2>4 DEF Position, Count
    <3> QED
      BY <1>3, <1>5, <2>1, <2>2, <2>3, <2>4, <3>1
  <2>5. CASE k # Count + 1
    <3>1. k \in 1..Count
      BY <1>4, <2>1, <2>5
    <3>2. Position(k) # b_index
      <4>1. k <= Count
        BY <1>4, <2>1, <2>5
      <4> QED
        BY <1>1, <1>4, <2>1, <4>1 DEF Position, Count
    <3> QED
      BY <1>2, <1>3, <1>5, <2>1, <2>2, <2>3, <3>1, <3>2
  <2> QED
    BY <2>4, <2>5
<1> QED
  BY <1>3, <1>4, <1>5, <1>6, SeqEqual

-----------------------------------------------------------------------------
\* The index arithmetic of c203.c is a first-in first-out queue of one character
\* less than the array has places.
THEOREM RingIsAQueue == QueueSpec => ImplementsQueue
<1>1. QueueInit => AbstractQueue!Init
  <2> SUFFICES ASSUME QueueInit PROVE AbstractQueue!Init
    OBVIOUS
  <2>1. ContentsOK /\ QueueEmpty
    BY QueueTypeInit, ContentsAreASequence DEF QueueInit, QueueEmpty
  <2>2. Contents = <<>>
    BY <2>1 DEF ContentsOK
  <2> QED
    BY <2>2 DEF QueueInit, AbstractQueue!Init
<1>2. QueueTypeOK /\ QueueTypeOK' /\ [QueueNext]_queueVars => [AbstractQueue!Next]_AbstractQueue!vars
  <2> SUFFICES ASSUME QueueTypeOK, QueueTypeOK', [QueueNext]_queueVars
               PROVE  [AbstractQueue!Next]_AbstractQueue!vars
    OBVIOUS
  <2>a. ContentsOK
    BY ContentsAreASequence
  <2>b. ASSUME UNCHANGED <<arr, f_index, b_index>>
        PROVE  UNCHANGED Contents
    BY <2>b DEF Contents, Count, Position
  <2>c. ASSUME NEW code, QueueError(code)
        PROVE  AbstractQueue!Reject(code)
    BY <2>b, <2>c DEF QueueError, AbstractQueue!Reject
  <2>d. /\ Contents = <<>> <=> QueueEmpty
        /\ Len(Contents) = QUEUE_SIZE - 1 <=> QueueFull
        /\ Len(Contents) < QUEUE_SIZE - 1 <=> ~QueueFull
    BY <2>a, QueueAssumption DEF ContentsOK, Indices
  <2>1. CASE Reinit
    <3>1. CASE QueueError("INIT")
      BY <2>1, <2>c, <3>1 DEF Reinit, AbstractQueue!Next, AbstractQueue!New
    <3>2. CASE f_index' = 0 /\ b_index' = 0 /\ err' = "" /\ UNCHANGED c
      <4>1. ContentsOK'
        BY ContentsAreASequence, PTL
      <4>a. QueueEmpty'
        BY <3>2 DEF QueueEmpty
      <4>2. Contents' = <<>>
        BY <4>1, <4>a DEF ContentsOK
      <4> QED
        BY <2>1, <3>2, <4>2 DEF Reinit, AbstractQueue!Next, AbstractQueue!New
    <3> QED
      BY <2>1, <3>1, <3>2 DEF Reinit
  <2>2. CASE QueueFront
    <3>1. CASE QueueEmpty
      BY <2>2, <2>c, <2>d, <3>1 DEF QueueFront, AbstractQueue!Next, AbstractQueue!Front
    <3>2. CASE ~QueueEmpty
      <4>1. Contents # <<>> /\ Head(Contents) = arr[f_index]
        <5>1. 1 \in 1..Count /\ Position(1) = f_index
          <6>1. f_index \in Indices /\ Count \in Indices /\ Count # 0
            BY <2>a, <3>2 DEF ContentsOK, QueueTypeOK
          <6> QED
            BY <6>1, QueueAssumption DEF Indices, Position
        <5> QED
          BY <2>a, <2>d, <3>2, <5>1 DEF ContentsOK
      <4> QED
        BY <2>2, <2>b, <3>2, <4>1 DEF QueueFront, AbstractQueue!Next, AbstractQueue!Front
    <3> QED
      BY <3>1, <3>2
  <2>3. CASE QueueRemove
    <3>1. CASE QueueEmpty
      BY <2>3, <2>c, <2>d, <3>1 DEF QueueRemove, AbstractQueue!Next, AbstractQueue!Remove
    <3>2. CASE ~QueueEmpty
      BY <2>3, <3>2, RemovingIsTail DEF QueueRemove, AbstractQueue!Next, AbstractQueue!Remove
    <3> QED
      BY <3>1, <3>2
  <2>4. CASE QueueGet
    <3>1. CASE QueueEmpty
      BY <2>4, <2>c, <2>d, <3>1 DEF QueueGet, AbstractQueue!Next, AbstractQueue!Get
    <3>2. CASE ~QueueEmpty
      BY <2>4, <3>2, RemovingIsTail DEF QueueGet, AbstractQueue!Next, AbstractQueue!Get
    <3> QED
      BY <3>1, <3>2
  <2>5. ASSUME NEW x \in Chars, QueueUp(x) PROVE AbstractQueue!Up(x)
    <3>1. CASE QueueFull
      BY <2>5, <2>c, <2>d, <3>1 DEF QueueUp, AbstractQueue!Up
    <3>2. CASE ~QueueFull
      BY <2>5, <2>d, <3>2, UpIsAppend DEF QueueUp, AbstractQueue!Up
    <3> QED
      BY <3>1, <3>2
  <2>6. CASE UNCHANGED queueVars
    BY <2>6, <2>b DEF queueVars, AbstractQueue!vars
  <2> QED
    BY <2>1, <2>2, <2>3, <2>4, <2>5, <2>6 DEF QueueNext, AbstractQueue!Next
<1> QED
  BY <1>1, <1>2, QueueTypeCorrect, PTL DEF QueueSpec, ImplementsQueue, AbstractQueue!Spec

-----------------------------------------------------------------------------
\* Sequences of cells.

\* A set of naturals that is not empty has a least element.
LEMMA Least ==
  ASSUME NEW T \in SUBSET Nat, T # {}
  PROVE  \E n \in T : \A m \in T : n <= m
<1> DEFINE R == OpToRel(<, Nat)
<1>1. IsWellFoundedOn(R, Nat)
  BY NatLessThanWellFounded
<1>2. \A n, m \in Nat : <<m, n>> \in R <=> m < n
  BY DEF OpToRel
<1> HIDE DEF R
<1>3. PICK n \in T : \A m \in T : ~ (<<m, n>> \in R)
  BY <1>1, WFMin
<1>4. ASSUME NEW m \in T PROVE n <= m
  <2>1. n \in Nat /\ m \in Nat
    OBVIOUS
  <2>2. ~(m < n)
    BY <1>2, <1>3, <2>1, Zenon
  <2> QED
    BY <2>1, <2>2
<1> QED
  BY <1>4

\* A property of the sequences that has held up to every place holds at it.
LEMMA LeadsIsOne ==
  ASSUME NEW x, NEW field, NEW s \in Seq(Cells), NEW t \in Seq(Cells),
         Leads(s, x, field), Leads(t, x, field), Len(s) <= Len(t)
  PROVE  s = t
<1>1. /\ Len(s) \in Nat /\ DOMAIN s = 1..Len(s) /\ \A k \in 1..Len(s) : s[k] \in Cells
      /\ Len(t) \in Nat /\ DOMAIN t = 1..Len(t) /\ \A k \in 1..Len(t) : t[k] \in Cells
  BY ElementOfSeq
<1>2. \A k \in 1..Len(s) : s[k] # NULL
  BY <1>1, ListAssumption
<1>3. \A k \in 1..Len(t) : t[k] # NULL
  BY <1>1, ListAssumption
<1>4. \A k \in 1..Len(s) : s[k] = t[k]
  <2> DEFINE T == {k \in 1..Len(s) : s[k] # t[k]}
  <2> SUFFICES ASSUME T # {} PROVE FALSE
    OBVIOUS
  <2>1. PICK n \in T : \A m \in T : n <= m
    <3>1. T \in SUBSET Nat
      BY <1>1
    <3> HIDE DEF T
    <3> QED
      BY <3>1, Least
  <2>2. n \in 1..Len(s) /\ s[n] # t[n] /\ n \in 1..Len(t)
    BY <1>1, <2>1
  <2>3. CASE n = 1
    <3>1. s # <<>> /\ t # <<>>
      BY <1>1, <2>2
    <3> QED
      BY <2>2, <2>3, <3>1 DEF Leads
  <2>4. CASE n # 1
    <3>1. n - 1 \in 1..Len(s) /\ n - 1 \in 1..Len(t) /\ n - 1 # Len(s) /\ n - 1 # Len(t)
          /\ n - 1 < n /\ (n - 1) + 1 = n
      BY <1>1, <2>2, <2>4
    <3>2. s[n - 1] = t[n - 1]
      BY <2>1, <3>1
    <3>3. field[s[n - 1]] = s[n] /\ field[t[n - 1]] = t[n]
      BY <1>1, <3>1 DEF Leads
    <3> QED
      BY <2>2, <3>2, <3>3
  <2> QED
    BY <2>3, <2>4
<1>a. Len(s) \in Nat /\ Len(t) \in Nat
  BY <1>1
<1>5. ASSUME Len(s) < Len(t) PROVE FALSE
  <2>1. CASE Len(s) = 0
    <3>1. s = <<>> /\ t # <<>> /\ 1 \in 1..Len(t)
      BY <1>a, <1>5, <2>1
    <3>2. x = NULL /\ x = t[1]
      BY <3>1 DEF Leads
    <3> QED
      BY <1>3, <3>1, <3>2
  <2>2. CASE Len(s) # 0
    <3>1. Len(s) \in 1..Len(s) /\ Len(s) \in 1..Len(t) /\ Len(s) + 1 \in 1..Len(t)
          /\ Len(s) # Len(t)
      BY <1>a, <1>5, <2>2
    <3>2. field[s[Len(s)]] = NULL /\ field[t[Len(s)]] = t[Len(s) + 1]
      BY <1>1, <3>1 DEF Leads
    <3> QED
      BY <1>3, <1>4, <3>1, <3>2
  <2> QED
    BY <2>1, <2>2
<1>6. Len(s) = Len(t)
  BY <1>a, <1>5
<1> QED
  BY <1>4, <1>6, SeqEqual

-----------------------------------------------------------------------------
\* The cells of mem, each once, in the order in which a field leads through them.
Through(s, x, field, mem) ==
  /\ s \in Seq(Cells) /\ Leads(s, x, field)
  /\ \A j, k \in 1..Len(s) : s[j] = s[k] => j = k
  /\ mem = {s[k] : k \in 1..Len(s)} /\ Cardinality(mem) = Len(s)

\* ... and in which the other field leads back.
LeadsBack(s, y, field) ==
  /\ y = IF s = <<>> THEN NULL ELSE s[Len(s)]
  /\ \A k \in 1..Len(s) : field[s[k]] = IF k = 1 THEN NULL ELSE s[k - 1]

LEMMA ChainIs ==
  ASSUME NEW s, NEW x, NEW field, NEW mem, Through(s, x, field, mem)
  PROVE  ChainFrom(x, field) = s
<1>0. s \in Seq(Cells) /\ Leads(s, x, field)
  BY DEF Through
<1>1. s \in Seq(Cells) /\ Len(s) \in Nat /\ s \in [1..Len(s) -> Cells]
  BY <1>0, LenProperties
<1>b. mem = {s[k] : k \in 1..Len(s)} /\ Cardinality(mem) = Len(s)
  BY DEF Through
<1>2. mem \in SUBSET Cells
  BY <1>1, <1>b
<1>3. /\ Cardinality(Cells) \in Nat /\ Cardinality(mem) <= Cardinality(Cells)
  BY <1>2, ListAssumption, FS_Subset, FS_CardinalityType
<1>4. s \in Paths
  <2>1. Len(s) <= Cardinality(Cells)
    BY <1>3, <1>b
  <2>2. Len(s) \in 0..Cardinality(Cells)
    <3>1. Len(s) \in Nat /\ Cardinality(Cells) \in Nat
      BY <1>1, <1>3
    <3> QED
      BY <2>1, <3>1
  <2> QED
    BY <1>1, <2>2 DEF Paths
<1>5. ASSUME NEW t \in Paths, Leads(t, x, field)
      PROVE  t = s
  <2>1. PICK n \in 0..Cardinality(Cells) : t \in [1..n -> Cells]
    BY DEF Paths
  <2>2. t \in Seq(Cells) /\ Len(t) = n
    BY <1>3, <2>1, SeqDef
  <2>3. Len(t) <= Len(s) \/ Len(s) <= Len(t)
    BY <1>1, <1>3, <2>2
  <2> QED
    BY <1>0, <1>1, <1>5, <2>2, <2>3, LeadsIsOne
<1> QED
  BY <1>0, <1>4, <1>5 DEF ChainFrom

\* InsertAt and RemoveAt of CursorList, and what they put at every place.
PutIn(s, k, e) == SubSeq(s, 1, k - 1) \o <<e>> \o SubSeq(s, k, Len(s))
TakeOut(s, k)  == SubSeq(s, 1, k - 1) \o SubSeq(s, k + 1, Len(s))

LEMMA Inserted ==
  ASSUME NEW S, NEW s \in Seq(S), NEW k \in 1..Len(s) + 1, NEW e \in S
  PROVE  /\ PutIn(s, k, e) \in Seq(S)
         /\ Len(PutIn(s, k, e)) = Len(s) + 1
         /\ \A j \in 1..Len(s) + 1 :
              PutIn(s, k, e)[j] = IF j < k THEN s[j] ELSE IF j = k THEN e ELSE s[j - 1]
<1> DEFINE l == SubSeq(s, 1, k - 1)
           r == SubSeq(s, k, Len(s))
<1>1. Len(s) \in Nat /\ k \in Nat /\ 1 <= k /\ k <= Len(s) + 1
      /\ \A i \in 1..Len(s) : s[i] \in S
  BY ElementOfSeq
<1>2. l \in Seq(S) /\ Len(l) = k - 1 /\ \A i \in 1..k - 1 : l[i] = s[i]
  <2>1. \A i \in 1..k - 1 : s[i] \in S
    BY <1>1
  <2>2. k - 1 \in Int /\ (IF 1 <= k - 1 THEN (k - 1) - 1 + 1 ELSE 0) = k - 1
        /\ (k - 1) - 1 + 1 = k - 1
    BY <1>1
  <2>3. /\ l \in Seq(S) /\ Len(l) = IF 1 <= k - 1 THEN (k - 1) - 1 + 1 ELSE 0
        /\ \A i \in 1..(k - 1) - 1 + 1 : l[i] = s[1 + i - 1]
    BY <2>1, <2>2, SubSeqProperties
  <2>4. \A i \in 1..k - 1 : 1 + i - 1 = i
    BY <1>1
  <2> HIDE DEF l
  <2> QED
    BY <2>2, <2>3, <2>4
<1>3. r \in Seq(S) /\ Len(r) = Len(s) - k + 1
      /\ \A i \in 1..Len(s) - k + 1 : r[i] = s[k + i - 1]
  <2>1. \A i \in k..Len(s) : s[i] \in S
    BY <1>1
  <2>2. k \in Int /\ Len(s) \in Int
        /\ (IF k <= Len(s) THEN Len(s) - k + 1 ELSE 0) = Len(s) - k + 1
    BY <1>1
  <2>3. /\ r \in Seq(S) /\ Len(r) = IF k <= Len(s) THEN Len(s) - k + 1 ELSE 0
        /\ \A i \in 1..Len(s) - k + 1 : r[i] = s[k + i - 1]
    BY <2>1, <2>2, SubSeqProperties
  <2> QED
    BY <2>2, <2>3
<1>4. <<e>> \in Seq(S) /\ Len(<<e>>) = 1 /\ <<e>>[1] = e
  OBVIOUS
<1> HIDE DEF l, r
<1>5. /\ l \o <<e>> \in Seq(S) /\ Len(l \o <<e>>) = k
      /\ \A i \in 1..k : (l \o <<e>>)[i] = IF i <= k - 1 THEN l[i] ELSE e
  <2>1. /\ l \o <<e>> \in Seq(S) /\ Len(l \o <<e>>) = Len(l) + 1
        /\ \A i \in 1..Len(l) + 1 : (l \o <<e>>)[i] =
                     IF i <= Len(l) THEN l[i] ELSE <<e>>[i - Len(l)]
    BY <1>2, <1>4, ConcatProperties
  <2>2. Len(l) + 1 = k /\ \A i \in 1..k : ~(i <= k - 1) => i - Len(l) = 1
    BY <1>1, <1>2
  <2> QED
    BY <1>2, <1>4, <2>1, <2>2
<1>6. /\ (l \o <<e>>) \o r \in Seq(S) /\ Len((l \o <<e>>) \o r) = k + (Len(s) - k + 1)
      /\ \A i \in 1..k + (Len(s) - k + 1) : ((l \o <<e>>) \o r)[i] =
                     IF i <= k THEN (l \o <<e>>)[i] ELSE r[i - k]
  BY <1>3, <1>5, ConcatProperties
<1>7. k + (Len(s) - k + 1) = Len(s) + 1
  BY <1>1
<1>8. ASSUME NEW j \in 1..Len(s) + 1
      PROVE  ((l \o <<e>>) \o r)[j] = IF j < k THEN s[j] ELSE IF j = k THEN e ELSE s[j - 1]
  <2>1. CASE j <= k
    BY <1>1, <1>2, <1>5, <1>6, <1>7, <2>1
  <2>2. CASE k < j
    <3>1. j - k \in 1..Len(s) - k + 1 /\ k + (j - k) - 1 = j - 1 /\ ~(j <= k) /\ ~(j < k)
          /\ j # k
      BY <1>1, <2>2
    <3> QED
      BY <1>3, <1>6, <1>7, <3>1
  <2>3. j <= k \/ k < j
    BY <1>1
  <2> QED
    BY <2>1, <2>2, <2>3
<1> QED
  BY <1>6, <1>7, <1>8 DEF PutIn, l, r

LEMMA Removed ==
  ASSUME NEW S, NEW s \in Seq(S), NEW k \in 1..Len(s)
  PROVE  /\ TakeOut(s, k) \in Seq(S)
         /\ Len(TakeOut(s, k)) = Len(s) - 1
         /\ \A j \in 1..Len(s) - 1 :
              TakeOut(s, k)[j] = IF j < k THEN s[j] ELSE s[j + 1]
<1> DEFINE l == SubSeq(s, 1, k - 1)
           r == SubSeq(s, k + 1, Len(s))
<1>1. Len(s) \in Nat /\ k \in Nat /\ 1 <= k /\ k <= Len(s)
      /\ \A i \in 1..Len(s) : s[i] \in S
  BY ElementOfSeq
<1>2. l \in Seq(S) /\ Len(l) = k - 1 /\ \A i \in 1..k - 1 : l[i] = s[i]
  <2>1. \A i \in 1..k - 1 : s[i] \in S
    BY <1>1
  <2>2. k - 1 \in Int /\ (IF 1 <= k - 1 THEN (k - 1) - 1 + 1 ELSE 0) = k - 1
        /\ (k - 1) - 1 + 1 = k - 1
    BY <1>1
  <2>3. /\ l \in Seq(S) /\ Len(l) = IF 1 <= k - 1 THEN (k - 1) - 1 + 1 ELSE 0
        /\ \A i \in 1..(k - 1) - 1 + 1 : l[i] = s[1 + i - 1]
    BY <2>1, <2>2, SubSeqProperties
  <2>4. \A i \in 1..k - 1 : 1 + i - 1 = i
    BY <1>1
  <2> HIDE DEF l
  <2> QED
    BY <2>2, <2>3, <2>4
<1>3. r \in Seq(S) /\ Len(r) = Len(s) - k
      /\ \A i \in 1..Len(s) - k : r[i] = s[k + i]
  <2> DEFINE m == k + 1
  <2>1. m \in Int /\ \A i \in m..Len(s) : s[i] \in S
    BY <1>1
  <2>2. k + 1 \in Int /\ Len(s) \in Int /\ Len(s) - (k + 1) + 1 = Len(s) - k
        /\ (IF k + 1 <= Len(s) THEN Len(s) - (k + 1) + 1 ELSE 0) = Len(s) - k
        /\ \A i \in 1..Len(s) - k : (k + 1) + i - 1 = k + i
    BY <1>1
  <2>3. /\ SubSeq(s, m, Len(s)) \in Seq(S)
        /\ Len(SubSeq(s, m, Len(s))) = IF m <= Len(s) THEN Len(s) - m + 1 ELSE 0
        /\ \A i \in 1..Len(s) - m + 1 : SubSeq(s, m, Len(s))[i] = s[m + i - 1]
    <3> HIDE DEF m
    <3>1. Len(s) \in Int
      BY <1>1
    <3> QED
      BY <2>1, <3>1, SubSeqProperties
  <2>4. r = SubSeq(s, m, Len(s))
    OBVIOUS
  <2> HIDE DEF r
  <2> QED
    BY <2>2, <2>3, <2>4
<1> HIDE DEF l, r
<1>4. /\ l \o r \in Seq(S) /\ Len(l \o r) = (k - 1) + (Len(s) - k)
      /\ \A i \in 1..(k - 1) + (Len(s) - k) :
           (l \o r)[i] = IF i <= k - 1 THEN l[i] ELSE r[i - (k - 1)]
  <2>1. /\ l \o r \in Seq(S) /\ Len(l \o r) = Len(l) + Len(r)
        /\ \A i \in 1..Len(l) + Len(r) :
             (l \o r)[i] = IF i <= Len(l) THEN l[i] ELSE r[i - Len(l)]
    BY <1>2, <1>3, ConcatProperties
  <2>2. Len(l) = k - 1 /\ Len(r) = Len(s) - k
    BY <1>2, <1>3
  <2> QED
    BY <2>1, <2>2
<1>5. (k - 1) + (Len(s) - k) = Len(s) - 1
  BY <1>1
<1>6. ASSUME NEW j \in 1..Len(s) - 1
      PROVE  (l \o r)[j] = IF j < k THEN s[j] ELSE s[j + 1]
  <2>1. CASE j < k
    BY <1>1, <1>2, <1>4, <1>5, <2>1
  <2>2. CASE ~(j < k)
    <3>1. j - (k - 1) \in 1..Len(s) - k /\ k + (j - (k - 1)) = j + 1 /\ ~(j <= k - 1)
      BY <1>1, <2>2
    <3> QED
      BY <1>3, <1>4, <1>5, <2>2, <3>1
  <2> QED
    BY <2>1, <2>2
<1> QED
  BY <1>4, <1>5, <1>6 DEF TakeOut, l, r

-----------------------------------------------------------------------------
LEMMA Facts ==
  ASSUME NEW s, NEW x, NEW field, NEW mem, Through(s, x, field, mem)
  PROVE  /\ s \in Seq(Cells) /\ Len(s) \in Nat /\ DOMAIN s = 1..Len(s)
         /\ s = <<>> <=> Len(s) = 0
         /\ \A k \in 1..Len(s) : s[k] \in mem
         /\ \A y \in mem : \E k \in 1..Len(s) : y = s[k]
         /\ \A j, k \in 1..Len(s) : s[j] = s[k] => j = k
         /\ x = IF Len(s) = 0 THEN NULL ELSE s[1]
         /\ \A k \in 1..Len(s) : field[s[k]] = IF k = Len(s) THEN NULL ELSE s[k + 1]
         /\ mem \subseteq Cells /\ IsFiniteSet(mem) /\ Cardinality(mem) = Len(s)
<1>1. s \in Seq(Cells) /\ Leads(s, x, field)
  BY DEF Through
<1>2. /\ \A j, k \in 1..Len(s) : s[j] = s[k] => j = k
      /\ mem = {s[k] : k \in 1..Len(s)} /\ Cardinality(mem) = Len(s)
  BY DEF Through
<1>3. /\ Len(s) \in Nat /\ DOMAIN s = 1..Len(s) /\ (s = <<>> <=> Len(s) = 0)
      /\ \A k \in 1..Len(s) : s[k] \in Cells
  BY <1>1, LenProperties, ElementOfSeq, EmptySeq
<1>4. mem \subseteq Cells
  <2>1. ASSUME NEW y \in mem PROVE y \in Cells
    <3>1. PICK k \in 1..Len(s) : y = s[k]
      BY <1>2
    <3> QED
      BY <1>3, <3>1
  <2> QED
    BY <2>1
<1>5. IsFiniteSet(mem)
  BY <1>4, ListAssumption, FS_Subset
<1>6. /\ x = IF Len(s) = 0 THEN NULL ELSE s[1]
      /\ \A k \in 1..Len(s) : field[s[k]] = IF k = Len(s) THEN NULL ELSE s[k + 1]
  BY <1>1, <1>3 DEF Leads
<1> QED
  BY <1>1, <1>2, <1>3, <1>4, <1>5, <1>6

LEMMA ThroughIf ==
  ASSUME NEW s \in Seq(Cells), NEW x, NEW field, NEW mem,
         \A j, k \in 1..Len(s) : s[j] = s[k] => j = k,
         mem = {s[k] : k \in 1..Len(s)}, Cardinality(mem) = Len(s),
         x = IF Len(s) = 0 THEN NULL ELSE s[1],
         \A k \in 1..Len(s) : field[s[k]] = IF k = Len(s) THEN NULL ELSE s[k + 1]
  PROVE  Through(s, x, field, mem)
<1>1. DOMAIN s = 1..Len(s) /\ (s = <<>> <=> Len(s) = 0)
  BY LenProperties, EmptySeq
<1>2. Leads(s, x, field)
  BY <1>1 DEF Leads
<1> QED
  BY <1>2 DEF Through

\* A cell put in at place k: the pointer in front of it leads to it and its own to the one
\* behind.
LinkedIn(s, x, field, mem, k, item, x2, field2) ==
  /\ x2 = IF k = 1 THEN item ELSE x
  /\ field2[item] = IF k = Len(s) + 1 THEN NULL ELSE s[k]
  /\ \A y \in mem : field2[y] = IF k > 1 /\ y = s[k - 1] THEN item ELSE field[y]

LEMMA ThroughInsert ==
  ASSUME NEW s, NEW x, NEW field, NEW mem, Through(s, x, field, mem),
         NEW k \in 1..Len(s) + 1, NEW item \in Cells, item \notin mem,
         NEW x2, NEW field2, LinkedIn(s, x, field, mem, k, item, x2, field2)
  PROVE  Through(PutIn(s, k, item), x2, field2, mem \cup {item})
<1> USE DEF LinkedIn
<1>0. /\ PutIn(s, k, item) \in Seq(Cells) /\ Len(PutIn(s, k, item)) = Len(s) + 1
      /\ \A j \in 1..Len(s) + 1 : PutIn(s, k, item)[j] =
           IF j < k THEN s[j] ELSE IF j = k THEN item ELSE s[j - 1]
  <2>1. s \in Seq(Cells)
    BY Facts
  <2> QED
    BY <2>1, Inserted
<1> DEFINE t == PutIn(s, k, item)
<1>1. /\ s \in Seq(Cells) /\ Len(s) \in Nat /\ k \in Nat /\ 1 <= k /\ k <= Len(s) + 1
      /\ \A j \in 1..Len(s) : s[j] \in mem
      /\ \A y \in mem : \E j \in 1..Len(s) : y = s[j]
      /\ \A i, j \in 1..Len(s) : s[i] = s[j] => i = j
      /\ x = IF Len(s) = 0 THEN NULL ELSE s[1]
      /\ \A j \in 1..Len(s) : field[s[j]] = IF j = Len(s) THEN NULL ELSE s[j + 1]
      /\ IsFiniteSet(mem) /\ Cardinality(mem) = Len(s)
  BY Facts
<1>2. /\ t \in Seq(Cells) /\ Len(t) = Len(s) + 1
      /\ \A j \in 1..Len(s) + 1 :
           t[j] = IF j < k THEN s[j] ELSE IF j = k THEN item ELSE s[j - 1]
  BY <1>0
<1> HIDE DEF t
<1>3. \A i, j \in 1..Len(t) : t[i] = t[j] => i = j
  <2>1. ASSUME NEW i \in 1..Len(t), NEW j \in 1..Len(t), t[i] = t[j], i < j PROVE FALSE
    <3>1. i \in 1..Len(s) + 1 /\ j \in 1..Len(s) + 1
      BY <1>2
    <3>2. CASE j < k
      <4>1. i \in 1..Len(s) /\ j \in 1..Len(s) /\ t[i] = s[i] /\ t[j] = s[j] /\ i # j
        BY <1>1, <1>2, <2>1, <3>1, <3>2
      <4> QED
        BY <1>1, <2>1, <4>1
    <3>3. CASE j = k
      <4>1. i \in 1..Len(s) /\ t[i] = s[i] /\ t[j] = item
        BY <1>1, <1>2, <2>1, <3>1, <3>3
      <4> QED
        BY <1>1, <2>1, <4>1
    <3>4. CASE j > k /\ i = k
      <4>1. j - 1 \in 1..Len(s) /\ t[j] = s[j - 1] /\ t[i] = item
        BY <1>1, <1>2, <2>1, <3>1, <3>4
      <4> QED
        BY <1>1, <2>1, <4>1
    <3>5. CASE j > k /\ i < k
      <4>1. i \in 1..Len(s) /\ j - 1 \in 1..Len(s) /\ t[i] = s[i] /\ t[j] = s[j - 1]
            /\ i # j - 1
        BY <1>1, <1>2, <2>1, <3>1, <3>5
      <4> QED
        BY <1>1, <2>1, <4>1
    <3>6. CASE i > k
      <4>1. i - 1 \in 1..Len(s) /\ j - 1 \in 1..Len(s) /\ t[i] = s[i - 1]
            /\ t[j] = s[j - 1] /\ i - 1 # j - 1
        BY <1>1, <1>2, <2>1, <3>1, <3>6
      <4> QED
        BY <1>1, <2>1, <4>1
    <3> QED
      BY <1>1, <2>1, <3>1, <3>2, <3>3, <3>4, <3>5, <3>6
  <2>2. \A i, j \in 1..Len(t) : i < j \/ i = j \/ j < i
    BY <1>1, <1>2
  <2> QED
    BY <2>1, <2>2
<1>4. mem \cup {item} = {t[j] : j \in 1..Len(t)}
  <2>1. ASSUME NEW j \in 1..Len(t) PROVE t[j] \in mem \cup {item}
    <3>1. j \in 1..Len(s) + 1 /\ (j < k => j \in 1..Len(s))
          /\ (~(j < k) /\ j # k => j - 1 \in 1..Len(s))
      BY <1>1, <1>2
    <3> QED
      BY <1>1, <1>2, <3>1
  <2>2. ASSUME NEW y \in mem PROVE \E j \in 1..Len(t) : y = t[j]
    <3>1. PICK j \in 1..Len(s) : y = s[j]
      BY <1>1
    <3>2. CASE j < k
      <4>1. j \in 1..Len(s) + 1 /\ j \in 1..Len(t)
        BY <1>1, <1>2
      <4> QED
        BY <1>2, <3>1, <3>2, <4>1
    <3>3. CASE ~(j < k)
      <4>1. j + 1 \in 1..Len(s) + 1 /\ j + 1 \in 1..Len(t) /\ ~(j + 1 < k) /\ j + 1 # k
            /\ (j + 1) - 1 = j
        BY <1>1, <1>2, <3>3
      <4>2. t[j + 1] = s[j]
        BY <1>2, <4>1
      <4> QED
        BY <3>1, <4>1, <4>2
    <3> QED
      BY <3>2, <3>3
  <2>3. k \in 1..Len(t) /\ t[k] = item
    BY <1>1, <1>2
  <2> QED
    BY <2>1, <2>2, <2>3
<1>5. Cardinality(mem \cup {item}) = Len(t)
  BY <1>1, <1>2, FS_AddElement
<1>6. x2 = IF Len(t) = 0 THEN NULL ELSE t[1]
  <2>1. Len(t) # 0 /\ 1 \in 1..Len(s) + 1
    BY <1>1, <1>2
  <2>2. CASE k = 1
    BY <1>2, <2>1, <2>2
  <2>3. CASE k # 1
    <3>1. 1 < k /\ Len(s) # 0
      BY <1>1, <2>3
    <3> QED
      BY <1>1, <1>2, <2>1, <2>3, <3>1
  <2> QED
    BY <2>2, <2>3
<1>7. ASSUME NEW j \in 1..Len(t)
      PROVE  field2[t[j]] = IF j = Len(t) THEN NULL ELSE t[j + 1]
  <2>0. j \in 1..Len(s) + 1
    BY <1>2
  <2>1. CASE j = k
    <3>1. t[j] = item
      BY <1>2, <2>0, <2>1
    <3>2. CASE k = Len(s) + 1
      BY <1>2, <2>1, <3>1, <3>2
    <3>3. CASE k # Len(s) + 1
      <4>1. j + 1 \in 1..Len(s) + 1 /\ ~(j + 1 < k) /\ j + 1 # k /\ (j + 1) - 1 = k
        BY <1>1, <2>1, <3>3
      <4>2. t[j + 1] = s[k]
        BY <1>2, <4>1
      <4> QED
        BY <1>2, <2>1, <3>1, <3>3, <4>2
    <3> QED
      BY <3>2, <3>3
  <2>2. CASE j = k - 1
    <3>1. /\ j \in 1..Len(s) /\ j < k /\ k > 1 /\ k \in 1..Len(s) + 1 /\ j # Len(t)
          /\ j + 1 = k /\ k - 1 = j
      BY <1>1, <1>2, <2>0, <2>2
    <3>2. t[j] = s[k - 1] /\ t[j] \in mem /\ t[j + 1] = item
      BY <1>1, <1>2, <2>0, <3>1
    <3> QED
      BY <3>1, <3>2
  <2>3. CASE j < k - 1
    <3>1. /\ j \in 1..Len(s) /\ j + 1 \in 1..Len(s) /\ j + 1 \in 1..Len(s) + 1 /\ j < k
          /\ j + 1 < k /\ j # Len(s) /\ j # Len(t) /\ k - 1 \in 1..Len(s) /\ j # k - 1
      BY <1>1, <1>2, <2>0, <2>3
    <3>2. t[j] = s[j] /\ t[j + 1] = s[j + 1] /\ s[j] \in mem /\ s[j] # s[k - 1]
      BY <1>1, <1>2, <2>0, <3>1
    <3> QED
      BY <1>1, <3>1, <3>2
  <2>4. CASE j > k
    <3>1. /\ j - 1 \in 1..Len(s) /\ ~(j < k) /\ j # k /\ (j = Len(t) <=> j - 1 = Len(s))
          /\ (k > 1 => k - 1 \in 1..Len(s)) /\ j - 1 # k - 1 /\ (j - 1) + 1 = j
      BY <1>1, <1>2, <2>0, <2>4
    <3>2. t[j] = s[j - 1] /\ s[j - 1] \in mem /\ ~(k > 1 /\ s[j - 1] = s[k - 1])
      BY <1>1, <1>2, <2>0, <3>1
    <3>0. field2[t[j]] = field[s[j - 1]]
      BY <3>2
    <3>3. field2[t[j]] = IF j - 1 = Len(s) THEN NULL ELSE s[j]
      BY <1>1, <3>0, <3>1
    <3>4. ASSUME j # Len(t) PROVE t[j + 1] = s[j]
      <4>1. j + 1 \in 1..Len(s) + 1 /\ ~(j + 1 < k) /\ j + 1 # k /\ (j + 1) - 1 = j
        <5>1. j # Len(s) + 1
          BY <1>2, <3>4
        <5>2. Len(s) \in Nat /\ k \in Nat /\ j \in Int
          BY <1>1, <2>0
        <5> QED
          BY <2>0, <2>4, <5>1, <5>2
      <4> QED
        BY <1>2, <4>1
    <3> QED
      BY <3>1, <3>3, <3>4
  <2> QED
    BY <1>1, <2>0, <2>1, <2>2, <2>3, <2>4
<1>8. Through(t, x2, field2, mem \cup {item})
  BY <1>2, <1>3, <1>4, <1>5, <1>6, <1>7, ThroughIf
<1> QED
  BY <1>8 DEF t

\* The cell at place k taken out: the pointer to it gets the value of its own.
LinkedOut(s, x, field, mem, k, x2, field2) ==
  /\ x2 = IF k = 1 THEN field[s[1]] ELSE x
  /\ \A y \in mem \ {s[k]} :
       field2[y] = IF k > 1 /\ y = s[k - 1] THEN field[s[k]] ELSE field[y]

LEMMA ThroughRemove ==
  ASSUME NEW s, NEW x, NEW field, NEW mem, Through(s, x, field, mem),
         NEW k \in 1..Len(s),
         NEW x2, NEW field2, LinkedOut(s, x, field, mem, k, x2, field2)
  PROVE  Through(TakeOut(s, k), x2, field2, mem \ {s[k]})
<1> USE DEF LinkedOut
<1>0. /\ TakeOut(s, k) \in Seq(Cells) /\ Len(TakeOut(s, k)) = Len(s) - 1
      /\ \A j \in 1..Len(s) - 1 : TakeOut(s, k)[j] = IF j < k THEN s[j] ELSE s[j + 1]
  <2>1. s \in Seq(Cells)
    BY Facts
  <2> QED
    BY <2>1, Removed
<1> DEFINE t == TakeOut(s, k)
<1>1. /\ s \in Seq(Cells) /\ Len(s) \in Nat /\ k \in Nat /\ 1 <= k /\ k <= Len(s)
      /\ \A j \in 1..Len(s) : s[j] \in mem
      /\ \A y \in mem : \E j \in 1..Len(s) : y = s[j]
      /\ \A i, j \in 1..Len(s) : s[i] = s[j] => i = j
      /\ x = IF Len(s) = 0 THEN NULL ELSE s[1]
      /\ \A j \in 1..Len(s) : field[s[j]] = IF j = Len(s) THEN NULL ELSE s[j + 1]
      /\ IsFiniteSet(mem) /\ Cardinality(mem) = Len(s)
  BY Facts
<1>a. Len(s) \in Nat /\ k \in Nat /\ 1 <= k /\ k <= Len(s)
  BY <1>1
<1>2. /\ t \in Seq(Cells) /\ Len(t) = Len(s) - 1
      /\ \A j \in 1..Len(s) - 1 : t[j] = IF j < k THEN s[j] ELSE s[j + 1]
  BY <1>0
<1> HIDE DEF t
<1> DEFINE From(j) == IF j < k THEN j ELSE j + 1
<1>3. ASSUME NEW j \in 1..Len(t)
      PROVE  From(j) \in 1..Len(s) /\ From(j) # k /\ t[j] = s[From(j)]
  <2>1. j \in 1..Len(s) - 1
    BY <1>2
  <2>2. From(j) \in 1..Len(s) /\ From(j) # k
    BY <1>a, <2>1
  <2> QED
    BY <1>2, <2>1, <2>2
<1>4. \A i, j \in 1..Len(t) : t[i] = t[j] => i = j
  <2>1. ASSUME NEW i \in 1..Len(t), NEW j \in 1..Len(t), t[i] = t[j] PROVE i = j
    <3>1. From(i) = From(j)
      <4> HIDE DEF From
      <4> QED
        BY <1>1, <1>3, <2>1
    <3>2. i \in Int /\ j \in Int
      BY <1>2
    <3> QED
      BY <1>a, <3>1, <3>2
  <2> QED
    BY <2>1
<1>5. mem \ {s[k]} = {t[j] : j \in 1..Len(t)}
  <2>1. ASSUME NEW j \in 1..Len(t) PROVE t[j] \in mem \ {s[k]}
    <3> HIDE DEF From
    <3> QED
      BY <1>1, <1>3
  <2>2. ASSUME NEW y \in mem \ {s[k]} PROVE \E j \in 1..Len(t) : y = t[j]
    <3>1. PICK j \in 1..Len(s) : y = s[j]
      BY <1>1
    <3>2. j # k
      BY <3>1
    <3>3. CASE j < k
      <4>1. j \in 1..Len(s) - 1 /\ j \in 1..Len(t)
        BY <1>a, <1>2, <3>3
      <4> QED
        BY <1>2, <3>1, <3>3, <4>1
    <3>4. CASE ~(j < k)
      <4>1. j - 1 \in 1..Len(s) - 1 /\ ~(j - 1 < k) /\ (j - 1) + 1 = j
        BY <1>a, <3>2, <3>4
      <4>2. t[j - 1] = s[j] /\ j - 1 \in 1..Len(t)
        BY <1>2, <4>1
      <4> QED
        BY <3>1, <4>2
    <3> QED
      BY <3>3, <3>4
  <2> QED
    BY <2>1, <2>2
<1>6. Cardinality(mem \ {s[k]}) = Len(t)
  <2>1. s[k] \in mem
    BY <1>1
  <2> QED
    BY <1>1, <1>2, <2>1, FS_RemoveElement
<1>7. x2 = IF Len(t) = 0 THEN NULL ELSE t[1]
  <2>0. /\ 1 \in 1..Len(s) /\ (Len(t) = 0 <=> Len(s) = 1)
        /\ (Len(s) # 1 => 1 \in 1..Len(s) - 1)
    BY <1>a, <1>2
  <2>1. CASE k = 1
    <3>1. x2 = IF Len(s) = 1 THEN NULL ELSE s[1 + 1]
      BY <1>1, <2>0, <2>1
    <3>2. Len(s) # 1 => t[1] = s[1 + 1]
      BY <1>2, <2>0, <2>1
    <3> QED
      BY <2>0, <3>1, <3>2
  <2>2. CASE k # 1
    <3>1. Len(s) # 1 /\ Len(s) # 0 /\ 1 < k
      <4>1. \A m, n \in Nat : 1 <= m /\ m <= n /\ m # 1 => n # 1 /\ n # 0 /\ 1 < m
        OBVIOUS
      <4> QED
        BY <1>a, <2>2, <4>1
    <3> QED
      BY <1>1, <1>2, <2>0, <2>2, <3>1
  <2> QED
    BY <2>1, <2>2
<1>8. ASSUME NEW j \in 1..Len(t)
      PROVE  field2[t[j]] = IF j = Len(t) THEN NULL ELSE t[j + 1]
  <2>0. j \in 1..Len(s) - 1 /\ Len(t) = Len(s) - 1
    BY <1>2
  <2>1. t[j] \in mem \ {s[k]}
    BY <1>5
  <2>2. CASE j = k - 1
    <3>1. j < k /\ k > 1 /\ k - 1 = j /\ (j = Len(t) <=> k = Len(s)) /\ j + 1 = k /\ k \in 1..Len(s)
      BY <1>a, <2>0, <2>2
    <3>2. t[j] = s[k - 1]
      BY <1>2, <2>0, <3>1
    <3>3. field2[t[j]] = field[s[k]]
      BY <2>1, <3>1, <3>2
    <3>4. field[s[k]] = IF k = Len(s) THEN NULL ELSE s[k + 1]
      BY <1>1, <3>1
    <3>5. ASSUME k # Len(s) PROVE t[j + 1] = s[k + 1]
      <4>1. k \in 1..Len(s) - 1 /\ ~(k < k)
        BY <1>a, <3>5
      <4> QED
        BY <1>2, <3>1, <4>1
    <3> QED
      BY <3>1, <3>3, <3>4, <3>5
  <2>3. CASE j < k - 1
    <3>1. /\ j < k /\ j # Len(t) /\ j + 1 \in 1..Len(s) - 1 /\ j + 1 < k /\ j # Len(s)
          /\ j \in 1..Len(s) /\ k - 1 \in 1..Len(s) /\ j # k - 1
      BY <1>a, <2>0, <2>3
    <3>2. t[j] = s[j] /\ t[j + 1] = s[j + 1] /\ s[j] # s[k - 1]
      BY <1>1, <1>2, <2>0, <3>1
    <3>3. field2[t[j]] = field[s[j]]
      BY <2>1, <3>2
    <3> QED
      BY <1>1, <3>1, <3>2, <3>3
  <2>4. CASE j >= k
    <3>1. /\ ~(j < k) /\ j + 1 \in 1..Len(s) /\ (j = Len(t) <=> j + 1 = Len(s))
          /\ (k > 1 => k - 1 \in 1..Len(s)) /\ j + 1 # k - 1
      BY <1>a, <2>0, <2>4
    <3>2. t[j] = s[j + 1] /\ ~(k > 1 /\ s[j + 1] = s[k - 1])
      BY <1>1, <1>2, <2>0, <3>1
    <3>3. field2[t[j]] = field[s[j + 1]]
      BY <2>1, <3>2
    <3>4. field[s[j + 1]] = IF j + 1 = Len(s) THEN NULL ELSE s[(j + 1) + 1]
      BY <1>1, <3>1
    <3>5. ASSUME j # Len(t) PROVE t[j + 1] = s[(j + 1) + 1]
      <4>1. j + 1 \in 1..Len(s) - 1 /\ ~(j + 1 < k)
        BY <1>a, <2>0, <2>4, <3>5
      <4> QED
        BY <1>2, <4>1
    <3> QED
      BY <3>1, <3>2, <3>3, <3>4, <3>5
  <2> QED
    BY <1>a, <2>0, <2>2, <2>3, <2>4
<1>9. Through(t, x2, field2, mem \ {s[k]})
  BY <1>2, <1>4, <1>5, <1>6, <1>7, <1>8, ThroughIf
<1> QED
  BY <1>9 DEF t

-----------------------------------------------------------------------------
\* The same of the way back.
BackIn(s, y, field, mem, k, item, y2, field2) ==
  /\ y2 = IF k = Len(s) + 1 THEN item ELSE y
  /\ field2[item] = IF k = 1 THEN NULL ELSE s[k - 1]
  /\ \A z \in mem : field2[z] = IF k <= Len(s) /\ z = s[k] THEN item ELSE field[z]

BackOut(s, y, field, mem, k, y2, field2) ==
  /\ y2 = IF k = Len(s) THEN field[s[k]] ELSE y
  /\ \A z \in mem \ {s[k]} :
       field2[z] = IF k < Len(s) /\ z = s[k + 1] THEN field[s[k]] ELSE field[z]

LEMMA BackInsert ==
  ASSUME NEW s, NEW x, NEW r, NEW mem, Through(s, x, r, mem),
         NEW y, NEW field, LeadsBack(s, y, field),
         NEW k \in 1..Len(s) + 1, NEW item \in Cells, item \notin mem,
         NEW y2, NEW field2, BackIn(s, y, field, mem, k, item, y2, field2)
  PROVE  LeadsBack(PutIn(s, k, item), y2, field2)
<1> USE DEF BackIn
<1>0. /\ PutIn(s, k, item) \in Seq(Cells) /\ Len(PutIn(s, k, item)) = Len(s) + 1
      /\ \A j \in 1..Len(s) + 1 : PutIn(s, k, item)[j] =
           IF j < k THEN s[j] ELSE IF j = k THEN item ELSE s[j - 1]
  <2>1. s \in Seq(Cells)
    BY Facts
  <2> QED
    BY <2>1, Inserted
<1> DEFINE t == PutIn(s, k, item)
<1>1. /\ s \in Seq(Cells) /\ Len(s) \in Nat /\ k \in Nat /\ 1 <= k /\ k <= Len(s) + 1
      /\ \A j \in 1..Len(s) : s[j] \in mem
      /\ \A i, j \in 1..Len(s) : s[i] = s[j] => i = j
      /\ (s = <<>> <=> Len(s) = 0)
  BY Facts
<1>a. Len(s) \in Nat /\ k \in Nat /\ 1 <= k /\ k <= Len(s) + 1
  BY <1>1
<1>b. /\ y = IF s = <<>> THEN NULL ELSE s[Len(s)]
      /\ \A j \in 1..Len(s) : field[s[j]] = IF j = 1 THEN NULL ELSE s[j - 1]
  BY DEF LeadsBack
<1>2. /\ t \in Seq(Cells) /\ Len(t) = Len(s) + 1
      /\ \A j \in 1..Len(s) + 1 :
           t[j] = IF j < k THEN s[j] ELSE IF j = k THEN item ELSE s[j - 1]
  BY <1>0
<1> HIDE DEF t
<1>3. y2 = IF t = <<>> THEN NULL ELSE t[Len(t)]
  <2>1. t # <<>> /\ Len(t) = Len(s) + 1 /\ Len(s) + 1 \in 1..Len(s) + 1
    BY <1>a, <1>2
  <2>2. CASE k = Len(s) + 1
    <3>1. ~(Len(s) + 1 < k)
      BY <1>a, <2>2
    <3> QED
      BY <1>2, <2>1, <2>2, <3>1
  <2>3. CASE k # Len(s) + 1
    <3>1. Len(s) # 0 /\ ~(Len(s) + 1 < k) /\ (Len(s) + 1) - 1 = Len(s)
      BY <1>a, <2>3
    <3> QED
      BY <1>1, <1>2, <1>b, <2>1, <2>3, <3>1
  <2> QED
    BY <2>2, <2>3
<1>4. ASSUME NEW j \in 1..Len(t)
      PROVE  field2[t[j]] = IF j = 1 THEN NULL ELSE t[j - 1]
  <2>0. j \in 1..Len(s) + 1
    BY <1>2
  <2>1. CASE j = k
    <3>1. t[j] = item
      BY <1>2, <2>0, <2>1
    <3>2. ASSUME j # 1 PROVE t[j - 1] = s[k - 1]
      <4>1. j - 1 \in 1..Len(s) + 1 /\ j - 1 < k
        BY <1>a, <2>0, <2>1, <3>2
      <4> QED
        BY <1>2, <2>1, <4>1
    <3> QED
      BY <2>1, <3>1, <3>2
  <2>2. CASE j < k
    <3>1. j \in 1..Len(s) /\ t[j] = s[j] /\ s[j] \in mem
      BY <1>1, <1>2, <2>0, <2>2
    <3>2. k <= Len(s) => k \in 1..Len(s) /\ j # k
      BY <1>a, <2>0, <2>2
    <3>3. ~(k <= Len(s) /\ s[j] = s[k])
      BY <1>1, <3>1, <3>2
    <3>4. field2[t[j]] = IF j = 1 THEN NULL ELSE s[j - 1]
      BY <1>b, <3>1, <3>3
    <3>5. ASSUME j # 1 PROVE t[j - 1] = s[j - 1]
      <4>1. j - 1 \in 1..Len(s) + 1 /\ j - 1 < k
        BY <1>a, <2>0, <2>2, <3>5
      <4> QED
        BY <1>2, <4>1
    <3> QED
      BY <3>4, <3>5
  <2>3. CASE j = k + 1
    <3>1. /\ ~(j < k) /\ j # k /\ j - 1 = k /\ k \in 1..Len(s) /\ k <= Len(s) /\ j # 1
          /\ k \in 1..Len(s) + 1 /\ ~(k < k)
      BY <1>a, <2>0, <2>3
    <3>2. t[j] = s[k] /\ s[k] \in mem /\ t[j - 1] = item
      BY <1>1, <1>2, <2>0, <3>1
    <3> QED
      BY <3>1, <3>2
  <2>4. CASE j > k + 1
    <3>1. /\ ~(j < k) /\ j # k /\ j - 1 \in 1..Len(s) /\ k \in 1..Len(s) /\ j - 1 # k
          /\ j # 1 /\ j - 1 # 1 /\ j - 1 \in 1..Len(s) + 1 /\ ~(j - 1 < k)
      BY <1>a, <2>0, <2>4
    <3>2. t[j] = s[j - 1] /\ s[j - 1] \in mem /\ s[j - 1] # s[k] /\ t[j - 1] = s[(j - 1) - 1]
      BY <1>1, <1>2, <2>0, <3>1
    <3>3. field2[t[j]] = field[s[j - 1]]
      BY <3>2
    <3> QED
      BY <1>b, <3>1, <3>2, <3>3
  <2>5. j = k \/ j < k \/ j = k + 1 \/ j > k + 1
    BY <1>a, <2>0
  <2> QED
    BY <2>1, <2>2, <2>3, <2>4, <2>5
<1>5. LeadsBack(t, y2, field2)
  BY <1>3, <1>4 DEF LeadsBack
<1> QED
  BY <1>5 DEF t

LEMMA BackRemove ==
  ASSUME NEW s, NEW x, NEW r, NEW mem, Through(s, x, r, mem),
         NEW y, NEW field, LeadsBack(s, y, field), NEW k \in 1..Len(s),
         NEW y2, NEW field2, BackOut(s, y, field, mem, k, y2, field2)
  PROVE  LeadsBack(TakeOut(s, k), y2, field2)
<1> USE DEF BackOut
<1>0. /\ TakeOut(s, k) \in Seq(Cells) /\ Len(TakeOut(s, k)) = Len(s) - 1
      /\ \A j \in 1..Len(s) - 1 : TakeOut(s, k)[j] = IF j < k THEN s[j] ELSE s[j + 1]
  <2>1. s \in Seq(Cells)
    BY Facts
  <2> QED
    BY <2>1, Removed
<1> DEFINE t == TakeOut(s, k)
<1>1. /\ s \in Seq(Cells) /\ Len(s) \in Nat /\ k \in Nat /\ 1 <= k /\ k <= Len(s)
      /\ \A j \in 1..Len(s) : s[j] \in mem
      /\ \A i, j \in 1..Len(s) : s[i] = s[j] => i = j
      /\ (s = <<>> <=> Len(s) = 0)
  BY Facts
<1>a. Len(s) \in Nat /\ k \in Nat /\ 1 <= k /\ k <= Len(s)
  BY <1>1
<1>b. /\ y = IF s = <<>> THEN NULL ELSE s[Len(s)]
      /\ \A j \in 1..Len(s) : field[s[j]] = IF j = 1 THEN NULL ELSE s[j - 1]
  BY DEF LeadsBack
<1>2. /\ t \in Seq(Cells) /\ Len(t) = Len(s) - 1
      /\ \A j \in 1..Len(s) - 1 : t[j] = IF j < k THEN s[j] ELSE s[j + 1]
  BY <1>0
<1> HIDE DEF t
<1>3. y2 = IF t = <<>> THEN NULL ELSE t[Len(t)]
  <2>0. /\ (t = <<>> <=> Len(s) = 1) /\ Len(s) # 0
        /\ (Len(s) # 1 => Len(s) - 1 \in 1..Len(s) - 1)
    BY <1>a, <1>2
  <2>1. CASE k = Len(s)
    <3>1. k \in 1..Len(s) /\ Len(s) - 1 < k
      BY <1>a, <2>1
    <3>2. field[s[k]] = IF k = 1 THEN NULL ELSE s[k - 1]
      BY <1>b, <3>1
    <3>3. Len(s) # 1 => t[Len(t)] = s[k - 1]
      BY <1>2, <2>0, <2>1, <3>1
    <3> QED
      BY <2>0, <2>1, <3>2, <3>3
  <2>2. CASE k # Len(s)
    <3>1. Len(s) # 1 /\ ~(Len(s) - 1 < k) /\ (Len(s) - 1) + 1 = Len(s)
      <4>1. \A m, n \in Nat : 1 <= m /\ m <= n /\ m # n =>
                                n # 1 /\ ~(n - 1 < m) /\ (n - 1) + 1 = n
        OBVIOUS
      <4> QED
        BY <1>a, <2>2, <4>1
    <3> QED
      BY <1>1, <1>2, <1>b, <2>0, <2>2, <3>1
  <2> QED
    BY <2>1, <2>2
<1>4. ASSUME NEW j \in 1..Len(t)
      PROVE  field2[t[j]] = IF j = 1 THEN NULL ELSE t[j - 1]
  <2>0. j \in 1..Len(s) - 1
    BY <1>2
  <2>1. CASE j < k
    <3>1. /\ j \in 1..Len(s) /\ k \in 1..Len(s) /\ j # k
          /\ (k < Len(s) => k + 1 \in 1..Len(s) /\ j # k + 1)
      BY <1>a, <2>0, <2>1
    <3>2. /\ t[j] = s[j] /\ s[j] \in mem /\ s[j] # s[k]
          /\ ~(k < Len(s) /\ s[j] = s[k + 1])
      BY <1>1, <1>2, <2>0, <2>1, <3>1
    <3>3. field2[t[j]] = field[s[j]]
      BY <3>2
    <3>4. ASSUME j # 1 PROVE t[j - 1] = s[j - 1]
      <4>1. j - 1 \in 1..Len(s) - 1 /\ j - 1 < k
        BY <1>a, <2>0, <2>1, <3>4
      <4> QED
        BY <1>2, <4>1
    <3> QED
      BY <1>b, <3>1, <3>3, <3>4
  <2>2. CASE j = k
    <3>1. /\ k + 1 \in 1..Len(s) /\ k < Len(s) /\ ~(j < k) /\ k \in 1..Len(s) /\ k + 1 # k
      BY <1>a, <2>0, <2>2
    <3>2. t[j] = s[k + 1] /\ s[k + 1] \in mem /\ s[k + 1] # s[k]
      BY <1>1, <1>2, <2>0, <2>2, <3>1
    <3>3. field2[t[j]] = field[s[k]]
      BY <3>1, <3>2
    <3>4. field[s[k]] = IF k = 1 THEN NULL ELSE s[k - 1]
      BY <1>b, <3>1
    <3>5. ASSUME j # 1 PROVE t[j - 1] = s[k - 1]
      <4>1. j - 1 \in 1..Len(s) - 1 /\ j - 1 < k
        BY <1>a, <2>0, <2>2, <3>5
      <4> QED
        BY <1>2, <2>2, <4>1
    <3> QED
      BY <2>2, <3>3, <3>4, <3>5
  <2>3. CASE j > k
    <3>1. /\ j + 1 \in 1..Len(s) /\ ~(j < k) /\ k \in 1..Len(s) /\ j + 1 # k /\ j # 1
          /\ (k < Len(s) => k + 1 \in 1..Len(s) /\ j + 1 # k + 1) /\ j + 1 # 1
          /\ j - 1 \in 1..Len(s) - 1 /\ ~(j - 1 < k) /\ (j - 1) + 1 = j /\ (j + 1) - 1 = j
      BY <1>a, <2>0, <2>3
    <3>2. /\ t[j] = s[j + 1] /\ s[j + 1] \in mem /\ s[j + 1] # s[k]
          /\ ~(k < Len(s) /\ s[j + 1] = s[k + 1]) /\ t[j - 1] = s[j]
      BY <1>1, <1>2, <2>0, <3>1
    <3>3. field2[t[j]] = field[s[j + 1]]
      BY <3>2
    <3>4. field[s[j + 1]] = s[j]
      BY <1>b, <3>1
    <3> QED
      BY <3>1, <3>2, <3>3, <3>4
  <2>4. j < k \/ j = k \/ j > k
    BY <1>a, <2>0
  <2> QED
    BY <2>1, <2>2, <2>3, <2>4
<1>5. LeadsBack(t, y2, field2)
  BY <1>3, <1>4 DEF LeadsBack
<1> QED
  BY <1>5 DEF t

-----------------------------------------------------------------------------
\* The places of cells.
LEMMA PlaceIs ==
  ASSUME NEW s, NEW x, NEW field, NEW mem, Through(s, x, field, mem), NEW k \in 1..Len(s)
  PROVE  Place(s, s[k]) = k
<1>1. /\ DOMAIN s = 1..Len(s) /\ s[k] \in mem /\ mem \subseteq Cells
      /\ \A i, j \in 1..Len(s) : s[i] = s[j] => i = j
  BY Facts
<1>2. s[k] # NULL
  BY <1>1, ListAssumption
<1> QED
  BY <1>1, <1>2 DEF Place

LEMMA PlaceOf ==
  ASSUME NEW s, NEW x, NEW field, NEW mem, Through(s, x, field, mem),
         NEW a \in mem \cup {NULL}
  PROVE  /\ Place(s, a) \in 0..Len(s)
         /\ Place(s, a) = 0 <=> a = NULL
         /\ a # NULL => s[Place(s, a)] = a
<1>1. CASE a = NULL
  <2>1. Len(s) \in Nat
    BY Facts
  <2> QED
    BY <1>1, <2>1 DEF Place
<1>2. CASE a # NULL
  <2>1. PICK k \in 1..Len(s) : a = s[k]
    BY <1>2, Facts
  <2>2. Place(s, a) = k
    BY <2>1, PlaceIs
  <2>3. Len(s) \in Nat
    BY Facts
  <2> QED
    BY <1>2, <2>1, <2>2, <2>3
<1> QED
  BY <1>1, <1>2

LEMMA PlaceInsert ==
  ASSUME NEW s, NEW x, NEW field, NEW mem, Through(s, x, field, mem),
         NEW a \in mem \cup {NULL}, NEW k \in 1..Len(s) + 1, NEW item \in Cells,
         NEW x2, NEW field2,
         Through(PutIn(s, k, item), x2, field2, mem \cup {item})
  PROVE  Place(PutIn(s, k, item), a) = IF Place(s, a) >= k THEN Place(s, a) + 1
                                                             ELSE Place(s, a)
<1>1. s \in Seq(Cells) /\ Len(s) \in Nat
  BY Facts
<1>2. /\ Len(PutIn(s, k, item)) = Len(s) + 1
      /\ \A j \in 1..Len(s) + 1 : PutIn(s, k, item)[j] =
           IF j < k THEN s[j] ELSE IF j = k THEN item ELSE s[j - 1]
  BY <1>1, Inserted
<1>3. CASE a = NULL
  <2>1. k \in Int /\ 1 <= k /\ ~(0 >= k)
    BY <1>1
  <2> QED
    BY <1>3, <2>1 DEF Place
<1>4. CASE a # NULL
  <2> DEFINE p == Place(s, a)
             q == IF p >= k THEN p + 1 ELSE p
             t == PutIn(s, k, item)
  <2>1. p \in 1..Len(s) /\ s[p] = a
    <3>1. p \in 0..Len(s) /\ p # 0 /\ s[p] = a
      BY <1>4, PlaceOf
    <3> HIDE DEF p
    <3> QED
      BY <1>1, <3>1
  <2> HIDE DEF p
  <2>2. q \in 1..Len(s) + 1 /\ q # k /\ (q < k => q = p) /\ (~(q < k) => q - 1 = p)
    BY <1>1, <2>1
  <2>3. t[q] = a /\ q \in 1..Len(t)
    BY <1>2, <2>1, <2>2
  <2> HIDE DEF q, t
  <2>4. Place(t, t[q]) = q
    <3>1. Through(t, x2, field2, mem \cup {item})
      BY DEF t
    <3> QED
      BY <2>3, <3>1, PlaceIs
  <2> QED
    BY <2>3, <2>4 DEF p, q, t
<1> QED
  BY <1>3, <1>4

LEMMA PlaceRemove ==
  ASSUME NEW s, NEW x, NEW field, NEW mem, Through(s, x, field, mem),
         NEW a \in mem \cup {NULL}, NEW k \in 1..Len(s), NEW x2, NEW field2,
         Through(TakeOut(s, k), x2, field2, mem \ {s[k]})
  PROVE  Place(TakeOut(s, k), IF a = s[k] THEN NULL ELSE a) =
           CASE Place(s, a) > k -> Place(s, a) - 1
             [] Place(s, a) = k -> 0
             [] OTHER -> Place(s, a)
<1>1. s \in Seq(Cells) /\ Len(s) \in Nat
  BY Facts
<1>2. /\ Len(TakeOut(s, k)) = Len(s) - 1
      /\ \A j \in 1..Len(s) - 1 : TakeOut(s, k)[j] = IF j < k THEN s[j] ELSE s[j + 1]
  BY <1>1, Removed
<1>3. CASE a = NULL
  <2>1. k \in Int /\ ~(0 > k) /\ 0 # k
    BY <1>1
  <2> QED
    BY <1>3, <2>1 DEF Place
<1>4. CASE a = s[k]
  <2>1. Place(s, a) = k
    BY <1>4, PlaceIs
  <2>2. k \in Int /\ ~(k > k)
    BY <1>1
  <2>3. Place(TakeOut(s, k), NULL) = 0
    BY DEF Place
  <2> QED
    BY <1>4, <2>1, <2>2, <2>3
<1>5. CASE a # NULL /\ a # s[k]
  <2> DEFINE p == Place(s, a)
             q == IF p > k THEN p - 1 ELSE p
             t == TakeOut(s, k)
  <2>1. p \in 1..Len(s) /\ s[p] = a /\ p # k
    <3>1. p \in 0..Len(s) /\ p # 0 /\ s[p] = a
      BY <1>5, PlaceOf
    <3> HIDE DEF p
    <3> QED
      BY <1>1, <1>5, <3>1
  <2> HIDE DEF p
  <2>2. q \in 1..Len(s) - 1 /\ (q < k => q = p) /\ (~(q < k) => q + 1 = p)
    BY <1>1, <2>1
  <2>3. t[q] = a /\ q \in 1..Len(t)
    BY <1>2, <2>1, <2>2
  <2> HIDE DEF q, t
  <2>4. Place(t, t[q]) = q
    <3>1. Through(t, x2, field2, mem \ {s[k]})
      BY DEF t
    <3> QED
      BY <2>3, <3>1, PlaceIs
  <2>5. Place(t, a) = CASE p > k -> p - 1 [] p = k -> 0 [] OTHER -> p
    BY <2>1, <2>3, <2>4 DEF q
  <2> QED
    BY <1>5, <2>5 DEF p, t
<1> QED
  BY <1>3, <1>4, <1>5

\* What the cells of a sequence hold.
Held(s, field) == [j \in DOMAIN s |-> field[s[j]]]
ValuesIn(mem, field, S) == \A y \in mem : field[y] \in S
Same(mem, field, field2) == \A y \in mem : field2[y] = field[y]

LEMMA HeldInsert ==
  ASSUME NEW s, NEW x, NEW f, NEW mem, Through(s, x, f, mem),
         NEW k \in 1..Len(s) + 1, NEW item \in Cells, NEW S,
         NEW field, ValuesIn(mem, field, S),
         NEW field2, ValuesIn({item}, field2, S), Same(mem, field, field2)
  PROVE  Held(PutIn(s, k, item), field2) = PutIn(Held(s, field), k, field2[item])
<1> DEFINE d == field2[item]
<1>d. d \in S
  BY DEF ValuesIn
<1> HIDE DEF d
<1>1. /\ s \in Seq(Cells) /\ Len(s) \in Nat /\ DOMAIN s = 1..Len(s)
      /\ \A j \in 1..Len(s) : s[j] \in mem
  BY Facts
<1>2. /\ PutIn(s, k, item) \in Seq(Cells) /\ Len(PutIn(s, k, item)) = Len(s) + 1
      /\ \A j \in 1..Len(s) + 1 : PutIn(s, k, item)[j] =
           IF j < k THEN s[j] ELSE IF j = k THEN item ELSE s[j - 1]
  BY <1>1, Inserted
<1>3. Held(s, field) \in [1..Len(s) -> S]
  BY <1>1 DEF Held, ValuesIn
<1>4. Held(s, field) \in Seq(S) /\ Len(Held(s, field)) = Len(s)
  BY <1>1, <1>3, SeqDef
<1>5. /\ PutIn(Held(s, field), k, d) \in Seq(S)
      /\ Len(PutIn(Held(s, field), k, d)) = Len(s) + 1
      /\ \A j \in 1..Len(s) + 1 : PutIn(Held(s, field), k, d)[j] =
           IF j < k THEN Held(s, field)[j] ELSE IF j = k THEN d ELSE Held(s, field)[j - 1]
  <2>1. k \in 1..Len(Held(s, field)) + 1
    BY <1>4
  <2>2. /\ PutIn(Held(s, field), k, d) \in Seq(S)
        /\ Len(PutIn(Held(s, field), k, d)) = Len(Held(s, field)) + 1
        /\ \A j \in 1..Len(Held(s, field)) + 1 : PutIn(Held(s, field), k, d)[j] =
             IF j < k THEN Held(s, field)[j] ELSE IF j = k THEN d ELSE Held(s, field)[j - 1]
    BY <1>4, <1>d, <2>1, Inserted
  <2> QED
    BY <1>4, <2>2
<1> DEFINE t == PutIn(s, k, item)
           u == PutIn(Held(s, field), k, d)
           h == Held(s, field)
<1>6. DOMAIN t = 1..Len(s) + 1 /\ u \in [1..Len(s) + 1 -> S]
  BY <1>2, <1>5, LenProperties
<1> HIDE DEF t, u, h
<1>7. ASSUME NEW j \in 1..Len(s) + 1 PROVE field2[t[j]] = u[j]
  <2> USE DEF Same
  <2>1. CASE j < k
    <3>1. j \in 1..Len(s)
      BY <1>1, <2>1
    <3>2. t[j] = s[j] /\ u[j] = h[j] /\ h[j] = field[s[j]]
      BY <1>1, <1>2, <1>5, <2>1, <3>1 DEF t, u, h, Held
    <3> QED
      BY <1>1, <3>1, <3>2
  <2>2. CASE j = k
    <3>1. ~(j < k)
      BY <2>2
    <3>2. t[j] = item /\ u[j] = d
      BY <1>2, <1>5, <2>2, <3>1 DEF t, u
    <3> QED
      BY <3>2 DEF d
  <2>3. CASE j > k
    <3>1. ~(j < k) /\ j # k /\ j - 1 \in 1..Len(s)
      BY <1>1, <2>3
    <3>2. t[j] = s[j - 1] /\ u[j] = h[j - 1] /\ h[j - 1] = field[s[j - 1]]
      BY <1>1, <1>2, <1>5, <3>1 DEF t, u, h, Held
    <3> QED
      BY <1>1, <3>1, <3>2
  <2>4. j < k \/ j = k \/ j > k
    BY <1>1
  <2> QED
    BY <2>1, <2>2, <2>3, <2>4
<1>8. Held(t, field2) = u
  BY <1>6, <1>7 DEF Held
<1> QED
  BY <1>8 DEF t, u, d

LEMMA HeldRemove ==
  ASSUME NEW s, NEW x, NEW f, NEW mem, Through(s, x, f, mem), NEW k \in 1..Len(s),
         NEW S, NEW field, ValuesIn(mem, field, S),
         NEW field2, Same(mem \ {s[k]}, field, field2)
  PROVE  Held(TakeOut(s, k), field2) = TakeOut(Held(s, field), k)
<1> USE DEF ValuesIn, Same
<1>1. /\ s \in Seq(Cells) /\ Len(s) \in Nat /\ DOMAIN s = 1..Len(s)
      /\ \A j \in 1..Len(s) : s[j] \in mem
      /\ \A i, j \in 1..Len(s) : s[i] = s[j] => i = j
  BY Facts
<1>2. /\ TakeOut(s, k) \in Seq(Cells) /\ Len(TakeOut(s, k)) = Len(s) - 1
      /\ \A j \in 1..Len(s) - 1 : TakeOut(s, k)[j] = IF j < k THEN s[j] ELSE s[j + 1]
  BY <1>1, Removed
<1>3. Held(s, field) \in [1..Len(s) -> S]
  BY <1>1 DEF Held
<1>4. Held(s, field) \in Seq(S) /\ Len(Held(s, field)) = Len(s)
  BY <1>1, <1>3, SeqDef
<1>5. /\ TakeOut(Held(s, field), k) \in Seq(S)
      /\ Len(TakeOut(Held(s, field), k)) = Len(s) - 1
      /\ \A j \in 1..Len(s) - 1 : TakeOut(Held(s, field), k)[j] =
           IF j < k THEN Held(s, field)[j] ELSE Held(s, field)[j + 1]
  BY <1>4, Removed
<1> DEFINE t == TakeOut(s, k)
           u == TakeOut(Held(s, field), k)
           h == Held(s, field)
<1>6. DOMAIN t = 1..Len(s) - 1 /\ u \in [1..Len(s) - 1 -> S]
  BY <1>2, <1>5, LenProperties
<1> HIDE DEF t, u, h
<1>7. ASSUME NEW j \in 1..Len(s) - 1 PROVE field2[t[j]] = u[j]
  <2>1. CASE j < k
    <3>1. j \in 1..Len(s) /\ j # k
      BY <1>1, <2>1
    <3>2. t[j] = s[j] /\ u[j] = h[j] /\ h[j] = field[s[j]]
      BY <1>1, <1>2, <1>5, <2>1, <3>1 DEF t, u, h, Held
    <3>3. s[j] \in mem \ {s[k]}
      BY <1>1, <3>1
    <3> QED
      BY <3>2, <3>3
  <2>2. CASE ~(j < k)
    <3>1. j + 1 \in 1..Len(s) /\ j + 1 # k
      BY <1>1, <2>2
    <3>2. t[j] = s[j + 1] /\ u[j] = h[j + 1] /\ h[j + 1] = field[s[j + 1]]
      BY <1>1, <1>2, <1>5, <2>2, <3>1 DEF t, u, h, Held
    <3>3. s[j + 1] \in mem \ {s[k]}
      BY <1>1, <3>1
    <3> QED
      BY <3>2, <3>3
  <2> QED
    BY <2>1, <2>2
<1>8. Held(t, field2) = u
  BY <1>6, <1>7 DEF Held
<1> QED
  BY <1>8 DEF t, u

-----------------------------------------------------------------------------
\* The inductive invariant.
ListInv == /\ ListTypeOK
           /\ Through(Chain, First, rptr, allocated)
           /\ LeadsBack(Chain, Last, lptr)
           /\ Act \in allocated \cup {NULL}

LEMMA ListFacts ==
  ASSUME ListInv
  PROVE  /\ First \in Pointers /\ Act \in Pointers /\ Last \in Pointers
         /\ lptr \in [Cells -> Pointers] /\ rptr \in [Cells -> Pointers]
         /\ data \in [Cells -> Data \cup {NoData}] /\ allocated \subseteq Cells
         /\ val \in Data \cup {NoData} /\ errflg \in BOOLEAN
         /\ NULL \in Pointers /\ Cells \subseteq Pointers
  BY DEF ListInv, ListTypeOK, Pointers

\* The half of it that rptr carries, which is all that a singly linked list has.
OneWay == /\ First \in Pointers /\ Act \in allocated \cup {NULL} /\ allocated \subseteq Cells
          /\ rptr \in [Cells -> Pointers] /\ data \in [Cells -> Data \cup {NoData}]
          /\ val \in Data \cup {NoData} /\ errflg \in BOOLEAN
          /\ Through(Chain, First, rptr, allocated)

LEMMA BothWays ==
  ListInv <=> /\ OneWay /\ LeadsBack(Chain, Last, lptr)
              /\ Last \in Pointers /\ lptr \in [Cells -> Pointers]
  BY DEF ListInv, ListTypeOK, OneWay, Pointers

LEMMA BothWaysNext ==
  ASSUME OneWay', LeadsBack(Chain', Last', lptr'),
         Last' \in Pointers, lptr' \in [Cells -> Pointers]
  PROVE  ListInv'
  BY DEF ListInv, ListTypeOK, OneWay, Pointers

LEMMA OneFacts ==
  ASSUME OneWay
  PROVE  /\ Chain \in Seq(Cells) /\ Len(Chain) \in Nat /\ DOMAIN Chain = 1..Len(Chain)
         /\ \A k \in 1..Len(Chain) : /\ Chain[k] \in allocated /\ Chain[k] \in Cells
                                     /\ Chain[k] # NULL
         /\ \A j, k \in 1..Len(Chain) : Chain[j] = Chain[k] => j = k
         /\ First = IF Len(Chain) = 0 THEN NULL ELSE Chain[1]
         /\ \A k \in 1..Len(Chain) :
              rptr[Chain[k]] = IF k = Len(Chain) THEN NULL ELSE Chain[k + 1]
         /\ {Chain[k] : k \in DOMAIN Chain} = allocated
         /\ Cardinality(allocated) = Len(Chain) /\ IsFiniteSet(allocated)
<1>1. Through(Chain, First, rptr, allocated)
  BY DEF OneWay
<1>2. /\ Chain \in Seq(Cells) /\ Len(Chain) \in Nat /\ DOMAIN Chain = 1..Len(Chain)
      /\ \A k \in 1..Len(Chain) : Chain[k] \in allocated
      /\ \A j, k \in 1..Len(Chain) : Chain[j] = Chain[k] => j = k
      /\ First = IF Len(Chain) = 0 THEN NULL ELSE Chain[1]
      /\ \A k \in 1..Len(Chain) :
           rptr[Chain[k]] = IF k = Len(Chain) THEN NULL ELSE Chain[k + 1]
      /\ allocated \subseteq Cells
      /\ Cardinality(allocated) = Len(Chain) /\ IsFiniteSet(allocated)
  BY <1>1, Facts
<1>3. {Chain[k] : k \in DOMAIN Chain} = allocated
  BY <1>1, <1>2 DEF Through
<1>4. \A k \in 1..Len(Chain) : Chain[k] \in Cells /\ Chain[k] # NULL
  BY <1>2, ListAssumption
<1> QED
  BY <1>2, <1>3, <1>4

LEMMA ChainFacts ==
  ASSUME ListInv
  PROVE  /\ Chain \in Seq(Cells) /\ Len(Chain) \in Nat /\ DOMAIN Chain = 1..Len(Chain)
         /\ \A k \in 1..Len(Chain) : /\ Chain[k] \in allocated /\ Chain[k] \in Cells
                                     /\ Chain[k] # NULL
         /\ \A j, k \in 1..Len(Chain) : Chain[j] = Chain[k] => j = k
         /\ First = IF Len(Chain) = 0 THEN NULL ELSE Chain[1]
         /\ Last = IF Len(Chain) = 0 THEN NULL ELSE Chain[Len(Chain)]
         /\ \A k \in 1..Len(Chain) :
              /\ rptr[Chain[k]] = IF k = Len(Chain) THEN NULL ELSE Chain[k + 1]
              /\ lptr[Chain[k]] = IF k = 1 THEN NULL ELSE Chain[k - 1]
         /\ {Chain[k] : k \in DOMAIN Chain} = allocated
         /\ Cardinality(allocated) = Len(Chain) /\ IsFiniteSet(allocated)
<1>1. OneWay /\ LeadsBack(Chain, Last, lptr)
  BY BothWays
<1>2. Chain = <<>> <=> Len(Chain) = 0
  BY <1>1, Facts DEF OneWay
<1>3. /\ Last = IF Len(Chain) = 0 THEN NULL ELSE Chain[Len(Chain)]
      /\ \A k \in 1..Len(Chain) : lptr[Chain[k]] = IF k = 1 THEN NULL ELSE Chain[k - 1]
  BY <1>1, <1>2 DEF LeadsBack
<1> QED
  BY <1>1, <1>3, OneFacts

LEMMA ActFacts ==
  ASSUME OneWay
  PROVE  /\ ActAt \in 0..Len(Chain) /\ (ActAt = 0 <=> Act = NULL)
         /\ Act # NULL => Chain[ActAt] = Act
  BY PlaceOf DEF OneWay, ActAt

LEMMA ItemFacts ==
  ASSUME OneWay
  PROVE  /\ Items \in Seq(Data \cup {NoData}) /\ Len(Items) = Len(Chain)
         /\ \A k \in 1..Len(Chain) : Items[k] = data[Chain[k]]
         /\ Items = Held(Chain, data)
<1>1. /\ Len(Chain) \in Nat /\ DOMAIN Chain = 1..Len(Chain)
      /\ \A k \in 1..Len(Chain) : Chain[k] \in Cells
      /\ data \in [Cells -> Data \cup {NoData}]
  BY OneFacts DEF OneWay
<1>2. Items = [k \in 1..Len(Chain) |-> data[Chain[k]]]
  BY <1>1 DEF Items
<1>3. Items \in [1..Len(Chain) -> Data \cup {NoData}]
  BY <1>1, <1>2
<1>4. Items \in Seq(Data \cup {NoData}) /\ Len(Items) = Len(Chain)
  BY <1>1, <1>3, SeqDef
<1> QED
  BY <1>2, <1>4 DEF Items, Held

-----------------------------------------------------------------------------
\* A step that leaves the cells alone.
LEMMA OneStay ==
  ASSUME OneWay, UNCHANGED <<First, rptr, allocated>>,
         data' \in [Cells -> Data \cup {NoData}], Act' \in allocated \cup {NULL},
         val' \in Data \cup {NoData}, errflg' \in BOOLEAN
  PROVE  OneWay' /\ Chain' = Chain
<1>1. Chain' = Chain
  BY DEF Chain, ChainFrom, Leads
<1>2. Through(Chain, First, rptr, allocated)' <=> Through(Chain', First', rptr', allocated')
  OBVIOUS
<1> QED
  BY <1>1, <1>2 DEF OneWay

LEMMA StayStep ==
  ASSUME ListInv, UNCHANGED <<First, Last, lptr, rptr, allocated>>,
         data' \in [Cells -> Data \cup {NoData}], Act' \in allocated \cup {NULL},
         val' \in Data \cup {NoData}, errflg' \in BOOLEAN
  PROVE  ListInv' /\ Chain' = Chain
<1>1. OneWay' /\ Chain' = Chain
  BY BothWays, OneStay
<1>2. LeadsBack(Chain', Last', lptr') /\ Last' \in Pointers /\ lptr' \in [Cells -> Pointers]
  BY <1>1, BothWays
<1> QED
  BY <1>1, <1>2, BothWaysNext

\* A step that puts a cell in at place k.
LEMMA OneInsert ==
  ASSUME OneWay, NEW k \in 1..Len(Chain) + 1, NEW item \in Cells, NEW d \in Data,
         item \notin allocated, allocated' = allocated \cup {item},
         LinkedIn(Chain, First, rptr, allocated, k, item, First', rptr'),
         First' \in Pointers, rptr' \in [Cells -> Pointers],
         data' = [data EXCEPT ![item] = d], UNCHANGED <<Act, val>>, errflg' = FALSE
  PROVE  /\ OneWay'
         /\ Chain' = PutIn(Chain, k, item)
         /\ Items' = PutIn(Items, k, d)
         /\ ActAt' = IF ActAt >= k THEN ActAt + 1 ELSE ActAt
<1>1. /\ Through(Chain, First, rptr, allocated) /\ Act \in allocated \cup {NULL}
      /\ data \in [Cells -> Data \cup {NoData}] /\ allocated \subseteq Cells
      /\ val \in Data \cup {NoData}
  BY DEF OneWay
<1>2. Through(PutIn(Chain, k, item), First', rptr', allocated \cup {item})
  BY <1>1, ThroughInsert
<1>3. Chain' = PutIn(Chain, k, item)
  BY <1>2, ChainIs DEF Chain
<1>4. Through(Chain', First', rptr', allocated')
  BY <1>2, <1>3
<1>5. OneWay'
  <2>1. data' \in [Cells -> Data \cup {NoData}] /\ allocated' \subseteq Cells
    BY <1>1
  <2>2. Act' \in allocated' \cup {NULL} /\ val' \in Data \cup {NoData} /\ errflg' \in BOOLEAN
    BY <1>1
  <2> QED
    BY <1>4, <2>1, <2>2 DEF OneWay
<1>6. Items' = PutIn(Items, k, d)
  <2>1. /\ ValuesIn(allocated, data, Data \cup {NoData}) /\ Same(allocated, data, data')
        /\ ValuesIn({item}, data', Data \cup {NoData}) /\ data'[item] = d
    BY <1>1 DEF ValuesIn, Same
  <2>2. Held(PutIn(Chain, k, item), data') = PutIn(Held(Chain, data), k, data'[item])
    <3>1. ASSUME NEW field2, ValuesIn({item}, field2, Data \cup {NoData}),
                 Same(allocated, data, field2)
          PROVE  Held(PutIn(Chain, k, item), field2) = PutIn(Held(Chain, data), k, field2[item])
      <4> HIDE DEF LinkedIn
      <4> QED
        BY <1>1, <2>1, <3>1, HeldInsert
    <3> QED
      BY <2>1, <3>1
  <2>3. Items' = Held(Chain', data')
    BY DEF Items, Held
  <2> QED
    BY <1>3, <2>1, <2>2, <2>3, ItemFacts
<1>7. ActAt' = IF ActAt >= k THEN ActAt + 1 ELSE ActAt
  <2>1. Place(PutIn(Chain, k, item), Act) =
          IF Place(Chain, Act) >= k THEN Place(Chain, Act) + 1 ELSE Place(Chain, Act)
    BY <1>1, <1>2, PlaceInsert
  <2>2. ActAt' = Place(Chain', Act')
    BY DEF ActAt
  <2> QED
    BY <1>3, <2>1, <2>2 DEF ActAt
<1> QED
  BY <1>3, <1>5, <1>6, <1>7

LEMMA InsertStep ==
  ASSUME ListInv, NEW k \in 1..Len(Chain) + 1, NEW item \in Cells, NEW d \in Data,
         Malloc(item),
         LinkedIn(Chain, First, rptr, allocated, k, item, First', rptr'),
         BackIn(Chain, Last, lptr, allocated, k, item, Last', lptr'),
         First' \in Pointers, Last' \in Pointers,
         rptr' \in [Cells -> Pointers], lptr' \in [Cells -> Pointers],
         data' = [data EXCEPT ![item] = d],
         UNCHANGED <<Act, val>>, errflg' = FALSE
  PROVE  /\ ListInv'
         /\ Items' = PutIn(Items, k, d)
         /\ ActAt' = IF ActAt >= k THEN ActAt + 1 ELSE ActAt
<1>1. item \notin allocated /\ allocated' = allocated \cup {item}
  BY ListFacts DEF Malloc
<1>2. OneWay /\ LeadsBack(Chain, Last, lptr) /\ Through(Chain, First, rptr, allocated)
  BY BothWays DEF OneWay
<1>3. /\ OneWay' /\ Chain' = PutIn(Chain, k, item) /\ Items' = PutIn(Items, k, d)
      /\ ActAt' = IF ActAt >= k THEN ActAt + 1 ELSE ActAt
  BY <1>1, <1>2, OneInsert
<1>4. LeadsBack(PutIn(Chain, k, item), Last', lptr')
  BY <1>1, <1>2, BackInsert
<1> QED
  BY <1>3, <1>4, BothWaysNext

\* A step that takes out the cell at place k.
LEMMA OneRemove ==
  ASSUME OneWay, NEW k \in 1..Len(Chain), allocated' = allocated \ {Chain[k]},
         LinkedOut(Chain, First, rptr, allocated, k, First', rptr'),
         First' \in Pointers, rptr' \in [Cells -> Pointers],
         data' \in [Cells -> Data \cup {NoData}], Same(allocated \ {Chain[k]}, data, data'),
         Act' = (IF Act = Chain[k] THEN NULL ELSE Act), UNCHANGED val, errflg' = FALSE
  PROVE  /\ OneWay'
         /\ Chain' = TakeOut(Chain, k)
         /\ Items' = TakeOut(Items, k)
         /\ ActAt' = CASE ActAt > k -> ActAt - 1 [] ActAt = k -> 0 [] OTHER -> ActAt
<1>1. /\ Through(Chain, First, rptr, allocated) /\ Act \in allocated \cup {NULL}
      /\ data \in [Cells -> Data \cup {NoData}] /\ allocated \subseteq Cells
      /\ val \in Data \cup {NoData}
  BY DEF OneWay
<1>2. Through(TakeOut(Chain, k), First', rptr', allocated \ {Chain[k]})
  BY <1>1, ThroughRemove
<1>3. Chain' = TakeOut(Chain, k)
  BY <1>2, ChainIs DEF Chain
<1>4. Through(Chain', First', rptr', allocated')
  BY <1>2, <1>3
<1>5. OneWay'
  <2>1. /\ Act' \in allocated' \cup {NULL} /\ val' \in Data \cup {NoData}
        /\ errflg' \in BOOLEAN /\ allocated' \subseteq Cells
    BY <1>1
  <2> QED
    BY <1>4, <2>1 DEF OneWay
<1>6. Items' = TakeOut(Items, k)
  <2>1. ValuesIn(allocated, data, Data \cup {NoData})
    BY <1>1 DEF ValuesIn
  <2>2. Held(TakeOut(Chain, k), data') = TakeOut(Held(Chain, data), k)
    BY <1>1, <2>1, HeldRemove
  <2>3. Items' = Held(Chain', data')
    BY DEF Items, Held
  <2> QED
    BY <1>3, <2>2, <2>3, ItemFacts
<1>7. ActAt' = CASE ActAt > k -> ActAt - 1 [] ActAt = k -> 0 [] OTHER -> ActAt
  <2>1. Place(TakeOut(Chain, k), IF Act = Chain[k] THEN NULL ELSE Act) =
          CASE Place(Chain, Act) > k -> Place(Chain, Act) - 1
            [] Place(Chain, Act) = k -> 0
            [] OTHER -> Place(Chain, Act)
    BY <1>1, <1>2, PlaceRemove
  <2>2. ActAt' = Place(Chain', Act')
    BY DEF ActAt
  <2> QED
    BY <1>3, <2>1, <2>2 DEF ActAt
<1> QED
  BY <1>3, <1>5, <1>6, <1>7

LEMMA RemoveStep ==
  ASSUME ListInv, NEW k \in 1..Len(Chain),
         NEW l \in [Cells -> Pointers], NEW r \in [Cells -> Pointers],
         Free({Chain[k]}, l, r, data),
         LinkedOut(Chain, First, rptr, allocated, k, First', r),
         BackOut(Chain, Last, lptr, allocated, k, Last', l),
         Act' = (IF Act = Chain[k] THEN NULL ELSE Act), UNCHANGED val, errflg' = FALSE
  PROVE  /\ ListInv'
         /\ Items' = TakeOut(Items, k)
         /\ ActAt' = CASE ActAt > k -> ActAt - 1 [] ActAt = k -> 0 [] OTHER -> ActAt
<1>1. /\ allocated' = allocated \ {Chain[k]}
      /\ rptr' \in [Cells -> Pointers] /\ lptr' \in [Cells -> Pointers]
      /\ data' \in [Cells -> Data \cup {NoData}]
      /\ \A y \in allocated \ {Chain[k]} : rptr'[y] = r[y] /\ lptr'[y] = l[y]
                                                           /\ data'[y] = data[y]
  BY ListFacts DEF Free
<1>2. OneWay /\ LeadsBack(Chain, Last, lptr) /\ Through(Chain, First, rptr, allocated)
  BY BothWays DEF OneWay
<1>3. /\ LinkedOut(Chain, First, rptr, allocated, k, First', rptr')
      /\ BackOut(Chain, Last, lptr, allocated, k, Last', lptr')
      /\ Same(allocated \ {Chain[k]}, data, data')
  BY <1>1 DEF LinkedOut, BackOut, Same
<1>4. First' \in Pointers /\ Last' \in Pointers
  <2>1. Chain[1] \in Cells /\ Chain[k] \in Cells
    <3>1. 1 \in 1..Len(Chain)
      BY ChainFacts
    <3> QED
      BY <3>1, ChainFacts
  <2> QED
    BY <2>1, ListFacts DEF LinkedOut, BackOut
<1>5. /\ OneWay' /\ Chain' = TakeOut(Chain, k) /\ Items' = TakeOut(Items, k)
      /\ ActAt' = CASE ActAt > k -> ActAt - 1 [] ActAt = k -> 0 [] OTHER -> ActAt
  BY <1>1, <1>2, <1>3, <1>4, OneRemove
<1>6. LeadsBack(TakeOut(Chain, k), Last', lptr')
  BY <1>2, <1>3, BackRemove
<1> QED
  BY <1>1, <1>4, <1>5, <1>6, BothWaysNext

\* The same two facts about a list that leads both ways.
LEMMA BothActFacts ==
  ASSUME ListInv
  PROVE  /\ ActAt \in 0..Len(Chain) /\ (ActAt = 0 <=> Act = NULL)
         /\ Act # NULL => Chain[ActAt] = Act
  BY BothWays, ActFacts

LEMMA BothItemFacts ==
  ASSUME ListInv
  PROVE  /\ Items \in Seq(Data \cup {NoData}) /\ Len(Items) = Len(Chain)
         /\ \A k \in 1..Len(Chain) : Items[k] = data[Chain[k]]
  BY BothWays, ItemFacts

-----------------------------------------------------------------------------
\* The initial list.
LEMMA ListStart ==
  ASSUME ListInit
  PROVE  ListInv /\ AbstractList!Init
<1>1. Through(<<>>, First, rptr, allocated) /\ LeadsBack(<<>>, Last, lptr)
  BY FS_EmptySet DEF ListInit, Through, LeadsBack, Leads
<1>2. Chain = <<>>
  BY <1>1, ChainIs DEF Chain
<1>3. ListTypeOK
  BY DEF ListInit, ListTypeOK, Pointers
<1>4. ListInv
  BY <1>1, <1>2, <1>3 DEF ListInit, ListInv
<1>5. Items = <<>> /\ ActAt = 0
  BY <1>2 DEF Items, ActAt, Place, ListInit
<1> QED
  BY <1>4, <1>5 DEF ListInit, AbstractList!Init

\* An operation that leaves cells and values alone moves at most the active element.
LEMMA MoveStep ==
  ASSUME ListInv, UNCHANGED <<First, Last, lptr, rptr, data, allocated>>,
         Act' \in allocated \cup {NULL}, val' \in Data \cup {NoData}, errflg' \in BOOLEAN
  PROVE  ListInv' /\ Items' = Items /\ ActAt' = Place(Chain, Act')
<1>1. ListInv' /\ Chain' = Chain
  <2>1. data' \in [Cells -> Data \cup {NoData}]
    BY ListFacts
  <2> QED
    BY <2>1, StayStep
<1>2. Items' = Items /\ ActAt' = Place(Chain, Act')
  BY <1>1 DEF Items, ActAt
<1> QED
  BY <1>1, <1>2

LEMMA ErrorStep ==
  ASSUME ListInv, NEW name, DLError(name)
  PROVE  /\ ListInv' /\ UNCHANGED <<Items, ActAt, val>> /\ errflg' = TRUE /\ call' = name
<1>1. Act' \in allocated \cup {NULL} /\ val' \in Data \cup {NoData} /\ Act' = Act
  BY ListFacts DEF ListInv, DLError
<1>2. ListInv' /\ Items' = Items /\ ActAt' = Place(Chain, Act')
  BY <1>1, MoveStep DEF DLError
<1> QED
  BY <1>1, <1>2 DEF DLError, ActAt

LEMMA IgnoreStep ==
  ASSUME ListInv, NEW name, Ignore(name)
  PROVE  /\ ListInv' /\ UNCHANGED <<Items, ActAt, val>> /\ errflg' = FALSE /\ call' = name
<1>1. Act' \in allocated \cup {NULL} /\ val' \in Data \cup {NoData} /\ Act' = Act
  BY ListFacts DEF ListInv, Ignore
<1>2. ListInv' /\ Items' = Items /\ ActAt' = Place(Chain, Act')
  BY <1>1, MoveStep DEF Ignore, Called
<1> QED
  BY <1>1, <1>2 DEF Ignore, Called, ActAt

LEMMA ActivateStep ==
  ASSUME ListInv, NEW name, NEW x \in allocated \cup {NULL}, Activate(name, x)
  PROVE  /\ ListInv' /\ Items' = Items /\ ActAt' = Place(Chain, x) /\ UNCHANGED val
         /\ errflg' = FALSE /\ call' = name
<1>1. Act' \in allocated \cup {NULL} /\ val' \in Data \cup {NoData} /\ Act' = x
  BY ListFacts DEF Activate
<1>2. ListInv' /\ Items' = Items /\ ActAt' = Place(Chain, Act')
  BY <1>1, MoveStep DEF Activate, Called, Links
<1> QED
  BY <1>1, <1>2 DEF Activate, Called

LEMMA CopyStep ==
  ASSUME ListInv, NEW name, NEW k \in 1..Len(Chain), CopyOf(name, Chain[k])
  PROVE  /\ ListInv' /\ UNCHANGED <<Items, ActAt>> /\ val' = Items[k]
         /\ errflg' = FALSE /\ call' = name
<1>1. Chain[k] \in Cells /\ Chain[k] # NULL /\ Items[k] = data[Chain[k]]
  BY ChainFacts, BothItemFacts
<1>2. /\ Act' \in allocated \cup {NULL} /\ val' \in Data \cup {NoData} /\ Act' = Act
      /\ val' = Items[k]
  BY <1>1, ListFacts DEF ListInv, CopyOf, Links
<1>3. ListInv' /\ Items' = Items /\ ActAt' = Place(Chain, Act')
  BY <1>1, <1>2, MoveStep DEF CopyOf, Called, Links
<1> QED
  BY <1>1, <1>2, <1>3 DEF CopyOf, Called, ActAt

-----------------------------------------------------------------------------
\* What the abstract list needs of each kind of step.
LEMMA IsPut ==
  ASSUME NEW k, NEW d \in Data, Items' = PutIn(Items, k, d),
         ActAt' = (IF ActAt >= k THEN ActAt + 1 ELSE ActAt), UNCHANGED val, errflg' = FALSE
  PROVE  AbstractList!Put(k)
  BY DEF AbstractList!Put, AbstractList!Becomes, AbstractList!ActIn, AbstractList!InsertAt,
         PutIn

LEMMA IsTake ==
  ASSUME NEW k, Items' = TakeOut(Items, k),
         ActAt' = (CASE ActAt > k -> ActAt - 1 [] ActAt = k -> 0 [] OTHER -> ActAt),
         UNCHANGED val, errflg' = FALSE
  PROVE  AbstractList!Take(k)
  BY DEF AbstractList!Take, AbstractList!Becomes, AbstractList!ActOut,
         AbstractList!RemoveAt, TakeOut

LEMMA MallocFacts ==
  ASSUME ListInv, NEW item \in Cells, Malloc(item)
  PROVE  /\ item \notin allocated /\ item # NULL /\ item \in Pointers
         /\ \A k \in 1..Len(Chain) : Chain[k] # item
         /\ First # item /\ Last # item /\ Act # item
<1>1. item \notin allocated
  BY ListFacts DEF Malloc
<1>2. item # NULL /\ item \in Pointers
  BY ListAssumption DEF Pointers
<1>3. \A k \in 1..Len(Chain) : Chain[k] # item
  <2>1. \A k \in 1..Len(Chain) : Chain[k] \in allocated
    BY ChainFacts
  <2> QED
    BY <1>1, <2>1
<1>4. First # item /\ Last # item
  <2>1. Len(Chain) \in Nat
    BY ChainFacts
  <2>2. Len(Chain) # 0 => 1 \in 1..Len(Chain) /\ Len(Chain) \in 1..Len(Chain)
    BY <2>1
  <2> QED
    BY <1>2, <1>3, <2>2, ChainFacts
<1> QED
  BY <1>1, <1>2, <1>3, <1>4 DEF ListInv

LEMMA InsertFirstStep ==
  ASSUME ListInv, NEW d \in Data, DLInsertFirst(d)
  PROVE  ListInv' /\ AbstractList!Next
<1>1. CASE DLError("InsertFirst")
  BY <1>1, ErrorStep DEF AbstractList!Next, AbstractList!Op, AbstractList!Put,
                         AbstractList!Error
<1>2. CASE ~DLError("InsertFirst")
  <2>1. /\ Called("InsertFirst") /\ UNCHANGED <<Act, val>>
        /\ \E item \in Cells :
              /\ Malloc(item)
              /\ lptr' = [Set(lptr, First, item) EXCEPT ![item] = NULL]
              /\ rptr' = [rptr EXCEPT ![item] = First]
              /\ data' = [data EXCEPT ![item] = d]
              /\ First' = item
              /\ Last' = IF First = NULL THEN item ELSE Last
    BY <1>2 DEF DLInsertFirst
  <2>2. PICK item \in Cells :
              /\ Malloc(item)
              /\ lptr' = [Set(lptr, First, item) EXCEPT ![item] = NULL]
              /\ rptr' = [rptr EXCEPT ![item] = First]
              /\ data' = [data EXCEPT ![item] = d]
              /\ First' = item
              /\ Last' = IF First = NULL THEN item ELSE Last
    BY <2>1
  <2>3. item \notin allocated /\ item \in Pointers
    BY <2>2, MallocFacts
  <2>4. /\ Len(Chain) \in Nat /\ 1 \in 1..Len(Chain) + 1
        /\ (Len(Chain) # 0 <=> 1 <= Len(Chain)) /\ (1 = Len(Chain) + 1 <=> Len(Chain) = 0)
        /\ ~(1 > 1) /\ (Len(Chain) # 0 => 1 \in 1..Len(Chain))
    <3>1. Len(Chain) \in Nat
      BY ChainFacts
    <3> QED
      BY <3>1
  <2>5. First = NULL <=> Len(Chain) = 0
    BY <2>4, ChainFacts
  <2>6. /\ First \in Pointers /\ Last \in Pointers /\ NULL \in Pointers
        /\ lptr \in [Cells -> Pointers] /\ rptr \in [Cells -> Pointers]
        /\ allocated \subseteq Cells /\ First \in Cells \cup {NULL}
    BY ListFacts DEF Pointers
  <2>7. LinkedIn(Chain, First, rptr, allocated, 1, item, First', rptr')
    BY <2>2, <2>3, <2>4, <2>6, ChainFacts DEF LinkedIn
  <2>8. BackIn(Chain, Last, lptr, allocated, 1, item, Last', lptr')
    BY <2>2, <2>3, <2>4, <2>5, <2>6, ChainFacts DEF BackIn, Set
  <2>9. /\ First' \in Pointers /\ Last' \in Pointers
        /\ rptr' \in [Cells -> Pointers] /\ lptr' \in [Cells -> Pointers]
    BY <2>2, <2>3, <2>6 DEF Set
  <2>10. /\ ListInv' /\ Items' = PutIn(Items, 1, d)
         /\ ActAt' = IF ActAt >= 1 THEN ActAt + 1 ELSE ActAt
    BY <2>1, <2>2, <2>4, <2>7, <2>8, <2>9, InsertStep DEF Called
  <2>11. AbstractList!Put(1)
    BY <2>1, <2>10, IsPut DEF Called
  <2> QED
    BY <2>1, <2>10, <2>11 DEF Called, AbstractList!Next, AbstractList!Op
<1> QED
  BY <1>1, <1>2

LEMMA InsertLastStep ==
  ASSUME ListInv, NEW d \in Data, DLInsertLast(d)
  PROVE  ListInv' /\ AbstractList!Next
<1>1. CASE DLError("InsertLast")
  BY <1>1, ErrorStep DEF AbstractList!Next, AbstractList!Op, AbstractList!Put,
                         AbstractList!Error
<1>2. CASE ~DLError("InsertLast")
  <2>1. /\ Called("InsertLast") /\ UNCHANGED <<Act, val>>
        /\ \E item \in Cells :
              /\ Malloc(item)
              /\ rptr' = [Set(rptr, Last, item) EXCEPT ![item] = NULL]
              /\ lptr' = [lptr EXCEPT ![item] = Last]
              /\ data' = [data EXCEPT ![item] = d]
              /\ Last' = item
              /\ First' = IF Last = NULL THEN item ELSE First
    BY <1>2 DEF DLInsertLast
  <2>2. PICK item \in Cells :
              /\ Malloc(item)
              /\ rptr' = [Set(rptr, Last, item) EXCEPT ![item] = NULL]
              /\ lptr' = [lptr EXCEPT ![item] = Last]
              /\ data' = [data EXCEPT ![item] = d]
              /\ Last' = item
              /\ First' = IF Last = NULL THEN item ELSE First
    BY <2>1
  <2> DEFINE k == Len(Chain) + 1
  <2>3. item \notin allocated /\ item \in Pointers
    BY <2>2, MallocFacts
  <2>4. /\ Len(Chain) \in Nat /\ k \in 1..Len(Chain) + 1 /\ k = Len(Chain) + 1
        /\ (k = 1 <=> Len(Chain) = 0) /\ (k > 1 <=> Len(Chain) # 0) /\ ~(k <= Len(Chain))
        /\ k - 1 = Len(Chain) /\ (Len(Chain) # 0 => Len(Chain) \in 1..Len(Chain))
    <3>1. Len(Chain) \in Nat
      BY ChainFacts
    <3> QED
      BY <3>1
  <2> HIDE DEF k
  <2>5. Last = NULL <=> Len(Chain) = 0
    BY <2>4, ChainFacts
  <2>6. /\ First \in Pointers /\ Last \in Pointers /\ NULL \in Pointers
        /\ lptr \in [Cells -> Pointers] /\ rptr \in [Cells -> Pointers]
        /\ allocated \subseteq Cells /\ Last \in Cells \cup {NULL}
    BY ListFacts DEF Pointers
  <2>7. LinkedIn(Chain, First, rptr, allocated, k, item, First', rptr')
    BY <2>2, <2>3, <2>4, <2>5, <2>6, ChainFacts DEF LinkedIn, Set
  <2>8. BackIn(Chain, Last, lptr, allocated, k, item, Last', lptr')
    BY <2>2, <2>3, <2>4, <2>5, <2>6, ChainFacts DEF BackIn
  <2>9. /\ First' \in Pointers /\ Last' \in Pointers
        /\ rptr' \in [Cells -> Pointers] /\ lptr' \in [Cells -> Pointers]
    BY <2>2, <2>3, <2>6 DEF Set
  <2>10. /\ ListInv' /\ Items' = PutIn(Items, k, d)
         /\ ActAt' = IF ActAt >= k THEN ActAt + 1 ELSE ActAt
    BY <2>1, <2>2, <2>4, <2>7, <2>8, <2>9, InsertStep DEF Called
  <2>11. AbstractList!Put(k)
    BY <2>1, <2>10, IsPut DEF Called
  <2>12. k = AbstractList!N + 1
    BY <2>4, BothItemFacts DEF AbstractList!N
  <2> QED
    BY <2>1, <2>10, <2>11, <2>12 DEF Called, AbstractList!Next, AbstractList!Op
<1> QED
  BY <1>1, <1>2

LEMMA PostInsertStep ==
  ASSUME ListInv, NEW d \in Data, DLPostInsert(d)
  PROVE  ListInv' /\ AbstractList!Next
<1>a. /\ ActAt \in 0..Len(Chain) /\ (ActAt = 0 <=> Act = NULL)
      /\ (Act # NULL => Chain[ActAt] = Act) /\ Len(Chain) \in Nat
  BY BothActFacts, ChainFacts
<1>b. Act # NULL <=> ActAt > 0
  BY <1>a
<1>1. CASE Act = NULL /\ Ignore("PostInsert")
  BY <1>1, <1>b, IgnoreStep DEF AbstractList!Next, AbstractList!Op, AbstractList!Nothing
<1>2. CASE Act # NULL /\ DLError("PostInsert")
  BY <1>2, <1>b, ErrorStep DEF AbstractList!Next, AbstractList!Op, AbstractList!Put,
                         AbstractList!Error
<1>3. CASE /\ Act # NULL /\ Called("PostInsert") /\ UNCHANGED <<First, Act, val>>
           /\ \E item \in Cells :
                /\ Malloc(item)
                /\ lptr' = [Relink(lptr, rptr[Act], item) EXCEPT ![item] = Act]
                /\ rptr' = [rptr EXCEPT ![item] = rptr[Act], ![Act] = item]
                /\ data' = [data EXCEPT ![item] = d]
                /\ Last' = IF rptr[Act] = NULL THEN item ELSE Last
  <2>2. PICK item \in Cells :
                /\ Malloc(item)
                /\ lptr' = [Relink(lptr, rptr[Act], item) EXCEPT ![item] = Act]
                /\ rptr' = [rptr EXCEPT ![item] = rptr[Act], ![Act] = item]
                /\ data' = [data EXCEPT ![item] = d]
                /\ Last' = IF rptr[Act] = NULL THEN item ELSE Last
    BY <1>3
  <2> DEFINE k == ActAt + 1
  <2>3. item \notin allocated /\ item \in Pointers /\ Act # item
    BY <2>2, MallocFacts
  <2>4. /\ k \in 1..Len(Chain) + 1 /\ k # 1 /\ k - 1 = ActAt /\ k > 1
        /\ (k = Len(Chain) + 1 <=> ActAt = Len(Chain))
        /\ (k <= Len(Chain) <=> ActAt # Len(Chain)) /\ ActAt \in 1..Len(Chain)
        /\ (ActAt # Len(Chain) => k \in 1..Len(Chain))
    BY <1>3, <1>a
  <2>5. rptr[Act] = IF ActAt = Len(Chain) THEN NULL ELSE Chain[k]
    BY <1>3, <1>a, <2>4, ChainFacts
  <2> HIDE DEF k
  <2>6. /\ First \in Pointers /\ Last \in Pointers /\ NULL \in Pointers
        /\ lptr \in [Cells -> Pointers] /\ rptr \in [Cells -> Pointers]
        /\ allocated \subseteq Cells /\ Act \in Cells /\ Act \in Pointers
        /\ rptr[Act] \in Pointers
    BY <1>3, ListFacts DEF Pointers
  <2>c. ActAt # Len(Chain) => Chain[k] # NULL
    BY <2>4, ChainFacts
  <2>7. LinkedIn(Chain, First, rptr, allocated, k, item, First', rptr')
    BY <1>3, <1>a, <2>2, <2>3, <2>4, <2>5, <2>6 DEF LinkedIn
  <2>8. BackIn(Chain, Last, lptr, allocated, k, item, Last', lptr')
    BY <1>3, <1>a, <2>2, <2>3, <2>4, <2>5, <2>6, <2>c DEF BackIn, Relink, Set
  <2>9. /\ First' \in Pointers /\ Last' \in Pointers
        /\ rptr' \in [Cells -> Pointers] /\ lptr' \in [Cells -> Pointers]
    BY <1>3, <2>2, <2>3, <2>6 DEF Relink, Set
  <2>10. /\ ListInv' /\ Items' = PutIn(Items, k, d)
         /\ ActAt' = IF ActAt >= k THEN ActAt + 1 ELSE ActAt
    BY <1>3, <2>2, <2>4, <2>7, <2>8, <2>9, InsertStep DEF Called
  <2>11. AbstractList!Put(ActAt + 1)
    BY <1>3, <2>10, IsPut DEF Called, k
  <2> QED
    BY <1>3, <1>b, <2>10, <2>11 DEF Called, AbstractList!Next, AbstractList!Op
<1> QED
  BY <1>1, <1>2, <1>3 DEF DLPostInsert

LEMMA PreInsertStep ==
  ASSUME ListInv, NEW d \in Data, DLPreInsert(d)
  PROVE  ListInv' /\ AbstractList!Next
<1>a. /\ ActAt \in 0..Len(Chain) /\ (ActAt = 0 <=> Act = NULL)
      /\ (Act # NULL => Chain[ActAt] = Act) /\ Len(Chain) \in Nat
  BY BothActFacts, ChainFacts
<1>b. Act # NULL <=> ActAt > 0
  BY <1>a
<1>1. CASE Act = NULL /\ Ignore("PreInsert")
  BY <1>1, <1>b, IgnoreStep DEF AbstractList!Next, AbstractList!Op, AbstractList!Nothing
<1>2. CASE Act # NULL /\ DLError("PreInsert")
  BY <1>2, <1>b, ErrorStep DEF AbstractList!Next, AbstractList!Op, AbstractList!Put,
                         AbstractList!Error
<1>3. CASE /\ Act # NULL /\ Called("PreInsert") /\ UNCHANGED <<Act, Last, val>>
           /\ \E item \in Cells :
                /\ Malloc(item)
                /\ rptr' = [Relink(rptr, lptr[Act], item) EXCEPT ![item] = Act]
                /\ lptr' = [lptr EXCEPT ![item] = lptr[Act], ![Act] = item]
                /\ data' = [data EXCEPT ![item] = d]
                /\ First' = IF lptr[Act] = NULL THEN item ELSE First
  <2>2. PICK item \in Cells :
                /\ Malloc(item)
                /\ rptr' = [Relink(rptr, lptr[Act], item) EXCEPT ![item] = Act]
                /\ lptr' = [lptr EXCEPT ![item] = lptr[Act], ![Act] = item]
                /\ data' = [data EXCEPT ![item] = d]
                /\ First' = IF lptr[Act] = NULL THEN item ELSE First
    BY <1>3
  <2> DEFINE k == ActAt
  <2>3. item \notin allocated /\ item \in Pointers /\ Act # item
    BY <2>2, MallocFacts
  <2>4. /\ k \in 1..Len(Chain) + 1 /\ k \in 1..Len(Chain) /\ k # Len(Chain) + 1
        /\ k <= Len(Chain) /\ (k > 1 <=> k # 1) /\ (k # 1 => k - 1 \in 1..Len(Chain))
    BY <1>3, <1>a
  <2>5. lptr[Act] = IF k = 1 THEN NULL ELSE Chain[k - 1]
    BY <1>3, <1>a, <2>4, ChainFacts
  <2>d. Chain[k] = Act
    BY <1>3, <1>a
  <2> HIDE DEF k
  <2>6. /\ First \in Pointers /\ Last \in Pointers /\ NULL \in Pointers
        /\ lptr \in [Cells -> Pointers] /\ rptr \in [Cells -> Pointers]
        /\ allocated \subseteq Cells /\ Act \in Cells /\ Act \in Pointers
        /\ lptr[Act] \in Pointers
    BY <1>3, ListFacts DEF Pointers
  <2>c. k # 1 => Chain[k - 1] # NULL
    BY <2>4, ChainFacts
  <2>7. LinkedIn(Chain, First, rptr, allocated, k, item, First', rptr')
    BY <1>3, <2>2, <2>3, <2>4, <2>5, <2>6, <2>c, <2>d DEF LinkedIn, Relink, Set
  <2>8. BackIn(Chain, Last, lptr, allocated, k, item, Last', lptr')
    BY <1>3, <2>2, <2>3, <2>4, <2>5, <2>6, <2>d DEF BackIn
  <2>9. /\ First' \in Pointers /\ Last' \in Pointers
        /\ rptr' \in [Cells -> Pointers] /\ lptr' \in [Cells -> Pointers]
    BY <1>3, <2>2, <2>3, <2>6 DEF Relink, Set
  <2>10. /\ ListInv' /\ Items' = PutIn(Items, k, d)
         /\ ActAt' = IF ActAt >= k THEN ActAt + 1 ELSE ActAt
    BY <1>3, <2>2, <2>4, <2>7, <2>8, <2>9, InsertStep DEF Called
  <2>11. AbstractList!Put(ActAt)
    BY <1>3, <2>10, IsPut DEF Called, k
  <2> QED
    BY <1>3, <1>b, <2>10, <2>11 DEF Called, AbstractList!Next, AbstractList!Op
<1> QED
  BY <1>1, <1>2, <1>3 DEF DLPreInsert

LEMMA DisposeStep ==
  ASSUME ListInv, DLDisposeList
  PROVE  ListInv' /\ AbstractList!Next
<1>1. /\ allocated' = {} /\ First' = NULL /\ Act' = NULL /\ Last' = NULL
      /\ lptr' \in [Cells -> Pointers] /\ rptr' \in [Cells -> Pointers]
      /\ data' \in [Cells -> Data \cup {NoData}]
      /\ val' = val /\ errflg' = FALSE /\ call' = "DisposeList"
  <2>1. {Chain[k] : k \in DOMAIN Chain} = allocated
    BY ChainFacts
  <2> QED
    BY <2>1, ListFacts DEF DLDisposeList, Free, Called
<1>2. Through(<<>>, First', rptr', allocated') /\ LeadsBack(<<>>, Last', lptr')
  BY <1>1, FS_EmptySet DEF Through, LeadsBack, Leads
<1>3. Chain' = <<>>
  BY <1>2, ChainIs DEF Chain
<1>4. ListTypeOK'
  BY <1>1, ListFacts DEF ListTypeOK, Pointers
<1>5. ListInv'
  BY <1>1, <1>2, <1>3, <1>4 DEF ListInv
<1>6. Items' = <<>> /\ ActAt' = 0
  BY <1>1, <1>3 DEF Items, ActAt, Place
<1> QED
  BY <1>1, <1>5, <1>6 DEF AbstractList!Next, AbstractList!Op, AbstractList!Becomes

LEMMA DeleteFirstStep ==
  ASSUME ListInv, DLDeleteFirst
  PROVE  ListInv' /\ AbstractList!Next
<1>a. Len(Chain) \in Nat /\ AbstractList!N = Len(Chain)
  BY ChainFacts, BothItemFacts DEF AbstractList!N
<1>b. /\ Len(Chain) # 0 => 1 \in 1..Len(Chain) /\ Len(Chain) \in 1..Len(Chain)
      /\ (AbstractList!N > 0 <=> Len(Chain) # 0)
  BY <1>a
<1>c. First = NULL <=> Len(Chain) = 0
  BY <1>b, ChainFacts
<1>1. CASE First = NULL /\ Ignore("DeleteFirst")
  BY <1>1, <1>b, <1>c, IgnoreStep DEF AbstractList!Next, AbstractList!Op, AbstractList!Nothing
<1>2. CASE /\ First # NULL /\ Called("DeleteFirst") /\ UNCHANGED val
           /\ Act' = LoseAct(First)
           /\ Last' = IF First = Last THEN NULL ELSE Last
           /\ First' = rptr[First]
           /\ Free({First}, Set(lptr, rptr[First], NULL), rptr, data)
  <2>1. 1 \in 1..Len(Chain) /\ First = Chain[1] /\ Last = Chain[Len(Chain)]
        /\ Len(Chain) \in 1..Len(Chain)
    BY <1>b, <1>c, <1>2, ChainFacts
  <2>2. /\ ~(1 > 1) /\ (1 < Len(Chain) <=> 1 # Len(Chain))
        /\ (1 # Len(Chain) => 2 \in 1..Len(Chain)) /\ 1 + 1 = 2
    BY <1>a, <2>1
  <2>3. First = Last <=> 1 = Len(Chain)
    BY <2>1, ChainFacts
  <2>4. /\ rptr[First] = (IF 1 = Len(Chain) THEN NULL ELSE Chain[2])
        /\ lptr[First] = NULL /\ (1 # Len(Chain) => Chain[2] # NULL)
    BY <2>1, <2>2, ChainFacts
  <2>5. /\ First \in Cells /\ NULL \in Pointers /\ rptr[First] \in Pointers
        /\ lptr \in [Cells -> Pointers] /\ rptr \in [Cells -> Pointers]
        /\ allocated \subseteq Cells
    BY <2>1, ListFacts, ChainFacts
  <2> DEFINE l == Set(lptr, rptr[First], NULL)
  <2>6. l \in [Cells -> Pointers]
    BY <2>5 DEF Set
  <2>7. LinkedOut(Chain, First, rptr, allocated, 1, First', rptr)
    BY <1>2, <2>1, <2>2 DEF LinkedOut
  <2>8. BackOut(Chain, Last, lptr, allocated, 1, Last', l)
    BY <1>2, <2>1, <2>2, <2>3, <2>4, <2>5 DEF BackOut, Set
  <2>9. Free({Chain[1]}, l, rptr, data)
    BY <1>2, <2>1
  <2>10. Act' = (IF Act = Chain[1] THEN NULL ELSE Act) /\ errflg' = FALSE
    BY <1>2, <2>1 DEF LoseAct, Called
  <2> HIDE DEF l
  <2>11. /\ ListInv' /\ Items' = TakeOut(Items, 1)
         /\ ActAt' = CASE ActAt > 1 -> ActAt - 1 [] ActAt = 1 -> 0 [] OTHER -> ActAt
    BY <1>2, <2>1, <2>5, <2>6, <2>7, <2>8, <2>9, <2>10, RemoveStep
  <2>12. AbstractList!Take(1)
    BY <1>2, <2>10, <2>11, IsTake
  <2> QED
    BY <1>2, <1>b, <1>c, <2>11, <2>12 DEF Called, AbstractList!Next, AbstractList!Op
<1> QED
  BY <1>1, <1>2 DEF DLDeleteFirst

LEMMA DeleteLastStep ==
  ASSUME ListInv, DLDeleteLast
  PROVE  ListInv' /\ AbstractList!Next
<1>a. Len(Chain) \in Nat /\ AbstractList!N = Len(Chain)
  BY ChainFacts, BothItemFacts DEF AbstractList!N
<1>b. /\ Len(Chain) # 0 => 1 \in 1..Len(Chain) /\ Len(Chain) \in 1..Len(Chain)
      /\ (AbstractList!N > 0 <=> Len(Chain) # 0)
  BY <1>a
<1>c. Last = NULL <=> Len(Chain) = 0
  BY <1>b, ChainFacts
<1>1. CASE Last = NULL /\ Ignore("DeleteLast")
  BY <1>1, <1>b, <1>c, IgnoreStep DEF AbstractList!Next, AbstractList!Op, AbstractList!Nothing
<1>2. CASE /\ Last # NULL /\ Called("DeleteLast") /\ UNCHANGED val
           /\ Act' = LoseAct(Last)
           /\ Last' = lptr[Last]
           /\ First' = IF lptr[Last] = NULL THEN NULL ELSE First
           /\ Free({Last}, lptr, Set(rptr, lptr[Last], NULL), data)
  <2> DEFINE k == Len(Chain)
  <2>1. 1 \in 1..Len(Chain) /\ First = Chain[1] /\ Last = Chain[k] /\ k \in 1..Len(Chain)
        /\ k = Len(Chain)
    BY <1>b, <1>c, <1>2, ChainFacts
  <2>2. /\ (k > 1 <=> k # 1) /\ ~(k < Len(Chain)) /\ (k # 1 => k - 1 \in 1..Len(Chain))
    BY <1>a, <2>1
  <2> HIDE DEF k
  <2>4. /\ lptr[Last] = (IF k = 1 THEN NULL ELSE Chain[k - 1])
        /\ rptr[Last] = NULL /\ (k # 1 => Chain[k - 1] # NULL)
    BY <2>1, <2>2, ChainFacts
  <2>5. /\ Last \in Cells /\ NULL \in Pointers /\ lptr[Last] \in Pointers
        /\ lptr \in [Cells -> Pointers] /\ rptr \in [Cells -> Pointers]
        /\ allocated \subseteq Cells
    BY <2>1, ListFacts, ChainFacts
  <2> DEFINE r == Set(rptr, lptr[Last], NULL)
  <2>6. r \in [Cells -> Pointers]
    BY <2>5 DEF Set
  <2>7. LinkedOut(Chain, First, rptr, allocated, k, First', r)
    BY <1>2, <2>1, <2>2, <2>4, <2>5 DEF LinkedOut, Set
  <2>8. BackOut(Chain, Last, lptr, allocated, k, Last', lptr)
    BY <1>2, <2>1, <2>2 DEF BackOut
  <2>9. Free({Chain[k]}, lptr, r, data)
    BY <1>2, <2>1
  <2>10. Act' = (IF Act = Chain[k] THEN NULL ELSE Act) /\ errflg' = FALSE
    BY <1>2, <2>1 DEF LoseAct, Called
  <2> HIDE DEF r
  <2>11. /\ ListInv' /\ Items' = TakeOut(Items, k)
         /\ ActAt' = CASE ActAt > k -> ActAt - 1 [] ActAt = k -> 0 [] OTHER -> ActAt
    BY <1>2, <2>1, <2>5, <2>6, <2>7, <2>8, <2>9, <2>10, RemoveStep
  <2>12. AbstractList!Take(AbstractList!N)
    <3>1. AbstractList!Take(k)
      BY <1>2, <2>10, <2>11, IsTake
    <3> QED
      BY <1>a, <3>1 DEF k
  <2> QED
    BY <1>2, <1>b, <1>c, <2>11, <2>12 DEF Called, AbstractList!Next, AbstractList!Op
<1> QED
  BY <1>1, <1>2 DEF DLDeleteLast

LEMMA PostDeleteStep ==
  ASSUME ListInv, DLPostDelete
  PROVE  ListInv' /\ AbstractList!Next
<1>a. /\ ActAt \in 0..Len(Chain) /\ (ActAt = 0 <=> Act = NULL)
      /\ (Act # NULL => Chain[ActAt] = Act) /\ Len(Chain) \in Nat
      /\ AbstractList!N = Len(Chain)
  BY BothActFacts, ChainFacts, BothItemFacts DEF AbstractList!N
<1>b. ActAt # 0 => ActAt \in 1..Len(Chain) /\ Len(Chain) \in 1..Len(Chain) /\ Len(Chain) # 0
  BY <1>a
<1>c. Act \in {NULL, Last} <=> ActAt \in {0, Len(Chain)}
  BY <1>a, <1>b, ChainFacts
<1>1. CASE Act \in {NULL, Last}
  <2>1. Ignore("PostDelete")
    BY <1>1 DEF DLPostDelete
  <2> QED
    BY <1>1, <1>a, <1>c, <2>1, IgnoreStep
    DEF AbstractList!Next, AbstractList!Op, AbstractList!Nothing
<1>2. CASE Act \notin {NULL, Last}
  <2> DEFINE item == rptr[Act]
             k == ActAt + 1
  <2>1. /\ Called("PostDelete") /\ UNCHANGED <<First, Act, val>>
        /\ \/ /\ rptr[item] # NULL
              /\ Free({item}, [lptr EXCEPT ![rptr[item]] = Act],
                              [rptr EXCEPT ![Act] = rptr[item]], data)
              /\ UNCHANGED Last
           \/ /\ rptr[item] = NULL
              /\ Last' = lptr[item]
              /\ Free({item}, lptr, [rptr EXCEPT ![lptr[item]] = NULL], data)
    BY <1>2 DEF DLPostDelete
  <2>2. /\ ActAt \in 1..Len(Chain) /\ k \in 1..Len(Chain) /\ k - 1 = ActAt /\ k # 1 /\ k > 1
        /\ ActAt # Len(Chain) /\ (k < Len(Chain) <=> k # Len(Chain)) /\ ActAt # k
        /\ (k # Len(Chain) => k + 1 \in 1..Len(Chain))
    BY <1>a, <1>c, <1>2
  <2>3. item = Chain[k] /\ Chain[ActAt] = Act /\ Act # item
    BY <1>a, <1>c, <1>2, <2>2, ChainFacts
  <2> HIDE DEF item
  <2>4. /\ rptr[item] = (IF k = Len(Chain) THEN NULL ELSE Chain[k + 1])
        /\ lptr[item] = Act /\ (k # Len(Chain) => Chain[k + 1] # NULL)
    BY <2>2, <2>3, ChainFacts
  <2>5. /\ item \in Cells /\ Act \in Cells /\ NULL \in Pointers /\ Act \in Pointers
        /\ lptr \in [Cells -> Pointers] /\ rptr \in [Cells -> Pointers]
        /\ allocated \subseteq Cells /\ rptr[item] \in Pointers
    BY <1>2, <2>2, <2>3, ListFacts, ChainFacts
  <2> HIDE DEF k
  <2> DEFINE l == IF k = Len(Chain) THEN lptr ELSE [lptr EXCEPT ![rptr[item]] = Act]
             r == [rptr EXCEPT ![Act] = rptr[item]]
  <2>6. l \in [Cells -> Pointers] /\ r \in [Cells -> Pointers]
    BY <2>5
  <2>7. LinkedOut(Chain, First, rptr, allocated, k, First', r)
    BY <2>1, <2>2, <2>3, <2>4, <2>5 DEF LinkedOut
  <2>8. BackOut(Chain, Last, lptr, allocated, k, Last', l)
    BY <2>1, <2>2, <2>3, <2>4, <2>5 DEF BackOut
  <2>9. Free({Chain[k]}, l, r, data)
    BY <2>1, <2>3, <2>4
  <2>10. Act' = (IF Act = Chain[k] THEN NULL ELSE Act) /\ errflg' = FALSE
    BY <2>1, <2>3 DEF Called
  <2> HIDE DEF l, r
  <2>11. /\ ListInv' /\ Items' = TakeOut(Items, k)
         /\ ActAt' = CASE ActAt > k -> ActAt - 1 [] ActAt = k -> 0 [] OTHER -> ActAt
    BY <2>1, <2>2, <2>6, <2>7, <2>8, <2>9, <2>10, RemoveStep
  <2>12. AbstractList!Take(ActAt + 1)
    BY <2>1, <2>10, <2>11, IsTake DEF k
  <2> QED
    BY <1>a, <1>c, <1>2, <2>1, <2>11, <2>12 DEF Called, AbstractList!Next, AbstractList!Op
<1> QED
  BY <1>1, <1>2

LEMMA PreDeleteStep ==
  ASSUME ListInv, DLPreDelete
  PROVE  ListInv' /\ AbstractList!Next
<1>a. /\ ActAt \in 0..Len(Chain) /\ (ActAt = 0 <=> Act = NULL)
      /\ (Act # NULL => Chain[ActAt] = Act) /\ Len(Chain) \in Nat
  BY BothActFacts, ChainFacts
<1>b. /\ ActAt # 0 => ActAt \in 1..Len(Chain) /\ 1 \in 1..Len(Chain) /\ Len(Chain) # 0
      /\ (ActAt > 1 <=> ActAt \notin {0, 1})
  BY <1>a
<1>c. Act \in {NULL, First} <=> ActAt \in {0, 1}
  <2>1. CASE ActAt = 0
    BY <1>a, <2>1
  <2>2. CASE ActAt # 0
    <3>1. /\ First = Chain[1] /\ Act = Chain[ActAt] /\ Act # NULL
          /\ ActAt \in 1..Len(Chain) /\ 1 \in 1..Len(Chain)
      BY <1>a, <1>b, <2>2, ChainFacts
    <3>2. Chain[ActAt] = Chain[1] => ActAt = 1
      BY <3>1, ChainFacts
    <3> QED
      BY <2>2, <3>1, <3>2
  <2> QED
    BY <2>1, <2>2
<1>1. CASE Act \in {NULL, First}
  <2>1. Ignore("PreDelete")
    BY <1>1 DEF DLPreDelete
  <2> QED
    BY <1>1, <1>b, <1>c, <2>1, IgnoreStep
    DEF AbstractList!Next, AbstractList!Op, AbstractList!Nothing
<1>2. CASE Act \notin {NULL, First}
  <2> DEFINE item == lptr[Act]
             k == ActAt - 1
  <2>1. /\ Called("PreDelete") /\ UNCHANGED <<Act, Last, val>>
        /\ \/ /\ lptr[item] # NULL
              /\ Free({item}, [lptr EXCEPT ![Act] = lptr[item]],
                              [rptr EXCEPT ![lptr[item]] = Act], data)
              /\ UNCHANGED First
           \/ /\ lptr[item] = NULL
              /\ First' = Act
              /\ Free({item}, [lptr EXCEPT ![Act] = NULL], rptr, data)
    BY <1>2 DEF DLPreDelete
  <2>2. /\ ActAt \in 1..Len(Chain) /\ k \in 1..Len(Chain) /\ k + 1 = ActAt
        /\ ActAt # 1 /\ k < Len(Chain) /\ k # Len(Chain) /\ ActAt # k
        /\ (k > 1 <=> k # 1) /\ (k # 1 => k - 1 \in 1..Len(Chain)) /\ 1 \in 1..Len(Chain)
    BY <1>a, <1>c, <1>2
  <2>3. item = Chain[k] /\ Chain[ActAt] = Act /\ Act # item
    <3>1. Chain[ActAt] = Act
      BY <1>a, <1>2
    <3>2. ActAt - 1 = k
      OBVIOUS
    <3>3. lptr[Chain[ActAt]] = Chain[ActAt - 1]
      BY <2>2, ChainFacts
    <3>4. Chain[k] # Chain[ActAt]
      BY <2>2, ChainFacts
    <3> QED
      BY <3>1, <3>2, <3>3, <3>4
  <2> HIDE DEF item
  <2>4. /\ lptr[item] = (IF k = 1 THEN NULL ELSE Chain[k - 1])
        /\ rptr[item] = Act /\ (k # 1 => Chain[k - 1] # NULL)
    BY <2>2, <2>3, ChainFacts
  <2>5. /\ item \in Cells /\ Act \in Cells /\ NULL \in Pointers /\ Act \in Pointers
        /\ lptr \in [Cells -> Pointers] /\ rptr \in [Cells -> Pointers]
        /\ allocated \subseteq Cells /\ lptr[item] \in Pointers
    BY <1>2, <2>2, <2>3, ListFacts, ChainFacts
  <2> HIDE DEF k
  <2> DEFINE l == [lptr EXCEPT ![Act] = lptr[item]]
             r == IF k = 1 THEN rptr ELSE [rptr EXCEPT ![lptr[item]] = Act]
  <2>6. l \in [Cells -> Pointers] /\ r \in [Cells -> Pointers]
    BY <2>5
  <2>7. LinkedOut(Chain, First, rptr, allocated, k, First', r)
    BY <2>1, <2>2, <2>3, <2>4, <2>5 DEF LinkedOut
  <2>8. BackOut(Chain, Last, lptr, allocated, k, Last', l)
    BY <2>1, <2>2, <2>3, <2>4, <2>5 DEF BackOut
  <2>9. Free({Chain[k]}, l, r, data)
    BY <2>1, <2>3, <2>4
  <2>10. Act' = (IF Act = Chain[k] THEN NULL ELSE Act) /\ errflg' = FALSE
    BY <2>1, <2>3 DEF Called
  <2> HIDE DEF l, r
  <2>11. /\ ListInv' /\ Items' = TakeOut(Items, k)
         /\ ActAt' = CASE ActAt > k -> ActAt - 1 [] ActAt = k -> 0 [] OTHER -> ActAt
    BY <2>1, <2>2, <2>6, <2>7, <2>8, <2>9, <2>10, RemoveStep
  <2>12. AbstractList!Take(ActAt - 1)
    BY <2>1, <2>10, <2>11, IsTake DEF k
  <2> QED
    BY <1>b, <1>c, <1>2, <2>1, <2>11, <2>12 DEF Called, AbstractList!Next, AbstractList!Op
<1> QED
  BY <1>1, <1>2

LEMMA PlaceInChain ==
  ASSUME ListInv, NEW k \in 1..Len(Chain)
  PROVE  Place(Chain, Chain[k]) = k /\ Chain[k] \in allocated \cup {NULL} /\ Chain[k] # NULL
  BY PlaceIs, ChainFacts DEF ListInv

LEMMA EndsStep ==
  ASSUME ListInv, DLFirst \/ DLLast \/ DLCopyFirst \/ DLCopyLast
  PROVE  ListInv' /\ AbstractList!Next
<1> DEFINE n == Len(Chain)
<1>1. n \in Nat /\ AbstractList!N = n /\ (n # 0 => n > 0) /\ ~(0 > 0)
  <2>1. Len(Chain) \in Nat /\ Len(Items) = Len(Chain)
    BY ChainFacts, BothItemFacts
  <2> QED
    BY <2>1 DEF AbstractList!N
<1>2. n # 0 => 1 \in 1..n /\ n \in 1..n
  BY <1>1
<1>3. /\ First = IF n = 0 THEN NULL ELSE Chain[1]
      /\ Last = IF n = 0 THEN NULL ELSE Chain[n]
  BY ChainFacts
<1>4. /\ First \in allocated \cup {NULL} /\ Last \in allocated \cup {NULL}
      /\ Place(Chain, First) = IF n = 0 THEN 0 ELSE 1
      /\ Place(Chain, Last) = n
  <2>1. CASE n = 0
    BY <1>3, <2>1 DEF Place
  <2>2. CASE n # 0
    BY <1>2, <1>3, <2>2, PlaceInChain
  <2> QED
    BY <2>1, <2>2
<1> HIDE DEF n
<1>5. CASE DLFirst
  BY <1>1, <1>4, <1>5, ActivateStep 
  DEF DLFirst, AbstractList!Activate, AbstractList!Becomes,
      AbstractList!Next, AbstractList!Op
<1>6. CASE DLLast
  BY <1>1, <1>4, <1>6, ActivateStep 
  DEF DLLast, AbstractList!Activate, AbstractList!Becomes,
      AbstractList!Next, AbstractList!Op
<1>7. CASE DLCopyFirst
  <2>1. CASE n = 0
    <3>1. DLError("CopyFirst")
      BY <1>3, <1>7, <2>1 DEF DLCopyFirst, CopyOf
    <3> QED
      BY <1>1, <2>1, <3>1, ErrorStep
      DEF AbstractList!Error, AbstractList!Next, AbstractList!Op
  <2>2. CASE n # 0
    <3>1. 1 \in 1..Len(Chain) /\ CopyOf("CopyFirst", Chain[1])
      BY <1>2, <1>3, <1>7, <2>2 DEF DLCopyFirst, n
    <3>2. /\ ListInv' /\ UNCHANGED <<Items, ActAt>> /\ val' = Items[1]
          /\ errflg' = FALSE /\ call' = "CopyFirst"
      BY <3>1, CopyStep
    <3> QED
      BY <1>1, <2>2, <3>2
      DEF AbstractList!CopyOf, AbstractList!Next, AbstractList!Op
  <2> QED
    BY <2>1, <2>2
<1>8. CASE DLCopyLast
  <2>1. CASE n = 0
    <3>1. DLError("CopyLast")
      BY <1>3, <1>8, <2>1 DEF DLCopyLast, CopyOf
    <3> QED
      BY <1>1, <2>1, <3>1, ErrorStep
      DEF AbstractList!Error, AbstractList!Next, AbstractList!Op
  <2>2. CASE n # 0
    <3>1. n \in 1..Len(Chain) /\ CopyOf("CopyLast", Chain[n])
      BY <1>2, <1>3, <1>8, <2>2 DEF DLCopyLast, n
    <3>2. /\ ListInv' /\ UNCHANGED <<Items, ActAt>> /\ val' = Items[n]
          /\ errflg' = FALSE /\ call' = "CopyLast"
      BY <3>1, CopyStep
    <3> QED
      BY <1>1, <2>2, <3>2
      DEF AbstractList!CopyOf, AbstractList!Next, AbstractList!Op
  <2> QED
    BY <2>1, <2>2
<1> QED
  BY <1>5, <1>6, <1>7, <1>8

LEMMA ActualizeStep ==
  ASSUME ListInv, NEW d \in Data, DLActualize(d)
  PROVE  ListInv' /\ AbstractList!Next
<1>a. /\ ActAt \in 0..Len(Chain) /\ (ActAt = 0 <=> Act = NULL)
      /\ (Act # NULL => Chain[ActAt] = Act) /\ Len(Chain) \in Nat
  BY BothActFacts, ChainFacts
<1>b. Act # NULL <=> ActAt > 0
  BY <1>a
<1>1. CASE Act = NULL /\ Ignore("Actualize")
  BY <1>1, <1>b, IgnoreStep DEF AbstractList!Next, AbstractList!Op, AbstractList!Nothing
<1>2. CASE /\ Act # NULL /\ Called("Actualize") /\ data' = [data EXCEPT ![Act] = d]
           /\ UNCHANGED <<First, Act, Last, lptr, rptr, allocated, val>>
  <2>1. /\ Act \in Cells /\ data \in [Cells -> Data \cup {NoData}]
        /\ val \in Data \cup {NoData} /\ Act \in allocated \cup {NULL}
        /\ ActAt \in 1..Len(Chain)
    BY <1>2, <1>a, ListFacts DEF ListInv, Pointers
  <2>2. ListInv' /\ Chain' = Chain
    <3>1. /\ data' \in [Cells -> Data \cup {NoData}] /\ Act' \in allocated \cup {NULL}
          /\ val' \in Data \cup {NoData} /\ errflg' \in BOOLEAN
      BY <1>2, <2>1 DEF Called
    <3> QED
      BY <1>2, <3>1, StayStep
  <2>3. ActAt' = ActAt
    BY <1>2, <2>2 DEF ActAt
  <2>4. Items' = [Items EXCEPT ![ActAt] = d]
    <3>1. /\ DOMAIN Chain = 1..Len(Chain)
          /\ \A k \in 1..Len(Chain) : Chain[k] \in Cells
          /\ \A k \in 1..Len(Chain) : Chain[k] = Chain[ActAt] => k = ActAt
      BY <2>1, ChainFacts
    <3>2. Items = [k \in 1..Len(Chain) |-> data[Chain[k]]]
      BY <3>1 DEF Items
    <3>3. Items' = [k \in 1..Len(Chain) |-> data'[Chain[k]]]
      BY <2>2, <3>1 DEF Items
    <3>4. ASSUME NEW k \in 1..Len(Chain)
          PROVE  data'[Chain[k]] = IF k = ActAt THEN d ELSE data[Chain[k]]
      BY <1>2, <1>a, <2>1, <3>1
    <3> QED
      BY <2>1, <3>2, <3>3, <3>4
  <2> QED
    BY <1>2, <1>b, <2>2, <2>3, <2>4
    DEF Called, AbstractList!Next, AbstractList!Op, AbstractList!Becomes
<1> QED
  BY <1>1, <1>2 DEF DLActualize

LEMMA ActiveStep ==
  ASSUME ListInv, DLCopy \/ DLSucc \/ DLPred
  PROVE  ListInv' /\ AbstractList!Next
<1>1. /\ ActAt \in 0..Len(Chain) /\ (ActAt = 0 <=> Act = NULL)
      /\ (Act # NULL => Chain[ActAt] = Act) /\ Len(Chain) \in Nat
      /\ AbstractList!N = Len(Chain)
  BY BothActFacts, ChainFacts, BothItemFacts DEF AbstractList!N
<1>2. Act # NULL <=> ActAt > 0
  BY <1>1
<1>3. CASE DLCopy
  <2>1. CASE Act = NULL
    <3>1. DLError("Copy")
      BY <1>3, <2>1 DEF DLCopy, CopyOf
    <3> QED
      BY <1>2, <2>1, <3>1, ErrorStep
      DEF AbstractList!Error, AbstractList!Next, AbstractList!Op
  <2>2. CASE Act # NULL
    <3>1. ActAt \in 1..Len(Chain) /\ CopyOf("Copy", Chain[ActAt])
      BY <1>1, <1>3, <2>2 DEF DLCopy
    <3>2. /\ ListInv' /\ UNCHANGED <<Items, ActAt>> /\ val' = Items[ActAt]
          /\ errflg' = FALSE /\ call' = "Copy"
      BY <3>1, CopyStep
    <3> QED
      BY <1>2, <2>2, <3>2
      DEF AbstractList!CopyOf, AbstractList!Next, AbstractList!Op
  <2> QED
    BY <2>1, <2>2
<1>4. CASE DLSucc
  <2>1. CASE Act = NULL
    <3>1. Ignore("Succ")
      BY <1>4, <2>1 DEF DLSucc
    <3> QED
      BY <1>2, <2>1, <3>1, IgnoreStep
      DEF AbstractList!Nothing, AbstractList!Next, AbstractList!Op
  <2>2. CASE Act # NULL
    <3>1. /\ Activate("Succ", rptr[Act]) /\ ActAt \in 1..Len(Chain)
          /\ (ActAt # Len(Chain) => ActAt + 1 \in 1..Len(Chain))
      BY <1>1, <1>4, <2>2 DEF DLSucc
    <3>2. rptr[Act] = IF ActAt = Len(Chain) THEN NULL ELSE Chain[ActAt + 1]
      BY <1>1, <2>2, <3>1, ChainFacts
    <3>3. rptr[Act] \in allocated \cup {NULL}
      BY <3>1, <3>2, PlaceInChain
    <3>4. Place(Chain, rptr[Act]) = IF ActAt = Len(Chain) THEN 0 ELSE ActAt + 1
      <4>1. CASE ActAt = Len(Chain)
        BY <3>2, <4>1 DEF Place
      <4>2. CASE ActAt # Len(Chain)
        BY <3>1, <3>2, <4>2, PlaceInChain
      <4> QED
        BY <4>1, <4>2
    <3>5. /\ ListInv' /\ Items' = Items /\ ActAt' = Place(Chain, rptr[Act]) /\ UNCHANGED val
          /\ errflg' = FALSE /\ call' = "Succ"
      BY <3>1, <3>3, ActivateStep
    <3> QED
      BY <1>1, <1>2, <2>2, <3>4, <3>5
      DEF AbstractList!Activate, AbstractList!Becomes, AbstractList!Next, AbstractList!Op
  <2> QED
    BY <2>1, <2>2
<1>5. CASE DLPred
  <2>1. CASE Act = NULL
    <3>1. Ignore("Pred")
      BY <1>5, <2>1 DEF DLPred
    <3> QED
      BY <1>2, <2>1, <3>1, IgnoreStep
      DEF AbstractList!Nothing, AbstractList!Next, AbstractList!Op
  <2>2. CASE Act # NULL
    <3>1. /\ Activate("Pred", lptr[Act]) /\ ActAt \in 1..Len(Chain)
          /\ (ActAt # 1 => ActAt - 1 \in 1..Len(Chain)) /\ (ActAt = 1 => ActAt - 1 = 0)
      BY <1>1, <1>5, <2>2 DEF DLPred
    <3>2. lptr[Act] = IF ActAt = 1 THEN NULL ELSE Chain[ActAt - 1]
      BY <1>1, <2>2, <3>1, ChainFacts
    <3>3. lptr[Act] \in allocated \cup {NULL}
      BY <3>1, <3>2, PlaceInChain
    <3>4. Place(Chain, lptr[Act]) = ActAt - 1
      <4>1. CASE ActAt = 1
        BY <3>1, <3>2, <4>1 DEF Place
      <4>2. CASE ActAt # 1
        BY <3>1, <3>2, <4>2, PlaceInChain
      <4> QED
        BY <4>1, <4>2
    <3>5. /\ ListInv' /\ Items' = Items /\ ActAt' = Place(Chain, lptr[Act]) /\ UNCHANGED val
          /\ errflg' = FALSE /\ call' = "Pred"
      BY <3>1, <3>3, ActivateStep
    <3> QED
      BY <1>1, <1>2, <2>2, <3>4, <3>5
      DEF AbstractList!Activate, AbstractList!Becomes, AbstractList!Next, AbstractList!Op
  <2> QED
    BY <2>1, <2>2
<1> QED
  BY <1>3, <1>4, <1>5

-----------------------------------------------------------------------------
\* One step of the list.
LEMMA ListStep ==
  ASSUME ListInv, [ListNext]_listVars
  PROVE  ListInv' /\ [AbstractList!Next]_AbstractList!vars
<1>1. CASE UNCHANGED listVars
  <2>1. /\ UNCHANGED <<First, Last, Act, lptr, rptr, data, allocated, val, errflg, call>>
        /\ Act \in allocated \cup {NULL} /\ val \in Data \cup {NoData} /\ errflg \in BOOLEAN
    BY <1>1, ListFacts DEF listVars, ListInv
  <2>2. ListInv' /\ Items' = Items /\ ActAt' = Place(Chain, Act')
    BY <2>1, MoveStep
  <2> QED
    BY <2>1, <2>2 DEF AbstractList!vars, ActAt
<1>2. CASE DLDisposeList
  BY <1>2, DisposeStep
<1>3. CASE DLFirst \/ DLLast \/ DLCopyFirst \/ DLCopyLast
  BY <1>3, EndsStep
<1>4. CASE DLCopy \/ DLSucc \/ DLPred
  BY <1>4, ActiveStep
<1>5. CASE DLDeleteFirst
  BY <1>5, DeleteFirstStep
<1>6. CASE DLDeleteLast
  BY <1>6, DeleteLastStep
<1>7. CASE DLPostDelete
  BY <1>7, PostDeleteStep
<1>8. CASE DLPreDelete
  BY <1>8, PreDeleteStep
<1>9. ASSUME NEW d \in Data,
             \/ DLInsertFirst(d) \/ DLInsertLast(d) \/ DLPostInsert(d)
             \/ DLPreInsert(d) \/ DLActualize(d)
      PROVE  ListInv' /\ AbstractList!Next
  BY <1>9, InsertFirstStep, InsertLastStep, PostInsertStep, PreInsertStep, ActualizeStep
<1> QED
  BY <1>1, <1>2, <1>3, <1>4, <1>5, <1>6, <1>7, <1>8, <1>9 DEF ListNext

\* Whatever the doubly linked list (c206.c) is asked to do, its elements are one chain,
\* from First to Last and back, that holds all that is allocated; Act is on it.
THEOREM ListIsWhole == ListSpec => []ChainIsWhole
<1>1. ListInit => ListInv
  BY ListStart
<1>2. ListInv /\ [ListNext]_listVars => ListInv'
  BY ListStep
<1>3. ASSUME ListInv PROVE ChainIsWhole
  <2>1. Len(Chain) = 0 <=> Chain = <<>>
    BY <1>3, Facts DEF ListInv
  <2> QED
    BY <1>3, <2>1, ChainFacts DEF ChainIsWhole, ListInv
<1> QED
  BY <1>1, <1>2, <1>3, PTL DEF ListSpec

\* Every function of c206.c does to the sequence what its name promises.
THEOREM PointersImplementList == ListSpec => ImplementsList
<1>1. ListInit => ListInv /\ AbstractList!Init
  BY ListStart
<1>2. ListInv /\ [ListNext]_listVars => ListInv' /\ [AbstractList!Next]_AbstractList!vars
  BY ListStep
<1> QED
  BY <1>1, <1>2, PTL DEF ListSpec, ImplementsList, AbstractList!Spec

-----------------------------------------------------------------------------
\* The singly linked list (SList) on the same cells, next being rptr.
Single == INSTANCE SList WITH next <- rptr

LEMMA SameNow ==
  Single!Chain = Chain /\ Single!Items = Items /\ Single!ActAt = ActAt
<1>1. Single!Chain = Chain
  <2>1. Single!Cardinality(Cells) = Cardinality(Cells)
    BY DEF Single!Cardinality, Cardinality
  <2>2. Single!Paths = Paths
    BY <2>1 DEF Single!Paths, Paths
  <2> QED
    BY <2>2 DEF Single!Chain, Single!Leads, Chain, ChainFrom, Leads
<1> QED
  BY <1>1 DEF Single!Items, Single!ActAt, Items, ActAt, Place

LEMMA SameThen ==
  Single!Chain' = Chain' /\ Single!Items' = Items' /\ Single!ActAt' = ActAt'
<1>1. Single!Chain' = Chain'
  <2>1. Single!Cardinality(Cells) = Cardinality(Cells)
    BY DEF Single!Cardinality, Cardinality
  <2>2. Single!Paths = Paths
    BY <2>1 DEF Single!Paths, Paths
  <2> QED
    BY <2>2 DEF Single!Chain, Single!Leads, Chain, ChainFrom, Leads
<1> QED
  BY <1>1 DEF Single!Items, Single!ActAt, Items, ActAt, Place

LEMMA SingleStart ==
  ASSUME Single!SListInit
  PROVE  OneWay /\ Single!AbstractList!Init
<1>1. Through(<<>>, First, rptr, allocated)
  BY FS_EmptySet DEF Single!SListInit, Through, Leads
<1>2. Chain = <<>>
  BY <1>1, ChainIs DEF Chain
<1>3. OneWay
  BY <1>1, <1>2 DEF Single!SListInit, OneWay, Pointers
<1>4. Items = <<>> /\ ActAt = 0
  BY <1>2 DEF Items, ActAt, Place, Single!SListInit
<1> QED
  BY <1>3, <1>4, SameNow DEF Single!SListInit, Single!AbstractList!Init

\* Of every kind of step, what the abstract list sees.
LEMMA SingleMoves ==
  ASSUME OneWay, UNCHANGED <<First, rptr, data, allocated>>,
         Act' \in allocated \cup {NULL}, val' \in Data \cup {NoData}, errflg' \in BOOLEAN
  PROVE  OneWay' /\ Items' = Items /\ ActAt' = Place(Chain, Act')
<1>1. OneWay' /\ Chain' = Chain
  <2>1. data' \in [Cells -> Data \cup {NoData}]
    BY DEF OneWay
  <2> QED
    BY <2>1, OneStay
<1> QED
  BY <1>1 DEF Items, ActAt

LEMMA SingleError ==
  ASSUME OneWay, NEW name, Single!Error(name)
  PROVE  OneWay' /\ Single!AbstractList!Error /\ call' = name
<1>1. /\ Act' \in allocated \cup {NULL} /\ val' \in Data \cup {NoData} /\ Act' = Act
      /\ UNCHANGED <<First, rptr, data, allocated, val>> /\ errflg' = TRUE /\ call' = name
  BY DEF OneWay, Single!Error, Single!Content
<1>2. OneWay' /\ Items' = Items /\ ActAt' = Place(Chain, Act')
  BY <1>1, SingleMoves
<1> QED
  BY <1>1, <1>2, SameNow, SameThen DEF ActAt, Single!AbstractList!Error

LEMMA SingleIgnore ==
  ASSUME OneWay, NEW name, Single!Ignore(name)
  PROVE  OneWay' /\ Single!AbstractList!Nothing /\ call' = name
<1>1. /\ Act' \in allocated \cup {NULL} /\ val' \in Data \cup {NoData} /\ Act' = Act
      /\ UNCHANGED <<First, rptr, data, allocated, val>> /\ errflg' = FALSE /\ call' = name
  BY DEF OneWay, Single!Ignore, Single!Called, Single!Content
<1>2. OneWay' /\ Items' = Items /\ ActAt' = Place(Chain, Act')
  BY <1>1, SingleMoves
<1> QED
  BY <1>1, <1>2, SameNow, SameThen DEF ActAt, Single!AbstractList!Nothing

LEMMA SingleActivate ==
  ASSUME OneWay, NEW name, NEW x \in allocated \cup {NULL}, Single!MoveTo(name, x)
  PROVE  OneWay' /\ Single!AbstractList!Activate(Place(Chain, x)) /\ call' = name
<1>1. /\ Act' \in allocated \cup {NULL} /\ val' \in Data \cup {NoData} /\ Act' = x
      /\ UNCHANGED <<First, rptr, data, allocated, val>> /\ errflg' = FALSE /\ call' = name
  BY DEF OneWay, Single!MoveTo, Single!Called, Single!Content
<1>2. OneWay' /\ Items' = Items /\ ActAt' = Place(Chain, Act')
  BY <1>1, SingleMoves
<1> QED
  BY <1>1, <1>2, SameNow, SameThen
  DEF Single!AbstractList!Activate, Single!AbstractList!Becomes

LEMMA SingleCopies ==
  ASSUME OneWay, NEW name, NEW k \in 1..Len(Chain), Single!Copy(name, Chain[k])
  PROVE  OneWay' /\ Single!AbstractList!CopyOf(k) /\ call' = name
<1>1. Chain[k] \in Cells /\ Chain[k] # NULL /\ Items[k] = data[Chain[k]]
  BY OneFacts, ItemFacts
<1>2. /\ val' = Items[k] /\ errflg' = FALSE /\ call' = name
      /\ UNCHANGED <<First, Act, rptr, data, allocated>>
  BY <1>1 DEF Single!Copy, Single!Called, Single!Content
<1>3. Act' \in allocated \cup {NULL} /\ val' \in Data \cup {NoData} /\ Act' = Act
  BY <1>1, <1>2 DEF OneWay
<1>4. OneWay' /\ Items' = Items /\ ActAt' = Place(Chain, Act')
  BY <1>2, <1>3, SingleMoves
<1> QED
  BY <1>2, <1>3, <1>4, SameNow, SameThen DEF ActAt, Single!AbstractList!CopyOf

LEMMA SingleInsert ==
  ASSUME OneWay, NEW k \in 1..Len(Chain) + 1, NEW item \in Cells, NEW links, NEW d \in Data,
         Single!New(item, links, d),
         LinkedIn(Chain, First, rptr, allocated, k, item, First', links),
         First' \in Pointers, links \in [Cells -> Pointers],
         UNCHANGED <<Act, val>>, errflg' = FALSE
  PROVE  OneWay' /\ Single!AbstractList!Put(k)
<1>1. /\ item \notin allocated /\ allocated' = allocated \cup {item} /\ rptr' = links
      /\ data' = [data EXCEPT ![item] = d]
  BY DEF OneWay, Single!New
<1>2. /\ OneWay' /\ Items' = PutIn(Items, k, d)
      /\ ActAt' = IF ActAt >= k THEN ActAt + 1 ELSE ActAt
  BY <1>1, OneInsert
<1> QED
  BY <1>2, SameNow, SameThen
  DEF Single!AbstractList!Put, Single!AbstractList!Becomes, Single!AbstractList!ActIn,
      Single!AbstractList!InsertAt, PutIn

LEMMA SingleRemove ==
  ASSUME OneWay, NEW k \in 1..Len(Chain), NEW links \in [Cells -> Pointers],
         Single!Free({Chain[k]}, links),
         LinkedOut(Chain, First, rptr, allocated, k, First', links), First' \in Pointers,
         Act' = (IF Act = Chain[k] THEN NULL ELSE Act), UNCHANGED val, errflg' = FALSE
  PROVE  OneWay' /\ Single!AbstractList!Take(k)
<1>1. /\ allocated' = allocated \ {Chain[k]}
      /\ rptr' \in [Cells -> Pointers] /\ data' \in [Cells -> Data \cup {NoData}]
      /\ \A y \in allocated \ {Chain[k]} : rptr'[y] = links[y] /\ data'[y] = data[y]
  BY DEF OneWay, Single!Free, Pointers
<1>2. /\ LinkedOut(Chain, First, rptr, allocated, k, First', rptr')
      /\ Same(allocated \ {Chain[k]}, data, data')
  BY <1>1 DEF LinkedOut, Same
<1>3. /\ OneWay' /\ Items' = TakeOut(Items, k)
      /\ ActAt' = CASE ActAt > k -> ActAt - 1 [] ActAt = k -> 0 [] OTHER -> ActAt
  BY <1>1, <1>2, OneRemove
<1> QED
  BY <1>3, SameNow, SameThen
  DEF Single!AbstractList!Take, Single!AbstractList!Becomes, Single!AbstractList!ActOut,
      Single!AbstractList!RemoveAt, TakeOut

LEMMA SingleAct ==
  ASSUME OneWay
  PROVE  /\ ActAt \in 0..Len(Chain) /\ (ActAt > 0 <=> Act # NULL) /\ Len(Chain) \in Nat
         /\ Act # NULL => ActAt \in 1..Len(Chain) /\ Chain[ActAt] = Act /\ Act \in Cells
         /\ (Len(Chain) # 0 => 1 \in 1..Len(Chain)) /\ (First = NULL <=> Len(Chain) = 0)
         /\ Single!AbstractList!N = Len(Chain)
<1>1. /\ ActAt \in 0..Len(Chain) /\ (ActAt = 0 <=> Act = NULL) /\ Len(Chain) \in Nat
      /\ (Act # NULL => Chain[ActAt] = Act)
  BY ActFacts, OneFacts
<1>2. /\ (ActAt > 0 <=> Act # NULL) /\ (Act # NULL => ActAt \in 1..Len(Chain))
      /\ (Len(Chain) # 0 => 1 \in 1..Len(Chain))
  BY <1>1
<1>3. First = NULL <=> Len(Chain) = 0
  BY <1>2, OneFacts
<1>4. Single!AbstractList!N = Len(Chain)
  <2>1. Single!AbstractList!N = Len(Items)
    BY SameNow DEF Single!AbstractList!N
  <2> QED
    BY <2>1, ItemFacts
<1> QED
  BY <1>1, <1>2, <1>3, <1>4 DEF OneWay

LEMMA SingleOnChain ==
  ASSUME OneWay
  PROVE  Single!OnChain = allocated
<1>1. Single!OnChain = {Chain[k] : k \in DOMAIN Chain}
  BY SameNow, Zenon DEF Single!OnChain
<1>2. {Chain[k] : k \in DOMAIN Chain} = allocated
  BY OneFacts
<1> QED
  BY <1>1, <1>2

LEMMA PlaceOnChain ==
  ASSUME OneWay, NEW k \in 1..Len(Chain)
  PROVE  Place(Chain, Chain[k]) = k /\ Chain[k] \in allocated \cup {NULL} /\ Chain[k] # NULL
  BY PlaceIs, OneFacts DEF OneWay

LEMMA SingleDisposes ==
  ASSUME OneWay, Single!DisposeList
  PROVE  OneWay' /\ Single!AbstractList!Next
<1>1. /\ allocated' = {} /\ First' = NULL /\ Act' = NULL /\ rptr' \in [Cells -> Pointers]
      /\ data' \in [Cells -> Data \cup {NoData}]
      /\ val' = val /\ errflg' = FALSE /\ call' = "DisposeList"
  <2>1. Single!OnChain = allocated
    BY SingleOnChain
  <2> QED
    BY <2>1 DEF OneWay, Pointers, Single!DisposeList, Single!Free, Single!Called
<1>2. Through(<<>>, First', rptr', allocated')
  BY <1>1, FS_EmptySet DEF Through, Leads
<1>3. Chain' = <<>>
  BY <1>2, ChainIs DEF Chain
<1>4. OneWay'
  BY <1>1, <1>2, <1>3 DEF OneWay, Pointers
<1>5. Items' = <<>> /\ ActAt' = 0
  BY <1>1, <1>3 DEF Items, ActAt, Place
<1> QED
  BY <1>1, <1>4, <1>5, SameThen
  DEF Single!AbstractList!Next, Single!AbstractList!Op, Single!AbstractList!Becomes

LEMMA SingleInsertsFirst ==
  ASSUME OneWay, NEW d \in Data, Single!InsertFirst(d)
  PROVE  OneWay' /\ Single!AbstractList!Next
<1>1. CASE Single!Error("InsertFirst")
  BY <1>1, SingleError
  DEF Single!AbstractList!Next, Single!AbstractList!Op, Single!AbstractList!Put
<1>2. CASE ~Single!Error("InsertFirst")
  <2>1. PICK item \in Cells :
          /\ Single!New(item, [rptr EXCEPT ![item] = First], d) /\ First' = item
          /\ Single!Called("InsertFirst") /\ UNCHANGED <<Act, val>>
    BY <1>2 DEF Single!InsertFirst
  <2> DEFINE links == [rptr EXCEPT ![item] = First]
  <2>2. /\ item \notin allocated /\ item \in Pointers
    BY <2>1 DEF Single!New, OneWay, Pointers
  <2>3. /\ 1 \in 1..Len(Chain) + 1 /\ (1 = Len(Chain) + 1 <=> Len(Chain) = 0) /\ ~(1 > 1)
    BY SingleAct
  <2>4. links \in [Cells -> Pointers]
    BY DEF OneWay
  <2>5. LinkedIn(Chain, First, rptr, allocated, 1, item, First', links)
    BY <2>1, <2>2, <2>3, OneFacts DEF LinkedIn, OneWay
  <2> HIDE DEF links
  <2>6. OneWay' /\ Single!AbstractList!Put(1)
    <3>1. Single!New(item, links, d) /\ errflg' = FALSE
      BY <2>1 DEF links, Single!Called
    <3> QED
      BY <2>1, <2>2, <2>3, <2>4, <2>5, <3>1, SingleInsert
  <2> QED
    BY <2>1, <2>6 DEF Single!Called, Single!AbstractList!Next, Single!AbstractList!Op
<1> QED
  BY <1>1, <1>2

LEMMA SingleInsertsPost ==
  ASSUME OneWay, NEW d \in Data, Single!PostInsert(d)
  PROVE  OneWay' /\ Single!AbstractList!Next
<1>1. CASE Act = NULL /\ Single!Ignore("PostInsert")
  BY <1>1, SingleAct, SameNow, SingleIgnore
  DEF Single!AbstractList!Next, Single!AbstractList!Op
<1>2. CASE Act # NULL /\ Single!Error("PostInsert")
  BY <1>2, SingleAct, SameNow, SingleError
  DEF Single!AbstractList!Next, Single!AbstractList!Op, Single!AbstractList!Put
<1>3. CASE /\ Act # NULL /\ Single!Called("PostInsert") /\ UNCHANGED <<First, Act, val>>
           /\ \E item \in Cells :
                Single!New(item, [rptr EXCEPT ![item] = rptr[Act], ![Act] = item], d)
  <2>1. PICK item \in Cells :
          Single!New(item, [rptr EXCEPT ![item] = rptr[Act], ![Act] = item], d)
    BY <1>3
  <2> DEFINE links == [rptr EXCEPT ![item] = rptr[Act], ![Act] = item]
             k == ActAt + 1
  <2>2. /\ item \notin allocated /\ item \in Pointers /\ Act \in allocated /\ Act # item
        /\ Act \in Cells
    BY <1>3, <2>1 DEF Single!New, OneWay, Pointers
  <2>3. /\ k \in 1..Len(Chain) + 1 /\ k # 1 /\ k > 1 /\ k - 1 = ActAt
        /\ (k = Len(Chain) + 1 <=> ActAt = Len(Chain)) /\ ActAt \in 1..Len(Chain)
        /\ Chain[ActAt] = Act
    BY <1>3, SingleAct
  <2>4. rptr[Act] = IF ActAt = Len(Chain) THEN NULL ELSE Chain[k]
    BY <2>3, OneFacts
  <2> HIDE DEF k
  <2>5. links \in [Cells -> Pointers]
    BY <2>2 DEF OneWay
  <2>6. LinkedIn(Chain, First, rptr, allocated, k, item, First', links)
    BY <1>3, <2>2, <2>3, <2>4 DEF LinkedIn, OneWay
  <2> HIDE DEF links
  <2>7. OneWay' /\ Single!AbstractList!Put(k)
    <3>1. Single!New(item, links, d) /\ errflg' = FALSE /\ First' \in Pointers
      BY <1>3, <2>1 DEF links, Single!Called, OneWay
    <3> QED
      BY <1>3, <2>2, <2>3, <2>5, <2>6, <3>1, SingleInsert
  <2> QED
    BY <1>3, <2>7, SingleAct, SameNow
    DEF k, Single!Called, Single!AbstractList!Next, Single!AbstractList!Op
<1> QED
  BY <1>1, <1>2, <1>3 DEF Single!PostInsert

LEMMA SingleDeletesFirst ==
  ASSUME OneWay, Single!DeleteFirst
  PROVE  OneWay' /\ Single!AbstractList!Next
<1>a. Len(Chain) # 0 <=> Single!AbstractList!N > 0
  BY SingleAct
<1>1. CASE First = NULL /\ Single!Ignore("DeleteFirst")
  BY <1>1, <1>a, SingleAct, SingleIgnore DEF Single!AbstractList!Next, Single!AbstractList!Op
<1>2. CASE /\ First # NULL /\ Single!Called("DeleteFirst")
           /\ Act' = (IF Act = First THEN NULL ELSE Act)
           /\ First' = rptr[First] /\ Single!Free({First}, rptr) /\ UNCHANGED val
  <2>1. 1 \in 1..Len(Chain) /\ First = Chain[1] /\ ~(1 > 1) /\ First \in Cells
    BY <1>2, SingleAct, OneFacts
  <2>2. LinkedOut(Chain, First, rptr, allocated, 1, First', rptr)
    BY <1>2, <2>1 DEF LinkedOut
  <2>3. /\ First' \in Pointers /\ rptr \in [Cells -> Pointers] /\ errflg' = FALSE
        /\ Single!Free({Chain[1]}, rptr) /\ Act' = (IF Act = Chain[1] THEN NULL ELSE Act)
    BY <1>2, <2>1 DEF OneWay, Single!Called
  <2>4. OneWay' /\ Single!AbstractList!Take(1)
    BY <1>2, <2>1, <2>2, <2>3, SingleRemove
  <2> QED
    BY <1>2, <1>a, <2>4, SingleAct
    DEF Single!Called, Single!AbstractList!Next, Single!AbstractList!Op
<1> QED
  BY <1>1, <1>2 DEF Single!DeleteFirst

LEMMA SingleDeletesPost ==
  ASSUME OneWay, Single!PostDelete
  PROVE  OneWay' /\ Single!AbstractList!Next
<1>1. Act # NULL => rptr[Act] = IF ActAt = Len(Chain) THEN NULL ELSE Chain[ActAt + 1]
  BY SingleAct, OneFacts
<1>2. ASSUME Act # NULL, ActAt # Len(Chain)
      PROVE  /\ ActAt + 1 \in 1..Len(Chain) /\ ActAt \in 1..Len(Chain) /\ ActAt + 1 # ActAt
             /\ (ActAt + 1) - 1 = ActAt /\ ActAt + 1 # 1 /\ ActAt + 1 > 1
             /\ (ActAt + 1 # Len(Chain) => (ActAt + 1) + 1 \in 1..Len(Chain))
  BY <1>2, SingleAct
<1>3. (Act = NULL \/ rptr[Act] = NULL) <=> Single!ActAt \in {0, Single!AbstractList!N}
  <2>1. CASE Act = NULL
    <3>1. ActAt = 0
      BY <2>1, ActFacts
    <3> QED
      BY <2>1, <3>1, SameNow
  <2>2. CASE Act # NULL
    <3>1. rptr[Act] = NULL <=> ActAt = Len(Chain)
      BY <1>1, <1>2, <2>2, OneFacts
    <3>2. ActAt # 0
      BY <2>2, ActFacts
    <3> QED
      BY <2>2, <3>1, <3>2, SameNow, SingleAct
  <2> QED
    BY <2>1, <2>2
<1>4. CASE (Act = NULL \/ rptr[Act] = NULL) /\ Single!Ignore("PostDelete")
  BY <1>3, <1>4, SingleIgnore DEF Single!AbstractList!Next, Single!AbstractList!Op
<1>5. CASE /\ Act # NULL /\ rptr[Act] # NULL /\ Single!Called("PostDelete")
           /\ Single!Free({rptr[Act]}, [rptr EXCEPT ![Act] = rptr[rptr[Act]]])
           /\ UNCHANGED <<First, Act, val>>
  <2> DEFINE k == ActAt + 1
             links == [rptr EXCEPT ![Act] = rptr[rptr[Act]]]
  <2>1. ActAt # Len(Chain) /\ rptr[Act] = Chain[k]
    BY <1>1, <1>5
  <2>2. /\ k \in 1..Len(Chain) /\ ActAt \in 1..Len(Chain) /\ k # ActAt /\ k - 1 = ActAt
        /\ k # 1 /\ k > 1
    BY <1>2, <1>5, <2>1
  <2> HIDE DEF k
  <2>3. /\ Chain[ActAt] = Act /\ Chain[k] # Act /\ Chain[k] \in Cells /\ Act \in Cells
    BY <1>5, <2>2, SingleAct, OneFacts
  <2>4. links \in [Cells -> Pointers]
    BY <2>1, <2>3 DEF OneWay
  <2>5. LinkedOut(Chain, First, rptr, allocated, k, First', links)
    BY <1>5, <2>1, <2>2, <2>3 DEF LinkedOut, OneWay
  <2>6. /\ First' \in Pointers /\ errflg' = FALSE /\ Single!Free({Chain[k]}, links)
        /\ Act' = (IF Act = Chain[k] THEN NULL ELSE Act)
    BY <1>5, <2>1, <2>3 DEF OneWay, Single!Called
  <2> HIDE DEF links
  <2>7. OneWay' /\ Single!AbstractList!Take(k)
    BY <1>5, <2>2, <2>4, <2>5, <2>6, SingleRemove
  <2> QED
    BY <1>3, <1>5, <2>7, SameNow
    DEF k, Single!Called, Single!AbstractList!Next, Single!AbstractList!Op
<1> QED
  BY <1>4, <1>5 DEF Single!PostDelete

LEMMA SingleReads ==
  ASSUME OneWay,
         Single!Copy("CopyFirst", First) \/ Single!Copy("Copy", Act)
           \/ Single!MoveTo("First", First)
  PROVE  OneWay' /\ Single!AbstractList!Next
<1>a. Len(Chain) # 0 <=> Single!AbstractList!N > 0
  BY SingleAct
<1>b. First = IF Len(Chain) = 0 THEN NULL ELSE Chain[1]
  BY OneFacts
<1>1. CASE Single!Copy("CopyFirst", First)
  <2>1. CASE First = NULL
    <3>1. Single!Error("CopyFirst")
      BY <1>1, <2>1 DEF Single!Copy
    <3> QED
      BY <1>a, <2>1, <3>1, SingleAct, SingleError
      DEF Single!AbstractList!Next, Single!AbstractList!Op
  <2>2. CASE First # NULL
    <3>1. 1 \in 1..Len(Chain) /\ Single!Copy("CopyFirst", Chain[1])
      BY <1>1, <1>b, <2>2, SingleAct
    <3>2. OneWay' /\ Single!AbstractList!CopyOf(1) /\ call' = "CopyFirst"
      BY <3>1, SingleCopies
    <3> QED
      BY <1>a, <2>2, <3>2, SingleAct DEF Single!AbstractList!Next, Single!AbstractList!Op
  <2> QED
    BY <2>1, <2>2
<1>2. CASE Single!Copy("Copy", Act)
  <2>1. CASE Act = NULL
    <3>1. Single!Error("Copy")
      BY <1>2, <2>1 DEF Single!Copy
    <3> QED
      BY <2>1, <3>1, SingleAct, SameNow, SingleError
      DEF Single!AbstractList!Next, Single!AbstractList!Op
  <2>2. CASE Act # NULL
    <3>1. ActAt \in 1..Len(Chain) /\ Single!Copy("Copy", Chain[ActAt])
      BY <1>2, <2>2, SingleAct
    <3>2. OneWay' /\ Single!AbstractList!CopyOf(ActAt) /\ call' = "Copy"
      BY <3>1, SingleCopies
    <3> QED
      BY <2>2, <3>2, SingleAct, SameNow DEF Single!AbstractList!Next, Single!AbstractList!Op
  <2> QED
    BY <2>1, <2>2
<1>3. CASE Single!MoveTo("First", First)
  <2>1. /\ First \in allocated \cup {NULL}
        /\ Place(Chain, First) = IF Len(Chain) = 0 THEN 0 ELSE 1
    <3>1. CASE Len(Chain) = 0
      BY <1>b, <3>1 DEF Place
    <3>2. CASE Len(Chain) # 0
      BY <1>b, <3>2, SingleAct, PlaceOnChain
    <3> QED
      BY <3>1, <3>2
  <2>2. OneWay' /\ Single!AbstractList!Activate(Place(Chain, First)) /\ call' = "First"
    BY <1>3, <2>1, SingleActivate
  <2> QED
    BY <2>1, <2>2, SingleAct DEF Single!AbstractList!Next, Single!AbstractList!Op
<1> QED
  BY <1>1, <1>2, <1>3

LEMMA SingleSucceeds ==
  ASSUME OneWay, Single!Succ
  PROVE  OneWay' /\ Single!AbstractList!Next
<1>1. CASE Act = NULL
  <2>1. Single!Ignore("Succ")
    BY <1>1 DEF Single!Succ
  <2> QED
    BY <1>1, <2>1, SingleAct, SameNow, SingleIgnore
    DEF Single!AbstractList!Next, Single!AbstractList!Op
<1>2. CASE Act # NULL
  <2>1. /\ Single!MoveTo("Succ", rptr[Act]) /\ ActAt \in 1..Len(Chain)
        /\ (ActAt # Len(Chain) => ActAt + 1 \in 1..Len(Chain))
    BY <1>2, SingleAct DEF Single!Succ
  <2>2. rptr[Act] = IF ActAt = Len(Chain) THEN NULL ELSE Chain[ActAt + 1]
    BY <1>2, SingleAct, OneFacts
  <2>3. /\ rptr[Act] \in allocated \cup {NULL}
        /\ Place(Chain, rptr[Act]) = IF ActAt = Len(Chain) THEN 0 ELSE ActAt + 1
    <3>1. CASE ActAt = Len(Chain)
      BY <2>2, <3>1 DEF Place
    <3>2. CASE ActAt # Len(Chain)
      BY <2>1, <2>2, <3>2, PlaceOnChain
    <3> QED
      BY <3>1, <3>2
  <2>4. OneWay' /\ Single!AbstractList!Activate(Place(Chain, rptr[Act])) /\ call' = "Succ"
    BY <2>1, <2>3, SingleActivate
  <2> QED
    BY <1>2, <2>3, <2>4, SingleAct, SameNow
    DEF Single!AbstractList!Next, Single!AbstractList!Op
<1> QED
  BY <1>1, <1>2

LEMMA SingleActualizes ==
  ASSUME OneWay, NEW d \in Data, Single!Actualize(d)
  PROVE  OneWay' /\ Single!AbstractList!Next
<1>1. CASE Act = NULL /\ Single!Ignore("Actualize")
  BY <1>1, SingleAct, SameNow, SingleIgnore
  DEF Single!AbstractList!Next, Single!AbstractList!Op
<1>2. CASE /\ Act # NULL /\ Single!Called("Actualize") /\ data' = [data EXCEPT ![Act] = d]
           /\ UNCHANGED <<First, Act, rptr, allocated, val>>
  <2>1. Act \in Cells /\ ActAt \in 1..Len(Chain) /\ Chain[ActAt] = Act
    BY <1>2, SingleAct
  <2>2. OneWay' /\ Chain' = Chain /\ errflg' = FALSE /\ call' = "Actualize"
    <3>1. /\ data' \in [Cells -> Data \cup {NoData}] /\ Act' \in allocated \cup {NULL}
          /\ val' \in Data \cup {NoData} /\ errflg' \in BOOLEAN
      BY <1>2, <2>1 DEF OneWay, Single!Called
    <3> QED
      BY <1>2, <3>1, OneStay DEF Single!Called
  <2>3. ActAt' = ActAt
    BY <1>2, <2>2 DEF ActAt
  <2>4. Items' = [Items EXCEPT ![ActAt] = d]
    <3>1. /\ DOMAIN Chain = 1..Len(Chain)
          /\ \A k \in 1..Len(Chain) : Chain[k] \in Cells
          /\ \A k \in 1..Len(Chain) : Chain[k] = Chain[ActAt] => k = ActAt
      BY <2>1, OneFacts
    <3>2. Items = [k \in 1..Len(Chain) |-> data[Chain[k]]]
      BY <3>1 DEF Items
    <3>3. Items' = [k \in 1..Len(Chain) |-> data'[Chain[k]]]
      BY <2>2, <3>1 DEF Items
    <3>4. ASSUME NEW k \in 1..Len(Chain)
          PROVE  data'[Chain[k]] = IF k = ActAt THEN d ELSE data[Chain[k]]
      BY <1>2, <2>1, <3>1 DEF OneWay
    <3> QED
      BY <2>1, <3>2, <3>3, <3>4
  <2> QED
    BY <1>2, <2>2, <2>3, <2>4, SingleAct, SameNow, SameThen
    DEF Single!AbstractList!Next, Single!AbstractList!Op, Single!AbstractList!Becomes
<1> QED
  BY <1>1, <1>2 DEF Single!Actualize

LEMMA SingleStep ==
  ASSUME OneWay, [Single!SListNext]_Single!slistVars
  PROVE  OneWay' /\ [Single!AbstractList!Next]_Single!AbstractList!vars
<1>1. CASE UNCHANGED Single!slistVars
  <2>1. /\ UNCHANGED <<First, rptr, data, allocated, Act, val, errflg, call>>
        /\ Act' \in allocated \cup {NULL} /\ val' \in Data \cup {NoData} /\ errflg' \in BOOLEAN
    BY <1>1 DEF Single!slistVars, Single!Content, OneWay
  <2>2. OneWay' /\ Items' = Items /\ ActAt' = Place(Chain, Act')
    BY <2>1, SingleMoves
  <2> QED
    BY <2>1, <2>2, SameNow, SameThen DEF Single!AbstractList!vars, ActAt
<1>2. CASE Single!DisposeList
  BY <1>2, SingleDisposes
<1>3. CASE Single!DeleteFirst
  BY <1>3, SingleDeletesFirst
<1>4. CASE Single!PostDelete
  BY <1>4, SingleDeletesPost
<1>5. CASE Single!Succ
  BY <1>5, SingleSucceeds
<1>6. CASE Single!Copy("CopyFirst", First) \/ Single!Copy("Copy", Act)
             \/ Single!MoveTo("First", First)
  BY <1>6, SingleReads
<1>7. ASSUME NEW d \in Data,
             Single!InsertFirst(d) \/ Single!PostInsert(d) \/ Single!Actualize(d)
      PROVE  OneWay' /\ Single!AbstractList!Next
  BY <1>7, SingleInsertsFirst, SingleInsertsPost, SingleActualizes
<1> QED
  BY <1>1, <1>2, <1>3, <1>4, <1>5, <1>6, <1>7 DEF Single!SListNext

\* The singly linked list (c201.c) is one chain without a cycle, and no element of it that
\* was allocated has dropped out.
THEOREM SingleIsWhole == Single!SListSpec => []Single!ChainIsWhole
<1>1. Single!SListInit => OneWay
  BY SingleStart
<1>2. OneWay /\ [Single!SListNext]_Single!slistVars => OneWay'
  BY SingleStep
<1>3. OneWay => Single!ChainIsWhole
  <2> SUFFICES ASSUME OneWay PROVE Single!ChainIsWhole
    OBVIOUS
  <2>1. Single!Cardinality(allocated) = Cardinality(allocated)
    BY DEF Single!Cardinality, Cardinality
  <2>2. Act \in allocated \cup {NULL} /\ Len(Chain) = Cardinality(allocated)
    BY OneFacts DEF OneWay
  <2> QED
    BY <2>1, <2>2, SameNow, SingleOnChain DEF Single!ChainIsWhole
<1> QED
  BY <1>1, <1>2, <1>3, PTL DEF Single!SListSpec

\* Every function of c201.c does to the sequence what its name promises.
THEOREM SingleImplementsList == Single!SListSpec => Single!ImplementsList
<1>1. Single!SListInit => OneWay /\ Single!AbstractList!Init
  BY SingleStart
<1>2. OneWay /\ [Single!SListNext]_Single!slistVars
        => OneWay' /\ [Single!AbstractList!Next]_Single!AbstractList!vars
  BY SingleStep
<1> QED
  BY <1>1, <1>2, PTL DEF Single!SListSpec, Single!ImplementsList, Single!AbstractList!Spec

-----------------------------------------------------------------------------
\* The hash table (HashTable) on the same cells, ptrnext being rptr.
CONSTANTS Keys, HTSIZE
VARIABLES table, key, found
Hash == INSTANCE HashTable WITH ptrnext <- rptr

\* The items of one index.
Bucket(i) == {x \in allocated : Hash!HashCode(key[x]) = i}

HashTypes == /\ table \in [Hash!Indices -> Cells \cup {NULL}]
             /\ key \in [Cells -> Keys \cup {Hash!NoKey}]
             /\ data \in [Cells -> Data \cup {NoData}]
             /\ rptr \in [Cells -> Cells \cup {NULL}]
             /\ allocated \subseteq Cells

HashInv == /\ Hash!HashInRange /\ HashTypes
           /\ \A x \in allocated : key[x] \in Keys
           /\ \A x, y \in allocated : key[x] = key[y] => x = y
           /\ \A i \in Hash!Indices : Through(Hash!Chain(i), table[i], rptr, Bucket(i))

LEMMA HashPaths == Hash!Paths = Paths
<1>1. Hash!Cardinality(Cells) = Cardinality(Cells)
  BY DEF Hash!Cardinality, Cardinality
<1> QED
  BY <1>1 DEF Hash!Paths, Paths

LEMMA HashChain ==
  ASSUME NEW i, NEW s, NEW mem, Through(s, table[i], rptr, mem)
  PROVE  Hash!Chain(i) = s
<1>1. Hash!Chain(i) = ChainFrom(table[i], rptr)
  BY HashPaths DEF Hash!Chain, Hash!Leads, ChainFrom, Leads
<1> QED
  BY <1>1, ChainIs

LEMMA HashChainNext ==
  ASSUME NEW i, NEW s, NEW mem, Through(s, table'[i], rptr', mem)
  PROVE  Hash!Chain(i)' = s
<1>1. Hash!Chain(i)' = ChainFrom(table'[i], rptr')
  BY HashPaths DEF Hash!Chain, Hash!Leads, ChainFrom, Leads
<1> QED
  BY <1>1, ChainIs

\* What remains to be shown of a step.
LEMMA HashKept ==
  ASSUME Hash!HashInRange, HashTypes',
         \A x \in allocated' : key'[x] \in Keys,
         \A x, y \in allocated' : key'[x] = key'[y] => x = y,
         \A i \in Hash!Indices :
           \E s : Through(s, table'[i], rptr', {x \in allocated' : Hash!HashCode(key'[x]) = i})
  PROVE  HashInv'
<1>1. ASSUME NEW i \in Hash!Indices
      PROVE  Through(Hash!Chain(i)', table'[i], rptr', Bucket(i)')
  <2>1. PICK s : Through(s, table'[i], rptr', {x \in allocated' : Hash!HashCode(key'[x]) = i})
    OBVIOUS
  <2>2. Hash!Chain(i)' = s
    BY <2>1, HashChainNext
  <2>3. Bucket(i)' = {x \in allocated' : Hash!HashCode(key'[x]) = i}
    BY DEF Bucket
  <2> QED
    BY <2>1, <2>2, <2>3
<1> QED
  BY <1>1 DEF HashInv

LEMMA HashFacts ==
  ASSUME HashInv, NEW i \in Hash!Indices
  PROVE  /\ Hash!Chain(i) \in Seq(Cells) /\ Len(Hash!Chain(i)) \in Nat
         /\ DOMAIN Hash!Chain(i) = 1..Len(Hash!Chain(i))
         /\ \A p \in 1..Len(Hash!Chain(i)) :
              Hash!Chain(i)[p] \in allocated /\ Hash!HashCode(key[Hash!Chain(i)[p]]) = i
         /\ \A x \in allocated : Hash!HashCode(key[x]) = i =>
              \E p \in 1..Len(Hash!Chain(i)) : x = Hash!Chain(i)[p]
         /\ \A p, q \in 1..Len(Hash!Chain(i)) : Hash!Chain(i)[p] = Hash!Chain(i)[q] => p = q
         /\ table[i] = IF Len(Hash!Chain(i)) = 0 THEN NULL ELSE Hash!Chain(i)[1]
         /\ \A p \in 1..Len(Hash!Chain(i)) :
              rptr[Hash!Chain(i)[p]] =
                IF p = Len(Hash!Chain(i)) THEN NULL ELSE Hash!Chain(i)[p + 1]
<1> DEFINE s == Hash!Chain(i)
<1>1. Through(s, table[i], rptr, Bucket(i))
  BY DEF HashInv
<1> HIDE DEF s
<1>2. /\ s \in Seq(Cells) /\ Len(s) \in Nat /\ DOMAIN s = 1..Len(s)
      /\ \A p \in 1..Len(s) : s[p] \in Bucket(i)
      /\ \A x \in Bucket(i) : \E p \in 1..Len(s) : x = s[p]
      /\ \A p, q \in 1..Len(s) : s[p] = s[q] => p = q
      /\ table[i] = IF Len(s) = 0 THEN NULL ELSE s[1]
      /\ \A p \in 1..Len(s) : rptr[s[p]] = IF p = Len(s) THEN NULL ELSE s[p + 1]
  BY <1>1, Facts
<1>3. /\ \A p \in 1..Len(s) : s[p] \in allocated /\ Hash!HashCode(key[s[p]]) = i
      /\ \A x \in allocated : Hash!HashCode(key[x]) = i => \E p \in 1..Len(s) : x = s[p]
  BY <1>2 DEF Bucket
<1> QED
  BY <1>2, <1>3 DEF s

\* htSearch finds the item with the key, if there is one.
LEMMA Finds ==
  ASSUME HashInv, NEW k \in Keys
  PROVE  /\ Hash!HashCode(k) \in Hash!Indices
         /\ Hash!Hits(k) = {} <=> \A x \in allocated : key[x] # k
         /\ Hash!Hits(k) # {} =>
              /\ Hash!First(k) \in 1..Len(Hash!Chain(Hash!HashCode(k)))
              /\ Hash!Hits(k) = {Hash!First(k)}
              /\ key[Hash!Chain(Hash!HashCode(k))[Hash!First(k)]] = k
<1> DEFINE i == Hash!HashCode(k)
           s == Hash!Chain(i)
<1>1. i \in Hash!Indices
  BY DEF HashInv, Hash!HashInRange
<1>2. /\ Len(s) \in Nat /\ DOMAIN s = 1..Len(s)
      /\ \A p \in 1..Len(s) : s[p] \in allocated
      /\ \A x \in allocated : Hash!HashCode(key[x]) = i => \E p \in 1..Len(s) : x = s[p]
      /\ \A p, q \in 1..Len(s) : s[p] = s[q] => p = q
  BY <1>1, HashFacts
<1>3. Hash!Hits(k) = {p \in 1..Len(s) : key[s[p]] = k}
  BY <1>2 DEF Hash!Hits
<1>4. Hash!Hits(k) = {} <=> \A x \in allocated : key[x] # k
  <2>1. ASSUME NEW x \in allocated, key[x] = k PROVE \E p \in 1..Len(s) : key[s[p]] = k
    <3>1. PICK p \in 1..Len(s) : x = s[p]
      BY <1>2, <2>1
    <3> QED
      BY <2>1, <3>1
  <2>2. ASSUME NEW p \in 1..Len(s), key[s[p]] = k PROVE \E x \in allocated : key[x] = k
    BY <1>2, <2>2
  <2> HIDE DEF s
  <2> QED
    BY <1>3, <2>1, <2>2
<1>5. ASSUME Hash!Hits(k) # {}
      PROVE  /\ Hash!First(k) \in 1..Len(s) /\ Hash!Hits(k) = {Hash!First(k)}
             /\ key[s[Hash!First(k)]] = k
  <2> HIDE DEF s, i
  <2>1. PICK h \in 1..Len(s) : key[s[h]] = k
    BY <1>3, <1>5
  <2>2. ASSUME NEW q \in 1..Len(s), key[s[q]] = k PROVE q = h
    <3>1. s[q] \in allocated /\ s[h] \in allocated /\ key[s[q]] = key[s[h]]
      BY <1>2, <2>1, <2>2
    <3>2. s[q] = s[h]
      BY <3>1 DEF HashInv
    <3> QED
      BY <1>2, <3>2
  <2>3. Hash!Hits(k) = {h}
    BY <1>3, <2>1, <2>2
  <2>4. Hash!First(k) = h
    <3>1. h <= h
      BY <1>2
    <3> QED
      BY <2>3, <3>1 DEF Hash!First
  <2> QED
    BY <2>1, <2>3, <2>4
<1> QED
  BY <1>1, <1>4, <1>5

LEMMA Searches ==
  ASSUME HashInv, NEW k \in Keys
  PROVE  \/ /\ Hash!Search(k) = NULL /\ Hash!Hits(k) = {}
            /\ \A x \in allocated : key[x] # k
         \/ /\ Hash!Search(k) \in allocated /\ Hash!Search(k) # NULL
            /\ key[Hash!Search(k)] = k
            /\ Hash!Search(k) = Hash!Chain(Hash!HashCode(k))[Hash!First(k)]
<1>1. CASE Hash!Hits(k) = {}
  BY <1>1, Finds DEF Hash!Search
<1>2. CASE Hash!Hits(k) # {}
  <2>1. Hash!Search(k) = Hash!Chain(Hash!HashCode(k))[Hash!First(k)]
    BY <1>2 DEF Hash!Search
  <2>2. Hash!Search(k) \in allocated /\ key[Hash!Search(k)] = k
    BY <1>2, <2>1, Finds, HashFacts
  <2>3. Hash!Search(k) # NULL
    BY <2>2, ListAssumption DEF HashInv, HashTypes
  <2> QED
    BY <2>1, <2>2, <2>3
<1> QED
  BY <1>1, <1>2

\* What the table stands for.
Pairs == {<<key[x], data[x]>> : x \in allocated}

LEMMA EntriesAre == HashInv => Hash!Entries = Pairs
<1> SUFFICES ASSUME HashInv PROVE Hash!Entries = Pairs
  OBVIOUS
<1>1. ASSUME NEW x \in allocated PROVE Hash!Search(key[x]) = x /\ x # NULL
  <2>1. key[x] \in Keys /\ x # NULL
    BY ListAssumption DEF HashInv, HashTypes
  <2>2. Hash!Search(key[x]) \in allocated /\ key[Hash!Search(key[x])] = key[x]
    BY <2>1, Searches
  <2> QED
    BY <2>1, <2>2 DEF HashInv
<1>2. Hash!Found = allocated
  BY <1>1 DEF Hash!Found
<1> QED
  BY <1>2 DEF Hash!Entries, Pairs

LEMMA EntriesAreNext == (HashInv => Hash!Entries = Pairs)'
  BY EntriesAre, PTL

LEMMA ThroughSame ==
  ASSUME NEW s, NEW x, NEW field, NEW mem, Through(s, x, field, mem),
         NEW field2, Same(mem, field, field2)
  PROVE  Through(s, x, field2, mem)
<1>1. /\ s \in Seq(Cells) /\ \A k \in 1..Len(s) : s[k] \in mem
      /\ \A j, k \in 1..Len(s) : s[j] = s[k] => j = k
      /\ x = IF Len(s) = 0 THEN NULL ELSE s[1]
      /\ \A k \in 1..Len(s) : field[s[k]] = IF k = Len(s) THEN NULL ELSE s[k + 1]
  BY Facts
<1>2. mem = {s[k] : k \in 1..Len(s)} /\ Cardinality(mem) = Len(s)
  BY DEF Through
<1>3. \A k \in 1..Len(s) : field2[s[k]] = IF k = Len(s) THEN NULL ELSE s[k + 1]
  BY <1>1 DEF Same
<1> QED
  BY <1>1, <1>2, <1>3, ThroughIf

LEMMA ThroughNothing ==
  ASSUME NEW field PROVE Through(<<>>, NULL, field, {})
<1>1. <<>> \in Seq(Cells) /\ Len(<<>>) = 0 /\ Cardinality({}) = 0 /\ 1..0 = {}
  BY FS_EmptySet, EmptySeq
<1> QED
  BY <1>1, ThroughIf

\* The pairs without those of one key, and what can be found afterwards.
LEMMA WithoutIs ==
  ASSUME HashInv, NEW k
  PROVE  Hash!Abstract!Without(k) =
           {<<key[x], data[x]>> : x \in {y \in allocated : key[y] # k}}
<1>1. Hash!Abstract!Without(k) = {entry \in Pairs : entry[1] # k}
  BY EntriesAre DEF Hash!Abstract!Without
<1> QED
  BY <1>1 DEF Pairs

LEMMA HashNext ==
  ASSUME HashInv'
  PROVE  Hash!Entries' = {<<key'[x], data'[x]>> : x \in allocated'}
  BY EntriesAreNext DEF Pairs

LEMMA HashInit ==
  ASSUME Hash!HashInRange, Hash!TableInit
  PROVE  HashInv /\ Hash!Abstract!Init
<1>1. HashTypes
  BY DEF Hash!TableInit, HashTypes
<1>2. ASSUME NEW i \in Hash!Indices
      PROVE  Through(Hash!Chain(i), table[i], rptr, Bucket(i))
  <2>1. table[i] = NULL /\ Bucket(i) = {}
    BY DEF Hash!TableInit, Bucket
  <2>2. Through(<<>>, table[i], rptr, Bucket(i))
    BY <2>1, ThroughNothing
  <2>3. Hash!Chain(i) = <<>>
    BY <2>2, HashChain
  <2> QED
    BY <2>2, <2>3
<1>3. HashInv
  BY <1>1, <1>2 DEF HashInv, Hash!TableInit
<1>4. Hash!Entries = {}
  BY <1>3, EntriesAre DEF Pairs, Hash!TableInit
<1> QED
  BY <1>3, <1>4 DEF Hash!Abstract!Init, Hash!TableInit

\* Nothing that the chains are made of changes.
LEMMA HashSame ==
  ASSUME HashInv, UNCHANGED <<table, key, rptr, allocated>>, HashTypes'
  PROVE  HashInv'
<1>1. ASSUME NEW i \in Hash!Indices
      PROVE  \E s : Through(s, table'[i], rptr',
                            {x \in allocated' : Hash!HashCode(key'[x]) = i})
  <2>1. Through(Hash!Chain(i), table[i], rptr, Bucket(i))
    BY DEF HashInv
  <2>2. Through(Hash!Chain(i), table'[i], rptr',
                {x \in allocated' : Hash!HashCode(key'[x]) = i})
    BY <2>1 DEF Bucket
  <2> QED
    BY <2>2
<1>2. /\ Hash!HashInRange
      /\ \A x \in allocated' : key'[x] \in Keys
      /\ \A x, y \in allocated' : key'[x] = key'[y] => x = y
  BY DEF HashInv
<1> QED
  BY <1>1, <1>2, HashKept

\* The chains of the other indices are left alone.
LEMMA HashOther ==
  ASSUME HashInv, NEW h \in Hash!Indices,
         \A i \in Hash!Indices : i # h => table'[i] = table[i],
         \A i \in Hash!Indices : i # h =>
           /\ {x \in allocated' : Hash!HashCode(key'[x]) = i} = Bucket(i)
           /\ Same(Bucket(i), rptr, rptr'),
         NEW s, Through(s, table'[h], rptr', {x \in allocated' : Hash!HashCode(key'[x]) = h}),
         HashTypes',
         \A x \in allocated' : key'[x] \in Keys,
         \A x, y \in allocated' : key'[x] = key'[y] => x = y
  PROVE  HashInv'
<1>1. ASSUME NEW i \in Hash!Indices
      PROVE  \E t : Through(t, table'[i], rptr',
                            {x \in allocated' : Hash!HashCode(key'[x]) = i})
  <2>1. CASE i = h
    BY <2>1
  <2>2. CASE i # h
    <3>1. Through(Hash!Chain(i), table[i], rptr, Bucket(i))
      BY DEF HashInv
    <3>2. Through(Hash!Chain(i), table'[i], rptr', Bucket(i))
      <4>1. Same(Bucket(i), rptr, rptr') /\ table'[i] = table[i]
        BY <2>2
      <4> QED
        BY <3>1, <4>1, ThroughSame
    <3> QED
      BY <2>2, <3>2
  <2> QED
    BY <2>1, <2>2
<1>2. Hash!HashInRange
  BY DEF HashInv
<1> QED
  BY <1>1, <1>2, HashKept

\* htInsert of a key that the table holds replaces its value.
LEMMA ReplaceStep ==
  ASSUME HashInv, NEW k \in Keys, NEW d \in Data, Hash!Search(k) # NULL,
         call' = <<"Insert", k>>, found' = NoData,
         data' = [data EXCEPT ![Hash!Search(k)] = d],
         UNCHANGED <<table, key, rptr, allocated>>
  PROVE  HashInv' /\ Hash!Abstract!Insert(k, d)
<1> DEFINE x == Hash!Search(k)
<1>1. x \in allocated /\ key[x] = k
  BY Searches
<1> HIDE DEF x
<1>2. /\ data \in [Cells -> Data \cup {NoData}] /\ allocated \subseteq Cells
      /\ data' = [data EXCEPT ![x] = d]
  BY DEF HashInv, HashTypes, x
<1>3. HashTypes'
  BY <1>2 DEF HashInv, HashTypes
<1>4. HashInv'
  BY <1>3, HashSame
<1>5. \A y \in allocated : /\ key[y] = k <=> y = x
                           /\ data'[y] = IF y = x THEN d ELSE data[y]
  BY <1>1, <1>2 DEF HashInv
<1>6. Hash!Entries' = {<<key[y], data'[y]>> : y \in allocated}
  BY <1>4, HashNext
<1>7. Hash!Entries' = Hash!Abstract!Without(k) \cup {<<k, d>>}
  <2>1. Hash!Abstract!Without(k) = {<<key[y], data[y]>> : y \in {z \in allocated : key[z] # k}}
    BY WithoutIs
  <2> QED
    BY <1>1, <1>5, <1>6, <2>1
<1> QED
  BY <1>4, <1>7 DEF Hash!Abstract!Insert

\* A key that no item has, and no memory for one.
LEMMA DropStep ==
  ASSUME HashInv, NEW k \in Keys, NEW d \in Data, Hash!Search(k) = NULL,
         call' = <<"Insert", k>>, found' = NoData,
         UNCHANGED <<table, key, data, rptr, allocated>>
  PROVE  HashInv' /\ Hash!Abstract!Insert(k, d)
<1>1. \A x \in allocated : key[x] # k
  BY Searches
<1>2. HashInv'
  BY HashSame DEF HashInv, HashTypes
<1>3. Hash!Entries = Pairs /\ Hash!Entries' = {<<key[y], data[y]>> : y \in allocated}
  BY <1>2, EntriesAre, HashNext
<1>4. Hash!Abstract!Without(k) = Pairs
  BY <1>1, WithoutIs DEF Pairs
<1> QED
  BY <1>2, <1>3, <1>4 DEF Hash!Abstract!Insert, Pairs

\* A new item becomes the first of its chain.
LEMMA NewItemStep ==
  ASSUME HashInv, NEW k \in Keys, NEW d \in Data, Hash!Search(k) = NULL,
         call' = <<"Insert", k>>, found' = NoData,
         NEW newItem \in Cells, newItem \notin allocated,
         allocated' = allocated \cup {newItem},
         key' = [key EXCEPT ![newItem] = k],
         data' = [data EXCEPT ![newItem] = d],
         rptr' = [rptr EXCEPT ![newItem] = table[Hash!HashCode(k)]],
         table' = [table EXCEPT ![Hash!HashCode(k)] = newItem]
  PROVE  HashInv' /\ Hash!Abstract!Insert(k, d)
<1> DEFINE h == Hash!HashCode(k)
           s == Hash!Chain(h)
<1>1. h \in Hash!Indices
  BY Finds
<1>2. \A x \in allocated : key[x] # k
  BY Searches
<1>3. /\ Len(s) \in Nat /\ table[h] = IF Len(s) = 0 THEN NULL ELSE s[1]
  BY <1>1, HashFacts
<1>4. Through(s, table[h], rptr, Bucket(h))
  BY <1>1 DEF HashInv
<1> HIDE DEF s
<1>5. /\ table \in [Hash!Indices -> Cells \cup {NULL}]
      /\ key \in [Cells -> Keys \cup {Hash!NoKey}]
      /\ data \in [Cells -> Data \cup {NoData}]
      /\ rptr \in [Cells -> Cells \cup {NULL}] /\ allocated \subseteq Cells
  BY DEF HashInv, HashTypes
<1>6. table' = [table EXCEPT ![h] = newItem] /\ rptr' = [rptr EXCEPT ![newItem] = table[h]]
  OBVIOUS
<1>7. HashTypes'
  <2>1. table[h] \in Cells \cup {NULL}
    BY <1>1, <1>5
  <2> HIDE DEF h
  <2> QED
    BY <1>1, <1>5, <1>6, <2>1 DEF HashTypes
<1>8. \A x \in allocated : key'[x] = key[x] /\ data'[x] = data[x] /\ rptr'[x] = rptr[x]
  BY <1>5
<1>9. key'[newItem] = k /\ data'[newItem] = d
  BY <1>5
<1>10. \A x \in allocated' : key'[x] \in Keys
  BY <1>8, <1>9 DEF HashInv
<1>11. \A x, y \in allocated' : key'[x] = key'[y] => x = y
  BY <1>2, <1>8, <1>9 DEF HashInv
<1>12. {x \in allocated' : Hash!HashCode(key'[x]) = h} = Bucket(h) \cup {newItem}
  BY <1>8, <1>9 DEF Bucket
<1>13. \A i \in Hash!Indices : i # h =>
         /\ {x \in allocated' : Hash!HashCode(key'[x]) = i} = Bucket(i)
         /\ Same(Bucket(i), rptr, rptr')
  BY <1>8, <1>9 DEF Bucket, Same
<1>14. \A i \in Hash!Indices : i # h => table'[i] = table[i]
  BY <1>5, <1>6
<1>15. Through(PutIn(s, 1, newItem), table'[h], rptr', Bucket(h) \cup {newItem})
  <2>1. 1 \in 1..Len(s) + 1 /\ (1 = Len(s) + 1 <=> Len(s) = 0) /\ ~(1 > 1)
    BY <1>3
  <2>2. table'[h] = newItem /\ rptr'[newItem] = table[h]
    <3> HIDE DEF h
    <3> QED
      BY <1>1, <1>5, <1>6
  <2>3. \A y \in Bucket(h) : rptr'[y] = rptr[y] /\ y # newItem
    BY <1>8 DEF Bucket
  <2>4. LinkedIn(s, table[h], rptr, Bucket(h), 1, newItem, table'[h], rptr')
    <3> HIDE DEF h
    <3> QED
      BY <1>3, <2>1, <2>2, <2>3 DEF LinkedIn
  <2> HIDE DEF h
  <2> QED
    BY <1>4, <2>1, <2>3, <2>4, ThroughInsert
<1> HIDE DEF h
<1>16. HashInv'
  <2>1. Through(PutIn(s, 1, newItem), table'[h], rptr',
                {x \in allocated' : Hash!HashCode(key'[x]) = h})
    BY <1>12, <1>15
  <2> QED
    BY <1>1, <1>7, <1>10, <1>11, <1>13, <1>14, <2>1, HashOther, ZenonT(60)
<1>17. Hash!Entries' = Hash!Abstract!Without(k) \cup {<<k, d>>}
  <2>1. Hash!Abstract!Without(k) = {<<key[y], data[y]>> : y \in {z \in allocated : key[z] # k}}
    BY WithoutIs
  <2>2. Hash!Entries' = {<<key'[y], data'[y]>> : y \in allocated'}
    BY <1>16, HashNext
  <2> QED
    BY <1>2, <1>8, <1>9, <2>1, <2>2
<1> QED
  BY <1>16, <1>17 DEF Hash!Abstract!Insert

LEMMA HashInsert ==
  ASSUME HashInv, NEW k \in Keys, NEW d \in Data, Hash!Insert(k, d)
  PROVE  HashInv' /\ Hash!Abstract!Insert(k, d)
<1>1. call' = <<"Insert", k>> /\ found' = NoData
  BY DEF Hash!Insert
<1>2. CASE /\ Hash!Search(k) # NULL
           /\ data' = [data EXCEPT ![Hash!Search(k)] = d]
           /\ UNCHANGED <<table, key, rptr, allocated>>
  BY <1>1, <1>2, ReplaceStep
<1>3. CASE /\ Hash!Search(k) = NULL
           /\ UNCHANGED <<table, key, data, rptr, allocated>>
  BY <1>1, <1>3, DropStep
<1>4. CASE /\ Hash!Search(k) = NULL
           /\ \E newItem \in Hash!Fresh :
                /\ allocated' = allocated \cup {newItem}
                /\ key' = [key EXCEPT ![newItem] = k]
                /\ data' = [data EXCEPT ![newItem] = d]
                /\ rptr' = [rptr EXCEPT ![newItem] = table[Hash!HashCode(k)]]
                /\ table' = [table EXCEPT ![Hash!HashCode(k)] = newItem]
  <2>1. ASSUME NEW newItem \in Hash!Fresh PROVE newItem \in Cells /\ newItem \notin allocated
    <3>1. allocated # Cells /\ newItem = CHOOSE x \in Cells : x \notin allocated
      BY DEF Hash!Fresh
    <3>2. \E x \in Cells : x \notin allocated
      BY <3>1 DEF HashInv, HashTypes
    <3> QED
      BY <3>1, <3>2
  <2> QED
    BY <1>1, <1>4, <2>1, NewItemStep
<1> QED
  BY <1>1, <1>2, <1>3, <1>4 DEF Hash!Insert

\* htRead returns the value of the key, or NULL if no item has it.
LEMMA HashRead ==
  ASSUME HashInv, NEW k \in Keys, Hash!Read(k)
  PROVE  HashInv' /\ Hash!Abstract!Search(k)
<1>0. /\ call' = <<"Search", k>>
      /\ found' = IF Hash!Search(k) = NULL THEN NoData ELSE data[Hash!Search(k)]
      /\ UNCHANGED <<table, key, data, rptr, allocated>>
  BY DEF Hash!Read
<1>1. HashInv'
  BY <1>0, HashSame DEF HashInv, HashTypes
<1>2. Hash!Entries = Pairs
  BY EntriesAre
<1>3. Hash!Entries' = Hash!Entries
  BY <1>0, <1>1, <1>2, HashNext DEF Pairs
<1>4. CASE Hash!Search(k) = NULL
  <2>1. \A x \in allocated : key[x] # k
    BY <1>4, Searches
  <2>2. Hash!Entries = Hash!Abstract!Without(k)
    BY <1>2, <2>1, WithoutIs DEF Pairs
  <2> QED
    BY <1>0, <1>1, <1>3, <1>4, <2>2 DEF Hash!Abstract!Search
<1>5. CASE Hash!Search(k) # NULL
  <2>1. Hash!Search(k) \in allocated /\ key[Hash!Search(k)] = k
    BY <1>5, Searches
  <2>2. <<k, found'>> \in Hash!Entries
    BY <1>0, <1>2, <1>5, <2>1 DEF Pairs
  <2> QED
    BY <1>0, <1>1, <1>3, <2>2 DEF Hash!Abstract!Search
<1> QED
  BY <1>4, <1>5

\* htDelete of a key that no item has.
LEMMA MissStep ==
  ASSUME HashInv, NEW k \in Keys, Hash!Hits(k) = {},
         call' = <<"Delete", k>>, found' = NoData,
         UNCHANGED <<table, key, data, rptr, allocated>>
  PROVE  HashInv' /\ Hash!Abstract!Delete(k)
<1>1. \A x \in allocated : key[x] # k
  BY Finds
<1>2. HashInv'
  BY HashSame DEF HashInv, HashTypes
<1>3. Hash!Entries' = {<<key[y], data[y]>> : y \in allocated}
  BY <1>2, HashNext
<1>4. Hash!Abstract!Without(k) = Hash!Entries'
  BY <1>1, <1>3, WithoutIs
<1> QED
  BY <1>2, <1>4 DEF Hash!Abstract!Delete

\* The item with the key is unlinked from its chain and freed.
LEMMA UnlinkStep ==
  ASSUME HashInv, NEW k \in Keys, Hash!Hits(k) # {},
         call' = <<"Delete", k>>, found' = NoData,
         LinkedOut(Hash!Chain(Hash!HashCode(k)), table[Hash!HashCode(k)], rptr,
                   Bucket(Hash!HashCode(k)), Hash!First(k), table'[Hash!HashCode(k)], rptr'),
         table' \in [Hash!Indices -> Cells \cup {NULL}],
         \A i \in Hash!Indices : i # Hash!HashCode(k) => table'[i] = table[i],
         NEW links \in [Cells -> Cells \cup {NULL}],
         Hash!Free({Hash!Search(k)}, links),
         \A i \in Hash!Indices : i # Hash!HashCode(k) => Same(Bucket(i), rptr, rptr')
  PROVE  HashInv' /\ Hash!Abstract!Delete(k)
<1> DEFINE h == Hash!HashCode(k)
           s == Hash!Chain(h)
           p == Hash!First(k)
           x == Hash!Search(k)
<1>1. h \in Hash!Indices /\ p \in 1..Len(s)
  BY Finds
<1>2. x \in allocated /\ key[x] = k /\ x = s[p]
  BY Searches
<1>3. Through(s, table[h], rptr, Bucket(h))
  BY <1>1 DEF HashInv
<1> HIDE DEF s, p, x
<1>4. LinkedOut(s, table[h], rptr, Bucket(h), p, table'[h], rptr')
  BY DEF s, p
<1>5. Through(TakeOut(s, p), table'[h], rptr', Bucket(h) \ {x})
  <2> HIDE DEF h
  <2> QED
    BY <1>1, <1>2, <1>3, <1>4, ThroughRemove
<1>6. /\ allocated' = allocated \ {x}
      /\ key' = [y \in Cells |-> IF y \in {x} THEN Hash!NoKey ELSE key[y]]
      /\ data' = [y \in Cells |-> IF y \in {x} THEN NoData ELSE data[y]]
      /\ rptr' = [y \in Cells |-> IF y \in {x} THEN NULL ELSE links[y]]
  BY DEF Hash!Free, x
<1>7. /\ key \in [Cells -> Keys \cup {Hash!NoKey}]
      /\ data \in [Cells -> Data \cup {NoData}] /\ allocated \subseteq Cells
  BY DEF HashInv, HashTypes
<1>8. HashTypes'
  BY <1>6, <1>7 DEF HashTypes
<1>9. \A y \in allocated' : y \in allocated /\ y # x /\ key'[y] = key[y] /\ data'[y] = data[y]
  BY <1>6, <1>7
<1>10. \A y \in allocated : key[y] = k <=> y = x
  BY <1>2 DEF HashInv
<1>11. {y \in allocated' : Hash!HashCode(key'[y]) = h} = Bucket(h) \ {x}
  BY <1>6, <1>9 DEF Bucket
<1>12. \A i \in Hash!Indices : i # h =>
         {y \in allocated' : Hash!HashCode(key'[y]) = i} = Bucket(i)
  BY <1>2, <1>6, <1>9 DEF Bucket
<1>13. /\ \A y \in allocated' : key'[y] \in Keys
       /\ \A y, z \in allocated' : key'[y] = key'[z] => y = z
  BY <1>9 DEF HashInv
<1>14. /\ \A i \in Hash!Indices : i # h => table'[i] = table[i]
       /\ \A i \in Hash!Indices : i # h => Same(Bucket(i), rptr, rptr')
  OBVIOUS
<1> HIDE DEF h
<1>15. HashInv'
  <2>1. Through(TakeOut(s, p), table'[h], rptr',
                {y \in allocated' : Hash!HashCode(key'[y]) = h})
    BY <1>5, <1>11
  <2> QED
    BY <1>1, <1>8, <1>12, <1>13, <1>14, <2>1, HashOther, ZenonT(60)
<1>16. Hash!Entries' = Hash!Abstract!Without(k)
  <2>1. Hash!Abstract!Without(k) = {<<key[y], data[y]>> : y \in {z \in allocated : key[z] # k}}
    BY WithoutIs
  <2>2. Hash!Entries' = {<<key'[y], data'[y]>> : y \in allocated'}
    BY <1>15, HashNext
  <2>3. {z \in allocated : key[z] # k} = allocated'
    BY <1>6, <1>10
  <2> QED
    BY <1>9, <2>1, <2>2, <2>3
<1> QED
  BY <1>15, <1>16 DEF Hash!Abstract!Delete

\* The other chains share no item with the one that the deleted item leaves.
LEMMA OthersApart ==
  ASSUME HashInv, NEW h \in Hash!Indices, NEW i \in Hash!Indices, i # h,
         NEW p \in 1..Len(Hash!Chain(h))
  PROVE  Hash!Chain(h)[p] \notin Bucket(i)
<1>1. Hash!HashCode(key[Hash!Chain(h)[p]]) = h
  BY HashFacts
<1> QED
  BY <1>1 DEF Bucket

LEMMA HashDelete ==
  ASSUME HashInv, NEW k \in Keys, Hash!Delete(k)
  PROVE  HashInv' /\ Hash!Abstract!Delete(k)
<1> DEFINE h == Hash!HashCode(k)
           s == Hash!Chain(h)
           p == Hash!First(k)
<1>1. call' = <<"Delete", k>> /\ found' = NoData
  BY DEF Hash!Delete
<1>2. /\ table \in [Hash!Indices -> Cells \cup {NULL}]
      /\ rptr \in [Cells -> Cells \cup {NULL}] /\ Bucket(h) \subseteq Cells
      /\ \A i \in Hash!Indices : Bucket(i) \subseteq Cells
  BY DEF HashInv, HashTypes, Bucket
<1>3. ASSUME Hash!Hits(k) # {}
      PROVE  /\ h \in Hash!Indices /\ p \in 1..Len(s) /\ Hash!Hits(k) = {p}
             /\ Hash!Search(k) = s[p] /\ s[p] \in Cells
             /\ \A i \in Hash!Indices : i # h => \A q \in 1..Len(s) : s[q] \notin Bucket(i)
  <2>1. h \in Hash!Indices /\ p \in 1..Len(s) /\ Hash!Hits(k) = {p}
    BY <1>3, Finds
  <2>2. Hash!Search(k) = s[p]
    BY <1>3 DEF Hash!Search
  <2>3. s[p] \in Cells
    BY <2>1, HashFacts DEF HashInv, HashTypes
  <2>4. \A i \in Hash!Indices : i # h => \A q \in 1..Len(s) : s[q] \notin Bucket(i)
    BY <2>1, OthersApart
  <2> QED
    BY <2>1, <2>2, <2>3, <2>4
<1>4. CASE Hash!Hits(k) = {} /\ UNCHANGED <<table, key, data, rptr, allocated>>
  BY <1>1, <1>4, MissStep
<1>5. CASE /\ 1 \in Hash!Hits(k)
           /\ table' = [table EXCEPT ![h] = Hash!Successor(s[1])]
           /\ Hash!Free({s[1]}, rptr)
  <2>1. Hash!Hits(k) # {} /\ p = 1
    BY <1>3, <1>5
  <2>2. \A y \in Cells : rptr'[y] = IF y = s[p] THEN NULL ELSE rptr[y]
    BY <1>5, <2>1 DEF Hash!Free
  <2>3. rptr[s[1]] \in Cells \cup {NULL}
    BY <1>2, <1>3, <2>1
  <2>4. table' = [table EXCEPT ![h] = rptr[s[1]]]
    BY <1>5 DEF Hash!Successor
  <2> HIDE DEF h, s, p
  <2>5. /\ table' \in [Hash!Indices -> Cells \cup {NULL}]
        /\ \A i \in Hash!Indices : i # h => table'[i] = table[i]
        /\ table'[h] = rptr[s[1]]
    BY <1>2, <1>3, <2>1, <2>3, <2>4
  <2>6. LinkedOut(s, table[h], rptr, Bucket(h), p, table'[h], rptr')
    BY <1>2, <2>1, <2>2, <2>5 DEF LinkedOut
  <2>7. \A i \in Hash!Indices : i # h => Same(Bucket(i), rptr, rptr')
    BY <1>2, <1>3, <2>1, <2>2 DEF Same
  <2>8. Hash!Free({Hash!Search(k)}, rptr)
    BY <1>3, <1>5, <2>1
  <2> USE DEF h, s, p
  <2> QED
    BY <1>1, <1>2, <2>1, <2>5, <2>6, <2>7, <2>8, UnlinkStep
<1>6. CASE /\ Hash!Hits(k) # {} /\ 1 \notin Hash!Hits(k)
           /\ Hash!Free({s[p]}, [rptr EXCEPT ![s[p - 1]] = Hash!Successor(s[p])])
           /\ UNCHANGED table
  <2> DEFINE links == [rptr EXCEPT ![s[p - 1]] = Hash!Successor(s[p])]
  <2>1. p \in 1..Len(s) /\ p # 1
    BY <1>3, <1>6
  <2>2. /\ Len(s) \in Nat /\ \A q \in 1..Len(s) : s[q] \in Cells
        /\ \A q, r \in 1..Len(s) : s[q] = s[r] => q = r
    BY <1>3, <1>6, HashFacts DEF HashInv, HashTypes
  <2>3. /\ \A i \in Hash!Indices : i # h => \A q \in 1..Len(s) : s[q] \notin Bucket(i)
        /\ s[p] = Hash!Search(k) /\ h \in Hash!Indices
    BY <1>3, <1>6
  <2>4. Hash!Free({s[p]}, links)
    BY <1>6
  <2>5. links = [rptr EXCEPT ![s[p - 1]] = rptr[s[p]]]
    BY DEF Hash!Successor
  <2> HIDE DEF h, s, p, links
  <2>6. p - 1 \in 1..Len(s) /\ p > 1 /\ p - 1 # p
    BY <2>1, <2>2
  <2>7. s[p - 1] \in Cells /\ s[p] \in Cells
    BY <2>1, <2>2, <2>6
  <2>8. links \in [Cells -> Cells \cup {NULL}]
    BY <1>2, <2>5, <2>7
  <2>9. \A y \in Cells : rptr'[y] = IF y = s[p] THEN NULL
                                    ELSE IF y = s[p - 1] THEN rptr[s[p]] ELSE rptr[y]
    <3>1. \A y \in Cells : rptr'[y] = IF y \in {s[p]} THEN NULL ELSE links[y]
      BY <2>4 DEF Hash!Free
    <3>2. \A y \in Cells : links[y] = IF y = s[p - 1] THEN rptr[s[p]] ELSE rptr[y]
      BY <1>2, <2>5
    <3> QED
      BY <3>1, <3>2
  <2>10. LinkedOut(s, table[h], rptr, Bucket(h), p, table'[h], rptr')
    <3>1. Bucket(h) \subseteq Cells
      BY <1>2 DEF h
    <3> QED
      BY <1>6, <2>1, <2>6, <2>9, <3>1 DEF LinkedOut
  <2>11. \A i \in Hash!Indices : i # h => Same(Bucket(i), rptr, rptr')
    BY <1>2, <2>1, <2>3, <2>6, <2>9 DEF Same
  <2>12. Hash!Free({Hash!Search(k)}, links)
    BY <2>3, <2>4
  <2>13. /\ table' \in [Hash!Indices -> Cells \cup {NULL}]
         /\ \A i \in Hash!Indices : i # h => table'[i] = table[i]
    BY <1>2, <1>6
  <2> USE DEF h, s, p
  <2> QED
    BY <1>1, <1>6, <2>8, <2>10, <2>11, <2>12, <2>13, UnlinkStep
<1> QED
  BY <1>4, <1>5, <1>6 DEF Hash!Delete

\* htClearAll frees the items of every chain, which are all there are.
LEMMA HashClear ==
  ASSUME HashInv, Hash!ClearAll
  PROVE  HashInv' /\ Hash!Abstract!Clear
<1> DEFINE gone == UNION {{Hash!Chain(i)[p] : p \in DOMAIN Hash!Chain(i)} : i \in Hash!Indices}
<1>1. /\ call' = <<"Clear">> /\ found' = NoData
      /\ table' = [i \in Hash!Indices |-> NULL]
      /\ Hash!Free(gone, rptr)
  BY DEF Hash!ClearAll
<1>2. allocated \subseteq gone
  <2>1. ASSUME NEW x \in allocated PROVE x \in gone
    <3>1. key[x] \in Keys /\ Hash!HashCode(key[x]) \in Hash!Indices
      BY DEF HashInv, Hash!HashInRange
    <3>2. PICK i \in Hash!Indices : i = Hash!HashCode(key[x])
      BY <3>1
    <3>3. PICK p \in 1..Len(Hash!Chain(i)) : x = Hash!Chain(i)[p]
      BY <3>2, HashFacts
    <3>4. p \in DOMAIN Hash!Chain(i)
      BY HashFacts
    <3> QED
      BY <3>3, <3>4
  <2> QED
    BY <2>1
<1> HIDE DEF gone
<1>3. /\ allocated' = {}
      /\ key' = [x \in Cells |-> IF x \in gone THEN Hash!NoKey ELSE key[x]]
      /\ data' = [x \in Cells |-> IF x \in gone THEN NoData ELSE data[x]]
      /\ rptr' = [x \in Cells |-> IF x \in gone THEN NULL ELSE rptr[x]]
  BY <1>1, <1>2 DEF Hash!Free
<1>4. HashTypes'
  BY <1>1, <1>3 DEF HashInv, HashTypes
<1>5. ASSUME NEW i \in Hash!Indices
      PROVE  \E s : Through(s, table'[i], rptr',
                            {x \in allocated' : Hash!HashCode(key'[x]) = i})
  <2>1. table'[i] = NULL /\ {x \in allocated' : Hash!HashCode(key'[x]) = i} = {}
    BY <1>1, <1>3
  <2>2. Through(<<>>, table'[i], rptr', {x \in allocated' : Hash!HashCode(key'[x]) = i})
    BY <2>1, ThroughNothing
  <2> QED
    BY <2>2
<1>6. HashInv'
  <2>1. Hash!HashInRange
    BY DEF HashInv
  <2>2. /\ \A x \in allocated' : key'[x] \in Keys
        /\ \A x, y \in allocated' : key'[x] = key'[y] => x = y
    BY <1>3
  <2> QED
    BY <1>4, <1>5, <2>1, <2>2, HashKept
<1>7. Hash!Entries' = {}
  BY <1>3, <1>6, HashNext
<1> QED
  BY <1>1, <1>6, <1>7 DEF Hash!Abstract!Clear

tableVars == <<table, key, data, rptr, allocated, found, call>>

LEMMA HashStutter == HashInv /\ UNCHANGED tableVars => HashInv' /\ UNCHANGED Hash!Abstract!vars
<1> SUFFICES ASSUME HashInv, UNCHANGED tableVars
             PROVE  HashInv' /\ UNCHANGED Hash!Abstract!vars
  OBVIOUS
<1>1. HashInv'
  BY HashSame DEF HashInv, HashTypes, tableVars
<1>2. Hash!Entries' = Hash!Entries
  BY <1>1, EntriesAre, HashNext DEF Pairs, tableVars
<1> QED
  BY <1>1, <1>2 DEF Hash!Abstract!vars, tableVars

LEMMA HashStep == HashInv /\ Hash!TableNext => HashInv' /\ Hash!Abstract!Next
<1> SUFFICES ASSUME HashInv, Hash!TableNext
             PROVE  HashInv' /\ Hash!Abstract!Next
  OBVIOUS
<1>1. CASE Hash!ClearAll
  BY <1>1, HashClear DEF Hash!Abstract!Next
<1>2. ASSUME NEW k \in Keys, Hash!Read(k) PROVE HashInv' /\ Hash!Abstract!Next
  BY <1>2, HashRead DEF Hash!Abstract!Next
<1>3. ASSUME NEW k \in Keys, Hash!Delete(k) PROVE HashInv' /\ Hash!Abstract!Next
  BY <1>3, HashDelete DEF Hash!Abstract!Next
<1>4. ASSUME NEW k \in Keys, NEW d \in Data, Hash!Insert(k, d)
      PROVE  HashInv' /\ Hash!Abstract!Next
  BY <1>4, HashInsert DEF Hash!Abstract!Next
<1> QED
  BY <1>1, <1>2, <1>3, <1>4 DEF Hash!TableNext

\* The remainder of a sum that is not negative is an index of the table.  The sum of a key
\* with characters above 127 may be negative.
SumsAreNatural == HTSIZE \in Nat \ {0} /\ \A k \in Keys : Hash!CharSum(k) \in Nat

LEMMA HashesInto == SumsAreNatural => Hash!HashInRange
<1> SUFFICES ASSUME SumsAreNatural, NEW k \in Keys PROVE Hash!HashCode(k) \in Hash!Indices
  BY DEF Hash!HashInRange
<1> DEFINE a == Hash!CharSum(k)
<1>1. a \in Nat /\ HTSIZE \in Nat \ {0}
  BY DEF SumsAreNatural
<1>2. Hash!HashCode(k) = Hash!Remainder(a, HTSIZE)
  BY DEF Hash!HashCode
<1> HIDE DEF a
<1>3. Hash!Remainder(a, HTSIZE) = a % HTSIZE /\ a % HTSIZE \in 0..HTSIZE - 1
  BY <1>1 DEF Hash!Remainder
<1> QED
  BY <1>2, <1>3 DEF Hash!Indices

LEMMA HashAlways ==
  ASSUME SumsAreNatural
  PROVE  Hash!TableSpec => [](HashInv)
<1>1. Hash!TableInit => HashInv
  BY HashInit, HashesInto
<1>2. HashInv /\ [Hash!TableNext]_(Hash!tableVars) => HashInv'
  BY HashStep, HashStutter DEF Hash!tableVars, tableVars
<1> QED
  BY <1>1, <1>2, PTL DEF Hash!TableSpec

\* No item leaks, none dangles, and no key is stored twice: every item that malloc gave is
\* in the chain of its key's index, and a search for its key finds it and no other
\* (htInsert, htDelete and htClearAll, c016.c:102-227).
THEOREM TableIsSound ==
  ASSUME SumsAreNatural
  PROVE  Hash!TableSpec => []Hash!ChainsAreSound
<1>1. HashInv => Hash!ChainsAreSound
  <2> SUFFICES ASSUME HashInv PROVE Hash!ChainsAreSound
    OBVIOUS
  <2>1. ASSUME NEW i \in Hash!Indices, NEW p \in DOMAIN Hash!Chain(i)
        PROVE  Hash!Chain(i)[p] \in allocated /\ Hash!HashCode(key[Hash!Chain(i)[p]]) = i
    <3>1. p \in 1..Len(Hash!Chain(i))
      BY HashFacts
    <3> QED
      BY <3>1, HashFacts
  <2>2. ASSUME NEW x \in allocated PROVE Hash!Search(key[x]) = x
    <3>1. key[x] \in Keys
      BY DEF HashInv
    <3>2. Hash!Search(key[x]) \in allocated /\ key[Hash!Search(key[x])] = key[x]
      BY <3>1, Searches
    <3> QED
      BY <3>2 DEF HashInv
  <2> QED
    BY <2>1, <2>2 DEF Hash!ChainsAreSound
<1> QED
  BY <1>1, HashAlways, PTL

\* The chains behave as one table of values by keys, whatever keys collide: an insertion
\* replaces the value of its key or is dropped for want of memory, a deletion removes that
\* key alone, and htRead returns what was stored last (c016.c:60-227).
THEOREM ChainsImplementTable ==
  ASSUME SumsAreNatural
  PROVE  Hash!TableSpec => Hash!ImplementsTable
<1>1. Hash!TableInit => Hash!Abstract!Init
  BY HashInit, HashesInto
<1>2. HashInv /\ [Hash!TableNext]_(Hash!tableVars) => [Hash!Abstract!Next]_(Hash!Abstract!vars)
  BY HashStep, HashStutter DEF Hash!tableVars, tableVars
<1> QED
  BY <1>1, <1>2, HashAlways, PTL DEF Hash!TableSpec, Hash!ImplementsTable, Hash!Abstract!Spec
=============================================================================
