--------------------------- MODULE Automata_proofs --------------------------
(***************************************************************************)
(* Theorems of the automata: of the keypad for every length of a message   *)
(* that the display has room for, of the processor for any program, and of *)
(* the cellular automaton for a lattice of any size.  The last part is     *)
(* about the interleaver, for files and words of any size.                 *)
(***************************************************************************)
EXTENDS Keypad, Cpu, CellularAutomaton, Interleaver, FiniteSetTheorems, SequenceTheorems,
        WellFoundedInduction, TLAPS

-----------------------------------------------------------------------------
(* The keypad.                                                             *)

KeypadAssumption == /\ MessageLength \in Nat \ {0} /\ DisplaySize \in Nat
                    /\ MessageLength <= DisplaySize

KeypadSpec == KeypadInit /\ [][KeypadNext]_keypadVars

-----------------------------------------------------------------------------
(* The inductive invariant.                                                *)

\* How many digits of a code have been typed in a state inside of it.
Step1 == [TEST1_1 |-> 1, TEST1_2 |-> 2, TEST1_3 |-> 3, TEST1_4 |-> 4, TEST1_5 |-> 5,
          TEST1_6 |-> 6, TEST1_7 |-> 7, TEST1_8 |-> 8]
Step2 == [TEST2_1 |-> 1, TEST2_2 |-> 2, TEST2_3 |-> 3, TEST2_4 |-> 4, TEST2_5 |-> 5,
          TEST2_6 |-> 6, TEST2_7 |-> 7, TEST2_8 |-> 8, TEST2_9 |-> 9, TEST2_10 |-> 10]
Ends  == Prints \cup {"FINISH", "FINISH_OK", "FINISH_FAIL"}

\* The state is what the digits so far stand for.
TypedInv ==
  /\ present_state \in {"TEST"} \cup DOMAIN Step1 \cup DOMAIN Step2 \cup Ends
  /\ typed \in Seq(SUBSET (0..14))
  /\ present_state = "TEST" => typed = <<>>
  /\ present_state \in DOMAIN Step1 => Begins(typed, 1) /\ Len(typed) = Step1[present_state]
  /\ present_state \in DOMAIN Step2 => Begins(typed, 2) /\ Len(typed) = Step2[present_state]
  /\ present_state = "FINISH_OK" => Opens(typed)
  /\ present_state = "FINISH_FAIL" => Hopeless(typed)
  /\ present_state = "PRINT_MESSAGE_OK" => Opens(typed)
  /\ present_state = "PRINT_MESSAGE_FAIL" => ~Opens(typed)

\* The display shows what the counter has walked through.
DisplayInv ==
  /\ present_state \notin Prints => CNT = 0
  /\ present_state \in Prints =>
       /\ CNT \in 0..(MessageLength - 1)
       /\ display = [k \in 1..CNT |-> <<present_state, k - 1>>]
  /\ KeypadOpens

KeypadInv == TypedInv /\ DisplayInv

-----------------------------------------------------------------------------
(* The codes.                                                              *)

LEMMA CodeFacts ==
  /\ DOMAIN Codes = {1, 2}
  /\ Len(Codes[1]) = 9 /\ Len(Codes[2]) = 11
  /\ Codes[1][1] = 8 /\ Codes[2][1] = 1
BY DEF Codes

LEMMA Steps1 ==
  ASSUME NEW s \in DOMAIN Step1
  PROVE  /\ s \in DOMAIN Key /\ s \notin Ends /\ s # "TEST" /\ s \notin DOMAIN Step2
         /\ Step1[s] \in 1..8 /\ Key[s] \in 0..14 /\ s \notin Prints
         /\ s = "TEST1_7" => Key[s] = 5
         /\ Codes[1][Step1[s] + 1] = Key[s]
         /\ Step1[s] = 7 <=> s = "TEST1_7"
         /\ IF Step1[s] = 8 THEN After[s] = "FINISH_OK"
            ELSE After[s] \in DOMAIN Step1 /\ Step1[After[s]] = Step1[s] + 1
BY DEF Step1, Step2, Key, After, Codes, Ends, Prints

LEMMA Steps2 ==
  ASSUME NEW s \in DOMAIN Step2
  PROVE  /\ s \in DOMAIN Key /\ s \notin Ends /\ s # "TEST" /\ s \notin DOMAIN Step1
         /\ Step2[s] \in 1..10 /\ Key[s] \in 0..14 /\ s \notin Prints /\ s # "TEST1_7"
         /\ Codes[2][Step2[s] + 1] = Key[s]
         /\ IF Step2[s] = 10 THEN After[s] = "FINISH_OK"
            ELSE After[s] \in DOMAIN Step2 /\ Step2[After[s]] = Step2[s] + 1
BY DEF Step1, Step2, Key, After, Codes, Ends, Prints

\* No sequence of digits begins both codes.
LEMMA OneCode ==
  ASSUME NEW t \in Seq(SUBSET (0..14)), t # <<>>
  PROVE  ~(Begins(t, 1) /\ Begins(t, 2))
BY CodeFacts DEF Begins

\* The digit that is waited for leads on, any other digit ends all hope.
LEMMA OneMore ==
  ASSUME NEW t \in Seq(SUBSET (0..14)), NEW d \in SUBSET (0..14), NEW c \in {1, 2},
         Begins(t, c), t # <<>>
  PROVE  LET u == Append(t, d)
         IN /\ u \in Seq(SUBSET (0..14)) /\ Len(u) = Len(t) + 1
            /\ Len(t) < Len(Codes[c]) /\ Codes[c][Len(t) + 1] \in d => Begins(u, c)
            /\ ~(Len(t) < Len(Codes[c]) /\ Codes[c][Len(t) + 1] \in d) => Hopeless(u)
<1> DEFINE u == Append(t, d)
<1>1. /\ u \in Seq(SUBSET (0..14)) /\ Len(u) = Len(t) + 1 /\ Len(t) \in Nat /\ Len(t) # 0
      /\ DOMAIN u = 1..(Len(t) + 1) /\ DOMAIN t = 1..Len(t)
      /\ \A k \in 1..Len(t) : u[k] = t[k]
      /\ u[Len(t) + 1] = d
  OBVIOUS
<1>2. Begins(u, c) <=> Len(t) < Len(Codes[c]) /\ Codes[c][Len(t) + 1] \in d
  BY <1>1, CodeFacts DEF Begins
<1>3. \A e \in {1, 2} : e # c => ~Begins(u, e)
  BY <1>1, CodeFacts DEF Begins
<1> QED
  BY <1>1, <1>2, <1>3, CodeFacts DEF Hopeless

LEMMA HopelessIsNotOpen ==
  ASSUME NEW t, Hopeless(t)
  PROVE  ~Opens(t)
BY DEF Hopeless, Opens

-----------------------------------------------------------------------------
(* The next state.                                                         *)

LEMMA NextInCode ==
  ASSUME NEW s \in DOMAIN Step1 \cup DOMAIN Step2, NEW KEY, NEW o
  PROVE  NextState(s, KEY, o) =
           IF Key[s] \in KEY THEN After[s]
           ELSE IF Spoils(s, KEY) THEN "FINISH_FAIL"
           ELSE IF 15 \in KEY THEN "PRINT_MESSAGE_FAIL" ELSE s
BY Steps1, Steps2 DEF NextState, Ends, Prints

LEMMA NextInTest ==
  ASSUME NEW KEY, NEW o
  PROVE  NextState("TEST", KEY, o) =
           IF 8 \in KEY THEN "TEST1_1" ELSE IF 1 \in KEY THEN "TEST2_1"
           ELSE IF Digits(KEY) # {} THEN "FINISH_FAIL"
           ELSE IF 15 \in KEY THEN "PRINT_MESSAGE_FAIL" ELSE "TEST"
BY DEF NextState, Prints, Spoils, Key

LEMMA NextInPrint ==
  ASSUME NEW KEY, present_state \in Prints
  PROVE  NextState(present_state, KEY, CNT = MessageLength - 1) =
           IF CNT = MessageLength - 1 THEN "FINISH" ELSE present_state
<1>1. /\ Prints \cap DOMAIN Key = {} /\ "FINISH" \notin Prints /\ "FINISH_OK" \notin Prints
      /\ "FINISH_FAIL" \notin Prints /\ "TEST" \notin Prints
  BY DEF Prints, Key
<1> QED
  BY <1>1, Zenon DEF NextState

LEMMA NextAtEnd ==
  ASSUME NEW KEY, NEW o
  PROVE  /\ NextState("FINISH", KEY, o) = IF 15 \in KEY THEN "TEST" ELSE "FINISH"
         /\ NextState("FINISH_FAIL", KEY, o) =
              IF 15 \in KEY THEN "PRINT_MESSAGE_FAIL" ELSE "FINISH_FAIL"
         /\ NextState("FINISH_OK", KEY, o) =
              IF 15 \in KEY THEN "PRINT_MESSAGE_OK"
              ELSE IF Digits(KEY) # {} THEN "FINISH_FAIL" ELSE "FINISH_OK"
<1>1. /\ Prints = {"PRINT_MESSAGE_OK", "PRINT_MESSAGE_FAIL"}
      /\ "FINISH" \notin Prints \cup DOMAIN Key /\ "FINISH_OK" \notin Prints \cup DOMAIN Key
      /\ "FINISH_FAIL" \notin Prints \cup DOMAIN Key /\ Prints \cap DOMAIN Key = {}
      /\ "FINISH" # "FINISH_OK" /\ "FINISH" # "FINISH_FAIL" /\ "FINISH_OK" # "FINISH_FAIL"
      /\ "FINISH" # "TEST" /\ "FINISH_OK" # "TEST" /\ "FINISH_FAIL" # "TEST"
      /\ "TEST" \notin Prints /\ "FINISH_OK" # "TEST1_7"
  BY DEF Prints, Key
<1>2. NextState("FINISH", KEY, o) = IF 15 \in KEY THEN "TEST" ELSE "FINISH"
  BY <1>1, Zenon DEF NextState
<1>3. NextState("FINISH_FAIL", KEY, o) =
        IF 15 \in KEY THEN "PRINT_MESSAGE_FAIL" ELSE "FINISH_FAIL"
  BY <1>1, Zenon DEF NextState
<1>4. NextState("FINISH_OK", KEY, o) =
        IF 15 \in KEY THEN "PRINT_MESSAGE_OK"
        ELSE IF Digits(KEY) # {} THEN "FINISH_FAIL" ELSE "FINISH_OK"
  BY <1>1, Zenon DEF NextState, Spoils
<1> QED
  BY <1>2, <1>3, <1>4

-----------------------------------------------------------------------------
(* The steps.                                                              *)

LEMMA PressesAreKeys ==
  ASSUME NEW KEY \in Presses
  PROVE  /\ KEY \in SUBSET (0..15) /\ Digits(KEY) \in SUBSET (0..14)
         /\ \A k \in 0..14 : k \in KEY <=> k \in Digits(KEY)
BY DEF Presses, Digits

\* In a state that counts nothing the display is cleared with the confirmation.
LEMMA Quiet ==
  ASSUME KeypadAssumption, KeypadInv, NEW KEY \in Presses,
         present_state \notin Prints,
         present_state' = "FINISH" => present_state = "FINISH" /\ 15 \notin KEY,
         present_state' \in Prints => 15 \in KEY,
         display' = LET w == Written(present_state, KEY)
                    IN IF Len(w) > DisplaySize THEN display ELSE w,
         CNT' = IF present_state \in Prints THEN (CNT + 1) % MessageLength
                    ELSE CNT,
         present_state = "FINISH" /\ 15 \notin KEY => typed' = typed
  PROVE  DisplayInv'
<1> USE DEF KeypadInv, DisplayInv, KeypadAssumption
<1>1. CNT' = 0
  OBVIOUS
<1>2. CASE 15 \in KEY
  <2>1. display' = <<>>
    BY <1>2 DEF Written
  <2>2. <<>> = [k \in 1..0 |-> <<present_state', k - 1>>]
    OBVIOUS
  <2> QED
    BY <1>1, <1>2, <2>1, <2>2 DEF KeypadOpens
<1>3. CASE 15 \notin KEY
  <2>1. present_state' = "FINISH" => display' = display /\ typed' = typed
    BY <1>3 DEF Written
  <2>2. typed' = typed => (Opens(typed') <=> Opens(typed))
    BY DEF Opens, Begins
  <2>3. KeypadOpens'
    <3> SUFFICES ASSUME present_state' = "FINISH"
                 PROVE  KeypadOpens'
      BY DEF KeypadOpens
    <3>1. present_state = "FINISH" /\ KeypadOpens
      BY <1>3
    <3> QED
      BY <2>1, <2>2, <3>1 DEF KeypadOpens
  <2>4. present_state' \notin Prints
    BY <1>3
  <2> QED
    BY <1>1, <2>3, <2>4
<1> QED
  BY <1>2, <1>3

\* A counter below its maximum, one more, and the maximum.
LEMMA CounterWraps ==
  ASSUME NEW n \in Nat \ {0}
  PROVE  n % n = 0 /\ \A k \in 0..(n - 1) : k % n = k
BY SMTT(20)

\* One more character of a message.
LEMMA OneCharacter ==
  ASSUME NEW n \in Nat, NEW s
  PROVE  Append([k \in 1..n |-> <<s, k - 1>>], <<s, n>>) =
           [k \in 1..(n + 1) |-> <<s, k - 1>>]
<1> DEFINE d == [k \in 1..n |-> <<s, k - 1>>]
           a == Append(d, <<s, n>>)
           e == [k \in 1..(n + 1) |-> <<s, k - 1>>]
<1>1. d \in Seq({s} \X Nat) /\ Len(d) = n
  OBVIOUS
<1>2. e \in Seq({s} \X Nat) /\ Len(e) = n + 1
  OBVIOUS
<1>3. a \in Seq({s} \X Nat) /\ Len(a) = n + 1
  BY <1>1
<1>4. \A k \in 1..n : a[k] = d[k]
  BY <1>1
<1>5. a[n + 1] = <<s, n>>
  BY <1>1
<1>6. \A k \in 1..(n + 1) : a[k] = e[k]
  BY <1>4, <1>5
<1>7. a = e
  <2> HIDE DEF d, a, e
  <2> QED
    BY <1>2, <1>3, <1>6, SeqEqual
<1> QED
  BY <1>7

\* One clock of a message.
LEMMA Counting ==
  ASSUME KeypadAssumption, KeypadInv, NEW KEY \in Presses, present_state \in Prints,
         present_state' = IF CNT = MessageLength - 1 THEN "FINISH" ELSE present_state,
         display' = LET w == Written(present_state, KEY)
                    IN IF Len(w) > DisplaySize THEN display ELSE w,
         CNT' = (CNT + 1) % MessageLength, typed' = typed
  PROVE  KeypadInv'
<1> USE DEF KeypadAssumption
<1>1. CNT \in 0..(MessageLength - 1)
      /\ display = [k \in 1..CNT |-> <<present_state, k - 1>>]
  BY DEF KeypadInv, DisplayInv
<1>2. Len(display) = CNT /\ display \in Seq(Prints \X Nat)
  BY <1>1
<1>3. Written(present_state, KEY) = Append(display, <<present_state, CNT>>)
  BY DEF Written
<1>4. display' = Append(display, <<present_state, CNT>>)
  BY <1>1, <1>2, <1>3
<1>5. display' = [k \in 1..(CNT + 1) |-> <<present_state, k - 1>>]
  <2>1. CNT \in Nat
    BY <1>1
  <2>2. Append([k \in 1..CNT |-> <<present_state, k - 1>>], <<present_state, CNT>>)
          = [k \in 1..(CNT + 1) |-> <<present_state, k - 1>>]
    BY <2>1, OneCharacter
  <2> QED
    BY <1>1, <1>4, <2>2, Zenon
<1>6. (present_state = "PRINT_MESSAGE_OK" /\ Opens(typed))
      \/ (present_state = "PRINT_MESSAGE_FAIL" /\ ~Opens(typed))
  BY DEF KeypadInv, TypedInv, Prints
<1>7. Opens(typed') <=> Opens(typed)
  BY DEF Opens, Begins
<1>8. CASE CNT = MessageLength - 1
  <2>1. present_state' = "FINISH" /\ CNT' = 0 /\ CNT + 1 = MessageLength
    BY <1>1, <1>8, CounterWraps
  <2>2. TypedInv'
    BY <2>1 DEF KeypadInv, TypedInv, Ends, Step1, Step2, Prints
  <2>3. KeypadOpens'
    BY <1>5, <1>6, <1>7, <2>1 DEF KeypadOpens
  <2> QED
    BY <2>1, <2>2, <2>3 DEF KeypadInv, DisplayInv, Prints
<1>9. CASE CNT # MessageLength - 1
  <2>1. present_state' = present_state /\ CNT' = CNT + 1
        /\ CNT' \in 0..(MessageLength - 1)
    <3>1. CNT + 1 \in 0..(MessageLength - 1)
      BY <1>1, <1>9
    <3> QED
      BY <1>9, <3>1, CounterWraps
  <2>2. TypedInv'
    BY <2>1, <1>7 DEF KeypadInv, TypedInv, Opens, Begins, Hopeless
  <2> QED
    BY <1>5, <2>1, <2>2 DEF KeypadInv, DisplayInv, KeypadOpens, Prints
<1> QED
  BY <1>8, <1>9

\* A clock inside the first code, and inside the second.
LEMMA InCode1 ==
  ASSUME KeypadInv, NEW KEY \in Presses, NEW o, present_state \in DOMAIN Step1,
         present_state' = NextState(present_state, KEY, o),
         typed' = Remembered(typed, KEY)
  PROVE  TypedInv' /\ present_state' # "FINISH" /\ (present_state' \in Prints => 15 \in KEY)
<1> DEFINE s == present_state
           t == typed
           d == Digits(KEY)
           u == Append(t, d)
<1>1. /\ t \in Seq(SUBSET (0..14)) /\ Begins(t, 1) /\ Len(t) = Step1[s]
      /\ t # <<>> /\ d \in SUBSET (0..14) /\ Len(t) \in 1..8
  <2>1. t \in Seq(SUBSET (0..14)) /\ Begins(t, 1) /\ Len(t) = Step1[s]
    BY DEF KeypadInv, TypedInv
  <2>2. Len(t) \in 1..8
    BY <2>1, Steps1
  <2> QED
    BY <2>1, <2>2, PressesAreKeys
<1>2. ~Begins(t, 2) /\ ~Opens(t) /\ ~Hopeless(t)
  <2>1. ~Begins(t, 2)
    BY <1>1, OneCode
  <2>2. Len(t) # Len(Codes[1])
    BY <1>1, CodeFacts
  <2> HIDE DEF t
  <2> QED
    BY <1>1, <2>1, <2>2, CodeFacts DEF Opens, Hopeless
<1>3. Key[s] \in KEY <=> Key[s] \in d
  BY PressesAreKeys, Steps1
<1>4. typed' = IF d = {} \/ (s = "TEST1_7" /\ Key[s] \notin KEY) THEN t ELSE u
  BY <1>1, <1>2, Steps1 DEF Remembered
<1>5. present_state' = IF Key[s] \in KEY THEN After[s]
                       ELSE IF Spoils(s, KEY) THEN "FINISH_FAIL"
                       ELSE IF 15 \in KEY THEN "PRINT_MESSAGE_FAIL" ELSE s
  BY NextInCode
<1>6. CASE Key[s] \in KEY
  <2>1. typed' = u /\ present_state' = After[s]
    BY <1>3, <1>4, <1>5, <1>6
  <2>2. u \in Seq(SUBSET (0..14)) /\ Begins(u, 1) /\ Len(u) = Len(t) + 1
    <3>1. Len(t) < Len(Codes[1]) /\ Codes[1][Len(t) + 1] \in d
      BY <1>1, <1>3, <1>6, CodeFacts, Steps1
    <3> HIDE DEF t, d
    <3> QED
      BY <1>1, <3>1, OneMore
  <2>3. CASE Len(t) = 8
    <3>1. present_state' = "FINISH_OK"
      BY <1>1, <2>1, <2>3, Steps1
    <3>2. Opens(u)
      BY <2>2, <2>3, CodeFacts DEF Opens
    <3>3. Opens(typed')
      BY <2>1, <3>2
    <3> QED
      BY <2>1, <2>2, <3>1, <3>3 DEF TypedInv, Opens, Ends, Prints, Step1, Step2
  <2>4. CASE Len(t) # 8
    <3>1. present_state' \in DOMAIN Step1 /\ Step1[present_state'] = Len(t) + 1
      BY <1>1, <2>1, <2>4, Steps1
    <3>2. /\ present_state' \notin Ends /\ present_state' # "TEST"
          /\ present_state' \notin DOMAIN Step2 /\ present_state' \notin Prints
      BY <3>1, Steps1
    <3>3. Begins(typed', 1) /\ Len(typed') = Step1[present_state']
          /\ typed' \in Seq(SUBSET (0..14))
      BY <2>1, <2>2, <3>1
    <3>4. /\ present_state' # "FINISH" /\ present_state' # "FINISH_OK"
          /\ present_state' # "FINISH_FAIL" /\ present_state' # "PRINT_MESSAGE_OK"
          /\ present_state' # "PRINT_MESSAGE_FAIL"
      BY <3>2 DEF Ends, Prints
    <3>5. TypedInv'
      BY <3>1, <3>2, <3>3, <3>4 DEF TypedInv
    <3> QED
      BY <3>2, <3>4, <3>5
  <2> QED
    BY <2>3, <2>4
<1>7. CASE Key[s] \notin KEY /\ Spoils(s, KEY)
  <2>1. present_state' = "FINISH_FAIL" /\ typed' = u
    BY <1>4, <1>5, <1>7 DEF Spoils
  <2>2. u \in Seq(SUBSET (0..14)) /\ Hopeless(u)
    <3>1. Codes[1][Len(t) + 1] \notin d
      BY <1>1, <1>3, <1>7, Steps1
    <3> HIDE DEF t, d
    <3> QED
      BY <1>1, <3>1, OneMore
  <2>3. Hopeless(typed')
    BY <2>1, <2>2
  <2> QED
    BY <2>1, <2>2, <2>3 DEF TypedInv, Hopeless, Ends, Prints, Step1, Step2
<1>8. CASE Key[s] \notin KEY /\ ~Spoils(s, KEY)
  <2>1. typed' = t /\ present_state' = IF 15 \in KEY THEN "PRINT_MESSAGE_FAIL" ELSE s
    BY <1>4, <1>5, <1>8 DEF Spoils
  <2>2. CASE 15 \in KEY
    <3>1. ~Opens(typed')
      BY <1>2, <2>1
    <3> QED
      BY <1>1, <2>1, <2>2, <3>1 DEF TypedInv, Opens, Ends, Prints, Step1, Step2
  <2>3. CASE 15 \notin KEY
    <3>1. UNCHANGED <<present_state, typed>>
      BY <2>1, <2>3
    <3>2. TypedInv'
      BY <3>1 DEF KeypadInv, TypedInv, Opens, Begins, Hopeless
    <3> QED
      BY <3>1, <3>2, Steps1 DEF Ends
  <2> QED
    BY <2>2, <2>3
<1> QED
  BY <1>6, <1>7, <1>8

LEMMA InCode2 ==
  ASSUME KeypadInv, NEW KEY \in Presses, NEW o, present_state \in DOMAIN Step2,
         present_state' = NextState(present_state, KEY, o),
         typed' = Remembered(typed, KEY)
  PROVE  TypedInv' /\ present_state' # "FINISH" /\ (present_state' \in Prints => 15 \in KEY)
<1> DEFINE s == present_state
           t == typed
           d == Digits(KEY)
           u == Append(t, d)
<1>1. /\ t \in Seq(SUBSET (0..14)) /\ Begins(t, 2) /\ Len(t) = Step2[s]
      /\ t # <<>> /\ d \in SUBSET (0..14) /\ Len(t) \in 1..10
  <2>1. t \in Seq(SUBSET (0..14)) /\ Begins(t, 2) /\ Len(t) = Step2[s]
    BY DEF KeypadInv, TypedInv
  <2>2. Len(t) \in 1..10
    BY <2>1, Steps2
  <2> QED
    BY <2>1, <2>2, PressesAreKeys
<1>2. ~Begins(t, 1) /\ ~Opens(t) /\ ~Hopeless(t)
  <2>1. ~Begins(t, 1)
    BY <1>1, OneCode
  <2>2. Len(t) # Len(Codes[2])
    BY <1>1, CodeFacts
  <2> HIDE DEF t
  <2> QED
    BY <1>1, <2>1, <2>2, CodeFacts DEF Opens, Hopeless
<1>3. Key[s] \in KEY <=> Key[s] \in d
  BY PressesAreKeys, Steps2
<1>4. typed' = IF d = {} \/ (s = "TEST1_7" /\ Key[s] \notin KEY) THEN t ELSE u
  BY <1>1, <1>2, Steps2 DEF Remembered
<1>5. present_state' = IF Key[s] \in KEY THEN After[s]
                       ELSE IF Spoils(s, KEY) THEN "FINISH_FAIL"
                       ELSE IF 15 \in KEY THEN "PRINT_MESSAGE_FAIL" ELSE s
  BY NextInCode
<1>6. CASE Key[s] \in KEY
  <2>1. typed' = u /\ present_state' = After[s]
    BY <1>3, <1>4, <1>5, <1>6
  <2>2. u \in Seq(SUBSET (0..14)) /\ Begins(u, 2) /\ Len(u) = Len(t) + 1
    <3>1. Len(t) < Len(Codes[2]) /\ Codes[2][Len(t) + 1] \in d
      BY <1>1, <1>3, <1>6, CodeFacts, Steps2
    <3> HIDE DEF t, d
    <3> QED
      BY <1>1, <3>1, OneMore
  <2>3. CASE Len(t) = 10
    <3>1. present_state' = "FINISH_OK"
      BY <1>1, <2>1, <2>3, Steps2
    <3>2. Opens(u)
      BY <2>2, <2>3, CodeFacts DEF Opens
    <3>3. Opens(typed')
      BY <2>1, <3>2
    <3> QED
      BY <2>1, <2>2, <3>1, <3>3 DEF TypedInv, Opens, Ends, Prints, Step1, Step2
  <2>4. CASE Len(t) # 10
    <3>1. present_state' \in DOMAIN Step2 /\ Step2[present_state'] = Len(t) + 1
      BY <1>1, <2>1, <2>4, Steps2
    <3>2. /\ present_state' \notin Ends /\ present_state' # "TEST"
          /\ present_state' \notin DOMAIN Step1 /\ present_state' \notin Prints
      BY <3>1, Steps2
    <3>3. Begins(typed', 2) /\ Len(typed') = Step2[present_state']
          /\ typed' \in Seq(SUBSET (0..14))
      BY <2>1, <2>2, <3>1
    <3>4. /\ present_state' # "FINISH" /\ present_state' # "FINISH_OK"
          /\ present_state' # "FINISH_FAIL" /\ present_state' # "PRINT_MESSAGE_OK"
          /\ present_state' # "PRINT_MESSAGE_FAIL"
      BY <3>2 DEF Ends, Prints
    <3>5. TypedInv'
      BY <3>1, <3>2, <3>3, <3>4 DEF TypedInv
    <3> QED
      BY <3>2, <3>4, <3>5
  <2> QED
    BY <2>3, <2>4
<1>7. CASE Key[s] \notin KEY /\ Spoils(s, KEY)
  <2>1. present_state' = "FINISH_FAIL" /\ typed' = u
    BY <1>4, <1>5, <1>7 DEF Spoils
  <2>2. u \in Seq(SUBSET (0..14)) /\ Hopeless(u)
    <3>1. Codes[2][Len(t) + 1] \notin d
      BY <1>1, <1>3, <1>7, Steps2
    <3> HIDE DEF t, d
    <3> QED
      BY <1>1, <3>1, OneMore
  <2>3. Hopeless(typed')
    BY <2>1, <2>2
  <2> QED
    BY <2>1, <2>2, <2>3 DEF TypedInv, Hopeless, Ends, Prints, Step1, Step2
<1>8. CASE Key[s] \notin KEY /\ ~Spoils(s, KEY)
  <2>1. typed' = t /\ present_state' = IF 15 \in KEY THEN "PRINT_MESSAGE_FAIL" ELSE s
    BY <1>4, <1>5, <1>8 DEF Spoils
  <2>2. CASE 15 \in KEY
    <3>1. ~Opens(typed')
      BY <1>2, <2>1
    <3> QED
      BY <1>1, <2>1, <2>2, <3>1 DEF TypedInv, Opens, Ends, Prints, Step1, Step2
  <2>3. CASE 15 \notin KEY
    <3>1. UNCHANGED <<present_state, typed>>
      BY <2>1, <2>3
    <3>2. TypedInv'
      BY <3>1 DEF KeypadInv, TypedInv, Opens, Begins, Hopeless
    <3> QED
      BY <3>1, <3>2, Steps2 DEF Ends
  <2> QED
    BY <2>2, <2>3
<1> QED
  BY <1>6, <1>7, <1>8

\* A clock before a code.
LEMMA InTest ==
  ASSUME KeypadInv, NEW KEY \in Presses, NEW o, present_state = "TEST",
         present_state' = NextState(present_state, KEY, o),
         typed' = Remembered(typed, KEY)
  PROVE  TypedInv' /\ present_state' # "FINISH" /\ (present_state' \in Prints => 15 \in KEY)
<1> DEFINE d == Digits(KEY)
<1>1. /\ typed = <<>> /\ d \in SUBSET (0..14)
      /\ (8 \in KEY <=> 8 \in d) /\ (1 \in KEY <=> 1 \in d)
  BY PressesAreKeys DEF KeypadInv, TypedInv
<1>2. Begins(<<>>, 1) /\ ~Opens(<<>>) /\ ~Hopeless(<<>>)
  BY CodeFacts DEF Begins, Opens, Hopeless
<1>3. typed' = IF d = {} THEN <<>> ELSE <<d>>
  BY <1>1, <1>2 DEF Remembered
<1>4. present_state' = IF 8 \in d THEN "TEST1_1" ELSE IF 1 \in d THEN "TEST2_1"
                       ELSE IF d # {} THEN "FINISH_FAIL"
                       ELSE IF 15 \in KEY THEN "PRINT_MESSAGE_FAIL" ELSE "TEST"
  BY <1>1, NextInTest
<1>5. /\ <<d>> \in Seq(SUBSET (0..14)) /\ Len(<<d>>) = 1
      /\ Begins(<<d>>, 1) <=> 8 \in d
      /\ Begins(<<d>>, 2) <=> 1 \in d /\ 8 \notin d
      /\ Hopeless(<<d>>) <=> 8 \notin d /\ 1 \notin d
  <2>1. <<d>> \in Seq(SUBSET (0..14)) /\ Len(<<d>>) = 1
    BY <1>1
  <2>2. Begins(<<d>>, 1) <=> 8 \in d
    BY CodeFacts DEF Begins
  <2>3. Begins(<<d>>, 2) <=> 1 \in d /\ 8 \notin d
    BY CodeFacts DEF Begins
  <2> HIDE DEF d
  <2> QED
    BY <2>1, <2>2, <2>3, CodeFacts DEF Hopeless
<1>6. CASE 8 \in d
  <2>1. present_state' = "TEST1_1" /\ typed' = <<d>>
    BY <1>3, <1>4, <1>6
  <2>2. Begins(typed', 1) /\ typed' \in Seq(SUBSET (0..14)) /\ Len(typed') = 1
    BY <1>5, <1>6, <2>1
  <2> QED
    BY <2>1, <2>2 DEF TypedInv, Ends, Prints, Step1, Step2
<1>7. CASE 8 \notin d /\ 1 \in d
  <2>1. present_state' = "TEST2_1" /\ typed' = <<d>>
    BY <1>3, <1>4, <1>7
  <2>2. Begins(typed', 2) /\ typed' \in Seq(SUBSET (0..14)) /\ Len(typed') = 1
    BY <1>5, <1>7, <2>1
  <2> QED
    BY <2>1, <2>2 DEF TypedInv, Ends, Prints, Step1, Step2
<1>8. CASE 8 \notin d /\ 1 \notin d /\ d # {}
  BY <1>3, <1>4, <1>5, <1>8 DEF TypedInv, Hopeless, Ends, Prints, Step1, Step2
<1>9. CASE d = {}
  BY <1>2, <1>3, <1>4, <1>9 DEF TypedInv, Opens, Ends, Prints, Step1, Step2
<1> QED
  BY <1>6, <1>7, <1>8, <1>9

\* A clock behind a whole code, or behind a digit that was wrong.
LEMMA InFinish ==
  ASSUME KeypadInv, NEW KEY \in Presses, NEW o,
         present_state \in {"FINISH_OK", "FINISH_FAIL"},
         present_state' = NextState(present_state, KEY, o),
         typed' = Remembered(typed, KEY)
  PROVE  TypedInv' /\ present_state' # "FINISH" /\ (present_state' \in Prints => 15 \in KEY)
<1> DEFINE d == Digits(KEY)
<1>1. typed \in Seq(SUBSET (0..14)) /\ d \in SUBSET (0..14)
  BY PressesAreKeys DEF KeypadInv, TypedInv
<1>2. CASE present_state = "FINISH_FAIL"
  <2>1. Hopeless(typed) /\ ~Opens(typed) /\ typed' = typed
    BY <1>2, HopelessIsNotOpen DEF KeypadInv, TypedInv, Remembered
  <2>2. Hopeless(typed') /\ ~Opens(typed')
    BY <2>1
  <2>3. present_state' = IF 15 \in KEY THEN "PRINT_MESSAGE_FAIL" ELSE "FINISH_FAIL"
    BY <1>2, NextAtEnd
  <2> QED
    BY <1>1, <2>1, <2>2, <2>3 DEF TypedInv, Ends, Prints, Step1, Step2
<1>3. CASE present_state = "FINISH_OK"
  <2>1. PICK c \in {1, 2} : Begins(typed, c) /\ Len(typed) = Len(Codes[c])
    BY <1>3, CodeFacts DEF KeypadInv, TypedInv, Opens
  <2>2. Opens(typed) /\ ~Hopeless(typed) /\ Len(typed) # 7 /\ typed # <<>>
    <3>1. Len(typed) \in {9, 11}
      BY <2>1, CodeFacts
    <3>2. typed # <<>>
      BY <1>1, <3>1, EmptySeq
    <3>3. c \in DOMAIN Codes
      BY CodeFacts
    <3>4. Opens(typed) /\ ~Hopeless(typed)
      BY <2>1, <3>3, Zenon DEF Opens, Hopeless
    <3>5. Len(typed) # 7
      BY <3>1
    <3> QED
      BY <3>2, <3>4, <3>5, Zenon
  <2>3. typed' = IF d = {} \/ 15 \in KEY THEN typed ELSE Append(typed, d)
    BY <2>2 DEF Remembered
  <2>4. present_state' = IF 15 \in KEY THEN "PRINT_MESSAGE_OK"
                         ELSE IF d # {} THEN "FINISH_FAIL" ELSE "FINISH_OK"
    BY <1>3, NextAtEnd
  <2>5. CASE d = {} \/ 15 \in KEY
    <3>1. Opens(typed')
      BY <2>2, <2>3, <2>5
    <3> QED
      BY <1>1, <2>3, <2>4, <2>5, <3>1 DEF TypedInv, Ends, Prints, Step1, Step2
  <2>6. CASE d # {} /\ 15 \notin KEY
    <3>1. ~(Len(typed) < Len(Codes[c]))
      BY <2>1, CodeFacts
    <3>2. Append(typed, d) \in Seq(SUBSET (0..14)) /\ Hopeless(Append(typed, d))
      <4> HIDE DEF d
      <4> QED
        BY <1>1, <2>1, <2>2, <3>1, OneMore
    <3>3. Hopeless(typed') /\ typed' \in Seq(SUBSET (0..14))
      BY <2>3, <2>6, <3>2
    <3> QED
      BY <2>4, <2>6, <3>3 DEF TypedInv, Ends, Prints, Step1, Step2
  <2> QED
    BY <2>5, <2>6
<1> QED
  BY <1>2, <1>3

LEMMA KeypadInvInit ==
  ASSUME KeypadAssumption, KeypadInit
  PROVE  KeypadInv
BY DEF KeypadInit, KeypadInv, TypedInv, DisplayInv, KeypadOpens, Ends, Prints, Step1, Step2

LEMMA KeypadInvNext ==
  ASSUME KeypadAssumption, KeypadInv, [KeypadNext]_keypadVars
  PROVE  KeypadInv'
<1>1. ASSUME NEW KEY \in Presses,
             present_state' = NextState(present_state, KEY, CNT = MessageLength - 1),
             display' = LET w == Written(present_state, KEY)
                        IN IF Len(w) > DisplaySize THEN display ELSE w,
             CNT' = IF present_state \in Prints THEN (CNT + 1) % MessageLength
                        ELSE CNT,
             typed' = CASE present_state \in Prints -> typed
                        [] present_state = "FINISH" -> IF 15 \in KEY THEN <<>> ELSE typed
                        [] OTHER -> Remembered(typed, KEY)
      PROVE  KeypadInv'
  <2>1. "FINISH" \notin Prints
    BY DEF Prints
  <2>2. /\ present_state \in Prints => typed' = typed
        /\ present_state = "FINISH" => typed' = IF 15 \in KEY THEN <<>> ELSE typed
        /\ present_state \notin Prints \cup {"FINISH"} => typed' = Remembered(typed, KEY)
    BY <1>1, <2>1, Zenon
  <2>3. CASE present_state \in Prints
    <3>1. present_state' = IF CNT = MessageLength - 1 THEN "FINISH" ELSE present_state
      <4>1. NextState(present_state, KEY, CNT = MessageLength - 1) =
              IF CNT = MessageLength - 1 THEN "FINISH" ELSE present_state
        BY <2>3, NextInPrint, Zenon
      <4> QED
        BY <1>1, <4>1, Zenon
    <3> QED
      BY <1>1, <2>2, <2>3, <3>1, Counting
  <2>4. CASE present_state = "FINISH"
    <3>1. present_state' = IF 15 \in KEY THEN "TEST" ELSE "FINISH"
      BY <1>1, <2>4, NextAtEnd
    <3>2. TypedInv'
      <4>1. typed' \in Seq(SUBSET (0..14)) /\ (15 \in KEY => typed' = <<>>)
        <5>1. typed \in Seq(SUBSET (0..14)) /\ <<>> \in Seq(SUBSET (0..14))
          BY DEF KeypadInv, TypedInv
        <5> QED
          BY <2>2, <2>4, <5>1, Zenon
      <4> QED
        BY <3>1, <4>1 DEF TypedInv, Ends, Prints, Step1, Step2
    <3>3. DisplayInv'
      BY <1>1, <2>1, <2>2, <2>4, <3>1, Quiet DEF Prints
    <3> QED
      BY <3>2, <3>3 DEF KeypadInv
  <2>5. CASE present_state \notin Prints \cup {"FINISH"}
    <3>1. TypedInv' /\ present_state' # "FINISH"
          /\ (present_state' \in Prints => 15 \in KEY)
      <4>1. \/ present_state \in DOMAIN Step1 \/ present_state \in DOMAIN Step2
            \/ present_state = "TEST" \/ present_state \in {"FINISH_OK", "FINISH_FAIL"}
        BY <2>5 DEF KeypadInv, TypedInv, Ends
      <4> QED
        BY <1>1, <2>2, <2>5, <4>1, InCode1, InCode2, InTest, InFinish
    <3>2. DisplayInv'
      BY <1>1, <2>5, <3>1, Quiet
    <3> QED
      BY <3>1, <3>2 DEF KeypadInv
  <2> QED
    BY <2>3, <2>4, <2>5
<1>2. CASE Reset
  BY <1>2 DEF Reset, KeypadInv, TypedInv, DisplayInv, KeypadOpens, Ends, Prints, Step1,
              Step2
<1>3. CASE UNCHANGED keypadVars
  BY <1>3 DEF keypadVars, KeypadInv, TypedInv, DisplayInv, KeypadOpens, Opens, Begins,
              Hopeless
<1> QED
  BY <1>1, <1>2, <1>3 DEF KeypadNext, Clock

-----------------------------------------------------------------------------
\* fsm.vhd: for every length of a message, and after any resets, the display of the state
\* FINISH shows the good message exactly for a code, and all of it.
THEOREM KeypadCorrect ==
  ASSUME KeypadAssumption
  PROVE  KeypadSpec => []KeypadOpens
<1>1. KeypadInit => KeypadInv
  BY KeypadInvInit
<1>2. KeypadInv /\ [KeypadNext]_keypadVars => KeypadInv'
  BY KeypadInvNext
<1>3. KeypadInv => KeypadOpens
  BY DEF KeypadInv, DisplayInv
<1> QED
  BY <1>1, <1>2, <1>3, PTL DEF KeypadSpec

-----------------------------------------------------------------------------
(* The processor.  A clock is one of four kinds: the state rests or asks   *)
(* the memory; it ends an instruction; it begins to look for the begin of  *)
(* a loop; it looks on.                                                    *)

Instructions == {">", "<", "+", "-", "[", "]", ".", ","}

\* A cell holds every byte that a program consists of; the instructions have bytes of their
\* own, and none is zero, which ends a program.
CpuAssumption ==
  /\ Addresses \in Nat \ {0} /\ DataStart \in 1..Addresses - 1
  /\ Bytes \in Nat /\ Bytes > 120
  /\ Code \in [Instructions -> 1..Bytes - 1]
  /\ \A i, j \in Instructions : Code[i] = Code[j] => i = j
  /\ Typed \subseteq 0..Bytes - 1

CpuSpec == CpuInit /\ [][CpuNext]_cpuVars

-----------------------------------------------------------------------------
(* The inductive invariant, while EN has not fallen in a state that counts and no error on *)
(* record has been met.                                                    *)

\* The instruction that the processor stands on, and the nearest "[".
Here(i) == mem[pc_reg] = Code[i]
Nearest(b, a) == mem[b] = Code["["] /\ \A m \in b + 1..a : mem[m] # Code["["]

CpuStates == {"off", "sidle", "sfetch", "sdecode", "sIncPtr", "sDecPtr", "sIncValue1",
              "sIncValue2", "sDecValue1", "sDecValue2", "sPutChar1", "sPutChar2",
              "sGetChar1", "sGetChar2", "sWhileB1", "sWhileE1", "sWhileE2", "sWhileE3",
              "sWhileE4", "sNop", "shalt"}

CpuTypes ==
  /\ presentState \in CpuStates
  /\ pc_reg \in 0..Addresses - 1 /\ ptr_reg \in DataStart..Addresses - 1
  /\ mem \in [0..Addresses - 1 -> 0..Bytes - 1] /\ DATA_RDATA \in 0..Bytes - 1
  /\ DATA_RDWR \in {0, 1} /\ paused = FALSE /\ beyond = FALSE

\* A state carries out the instruction that is there.
Understood ==
  /\ presentState = "sIncPtr" => Here(">")
  /\ presentState = "sDecPtr" => Here("<")
  /\ presentState \in {"sIncValue1", "sIncValue2"} => Here("+")
  /\ presentState \in {"sDecValue1", "sDecValue2"} => Here("-")
  /\ presentState = "sWhileB1" => Here("[")
  /\ presentState \in {"sWhileE1", "sWhileE2"} => Here("]")
  /\ presentState \in {"sPutChar1", "sPutChar2"} => Here(".")
  /\ presentState \in {"sGetChar1", "sGetChar2"} => Here(",")
  /\ presentState = "sNop" => \A i \in Instructions : ~Here(i)

\* What the memory has answered is what the state takes it for.
Answered ==
  /\ presentState \in {"sdecode", "sWhileB1", "sWhileE4"} => DATA_RDATA = mem[pc_reg]
  /\ presentState \in {"sIncValue2", "sDecValue2", "sPutChar2", "sWhileE2"} =>
       DATA_RDATA = mem[ptr_reg]

\* While a loop's begin is looked for nothing is written, although those states do not set
\* DATA_RDWR, and there is one below.
LooksBack ==
  /\ presentState \in {"sWhileE2", "sWhileE3", "sWhileE4"} => DATA_RDWR = 0
  /\ presentState \in {"sWhileE3", "sWhileE4"} => \E b \in 0..pc_reg : Nearest(b, pc_reg)

CpuInv == ~paused /\ ~beyond => CpuTypes /\ Understood /\ Answered /\ LooksBack

-----------------------------------------------------------------------------
(* What an edge does.  The signals IN_VLD and OUT_BUSY are v and b here.   *)

LEMMA BytesOfInstructions ==
  ASSUME CpuAssumption
  PROVE  /\ DOMAIN Code = Instructions
         /\ \A i \in Instructions : Code[i] \in Nat /\ Code[i] # 0
         /\ Code["["] # 0
<1>1. /\ DOMAIN Code = Instructions
      /\ \A i \in Instructions : Code[i] \in 1..Bytes - 1
  BY DEF CpuAssumption
<1>2. \A i \in Instructions : Code[i] \in Nat /\ Code[i] # 0
  BY <1>1 DEF CpuAssumption
<1>3. "[" \in Instructions
  BY DEF Instructions
<1> QED
  BY <1>1, <1>2, <1>3

LEMMA Table ==
  /\ DOMAIN Simple = {"sidle", "sfetch", "sIncPtr", "sDecPtr", "sIncValue1", "sIncValue2",
                      "sDecValue1", "sDecValue2", "sGetChar1", "sPutChar1", "sWhileB2",
                      "sWhileE1", "sWhileE3", "sNop", "shalt"}
  /\ Simple["sidle"] = "sfetch" /\ Simple["sfetch"] = "sdecode" /\ Simple["sIncPtr"] = "sfetch"
  /\ Simple["sDecPtr"] = "sfetch" /\ Simple["sIncValue1"] = "sIncValue2"
  /\ Simple["sIncValue2"] = "sfetch" /\ Simple["sDecValue1"] = "sDecValue2"
  /\ Simple["sDecValue2"] = "sfetch" /\ Simple["sGetChar1"] = "sGetChar2"
  /\ Simple["sPutChar1"] = "sPutChar2" /\ Simple["sWhileE1"] = "sWhileE2"
  /\ Simple["sWhileE3"] = "sWhileE4" /\ Simple["sNop"] = "sidle" /\ Simple["shalt"] = "shalt"
BY DEF Simple

LEMMA Follows ==
  ASSUME NEW v \in BOOLEAN, NEW b \in BOOLEAN
  PROVE  /\ \A s \in DOMAIN Simple : nextState(s, v, b) = Simple[s]
         /\ nextState("sdecode", v, b) = Decode
         /\ nextState("sGetChar2", v, b) = IF v THEN "sfetch" ELSE "sGetChar2"
         /\ nextState("sPutChar2", v, b) = IF b THEN "sPutChar2" ELSE "sfetch"
         /\ nextState("sWhileB1", v, b) = IF DATA_RDATA = 0 THEN "sWhileB2" ELSE "sfetch"
         /\ nextState("sWhileE2", v, b) = IF DATA_RDATA = 0 THEN "sfetch" ELSE "sWhileE3"
         /\ nextState("sWhileE4", v, b) = IF Is("[") THEN "sfetch" ELSE "sWhileE3"
BY Table DEF nextState

\* An edge with the signals' conditions apart.
Effects(EN, v, b, d) ==
  LET s == presentState
  IN   /\ EN => presentState' = nextState(s, v, b)
       /\ ~EN => presentState' = s /\ ~pc_inc(s, v, b) /\ ~pc_dec(s)
       /\ pc_dec(s) => pc_reg' = (pc_reg - 1) % Addresses
       /\ ~pc_dec(s) /\ pc_inc(s, v, b) => pc_reg' = (pc_reg + 1) % Addresses
       /\ ~pc_dec(s) /\ ~pc_inc(s, v, b) => pc_reg' = pc_reg
       /\ s = "sIncPtr" => ptr_reg' = (ptr_reg + 1) % Addresses
       /\ s = "sDecPtr" => ptr_reg' = (ptr_reg - 1) % Addresses
       /\ s \notin {"sIncPtr", "sDecPtr"} => ptr_reg' = ptr_reg
       /\ DATA_RDWR' = RdWr(s, v)
       /\ DATA_EN(s, v) /\ RdWr(s, v) = 1 =>
            mem' = [mem EXCEPT ![DATA_ADDR(s)] = DATA_WDATA(s, d)] /\ DATA_RDATA' = DATA_RDATA
       /\ DATA_EN(s, v) /\ RdWr(s, v) = 0 => mem' = mem /\ DATA_RDATA' = mem[DATA_ADDR(s)]
       /\ ~DATA_EN(s, v) => mem' = mem /\ DATA_RDATA' = DATA_RDATA
       /\ s = "sPutChar2" /\ ~b => output' = Append(output, DATA_RDATA)
       /\ s # "sPutChar2" \/ b => output' = output
       /\ ~LoopError(s) /\ ptr_reg' \in DataStart..Addresses - 1

LEMMA EdgeFacts ==
  ASSUME CpuAssumption, CpuTypes, NEW EN \in BOOLEAN, NEW v \in BOOLEAN,
         NEW b \in BOOLEAN, NEW d \in Typed, Edge(EN, v, b, d), paused' = FALSE, beyond' = FALSE
  PROVE  Effects(EN, v, b, d)
<1>1. ~EN => ~pc_inc(presentState, v, b) /\ ~pc_dec(presentState)
  BY Zenon DEF Edge
<1>2. /\ presentState' = IF EN THEN nextState(presentState, v, b) ELSE presentState
      /\ DATA_RDWR' = RdWr(presentState, v)
      /\ mem' = IF DATA_EN(presentState, v) /\ DATA_RDWR' = 1
                 THEN [mem EXCEPT ![DATA_ADDR(presentState)] = DATA_WDATA(presentState, d)] ELSE mem
      /\ DATA_RDATA' = IF DATA_EN(presentState, v) /\ DATA_RDWR' = 0
                       THEN mem[DATA_ADDR(presentState)] ELSE DATA_RDATA
      /\ output' = IF presentState = "sPutChar2" /\ ~b THEN Append(output, DATA_RDATA)
                                                  ELSE output
  BY Zenon DEF Edge
<1>3. /\ pc_reg' = (pc_reg + CASE pc_dec(presentState) -> -1 [] pc_inc(presentState, v, b) -> 1
                              [] OTHER -> 0) % Addresses
      /\ ptr_reg' = (ptr_reg + CASE presentState = "sIncPtr" -> 1 [] presentState = "sDecPtr" -> -1
                                [] OTHER -> 0) % Addresses
  BY DEF Edge
<1>4. /\ \A a \in 0..Addresses - 1 : a % Addresses = a
      /\ pc_reg \in 0..Addresses - 1 /\ ptr_reg \in 0..Addresses - 1
  BY DEF CpuAssumption, CpuTypes
<1>9. \A s : ~(pc_dec(s) /\ pc_inc(s, v, b))
  BY DEF pc_dec, pc_inc
<1>5. /\ pc_dec(presentState) => pc_reg' = (pc_reg - 1) % Addresses
      /\ ~pc_dec(presentState) /\ pc_inc(presentState, v, b) => pc_reg' = (pc_reg + 1) % Addresses
      /\ ~pc_dec(presentState) /\ ~pc_inc(presentState, v, b) => pc_reg' = pc_reg
  BY <1>3, <1>4, <1>9 DEF CpuTypes
<1>6. /\ presentState = "sIncPtr" => ptr_reg' = (ptr_reg + 1) % Addresses
      /\ presentState = "sDecPtr" => ptr_reg' = (ptr_reg - 1) % Addresses
      /\ presentState \notin {"sIncPtr", "sDecPtr"} => ptr_reg' = ptr_reg
  BY <1>3, <1>4 DEF CpuTypes
<1>7. RdWr(presentState, v) \in {0, 1}
  BY DEF RdWr, CpuTypes
<1>8. ~LoopError(presentState) /\ ptr_reg' \in DataStart..Addresses - 1
  BY Zenon DEF Edge
<1> QED
  BY <1>1, <1>2, <1>5, <1>6, <1>7, <1>8 DEF Effects

-----------------------------------------------------------------------------
LEMMA TypesKept ==
  ASSUME CpuAssumption, CpuTypes, NEW EN \in BOOLEAN, NEW v \in BOOLEAN,
         NEW b \in BOOLEAN, NEW d \in Typed, Edge(EN, v, b, d), paused' = FALSE, beyond' = FALSE,
         presentState' \in CpuStates
  PROVE  CpuTypes'
<1>0. Effects(EN, v, b, d)
  BY EdgeFacts
<1>1. \A a \in Int : a % Addresses \in 0..Addresses - 1 /\ a % Bytes \in 0..Bytes - 1
  BY DEF CpuAssumption
<1>2. pc_reg' \in 0..Addresses - 1 /\ ptr_reg' \in DataStart..Addresses - 1
  <2>1. \A a \in 0..Addresses - 1 : /\ (a + 1) % Addresses \in 0..Addresses - 1
                                    /\ (a - 1) % Addresses \in 0..Addresses - 1
    <3>1. \A a \in 0..Addresses - 1 : a + 1 \in Int /\ a - 1 \in Int
      BY DEF CpuAssumption
    <3> QED
      BY <1>1, <3>1
  <2>2. pc_reg' \in {pc_reg, (pc_reg + 1) % Addresses, (pc_reg - 1) % Addresses}
    BY <1>0 DEF Effects
  <2>3. ptr_reg' \in DataStart..Addresses - 1
    BY <1>0 DEF Effects
  <2> QED
    BY <2>1, <2>2, <2>3 DEF CpuTypes
<1>3. DATA_ADDR(presentState) \in 0..Addresses - 1 /\ DATA_WDATA(presentState, d) \in 0..Bytes - 1
  <2>1. \A a \in 0..Bytes - 1 : /\ (a + 1) % Bytes \in 0..Bytes - 1
                                /\ (a - 1) % Bytes \in 0..Bytes - 1
    <3>1. \A a \in 0..Bytes - 1 : a + 1 \in Int /\ a - 1 \in Int
      BY DEF CpuAssumption
    <3> QED
      BY <1>1, <3>1
  <2>2. d \in 0..Bytes - 1
    BY DEF CpuAssumption
  <2>3. DATA_WDATA(presentState, d) \in {(DATA_RDATA + 1) % Bytes, (DATA_RDATA - 1) % Bytes, d}
    BY DEF DATA_WDATA
  <2>4. DATA_ADDR(presentState) \in {pc_reg, ptr_reg}
    BY DEF DATA_ADDR
  <2>5. ptr_reg \in 0..Addresses - 1
    BY DEF CpuTypes, CpuAssumption
  <2> QED
    BY <2>1, <2>2, <2>3, <2>4, <2>5 DEF CpuTypes
<1>4. RdWr(presentState, v) \in {0, 1}
  BY DEF RdWr, CpuTypes
<1>5. DATA_RDWR' \in {0, 1}
  BY <1>0, <1>4 DEF Effects
<1>6. mem' \in [0..Addresses - 1 -> 0..Bytes - 1] /\ DATA_RDATA' \in 0..Bytes - 1
  <2>1. CASE DATA_EN(presentState, v) /\ RdWr(presentState, v) = 1
    BY <1>0, <1>3, <2>1 DEF Effects, CpuTypes
  <2>2. CASE DATA_EN(presentState, v) /\ RdWr(presentState, v) = 0
    BY <1>0, <1>3, <2>2 DEF Effects, CpuTypes
  <2>3. CASE ~DATA_EN(presentState, v)
    BY <1>0, <2>3 DEF Effects, CpuTypes
  <2> QED
    BY <1>4, <2>1, <2>2, <2>3
<1>7. beyond' = FALSE /\ paused' = FALSE
  OBVIOUS
<1> QED
  BY <1>2, <1>5, <1>6, <1>7 DEF CpuTypes

\* Before an instruction is decoded nothing is asked of the other variables.
LEMMA Fresh ==
  ASSUME presentState' \in {"sidle", "sfetch"}
  PROVE  Understood' /\ Answered' /\ LooksBack'
BY DEF Understood, Answered, LooksBack

\* The decoder finds the one instruction with that byte.
LEMMA Decoding ==
  ASSUME CpuAssumption, CpuTypes, DATA_RDATA = mem[pc_reg], presentState' = Decode,
         UNCHANGED <<pc_reg, mem, DATA_RDATA>>
  PROVE  /\ presentState' \in CpuStates \ {"sWhileE3", "sWhileE4"} /\ Understood' /\ Answered' /\ LooksBack'
<1>1. CASE DATA_RDATA = 0
  <2>1. presentState' = "shalt"
    BY <1>1 DEF Decode
  <2> QED
    BY <2>1 DEF CpuStates, Understood, Answered, LooksBack
<1>2. CASE DATA_RDATA # 0 /\ ~\E i \in DOMAIN Code : Is(i)
  <2>1. presentState' = "sNop"
    BY <1>2 DEF Decode
  <2>2. \A i \in Instructions : ~Here(i)'
    BY <1>2 DEF Is, Here, CpuAssumption
  <2> QED
    BY <2>1, <2>2 DEF CpuStates, Understood, Answered, LooksBack
<1>3. CASE DATA_RDATA # 0 /\ \E i \in DOMAIN Code : Is(i)
  <2>1. PICK i \in Instructions : Is(i)
    BY <1>3 DEF CpuAssumption
  <2>2. (CHOOSE j \in DOMAIN Code : Is(j)) = i
    BY <2>1 DEF Is, CpuAssumption
  <2>3. presentState' = Decoded[i]
    BY <1>3, <2>2 DEF Decode
  <2>4. Here(i)'
    BY <2>1 DEF Is, Here
  <2>5. DATA_RDATA' = mem'[pc_reg']
    OBVIOUS
  <2>6. Decoded[i] = CASE i = ">" -> "sIncPtr"    [] i = "<" -> "sDecPtr"    [] i = "+" -> "sIncValue1"
    [] i = "-" -> "sDecValue1" [] i = "[" -> "sWhileB1"   [] i = "]" -> "sWhileE1"
    [] i = "." -> "sPutChar1"  [] i = "," -> "sGetChar1"
    BY DEF Decoded, CpuAssumption
  <2> QED
    BY <2>3, <2>4, <2>5, <2>6 DEF Instructions, CpuStates, Understood, Answered, LooksBack
<1> QED
  BY <1>1, <1>2, <1>3

\* The states that only count.
Walks == {"sIncPtr", "sDecPtr", "sIncValue2", "sDecValue2", "sWhileB1", "sNop"}

LEMMA Advances ==
  ASSUME CpuAssumption, CpuTypes, Understood, Answered, LooksBack,
         NEW EN \in BOOLEAN, NEW v \in BOOLEAN,
         NEW b \in BOOLEAN, NEW d \in Typed, Edge(EN, v, b, d), paused' = FALSE, beyond' = FALSE,
         \/ presentState \in Walks
         \/ presentState = "sGetChar2" /\ v
         \/ presentState = "sPutChar2" /\ ~b
         \/ presentState = "sWhileE2" /\ DATA_RDATA = 0
  PROVE  /\ EN /\ presentState' \in {"sidle", "sfetch"}
         /\ pc_reg' = (pc_reg + 1) % Addresses /\ Reached = pc_reg /\ Reached' = pc_reg'
         /\ presentState \notin {"sIncValue2", "sDecValue2", "sGetChar2"} => mem' = mem
         /\ presentState \in {"sIncValue2", "sDecValue2", "sGetChar2"} =>
              mem' = [mem EXCEPT ![ptr_reg] = DATA_WDATA(presentState, d)]
<1>0. Effects(EN, v, b, d)
  BY EdgeFacts
<1>1. pc_inc(presentState, v, b) /\ ~pc_dec(presentState)
  BY DEF pc_inc, pc_dec, Walks
<1>2. EN /\ pc_reg' = (pc_reg + 1) % Addresses /\ presentState' = nextState(presentState, v, b)
  BY <1>0, <1>1 DEF Effects
<1>3. DATA_RDATA # 0 \/ presentState # "sWhileB1"
  <2>1. Code["["] # 0
    BY BytesOfInstructions
  <2> QED
    BY <2>1 DEF Understood, Answered, Here
<1>4. nextState(presentState, v, b) \in {"sidle", "sfetch"}
  BY <1>3, Table, Follows DEF Walks
<1>5. Reached = pc_reg /\ Reached' = pc_reg'
  BY <1>2, <1>4 DEF Reached, Walks
<1>6. CASE presentState \notin {"sIncValue2", "sDecValue2", "sGetChar2"}
  <2>1. ~Stores(presentState, v) /\ (~DATA_EN(presentState, v) \/ RdWr(presentState, v) = 0)
    BY <1>6 DEF Stores, Reads, DATA_EN, RdWr, Walks
  <2> QED
    BY <1>0, <1>2, <1>4, <1>5, <1>6, <2>1 DEF Effects
<1>7. CASE presentState \in {"sIncValue2", "sDecValue2", "sGetChar2"}
  <2>1. DATA_EN(presentState, v) /\ RdWr(presentState, v) = 1 /\ DATA_ADDR(presentState) = ptr_reg
    BY <1>7 DEF Stores, Reads, DATA_EN, RdWr, Walks, DATA_ADDR
  <2> QED
    BY <1>0, <1>2, <1>4, <1>5, <1>7, <2>1 DEF Effects
<1> QED
  BY <1>6, <1>7

-----------------------------------------------------------------------------
(* The nearest "[".                                                        *)

LEMMA Least ==
  ASSUME NEW T \in SUBSET Nat, T # {}
  PROVE  \E n \in T : \A m \in T : n <= m
<1> DEFINE R == OpToRel(<, Nat)
<1>1. IsWellFoundedOn(R, Nat)
  BY NatLessThanWellFounded
<1>2. \A n, m \in Nat : <<m, n>> \in R <=> m < n
  BY DEF OpToRel
<1> HIDE DEF R
<1>3. PICK n \in T : \A m \in T : ~ (<<m, n>> \in R)
  BY <1>1, WFMin
<1>4. ASSUME NEW m \in T PROVE n <= m
  <2>1. n \in Nat /\ m \in Nat
    OBVIOUS
  <2>2. ~(m < n)
    BY <1>2, <1>3, <2>1, Zenon
  <2> QED
    BY <2>1, <2>2
<1> QED
  BY <1>4

\* If there is a "[" below, there is a nearest one: that with the least distance.
LEMMA NearestExists ==
  ASSUME NEW a \in Nat, NEW c \in 0..a, mem[c] = Code["["]
  PROVE  \E b \in 0..a : Nearest(b, a)
<1> DEFINE T == {n \in 0..a : mem[a - n] = Code["["]}
<1>1. T \in SUBSET Nat
  OBVIOUS
<1>2. a - c \in 0..a /\ a - (a - c) = c
  OBVIOUS
<1>3. a - c \in T
  BY <1>2
<1>4. PICK n \in T : \A m \in T : n <= m
  <2> HIDE DEF T
  <2> QED
    BY <1>1, <1>3, Least
<1>5. a - n \in 0..a /\ mem[a - n] = Code["["]
  BY <1>4
<1>6. ASSUME NEW m \in (a - n) + 1..a, mem[m] = Code["["] PROVE FALSE
  <2>1. a - m \in 0..a /\ a - (a - m) = m /\ a - m < n
    OBVIOUS
  <2>2. a - m \in T
    BY <1>6, <2>1
  <2>3. n <= a - m
    <3> HIDE DEF T
    <3> QED
      BY <1>4, <2>2
  <2>4. n \in Int /\ a - m \in Int
    BY <1>4, <2>1 DEF T
  <2> QED
    BY <2>1, <2>3, <2>4
<1>7. Nearest(a - n, a)
  BY <1>5, <1>6 DEF Nearest
<1> QED
  BY <1>5, <1>7

LEMMA NearestIsOne ==
  ASSUME NEW a \in Nat, NEW b \in 0..a, Nearest(b, a)
  PROVE  (CHOOSE c \in 0..a : Nearest(c, a)) = b
<1>1. ASSUME NEW c \in 0..a, Nearest(c, a) PROVE c = b
  <2>1. ~(c < b)
    BY <1>1 DEF Nearest
  <2>2. ~(b < c)
    BY <1>1 DEF Nearest
  <2> QED
    BY <2>1, <2>2
<1> QED
  BY <1>1

\* Where the search ends, the address reached is that of the "[".
LEMMA ReachedHere ==
  ASSUME CpuAssumption, CpuTypes, mem[pc_reg] = Code["["]
  PROVE  Reached = pc_reg
<1>1. pc_reg \in Nat /\ pc_reg \in 0..pc_reg
  BY DEF CpuTypes, CpuAssumption
<1>2. Nearest(pc_reg, pc_reg)
  BY <1>1 DEF Nearest
<1>3. (CHOOSE c \in 0..pc_reg : Nearest(c, pc_reg)) = pc_reg
  BY <1>1, <1>2, NearestIsOne
<1> QED
  BY <1>3 DEF Reached, Nearest

-----------------------------------------------------------------------------
(* The four kinds of clocks.                                               *)

\* A clock of a processor that has not been paused, and is not now.
TickAssumption(EN, v, b, d) ==
  /\ CpuAssumption /\ CpuTypes /\ Understood /\ Answered /\ LooksBack
  /\ EN \in BOOLEAN /\ v \in BOOLEAN /\ b \in BOOLEAN /\ d \in Typed
  /\ Edge(EN, v, b, d) /\ paused' = FALSE /\ beyond' = FALSE

Asks == {"sIncValue1", "sDecValue1", "sPutChar1", "sWhileE1"}
Rests == {"sidle", "sdecode", "sGetChar1", "shalt"}

\* Clocks that the program does not see.
LEMMA QuietTicks ==
  ASSUME NEW EN, NEW v, NEW b, NEW d, TickAssumption(EN, v, b, d),
         \/ presentState \in Asks \cup Rests \cup {"sfetch", "sWhileE3"}
         \/ presentState = "sGetChar2" /\ ~v
         \/ presentState = "sPutChar2" /\ b
         \/ presentState = "sWhileE4" /\ Is("[")
  PROVE  /\ UNCHANGED <<pc_reg, ptr_reg, mem, output>>
         /\ presentState' = presentState \/ presentState' = nextState(presentState, v, b)
         /\ presentState \in {"sfetch", "sWhileE3"} => DATA_RDATA' = mem[pc_reg]
         /\ presentState \in Asks => DATA_RDATA' = mem[ptr_reg] /\ DATA_RDWR' = 0
         /\ presentState \notin Asks \cup {"sfetch"} => DATA_RDWR' = DATA_RDWR
         /\ presentState \notin Asks \cup {"sfetch", "sWhileE3"} => DATA_RDATA' = DATA_RDATA
<1>0. Effects(EN, v, b, d)
  BY EdgeFacts DEF TickAssumption
<1>1. ~pc_inc(presentState, v, b) /\ ~pc_dec(presentState)
  BY DEF pc_inc, pc_dec, Asks, Rests
<1>2. /\ UNCHANGED <<pc_reg, ptr_reg, output>>
      /\ presentState' = presentState \/ presentState' = nextState(presentState, v, b)
  BY <1>0, <1>1 DEF Effects, Asks, Rests, TickAssumption
<1>3. CASE presentState \in Asks \cup {"sfetch"}
  <2>1. DATA_EN(presentState, v) /\ RdWr(presentState, v) = 0
    BY <1>3 DEF DATA_EN, RdWr, Reads, Asks
  <2>2. DATA_ADDR(presentState) = IF presentState = "sfetch" THEN pc_reg ELSE ptr_reg
    BY <1>3 DEF DATA_ADDR, Asks
  <2>3. mem' = mem /\ DATA_RDATA' = mem[DATA_ADDR(presentState)] /\ DATA_RDWR' = 0
    BY <1>0, <2>1 DEF Effects
  <2> QED
    BY <1>2, <1>3, <2>2, <2>3 DEF Asks
<1>4. CASE presentState = "sWhileE3"
  <2>1. DATA_EN(presentState, v) /\ RdWr(presentState, v) = DATA_RDWR /\ DATA_RDWR = 0
    BY <1>4 DEF DATA_EN, RdWr, Reads, Stores, TickAssumption, LooksBack
  <2>2. DATA_ADDR(presentState) = pc_reg
    BY <1>4 DEF DATA_ADDR
  <2>3. mem' = mem /\ DATA_RDATA' = mem[DATA_ADDR(presentState)] /\ DATA_RDWR' = DATA_RDWR
    BY <1>0, <2>1 DEF Effects
  <2> QED
    BY <1>2, <1>4, <2>2, <2>3 DEF Asks
<1>5. CASE presentState \notin Asks \cup {"sfetch", "sWhileE3"}
  <2>1. ~DATA_EN(presentState, v) /\ RdWr(presentState, v) = DATA_RDWR
    BY <1>5 DEF DATA_EN, RdWr, Reads, Stores, Asks, Rests
  <2>2. UNCHANGED <<mem, DATA_RDATA, DATA_RDWR>>
    BY <1>0, <2>1 DEF Effects
  <2> QED
    BY <1>2, <1>5, <2>2
<1> QED
  BY <1>3, <1>4, <1>5

LEMMA QuietKeeps ==
  ASSUME NEW EN, NEW v, NEW b, NEW d, TickAssumption(EN, v, b, d),
         \/ presentState \in Asks \cup Rests \cup {"sfetch", "sWhileE3"}
         \/ presentState = "sGetChar2" /\ ~v
         \/ presentState = "sPutChar2" /\ b
         \/ presentState = "sWhileE4" /\ Is("[")
  PROVE  /\ presentState' \in CpuStates /\ Understood' /\ Answered' /\ LooksBack'
         /\ UNCHANGED <<Reached, ptr_reg, mem, output>>
<1>1. /\ UNCHANGED <<pc_reg, ptr_reg, mem, output>>
      /\ presentState' = presentState \/ presentState' = nextState(presentState, v, b)
      /\ presentState \in {"sfetch", "sWhileE3"} => DATA_RDATA' = mem[pc_reg]
      /\ presentState \in Asks => DATA_RDATA' = mem[ptr_reg] /\ DATA_RDWR' = 0
      /\ presentState \notin Asks \cup {"sfetch"} => DATA_RDWR' = DATA_RDWR
      /\ presentState \notin Asks \cup {"sfetch", "sWhileE3"} => DATA_RDATA' = DATA_RDATA
  BY QuietTicks
<1>2. presentState \in CpuStates /\ Understood /\ Answered /\ LooksBack
  BY DEF TickAssumption, CpuTypes
<1>3. CASE presentState \in {"sidle", "sGetChar2", "sPutChar2"}
  <2>1. presentState' \in {presentState, "sfetch"}
    BY <1>1, <1>3, Table, Follows DEF TickAssumption
  <2>2. UNCHANGED <<DATA_RDATA, DATA_RDWR>>
    BY <1>1, <1>3 DEF Asks
  <2>3. Understood' /\ Answered' /\ LooksBack'
    BY <1>1, <1>2, <1>3, <2>1, <2>2 DEF Understood, Answered, LooksBack, Here
  <2>4. Reached' = Reached
    BY <1>1, <1>3, <2>1 DEF Reached
  <2> QED
    BY <1>1, <1>2, <2>1, <2>3, <2>4 DEF CpuStates
<1>4. CASE presentState = "sfetch"
  <2>1. presentState' \in {"sfetch", "sdecode"} /\ DATA_RDATA' = mem'[pc_reg']
    BY <1>1, <1>4, Table, Follows DEF TickAssumption
  <2>3. Understood' /\ Answered' /\ LooksBack'
    BY <2>1 DEF Understood, Answered, LooksBack, Here
  <2>4. Reached' = Reached
    BY <1>1, <1>4, <2>1 DEF Reached
  <2> QED
    BY <1>1, <2>1, <2>3, <2>4 DEF CpuStates
<1>5. CASE presentState = "sdecode"
  <2>1. presentState' = presentState \/ presentState' = Decode
    BY <1>1, <1>5, Follows DEF TickAssumption
  <2>2. UNCHANGED <<DATA_RDATA, pc_reg, mem>> /\ DATA_RDATA = mem[pc_reg]
    BY <1>1, <1>2, <1>5 DEF Asks, Answered
  <2>3. /\ presentState' \in CpuStates /\ presentState' \notin {"sWhileE3", "sWhileE4"}
        /\ Understood' /\ Answered' /\ LooksBack'
    <3>1. CASE presentState' = presentState
      BY <1>1, <1>2, <1>5, <2>2, <3>1 DEF Understood, Answered, LooksBack, CpuStates
    <3>2. CASE presentState' = Decode
      BY <2>2, <3>2, Decoding DEF TickAssumption
    <3> QED
      BY <2>1, <3>1, <3>2
  <2>4. Reached' = Reached
    BY <1>1, <1>5, <2>3 DEF Reached
  <2> QED
    BY <1>1, <2>3, <2>4
<1>6. CASE presentState \in Asks \cup {"sGetChar1", "shalt"}
  <2> DEFINE to == CASE presentState = "sIncValue1" -> "sIncValue2"
                     [] presentState = "sDecValue1" -> "sDecValue2"
                     [] presentState = "sPutChar1" -> "sPutChar2"
                     [] presentState = "sGetChar1" -> "sGetChar2"
                     [] presentState = "sWhileE1" -> "sWhileE2"
                     [] presentState = "shalt" -> "shalt"
  <2>1. presentState' \in {presentState, to}
    BY <1>1, <1>6, Table, Follows DEF TickAssumption, Asks
  <2>2. presentState \in Asks => DATA_RDATA' = mem'[ptr_reg'] /\ DATA_RDWR' = 0
    BY <1>1
  <2>3. Understood' /\ Answered' /\ LooksBack'
    BY <1>1, <1>2, <1>6, <2>1, <2>2 DEF Understood, Answered, LooksBack, Here, Asks
  <2>4. Reached' = Reached /\ presentState' \in CpuStates
    BY <1>1, <1>6, <2>1 DEF Reached, Asks, CpuStates
  <2> QED
    BY <1>1, <2>3, <2>4
<1>7. CASE presentState = "sWhileE3"
  <2>1. presentState' \in {"sWhileE3", "sWhileE4"} /\ DATA_RDATA' = mem'[pc_reg']
    BY <1>1, <1>7, Table, Follows DEF TickAssumption
  <2>2. DATA_RDWR' = 0 /\ \E a \in 0..pc_reg : Nearest(a, pc_reg)
    BY <1>1, <1>2, <1>7 DEF LooksBack, Asks
  <2>5. \E a \in 0..pc_reg' : Nearest(a, pc_reg)'
    BY <1>1, <2>2 DEF Nearest
  <2>3. Understood' /\ Answered' /\ LooksBack'
    BY <2>1, <2>2, <2>5 DEF Understood, Answered, LooksBack
  <2>4. Reached' = Reached
    BY <1>1, <1>7, <2>1 DEF Reached
  <2> QED
    BY <1>1, <2>1, <2>3, <2>4 DEF CpuStates
<1>8. CASE presentState = "sWhileE4" /\ Is("[")
  <2>1. presentState' \in {"sWhileE4", "sfetch"} /\ UNCHANGED <<DATA_RDATA, DATA_RDWR>>
    BY <1>1, <1>8, Table, Follows DEF TickAssumption, Asks
  <2>2. DATA_RDWR = 0 /\ \E a \in 0..pc_reg : Nearest(a, pc_reg)
    BY <1>1, <1>2, <1>8 DEF LooksBack, Asks
  <2>5. \E a \in 0..pc_reg' : Nearest(a, pc_reg)'
    BY <1>1, <2>2 DEF Nearest
  <2>6. mem[pc_reg] = Code["["] /\ DATA_RDATA = mem[pc_reg]
    BY <1>2, <1>8 DEF Answered, Is
  <2>3. Understood' /\ Answered' /\ LooksBack'
    BY <1>1, <2>1, <2>2, <2>5, <2>6 DEF Understood, Answered, LooksBack
  <2>4. Reached' = Reached
    <3>1. Reached = pc_reg
      BY <1>8, <2>6, ReachedHere DEF TickAssumption
    <3>2. CASE presentState' = "sfetch"
      BY <1>1, <3>1, <3>2 DEF Reached
    <3>3. CASE presentState' = "sWhileE4"
      BY <1>1, <1>8, <3>3 DEF Reached
    <3> QED
      BY <2>1, <3>1, <3>2, <3>3
  <2> QED
    BY <1>1, <2>1, <2>3, <2>4 DEF CpuStates
<1> QED
  BY <1>3, <1>4, <1>5, <1>6, <1>7, <1>8 DEF Rests

\* A counter that goes back.
LEMMA GoesBack ==
  ASSUME NEW EN, NEW v, NEW b, NEW d, TickAssumption(EN, v, b, d),
         \/ presentState = "sWhileE2" /\ DATA_RDATA # 0
         \/ presentState = "sWhileE4" /\ ~Is("[")
  PROVE  /\ presentState' = "sWhileE3" /\ pc_reg' = pc_reg - 1
         /\ UNCHANGED <<ptr_reg, mem, output>> /\ DATA_RDWR' = 0
         /\ pc_reg \in Nat /\ mem[pc_reg] # Code["["]
         /\ \E c \in 0..pc_reg - 1 : Nearest(c, pc_reg) /\ Nearest(c, pc_reg - 1)
<1>0. Effects(EN, v, b, d)
  BY EdgeFacts DEF TickAssumption
<1>1. pc_dec(presentState)
  BY DEF pc_dec
<1>2. /\ presentState' = nextState(presentState, v, b) /\ pc_reg' = (pc_reg - 1) % Addresses
      /\ UNCHANGED <<ptr_reg, output>> /\ DATA_RDWR' = RdWr(presentState, v)
  BY <1>0, <1>1 DEF Effects, TickAssumption
<1>3. presentState' = "sWhileE3"
  BY <1>2, Follows DEF TickAssumption
<1>4. ~DATA_EN(presentState, v) /\ RdWr(presentState, v) = 0
  BY DEF DATA_EN, RdWr, Reads, Stores, TickAssumption, LooksBack
<1>5. UNCHANGED mem
  BY <1>0, <1>4 DEF Effects
<1>6. pc_reg \in Nat /\ pc_reg < Addresses /\ Addresses \in Nat
  BY DEF TickAssumption, CpuTypes, CpuAssumption
<1>7. mem[pc_reg] # Code["["]
  <2>1. CASE presentState = "sWhileE2"
    <3>1. mem[pc_reg] = Code["]"]
      BY <2>1 DEF TickAssumption, Understood, Here
    <3> QED
      BY <3>1 DEF TickAssumption, CpuAssumption, Instructions
  <2>2. CASE presentState = "sWhileE4"
    BY <2>2 DEF TickAssumption, Answered, Is
  <2> QED
    BY <2>1, <2>2
<1>8. PICK c \in 0..pc_reg : Nearest(c, pc_reg)
  <2>1. CASE presentState = "sWhileE2"
    <3>1. PICK c \in 0..pc_reg - 1 : I!SimpleLoop(c, pc_reg)
      BY <1>0, <2>1 DEF Effects, LoopError
    <3>2. c \in 0..pc_reg /\ mem[c] = Code["["]
      BY <1>6, <3>1 DEF I!SimpleLoop
    <3> QED
      BY <1>6, <3>2, NearestExists
  <2>2. CASE presentState = "sWhileE4"
    BY <2>2 DEF TickAssumption, LooksBack
  <2> QED
    BY <2>1, <2>2
<1>9. c # pc_reg
  BY <1>7, <1>8 DEF Nearest
<1>10. c \in 0..pc_reg - 1 /\ Nearest(c, pc_reg - 1)
  BY <1>6, <1>8, <1>9 DEF Nearest
<1>11. (pc_reg - 1) % Addresses = pc_reg - 1
  BY <1>6, <1>10
<1> QED
  BY <1>2, <1>3, <1>4, <1>5, <1>6, <1>7, <1>8, <1>10, <1>11

\* The search for a loop's begin is one step of the interpreter, its first.
LEMMA SearchBegins ==
  ASSUME NEW EN, NEW v, NEW b, NEW d, TickAssumption(EN, v, b, d),
         presentState = "sWhileE2", DATA_RDATA # 0
  PROVE  /\ presentState' \in CpuStates /\ Understood' /\ Answered' /\ LooksBack'
         /\ I!Next
<1>1. /\ presentState' = "sWhileE3" /\ pc_reg' = pc_reg - 1
      /\ UNCHANGED <<ptr_reg, mem, output>> /\ DATA_RDWR' = 0
      /\ pc_reg \in Nat /\ mem[pc_reg] # Code["["]
  BY GoesBack
<1>2. PICK c \in 0..pc_reg - 1 : Nearest(c, pc_reg) /\ Nearest(c, pc_reg - 1)
  BY GoesBack
<1>3. Nearest(c, pc_reg)' /\ c \in 0..pc_reg' /\ pc_reg' \in Nat
  BY <1>1, <1>2 DEF Nearest
<1>4. Understood' /\ Answered' /\ LooksBack' /\ presentState' \in CpuStates
  BY <1>1, <1>3 DEF Understood, Answered, LooksBack, CpuStates
<1>5. Reached' = c
  <2>1. (CHOOSE a \in 0..pc_reg - 1 : Nearest(a, pc_reg - 1)) = c
    BY <1>1, <1>2, <1>3, NearestIsOne
  <2> QED
    BY <1>1, <2>1 DEF Reached, Nearest
<1>6. Reached = pc_reg
  BY DEF Reached
<1>7. mem[pc_reg] = Code["]"] /\ mem[ptr_reg] # 0
  BY DEF TickAssumption, Understood, Answered, Here
<1>8. I!SimpleLoop(c, pc_reg)
  <2>1. ~LoopError(presentState)
    BY EdgeFacts DEF TickAssumption, Effects
  <2>2. PICK a \in 0..pc_reg - 1 : I!SimpleLoop(a, pc_reg)
    BY <2>1 DEF LoopError
  <2>3. Nearest(a, pc_reg)
    <3>1. ASSUME NEW m \in a + 1..pc_reg PROVE mem[m] # Code["["]
      <4>1. CASE m = pc_reg
        BY <1>1, <4>1
      <4>2. CASE m # pc_reg
        <5>1. m \in a + 1..pc_reg - 1
          BY <1>1, <2>2, <4>2
        <5> QED
          BY <2>2, <5>1 DEF I!SimpleLoop
      <4> QED
        BY <4>1, <4>2
    <3> QED
      BY <2>2, <3>1 DEF Nearest, I!SimpleLoop
  <2>4. (CHOOSE e \in 0..pc_reg : Nearest(e, pc_reg)) = a
    BY <1>1, <2>2, <2>3, NearestIsOne
  <2>5. (CHOOSE e \in 0..pc_reg : Nearest(e, pc_reg)) = c
    BY <1>1, <1>2, NearestIsOne
  <2> QED
    BY <2>2, <2>4, <2>5
<1>9. I!Is("]") /\ I!Repeat
  BY <1>1, <1>2, <1>5, <1>6, <1>7, <1>8 DEF I!Is, I!Repeat
<1> QED
  BY <1>4, <1>6, <1>7, <1>9 DEF I!Next

\* The address reached is the same while the counter goes down to it.
LEMMA SearchGoesOn ==
  ASSUME NEW EN, NEW v, NEW b, NEW d, TickAssumption(EN, v, b, d),
         presentState = "sWhileE4", ~Is("[")
  PROVE  /\ presentState' \in CpuStates /\ Understood' /\ Answered' /\ LooksBack'
         /\ UNCHANGED <<Reached, ptr_reg, mem, output>>
<1>1. /\ presentState' = "sWhileE3" /\ pc_reg' = pc_reg - 1
      /\ UNCHANGED <<ptr_reg, mem, output>> /\ DATA_RDWR' = 0
      /\ pc_reg \in Nat /\ mem[pc_reg] # Code["["]
  BY GoesBack
<1>2. PICK c \in 0..pc_reg - 1 : Nearest(c, pc_reg) /\ Nearest(c, pc_reg - 1)
  BY GoesBack
<1>3. Nearest(c, pc_reg)' /\ c \in 0..pc_reg' /\ pc_reg' \in Nat
  BY <1>1, <1>2 DEF Nearest
<1>4. Understood' /\ Answered' /\ LooksBack' /\ presentState' \in CpuStates
  BY <1>1, <1>3 DEF Understood, Answered, LooksBack, CpuStates
<1>5. Reached' = c
  <2>1. (CHOOSE a \in 0..pc_reg - 1 : Nearest(a, pc_reg - 1)) = c
    BY <1>1, <1>2, <1>3, NearestIsOne
  <2> QED
    BY <1>1, <2>1 DEF Reached, Nearest
<1>6. Reached = c
  <2>1. (CHOOSE a \in 0..pc_reg : Nearest(a, pc_reg)) = c
    BY <1>1, <1>2, NearestIsOne
  <2> QED
    BY <2>1 DEF Reached, Nearest
<1> QED
  BY <1>1, <1>4, <1>5, <1>6

\* A pointer that stays among the data turns there as it does in the whole memory.
LEMMA WithinData ==
  ASSUME CpuAssumption, CpuTypes, ptr_reg' \in DataStart..Addresses - 1
  PROVE  /\ ptr_reg' = (ptr_reg + 1) % Addresses => I!Turn(1)
         /\ ptr_reg' = (ptr_reg - 1) % Addresses => I!Turn(-1)
<1>0. /\ Addresses \in Nat /\ DataStart \in Nat /\ DataStart > 0 /\ DataStart < Addresses
      /\ ptr_reg \in Int /\ DataStart <= ptr_reg /\ ptr_reg < Addresses
      /\ ptr_reg' \in Int /\ DataStart <= ptr_reg' /\ ptr_reg' < Addresses
  BY DEF CpuAssumption, CpuTypes
<1>1. ASSUME NEW N \in Nat, NEW a \in Int, 0 <= a, a < N PROVE a % N = a
  BY <1>1
<1> DEFINE room == Addresses - DataStart
<1>2. room \in Nat
  BY <1>0
<1>3. ASSUME ptr_reg' = (ptr_reg + 1) % Addresses PROVE I!Turn(1)
  <2>1. ptr_reg + 1 # Addresses
    <3>1. Addresses % Addresses = 0
      BY <1>0
    <3> QED
      BY <1>0, <1>3, <3>1
  <2>2. ptr_reg' = ptr_reg + 1
    BY <1>0, <1>1, <1>3, <2>1
  <2>3. /\ ptr_reg - DataStart + 1 \in Int /\ 0 <= ptr_reg - DataStart + 1
        /\ ptr_reg - DataStart + 1 < room
    BY <1>0, <2>2
  <2>4. (ptr_reg - DataStart + 1) % room = ptr_reg - DataStart + 1
    <3> HIDE DEF room
    <3> QED
      BY <1>1, <1>2, <2>3
  <2>5. ptr_reg' = DataStart + ((ptr_reg - DataStart + 1) % room)
    <3> HIDE DEF room
    <3> QED
      BY <1>0, <2>2, <2>4
  <2> QED
    BY <2>5 DEF I!Turn
<1>4. ASSUME ptr_reg' = (ptr_reg - 1) % Addresses PROVE I!Turn(-1)
  <2>1. ptr_reg - 1 \in Int /\ 0 <= ptr_reg - 1 /\ ptr_reg - 1 < Addresses
    BY <1>0
  <2>2. ptr_reg' = ptr_reg - 1
    BY <1>0, <1>1, <1>4, <2>1
  <2>3. /\ ptr_reg - DataStart + -1 \in Int /\ 0 <= ptr_reg - DataStart + -1
        /\ ptr_reg - DataStart + -1 < room
    BY <1>0, <2>2
  <2>4. (ptr_reg - DataStart + -1) % room = ptr_reg - DataStart + -1
    <3> HIDE DEF room
    <3> QED
      BY <1>1, <1>2, <2>3
  <2>5. ptr_reg' = DataStart + ((ptr_reg - DataStart + -1) % room)
    <3> HIDE DEF room
    <3> QED
      BY <1>0, <2>2, <2>4
  <2> QED
    BY <2>5 DEF I!Turn
<1> QED
  BY <1>3, <1>4

\* A counter that goes on ends an instruction.
LEMMA Executes ==
  ASSUME NEW EN, NEW v, NEW b, NEW d, TickAssumption(EN, v, b, d),
         \/ presentState \in Walks
         \/ presentState = "sGetChar2" /\ v
         \/ presentState = "sPutChar2" /\ ~b
         \/ presentState = "sWhileE2" /\ DATA_RDATA = 0
  PROVE  /\ presentState' \in CpuStates /\ Understood' /\ Answered' /\ LooksBack'
         /\ I!Next
<1>0. Effects(EN, v, b, d)
  BY EdgeFacts DEF TickAssumption
<1>1. /\ EN /\ presentState' \in {"sidle", "sfetch"}
      /\ pc_reg' = (pc_reg + 1) % Addresses /\ Reached = pc_reg /\ Reached' = pc_reg'
      /\ presentState \notin {"sIncValue2", "sDecValue2", "sGetChar2"} => mem' = mem
      /\ presentState \in {"sIncValue2", "sDecValue2", "sGetChar2"} =>
           mem' = [mem EXCEPT ![ptr_reg] = DATA_WDATA(presentState, d)]
  BY Advances DEF TickAssumption
<1>2. /\ Understood' /\ Answered' /\ LooksBack' /\ presentState' \in CpuStates
  BY <1>1, Fresh DEF CpuStates
<1>3. I!Advance
  BY <1>1 DEF I!Advance
<1>4. /\ presentState = "sIncPtr" => I!Turn(1)
      /\ presentState = "sDecPtr" => I!Turn(-1)
      /\ presentState \notin {"sIncPtr", "sDecPtr"} => ptr_reg' = ptr_reg
      /\ presentState # "sPutChar2" => output' = output
      /\ presentState = "sPutChar2" => output' = Append(output, DATA_RDATA)
  <2>1. /\ presentState = "sIncPtr" => ptr_reg' = (ptr_reg + 1) % Addresses
        /\ presentState = "sDecPtr" => ptr_reg' = (ptr_reg - 1) % Addresses
        /\ presentState \notin {"sIncPtr", "sDecPtr"} => ptr_reg' = ptr_reg
        /\ presentState # "sPutChar2" => output' = output
        /\ presentState = "sPutChar2" => output' = Append(output, DATA_RDATA)
    BY <1>0 DEF Effects, Walks
  <2>2. ptr_reg' \in DataStart..Addresses - 1
    BY <1>0 DEF Effects
  <2>3. /\ presentState = "sIncPtr" => I!Turn(1)
        /\ presentState = "sDecPtr" => I!Turn(-1)
    BY <2>1, <2>2, WithinData DEF TickAssumption
  <2> QED
    BY <2>1, <2>3
<1>5. Understood /\ Answered
  BY DEF TickAssumption
<1>6. CASE presentState \in {"sIncPtr", "sDecPtr"}
  <2>1. CASE presentState = "sIncPtr"
    <3>1. I!Is(">") /\ I!Move(1)
      BY <1>1, <1>3, <1>4, <1>5, <2>1 DEF I!Move, I!Is, Understood, Here
    <3> QED
      BY <1>2, <3>1 DEF I!Next
  <2>2. CASE presentState = "sDecPtr"
    <3>1. I!Is("<") /\ I!Move(-1)
      BY <1>1, <1>3, <1>4, <1>5, <2>2 DEF I!Move, I!Is, Understood, Here
    <3> QED
      BY <1>2, <3>1 DEF I!Next
  <2> QED
    BY <1>2, <1>6, <2>1, <2>2
<1>7. CASE presentState = "sIncValue2"
  <2>1. I!Is("+") /\ DATA_WDATA(presentState, d) = (mem[ptr_reg] + 1) % Bytes
    BY <1>1, <1>5, <1>7 DEF DATA_WDATA, I!Is, Understood, Here, Answered
  <2> QED
    BY <1>1, <1>2, <1>3, <1>4, <1>7, <2>1 DEF I!Set, I!Cell, I!Next
<1>8. CASE presentState = "sDecValue2"
  <2>1. I!Is("-") /\ DATA_WDATA(presentState, d) = (mem[ptr_reg] - 1) % Bytes
    BY <1>1, <1>5, <1>8 DEF DATA_WDATA, I!Is, Understood, Here, Answered
  <2> QED
    BY <1>1, <1>2, <1>3, <1>4, <1>8, <2>1 DEF I!Set, I!Cell, I!Next
<1>9. CASE presentState = "sGetChar2"
  <2>1. I!Is(",") /\ DATA_WDATA(presentState, d) = d /\ d \in Typed
    BY <1>1, <1>5, <1>9 DEF DATA_WDATA, I!Is, Understood, Here, TickAssumption
  <2> QED
    BY <1>1, <1>2, <1>3, <1>4, <1>9, <2>1 DEF I!Set, I!Cell, I!Next
<1>10. CASE presentState = "sPutChar2"
  <2>1. I!Is(".") /\ DATA_RDATA = mem[ptr_reg]
    BY <1>1, <1>5, <1>10 DEF I!Is, Understood, Here, Answered
  <2> QED
    BY <1>1, <1>2, <1>3, <1>4, <1>10, <2>1 DEF I!Write, I!Next
<1>11. CASE presentState \in {"sWhileB1", "sNop"} \/ (presentState = "sWhileE2" /\ DATA_RDATA = 0)
  <2>1. I!Pass
    BY <1>1, <1>3, <1>4, <1>11 DEF I!Pass
  <2>2. CASE presentState = "sWhileB1"
    <3>1. I!Is("[")
      BY <1>1, <1>5, <2>2 DEF I!Is, Understood, Here
    <3>2. mem[ptr_reg] # 0
      BY <1>0, <2>2 DEF Effects, LoopError
    <3> QED
      BY <1>2, <2>1, <3>1, <3>2 DEF I!Next
  <2>3. CASE presentState = "sNop"
    <3>1. \A i \in DOMAIN Code : ~I!Is(i)
      BY <1>1, <1>5, <2>3, BytesOfInstructions DEF I!Is, Understood, Here, TickAssumption
    <3> QED
      BY <1>2, <2>1, <3>1 DEF I!Next
  <2>4. CASE presentState = "sWhileE2" /\ DATA_RDATA = 0
    <3>1. I!Is("]") /\ mem[ptr_reg] = 0
      BY <1>1, <1>5, <2>4 DEF I!Is, Understood, Here, Answered
    <3> QED
      BY <1>2, <2>1, <3>1 DEF I!Next
  <2> QED
    BY <1>2, <1>11, <2>2, <2>3, <2>4
<1> QED
  BY <1>6, <1>7, <1>8, <1>9, <1>10, <1>11 DEF Walks

\* Every clock is one of the four kinds.
LEMMA Ticks ==
  ASSUME NEW EN, NEW v, NEW b, NEW d, TickAssumption(EN, v, b, d)
  PROVE  /\ CpuTypes' /\ Understood' /\ Answered' /\ LooksBack'
         /\ I!Next \/ UNCHANGED <<Reached, ptr_reg, mem, output>>
<1>1. presentState \in CpuStates /\ presentState # "off"
  BY DEF TickAssumption, CpuTypes, Edge
<1>2. /\ presentState' \in CpuStates /\ Understood' /\ Answered' /\ LooksBack'
      /\ I!Next \/ UNCHANGED <<Reached, ptr_reg, mem, output>>
  <2>1. CASE \/ presentState \in Walks
             \/ presentState = "sGetChar2" /\ v
             \/ presentState = "sPutChar2" /\ ~b
             \/ presentState = "sWhileE2" /\ DATA_RDATA = 0
    BY <2>1, Executes
  <2>2. CASE \/ presentState \in Asks \cup Rests \cup {"sfetch", "sWhileE3"}
             \/ presentState = "sGetChar2" /\ ~v
             \/ presentState = "sPutChar2" /\ b
             \/ presentState = "sWhileE4" /\ Is("[")
    BY <2>2, QuietKeeps
  <2>3. CASE presentState = "sWhileE2" /\ DATA_RDATA # 0
    BY <2>3, SearchBegins
  <2>4. CASE presentState = "sWhileE4" /\ ~Is("[")
    BY <2>4, SearchGoesOn
  <2> QED
    BY <1>1, <2>1, <2>2, <2>3, <2>4 DEF CpuStates, Walks, Asks, Rests
<1> QED
  BY <1>2, TypesKept DEF TickAssumption

-----------------------------------------------------------------------------
LEMMA CpuInvInit ==
  ASSUME CpuAssumption, CpuInit
  PROVE  CpuInv
BY DEF CpuAssumption, CpuInit, CpuInv, CpuTypes, CpuStates, Understood, Answered, LooksBack

LEMMA LoadKeeps ==
  ASSUME CpuAssumption, CpuInv, Load
  PROVE  CpuInv'
<1> SUFFICES ASSUME ~paused, ~beyond PROVE CpuInv'
  BY DEF Load, CpuInv
<1>1. PICK p \in Programs :
        mem' = [a \in DOMAIN mem |->
                  IF a + 1 \in DOMAIN p /\ p[a + 1] \in DOMAIN Code
                  THEN Code[p[a + 1]] ELSE IF a + 1 \in DOMAIN p THEN 120 ELSE 0]
  BY DEF Load
<1>2. /\ presentState' = "sidle"
      /\ UNCHANGED <<pc_reg, ptr_reg, DATA_RDWR, DATA_RDATA, paused, beyond>> /\ CpuTypes
  BY DEF Load, CpuInv
<1>3. \A i \in DOMAIN Code : Code[i] \in 0..Bytes - 1
  BY DEF CpuAssumption
<1>4. 120 \in 0..Bytes - 1 /\ 0 \in 0..Bytes - 1
  BY DEF CpuAssumption
<1>5. mem' \in [0..Addresses - 1 -> 0..Bytes - 1]
  BY <1>1, <1>2, <1>3, <1>4 DEF CpuTypes
<1>6. CpuTypes'
  BY <1>2, <1>5 DEF CpuTypes, CpuStates
<1> QED
  BY <1>2, <1>6, Fresh DEF CpuInv

LEMMA ResetKeeps ==
  ASSUME CpuAssumption, CpuInv, RESET
  PROVE  CpuInv' /\ (~paused /\ ~beyond => I!Next)
<1>1. /\ presentState' = "sidle" /\ pc_reg' = 0 /\ ptr_reg' = DataStart
      /\ UNCHANGED <<DATA_RDWR, mem, DATA_RDATA, output, paused, beyond>>
  BY DEF RESET
<1>2. CpuInv'
  <2>1. ASSUME ~paused, ~beyond PROVE CpuTypes'
    BY <1>1, <2>1 DEF CpuInv, CpuTypes, CpuStates, CpuAssumption
  <2> QED
    BY <1>1, <2>1, Fresh DEF CpuInv
<1>3. I!Next
  <2>1. Reached' = 0
    BY <1>1 DEF Reached
  <2>2. I!Restart
    BY <1>1, <2>1 DEF I!Restart
  <2> QED
    BY <2>2 DEF I!Next
<1> QED
  BY <1>2, <1>3

LEMMA CpuInvNext ==
  ASSUME CpuAssumption, CpuInv, [CpuNext]_cpuVars
  PROVE  /\ CpuInv'
         /\ \/ paused' \/ beyond' \/ presentState = "off" \/ I!Next
            \/ UNCHANGED <<Reached, ptr_reg, mem, output>>
<1>1. CASE Load
  BY <1>1, LoadKeeps DEF Load
<1>2. CASE RESET
  BY <1>2, ResetKeeps DEF RESET
<1>3. ASSUME NEW EN \in BOOLEAN, NEW v \in BOOLEAN, NEW b \in BOOLEAN, NEW d \in Typed,
             Edge(EN, v, b, d)
      PROVE  /\ CpuInv'
             /\ \/ paused' \/ beyond' \/ presentState = "off" \/ I!Next
                \/ UNCHANGED <<Reached, ptr_reg, mem, output>>
  <2>1. CASE paused' \/ beyond'
    BY <2>1 DEF CpuInv
  <2>2. CASE ~paused' /\ ~beyond'
    <3>1. ~paused /\ ~beyond
      BY <1>3, <2>2, Zenon DEF Edge
    <3>2. /\ paused = FALSE /\ beyond = FALSE
          /\ CpuTypes /\ Understood /\ Answered /\ LooksBack
      BY <3>1 DEF CpuInv, CpuTypes
    <3>3. paused' = FALSE /\ beyond' = FALSE
      <4>1. paused' \in BOOLEAN /\ beyond' \in BOOLEAN
        BY <1>3, <3>2, Zenon DEF Edge
      <4> QED
        BY <2>2, <4>1
    <3>4. TickAssumption(EN, v, b, d)
      BY <1>3, <3>2, <3>3 DEF TickAssumption
    <3> QED
      BY <3>2, <3>3, <3>4, Ticks DEF CpuInv
  <2> QED
    BY <2>1, <2>2
<1>4. CASE UNCHANGED cpuVars
  <2>1. UNCHANGED <<presentState, pc_reg, ptr_reg, DATA_RDWR, mem, DATA_RDATA, output, paused, beyond>>
    BY <1>4 DEF cpuVars
  <2>2. UNCHANGED Reached
    BY <2>1 DEF Reached
  <2>3. CpuInv'
    BY <2>1 DEF CpuInv, CpuTypes, Understood, Answered, LooksBack, Here, Nearest
  <2> QED
    BY <2>1, <2>2, <2>3
<1> QED
  BY <1>1, <1>2, <1>3, <1>4 DEF CpuNext

\* fsm_nextstate: whatever the keyboard and the display do, any program is run as the
\* interpreter says, one instruction after another, from every RESET on, until EN falls in a
\* state that counts or the program meets one of the three errors on record: its pointer
\* leaves the data, or it comes to a loop that is to be skipped, or that is not simple.
THEOREM AnyProgramIsRun ==
  ASSUME CpuAssumption
  PROVE  CpuSpec => RunsThePrograms
<1>1. CpuInit => CpuInv
  BY CpuInvInit
<1>2. CpuInv /\ [CpuNext]_cpuVars => CpuInv'
  BY CpuInvNext
<1>3. CpuInv /\ [CpuNext]_cpuVars =>
        [\/ paused' \/ beyond' \/ presentState = "off"
         \/ I!Next]_<<Reached, ptr_reg, mem, output>>
  BY CpuInvNext
<1> QED
  BY <1>1, <1>2, <1>3, PTL DEF CpuSpec, RunsThePrograms

-----------------------------------------------------------------------------
(* The cellular automaton.                                                 *)

\* What generateLattice may make: any cells, of any age.
CellType == [state : CellStates, lifeTime : Nat]

\* The constructor sets the lifespans to 48, 6 and 4, and a lattice has three rows at least.
LatticeAssumption ==
  /\ msize \in Nat \ {0} /\ cell_lifespan \in Nat \ {0}
  /\ infect_r_lifespan \in Nat \ {0} /\ infect_s_lifespan \in Nat \ {0}
  /\ Lattices \subseteq [Places -> CellType]

-----------------------------------------------------------------------------
(* The places, in the order in which nextStep goes over them.              *)

Index(p) == p[1] * msize + p[2]

\* No two places of a lattice of m * m have the same index.
LEMMA PlacesDiffer ==
  ASSUME NEW m \in Nat \ {0}, NEW a \in 0..m - 1, NEW b \in 0..m - 1,
         NEW e \in 0..m - 1, NEW d \in 0..m - 1, a * m + b = e * m + d
  PROVE  a = e /\ b = d
<1>1. CASE a < e
  <2>1. (a + 1) * m <= e * m
    BY <1>1
  <2> QED
    BY <2>1
<1>2. CASE e < a
  <2>1. (e + 1) * m <= a * m
    BY <1>2
  <2> QED
    BY <2>1
<1>3. CASE a = e
  BY <1>3
<1> QED
  BY <1>1, <1>2, <1>3

\* No index is beyond the last place.
LEMMA IndexInRange ==
  ASSUME NEW m \in Nat \ {0}, NEW a \in 0..m - 1, NEW b \in 0..m - 1
  PROVE  a * m + b \in Nat /\ a * m + b < m * m
<1>1. a * m \in Nat /\ (a + 1) * m = a * m + m
  OBVIOUS
<1>2. (a + 1) * m <= m * m
  <2>1. a + 1 <= m
    OBVIOUS
  <2> QED
    BY <2>1
<1> QED
  BY <1>1, <1>2

\* Every index is that of a place.
LEMMA Division ==
  ASSUME NEW m \in Nat \ {0}, NEW k \in Nat, k < m * m
  PROVE  /\ k \div m \in 0..m - 1 /\ k % m \in 0..m - 1
         /\ k = (k \div m) * m + (k % m)
<1>1. k % m \in 0..m - 1 /\ k \div m \in Nat /\ k = (k \div m) * m + (k % m)
  OBVIOUS
<1>2. k \div m < m
  <2>1. ASSUME k \div m >= m PROVE FALSE
    <3>1. (k \div m) * m >= m * m
      BY <1>1, <2>1
    <3> QED
      BY <1>1, <3>1
  <2> QED
    BY <1>1, <2>1
<1> QED
  BY <1>1, <1>2

\* The place that comes next, and no other, has the index at.
LEMMA PlaceFacts ==
  ASSUME LatticeAssumption, at \in Nat, at < AllPlaces
  PROVE  /\ Place \in Places
         /\ \A p \in Places : Index(p) = at <=> p = Place
<1>1. msize \in Nat \ {0} /\ at < msize * msize
  BY DEF LatticeAssumption, AllPlaces
<1>2. /\ at \div msize \in 0..msize - 1 /\ at % msize \in 0..msize - 1
      /\ at = (at \div msize) * msize + (at % msize)
  BY <1>1, Division
<1>3. Place \in Places
  BY <1>2 DEF Place, Places, Side
<1>4. ASSUME NEW p \in Places PROVE Index(p) = at <=> p = Place
  <2>1. PICK a \in 0..msize - 1, b \in 0..msize - 1 : p = <<a, b>>
    BY DEF Places, Side
  <2>2. Index(p) = a * msize + b
    BY <2>1 DEF Index
  <2>3. Place = <<at \div msize, at % msize>>
    BY DEF Place
  <2> DEFINE q == at \div msize
             r == at % msize
  <2>4. q \in 0..msize - 1 /\ r \in 0..msize - 1 /\ at = q * msize + r /\ Place = <<q, r>>
    BY <1>2, <2>3
  <2> HIDE DEF q, r
  <2>5. Index(p) = at => a = q /\ b = r
    BY <1>1, <2>2, <2>4, PlacesDiffer
  <2> QED
    BY <2>1, <2>2, <2>4, <2>5
<1> QED
  BY <1>3, <1>4

\* When at is AllPlaces, every place is done.
LEMMA AllIndexes ==
  ASSUME LatticeAssumption
  PROVE  /\ AllPlaces \in Nat \ {0}
         /\ \A p \in Places : Index(p) \in Nat /\ Index(p) < AllPlaces
<1>1. msize \in Nat \ {0}
  BY DEF LatticeAssumption
<1>2. ASSUME NEW p \in Places PROVE Index(p) \in Nat /\ Index(p) < AllPlaces
  <2>1. PICK a \in 0..msize - 1, b \in 0..msize - 1 : p = <<a, b>>
    BY DEF Places, Side
  <2>2. Index(p) = a * msize + b
    BY <2>1 DEF Index
  <2> QED
    BY <1>1, <2>2, IndexInRange DEF AllPlaces
<1>3. msize * msize \in Nat \ {0}
  BY <1>1
<1> QED
  BY <1>2, <1>3 DEF AllPlaces

\* The lattice is finite.
LEMMA PlacesFinite ==
  ASSUME LatticeAssumption
  PROVE  IsFiniteSet(Places)
<1>1. IsFiniteSet(Side)
  <2>1. msize - 1 \in Int
    BY DEF LatticeAssumption
  <2> QED
    BY <2>1, FS_Interval DEF Side
<1> QED
  BY <1>1, FS_Product DEF Places

\* One member more, one less, or neither.
LEMMA SetChanged ==
  ASSUME IsFiniteSet(Places), NEW q \in Places, NEW S \in SUBSET Places, NEW T \in SUBSET Places,
         \A p \in Places : p # q => (p \in S <=> p \in T)
  PROVE  /\ Cardinality(S) \in Nat /\ Cardinality(T) \in Nat
         /\ Cardinality(T) + (IF q \in S THEN 1 ELSE 0)
              = Cardinality(S) + (IF q \in T THEN 1 ELSE 0)
<1> DEFINE R == S \ {q}
<1>1. IsFiniteSet(S) /\ IsFiniteSet(T) /\ IsFiniteSet(R)
  BY FS_Subset
<1>2. Cardinality(S) \in Nat /\ Cardinality(T) \in Nat /\ Cardinality(R) \in Nat
  BY <1>1, FS_CardinalityType
<1>3. S = (IF q \in S THEN R \cup {q} ELSE R) /\ T = (IF q \in T THEN R \cup {q} ELSE R)
  OBVIOUS
<1>4. q \notin R
  OBVIOUS
<1> HIDE DEF R
<1>5. Cardinality(R \cup {q}) = Cardinality(R) + 1
  BY <1>1, <1>4, FS_AddElement
<1> QED
  BY <1>2, <1>3, <1>5

\* Lattices that differ at one place count the same kinds but for the two there.
LEMMA CountChanged ==
  ASSUME LatticeAssumption, NEW f, NEW g, NEW q \in Places, NEW k,
         \A p \in Places : p # q => f[p].state = g[p].state
  PROVE  /\ Count(f, k) \in Nat /\ Count(g, k) \in Nat
         /\ Count(g, k) + (IF f[q].state = k THEN 1 ELSE 0)
              = Count(f, k) + (IF g[q].state = k THEN 1 ELSE 0)
<1> DEFINE S == {p \in Places : f[p].state = k}
           T == {p \in Places : g[p].state = k}
<1>1. /\ S \in SUBSET Places /\ T \in SUBSET Places
      /\ \A p \in Places : p # q => (p \in S <=> p \in T)
      /\ (q \in S <=> f[q].state = k) /\ (q \in T <=> g[q].state = k)
      /\ Count(f, k) = Cardinality(S) /\ Count(g, k) = Cardinality(T)
  BY DEF Count
<1> HIDE DEF S, T
<1>2. /\ Cardinality(S) \in Nat /\ Cardinality(T) \in Nat
      /\ Cardinality(T) + (IF q \in S THEN 1 ELSE 0)
           = Cardinality(S) + (IF q \in T THEN 1 ELSE 0)
  BY <1>1, PlacesFinite, SetChanged
<1> QED
  BY <1>1, <1>2

-----------------------------------------------------------------------------
(* The inductive invariant of the automaton.                               *)

Healthy == {"HEALTHY_R", "HEALTHY_S"}
Ill     == {"INFECTED_R", "INFECTED_S"}
\* The lattice as far as it is made, and the cells of a kind that rule 2c has just made
\* defective.
Made    == [p \in Places |-> IF IsDone(p) THEN nextCells[p] ELSE actualCells[p]]
Defective(k) == {p \in Places : /\ IsDone(p) /\ actualCells[p].state = k
                                /\ nextCells[p].state = "DEF_INFECTED"}

CATypes == /\ actualCells \in [Places -> CellType] /\ nextCells \in [Places -> CellType]
           /\ at \in 0..AllPlaces /\ step \in Nat
           /\ counter \in [CellStates -> Int] /\ statistics \in Seq([CellStates -> Nat])

\* What HealthyAreCounted says, kind by kind.
Counted ==
  /\ \A k \in Healthy : statistics[step][k] + counter[k] = Count(Made, k)
  /\ \A k \in Ill : statistics[step][k] + counter[k]
                      = Count(Made, k) + Cardinality(Defective(k))

\* In the middle of a step the cells that are made are alive.
Unfinished == /\ step # 0 /\ Len(statistics) = step /\ Counted
              /\ \A p \in Places : IsDone(p) => IsAlive(nextCells[p])

CAInv == CATypes /\ LatticeIsMade /\ (at < AllPlaces => Unfinished)

\* What a cell that changes its kind does to the counter.
Change(k, old, to) == (IF to = k THEN 1 ELSE 0) - (IF old = k THEN 1 ELSE 0)
Recounted(old, to) ==
  /\ \A k \in Healthy : counter'[k] = counter[k] + Change(k, old, to)
  /\ \A k \in Ill : counter'[k] = counter[k] + Change(k, old, to)
                      + (IF old = k /\ to = "DEF_INFECTED" THEN 1 ELSE 0)

\* A count is a number.
LEMMA CountsType ==
  ASSUME LatticeAssumption, NEW f, NEW k
  PROVE  Count(f, k) \in Nat
<1>1. PICK q : q \in Places
  <2>1. <<0, 0>> \in Places
    BY DEF LatticeAssumption, Places, Side
  <2> QED
    BY <2>1
<1> QED
  BY <1>1, CountChanged

\* The cell that comes next is one of the lattice, a step older.
LEMMA CellFacts ==
  ASSUME LatticeAssumption, CATypes, at < AllPlaces
  PROVE  /\ Place \in Places /\ Cell \in CellType /\ Cell.state = actualCells[Place].state
         /\ Cell.state \in CellStates /\ Cell.lifeTime \in Nat
<1>1. Place \in Places
  BY PlaceFacts DEF CATypes
<1>2. actualCells[Place] \in CellType
  BY <1>1 DEF CATypes
<1> HIDE DEF Place
<1>3. Cell \in CellType /\ Cell.state = actualCells[Place].state
  BY <1>2 DEF Cell, CellType
<1> QED
  BY <1>1, <1>3 DEF CellType

\* nextStep after gen: a living cell that is counted as Recounted says keeps the invariant,
\* also where the lattices change places.
LEMMA CellMade ==
  ASSUME LatticeAssumption, CAInv, at < AllPlaces, NEW to \in CellStates, NEW age \in Nat,
         Become(to, age), IsAlive([state |-> to, lifeTime |-> age]),
         counter' \in [CellStates -> Int], Recounted(Cell.state, to)
  PROVE  CAInv'
<1> DEFINE new   == [state |-> to, lifeTime |-> age]
           older == [actualCells EXCEPT ![Place] = Cell]
           made  == [nextCells EXCEPT ![Place] = new]
<1>1. /\ Place \in Places /\ Cell \in CellType /\ Cell.state = actualCells[Place].state
  BY CellFacts DEF CAInv
<1>2. new \in CellType /\ new.state = to /\ IsAlive(new)
  BY DEF CellType
<1>3. /\ at' = at + 1 /\ step' = step /\ at \in Nat /\ AllPlaces \in Nat
      /\ IF at + 1 = AllPlaces
         THEN /\ actualCells' = made /\ nextCells' = older
              /\ statistics' = Append(statistics, Counts(made))
         ELSE /\ actualCells' = older /\ nextCells' = made /\ statistics' = statistics
  BY AllIndexes DEF Become, CAInv, CATypes
<1>4. Unfinished
  BY DEF CAInv
<1>5. /\ actualCells \in [Places -> CellType] /\ nextCells \in [Places -> CellType]
      /\ statistics \in Seq([CellStates -> Nat]) /\ step \in Nat
  BY DEF CAInv, CATypes
<1> HIDE DEF new
<1>6. /\ older \in [Places -> CellType] /\ made \in [Places -> CellType]
      /\ \A p \in Places : older[p].state = actualCells[p].state
      /\ \A p \in Places : made[p] = IF p = Place THEN new ELSE nextCells[p]
  <2>1. \A p \in Places : older[p] = IF p = Place THEN Cell ELSE actualCells[p]
    BY <1>5
  <2> QED
    BY <1>1, <1>2, <1>5, <2>1
<1> HIDE DEF older, made
<1>7. \A p \in Places : IsDone(p) \/ p = Place <=> Index(p) < at + 1
  <2>1. ASSUME NEW p \in Places PROVE IsDone(p) \/ p = Place <=> Index(p) < at + 1
    <3>1. Index(p) \in Nat /\ (Index(p) = at <=> p = Place)
      BY <1>3, AllIndexes, PlaceFacts
    <3>2. IsDone(p) <=> Index(p) < at
      BY DEF IsDone, Index
    <3> HIDE DEF Index, IsDone, Place
    <3> QED
      BY <1>3, <3>1, <3>2
  <2> QED
    BY <2>1
<1>8. ~IsDone(Place)
  <2>1. Index(Place) = at
    BY <1>1, <1>3, PlaceFacts
  <2> QED
    BY <1>3, <2>1 DEF IsDone, Index
<1>9. \A k : Count(made, k) \in Nat
  BY CountsType
<1>10. \A p \in Places : IsDone(p) \/ p = Place => IsAlive(made[p])
  BY <1>2, <1>4, <1>6 DEF Unfinished
<1>11. CATypes'
  <2>1. Counts(made) \in [CellStates -> Nat]
    BY <1>9 DEF Counts
  <2>2. statistics' \in Seq([CellStates -> Nat])
    <3>1. Append(statistics, Counts(made)) \in Seq([CellStates -> Nat])
      BY <1>5, <2>1, AppendProperties
    <3>2. statistics' = Append(statistics, Counts(made)) \/ statistics' = statistics
      BY <1>3
    <3> QED
      BY <1>5, <3>1, <3>2
  <2>3. at' \in 0..AllPlaces
    BY <1>3 DEF CAInv, CATypes
  <2>4. actualCells' \in [Places -> CellType] /\ nextCells' \in [Places -> CellType]
    BY <1>3, <1>6
  <2> QED
    BY <1>3, <1>5, <2>2, <2>3, <2>4 DEF CATypes
<1>12. CASE at + 1 = AllPlaces
  <2>1. /\ actualCells' = made /\ statistics' = Append(statistics, Counts(made))
        /\ at' = AllPlaces
    BY <1>3, <1>12
  <2>2. Counts(actualCells)' = Counts(made)
    BY <2>1 DEF Counts, Count
  <2>3. Len(statistics') = step + 1 /\ statistics'[step + 1] = Counts(made)
    <3>1. Counts(made) \in [CellStates -> Nat] /\ Len(statistics) = step
      BY <1>4, <1>9 DEF Counts, Unfinished
    <3> QED
      BY <1>5, <2>1, <3>1, AppendProperties
  <2>4. \A p \in Places : IsAlive(actualCells'[p])
    <3>1. \A p \in Places : Index(p) < at + 1
      BY <1>12, AllIndexes
    <3> QED
      BY <1>7, <1>10, <2>1, <3>1
  <2>5. LatticeIsMade'
    BY <1>3, <2>2, <2>3, <2>4 DEF LatticeIsMade
  <2>6. ~(at' < AllPlaces)
    BY <1>3, <2>1
  <2> QED
    BY <1>11, <2>5, <2>6 DEF CAInv, AllPlaces
<1>13. CASE at + 1 # AllPlaces
  <2>1. /\ actualCells' = older /\ nextCells' = made /\ statistics' = statistics
        /\ at' # AllPlaces
    BY <1>3, <1>13
  <2>2. \A p \in Places : IsDone(p)' <=> IsDone(p) \/ p = Place
    <3>1. \A p \in Places : IsDone(p)' <=> Index(p) < at + 1
      BY <1>3 DEF IsDone, Index
    <3> QED
      BY <1>7, <3>1
  <2>3. \A p \in Places : IsDone(p)' => IsAlive(nextCells'[p])
    BY <1>10, <2>1, <2>2
  <2>4. /\ \A p \in Places : p # Place => Made[p].state = Made'[p].state
        /\ Made[Place].state = Cell.state /\ Made'[Place].state = to
    <3>1. \A p \in Places : Made[p] = IF IsDone(p) THEN nextCells[p] ELSE actualCells[p]
      BY DEF Made
    <3>2. \A p \in Places : Made'[p] = IF IsDone(p)' THEN made[p] ELSE older[p]
      BY <2>1 DEF Made
    <3> QED
      BY <1>1, <1>2, <1>6, <1>8, <2>2, <3>1, <3>2
  <2>5. ASSUME NEW k
        PROVE  /\ Count(Made, k) \in Nat /\ Count(Made, k)' \in Nat
               /\ Count(Made, k)' = Count(Made, k) + Change(k, Cell.state, to)
    <3>1. Count(Made, k)' = Count(Made', k)
      BY DEF Count
    <3>2. /\ Count(Made, k) \in Nat /\ Count(Made', k) \in Nat
          /\ Count(Made', k) + (IF Made[Place].state = k THEN 1 ELSE 0)
               = Count(Made, k) + (IF Made'[Place].state = k THEN 1 ELSE 0)
      BY <1>1, <2>4, CountChanged
    <3>3. Count(Made', k) + (IF Cell.state = k THEN 1 ELSE 0)
            = Count(Made, k) + (IF to = k THEN 1 ELSE 0)
      BY <2>4, <3>2
    <3> QED
      BY <3>1, <3>2, <3>3 DEF Change
  <2>6. ASSUME NEW k
        PROVE  /\ Cardinality(Defective(k)) \in Nat /\ Cardinality(Defective(k))' \in Nat
               /\ Cardinality(Defective(k))' = Cardinality(Defective(k))
                    + (IF Cell.state = k /\ to = "DEF_INFECTED" THEN 1 ELSE 0)
    <3> DEFINE S == Defective(k)
               T == Defective(k)'
    <3>1. /\ S \in SUBSET Places /\ T \in SUBSET Places
          /\ \A p \in Places : p # Place => (p \in S <=> p \in T)
          /\ Place \notin S
          /\ Place \in T <=> Cell.state = k /\ to = "DEF_INFECTED"
      <4>1. \A p \in Places : p \in S <=> /\ IsDone(p) /\ actualCells[p].state = k
                                          /\ nextCells[p].state = "DEF_INFECTED"
        BY DEF Defective
      <4>2. \A p \in Places : p \in T <=> /\ IsDone(p)' /\ actualCells'[p].state = k
                                          /\ nextCells'[p].state = "DEF_INFECTED"
        BY DEF Defective
      <4>3. S \in SUBSET Places /\ T \in SUBSET Places
        BY DEF Defective
      <4> HIDE DEF S, T
      <4> QED
        BY <1>1, <1>2, <1>6, <1>8, <2>1, <2>2, <4>1, <4>2, <4>3
    <3> HIDE DEF S, T
    <3>2. /\ Cardinality(S) \in Nat /\ Cardinality(T) \in Nat
          /\ Cardinality(T) + (IF Place \in S THEN 1 ELSE 0)
               = Cardinality(S) + (IF Place \in T THEN 1 ELSE 0)
      BY <1>1, <3>1, PlacesFinite, SetChanged
    <3>3. /\ Cardinality(S) \in Nat /\ Cardinality(T) \in Nat
          /\ Cardinality(T) = Cardinality(S)
                                + (IF Cell.state = k /\ to = "DEF_INFECTED" THEN 1 ELSE 0)
      BY <3>1, <3>2
    <3> QED
      BY <3>3 DEF S, T
  <2>7. Counted'
    <3>1. Counted /\ counter \in [CellStates -> Int]
      BY <1>4 DEF Unfinished, CAInv, CATypes
    <3>2. statistics'[step'] = statistics[step] /\ statistics[step] \in [CellStates -> Nat]
      <4>1. step \in 1..Len(statistics)
        BY <1>4, <1>5 DEF Unfinished
      <4> QED
        BY <1>3, <1>5, <2>1, <4>1
    <3>3. ASSUME NEW k \in Healthy
          PROVE  statistics[step][k] + counter'[k] = Count(Made, k)'
      <4>1. statistics[step][k] + counter[k] = Count(Made, k)
        BY <3>1 DEF Counted
      <4>2. counter'[k] = counter[k] + Change(k, Cell.state, to)
        BY DEF Recounted
      <4>3. k \in CellStates /\ Change(k, Cell.state, to) \in Int
        BY DEF Healthy, CellStates, Change
      <4>4. statistics[step][k] \in Int /\ counter[k] \in Int
        BY <3>1, <3>2, <4>3
      <4> QED
        BY <2>5, <4>1, <4>2, <4>3, <4>4
    <3>4. ASSUME NEW k \in Ill
          PROVE  statistics[step][k] + counter'[k]
                   = Count(Made, k)' + Cardinality(Defective(k))'
      <4> DEFINE d == IF Cell.state = k /\ to = "DEF_INFECTED" THEN 1 ELSE 0
      <4>1. statistics[step][k] + counter[k] = Count(Made, k) + Cardinality(Defective(k))
        BY <3>1 DEF Counted
      <4>2. counter'[k] = counter[k] + Change(k, Cell.state, to) + d
        BY DEF Recounted
      <4>3. k \in CellStates /\ Change(k, Cell.state, to) \in Int /\ d \in Int
        BY DEF Ill, CellStates, Change
      <4>4. statistics[step][k] \in Int /\ counter[k] \in Int
        BY <3>1, <3>2, <4>3
      <4>5. /\ Count(Made, k) \in Nat
            /\ Count(Made, k)' = Count(Made, k) + Change(k, Cell.state, to)
        BY <2>5
      <4>6. /\ Cardinality(Defective(k)) \in Nat
            /\ Cardinality(Defective(k))' = Cardinality(Defective(k)) + d
        BY <2>6
      <4> HIDE DEF d
      <4> QED
        BY <4>1, <4>2, <4>3, <4>4, <4>5, <4>6
    <3> QED
      BY <3>2, <3>3, <3>4 DEF Counted
  <2>8. Unfinished'
    <3>1. step' # 0 /\ Len(statistics') = step'
      BY <1>3, <1>4, <2>1 DEF Unfinished
    <3> QED
      BY <2>3, <2>7, <3>1 DEF Unfinished
  <2>9. LatticeIsMade'
    BY <2>1 DEF LatticeIsMade, AllPlaces
  <2> QED
    BY <1>11, <2>8, <2>9 DEF CAInv
<1> QED
  BY <1>12, <1>13

\* How long a cell of each kind lives.
LEMMA Lives ==
  ASSUME LatticeAssumption
  PROVE  /\ \A s \in CellStates \ {"DEAD"} : Lifespan[s] \in Nat /\ 0 < Lifespan[s]
         /\ Lifespan["HEALTHY_R"] = Lifespan["HEALTHY_S"]
  BY DEF LatticeAssumption, Lifespan, CellStates

\* A cell that has just changed its kind is alive.
LEMMA NewIsAlive ==
  ASSUME LatticeAssumption, NEW s \in CellStates
  PROVE  IsAlive([state |-> s, lifeTime |-> 0])
  BY Lives DEF IsAlive

-----------------------------------------------------------------------------
(* The steps of the automaton.                                             *)

\* The constructor counts the lattice it has generated.
LEMMA FirstCounts ==
  ASSUME LatticeAssumption, CAInit
  PROVE  CAInv
<1>1. actualCells \in [Places -> CellType]
  BY DEF CAInit, LatticeAssumption
<1>2. nextCells \in [Places -> CellType]
  <2>1. [state |-> "HEALTHY_R", lifeTime |-> 0] \in CellType
    BY DEF CellType, CellStates
  <2> QED
    BY <2>1 DEF CAInit
<1>3. Counts(actualCells) \in [CellStates -> Nat]
  BY CountsType DEF Counts
<1>4. /\ statistics = <<Counts(actualCells)>> /\ step = 0 /\ at = AllPlaces
      /\ counter = [k \in CellStates |-> 0]
  BY DEF CAInit, Nothing
<1>5. AllPlaces \in Nat
  BY AllIndexes
<1> HIDE DEF Counts
<1>6. statistics \in Seq([CellStates -> Nat]) /\ Len(statistics) = 1
      /\ statistics[1] = Counts(actualCells)
  BY <1>3, <1>4
<1>7. CATypes
  <2>1. counter \in [CellStates -> Int]
    BY <1>4
  <2> QED
    BY <1>1, <1>2, <1>4, <1>5, <1>6, <2>1 DEF CATypes
<1>8. LatticeIsMade
  BY <1>4, <1>6 DEF LatticeIsMade
<1> QED
  BY <1>4, <1>5, <1>7, <1>8 DEF CAInv

\* A step begins: no cell is made, and the statistics count the lattice.
LEMMA StepBegins ==
  ASSUME LatticeAssumption, CAInv, NextStep
  PROVE  CAInv'
<1>1. /\ at = AllPlaces /\ at' = 0 /\ step' = step + 1 /\ step \in Nat
      /\ actualCells' = actualCells /\ nextCells' = nextCells /\ statistics' = statistics
      /\ counter' = [k \in CellStates |-> 0]
  BY DEF NextStep, Nothing, CAInv, CATypes
<1>2. Len(statistics) = step + 1 /\ statistics[step + 1] = Counts(actualCells)
  BY <1>1 DEF CAInv, LatticeIsMade
<1>3. AllPlaces \in Nat \ {0} /\ \A p \in Places : Index(p) \in Nat
  BY AllIndexes
<1>4. \A p \in Places : ~IsDone(p)'
  <2>1. \A p \in Places : IsDone(p)' <=> Index(p) < 0
    BY <1>1 DEF IsDone, Index
  <2> QED
    BY <1>3, <2>1
<1>5. CATypes'
  <2>1. counter' \in [CellStates -> Int]
    BY <1>1
  <2> QED
    BY <1>1, <1>3, <2>1 DEF CAInv, CATypes, AllPlaces
<1>6. Counted'
  <2>1. ASSUME NEW k PROVE Count(Made, k)' = Count(actualCells, k)
    <3>1. Made' = [p \in Places |-> actualCells[p]]
      BY <1>1, <1>4 DEF Made
    <3>2. Made' = actualCells
      BY <3>1 DEF CAInv, CATypes
    <3> QED
      BY <3>2 DEF Count
  <2>2. ASSUME NEW k PROVE Cardinality(Defective(k))' = 0
    <3>1. Defective(k)' = {}
      BY <1>4 DEF Defective
    <3> QED
      BY <3>1, FS_EmptySet
  <2>3. ASSUME NEW k \in CellStates
        PROVE  /\ statistics'[step'][k] + counter'[k] = Count(actualCells, k)
               /\ Count(actualCells, k) \in Nat
    <3>1. statistics'[step'][k] = Count(actualCells, k) /\ counter'[k] = 0
      BY <1>1, <1>2 DEF Counts
    <3>2. Count(actualCells, k) \in Nat
      BY CountsType
    <3> QED
      BY <3>1, <3>2
  <2>4. Healthy \subseteq CellStates /\ Ill \subseteq CellStates
    BY DEF Healthy, Ill, CellStates
  <2>5. \A k \in Healthy : statistics'[step'][k] + counter'[k] = Count(Made, k)'
    BY <2>1, <2>3, <2>4
  <2>6. \A k \in Ill : statistics'[step'][k] + counter'[k]
                         = Count(Made, k)' + Cardinality(Defective(k))'
    BY <2>1, <2>2, <2>3, <2>4
  <2> QED
    BY <2>5, <2>6 DEF Counted
<1>7. Unfinished'
  BY <1>1, <1>2, <1>4, <1>6 DEF Unfinished
<1>8. LatticeIsMade'
  BY <1>1, <1>3 DEF LatticeIsMade, AllPlaces
<1> QED
  BY <1>5, <1>7, <1>8 DEF CAInv

\* Every rule makes a living cell and counts it.
LEMMA GenKeeps ==
  ASSUME LatticeAssumption, CAInv, Gen
  PROVE  CAInv'
<1> DEFINE s == Cell.state
<1>1. at < AllPlaces /\ (Die \/ Balance \/ Infect \/ Heal \/ Defect \/ Replenish \/ Stay)
  BY DEF Gen
<1>2. /\ s \in CellStates /\ Cell.lifeTime \in Nat
      /\ Cell = [state |-> s, lifeTime |-> Cell.lifeTime]
  BY <1>1, CellFacts DEF CAInv, CellType
<1>3. counter \in [CellStates -> Int]
  BY DEF CAInv, CATypes
<1>4. ASSUME NEW to \in CellStates, NEW age \in Nat, Become(to, age),
             IsAlive([state |-> to, lifeTime |-> age]),
             counter' \in [CellStates -> Int], Recounted(s, to)
      PROVE  CAInv'
  BY <1>1, <1>4, CellMade
<1>5. ASSUME NEW a \in CellStates, NEW b \in CellStates
      PROVE  /\ Joined(a, b) \in [CellStates -> Int] /\ Moved(a, b) \in [CellStates -> Int]
             /\ Left(a) \in [CellStates -> Int]
             /\ \A k \in CellStates : Joined(a, b)[k] = counter[k] + (IF k = b THEN 1 ELSE 0)
             /\ \A k \in CellStates : Left(a)[k] = counter[k] - (IF k = a THEN 1 ELSE 0)
             /\ a # b => \A k \in CellStates : Moved(a, b)[k] = counter[k] + Change(k, a, b)
  BY <1>3, <1>5 DEF Joined, Moved, Left, Change
<1>6. /\ Healthy = {"HEALTHY_R", "HEALTHY_S"} /\ Ill = {"INFECTED_R", "INFECTED_S"}
      /\ Healthy \subseteq CellStates /\ Ill \subseteq CellStates
      /\ "DEAD" \in CellStates /\ "DEF_INFECTED" \in CellStates
  BY DEF Healthy, Ill, CellStates
<1>7. /\ DOMAIN Infected = Healthy /\ DOMAIN Healed = Ill
      /\ \A k \in Healthy : Infected[k] \in Ill
      /\ \A k \in Ill : Healed[k] \in Healthy
  BY DEF Infected, Healed, Healthy, Ill
<1>8. \A t \in CellStates : IsAlive([state |-> t, lifeTime |-> 0])
  BY NewIsAlive
<1>9. 0 \in Nat
  OBVIOUS
<1> HIDE DEF s
<1>10. CASE Die
  <2>1. Become("DEAD", 0) /\ counter' = Left(s) /\ s # "DEAD"
    BY <1>10 DEF Die, IsAlive, s
  <2>2. Recounted(s, "DEAD")
    <3>1. \A k \in CellStates : counter'[k] = counter[k] - (IF k = s THEN 1 ELSE 0)
      BY <1>2, <1>5, <2>1
    <3> QED
      BY <1>3, <1>6, <3>1 DEF Recounted, Change
  <2>3. counter' \in [CellStates -> Int]
    BY <1>2, <1>5, <2>1
  <2> QED
    BY <1>4, <1>6, <1>8, <1>9, <2>1, <2>2, <2>3
<1>11. CASE Balance
  <2>1. /\ IsAlive(Cell) /\ s = "HEALTHY_R" /\ Become("HEALTHY_S", Cell.lifeTime)
        /\ counter' = Moved("HEALTHY_R", "HEALTHY_S")
    BY <1>11 DEF Balance, s
  <2>2. IsAlive([state |-> "HEALTHY_S", lifeTime |-> Cell.lifeTime])
    <3>1. Cell.lifeTime < Lifespan["HEALTHY_R"]
      BY <2>1 DEF IsAlive, s
    <3> QED
      BY <3>1, Lives DEF IsAlive
  <2>3. /\ counter' \in [CellStates -> Int]
        /\ \A k \in CellStates : counter'[k] = counter[k] + Change(k, s, "HEALTHY_S")
    BY <1>5, <1>6, <2>1
  <2>4. Recounted(s, "HEALTHY_S")
    BY <1>3, <1>6, <2>3 DEF Recounted, Change
  <2> QED
    BY <1>2, <1>4, <1>6, <2>1, <2>2, <2>3, <2>4
<1>12. CASE Infect
  <2>1. /\ s \in Healthy /\ Become(Infected[s], 0) /\ counter' = Moved(s, Infected[s])
    BY <1>7, <1>12 DEF Infect, MayBeInfected, NewAge, s
  <2>2. Infected[s] \in Ill /\ Infected[s] \in CellStates /\ Infected[s] # s
        /\ Infected[s] # "DEF_INFECTED"
    BY <1>6, <1>7, <2>1
  <2>3. /\ counter' \in [CellStates -> Int]
        /\ \A k \in CellStates : counter'[k] = counter[k] + Change(k, s, Infected[s])
    BY <1>2, <1>5, <2>1, <2>2
  <2>4. Recounted(s, Infected[s])
    BY <1>3, <1>6, <2>2, <2>3 DEF Recounted, Change
  <2> QED
    BY <1>4, <1>8, <1>9, <2>1, <2>2, <2>3, <2>4
<1>13. CASE Heal
  <2>1. /\ s \in Ill /\ Become(Healed[s], 0) /\ counter' = Moved(s, Healed[s])
    BY <1>7, <1>13 DEF Heal, NewAge, s
  <2>2. Healed[s] \in Healthy /\ Healed[s] \in CellStates /\ Healed[s] # s
        /\ Healed[s] # "DEF_INFECTED"
    BY <1>6, <1>7, <2>1
  <2>3. /\ counter' \in [CellStates -> Int]
        /\ \A k \in CellStates : counter'[k] = counter[k] + Change(k, s, Healed[s])
    BY <1>2, <1>5, <2>1, <2>2
  <2>4. Recounted(s, Healed[s])
    BY <1>3, <1>6, <2>2, <2>3 DEF Recounted, Change
  <2> QED
    BY <1>4, <1>8, <1>9, <2>1, <2>2, <2>3, <2>4
<1>14. CASE Defect
  <2>1. s \in Ill /\ Become("DEF_INFECTED", 0) /\ counter' = counter
    BY <1>7, <1>14 DEF Defect, NewAge, s
  <2>2. Recounted(s, "DEF_INFECTED")
    BY <1>3, <1>6, <2>1 DEF Recounted, Change
  <2> QED
    BY <1>3, <1>4, <1>6, <1>8, <1>9, <2>1, <2>2
<1>15. CASE Replenish
  <2>1. PICK k \in {"HEALTHY_R", "INFECTED_R"} :
          Become(k, 0) /\ counter' = Joined("DEAD", k) /\ s = "DEAD"
    BY <1>15 DEF Replenish, s
  <2>2. k \in CellStates /\ k # "DEF_INFECTED"
    BY <1>6
  <2>3. /\ counter' \in [CellStates -> Int]
        /\ \A i \in CellStates : counter'[i] = counter[i] + (IF i = k THEN 1 ELSE 0)
    BY <1>5, <1>6, <2>1, <2>2
  <2>4. Recounted(s, k)
    BY <1>3, <1>6, <2>1, <2>2, <2>3 DEF Recounted, Change
  <2> QED
    BY <1>4, <1>8, <1>9, <2>1, <2>2, <2>3, <2>4
<1>16. CASE Stay
  <2>1. IsAlive(Cell) /\ Become(s, Cell.lifeTime) /\ counter' = counter
    BY <1>16 DEF Stay, s
  <2>2. Recounted(s, s)
    BY <1>3, <1>6, <2>1 DEF Recounted, Change
  <2>3. IsAlive([state |-> s, lifeTime |-> Cell.lifeTime])
    BY <1>2, <2>1
  <2> QED
    BY <1>2, <1>3, <1>4, <2>1, <2>2, <2>3
<1> QED
  BY <1>1, <1>10, <1>11, <1>12, <1>13, <1>14, <1>15, <1>16

\* Every step of the simulation keeps the invariant.
LEMMA AutomatonKeeps ==
  ASSUME LatticeAssumption, CAInv, [CANext]_caVars
  PROVE  CAInv'
<1>1. CASE UNCHANGED caVars
  <2>1. /\ at' = at /\ step' = step /\ actualCells' = actualCells
        /\ nextCells' = nextCells /\ counter' = counter /\ statistics' = statistics
    BY <1>1 DEF caVars
  <2> QED
    BY <2>1 DEF CAInv, CATypes, LatticeIsMade, Unfinished, Counted, Made, Defective, IsDone,
                Count, Counts, AllPlaces
<1> QED
  BY <1>1, GenKeeps, StepBegins DEF CANext

\* The invariant holds throughout.
LEMMA AutomatonInvariant ==
  ASSUME LatticeAssumption
  PROVE  CASpec => []CAInv
<1>1. CAInit => CAInv
  BY FirstCounts
<1>2. CAInv /\ [CANext]_caVars => CAInv'
  BY AutomatonKeeps
<1> QED
  BY <1>1, <1>2, PTL DEF CASpec

\* CA.hpp:100: for a lattice of any size, after every cell of a step of nextStep the
\* statistics of the step before and the counter are together the healthy cells of both
\* kinds in the lattice as far as it is made, and the infected ones but for those that rule
\* 2c of gen does not count.
THEOREM HealthyCounted ==
  ASSUME LatticeAssumption
  PROVE  CASpec => []HealthyAreCounted
<1>1. CAInv => HealthyAreCounted
  <2>1. ASSUME CAInv, at < AllPlaces, NEW k \in DOMAIN Infected
        PROVE  /\ statistics[step][k] + counter[k] = Count(Made, k)
               /\ statistics[step][Infected[k]] + counter[Infected[k]]
                    = Count(Made, Infected[k]) + Cardinality(Defective(Infected[k]))
    <3>1. k \in Healthy /\ Infected[k] \in Ill
      BY DEF Healthy, Ill, Infected
    <3> QED
      BY <2>1, <3>1 DEF CAInv, Unfinished, Counted
  <2> QED
    BY <2>1 DEF HealthyAreCounted, Made, Defective
<1> QED
  BY <1>1, AutomatonInvariant, PTL

\* nextStep: for a lattice of any size, after every step the statistics count the lattice,
\* and no cell is older than its kind lives.
THEOREM LatticeMade ==
  ASSUME LatticeAssumption
  PROVE  CASpec => []LatticeIsMade
<1>1. CAInv => LatticeIsMade
  BY DEF CAInv
<1> QED
  BY <1>1, AutomatonInvariant, PTL

-----------------------------------------------------------------------------
(* The interleaver.  Quotients first.                                      *)

\* What a quotient and a remainder are.
LEMMA Quotient ==
  ASSUME NEW a \in Nat, NEW m \in Nat \ {0}
  PROVE  /\ a \div m \in Nat /\ a % m \in 0..m - 1 /\ a = m * (a \div m) + (a % m)
  OBVIOUS

\* The quotient and the remainder are the only ones.
LEMMA QuotientIs ==
  ASSUME NEW m \in Nat \ {0}, NEW q \in Int, NEW r \in 0..m - 1, NEW a \in Nat, a = m * q + r
  PROVE  a \div m = q /\ a % m = r
<1> DEFINE u == a \div m
           v == a % m
<1>1. u \in Nat /\ v \in 0..m - 1 /\ a = m * u + v
  BY Quotient
<1> HIDE DEF u, v
<1>2. CASE u < q
  <2>1. m * (u + 1) <= m * q
    BY <1>1, <1>2
  <2>2. m * (u + 1) = m * u + m
    BY <1>1
  <2> QED
    BY <1>1, <2>1, <2>2
<1>3. CASE q < u
  <2>1. m * (q + 1) <= m * u
    BY <1>1, <1>3
  <2>2. m * (q + 1) = m * q + m
    BY <1>1
  <2> QED
    BY <1>1, <2>1, <2>2
<1>4. CASE q = u
  BY <1>1, <1>4
<1>5. q = u /\ v = r
  BY <1>1, <1>2, <1>3, <1>4
<1> QED
  BY <1>5 DEF u, v

\* A product grows with its factor.
LEMMA Times ==
  ASSUME NEW a \in Int, NEW b \in Int, NEW c \in Nat, a <= b
  PROVE  a * c <= b * c /\ (b - a) * c = b * c - a * c /\ a * c \in Int /\ b * c \in Int
OBVIOUS

\* common.hpp: a word has data; there may be no parity symbols.
InterAssumption == /\ dataSize \in Nat \ {0} /\ paritySize \in Nat
                   /\ Sizes \subseteq Nat

\* Of a file of so many symbols, which is no number of whole words: how many words there
\* are, the length of the last one, and of all.
Words(s) == (s \div dataSize) + 1
Last(s)  == (s % dataSize) + paritySize
Total(s) == (s \div dataSize) * blockSize + Last(s)
LengthOf(s, j) == IF j = Words(s) - 1 THEN Last(s) ELSE blockSize
Symbols(s)  == {x \in Nat \X Nat : x[1] < Words(s) /\ x[2] < LengthOf(s, x[1])}
Spot(s, x) == Map(x[1], x[2], Words(s), Last(s))

\* A file of s symbols has Words(s) - 1 whole words and one that is shorter.
LEMMA SizeFacts ==
  ASSUME InterAssumption, NEW s \in Nat, s % dataSize # 0
  PROVE  /\ dataSize \in Nat /\ dataSize > 0 /\ paritySize \in Nat
         /\ blockSize = dataSize + paritySize
         /\ Words(s) - 1 \in Nat /\ s \div dataSize = Words(s) - 1 /\ Words(s) \in Nat
         /\ Last(s) \in Nat /\ Last(s) < blockSize /\ Last(s) > paritySize
         /\ s = dataSize * (Words(s) - 1) + (Last(s) - paritySize)
         /\ Total(s) = blockSize * (Words(s) - 1) + Last(s) /\ Total(s) \in Nat
<1>1. dataSize \in Nat \ {0} /\ paritySize \in Nat
  BY DEF InterAssumption
<1> DEFINE W == s \div dataSize
           r == s % dataSize
<1>2. W \in Nat /\ r \in 0..dataSize - 1 /\ s = dataSize * W + r /\ r # 0
  BY <1>1, Quotient
<1>3. Words(s) = W + 1 /\ Last(s) = r + paritySize /\ Total(s) = W * blockSize + Last(s)
  BY DEF Words, Last, Total
<1> HIDE DEF W, r
<1>4. blockSize = dataSize + paritySize
  BY DEF blockSize
<1>5. /\ Words(s) - 1 \in Nat /\ W = Words(s) - 1 /\ Words(s) \in Nat
      /\ Last(s) \in Nat /\ Last(s) < blockSize /\ Last(s) > paritySize
  BY <1>1, <1>2, <1>3, <1>4
<1>6. s = dataSize * (Words(s) - 1) + (Last(s) - paritySize)
  BY <1>1, <1>2, <1>3
<1>7. Total(s) = blockSize * (Words(s) - 1) + Last(s) /\ Total(s) \in Nat
  <2>1. W * blockSize = blockSize * W /\ W * blockSize \in Nat
    BY <1>1, <1>2, <1>4
  <2> QED
    BY <1>2, <1>3, <1>5, <2>1
<1> QED
  BY <1>1, <1>4, <1>5, <1>6, <1>7 DEF W

\* What the two programs compute of it.
LEMMA CeilDivIs ==
  ASSUME NEW m \in Nat \ {0}, NEW q \in Nat, NEW r \in 1..m, NEW a, a = m * q + r
  PROVE  CeilDiv(a, m) = q + 1
<1> DEFINE b == a + m - 1
<1>1. m * (q + 1) = m * q + m /\ m * q \in Nat
  OBVIOUS
<1>2. b \in Nat /\ b = m * (q + 1) + (r - 1) /\ r - 1 \in 0..m - 1 /\ q + 1 \in Int
  BY <1>1
<1> HIDE DEF b
<1>3. b \div m = q + 1
  BY <1>2, QuotientIs
<1> QED
  BY <1>3 DEF CeilDiv, b

\* So encodeInput and decodeInput compute as many words, and the same length of the last.
LEMMA Computed ==
  ASSUME InterAssumption, NEW s \in Nat, s % dataSize # 0
  PROVE  /\ CeilDiv(s, dataSize) = Words(s)
         /\ CeilDiv(Total(s), blockSize) = Words(s)
         /\ Total(s) % blockSize = Last(s)
<1>1. /\ dataSize \in Nat /\ dataSize > 0 /\ paritySize \in Nat
      /\ blockSize = dataSize + paritySize
      /\ Words(s) - 1 \in Nat /\ Words(s) \in Nat
      /\ Last(s) \in Nat /\ Last(s) < blockSize /\ Last(s) > paritySize
      /\ s = dataSize * (Words(s) - 1) + (Last(s) - paritySize)
      /\ Total(s) = blockSize * (Words(s) - 1) + Last(s) /\ Total(s) \in Nat
  BY SizeFacts
<1> DEFINE w == Words(s) - 1
<1>2. (w + 1) = Words(s) /\ w \in Nat
  BY <1>1
<1>3. dataSize \in Nat \ {0} /\ blockSize \in Nat \ {0}
  BY <1>1
<1>4. CeilDiv(s, dataSize) = w + 1
  <2>1. Last(s) - paritySize \in 1..dataSize
    BY <1>1
  <2> QED
    BY <1>1, <1>2, <1>3, <2>1, CeilDivIs
<1>5. CeilDiv(Total(s), blockSize) = w + 1
  <2>1. Last(s) \in 1..blockSize
    BY <1>1
  <2> QED
    BY <1>1, <1>2, <1>3, <2>1, CeilDivIs
<1>6. Total(s) % blockSize = Last(s)
  <2>1. Last(s) \in 0..blockSize - 1 /\ w \in Int
    BY <1>1
  <2>2. Total(s) = blockSize * w + Last(s) /\ Total(s) \in Nat
    BY <1>1
  <2> HIDE DEF w
  <2>3. Total(s) \div blockSize = w /\ Total(s) % blockSize = Last(s)
    BY <1>3, <2>1, <2>2, QuotientIs
  <2> QED
    BY <2>3
<1> QED
  BY <1>2, <1>4, <1>5, <1>6

-----------------------------------------------------------------------------
(* Places: those of the first symbols, then of the second ones, and so on. *)

Start(s, k)  == Map(0, k, Words(s), Last(s))
InRow(s, k)  == IF k < Last(s) THEN Words(s) ELSE Words(s) - 1

\* The symbols with index k are in one row of places, from Start(s, k) on.
LEMMA StartIs ==
  ASSUME InterAssumption, NEW s \in Nat, s % dataSize # 0, NEW k \in Nat
  PROVE  /\ Start(s, k) = k * Words(s) - (IF k > Last(s) THEN k - Last(s) ELSE 0)
         /\ k * Words(s) \in Nat /\ Start(s, k) \in Int
         /\ \A j \in Nat : Map(j, k, Words(s), Last(s)) = Start(s, k) + j
<1>1. Words(s) \in Nat /\ Last(s) \in Nat
  BY SizeFacts
<1>2. k * Words(s) \in Nat
  BY <1>1
<1> DEFINE t == k * Words(s)
           c == IF k > Last(s) THEN k - Last(s) ELSE 0
<1>3. c \in Int
  BY <1>1
<1>4. Start(s, k) = 0 + t - c /\ \A j : Map(j, k, Words(s), Last(s)) = j + t - c
  BY DEF Start, Map
<1>5. t \in Nat
  BY <1>2
<1> HIDE DEF t, c
<1>6. Start(s, k) = t - c /\ \A j \in Nat : Map(j, k, Words(s), Last(s)) = Start(s, k) + j
  BY <1>3, <1>4, <1>5
<1> QED
  BY <1>3, <1>5, <1>6 DEF t, c

\* A later row begins where the earlier ones end or further on; between rows there is
\* a word's length at least, but for one place.
LEMMA StartFurther ==
  ASSUME InterAssumption, NEW s \in Nat, s % dataSize # 0, NEW k \in Nat, NEW m \in Nat, k < m
  PROVE  /\ Start(s, k) + InRow(s, k) <= Start(s, m)
         /\ Start(s, k) + (m - k) * (Words(s) - 1) <= Start(s, m)
         /\ m <= Last(s) => Start(s, m) = Start(s, k) + (m - k) * Words(s)
<1>1. Words(s) \in Nat /\ Words(s) - 1 \in Nat /\ Last(s) \in Nat
  BY SizeFacts
<1> DEFINE W == Words(s)
           L == Last(s)
<1>2. /\ Start(s, k) = k * W - (IF k > L THEN k - L ELSE 0)
      /\ Start(s, m) = m * W - (IF m > L THEN m - L ELSE 0)
      /\ k * W \in Nat /\ m * W \in Nat
  BY StartIs
<1>3. W \in Nat /\ L \in Nat /\ W - 1 \in Nat
  BY <1>1
<1>4. InRow(s, k) = IF k < L THEN W ELSE W - 1
  BY DEF InRow
<1> HIDE DEF W, L
<1>5. /\ (m - k) * W = m * W - k * W
      /\ (m - k) * (W - 1) = (m - k) * W - (m - k)
      /\ (m - k) * W \in Int
  BY <1>3
<1>6. 1 * W <= (m - k) * W /\ 1 * (W - 1) <= (m - k) * (W - 1)
  BY <1>3, Times
<1>7. 1 * W = W /\ 1 * (W - 1) = W - 1
  BY <1>3
<1> DEFINE a == k * W
           b == m * W
           e == (m - k) * W
           f == (m - k) * (W - 1)
<1>8. /\ Start(s, k) = a - (IF k > L THEN k - L ELSE 0)
      /\ Start(s, m) = b - (IF m > L THEN m - L ELSE 0)
      /\ a \in Int /\ b \in Int /\ e \in Int /\ e = b - a /\ f = e - (m - k)
      /\ W <= e /\ W - 1 <= f
  BY <1>2, <1>5, <1>6, <1>7
<1> HIDE DEF a, b, e, f
<1>9. Start(s, k) + f <= Start(s, m) /\ (m <= L => Start(s, m) = Start(s, k) + e)
  BY <1>3, <1>8
<1>10. Start(s, k) + InRow(s, k) <= Start(s, m)
  <2>1. CASE m <= L
    BY <1>3, <1>4, <1>8, <2>1
  <2>2. CASE k >= L
    BY <1>3, <1>4, <1>8, <2>2
  <2>3. CASE k < L /\ L < m
    <3>1. (m - k) * (W - 1) = (m - L) * (W - 1) + (L - k) * (W - 1)
      BY <1>3
    <3>2. 1 * (W - 1) <= (L - k) * (W - 1) /\ 1 * (W - 1) = W - 1
      BY <1>3, <2>3, Times
    <3>3. 0 * (W - 1) <= (m - L) * (W - 1) /\ 0 * (W - 1) = 0
      BY <1>3, <2>3, Times
    <3> DEFINE g == (m - L) * (W - 1)
               h == (L - k) * (W - 1)
    <3>4. f = g + h /\ W - 1 <= h /\ 0 <= g /\ g \in Int /\ h \in Int
      <4>1. g \in Int /\ h \in Int
        BY <1>3
      <4> QED
        BY <3>1, <3>2, <3>3, <4>1 DEF f
    <3> HIDE DEF g, h
    <3>5. Start(s, m) - Start(s, k) = f + (m - k) - (m - L)
      BY <1>3, <1>8, <2>3
    <3> QED
      BY <1>3, <1>4, <1>8, <2>3, <3>4, <3>5
  <2> QED
    BY <1>3, <2>1, <2>2, <2>3
<1> QED
  BY <1>9, <1>10 DEF W, L, e, f

\* What is known of a symbol of the file, and its place.
LEMMA SymbolFacts ==
  ASSUME InterAssumption, NEW s \in Nat, s % dataSize # 0, NEW x \in Symbols(s)
  PROVE  /\ x = <<x[1], x[2]>> /\ x[1] \in Nat /\ x[2] \in Nat
         /\ x[1] < Words(s) /\ x[2] < LengthOf(s, x[1]) /\ x[2] < blockSize
         /\ x[1] < InRow(s, x[2]) /\ InRow(s, x[2]) \in Nat
         /\ Spot(s, x) = Start(s, x[2]) + x[1] /\ Start(s, x[2]) \in Int
<1>1. /\ x = <<x[1], x[2]>> /\ x[1] \in Nat /\ x[2] \in Nat
      /\ x[1] < Words(s) /\ x[2] < LengthOf(s, x[1])
  BY DEF Symbols
<1>2. Words(s) \in Nat /\ Words(s) - 1 \in Nat /\ Last(s) \in Nat /\ Last(s) < blockSize
      /\ blockSize \in Nat
  BY SizeFacts
<1>3. x[2] < blockSize /\ (x[2] >= Last(s) => x[1] # Words(s) - 1)
  BY <1>1, <1>2 DEF LengthOf
<1>4. x[1] < InRow(s, x[2]) /\ InRow(s, x[2]) \in Nat
  BY <1>1, <1>2, <1>3 DEF InRow
<1>5. Spot(s, x) = Start(s, x[2]) + x[1] /\ Start(s, x[2]) \in Int
  BY <1>1, StartIs DEF Spot
<1> QED
  BY <1>1, <1>3, <1>4, <1>5

\* The place of a symbol is in the file.
LEMMA SpotIn ==
  ASSUME InterAssumption, NEW s \in Nat, s % dataSize # 0, NEW x \in Symbols(s)
  PROVE  Spot(s, x) \in 0..Total(s) - 1
<1>1. /\ x[1] \in Nat /\ x[2] \in Nat /\ x[2] < blockSize
      /\ x[1] < InRow(s, x[2]) /\ InRow(s, x[2]) \in Nat
      /\ Spot(s, x) = Start(s, x[2]) + x[1] /\ Start(s, x[2]) \in Int
  BY SymbolFacts
<1>2. Words(s) \in Nat /\ Words(s) - 1 \in Nat /\ Last(s) \in Nat /\ Last(s) < blockSize
      /\ blockSize \in Nat /\ Total(s) = blockSize * (Words(s) - 1) + Last(s)
      /\ Total(s) \in Nat
  BY SizeFacts
<1>3. Start(s, x[2]) >= 0
  <2>1. Start(s, 0) = 0 * Words(s) - 0 /\ Start(s, 0) \in Int
    BY <1>2, StartIs
  <2>2. Start(s, 0) = 0
    BY <1>2, <2>1
  <2>3. CASE x[2] = 0
    BY <2>2, <2>3
  <2>4. CASE 0 < x[2]
    <3>1. Start(s, 0) + InRow(s, 0) <= Start(s, x[2])
      BY <1>1, <2>4, StartFurther
    <3>2. InRow(s, 0) \in Nat
      BY <1>2 DEF InRow
    <3> QED
      BY <1>1, <2>2, <3>1, <3>2
  <2> QED
    BY <1>1, <2>3, <2>4
<1>4. Start(s, x[2]) + InRow(s, x[2]) <= Total(s)
  <2>1. Start(s, x[2]) + InRow(s, x[2]) <= Start(s, blockSize)
    BY <1>1, <1>2, StartFurther
  <2>2. Start(s, blockSize) = blockSize * Words(s) - (blockSize - Last(s))
    BY <1>2, StartIs
  <2>3. blockSize * Words(s) = blockSize * (Words(s) - 1) + blockSize
        /\ blockSize * (Words(s) - 1) \in Nat
    BY <1>2
  <2>4. Start(s, blockSize) = Total(s)
    BY <1>2, <2>2, <2>3
  <2> QED
    BY <2>1, <2>4
<1> QED
  BY <1>1, <1>2, <1>3, <1>4

\* No two symbols have one place.
LEMMA SpotsApart ==
  ASSUME InterAssumption, NEW s \in Nat, s % dataSize # 0,
         NEW x \in Symbols(s), NEW y \in Symbols(s), Spot(s, x) = Spot(s, y)
  PROVE  x = y
<1>1. ASSUME NEW v \in Symbols(s), NEW w \in Symbols(s), v[2] < w[2]
      PROVE  Spot(s, v) # Spot(s, w)
  <2>1. /\ v[1] \in Nat /\ v[2] \in Nat /\ v[1] < InRow(s, v[2]) /\ InRow(s, v[2]) \in Nat
        /\ Spot(s, v) = Start(s, v[2]) + v[1] /\ Start(s, v[2]) \in Int
    BY SymbolFacts
  <2>2. /\ w[1] \in Nat /\ w[2] \in Nat
        /\ Spot(s, w) = Start(s, w[2]) + w[1] /\ Start(s, w[2]) \in Int
    BY SymbolFacts
  <2>3. Start(s, v[2]) + InRow(s, v[2]) <= Start(s, w[2])
    BY <1>1, <2>1, <2>2, StartFurther
  <2> QED
    BY <2>1, <2>2, <2>3
<1>2. /\ x = <<x[1], x[2]>> /\ x[1] \in Nat /\ x[2] \in Nat
      /\ Spot(s, x) = Start(s, x[2]) + x[1] /\ Start(s, x[2]) \in Int
  BY SymbolFacts
<1>3. /\ y = <<y[1], y[2]>> /\ y[1] \in Nat /\ y[2] \in Nat
      /\ Spot(s, y) = Start(s, y[2]) + y[1] /\ Start(s, y[2]) \in Int
  BY SymbolFacts
<1>4. x[2] = y[2]
  <2>1. ~(x[2] < y[2]) /\ ~(y[2] < x[2])
    BY <1>1
  <2> QED
    BY <1>2, <1>3, <2>1
<1>5. x[1] = y[1]
  <2> DEFINE a == Start(s, x[2])
  <2>1. a = Start(s, y[2])
    BY <1>4
  <2>2. a + x[1] = a + y[1] /\ a \in Int /\ x[1] \in Nat /\ y[1] \in Nat
    BY <1>2, <1>3, <2>1
  <2> HIDE DEF a
  <2> QED
    BY <2>2
<1> QED
  BY <1>2, <1>3, <1>4, <1>5

\* How far two symbols of a word are apart at least; and which of word j a burst hits that is b
\* symbols long.
Apart(s) == IF Words(s) > 1 THEN Words(s) - 1 ELSE 1
Hit(s, j, from, b) ==
  {k \in 0..LengthOf(s, j) - 1 : Spot(s, <<j, k>>) \in from..from + b - 1}

\* Of numbers that are less than q apart there are no more than q.
LEMMA FewNumbers ==
  ASSUME NEW q \in Nat, NEW S \in SUBSET Nat, \A k, m \in S : k < m => m - k < q,
         S # {} => q > 0
  PROVE  IsFiniteSet(S) /\ Cardinality(S) <= q
<1>1. CASE S = {}
  BY <1>1, FS_EmptySet
<1>2. CASE S # {}
  <2>1. PICK k \in S : \A m \in S : k <= m
    BY <1>2, Least
  <2>2. S \subseteq k..k + q - 1
    <3>1. ASSUME NEW m \in S PROVE m \in k..k + q - 1
      <4>1. k \in Nat /\ m \in Nat /\ k <= m
        BY <2>1
      <4>2. k < m => m - k < q
        OBVIOUS
      <4> QED
        BY <1>2, <4>1, <4>2
    <3> QED
      BY <3>1
  <2>3. k \in Int /\ k + q - 1 \in Int /\ k + q - 1 - k + 1 = q /\ k <= k + q - 1
    BY <1>2
  <2>4. IsFiniteSet(k..k + q - 1) /\ Cardinality(k..k + q - 1) = q
    <3> DEFINE b == k + q - 1
    <3>1. b \in Int /\ k <= b /\ b - k + 1 = q /\ k \in Int
      BY <2>3
    <3> HIDE DEF b
    <3>2. IsFiniteSet(k..b) /\ Cardinality(k..b) = b - k + 1
      BY <3>1, FS_Interval
    <3> QED
      BY <3>1, <3>2 DEF b
  <2>5. IsFiniteSet(S) /\ Cardinality(S) <= Cardinality(k..k + q - 1)
    BY <2>2, <2>4, FS_Subset
  <2> QED
    BY <2>4, <2>5
<1> QED
  BY <1>1, <1>2

\* So a burst that is not longer than q times as far hits at most q symbols of a word.
LEMMA FewHits ==
  ASSUME InterAssumption, NEW s \in Nat, s % dataSize # 0, NEW j \in Nat, j < Words(s),
         NEW from \in Int, NEW b \in Int, NEW q \in Nat, b <= Apart(s) * q
  PROVE  IsFiniteSet(Hit(s, j, from, b)) /\ Cardinality(Hit(s, j, from, b)) <= q
<1> DEFINE S == Hit(s, j, from, b)
<1>1. Words(s) \in Nat /\ Words(s) - 1 \in Nat /\ Last(s) \in Nat /\ blockSize \in Nat
  BY SizeFacts
<1>2. LengthOf(s, j) \in Nat /\ Apart(s) \in Nat
  BY <1>1 DEF LengthOf, Apart
<1>3. S \in SUBSET Nat
  BY <1>2 DEF Hit
<1>4. ASSUME NEW k \in S
      PROVE  /\ k \in Nat /\ k < LengthOf(s, j) /\ Start(s, k) \in Int
             /\ Start(s, k) + j >= from /\ Start(s, k) + j < from + b
  <2>1. k \in Nat /\ k < LengthOf(s, j) /\ Spot(s, <<j, k>>) \in from..from + b - 1
    BY <1>2 DEF Hit
  <2>2. Spot(s, <<j, k>>) = Start(s, k) + j /\ Start(s, k) \in Int
    BY <2>1, StartIs DEF Spot
  <2> QED
    BY <2>1, <2>2
<1> HIDE DEF S
<1>5. ASSUME NEW k \in S, NEW m \in S, k < m PROVE m - k < q
  <2>1. /\ k \in Nat /\ k < LengthOf(s, j) /\ Start(s, k) \in Int
        /\ Start(s, k) + j >= from
    BY <1>4
  <2>2. /\ m \in Nat /\ m < LengthOf(s, j) /\ Start(s, m) \in Int
        /\ Start(s, m) + j < from + b
    BY <1>4
  <2>3. Start(s, k) + (m - k) * Apart(s) <= Start(s, m)
    <3>1. CASE Words(s) > 1
      BY <1>5, <2>1, <2>2, <3>1, StartFurther DEF Apart
    <3>2. CASE ~(Words(s) > 1)
      <4>1. Words(s) = 1 /\ j = 0
        BY <1>1, <3>2
      <4>2. m <= Last(s)
        BY <1>1, <2>2, <4>1 DEF LengthOf
      <4>3. Start(s, m) = Start(s, k) + (m - k) * Words(s)
        BY <1>5, <2>1, <2>2, <4>2, StartFurther
      <4>4. Apart(s) = 1
        BY <3>2 DEF Apart
      <4> QED
        BY <2>1, <2>2, <4>1, <4>3, <4>4
    <3> QED
      BY <3>1, <3>2
  <2>4. (m - k) * Apart(s) < Apart(s) * q
    <3> DEFINE e == (m - k) * Apart(s)
               f == Apart(s) * q
    <3>1. e \in Int /\ f \in Int
      BY <1>2, <2>1, <2>2
    <3>2. Start(s, k) + e <= Start(s, m) /\ b <= f
      BY <2>3
    <3> HIDE DEF e, f
    <3>3. e < f
      BY <2>1, <2>2, <3>1, <3>2
    <3> QED
      BY <3>3 DEF e, f
  <2>5. ASSUME q <= m - k PROVE FALSE
    <3>1. q * Apart(s) <= (m - k) * Apart(s) /\ q * Apart(s) = Apart(s) * q
          /\ q * Apart(s) \in Int /\ (m - k) * Apart(s) \in Int
      BY <1>2, <2>1, <2>2, <2>5, Times
    <3> QED
      BY <2>4, <3>1
  <2> QED
    BY <2>1, <2>2, <2>5
<1>6. S # {} => q > 0
  <2>1. ASSUME NEW k \in S PROVE q # 0
    <3>1. b > 0
      BY <1>4
    <3>2. q = 0 => Apart(s) * q = 0
      BY <1>2
    <3> QED
      BY <3>1, <3>2
  <2> QED
    BY <2>1
<1>7. IsFiniteSet(S) /\ Cardinality(S) <= q
  BY <1>3, <1>5, <1>6, FewNumbers
<1> QED
  BY <1>7 DEF S

-----------------------------------------------------------------------------
(* What the two programs take for the length of a word, and its data.      *)

\* The words before the last end where it begins, or before.
LEMMA Multiples ==
  ASSUME NEW b \in Nat, NEW w \in Nat, NEW j \in Nat
  PROVE  /\ j < w => (j + 1) * b <= b * w
         /\ (j + 1) * b = b * j + b /\ j * b = b * j /\ b * j \in Nat /\ b * w \in Nat
         /\ (j + 1) * b \in Nat
<1>1. (j + 1) * b = b * j + b /\ j * b = b * j /\ b * j \in Nat /\ b * w \in Nat
      /\ (j + 1) * b \in Nat /\ w * b = b * w
  OBVIOUS
<1>2. ASSUME j < w PROVE (j + 1) * b <= b * w
  <2>1. j + 1 <= w /\ j + 1 \in Int /\ w \in Int
    BY <1>2
  <2>2. (j + 1) * b <= w * b
    BY <2>1, Times
  <2> QED
    BY <1>1, <2>2
<1> QED
  BY <1>1, <1>2

\* What encoder and decoder take for the length of a word is that.
LEMMA LengthIs ==
  ASSUME InterAssumption, NEW s \in Nat, s % dataSize # 0, NEW j \in 0..Words(s) - 1
  PROVE  /\ paritySize + (IF (j + 1) * dataSize > s THEN s - j * dataSize ELSE dataSize)
              = LengthOf(s, j)
         /\ (IF (j + 1) * blockSize >= Total(s) THEN Total(s) - j * blockSize ELSE blockSize)
              = LengthOf(s, j)
         /\ LengthOf(s, j) \in Nat /\ LengthOf(s, j) > paritySize
         /\ LengthOf(s, j) <= blockSize
<1>1. /\ dataSize \in Nat /\ dataSize > 0 /\ paritySize \in Nat
      /\ blockSize = dataSize + paritySize
      /\ Words(s) - 1 \in Nat /\ Words(s) \in Nat
      /\ Last(s) \in Nat /\ Last(s) < blockSize /\ Last(s) > paritySize
      /\ s = dataSize * (Words(s) - 1) + (Last(s) - paritySize)
      /\ Total(s) = blockSize * (Words(s) - 1) + Last(s) /\ Total(s) \in Nat
  BY SizeFacts
<1> DEFINE w == Words(s) - 1
<1>2. w \in Nat /\ j \in Nat /\ j <= w /\ blockSize \in Nat
  BY <1>1
<1>3. s = dataSize * w + (Last(s) - paritySize) /\ Total(s) = blockSize * w + Last(s)
  BY <1>1
<1>4. LengthOf(s, j) = IF j = w THEN Last(s) ELSE blockSize
  BY DEF LengthOf
<1> HIDE DEF w
<1> DEFINE a == dataSize * w
           e == blockSize * w
           ja == j * dataSize
           je == j * blockSize
           na == (j + 1) * dataSize
           ne == (j + 1) * blockSize
<1>5. /\ j < w => na <= a /\ ne <= e
      /\ na = ja + dataSize /\ ne = je + blockSize
      /\ a \in Nat /\ e \in Nat /\ ja \in Nat /\ je \in Nat
      /\ j = w => ja = a /\ je = e
  <2>1. /\ j < w => na <= a
        /\ na = dataSize * j + dataSize /\ ja = dataSize * j /\ ja \in Nat /\ a \in Nat
    BY <1>1, <1>2, Multiples
  <2>2. /\ j < w => ne <= e
        /\ ne = blockSize * j + blockSize /\ je = blockSize * j /\ je \in Nat /\ e \in Nat
    BY <1>1, <1>2, Multiples
  <2> QED
    BY <2>1, <2>2
<1>6. s = a + (Last(s) - paritySize) /\ Total(s) = e + Last(s)
  BY <1>3
<1> HIDE DEF a, e, ja, je, na, ne
<1>7. CASE j < w
  <2>1. ~(na > s) /\ ~(ne >= Total(s))
    BY <1>1, <1>5, <1>6, <1>7
  <2> QED
    BY <1>1, <1>2, <1>4, <1>7, <2>1 DEF na, ne
<1>8. CASE j = w
  <2> DEFINE r == Last(s)
  <2>1. /\ ja = a /\ je = e /\ na = a + dataSize /\ ne = e + blockSize
        /\ s = a + (r - paritySize) /\ Total(s) = e + r
        /\ a \in Nat /\ e \in Nat /\ r \in Nat /\ r > paritySize /\ r < blockSize
        /\ blockSize = dataSize + paritySize /\ dataSize \in Nat /\ paritySize \in Nat
        /\ blockSize \in Nat
    BY <1>1, <1>2, <1>5, <1>6, <1>8
  <2> HIDE DEF r
  <2>2. r - paritySize < dataSize
    BY <2>1
  <2>3. na > s
    BY <2>1, <2>2
  <2>4. ne >= Total(s)
    BY <2>1
  <2>5. paritySize + (s - ja) = r
    BY <2>1
  <2>6. Total(s) - je = r
    BY <2>1
  <2>7. na > s /\ ne >= Total(s) /\ paritySize + (s - ja) = Last(s) /\ Total(s) - je = Last(s)
    BY <2>3, <2>4, <2>5, <2>6 DEF r
  <2> QED
    BY <1>1, <1>2, <1>4, <1>8, <2>7 DEF na, ne, ja, je
<1> QED
  BY <1>2, <1>7, <1>8

\* The data of a word's symbols are the symbols of the file.
LEMMA DataIs ==
  ASSUME InterAssumption, NEW s \in Nat, s % dataSize # 0
  PROVE  UNION {{j} \X (0..LengthOf(s, j) - paritySize - 1) : j \in 0..Words(s) - 1}
           = {<<k \div dataSize, k % dataSize>> : k \in 0..s - 1}
<1>1. /\ dataSize \in Nat /\ dataSize > 0 /\ paritySize \in Nat
      /\ blockSize = dataSize + paritySize
      /\ Words(s) - 1 \in Nat /\ Words(s) \in Nat
      /\ Last(s) \in Nat /\ Last(s) < blockSize /\ Last(s) > paritySize
      /\ s = dataSize * (Words(s) - 1) + (Last(s) - paritySize)
  BY SizeFacts
<1> DEFINE w == Words(s) - 1
           r == Last(s) - paritySize
           A == UNION {{j} \X (0..LengthOf(s, j) - paritySize - 1) : j \in 0..w}
           B == {<<k \div dataSize, k % dataSize>> : k \in 0..s - 1}
<1>2. w \in Nat /\ r \in 1..dataSize - 1 /\ s = dataSize * w + r /\ dataSize * w \in Nat
  BY <1>1
<1>3. \A j \in 0..w : LengthOf(s, j) - paritySize = IF j = w THEN r ELSE dataSize
  BY <1>1 DEF LengthOf
<1> HIDE DEF w, r
<1>4. ASSUME NEW x \in A PROVE x \in B
  <2>1. PICK j \in 0..w : x \in {j} \X (0..LengthOf(s, j) - paritySize - 1)
    OBVIOUS
  <2>2. PICK k \in 0..LengthOf(s, j) - paritySize - 1 : x = <<j, k>>
    BY <2>1
  <2>3. k \in 0..dataSize - 1 /\ (j = w => k < r) /\ k \in Nat /\ j \in Nat /\ j <= w
    BY <1>1, <1>2, <1>3, <2>2
  <2> DEFINE p == dataSize * j + k
  <2>4. /\ j < w => (j + 1) * dataSize <= dataSize * w
        /\ (j + 1) * dataSize = dataSize * j + dataSize /\ dataSize * j \in Nat
    BY <1>1, <1>2, <2>3, Multiples
  <2>5. p \in 0..s - 1 /\ p \in Nat
    <3>1. CASE j < w
      BY <1>1, <1>2, <2>3, <2>4, <3>1
    <3>2. CASE j = w
      BY <1>1, <1>2, <2>3, <2>4, <3>2
    <3> QED
      BY <1>2, <2>3, <3>1, <3>2
  <2>6. p = dataSize * j + k /\ dataSize \in Nat \ {0} /\ j \in Int
    BY <1>1
  <2> HIDE DEF p
  <2>7. p \div dataSize = j /\ p % dataSize = k
    BY <2>3, <2>5, <2>6, QuotientIs
  <2> QED
    BY <2>2, <2>5, <2>7
<1>5. ASSUME NEW x \in B PROVE x \in A
  <2>1. PICK k \in 0..s - 1 : x = <<k \div dataSize, k % dataSize>>
    OBVIOUS
  <2> DEFINE j == k \div dataSize
             i == k % dataSize
  <2>2. j \in Nat /\ i \in 0..dataSize - 1 /\ k = dataSize * j + i /\ k < s /\ x = <<j, i>>
        /\ k \in Nat
    <3>1. k \in Nat /\ k < s /\ dataSize \in Nat \ {0}
      BY <1>1
    <3>2. j \in Nat /\ i \in 0..dataSize - 1 /\ k = dataSize * j + i
      BY <3>1, Quotient
    <3>3. x = <<j, i>>
      BY <2>1
    <3> QED
      BY <3>1, <3>2, <3>3
  <2> HIDE DEF j, i
  <2>3. /\ w < j => (w + 1) * dataSize <= dataSize * j
        /\ (w + 1) * dataSize = dataSize * w + dataSize
        /\ dataSize * j \in Nat
    <3>1. /\ w < j => (w + 1) * dataSize <= dataSize * j
          /\ (w + 1) * dataSize = dataSize * w + dataSize
      BY <1>1, <1>2, <2>2, Multiples
    <3>2. dataSize * j \in Nat
      BY <1>1, <2>2
    <3> QED
      BY <3>1, <3>2
  <2>4. j <= w
    BY <1>1, <1>2, <2>2, <2>3
  <2>5. j \in 0..w /\ (j = w => i < r)
    BY <1>1, <1>2, <2>2, <2>4
  <2>6. i \in 0..LengthOf(s, j) - paritySize - 1
    BY <1>1, <1>2, <1>3, <2>2, <2>5
  <2>7. x \in {j} \X (0..LengthOf(s, j) - paritySize - 1)
    BY <2>2, <2>6
  <2> QED
    BY <2>5, <2>7
<1>6. A = B
  BY <1>4, <1>5
<1> QED
  BY <1>6 DEF w

-----------------------------------------------------------------------------
(* The file on its way.                                                    *)

\* What is on the way, and what the decoder reads of it: every symbol in its place, but for
\* the burst's.
InterInv ==
  /\ size \in Nat
  /\ (program = "medium" /\ size % dataSize # 0) =>
       /\ DOMAIN medium = 0..Total(size) - 1
       /\ \A x \in Symbols(size) : medium[Spot(size, x)] = x
  /\ (program = "decoder" /\ size % dataSize # 0) =>
       /\ DOMAIN medium = 0..Total(size) - 1 /\ burst \in Int
       /\ \E from \in Int : \A x \in Symbols(size) :
            Spot(size, x) \notin from..from + burst - 1 => medium[Spot(size, x)] = x
  /\ BurstsAreMended

\* encodeInput puts every symbol in its place.
LEMMA FileEncoded ==
  ASSUME InterAssumption, InterInv, EncodeInput
  PROVE  InterInv'
<1>1. program' = "medium" /\ size' \in Nat
  BY DEF EncodeInput, InterAssumption
<1>2. ASSUME size' % dataSize # 0
      PROVE  /\ DOMAIN medium' = 0..Total(size') - 1
             /\ \A x \in Symbols(size') : medium'[Spot(size', x)] = x
  <2> DEFINE s == size'
             last == (s % dataSize) + paritySize
             encodedSize == (s \div dataSize) * blockSize + IF s % dataSize # 0 THEN last ELSE 0
             blocks  == CeilDiv(encodedSize, blockSize)
             Length(j) == paritySize + IF (j + 1) * dataSize > s THEN s - j * dataSize ELSE dataSize
             symbols == UNION {{j} \X (0..Length(j) - 1) : j \in 0..CeilDiv(s, dataSize) - 1}
             For(m)  == {y \in symbols : Map(y[1], y[2], blocks, last) = m}
  <2>1. medium' = [m \in 0..encodedSize - 1 |->
                     IF For(m) = {} THEN Lost
                     ELSE CHOOSE y \in For(m) : \A t \in For(m) :
                            y[1] > t[1] \/ (y[1] = t[1] /\ y[2] >= t[2])]
    BY DEF EncodeInput
  <2>2. last = Last(s)
    BY DEF Last
  <2>3. encodedSize = Total(s)
    BY <1>2 DEF Last, Total
  <2>4. CeilDiv(s, dataSize) = Words(s) /\ blocks = Words(s)
    BY <1>1, <1>2, <2>3, Computed
  <2>5. Words(s) \in Nat /\ Words(s) - 1 \in Nat
    BY <1>1, <1>2, SizeFacts
  <2>6. \A j \in 0..Words(s) - 1 : Length(j) = LengthOf(s, j) /\ LengthOf(s, j) \in Nat
    BY <1>1, <1>2, LengthIs
  <2> HIDE DEF s, last, encodedSize, blocks, Length
  <2>7. symbols = Symbols(s)
    <3>1. ASSUME NEW x \in symbols PROVE x \in Symbols(s)
      <4>1. PICK j \in 0..Words(s) - 1 : x \in {j} \X (0..Length(j) - 1)
        BY <2>4
      <4>2. PICK i \in 0..Length(j) - 1 : x = <<j, i>>
        BY <4>1
      <4>3. j \in Nat /\ j < Words(s) /\ i \in Nat /\ i < LengthOf(s, j)
        BY <2>5, <2>6
      <4> QED
        BY <4>2, <4>3 DEF Symbols
    <3>2. ASSUME NEW x \in Symbols(s) PROVE x \in symbols
      <4>1. /\ x = <<x[1], x[2]>> /\ x[1] \in Nat /\ x[2] \in Nat
            /\ x[1] < Words(s) /\ x[2] < LengthOf(s, x[1])
        BY DEF Symbols
      <4>2. x[1] \in 0..CeilDiv(s, dataSize) - 1 /\ x[1] \in 0..Words(s) - 1
        BY <2>4, <2>5, <4>1
      <4>3. x[2] \in 0..Length(x[1]) - 1
        BY <2>6, <4>1, <4>2
      <4>4. x \in {x[1]} \X (0..Length(x[1]) - 1)
        BY <4>1, <4>3
      <4> QED
        BY <4>2, <4>4
    <3> QED
      BY <3>1, <3>2
  <2> HIDE DEF symbols
  <2>8. ASSUME NEW x \in Symbols(s) PROVE medium'[Spot(s, x)] = x
    <3>1. Spot(s, x) \in 0..encodedSize - 1
      BY <1>1, <1>2, <2>3, SpotIn DEF s
    <3>2. \A y \in Symbols(s) : Map(y[1], y[2], blocks, last) = Spot(s, y)
      BY <2>2, <2>4 DEF Spot
    <3>3. For(Spot(s, x)) = {x}
      <4>1. \A y \in Symbols(s) : Spot(s, y) = Spot(s, x) => y = x
        BY <1>1, <1>2, SpotsApart DEF s
      <4> QED
        BY <2>7, <3>2, <4>1
    <3>4. x[1] \in Nat /\ x[2] \in Nat
      BY DEF Symbols
    <3> HIDE DEF For
    <3>5. medium'[Spot(s, x)] = CHOOSE y \in {x} : \A t \in {x} :
                            y[1] > t[1] \/ (y[1] = t[1] /\ y[2] >= t[2])
      BY <2>1, <3>1, <3>3
    <3>6. \E y \in {x} : \A t \in {x} : y[1] > t[1] \/ (y[1] = t[1] /\ y[2] >= t[2])
      BY <3>4
    <3>7. (CHOOSE y \in {x} : \A t \in {x} :
                            y[1] > t[1] \/ (y[1] = t[1] /\ y[2] >= t[2])) \in {x}
      BY <3>6
    <3> QED
      BY <3>5, <3>7
  <2>9. DOMAIN medium' = 0..Total(s) - 1
    BY <2>1, <2>3
  <2> QED
    BY <2>8, <2>9 DEF s
<1> QED
  BY <1>1, <1>2 DEF InterInv, BurstsAreMended

\* The medium leaves all places alone but those of the burst.
LEMMA FileDamaged ==
  ASSUME InterAssumption, InterInv, Damage
  PROVE  InterInv'
<1>1. program = "medium" /\ program' = "decoder" /\ burst' \in Int /\ size' = size
  BY DEF Damage
<1>2. PICK from \in DOMAIN medium :
        medium' = [m \in DOMAIN medium |->
                     IF m \in from..from + burst' - 1 THEN Lost ELSE medium[m]]
  BY DEF Damage
<1>3. ASSUME size % dataSize # 0
      PROVE  /\ DOMAIN medium' = 0..Total(size) - 1
             /\ \E f \in Int : \A x \in Symbols(size) :
                  Spot(size, x) \notin f..f + burst' - 1 => medium'[Spot(size, x)] = x
  <2>1. /\ size \in Nat /\ DOMAIN medium = 0..Total(size) - 1
        /\ \A x \in Symbols(size) : medium[Spot(size, x)] = x
    BY <1>1, <1>3 DEF InterInv
  <2>2. from \in Int
    BY <2>1
  <2>3. \A x \in Symbols(size) : Spot(size, x) \in DOMAIN medium
    BY <1>3, <2>1, SpotIn
  <2>4. \A x \in Symbols(size) :
          Spot(size, x) \notin from..from + burst' - 1 => medium'[Spot(size, x)] = x
    BY <1>2, <2>1, <2>3
  <2> QED
    BY <1>2, <2>1, <2>2, <2>4
<1>4. size' \in Nat
  BY <1>1 DEF InterInv
<1> QED
  BY <1>1, <1>3, <1>4 DEF InterInv, BurstsAreMended

\* deInterleave fetches every symbol from its place, so what is wrong in a word was hit.
LEMMA FileDecoded ==
  ASSUME InterAssumption, InterInv, DecodeInput
  PROVE  InterInv'
<1>1. program = "decoder" /\ program' = "end" /\ UNCHANGED <<size, medium, burst>> /\ size \in Nat
  BY DEF DecodeInput, InterInv
<1>2. ASSUME size % dataSize # 0, Bearable
      PROVE  /\ DOMAIN written' = {<<k \div dataSize, k % dataSize>> : k \in 0..size - 1}
             /\ \A s \in DOMAIN written' : written'[s] = s
  <2> DEFINE s == size
             length == Cardinality(DOMAIN medium)
             blocks == CeilDiv(length, blockSize)
             last   == length % blockSize
             Fetched(j) == IF j = blocks - 1 THEN 0..last - 1 ELSE 0..blockSize - 1
             Length(j)  == IF (j + 1) * blockSize >= length THEN length - j * blockSize ELSE blockSize
             Got(j, i)  == IF i \in Fetched(j) THEN medium[Map(j, i, blocks, last)] ELSE Lost
             Wrong(j)   == {i \in 0..Length(j) - 1 : Got(j, i) # <<j, i>>}
             Mended(j, i) == IF Cardinality(Wrong(j)) <= paritySize \div 2 THEN <<j, i>> ELSE Got(j, i)
  <2>1. written' = [x \in UNION {{j} \X (0..Length(j) - paritySize - 1) : j \in 0..blocks - 1} |->
                      Mended(x[1], x[2])]
    BY DEF DecodeInput
  <2>2. s \in Nat /\ s % dataSize # 0 /\ DOMAIN medium = 0..Total(s) - 1 /\ burst \in Int
    BY <1>1, <1>2 DEF InterInv
  <2>3. PICK from \in Int : \A x \in Symbols(s) :
            Spot(s, x) \notin from..from + burst - 1 => medium[Spot(s, x)] = x
    BY <1>1, <1>2 DEF InterInv
  <2>4. /\ dataSize \in Nat /\ dataSize > 0 /\ paritySize \in Nat
        /\ blockSize = dataSize + paritySize
        /\ Words(s) - 1 \in Nat /\ Words(s) \in Nat
        /\ Last(s) \in Nat /\ Last(s) > paritySize
        /\ Total(s) = blockSize * (Words(s) - 1) + Last(s) /\ Total(s) \in Nat
    BY <2>2, SizeFacts
  <2>5. length = Total(s)
    <3>1. Total(s) > 0
      <4>1. blockSize * (Words(s) - 1) \in Nat
        BY <2>4
      <4> QED
        BY <2>4, <4>1
    <3> DEFINE t == Total(s)
               u == t - 1
    <3>2. u \in Int /\ 0 <= u /\ u - 0 + 1 = t /\ 0 \in Int
      BY <2>4, <3>1
    <3> HIDE DEF t, u
    <3>3. Cardinality(0..u) = u - 0 + 1
      BY <3>2, FS_Interval
    <3> QED
      BY <2>2, <3>2, <3>3 DEF t, u
  <2>6. blocks = Words(s) /\ last = Last(s)
    BY <2>2, <2>5, Computed
  <2>7. \A j \in 0..Words(s) - 1 : Length(j) = LengthOf(s, j) /\ LengthOf(s, j) \in Nat
    BY <2>2, <2>5, LengthIs
  <2>8. \A j \in 0..Words(s) - 1 : Fetched(j) = 0..LengthOf(s, j) - 1
    BY <2>6 DEF LengthOf
  <2>9. burst <= Apart(s) * (paritySize \div 2)
    BY <1>2, <2>6 DEF Bearable, Apart
  <2> HIDE DEF s, length, blocks, last, Length, Fetched
  <2>10. ASSUME NEW j \in 0..Words(s) - 1 PROVE Cardinality(Wrong(j)) <= paritySize \div 2
    <3> DEFINE q == paritySize \div 2
    <3>1. q \in Nat
      BY <2>4
    <3> HIDE DEF q
    <3>2. j \in Nat /\ j < Words(s)
      BY <2>4
    <3>3. IsFiniteSet(Hit(s, j, from, burst)) /\ Cardinality(Hit(s, j, from, burst)) <= q
      BY <2>2, <2>9, <3>1, <3>2, FewHits DEF q
    <3>4. Wrong(j) \subseteq Hit(s, j, from, burst)
      <4>1. ASSUME NEW i \in Wrong(j) PROVE i \in Hit(s, j, from, burst)
        <5>1. i \in 0..LengthOf(s, j) - 1 /\ Got(j, i) # <<j, i>>
          BY <2>7
        <5>2. Got(j, i) = medium[Map(j, i, Words(s), Last(s))]
          BY <2>6, <2>8, <5>1
        <5>3. i \in Nat /\ i < LengthOf(s, j)
          BY <2>7, <5>1
        <5>4. <<j, i>> \in Symbols(s)
          BY <3>2, <5>3 DEF Symbols
        <5>5. Spot(s, <<j, i>>) = Map(j, i, Words(s), Last(s))
          BY DEF Spot
        <5>6. Spot(s, <<j, i>>) \in from..from + burst - 1
          BY <2>3, <5>1, <5>2, <5>4, <5>5
        <5> QED
          BY <5>1, <5>6 DEF Hit
      <4> QED
        BY <4>1
    <3> HIDE DEF Wrong
    <3>5. IsFiniteSet(Wrong(j)) /\ Cardinality(Wrong(j)) <= Cardinality(Hit(s, j, from, burst))
      BY <3>3, <3>4, FS_Subset
    <3>6. Cardinality(Wrong(j)) \in Nat /\ Cardinality(Hit(s, j, from, burst)) \in Nat
      BY <3>3, <3>5, FS_CardinalityType
    <3> QED
      BY <3>1, <3>3, <3>5, <3>6 DEF q
  <2>11. ASSUME NEW j \in 0..Words(s) - 1, NEW i PROVE Mended(j, i) = <<j, i>>
    BY <2>10
  <2> HIDE DEF Wrong, Got, Mended
  <2> DEFINE D == UNION {{j} \X (0..LengthOf(s, j) - paritySize - 1) : j \in 0..Words(s) - 1}
  <2>12. UNION {{j} \X (0..Length(j) - paritySize - 1) : j \in 0..blocks - 1} = D
    BY <2>6, <2>7
  <2>13. D = {<<k \div dataSize, k % dataSize>> : k \in 0..s - 1}
    BY <2>2, DataIs
  <2>14. written' = [x \in D |-> Mended(x[1], x[2])]
    BY <2>1, <2>12
  <2>15. ASSUME NEW x \in D PROVE written'[x] = x
    <3>1. PICK j \in 0..Words(s) - 1 : x \in {j} \X (0..LengthOf(s, j) - paritySize - 1)
      OBVIOUS
    <3>2. PICK i \in 0..LengthOf(s, j) - paritySize - 1 : x = <<j, i>>
      BY <3>1
    <3>3. written'[x] = Mended(j, i)
      BY <2>14, <3>2
    <3> QED
      BY <2>11, <3>2, <3>3
  <2> HIDE DEF D
  <2>16. DOMAIN written' = D
    BY <2>14
  <2> QED
    BY <2>13, <2>15, <2>16 DEF s
<1>3. Bearable' <=> Bearable
  BY <1>1 DEF Bearable
<1>4. BurstsAreMended'
  BY <1>1, <1>2, <1>3 DEF BurstsAreMended
<1> QED
  BY <1>1, <1>4 DEF InterInv

\* A file whose length is no multiple of dataSize comes back as it was, whatever its length and
\* the sizes of a word are, and wherever a burst has hit it that has no more errors in store for
\* any word than the coder mends (Encoder.cpp, Decoder.cpp).
THEOREM BurstsMended ==
  ASSUME InterAssumption
  PROVE  InterSpec => []BurstsAreMended
<1>1. InterInit => InterInv
  BY DEF InterInit, InterInv, BurstsAreMended
<1>2. InterInv /\ [InterNext]_interVars => InterInv'
  <2> SUFFICES ASSUME InterInv, [InterNext]_interVars PROVE InterInv'
    OBVIOUS
  <2>1. CASE EncodeInput
    BY <2>1, FileEncoded
  <2>2. CASE Damage
    BY <2>2, FileDamaged
  <2>3. CASE DecodeInput
    BY <2>3, FileDecoded
  <2>4. CASE Fail
    BY <2>4 DEF Fail, InterInv, BurstsAreMended
  <2>5. CASE UNCHANGED interVars
    BY <2>5 DEF interVars, InterInv, BurstsAreMended, Bearable
  <2> QED
    BY <2>1, <2>2, <2>3, <2>4, <2>5 DEF InterNext
<1>3. InterInv => BurstsAreMended
  BY DEF InterInv
<1> QED
  BY <1>1, <1>2, <1>3, PTL DEF InterSpec
=============================================================================
