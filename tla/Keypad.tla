------------------------------- MODULE Keypad -------------------------------
(***************************************************************************)
(* INC/fsm.vhd: the automaton of a lock with a keypad.  A digit is key     *)
(* 0..14, key 15 confirms.  The display and the counter that walks through *)
(* a message are outside; of signals that come at once the display obeys   *)
(* FSM_LCD_CLR first.                                                      *)
(***************************************************************************)
EXTENDS Naturals, Sequences

CONSTANTS MessageLength,    \* clocks until the counter raises CNT_OF
          DisplaySize       \* what is written beyond it is not kept

VARIABLES present_state,
          CNT, display, \* the two devices outside
          typed             \* the digits since the automaton was in TEST

keypadVars == <<present_state, CNT, display, typed>>

\* The state after the key that is waited for, in the states inside the two codes.
Key   == [TEST1_1 |-> 4, TEST1_2 |-> 3, TEST1_3 |-> 2, TEST1_4 |-> 1, TEST1_5 |-> 5,
          TEST1_6 |-> 7, TEST1_7 |-> 5, TEST1_8 |-> 5,
          TEST2_1 |-> 5, TEST2_2 |-> 1, TEST2_3 |-> 7, TEST2_4 |-> 7, TEST2_5 |-> 8,
          TEST2_6 |-> 8, TEST2_7 |-> 3, TEST2_8 |-> 6, TEST2_9 |-> 0, TEST2_10 |-> 0]
After == [TEST1_1 |-> "TEST1_2", TEST1_2 |-> "TEST1_3", TEST1_3 |-> "TEST1_4",
          TEST1_4 |-> "TEST1_5", TEST1_5 |-> "TEST1_6", TEST1_6 |-> "TEST1_7",
          TEST1_7 |-> "TEST1_8", TEST1_8 |-> "FINISH_OK",
          TEST2_1 |-> "TEST2_2", TEST2_2 |-> "TEST2_3", TEST2_3 |-> "TEST2_4",
          TEST2_4 |-> "TEST2_5", TEST2_5 |-> "TEST2_6", TEST2_6 |-> "TEST2_7",
          TEST2_7 |-> "TEST2_8", TEST2_8 |-> "TEST2_9", TEST2_9 |-> "TEST2_10",
          TEST2_10 |-> "FINISH_OK"]

Digits(KEY) == KEY \ {15}
Prints      == {"PRINT_MESSAGE_OK", "PRINT_MESSAGE_FAIL"}

KeypadInit == /\ present_state = "TEST" /\ CNT = 0 /\ display = <<>>
              /\ typed = <<>>

\* Whether a digit that was not waited for makes the code wrong: TEST1_7 has no branch
\* for it.  A mutant forgives a digit after a complete code.
Forgives(s, KEY) == Digits(KEY) # {} /\ s \notin {"TEST1_7", "FINISH_OK"}
Spoils(s, KEY)   == Digits(KEY) # {} /\ s # "TEST1_7"

\* next_state_logic.
NextState(s, KEY, CNT_OF) ==
  CASE s \in Prints      -> IF CNT_OF THEN "FINISH" ELSE s
    [] s = "FINISH"      -> IF 15 \in KEY THEN "TEST" ELSE s
    [] s = "FINISH_FAIL" -> IF 15 \in KEY THEN "PRINT_MESSAGE_FAIL" ELSE s
    [] s = "FINISH_OK"   -> IF 15 \in KEY THEN "PRINT_MESSAGE_OK"
                            ELSE IF Spoils(s, KEY) THEN "FINISH_FAIL" ELSE s
    [] s = "TEST" /\ 8 \in KEY              -> "TEST1_1"
    [] s = "TEST" /\ 1 \in KEY /\ 8 \notin KEY -> "TEST2_1"
    [] s \in DOMAIN Key /\ Key[s] \in KEY   -> After[s]
    [] OTHER -> IF Spoils(s, KEY) THEN "FINISH_FAIL"
                ELSE IF 15 \in KEY THEN "PRINT_MESSAGE_FAIL" ELSE s

\* output_logic, with what the display makes of it.
Written(s, KEY) ==
  IF s \in Prints THEN Append(display, <<s, CNT>>)
  ELSE IF 15 \in KEY THEN <<>>
  ELSE IF s # "FINISH" /\ Digits(KEY) # {} THEN Append(display, "digit")
  ELSE display
-----------------------------------------------------------------------------
(* The codes, and which presses of keys one after another are such a code. *)

Codes == <<<<8, 4, 3, 2, 1, 5, 7, 5, 5>>, <<1, 5, 1, 7, 7, 8, 8, 3, 6, 0, 0>>>>

\* A press is a set of keys; when it holds the first key of both, the first code is meant.
Begins(t, c) == /\ Len(t) <= Len(Codes[c])
                /\ \A k \in DOMAIN t : Codes[c][k] \in t[k]
                /\ c = 2 /\ t # <<>> => Codes[1][1] \notin t[1]
Opens(t)    == \E c \in DOMAIN Codes : Begins(t, c) /\ Len(t) = Len(Codes[c])
Hopeless(t) == \A c \in DOMAIN Codes : ~Begins(t, c)

\* Other digits before the eighth of the first code do not count, and after a digit too
\* much nothing does.
Remembered(t, KEY) ==
  IF \/ Digits(KEY) = {} \/ Hopeless(t) \/ (Opens(t) /\ 15 \in KEY)
     \/ (Len(t) = 7 /\ Begins(t, 1) /\ 5 \notin KEY)
  THEN t ELSE Append(t, Digits(KEY))
-----------------------------------------------------------------------------
\* One key, one with the confirmation, two at once, or none.
Presses == {{}} \cup {{k} : k \in 0..15} \cup {{k, 15} : k \in 0..14} \cup {{1, 8}, {5, 9}}

\* A rising edge of CLK.
Clock == \E KEY \in Presses :
  /\ present_state' = NextState(present_state, KEY, CNT = MessageLength - 1)
  /\ display' = LET w == Written(present_state, KEY)
                IN IF Len(w) > DisplaySize THEN display ELSE w
  /\ CNT' = IF present_state \in Prints THEN (CNT + 1) % MessageLength ELSE CNT
  /\ typed' = CASE present_state \in Prints -> typed
                [] present_state = "FINISH" -> IF 15 \in KEY THEN <<>> ELSE typed
                [] OTHER -> Remembered(typed, KEY)

\* RESET, of the counter too; the display keeps what it shows.
Reset == present_state' = "TEST" /\ CNT' = 0 /\ typed' = <<>> /\ UNCHANGED display

KeypadNext == Clock \/ Reset
-----------------------------------------------------------------------------
\* fsm.vhd: in the end the display shows one whole message, and it is the good one
\* exactly when the digits that were typed were a code.
KeypadOpens ==
  present_state = "FINISH" =>
    display = [k \in 1..MessageLength |->
                <<IF Opens(typed) THEN "PRINT_MESSAGE_OK" ELSE "PRINT_MESSAGE_FAIL", k - 1>>]
=============================================================================
