------------------------------- MODULE MCKeyPath -------------------------------
EXTENDS KeyPath

(* Esc, right Shift, left Ctrl, and Alt as the key without a side that     *)
(* other programs inject: a flag has it, the key table does not.           *)
MCKeys     == {27, 18, 161, 162}
BothShifts == MCKeys \cup {160}

(* linux/input-event-codes.h: KEY_ESC, KEY_A, KEY_LEFTSHIFT, ... *)
MCEvdevKey == [c \in {41, 4, 225, 229, 224, 226} |->
  CASE c = 41 -> 1 [] c = 4 -> 30 [] c = 225 -> 42 [] c = 229 -> 54
    [] c = 224 -> 29 [] c = 226 -> 56]
=============================================================================
