---------------------------- MODULE FocusHandover ----------------------------
(***************************************************************************)
(* What a server session promises about the user's input, with no events,  *)
(* tasks, peers or messages: the owner of the input and its capture change *)
(* in turn, each following the other.  Local input is taken only after the *)
(* owner became the remote screen, is given back only after it became the  *)
(* local one again, and a new hand-over starts only when the previous one  *)
(* is complete.                                                            *)
(***************************************************************************)
VARIABLES
  owner,    \* "local" or "remote"
  captured  \* local input is withheld from this machine

vars == <<owner, captured>>

Init == owner = "local" /\ captured = FALSE

Cross   == /\ owner = "local" /\ ~captured
           /\ owner' = "remote" /\ UNCHANGED captured

Take    == /\ owner = "remote" /\ ~captured
           /\ captured' = TRUE /\ UNCHANGED owner

ComeBack == /\ owner = "remote" /\ captured
            /\ owner' = "local" /\ UNCHANGED captured

GiveBack == /\ owner = "local" /\ captured
            /\ captured' = FALSE /\ UNCHANGED owner

Next == Cross \/ Take \/ ComeBack \/ GiveBack

Spec == Init /\ [][Next]_vars
=============================================================================
