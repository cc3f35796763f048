----------------------------- MODULE OneAtATime -----------------------------
(***************************************************************************)
(* What a mutex of CSystemCallWrapper promises to the functions that take  *)
(* it: one of them at a time is between its lock() and its unlock(), and   *)
(* once one has returned without the unlock(), none ever gets there again. *)
(***************************************************************************)
CONSTANT Functions

VARIABLES
  inside,   \* the functions between their lock() and their unlock()
  lost      \* the functions that have returned with the mutex locked

Init == inside = {} /\ lost = {}

Enter ==
  /\ inside = {} /\ lost = {}
  /\ \E f \in Functions \cap inside' : inside' = {f}
  /\ UNCHANGED lost

Leave == inside # {} /\ inside' = {} /\ UNCHANGED lost

Lose == inside # {} /\ inside' = {} /\ lost' = inside

Next == Enter \/ Leave \/ Lose

Spec == Init /\ [][Next]_<<inside, lost>>
=============================================================================
