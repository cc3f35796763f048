-------------------------- MODULE MCHubController --------------------------
(***************************************************************************)
(* HubController for TLC: bounds on the requests under way.                *)
(***************************************************************************)
EXTENDS HubController

\* One request of a kind at a time.
OneAsked == [k \in Kinds |-> 1]

\* A request for the environments may be left over from the round before.
Overlapping == [k \in Kinds |-> IF k = "balance" THEN 1 ELSE 2]

=============================================================================
