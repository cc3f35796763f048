-------------------------- MODULE EnvironmentMenu --------------------------
(***************************************************************************)
(* The menu "Environments" of TrayControlWindow: environments_updated_sl   *)
(* brings it up to date with the list of CHubController, again and again,  *)
(* shorter or longer.  It keeps every environment it has ever seen in      *)
(* environments_table and looks for deleted ones there by name, while the  *)
(* buttons go by id.  Left out: icons, and the notifications of            *)
(* environments that become unhealthy or healthy.                          *)
(***************************************************************************)
CONSTANTS
  Envs,       \* ids
  NameOf,     \* their names, which several may share
  Empty       \* the action "Empty"

\* The action "Empty" is of no environment.
NoEmptyName == Empty \notin Envs

VARIABLES
  lst_environments,         \* the list of CHubController
  environments_table,       \* id -> "unknown", or the status last written
  my_envs_button_table,     \* the ids that have an action
  m_hub_menu                \* the ids whose action is in the menu, and Empty
vars == <<lst_environments, environments_table, my_envs_button_table, m_hub_menu>>

TypeOK ==
  /\ lst_environments \subseteq Envs /\ my_envs_button_table \subseteq Envs
  /\ environments_table \in [Envs -> {"unknown", "listed", "DELETED"}]
  /\ m_hub_menu \subseteq Envs \cup {Empty}

Init ==
  /\ lst_environments = {} /\ my_envs_button_table = {} /\ m_hub_menu = {Empty}
  /\ environments_table = [e \in Envs |-> "unknown"]

\* Those of the table that nothing in list has the name of.
Gone(list, table) ==
  {e \in Envs : table[e] # "unknown" /\ \A l \in list : NameOf[l] # NameOf[e]}

\* Mutant: a deleted environment leaves the menu and keeps its action.
ButtonsKept(list, gone) == my_envs_button_table \cup list

\* An action for what is new, none for what is deleted.
Buttons(list, gone) == (my_envs_button_table \cup list) \ gone

\* environments_updated_sl, after CHubController has another list: an action is put
\* into the menu when it is made, "Empty" when the last one leaves.
EnvironmentsUpdated ==
  \E list \in SUBSET Envs :
    LET table == [e \in Envs |-> IF e \in list THEN "listed" ELSE environments_table[e]]
        gone == Gone(list, table)
        new == list \ my_envs_button_table
        longer == IF new = {} THEN m_hub_menu ELSE (m_hub_menu \cup new) \ {Empty}
        shorter == longer \ (gone \cap my_envs_button_table)
    IN  /\ lst_environments' = list
        /\ environments_table' = [e \in Envs |-> IF e \in gone THEN "DELETED" ELSE table[e]]
        /\ my_envs_button_table' = Buttons(list, gone)
        /\ m_hub_menu' = IF shorter = {} THEN {Empty} ELSE shorter

Next == EnvironmentsUpdated

Spec == Init /\ [][Next]_vars

----------------------------------------------------------------------------

\* The menu offers the environments of the list and no others, but for those that
\* were deleted while another has their name; an environment that comes back is
\* offered again; and only an empty menu says "Empty".
EnvironmentsAreShown ==
  LET offered == m_hub_menu \ {Empty}
      namesakes == {e \in Envs : \E l \in lst_environments : NameOf[l] = NameOf[e]}
  IN  /\ lst_environments \subseteq offered /\ offered \subseteq namesakes
      /\ Empty \in m_hub_menu <=> offered = {}
      /\ \A e \in Envs : e \in offered <=> environments_table[e] = "listed"
=============================================================================
