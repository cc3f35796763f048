---------------------------- MODULE SshKeyDialog ----------------------------
(***************************************************************************)
(* SshKeyDialog: the dialog that deploys and removes SSH keys              *)
(* (DlgGenerateSshKey), which knows a key by its row, over the list of     *)
(* SshKeyController, which a worker's thread may change at any time.       *)
(*                                                                         *)
(* finished_check_environment_keys is handled at once when the main thread *)
(* sends it, and queued when another does.  Of the controller (SshKeys)    *)
(* there is the list here, and whether a key is known to be in the         *)
(* environment; there is one environment.  A box that the dialog ticks     *)
(* itself, as the key is there, is left out: it sends nothing.             *)
(***************************************************************************)
EXTENDS Naturals, SequencesExt

CONSTANTS
  Keys,
  MaxNotices,  \* bounds the signals in the queue
  MaxTicks     \* bounds the rows ticked

VARIABLES
  files,     \* the keys in ssh_keys_storage
  m_keys,    \* the controller's list
  there,     \* the keys of the list that are known to be in the environment
  removing,  \* for each key a worker removes, what it does
  notices,   \* the signals that are queued
  shown,     \* m_model_keys
  ticks,     \* m_all_state_envs: the rows ticked; history: the keys they had
  swapped    \* history: another list as long has been shown, and the ticks kept

dialog == <<shown, ticks, swapped>>
vars == <<files, m_keys, there, removing, notices, dialog>>

TypeOK ==
  /\ files \subseteq Keys /\ m_keys \in Seq(Keys) /\ IsInjective(m_keys)
  /\ there \subseteq ToSet(m_keys)
  /\ DOMAIN removing \subseteq Keys
  /\ \A k \in DOMAIN removing : removing[k] \in {"asking", "unlinking"}
  /\ notices \in Nat /\ shown \in Seq(Keys) /\ swapped \in BOOLEAN
  /\ ticks \subseteq [row : Nat, key : Keys]

Init ==
  /\ files = {} /\ m_keys = <<>> /\ there = {} /\ removing = <<>> /\ notices = 0
  /\ shown = <<>> /\ ticks = {} /\ swapped = FALSE

----------------------------------------------------------------------------
\* Mutant: the ticks are never forgotten.
TicksAreKept(list, before) == ticks

\* A list of another length than the one before makes the dialog forget its ticks.
TicksLeft(list, before) == IF Len(list) # Len(before) THEN {} ELSE ticks

\* Whether a list takes the place of the one shown unnoticed.
Swaps(list) == ticks' # {} /\ (swapped \/ (list # shown /\ Len(list) = Len(shown)))

\* keys_updated_slot, when the controller's list is this one.
KeysUpdated(list) ==
  /\ shown' = list
  /\ ticks' = TicksLeft(list, shown)
  /\ swapped' = Swaps(list)

NoticeArrives ==
  /\ notices > 0
  /\ notices' = notices - 1
  /\ KeysUpdated(m_keys)
  /\ UNCHANGED <<files, m_keys, there, removing>>

\* refresh_key_files, which tells the dialog at once.
Refreshed(list, in_dir) ==
  /\ m_keys' \in {list \o new : new \in SetToSeqs(in_dir \ ToSet(list))}
  /\ KeysUpdated(m_keys')

\* The timer.
RefreshKeyFiles ==
  /\ Refreshed(m_keys, files)
  /\ UNCHANGED <<files, there, removing, notices>>

\* check_environment_keys, in its thread: the key is found in the environment.
CheckFinds ==
  /\ notices < MaxNotices
  /\ \E k \in ToSet(m_keys) \ there : there' = there \cup {k}
  /\ notices' = notices + 1
  /\ UNCHANGED <<files, m_keys, removing, dialog>>

----------------------------------------------------------------------------
\* environments_item_changed: the box of a row is ticked, or not any more.
Tick ==
  /\ \E i \in DOMAIN shown :
       LET here == {t \in ticks : t.row = i}
       IN /\ shown[i] \notin there
          /\ here = {} => Cardinality(ticks) < MaxTicks
          /\ ticks' = IF here = {} THEN ticks \cup {[row |-> i, key |-> shown[i]]}
                                   ELSE ticks \ here
  /\ swapped' = (swapped /\ ticks' # {})
  /\ UNCHANGED <<files, m_keys, there, removing, notices, shown>>

\* The rows of the controller's list that upload_key sends.
Sent == {t.row : t \in ticks} \cap {i \in DOMAIN m_keys : m_keys[i] \notin there}

\* btn_send_to_hub_released, upload_key: the workers change nothing here; the
\* ticks stay.
SendToHub ==
  /\ Sent # {}
  /\ UNCHANGED vars

\* generate_keys, and then refresh_key_files.
Generate ==
  /\ \E k \in Keys :
       /\ k \notin files \cup ToSet(m_keys) \cup ToSet(shown) \cup {t.key : t \in ticks}
       /\ k \notin DOMAIN removing
       /\ files' = files \cup {k}
  /\ Refreshed(m_keys, files')
  /\ UNCHANGED <<there, removing, notices>>

\* btn_remove_released, remove_key: a key that is in no environment leaves the
\* list at once, which is shown, and then what is in the directory is.
RemoveHere ==
  /\ \E k \in (ToSet(shown) \cap ToSet(m_keys) \cap files) \ there :
       LET left == RemoveFirst(m_keys, k)
       IN /\ files' = files \ {k}
          /\ m_keys' \in {left \o new : new \in SetToSeqs(files' \ ToSet(left))}
          /\ shown' = m_keys'
          /\ ticks' = TicksLeft(left, shown) \cap TicksLeft(m_keys', left)
          /\ swapped' = Swaps(m_keys')
  /\ UNCHANGED <<there, removing, notices>>

\* A key that is in the environment is removed by a worker.
RemoveEverywhere ==
  /\ \E k \in (ToSet(shown) \cap there) \ DOMAIN removing :
       removing' = [l \in DOMAIN removing \cup {k} |-> IF l = k THEN "asking" ELSE removing[l]]
  /\ Refreshed(m_keys, files)
  /\ UNCHANGED <<files, there, notices>>

----------------------------------------------------------------------------
\* clean_keys_list, in the worker's thread.
CleanKey ==
  /\ notices < MaxNotices
  /\ \E k \in DOMAIN removing :
       /\ removing[k] = "asking"
       /\ removing' = [removing EXCEPT ![k] = "unlinking"]
       /\ m_keys' = RemoveFirst(m_keys, k)
       /\ there' = there \ {k}
  /\ notices' = notices + 1
  /\ UNCHANGED <<files, dialog>>

\* The files go.  The directory may have been read since, and the key listed again.
Unlink ==
  /\ \E k \in DOMAIN removing :
       /\ removing[k] = "unlinking"
       /\ files' = files \ {k}
       /\ removing' = [l \in DOMAIN removing \ {k} |-> removing[l]]
  /\ UNCHANGED <<m_keys, there, notices, dialog>>

Next ==
  \/ NoticeArrives \/ RefreshKeyFiles \/ CheckFinds
  \/ Tick \/ SendToHub \/ Generate \/ RemoveHere \/ RemoveEverywhere
  \/ CleanKey \/ Unlink

Spec == Init /\ [][Next]_vars

----------------------------------------------------------------------------
\* A key is sent only when it was ticked, though a tick is kept by the number of its
\* row: unless a worker has just removed a key and the dialog has not been told, or
\* was told when the list had its old length again.  SshKeyController.cpp:352.
SentAsTicked ==
  (\A t \in ticks : t.row \in Sent => m_keys[t.row] = t.key) \/ m_keys # shown \/ swapped
=============================================================================
