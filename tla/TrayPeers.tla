----------------------------- MODULE TrayPeers -----------------------------
(***************************************************************************)
(* The menus "My Peers" and "LAN Peers" of TrayControlWindow.  Three       *)
(* sources fill them, each with handlers of its own: the peers of this     *)
(* machine (got_peer_info_sl, machine_peers_upd_finished), those of the    *)
(* Bazaar and those of the LAN (my_peers_updated_sl, with the devices      *)
(* CRhController has found).  A peer has one button, whoever tells of it:  *)
(* its key is the fingerprint, or the name of a local peer whose           *)
(* fingerprint is not known yet.  The fingerprints of local peers are a    *)
(* setting; delete_peer_button_info clears it behind its callers' backs.   *)
(* The module also has the update of PeerOS that the peer dialog starts.   *)
(*                                                                         *)
(* When which answer of a local peer arrives, and when a round is over, is *)
(* what PeerController says; here every order is possible.  Left out:      *)
(* names, addresses, icons and notifications.  A fingerprint belongs to    *)
(* one name, and is as the Bazaar and the LAN write it.                    *)
(***************************************************************************)
EXTENDS Naturals, FiniteSetsExt

CONSTANTS
  Names, Fingers,   \* local peers, fingerprints
  FingersOf,        \* the fingerprints a machine of a name may have, in its lives
  Devices,          \* the fingerprints of the peers on the LAN
  None, Empty,      \* nothing; the action "Empty" of a menu
  MaxUpdates        \* bound on updates of PeerOS under way

ButtonKeys == Names \cup Fingers

\* A fingerprint is of one machine, and is not the name of another.
OwnFingers ==
  /\ IsFiniteSet(Names) /\ IsFiniteSet(Fingers) /\ MaxUpdates \in Nat
  /\ Names \cap Fingers = {} /\ {None, Empty} \cap ButtonKeys = {} /\ Devices \subseteq Fingers
  /\ \A n \in Names : FingersOf[n] \subseteq Fingers
  /\ \A m, n \in Names : m # n => FingersOf[m] \cap FingersOf[n] = {}

Sources == {"local", "hub", "lan"}

\* m_update_available: "false" also stands for "undefined" and for "finished",
\* which offer no update either.
Marks == {"false", "true", "updating"}
Rows == [update : {"new", "old"}, mark : Marks]
Buttons == [local : Names \cup {None}, mark : Marks, hub : BOOLEAN, lan : BOOLEAN]

VARIABLES
  machine_peers_table, \* name -> row, for the local peers in the table
  hub_peers_table,     \* fingerprints; every `updated' is false between handlers
  network_peers_table, \* fingerprints
  tray,                \* the buttons, the actions of both menus, peer_finger
  dct_resource_hosts, m_refresh_in_progress,
  offered,             \* the peer whose dialog offers an update
  updates              \* name -> UpdatePeerOS objects at work
vars == <<machine_peers_table, hub_peers_table, network_peers_table, tray,
          dct_resource_hosts, m_refresh_in_progress, offered, updates>>

NewButton == [local |-> None, mark |-> "false", hub |-> FALSE, lan |-> FALSE]

TypeOK ==
  /\ DOMAIN machine_peers_table \subseteq Names
  /\ \A n \in DOMAIN machine_peers_table : machine_peers_table[n] \in Rows
  /\ hub_peers_table \subseteq Fingers /\ network_peers_table \subseteq Devices
  /\ DOMAIN tray.buttons \subseteq ButtonKeys
  /\ \A k \in DOMAIN tray.buttons : tray.buttons[k] \in Buttons
  /\ tray.hub_menu \cup tray.lan_menu \subseteq ButtonKeys \cup {Empty}
  /\ tray.peer_finger \in [Names -> Fingers \cup {None}]
  /\ dct_resource_hosts \subseteq Devices /\ m_refresh_in_progress \in BOOLEAN
  /\ offered \in ButtonKeys \cup {None}
  /\ updates \in [Names -> 0..MaxUpdates]

\* The fingerprints of earlier runs of the program are remembered.
Init ==
  /\ machine_peers_table = <<>> /\ hub_peers_table = {} /\ network_peers_table = {}
  /\ \E fingers \in [Names -> Fingers \cup {None}] :
       /\ \A n \in Names : fingers[n] \in FingersOf[n] \cup {None}
       /\ tray = [buttons |-> <<>>, hub_menu |-> {Empty}, lan_menu |-> {Empty},
                  peer_finger |-> fingers]
  /\ dct_resource_hosts = {} /\ m_refresh_in_progress = FALSE
  /\ offered = None /\ updates = [n \in Names |-> 0]

----------------------------------------------------------------------------
\* Buttons and menus: what the helpers make of a tray t.

\* removeAction, and the action "Empty" if nothing is left.
Without(menu, key) == IF menu \ {key} = {} THEN {Empty} ELSE menu \ {key}

\* addAction, and "Empty" is removed.
With(menu, key) == (menu \cup {key}) \ {Empty}

\* update_peer_icon: the menu the button belongs to; one nobody tells of is erased.
UpdatePeerIcon(t, key) ==
  LET b == t.buttons[key] IN
  IF b.local # None \/ b.hub
  THEN [t EXCEPT !.lan_menu = Without(@, key), !.hub_menu = With(@, key)]
  ELSE IF b.lan THEN [t EXCEPT !.hub_menu = Without(@, key), !.lan_menu = With(@, key)]
  ELSE [t EXCEPT !.hub_menu = Without(@, key),
                 !.buttons = Restrict(@, DOMAIN @ \ {key})]

ButtonAt(t, key) == IF key \in DOMAIN t.buttons THEN t.buttons[key] ELSE NewButton

\* update_peer_button, in its three forms: b is the button when it has been told.
UpdatePeerButton(t, key, b) ==
  UpdatePeerIcon([t EXCEPT !.buttons = [k \in DOMAIN @ \cup {key} |->
                                          IF k = key THEN b ELSE @[k]]], key)

UpdateLocal(t, key, n, mark) ==
  UpdatePeerButton(t, key, [ButtonAt(t, key) EXCEPT !.local = n, !.mark = mark])
UpdateHub(t, key) == UpdatePeerButton(t, key, [ButtonAt(t, key) EXCEPT !.hub = TRUE])
UpdateLan(t, key) == UpdatePeerButton(t, key, [ButtonAt(t, key) EXCEPT !.lan = TRUE])

\* Mutant: the fingerprint is forgotten with the local peer, on the Bazaar or not.
DeletePeerButtonInfoForgetting(t, key, source) ==
  IF key \notin DOMAIN t.buttons THEN t ELSE
  LET n == t.buttons[key].local
      told == [t EXCEPT !.buttons[key] =
        CASE source = "local" -> [@ EXCEPT !.local = None, !.mark = "false"]
          [] source = "hub"   -> [@ EXCEPT !.hub = FALSE]
          [] source = "lan"   -> [@ EXCEPT !.lan = FALSE]]
      shown == UpdatePeerIcon(told, key)
  IN  IF source = "local" /\ n \in Names \ {key}
      THEN [shown EXCEPT !.peer_finger[n] = None] ELSE shown

\* delete_peer_button_info: a local peer that leaves a button with another key than
\* its name takes its fingerprint out of the settings, unless the Bazaar has it.
DeletePeerButtonInfo(t, key, source) ==
  IF key \notin DOMAIN t.buttons THEN t ELSE
  LET n == t.buttons[key].local
      told == [t EXCEPT !.buttons[key] =
        CASE source = "local" -> [@ EXCEPT !.local = None, !.mark = "false"]
          [] source = "hub"   -> [@ EXCEPT !.hub = FALSE]
          [] source = "lan"   -> [@ EXCEPT !.lan = FALSE]]
      shown == UpdatePeerIcon(told, key)
  IN  IF source = "local" /\ n \in Names \ {key} /\ key \notin hub_peers_table
      THEN [shown EXCEPT !.peer_finger[n] = None] ELSE shown

----------------------------------------------------------------------------
\* The peers of this machine.

\* set_update_available: only the end of the update changes "updating".
SetUpdateAvailable(mark, val) ==
  IF val = "finished" THEN "false" ELSE IF mark = "updating" THEN mark ELSE val

\* Mutant: the button with the name stays when the fingerprint becomes known.
ShownAsBefore(t, n, mark) ==
  IF t.peer_finger[n] = None THEN UpdateLocal(t, n, n, mark)
  ELSE UpdateLocal(t, t.peer_finger[n], n, mark)

\* The end of got_peer_info_sl: the button with the fingerprint, if there is one,
\* takes the place of the one with the name.
Shown(t, n, mark) ==
  IF t.peer_finger[n] = None THEN UpdateLocal(t, n, n, mark)
  ELSE UpdateLocal(DeletePeerButtonInfo(t, n, "local"), t.peer_finger[n], n, mark)

\* P_FINGER: another fingerprint than the one remembered.
Fingered(t, n, finger) ==
  IF finger \in {None, t.peer_finger[n]} THEN t
  ELSE [DeletePeerButtonInfo(t, t.peer_finger[n], "local")
          EXCEPT !.peer_finger[n] = finger]

\* got_peer_info_sl, when the answer counts: a row made new, its button.
GotPeerInfo(n, finger, val) ==
  LET mark == IF n \in DOMAIN machine_peers_table THEN machine_peers_table[n].mark
                                                  ELSE "false"
      row == [update |-> "new", mark |-> SetUpdateAvailable(mark, val)]
  IN  /\ machine_peers_table' = [m \in DOMAIN machine_peers_table \cup {n} |->
                                   IF m = n THEN row ELSE machine_peers_table[m]]
      /\ tray' = Shown(Fingered(tray, n, finger), n, row.mark)

\* P_STATUS, P_PORT: the row gets a value nothing here depends on.
GotOtherInfo(n) ==
  /\ GotPeerInfo(n, None, IF n \in DOMAIN machine_peers_table
                          THEN machine_peers_table[n].mark ELSE "false")
  /\ UNCHANGED <<hub_peers_table, network_peers_table, dct_resource_hosts,
                 m_refresh_in_progress, offered, updates>>

\* P_FINGER: no answer, or the fingerprint of one of the machine's lives, a late one.
GotFinger(n) ==
  /\ \E finger \in FingersOf[n] \cup {None} :
       GotPeerInfo(n, finger, IF n \in DOMAIN machine_peers_table
                              THEN machine_peers_table[n].mark ELSE "false")
  /\ UNCHANGED <<hub_peers_table, network_peers_table, dct_resource_hosts,
                 m_refresh_in_progress, offered, updates>>

\* P_UPDATE: whether there is an update.
GotUpdate(n) ==
  /\ \E val \in {"false", "true"} : GotPeerInfo(n, None, val)
  /\ UNCHANGED <<hub_peers_table, network_peers_table, dct_resource_hosts,
                 m_refresh_in_progress, offered, updates>>

\* machine_peers_upd_finished: the rows the round has not made new are deleted,
\* with the buttons of their fingerprint and of their name.
MachinePeersUpdFinished ==
  LET gone == {n \in DOMAIN machine_peers_table : machine_peers_table[n].update = "old"}
      left == DOMAIN machine_peers_table \ gone
      Gone(n, t) == DeletePeerButtonInfo(
                      DeletePeerButtonInfo(t, t.peer_finger[n], "local"), n, "local")
  IN  /\ machine_peers_table' = [n \in left |->
                                   [machine_peers_table[n] EXCEPT !.update = "old"]]
      /\ tray' = FoldSet(Gone, tray, gone)
      /\ UNCHANGED <<hub_peers_table, network_peers_table, dct_resource_hosts,
                     m_refresh_in_progress, offered, updates>>

----------------------------------------------------------------------------
\* The peers of the Bazaar and of the LAN.

\* my_peers_updated_sl: the list of the Bazaar, whatever it is: the answer to a
\* request that fails is an empty one.  The loop that should find the LAN peers that
\* are gone begins at end(): they stay.
MyPeersUpdated ==
  \E lst_my_peers \in SUBSET Fingers :
    LET Online(f, t) == UpdateHub(t, f)
        Found(f, t) == UpdateLan(t, f)
        Disconnected(f, t) == DeletePeerButtonInfo(t, f, "hub")
        told == FoldSet(Found, FoldSet(Online, tray, lst_my_peers), dct_resource_hosts)
    IN  /\ tray' = FoldSet(Disconnected, told, hub_peers_table \ lst_my_peers)
        /\ hub_peers_table' = lst_my_peers
        /\ network_peers_table' = network_peers_table \cup dct_resource_hosts
        /\ UNCHANGED <<machine_peers_table, dct_resource_hosts, m_refresh_in_progress,
                       offered, updates>>

\* CRhController::refresh: at the start, by its timer or by the settings dialog.
Refresh ==
  /\ dct_resource_hosts' = {} /\ m_refresh_in_progress' = TRUE
  /\ UNCHANGED <<machine_peers_table, hub_peers_table, network_peers_table, tray,
                 offered, updates>>

\* CRhController::found_device_slot: a late device is not taken.
FoundDevice ==
  /\ m_refresh_in_progress
  /\ \E f \in Devices : dct_resource_hosts' = dct_resource_hosts \cup {f}
  /\ UNCHANGED <<machine_peers_table, hub_peers_table, network_peers_table, tray,
                 m_refresh_in_progress, offered, updates>>

\* CRhController::delay_timer_timeout.
DelayTimerTimeout ==
  /\ m_refresh_in_progress /\ m_refresh_in_progress' = FALSE
  /\ UNCHANGED <<machine_peers_table, hub_peers_table, network_peers_table, tray,
                 dct_resource_hosts, offered, updates>>

----------------------------------------------------------------------------
\* The update of PeerOS.

\* DlgPeer::updatePeer, every 3 s: the update the copy of the button offers.
DialogRefreshed(key) ==
  /\ key \in DOMAIN tray.buttons /\ tray.buttons[key].local # None
  /\ offered' = IF tray.buttons[key].mark = "true" THEN key ELSE None
  /\ UNCHANGED <<machine_peers_table, hub_peers_table, network_peers_table, tray,
                 dct_resource_hosts, m_refresh_in_progress, updates>>

\* DlgPeer::rh_update_sl and peer_update_peeros_sl: the button, or its local peer,
\* may be gone since; whether an update is under way is asked of its copy.
PeerUpdatePeerOS ==
  /\ offered # None /\ offered' = None
  /\ LET n == IF offered \in DOMAIN tray.buttons THEN tray.buttons[offered].local
                                                 ELSE None
     IN  IF n = None \/ tray.buttons[offered].mark = "updating"
         THEN UNCHANGED <<machine_peers_table, updates>>
         ELSE /\ updates[n] < MaxUpdates
              /\ updates' = [updates EXCEPT ![n] = @ + 1]
              /\ machine_peers_table' = [m \in DOMAIN machine_peers_table |->
                   IF m = n THEN [machine_peers_table[m] EXCEPT !.mark = "updating"]
                   ELSE machine_peers_table[m]]
  /\ UNCHANGED <<hub_peers_table, network_peers_table, tray, dct_resource_hosts,
                 m_refresh_in_progress>>

\* Mutant: only an update that succeeds gives the row its mark back.
MarkAfterIfSuccessful(mark, success) ==
  IF success THEN SetUpdateAvailable(mark, "finished") ELSE mark

\* The lambda of outputReceived, for an update that failed as well.
MarkAfter(mark, success) == SetUpdateAvailable(mark, "finished")

UpdateEnds(n) ==
  /\ updates[n] > 0 /\ updates' = [updates EXCEPT ![n] = @ - 1]
  /\ \E success \in BOOLEAN :
       machine_peers_table' = [m \in DOMAIN machine_peers_table |->
         IF m = n THEN [machine_peers_table[m] EXCEPT !.mark = MarkAfter(@, success)]
         ELSE machine_peers_table[m]]
  /\ UNCHANGED <<hub_peers_table, network_peers_table, tray, dct_resource_hosts,
                 m_refresh_in_progress, offered>>

Next ==
  \/ \E n \in Names : GotOtherInfo(n) \/ GotFinger(n) \/ GotUpdate(n) \/ UpdateEnds(n)
  \/ MachinePeersUpdFinished \/ MyPeersUpdated
  \/ Refresh \/ FoundDevice \/ DelayTimerTimeout
  \/ \E k \in ButtonKeys : DialogRefreshed(k)
  \/ PeerUpdatePeerOS

Spec == Init /\ [][Next]_vars

----------------------------------------------------------------------------

\* The key of a local peer.
KeyOf(n) == IF tray.peer_finger[n] = None THEN n ELSE tray.peer_finger[n]

\* Whatever order the three sources tell in, and whenever a fingerprint becomes
\* known or changes, there is a button exactly for the peers in the three tables,
\* one for each, in the menu it belongs to, and a menu without peers says so.
PeersAreShown ==
  LET local == {KeyOf(n) : n \in DOMAIN machine_peers_table}
      mine == local \cup hub_peers_table
      others == network_peers_table \ mine
  IN  /\ DOMAIN tray.buttons = mine \cup others
      /\ \A n \in DOMAIN machine_peers_table : tray.buttons[KeyOf(n)].local = n
      /\ \A k \in DOMAIN tray.buttons :
           /\ tray.buttons[k].local # None <=> k \in local
           /\ tray.buttons[k].hub <=> k \in hub_peers_table
           /\ tray.buttons[k].lan <=> k \in network_peers_table
      /\ tray.hub_menu = IF mine = {} THEN {Empty} ELSE mine
      /\ tray.lan_menu = IF others = {} THEN {Empty} ELSE others

\* delete_peer_button_info: a local peer keeps its remembered fingerprint while it is
\* in the table and, after that, if the Bazaar has it when the row is deleted.
ForgetsFinger(n) ==
  tray.peer_finger[n] # None /\ tray'.peer_finger[n] = None =>
    /\ n \in DOMAIN machine_peers_table \ DOMAIN machine_peers_table'
    /\ tray.peer_finger[n] \notin hub_peers_table
FingersAreKept == [][\A n \in Names : ForgetsFinger(n)]_vars

\* peer_update_peeros_sl: a row says "updating" only while an update of its peer is
\* under way: rows that are deleted and made again, updates that overlap or fail and
\* answers of the peer between do not leave the mark behind.
UpdatingIsUnderWay ==
  \A n \in DOMAIN machine_peers_table :
    machine_peers_table[n].mark = "updating" => updates[n] > 0
=============================================================================
