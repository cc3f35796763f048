---------------------------- MODULE MCTrayParts ----------------------------
(***************************************************************************)
(* The parts of Control Center that share no state with one another, in    *)
(* one run: `part' says which of them a behaviour is about, and the others *)
(* stay as they began.                                                     *)
(*   installers    Installers: two functions that install, at a time       *)
(*   p2p           P2PConnector: the rounds of swarms and containers       *)
(*   moving        FileTransfer, with files to send and to fetch           *)
(*   removing      FileTransfer, with files to remove on both sides        *)
(*   ssh           SshKeys: which keys are in which environments           *)
(*   dialog        SshKeyDialog: the window of keys and its ticks          *)
(*   executable    ExecutableUpdater: one executable is replaced           *)
(*   peers         TrayPeers: the menus of peers and the update of PeerOS  *)
(*   environments  EnvironmentMenu: the menu of environments               *)
(***************************************************************************)
EXTENDS Installers

CONSTANTS
  Envs, MaxJobs,                        \* p2p; ssh has Envs too
  MovedKinds, MovedDirs, MaxMoving,     \* moving: what is done with each file
  RemovedKinds, RemovedDirs, MaxRemoving,
  Keys, MaxWork,                        \* ssh; dialog has Keys too
  MaxNotices, MaxTicks,                 \* dialog
  Lives, Fingers, Devices, MaxUpdates,  \* peers: the fingerprints of each
  EnvNames                              \* environments: the name of each

NoTeam == {}

VARIABLES
  part,
  hub, healthy, daemon, swarms, round, joined_swarms, jobs, results,
  connected_envs, connected_conts,
  open, current_remote_dir, remote_files, buttons, queries, refresh_queries,
  creating, files_to_transfer, transfers, done, early,
  files, deployed, m_keys, env_ids, m_envs, m_lst_healthy_environments,
  checks, m_mutex, checking, answer, workers, unanswered,
  key_files, key_list, there, removing, notices, shown, ticks, swapped,
  dst, tmp, before, perm, call, finished,
  machine_peers_table, hub_peers_table, network_peers_table, tray,
  dct_resource_hosts, m_refresh_in_progress, offered, updates,
  lst_environments, environments_table, my_envs_button_table, m_hub_menu

\* A part whose theorems have a module comes with them: TrayPartsProofs cites them.
P2P == INSTANCE P2PConnector
Moving == INSTANCE FileTransferProofs WITH
  Files <- DOMAIN MovedKinds, KindOf <- MovedKinds, Dirs <- MovedDirs, Root <- "/",
  MaxUnderWay <- MaxMoving
Removing == INSTANCE FileTransferProofs WITH
  Files <- DOMAIN RemovedKinds, KindOf <- RemovedKinds, Dirs <- RemovedDirs, Root <- "/",
  MaxUnderWay <- MaxRemoving
Ssh == INSTANCE SshKeysProofs WITH jobs <- checks
Dialog == INSTANCE SshKeyDialog WITH files <- key_files, m_keys <- key_list
Executable == INSTANCE ExecutableUpdater
Peers == INSTANCE TrayPeersProofs WITH
  Names <- DOMAIN Lives, FingersOf <- Lives, None <- "none", Empty <- "Empty"
Menu == INSTANCE EnvironmentMenu WITH
  Envs <- DOMAIN EnvNames, NameOf <- EnvNames, Empty <- "Empty"

\* What the theorems assume.
ASSUME EnvsAssumption == IsFiniteSet(Envs)
ASSUME KeysAssumption == IsFiniteSet(Keys)
ASSUME WindowAssumption == Moving!BeginsSomewhere /\ Removing!BeginsSomewhere
ASSUME PeersAssumption == Peers!OwnFingers
ASSUME MenuAssumption == Menu!NoEmptyName

p2p == <<hub, healthy, daemon, swarms, round, joined_swarms, jobs, results,
         connected_envs, connected_conts>>
transfer == <<open, current_remote_dir, remote_files, buttons, queries, refresh_queries,
              creating, files_to_transfer, transfers, done, early>>
ssh == <<files, deployed, m_keys, env_ids, m_envs, m_lst_healthy_environments,
         checks, m_mutex, checking, answer, workers, unanswered>>
dialog == <<key_files, key_list, there, removing, notices, shown, ticks, swapped>>
executable == <<dst, tmp, before, perm, call, finished>>
peers == <<machine_peers_table, hub_peers_table, network_peers_table, tray,
           dct_resource_hosts, m_refresh_in_progress, offered, updates>>
menu == <<lst_environments, environments_table, my_envs_button_table, m_hub_menu>>
parts == <<part, vars, p2p, transfer, ssh, dialog, executable, peers, menu>>

TrayInit ==
  /\ part \in {"installers", "p2p", "moving", "removing", "ssh", "dialog", "executable",
              "peers", "environments"}
  /\ Init /\ IF part = "installers" THEN team # NoTeam ELSE team = NoTeam /\ os = "linux"
  /\ P2P!Init /\ (part # "p2p" => ~daemon /\ swarms = {})
  /\ Moving!Init
  /\ Ssh!Init /\ (part # "ssh" => files = {})
  /\ Dialog!Init
  /\ Executable!Init /\ (part # "executable" => dst = Executable!None)
  /\ Peers!Init /\ (part # "peers" => \A n \in DOMAIN Lives : tray.peer_finger[n] = "none")
  /\ Menu!Init

Only(name, Action) ==
  /\ part = name /\ Action /\ UNCHANGED part
  /\ IF name = "installers" THEN TRUE ELSE UNCHANGED vars
  /\ IF name = "p2p" THEN TRUE ELSE UNCHANGED p2p
  /\ IF name \in {"moving", "removing"} THEN TRUE ELSE UNCHANGED transfer
  /\ IF name = "ssh" THEN TRUE ELSE UNCHANGED ssh
  /\ IF name = "dialog" THEN TRUE ELSE UNCHANGED dialog
  /\ IF name = "executable" THEN TRUE ELSE UNCHANGED executable
  /\ IF name = "peers" THEN TRUE ELSE UNCHANGED peers
  /\ IF name = "environments" THEN TRUE ELSE UNCHANGED menu

TrayNext ==
  \/ Only("installers", Next)
  \/ Only("p2p", P2P!Next)
  \/ Only("moving", Moving!Next)
  \/ Only("removing", Removing!Next)
  \/ Only("ssh", Ssh!Next)
  \/ Only("dialog", Dialog!Next)
  \/ Only("executable", Executable!Next)
  \/ Only("peers", Peers!Next)
  \/ Only("environments", Menu!Next)

\* The fairness of each part.
TraySpec ==
  /\ TrayInit /\ [][TrayNext]_parts
  /\ WF_vars(part = "installers" /\ \E f \in team : Advance(f))
  /\ WF_p2p(part = "p2p" /\ P2P!Round)
  /\ WF_p2p(part = "p2p" /\ P2P!Job)
  /\ WF_p2p(part = "p2p" /\ P2P!ResultArrives)
  /\ WF_transfer(part \in {"moving", "removing"} /\ Moving!ListingArrives)
  /\ WF_ssh(part = "ssh" /\ Ssh!EnvironmentsUpdated)
  /\ WF_ssh(part = "ssh" /\ Ssh!Check)
  /\ SF_ssh(part = "ssh" /\ Ssh!Work)

----------------------------------------------------------------------------
(* What the modules state, for their part. *)

\* Every variable of every part has a value its class can hold; refresh_queries,
\* a static of DlgTransferFile that each answer takes one from, stays a natural
\* number.
PartsTypeOK ==
  CASE part = "installers"   -> TypeOK
    [] part = "p2p"          -> P2P!TypeOK
    [] part = "moving"       -> Moving!TypeOK
    [] part = "removing"     -> Removing!TypeOK
    [] part = "ssh"          -> Ssh!TypeOK
    [] part = "dialog"       -> Dialog!TypeOK
    [] part = "executable"   -> Executable!TypeOK
    [] part = "peers"        -> Peers!TypeOK
    [] part = "environments" -> Menu!TypeOK

\* P2PConnector::update_status and its jobs: when the hub, the health of the
\* environments and the work of the daemon's user stay as they are and the daemon
\* runs, the swarms joined, the containers shown connected and what the daemon has
\* come to agree, and stay so, though answers of older rounds arrive between.
SwarmsSettle ==
  (<>[][~(part = "p2p" /\ P2P!Disturbs)]_p2p /\ <>[]daemon) => <>[]P2P!Settled

\* DlgTransferFile::output_from_remote_command: when the user waits, a listing
\* under way gives the buttons back, whatever else ends meanwhile, unless a
\* listing was lost with an earlier window.
ButtonsComeBack ==
  <>[][/\ ~(part = "moving" /\ Moving!UserActs)
       /\ ~(part = "removing" /\ Removing!UserActs)]_transfer => Moving!GivenBack

\* SshKeyController::check_environment_keys: when no key, environment or answer of
\* the hub changes any more, the controller comes to know of every key whether it
\* is in each healthy environment, but for those whose question had no answer.
DeployedIsKnown ==
  <>[][~(part = "ssh" /\ Ssh!Disturbs)]_ssh => <>[]Ssh!AllKnown

\* SshKeyController::check_environment_keys and clean_environment_list: a key that is
\* deployed is known to be, or what is under way will tell; an answer from before the
\* upload is never the last word.
DeployedIsOnItsWay == part = "ssh" => Ssh!DeployedIsOnItsWay

\* DlgTransferFile::output_from_remote_command: unless a handler turned the buttons
\* on during a listing, the files shown are of the directory their paths are made
\* with, of the home directory, or none.
ListingIsOfDirectory == part \in {"moving", "removing"} => Moving!ListingIsOfDirectory

\* DlgTransferFile::transfer_finished: a row becomes finished only by a transfer
\* that has done what the row says (rm outside Windows may not have), or by one
\* whose row was cleared and whose number another row has now.
FinishedIsEarned ==
  [][\A i \in DOMAIN files_to_transfer :
       Moving!Finishes(i) =>
         IF part = "removing" THEN Removing!Earned(i) ELSE Moving!Earned(i)]_transfer

\* DlgGenerateSshKey and SshKeyController::upload_key: a key is sent only when the user
\* ticked it, unless the list moved under the window.
SentAsTicked == part = "dialog" => Dialog!SentAsTicked

\* CExecutableUpdater::replace_executables: no step leaves neither the old nor the
\* new executable of those there were, under any of their names.
OneIsLeft == Executable!OneIsLeft

\* CExecutableUpdater::replace_executables: a success it reports is of an executable
\* that is in its place, whole, or of one there was nothing to replace with.
SuccessIsWhole == part = "executable" => Executable!SuccessIsWhole

\* TrayControlWindow::got_peer_info_sl, machine_peers_upd_finished and
\* my_peers_updated_sl: the menus of peers have one button for each peer the three
\* tables have, under its fingerprint when that is known, and no other.
PeersAreShown == part = "peers" => Peers!PeersAreShown

\* TrayControlWindow::delete_peer_button_info: the fingerprint of a local peer is
\* forgotten only when its row is deleted and the Bazaar does not have it.
FingersAreKept ==
  [][part = "peers" => \A n \in DOMAIN Lives : Peers!ForgetsFinger(n)]_peers

\* TrayControlWindow::peer_update_peeros_sl: a row says "updating" only while an
\* update of its peer is under way.
UpdatingIsUnderWay == part = "peers" => Peers!UpdatingIsUnderWay

\* TrayControlWindow::environments_updated_sl: the menu offers what is in the list,
\* and of what is not only the environments whose name another one has.
EnvironmentsAreShown == part = "environments" => Menu!EnvironmentsAreShown

----------------------------------------------------------------------------
\* The values of the constants: a few of everything, with the cases that matter, as
\* environments of one name and a peer that is made anew.
Rivals == {"update_by_virtualbox", "install_vagrant_libvirt"}
FunctionPairs == {{f, g} : f \in Functions, g \in Rivals} \cup {NoTeam}
BothWays == [up |-> "upload", down |-> "download"]
BothSides == [here |-> "remove_local", there |-> "remove_remote"]
TwoLives == [peer |-> {"FINGER1", "FINGER2"}]
Namesakes == [first |-> "shared", second |-> "shared", third |-> "own"]
=============================================================================
