--------------------------- MODULE PeerController ---------------------------
(***************************************************************************)
(* CPeerController: how Control Center keeps its list of the peers (the    *)
(* Vagrant machines) of this computer up to date, and how the commands the *)
(* user gives in the peer dialogs run beside it.                           *)
(*                                                                         *)
(* A refresh round asks Vagrant for its machines (UpdateVMInformation),    *)
(* then for the state of each one (GetPeerInfo P_STATUS), then for the     *)
(* port of the running ones (P_PORT), then their management for its        *)
(* fingerprint and its updates (two REST requests).  number_threads counts *)
(* the answers a round still waits for; when it reaches 0 the tray deletes *)
(* the rows the round has not touched (machine_peers_upd_finished).        *)
(*                                                                         *)
(* Threads: the main thread (timers, dialogs, answers), the one worker of  *)
(* m_pool, one thread for each terminal command, and the vagrant process   *)
(* that command starts and leaves running in a terminal.                   *)
(***************************************************************************)
EXTENDS Integers, FiniteSets, SequencesExt

CONSTANTS
  Peers,      \* the names of the peers, one directory each
  Commands,   \* the terminal commands a user may give: bounds their number
  Ops,        \* the vagrant commands among "up", "halt", "reload", "destroy", "ssh"
  NoPeer,     \* the peer of a job that is about all of them
  MaxVmJobs   \* bounds the UpdateVMInformation jobs in flight

ASSUME PeersAssumption == IsFiniteSet(Peers) /\ NoPeer \notin Peers
ASSUME OpsAssumption == Ops \subseteq {"up", "halt", "reload", "destroy", "ssh"}
ASSUME MaxVmJobsAssumption == MaxVmJobs \in Nat \ {0}

VARIABLES
  vm,                   \* what each machine really is
  number_threads,       \* answers the current rounds still wait for
  pool,                 \* m_pool: queued jobs; its only thread runs the head
  done,                 \* results posted to the main thread, in order
  rest,                 \* REST requests awaited, by the peer they are about
  machine_peers_table,  \* TrayControlWindow's rows
  checking_statutes,    \* peers locked by a status check
  running_commands,     \* peers locked by a terminal command
  enabled,              \* peers whose dialog has its command buttons enabled
  command,              \* the thread of each terminal command
  terminal              \* the vagrant process each of them left running

mainVars == <<number_threads, machine_peers_table, checking_statutes>>
queueVars == <<pool, done, rest>>
commandVars == <<running_commands, enabled, command, terminal>>
vars == <<vm, mainVars, queueVars, commandVars>>

----------------------------------------------------------------------------
\* What the variables range over.

VmStates == {"absent", "not_created", "poweroff", "running"}
Statuses == {"not_created", "poweroff", "running"}

VmJob == [kind |-> "vm", peer |-> NoPeer]
Jobs == {VmJob} \cup [kind : {"status", "port"}, peer : Peers]
Results ==
  [kind : {"vm"}, peer : {NoPeer}, output : {"undefined"}, found : SUBSET Peers]
  \cup [kind : {"status"}, peer : Peers, output : Statuses, found : {{}}]
  \cup [kind : {"port"}, peer : Peers, output : {"undefined", "port"}, found : {{}}]

NoRow == [update |-> "none", status |-> "undefined"]
Rows == [update : {"none", "old", "new"}, status : Statuses \cup {"undefined"}]

NoThread == [stage |-> "unused", peer |-> NoPeer, op |-> "none"]
Threads == {NoThread} \cup
  [stage : {"clicked", "window", "failed", "refused", "over"}, peer : Peers, op : Ops]

InTable(p) == machine_peers_table[p].update # "none"

\* The jobs or results of s that number_threads counts: all but those of
\* UpdateVMInformation.
Counted(s) == {i \in DOMAIN s : s[i].kind # "vm"}

VmJobsInFlight == Cardinality(DOMAIN pool \ Counted(pool))
                  + Cardinality(DOMAIN done \ Counted(done))

Outstanding == Cardinality(Counted(pool)) + Cardinality(Counted(done)) + Len(rest)

TypeOK ==
  /\ vm \in [Peers -> VmStates]
  /\ number_threads \in Nat
  /\ pool \in Seq(Jobs)
  /\ done \in Seq(Results)
  /\ rest \in Seq(Peers)
  /\ machine_peers_table \in [Peers -> Rows]
  /\ checking_statutes \subseteq Peers
  /\ running_commands \subseteq Peers
  /\ enabled \subseteq Peers
  /\ command \in [Commands -> Threads]
  /\ terminal \in [Commands -> {"none", "running", "finished", "failed"}]

Init ==
  /\ vm \in [Peers -> {"absent", "poweroff", "running"}]
  /\ number_threads = 0
  /\ pool = <<>> /\ done = <<>> /\ rest = <<>>
  /\ machine_peers_table = [p \in Peers |-> NoRow]
  /\ checking_statutes = {} /\ running_commands = {} /\ enabled = {}
  /\ command = [c \in Commands |-> NoThread]
  /\ terminal = [c \in Commands |-> "none"]

----------------------------------------------------------------------------
\* Starting a round: refresh, force_refresh and the 13 s timer.

\* refresh() and force_refresh(): one more UpdateVMInformation in the pool.
\* number_threads is not incremented for it, so the next tick of the timer may
\* queue another one while it runs.
Refresh ==
  /\ number_threads = 0
  /\ VmJobsInFlight < MaxVmJobs
  /\ pool' = Append(pool, VmJob)
  /\ UNCHANGED <<vm, mainVars, done, rest, commandVars>>

RefreshTimerTimeout == Refresh

\* The constructor of the dialog that creates peers calls force_refresh().
CreatePeerDialogOpened == Refresh

----------------------------------------------------------------------------
\* The worker thread of the pool.

\* vagrant_update_information: the created machines, or none of them when
\* `vagrant global-status` fails or times out.
RunVmJob ==
  /\ pool # <<>> /\ Head(pool).kind = "vm"
  /\ \E found \in {{p \in Peers : vm[p] \in {"poweroff", "running"}}, {}} :
       done' = Append(done, [kind |-> "vm", peer |-> NoPeer,
                             output |-> "undefined", found |-> found])
  /\ pool' = Tail(pool)
  /\ UNCHANGED <<vm, mainVars, rest, commandVars>>

\* vagrant_status: "not_created" also stands for a command that fails.
RunStatusJob ==
  /\ pool # <<>> /\ Head(pool).kind = "status"
  /\ LET p == Head(pool).peer IN
       done' = Append(done, [kind |-> "status", peer |-> p, found |-> {},
                             output |-> IF vm[p] = "absent" THEN "not_created"
                                                            ELSE vm[p]])
  /\ pool' = Tail(pool)
  /\ UNCHANGED <<vm, mainVars, rest, commandVars>>

\* vagrant_port: the forwarded port, when generated.yml has it.
RunPortJob ==
  /\ pool # <<>> /\ Head(pool).kind = "port"
  /\ \E out \in {"undefined", "port"} :
       done' = Append(done, [kind |-> "port", peer |-> Head(pool).peer,
                             output |-> out, found |-> {}])
  /\ pool' = Tail(pool)
  /\ UNCHANGED <<vm, mainVars, rest, commandVars>>

----------------------------------------------------------------------------
\* The main thread: answers.

\* Mutant: rows are marked for the next round and never deleted.
UpdFinishedKeeping(table) ==
  [p \in Peers |-> IF table[p].update = "none" THEN NoRow
                   ELSE [table[p] EXCEPT !.update = "old"]]

\* machine_peers_upd_finished: delete the rows still marked "old" and mark the
\* others "old" for the next round.
UpdFinished(table) ==
  [p \in Peers |-> IF table[p].update = "new"
                   THEN [table[p] EXCEPT !.update = "old"] ELSE NoRow]

\* Mutant: the answer that starts nothing is not taken off the count.
GotPeerInfoUncounted(p, newStatus, started) ==
  LET table == [machine_peers_table EXCEPT ![p] = [update |-> "new", status |-> newStatus]]
  IN  /\ number_threads' = number_threads + started
      /\ machine_peers_table' = table

\* got_peer_info_sl for an answer about p, after parse_peer_info has started
\* `started` more jobs or requests: one answer less to wait for, p's row is
\* fresh, and the answer that brings the count to 0 ends the round.
GotPeerInfo(p, newStatus, started) ==
  LET left == number_threads + started - 1
      table == [machine_peers_table EXCEPT ![p] = [update |-> "new", status |-> newStatus]]
  IN  /\ number_threads' = left
      /\ machine_peers_table' = IF left = 0 THEN UpdFinished(table) ELSE table

\* parse_peer_info returns at once when no answer is expected.
Ignored == UNCHANGED <<number_threads, machine_peers_table, rest>>

\* search_local with the result of UpdateVMInformation: get_peer_info queues a
\* status check for each peer no terminal command is locking, and a round with
\* nothing to wait for ends at once.  An empty list makes it search the peers'
\* directory instead.
DeliverVmJob ==
  /\ done # <<>> /\ Head(done).kind = "vm"
  /\ LET found == Head(done).found
         searched == IF found # {} THEN found ELSE {p \in Peers : vm[p] # "absent"}
         asked == searched \ running_commands
     IN  \E order \in SetToSeqs(asked) :
           /\ pool' = pool \o [i \in DOMAIN order |-> [kind |-> "status", peer |-> order[i]]]
           /\ number_threads' = number_threads + Len(order)
           /\ checking_statutes' = checking_statutes \cup asked
           /\ machine_peers_table' = IF number_threads' = 0
                                     THEN UpdFinished(machine_peers_table)
                                     ELSE machine_peers_table
  /\ done' = Tail(done)
  /\ UNCHANGED <<vm, rest, commandVars>>

\* Mutant: the peer of an answer nobody expects stays locked.
DeliverStatusLocked ==
  /\ done # <<>> /\ Head(done).kind = "status"
  /\ LET p == Head(done).peer
         out == Head(done).output
     IN  IF number_threads = 0 THEN Ignored /\ UNCHANGED <<pool, checking_statutes>>
         ELSE /\ checking_statutes' = checking_statutes \ {p}
              /\ GotPeerInfo(p, out, 0) /\ UNCHANGED <<pool, rest>>
  /\ done' = Tail(done)
  /\ UNCHANGED <<vm, commandVars>>

\* The result of a status check: unlock the peer, ask a running one's port.
DeliverStatus ==
  /\ done # <<>> /\ Head(done).kind = "status"
  /\ LET p == Head(done).peer
         out == Head(done).output
     IN  /\ checking_statutes' = checking_statutes \ {p}
         /\ IF number_threads = 0 THEN Ignored /\ UNCHANGED pool
            ELSE /\ IF out = "running"
                    THEN /\ pool' = Append(pool, [kind |-> "port", peer |-> p])
                         /\ GotPeerInfo(p, out, 1)
                    ELSE UNCHANGED pool /\ GotPeerInfo(p, out, 0)
                 /\ UNCHANGED rest
  /\ done' = Tail(done)
  /\ UNCHANGED <<vm, commandVars>>

\* Mutant: the two requests are counted as one.
DeliverPortCountsOne ==
  /\ done # <<>> /\ Head(done).kind = "port"
  /\ LET p == Head(done).peer
         status == machine_peers_table[p].status
     IN  IF number_threads = 0 THEN Ignored
         ELSE IF Head(done).output = "port"
         THEN /\ rest' = rest \o <<p, p>>
              /\ GotPeerInfo(p, status, 1)
         ELSE UNCHANGED rest /\ GotPeerInfo(p, status, 0)
  /\ done' = Tail(done)
  /\ UNCHANGED <<vm, pool, checking_statutes, commandVars>>

\* The result of a port job: with a port, ask the management of the peer for
\* its fingerprint and for its updates (peer_finger and peer_get_info; their
\* answers do the same to the count and to the row's mark).
DeliverPort ==
  /\ done # <<>> /\ Head(done).kind = "port"
  /\ LET p == Head(done).peer
         status == machine_peers_table[p].status
     IN  IF number_threads = 0 THEN Ignored
         ELSE IF Head(done).output = "port"
         THEN /\ rest' = rest \o <<p, p>>
              /\ GotPeerInfo(p, status, 2)
         ELSE UNCHANGED rest /\ GotPeerInfo(p, status, 0)
  /\ done' = Tail(done)
  /\ UNCHANGED <<vm, pool, checking_statutes, commandVars>>

\* Mutant: a late answer is taken off a count that is already 0.
RestFinishedAlways ==
  /\ \E i \in DOMAIN rest :
       /\ GotPeerInfo(rest[i], machine_peers_table[rest[i]].status, 0)
       /\ rest' = RemoveAt(rest, i)
  /\ UNCHANGED <<vm, pool, done, checking_statutes, commandVars>>

\* A REST request ends, with an answer or after its 10 s timeout, in any order.
RestFinished ==
  /\ \E i \in DOMAIN rest :
       LET p == rest[i] IN
         /\ IF number_threads = 0
            THEN UNCHANGED <<number_threads, machine_peers_table>>
            ELSE GotPeerInfo(p, machine_peers_table[p].status, 0)
         /\ rest' = RemoveAt(rest, i)
  /\ UNCHANGED <<vm, pool, done, checking_statutes, commandVars>>

----------------------------------------------------------------------------
\* Terminal commands.

\* The dialog of p refreshes itself every 3 s (updatePeer): the buttons follow
\* the lock; a dialog whose peer left the table closes, or stays as it is when
\* the last global status still lists the peer.
DialogRefreshed(p) ==
  /\ \/ InTable(p) /\ p \notin checking_statutes /\ enabled' = enabled \cup {p}
     \/ InTable(p) /\ p \in checking_statutes /\ enabled' = enabled \ {p}
     \/ ~InTable(p) /\ enabled' = enabled \ {p}
  /\ UNCHANGED <<vm, mainVars, queueVars, running_commands, command, terminal>>

\* The user presses a button: rh_start, rh_stop, rh_reload_sl, rh_destroy_sl, or
\* rh_ssh, whose button is never disabled.  One button starts or stops, as its
\* text says; the text may be out of date, so both are possible.
Click(c, p, op) ==
  /\ command[c] = NoThread
  /\ (op = "ssh" /\ InTable(p)) \/ p \in enabled
  /\ ~(op = "destroy" /\ machine_peers_table[p].status = "not_created")
  /\ enabled' = enabled \ {p}
  /\ command' = [command EXCEPT ![c] = [stage |-> "clicked", peer |-> p, op |-> op]]
  /\ UNCHANGED <<vm, mainVars, queueVars, running_commands, terminal>>

\* rh_destroy_sl on a peer shown as not created only removes its directory.
RemoveNotCreated(p) ==
  /\ p \in enabled
  /\ machine_peers_table[p].status = "not_created"
  /\ \/ vm' = [vm EXCEPT ![p] = "absent"] /\ enabled' = enabled \ {p}
     \/ UNCHANGED <<vm, enabled>>
  /\ UNCHANGED <<mainVars, queueVars, running_commands, command, terminal>>

\* vagrant_command_terminal, in the command's own thread: lock the peer, start
\* a terminal that runs vagrant, and keep the lock 10 s; or return before that,
\* when there is no terminal program or no script can be written.
StartTerminal(c) ==
  LET locked == running_commands \cup {command[c].peer} IN
  /\ command[c].stage = "clicked"
  /\ \/ /\ running_commands' = locked
        /\ command' = [command EXCEPT ![c].stage = "window"]
        /\ terminal' = [terminal EXCEPT ![c] = "running"]
     \/ /\ running_commands' = locked
        /\ command' = [command EXCEPT ![c].stage = "failed"]
        /\ UNCHANGED terminal
     \/ /\ command' = [command EXCEPT ![c].stage = "refused"]
        /\ UNCHANGED <<running_commands, terminal>>
  /\ UNCHANGED <<vm, mainVars, queueVars, enabled>>

\* The 10 s are over: unlock the peer.  A command that did not start, and every
\* ssh, enables the buttons again; a destroy that did closes the dialog.
WindowEnds(c) ==
  LET p == command[c].peer
      stage == command[c].stage
  IN
  /\ stage \in {"window", "failed", "refused"}
  /\ running_commands' = IF stage = "refused" THEN running_commands ELSE running_commands \ {p}
  /\ enabled' = IF stage # "window" \/ command[c].op = "ssh" THEN enabled \cup {p}
                ELSE IF command[c].op = "destroy" THEN enabled \ {p} ELSE enabled
  /\ command' = [command EXCEPT ![c].stage = "over"]
  /\ UNCHANGED <<vm, mainVars, queueVars, terminal>>

\* What a vagrant command that succeeds makes of its machine.
After(op, state) ==
  CASE op = "halt" -> "poweroff"
    [] op = "destroy" -> "not_created"
    [] op = "ssh" -> state
    [] OTHER -> "running"

\* vagrant ends in its terminal, and the shell leaves <command>_finished beside
\* what vagrant wrote to its error output ("finished" when that is nothing),
\* unless the directory has gone meanwhile.
TerminalEnds(c) ==
  LET p == command[c].peer
      done_vm == [vm EXCEPT ![p] = After(command[c].op, vm[p])]
  IN
  /\ terminal[c] = "running"
  /\ \/ /\ vm[p] # "absent"
        /\ vm' = done_vm
        /\ terminal' = [terminal EXCEPT ![c] = "finished"]
     \/ /\ vm[p] # "absent"
        /\ vm' \in {vm, done_vm}
        /\ terminal' = [terminal EXCEPT ![c] = "failed"]
     \/ /\ vm[p] = "absent"
        /\ terminal' = [terminal EXCEPT ![c] = "none"]
        /\ UNCHANGED vm
  /\ UNCHANGED <<mainVars, queueVars, running_commands, enabled, command>>

\* check_logs, every 7 s: consume the logs of finished commands; a destroy
\* without errors removes the peer's directory (the removal itself may fail),
\* forgets the round in progress and starts another one for each such peer.
CheckLogs ==
  LET ended == {c \in Commands : terminal[c] \in {"finished", "failed"}}
      destroyed == {command[c].peer : c \in {d \in ended :
                      terminal[d] = "finished" /\ command[d].op = "destroy"}}
      room == MaxVmJobs - VmJobsInFlight
  IN  /\ ended # {}
      /\ Cardinality(destroyed) <= room
      /\ \E removed \in SUBSET destroyed :
           vm' = [p \in Peers |-> IF p \in removed THEN "absent" ELSE vm[p]]
      /\ terminal' = [c \in Commands |-> IF c \in ended THEN "none" ELSE terminal[c]]
      /\ number_threads' = IF destroyed = {} THEN number_threads ELSE 0
      /\ pool' = pool \o [i \in 1..Cardinality(destroyed) |-> VmJob]
      /\ UNCHANGED <<done, rest, machine_peers_table, checking_statutes,
                     running_commands, enabled, command>>

\* Outside this component: a peer is created (the creation dialog).
PeerCreated(p) ==
  /\ vm[p] = "absent"
  /\ vm' = [vm EXCEPT ![p] = "running"]
  /\ UNCHANGED <<mainVars, queueVars, commandVars>>

----------------------------------------------------------------------------
Deliver == DeliverVmJob \/ DeliverStatus \/ DeliverPort
RunJob == RunVmJob \/ RunStatusJob \/ RunPortJob

Next ==
  \/ RefreshTimerTimeout
  \/ CreatePeerDialogOpened
  \/ RunVmJob \/ RunStatusJob \/ RunPortJob
  \/ DeliverVmJob \/ DeliverStatus \/ DeliverPort
  \/ RestFinished
  \/ CheckLogs
  \/ \E p \in Peers : DialogRefreshed(p) \/ RemoveNotCreated(p) \/ PeerCreated(p)
  \/ \E c \in Commands, p \in Peers, op \in Ops : Click(c, p, op)
  \/ \E c \in Commands : StartTerminal(c) \/ WindowEnds(c) \/ TerminalEnds(c)

Spec == Init /\ [][Next]_vars

\* The timers re-arm themselves, the pool and the event loop run what is queued,
\* requests time out and vagrant commands end.  Nothing makes a user act.
Fairness ==
  /\ WF_vars(RefreshTimerTimeout)
  /\ WF_vars(RunJob)
  /\ WF_vars(Deliver)
  /\ WF_vars(RestFinished)
  /\ WF_vars(CheckLogs)
  /\ \A c \in Commands : WF_vars(StartTerminal(c)) /\ WF_vars(WindowEnds(c))
                         /\ WF_vars(TerminalEnds(c))

FairSpec == Spec /\ Fairness

----------------------------------------------------------------------------
\* Properties.

\* number_threads never exceeds the answers that will still arrive, whatever
\* rounds overlap and whatever check_logs forgets: every unit of the count is
\* brought back by some answer, so no round can block the refresh for ever.
CountIsCovered == number_threads <= Outstanding

\* A peer stays locked by a status check only while that check is queued, runs
\* or has its result on the way: the dialog's buttons cannot stay disabled.
LockHasAStatusCheck ==
  \A p \in checking_statutes :
    \/ \E i \in DOMAIN pool : pool[i] = [kind |-> "status", peer |-> p]
    \/ \E i \in DOMAIN done : done[i].kind = "status" /\ done[i].peer = p

\* While no terminal command is given, the row of a machine that exists is not
\* deleted: overlapping rounds, late answers, failed listings and newly created
\* peers do not make a peer flicker in the menu.
LivePeerKept ==
  [][\A p \in Peers :
       /\ InTable(p) /\ vm[p] \in {"poweroff", "running"}
       /\ \A c \in Commands : command[c] = NoThread
       => InTable(p)']_vars

\* A round that has begun ends, and the refresh timer works again.
RoundEnds == number_threads > 0 ~> number_threads = 0

\* The menu converges to the truth: a machine that keeps running, or keeps off,
\* ends up in the table with that status; a directory that stays away ends up
\* without a row.
TableConverges ==
  \A p \in Peers :
    /\ \A s \in {"poweroff", "running"} :
         <>[](vm[p] = s) => <>[](InTable(p) /\ machine_peers_table[p].status = s)
    /\ <>[](vm[p] = "absent") => <>[]~InTable(p)

\* "number_threads; // to emit signal when all finished" (PeerController.h): a
\* round is declared finished by an answer only when no other one is awaited.
EmittedWhenAllFinished ==
  [][(number_threads > 0 /\ number_threads' = 0 /\ done' # done)
       => Outstanding' = 0]_vars

\* "lock vagrant commands if CC is checking peer status; Vagrant can only
\* execute one command per peer" (DlgPeer.cpp): no command starts on a peer that
\* is locked by a status check.
NoCommandWhileChecking ==
  [][\A c \in Commands :
       (command[c].stage = "clicked" /\ command'[c].stage = "window")
         => command[c].peer \notin checking_statutes]_vars
=============================================================================
