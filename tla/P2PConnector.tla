---------------------------- MODULE P2PConnector ----------------------------
(***************************************************************************)
(* P2PConnector: the rounds in which the tray joins the swarms of the      *)
(* environments it knows from the Hub, leaves the others, and shakes hands *)
(* with the containers.                                                    *)
(*                                                                         *)
(* Threads: the main thread, which runs update_status and the results; the *)
(* one thread of m_pool, which works off the jobs in their order.  A round *)
(* blocks the main thread while `p2p show' runs twice in the global pool,  *)
(* and the job of m_pool goes on between the two.  External: the daemon.   *)
(* An environment has one container here.  The numbers of the interfaces   *)
(* are left out.                                                           *)
(***************************************************************************)
EXTENDS Naturals, SequencesExt

CONSTANTS
  Envs,      \* the environments, by their hash
  MaxJobs    \* bounds the jobs that are waiting when a round begins

VARIABLES
  hub,              \* CHubController::lst_environments
  healthy,          \* those that are healthy
  daemon,           \* whether the daemon of P2P answers
  swarms,           \* the swarms the daemon has joined
  round,            \* what update_status is doing
  joined_swarms,    \* what its first `p2p show' told
  jobs,             \* the jobs of m_pool that are not done
  results,          \* the results whose slots have not run
  connected_envs, connected_conts

main == <<hub, healthy, round, joined_swarms, connected_envs, connected_conts>>
vars == <<hub, healthy, daemon, swarms, round, joined_swarms, jobs, results,
          connected_envs, connected_conts>>

Jobs == [do : {"join", "leave", "check"}, env : Envs]
Results == [do : {"join", "leave", "check"}, env : Envs, success : BOOLEAN]

TypeOK ==
  /\ hub \subseteq Envs /\ healthy \subseteq hub
  /\ daemon \in BOOLEAN /\ swarms \subseteq Envs
  /\ round \in {"waiting", "checked", "shown"}
  /\ joined_swarms \subseteq Envs
  /\ jobs \in Seq(Jobs) /\ results \in Seq(Results)
  /\ connected_envs \subseteq Envs /\ connected_conts \subseteq Envs

Init ==
  /\ hub = {} /\ healthy = {}
  /\ daemon \in BOOLEAN /\ swarms \in SUBSET Envs
  /\ round = "waiting" /\ joined_swarms = {}
  /\ jobs = <<>> /\ results = <<>>
  /\ connected_envs = {} /\ connected_conts = {}

----------------------------------------------------------------------------
\* The timer's shot: no daemon, no connections.  The next shot is set either way.
RoundBegins ==
  /\ round = "waiting" /\ Len(jobs) + Len(results) <= MaxJobs
  /\ IF daemon
       THEN round' = "checked" /\ UNCHANGED <<connected_envs, connected_conts>>
       ELSE round' = "waiting" /\ connected_envs' = {} /\ connected_conts' = {}
  /\ UNCHANGED <<hub, healthy, daemon, swarms, joined_swarms, jobs, results>>

\* p2p_show: no swarms when the daemon does not answer any more.
SwarmsAreShown ==
  /\ round = "checked"
  /\ round' = "shown"
  /\ joined_swarms' = IF daemon THEN swarms ELSE {}
  /\ UNCHANGED <<hub, healthy, daemon, swarms, jobs, results, connected_envs, connected_conts>>

\* The jobs for one kind and some environments, in the order of the list of the
\* Hub or of the daemon, whatever that is.
Queued(kind, envs) == SetToSeqs({[do |-> kind, env |-> e] : e \in envs})

\* Mutant: the swarms the tray remembers are left, not those the daemon is in.
ToLeaveRemembered == connected_envs \ hub

\* The swarms of no environment of the Hub.
ToLeave == joined_swarms \ hub

\* p2p_show_interfaces and the rest of the round: who is connected follows what
\* was shown; then joins, handshakes and leaves are queued.  The timer is set.
RoundEnds ==
  /\ round = "shown"
  /\ round' = "waiting"
  /\ connected_envs' = (connected_envs \ hub) \cup (hub \cap joined_swarms)
  /\ \E joins \in Queued("join", healthy \ joined_swarms),
        checks \in Queued("check", hub \cap joined_swarms),
        leaves \in Queued("leave", ToLeave) :
       jobs' = jobs \o joins \o checks \o leaves
  /\ joined_swarms' = {}
  /\ UNCHANGED <<hub, healthy, daemon, swarms, results, connected_conts>>

----------------------------------------------------------------------------
\* The thread of m_pool.

\* The first job is done: the daemon is in `in' afterwards.
JobIsDone(success, in) ==
  /\ jobs' = Tail(jobs)
  /\ results' = Append(results, [do |-> Head(jobs).do, env |-> Head(jobs).env, success |-> success])
  /\ swarms' = in
  /\ UNCHANGED <<main, daemon>>

\* join_to_p2p_swarm: nothing to do in the swarm, else `p2p start'.
Join ==
  /\ jobs # <<>> /\ Head(jobs).do = "join" /\ daemon
  /\ JobIsDone(TRUE, swarms \cup {Head(jobs).env})

\* leave_p2p_swarm.
Leave ==
  /\ jobs # <<>> /\ Head(jobs).do = "leave" /\ daemon
  /\ JobIsDone(TRUE, swarms \ {Head(jobs).env})

\* check_container_state: it looks at the code alone, so a check that is given up
\* counts as a success.
Check ==
  /\ jobs # <<>> /\ Head(jobs).do = "check" /\ daemon
  /\ JobIsDone(Head(jobs).env \in swarms, swarms)

\* A process fails or is given up: the daemon may have done what it was told.
\* leave_p2p_swarm tells a success when the daemon does not show the swarm.
JobFails ==
  /\ jobs # <<>>
  /\ LET e == Head(jobs).env IN
       \/ Head(jobs).do = "join"
            /\ \E in \in {swarms} \cup (IF daemon THEN {swarms \cup {e}} ELSE {}) : JobIsDone(FALSE, in)
       \/ Head(jobs).do = "leave" /\ \E success \in BOOLEAN : JobIsDone(success, swarms)
       \/ Head(jobs).do = "check" /\ \E success \in BOOLEAN : JobIsDone(success, swarms)

\* Nothing else can come of a job while the daemon does not answer.
NoDaemon == ~ daemon /\ JobFails

----------------------------------------------------------------------------
\* The slots of the results, in the main thread.

With(set, e, success) == IF success THEN set \cup {e} ELSE set \ {e}

ResultArrives ==
  /\ results # <<>> /\ round = "waiting"
  /\ results' = Tail(results)
  /\ LET r == Head(results) IN
       /\ connected_envs' = CASE r.do = "join"  -> With(connected_envs, r.env, r.success)
                              [] r.do = "leave" -> connected_envs \ {r.env}
                              [] r.do = "check" -> connected_envs
       /\ connected_conts' = IF r.do = "check" THEN With(connected_conts, r.env, r.success)
                                               ELSE connected_conts
  /\ UNCHANGED <<hub, healthy, daemon, swarms, round, joined_swarms, jobs>>

----------------------------------------------------------------------------
\* What happens outside.

HubChanges ==
  /\ round = "waiting"
  /\ hub' \in SUBSET Envs /\ healthy' \in SUBSET hub'
  /\ <<hub', healthy'>> # <<hub, healthy>>
  /\ UNCHANGED <<daemon, swarms, round, joined_swarms, jobs, results, connected_envs,
                 connected_conts>>

\* The daemon stops, and starts with the swarms it was in or with none.
DaemonChanges ==
  /\ daemon' = ~ daemon
  /\ swarms' \in IF daemon THEN {swarms} ELSE {swarms, {}}
  /\ UNCHANGED <<main, jobs, results>>

Disturbs == HubChanges \/ DaemonChanges \/ (daemon /\ JobFails)

Round == RoundBegins \/ SwarmsAreShown \/ RoundEnds
Job == Join \/ Leave \/ Check \/ NoDaemon

Next == Round \/ Job \/ ResultArrives \/ Disturbs

Spec == Init /\ [][Next]_vars

\* The timer fires, the thread of the pool works, events are handled.
FairRound == WF_vars(Round)
FairJob == WF_vars(Job)
FairResult == WF_vars(ResultArrives)
FairSpec == Spec /\ FairRound /\ FairJob /\ FairResult

----------------------------------------------------------------------------
(* What should hold. *)

\* P2PController::is_ready.
Ready(e) == e \in connected_envs /\ e \in connected_conts

Settled ==
  /\ healthy \subseteq swarms /\ swarms \subseteq hub
  /\ \A e \in hub : Ready(e) <=> e \in swarms

\* Once the Hub's list and the daemon no longer change and no job fails, the daemon
\* comes to be in the swarms of the healthy environments and in those of no other
\* account, and exactly the containers it can reach are offered as ready: late
\* results of joins, leaves and handshakes, and jobs queued twice because a round
\* does not wait for the last one's, do not spoil it.
SwarmsSettle == (<>[][~ Disturbs]_vars /\ <>[]daemon) => <>[]Settled
=============================================================================
