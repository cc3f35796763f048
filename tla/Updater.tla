------------------------------ MODULE Updater ------------------------------
(***************************************************************************)
(* CHubComponentsUpdater and IUpdaterComponent: the operations (install,   *)
(* update, uninstall) on the components Control Center looks after, who    *)
(* starts them, and the two timers that look for updates of P2P and TRAY.  *)
(*                                                                         *)
(* Threads: the main thread and one worker for each Silent(Un)Installer or *)
(* SilentUpdater.  The main thread runs a handler to its end, except that  *)
(* QMessageBox::exec() runs a nested event loop: while a box is open,      *)
(* timers, downloads and results are handled inside the handler that       *)
(* opened it, and only the last box opened can be answered.  `frames' is   *)
(* that stack of unfinished handlers.                                      *)
(***************************************************************************)
EXTENDS UpdaterComponents, Integers, FiniteSetsExt, SequencesExt

CONSTANTS
  Acting,   \* the components that are used
  MaxOps    \* bounds the operations a request or a timer may add to

ASSUME ActingAssumption == Acting \subseteq Components
ASSUME MaxOpsAssumption == MaxOps \in Nat

VARIABLES
  task,        \* m_in_progress and the state of the operation, by component
  frames,      \* the handlers of the main thread waiting for an inner event loop
  timer,       \* the active timers among those of Timed
  autoupdate,  \* CUpdaterComponentItem::autoupdate, as the set where it is true
  settings,    \* what CSettingsManager keeps, also over a restart
  p2p_found    \* whether the P2P daemon is installed

vars == <<task, frames, timer, autoupdate, settings, p2p_found>>

\* The components with a timer.
Timed == {"P2P", "TRAY"} \cap Acting

Operations == {"install", "update", "uninstall"}
Stages == {"none", "asking", "downloading", "working", "ok", "failed", "post"}
Tasks == [m_in_progress : BOOLEAN, stage : Stages, op : Operations \cup {"none"}]

Idle == [m_in_progress |-> FALSE, stage |-> "none", op |-> "none"]

\* An operation that has come to a stage.
At(op, stage) == [m_in_progress |-> TRUE, stage |-> stage, op |-> op]

\* An operation whose *_internal function has returned, with nothing left that
\* would call a finished slot.
Returned(op) == At(op, "none")

Boxed == {"asking", "post"}

\* A handler that waits for the box of `comp', the loop of
\* btn_uninstall_components, or the timer handler of `comp'.
BoxFrame(c) == [kind |-> "box", comp |-> c, rest |-> <<>>]
BatchFrame(s) == [kind |-> "batch", comp |-> "none", rest |-> s]
TimerFrame(c) == [kind |-> "timer", comp |-> c, rest |-> <<>>]
Frames == [kind : {"box", "batch", "timer"}, comp : Acting \cup {"none"}, rest : Seq(Acting)]

TypeOK ==
  /\ task \in [Acting -> Tasks]
  /\ frames \in Seq(Frames)
  /\ timer \subseteq Timed
  /\ autoupdate \subseteq Timed
  /\ settings \in [autoupdate : SUBSET Timed, never : SUBSET Timed]
  /\ p2p_found \in BOOLEAN

AllIdle == [c \in Acting |-> Idle]

\* The constructors, with the default settings.
Init ==
  /\ task = AllIdle
  /\ frames = <<>>
  /\ timer = Timed
  /\ autoupdate = {}
  /\ settings = [autoupdate |-> {}, never |-> {}]
  /\ p2p_found \in BOOLEAN

----------------------------------------------------------------------------
\* What an operation makes of its component's task.  Each of these is the set
\* of tasks the call may leave: what it finds on kurjun, on the disk or in the
\* other components is not modelled.

\* Mutant: m_in_progress is cleared before the post action.
FinishedEarly(c, op, success) ==
  IF success THEN {IF box THEN [At(op, "post") EXCEPT !.m_in_progress = FALSE] ELSE Idle :
                     box \in Plans[c][op].box}
             ELSE {Idle}

\* install_finished_sl, update_finished_sl, uninstall_finished_sl: the post
\* action, which may show a box, then m_in_progress is cleared.
Finished(c, op, success) ==
  IF success THEN {IF box THEN At(op, "post") ELSE Idle : box \in Plans[c][op].box}
             ELSE {Idle}

\* startWork, replace_executables(true) or nothing.
Ran(c, op) ==
  CASE Plans[c][op].run = "worker"  -> {At(op, "working")}
    [] Plans[c][op].run = "replace" -> Finished(c, op, TRUE) \cup Finished(c, op, FALSE)
    [] Plans[c][op].run = "nothing" -> Finished(c, op, TRUE)

\* Mutant: every component returns when its file is missing.
FetchedOrReturned(c, op) == {At(op, "downloading"), Returned(op)}

\* get_gorjun_file_info, then start_download.
Fetched(c, op) ==
  {At(op, "downloading")} \cup
    (IF Plans[c][op].missing = "finishes" THEN Finished(c, op, FALSE) ELSE {Returned(op)})

\* What follows the answer Yes.
Proceeded(c, op) ==
  UNION {IF fetch THEN Fetched(c, op) ELSE Ran(c, op) : fetch \in Plans[c][op].fetch}

\* install(), update(), uninstall(): nothing while m_in_progress, else set it
\* and call *_internal.
Begun(c, op, found) ==
  LET plan == Plans[c][op] IN
  IF task[c].m_in_progress THEN {task[c]}
  ELSE IF plan.before = "p2p_path" /\ ~found THEN {Returned(op)}
  ELSE (IF plan.before = "license" THEN Finished(c, op, FALSE) ELSE {})
       \cup UNION {IF ask THEN {At(op, "asking")} ELSE Proceeded(c, op) : ask \in plan.ask}

\* Component c gets task t in a handler that leaves the handlers `under' waiting.
Becomes(c, t, under) ==
  /\ task' = [task EXCEPT ![c] = t]
  /\ frames' = IF t.stage \in Boxed /\ t # task[c] THEN Append(under, BoxFrame(c)) ELSE under

----------------------------------------------------------------------------
\* The main thread.

\* An event loop is running: the outermost one, or that of the last box.
EventLoop == frames # <<>> => Last(frames).kind = "box"

\* A box is application modal: the dialogs take no input while one is open.
DialogsActive == frames = <<>>

InFlight == {c \in Acting : task[c].stage # "none"}
Room == Cardinality(InFlight) < MaxOps

\* The buttons of DlgAbout, and Update P2P and Install P2P of a notification.
\* Whether a button installs or updates follows a version label that may be out
\* of date: both are possible.
Requested(c, op) ==
  /\ DialogsActive /\ Room
  /\ c # "TRAY" /\ op \in {"install", "update"}
  /\ \E t \in Begun(c, op, p2p_found) : Becomes(c, t, frames)
  /\ UNCHANGED <<timer, autoupdate, settings, p2p_found>>

\* launch_p2p_installation, from the menu of the tray icon, which no box blocks.
LaunchP2PInstallation ==
  /\ "P2P" \in Acting
  /\ EventLoop /\ Room
  /\ \E t \in Begun("P2P", "install", p2p_found) : Becomes("P2P", t, frames)
  /\ UNCHANGED <<timer, autoupdate, settings, p2p_found>>

\* btn_tray_update_released refuses while another component is in progress.
TrayButton ==
  /\ "TRAY" \in Acting
  /\ DialogsActive /\ Room
  /\ \A c \in Acting \ {"TRAY"} : ~task[c].m_in_progress
  /\ \E t \in Begun("TRAY", "update", p2p_found) : Becomes("TRAY", t, frames)
  /\ UNCHANGED <<timer, autoupdate, settings, p2p_found>>

\* The button Update of the notification calls force_update_tray.
TrayNotification ==
  /\ "TRAY" \in Acting
  /\ DialogsActive /\ Room
  /\ \E t \in Begun("TRAY", "update", p2p_found) : Becomes("TRAY", t, frames)
  /\ UNCHANGED <<timer, autoupdate, settings, p2p_found>>

\* Uninstall of a notification, and of the dialog that creates peers.
UninstallProvider ==
  LET c == "VAGRANT_VMWARE_DESKTOP" IN
  /\ c \in Acting
  /\ DialogsActive /\ Room
  /\ \E t \in Begun(c, "uninstall", p2p_found) : Becomes(c, t, frames)
  /\ UNCHANGED <<timer, autoupdate, settings, p2p_found>>

\* btn_uninstall_components, once its question is answered Yes: a loop over the
\* components that are checked.
UninstallButton ==
  /\ DialogsActive
  /\ \E chosen \in UNION {kSubset(k, Acting \ {"TRAY"}) :
                           k \in 1 .. MaxOps - Cardinality(InFlight)} :
       /\ \A group \in {Hypervisors, Browsers, ProviderPlugins} :
            Cardinality(chosen \cap group) <= 1
       /\ \E s \in SetToSeqs(chosen) :
            /\ \A i, j \in DOMAIN s :
                 s[i] \notin HighPriority /\ s[j] \in HighPriority => j < i
            /\ frames' = <<BatchFrame(s)>>
  /\ UNCHANGED <<task, timer, autoupdate, settings, p2p_found>>

\* One round of that loop, which goes on when the box of the last one is closed.
UninstallNext ==
  /\ frames # <<>> /\ Last(frames).kind = "batch"
  /\ LET rest == Last(frames).rest IN
       IF rest = <<>> THEN frames' = Front(frames) /\ UNCHANGED task
       ELSE \E t \in Begun(Head(rest), "uninstall", p2p_found) :
              Becomes(Head(rest), t, Append(Front(frames), BatchFrame(Tail(rest))))
  /\ UNCHANGED <<timer, autoupdate, settings, p2p_found>>

\* Mutant: the timer is stopped before the handler returns early.
TimerStoppedFirst(c) ==
  /\ EventLoop /\ Room
  /\ c \in timer
  /\ timer' = timer \ {c}
  /\ frames' = IF c = "P2P" /\ ~p2p_found THEN frames ELSE Append(frames, TimerFrame(c))
  /\ UNCHANGED <<task, autoupdate, settings, p2p_found>>

\* update_component_timer_timeout: stop the timer; with an update available,
\* update or notify; start the timer again, once update() has returned.
UpdateComponentTimerTimeout(c) ==
  /\ EventLoop /\ Room
  /\ c \in timer
  /\ c = "P2P" => p2p_found
  /\ timer' = timer \ {c}
  /\ LET under == Append(frames, TimerFrame(c)) IN
       \/ frames' = under /\ UNCHANGED task
       \/ /\ c \in autoupdate
          /\ \E t \in Begun(c, "update", p2p_found) : Becomes(c, t, under)
  /\ UNCHANGED <<autoupdate, settings, p2p_found>>

\* timer_start at the end of the timer's handler.
TimerStart ==
  /\ frames # <<>> /\ Last(frames).kind = "timer"
  /\ timer' = timer \cup {Last(frames).comp}
  /\ frames' = Front(frames)
  /\ UNCHANGED <<task, autoupdate, settings, p2p_found>>

\* The user answers the last box: Yes goes on, No ends the operation; after a
\* post action m_in_progress is cleared.
AnswerBox ==
  /\ frames # <<>> /\ Last(frames).kind = "box"
  /\ LET c == Last(frames).comp IN
       \E t \in {Idle} \cup (IF task[c].stage = "asking" THEN Proceeded(c, task[c].op) ELSE {}) :
         Becomes(c, t, Front(frames))
  /\ UNCHANGED <<timer, autoupdate, settings, p2p_found>>

\* CDownloadFileManager::finished.  replace_executables(false) just returns.
DownloadFinished(c) ==
  LET op == task[c].op IN
  /\ EventLoop
  /\ task[c].stage = "downloading"
  /\ \E t \in Ran(c, op) \cup (IF Plans[c][op].run = "replace" THEN {Returned(op)}
                               ELSE Finished(c, op, FALSE)) :
       Becomes(c, t, frames)
  /\ UNCHANGED <<timer, autoupdate, settings, p2p_found>>

\* The worker of c has done, or failed to do, what it was started for.
Work(c) ==
  /\ task[c].stage = "working"
  /\ \/ /\ task' = [task EXCEPT ![c].stage = "ok"]
        /\ p2p_found' = IF c = "P2P" THEN task[c].op # "uninstall" ELSE p2p_found
     \/ /\ task' = [task EXCEPT ![c].stage = "failed"]
        /\ UNCHANGED p2p_found
  /\ UNCHANGED <<frames, timer, autoupdate, settings>>

\* Mutant: results wait until every box is closed.
OutputReceivedAfterBoxes(c) ==
  /\ DialogsActive
  /\ task[c].stage \in {"ok", "failed"}
  /\ \E t \in Finished(c, task[c].op, task[c].stage = "ok") : Becomes(c, t, frames)
  /\ UNCHANGED <<timer, autoupdate, settings, p2p_found>>

\* Its outputReceived reaches the main thread.
OutputReceived(c) ==
  /\ EventLoop
  /\ task[c].stage \in {"ok", "failed"}
  /\ \E t \in Finished(c, task[c].op, task[c].stage = "ok") : Becomes(c, t, frames)
  /\ UNCHANGED <<timer, autoupdate, settings, p2p_found>>

\* set_update_freq for each of them: stop the timer and, unless the frequency is
\* "never", start it again.
SetUpdateFreq(never) == timer' = Timed \ never

\* The settings dialog saves all four settings, and each setter applies its own.
SaveSettings ==
  /\ DialogsActive
  /\ settings' \in [autoupdate : SUBSET Timed, never : SUBSET Timed]
  /\ autoupdate' = settings'.autoupdate
  /\ SetUpdateFreq(settings'.never)
  /\ UNCHANGED <<task, frames, p2p_found>>

\* RestartTray: Yes in the box of a finished tray update, or a notification's
\* Restart Control Center.  The constructors of the new process start the timers
\* from the saved frequencies and leave automatic updates off.
RestartTray ==
  /\ frames # <<>> => Last(frames) = BoxFrame("TRAY")
  /\ task' = AllIdle
  /\ frames' = <<>>
  /\ SetUpdateFreq(settings.never)
  /\ autoupdate' = {}
  /\ UNCHANGED <<settings, p2p_found>>

----------------------------------------------------------------------------
Next ==
  \/ \E c \in Acting, op \in Operations : Requested(c, op)
  \/ LaunchP2PInstallation
  \/ TrayButton \/ TrayNotification
  \/ UninstallProvider
  \/ UninstallButton \/ UninstallNext
  \/ \E c \in Timed : UpdateComponentTimerTimeout(c)
  \/ TimerStart
  \/ AnswerBox
  \/ \E c \in Acting : DownloadFinished(c) \/ Work(c) \/ OutputReceived(c)
  \/ SaveSettings
  \/ RestartTray

Spec == Init /\ [][Next]_vars

\* Handlers run to their end and workers finish.  An event loop delivers what is
\* posted to it however often timers and boxes interrupt it: strong fairness.
\* Nothing makes a user answer a box.
Fairness ==
  /\ WF_vars(UninstallNext)
  /\ WF_vars(TimerStart)
  /\ \A c \in Acting : WF_vars(Work(c)) /\ SF_vars(DownloadFinished(c))
                       /\ SF_vars(OutputReceived(c))

FairSpec == Spec /\ Fairness

----------------------------------------------------------------------------
\* Properties.

\* m_in_progress protects an operation to its end: no other caller, timer or
\* nested event loop starts a second one on a component whose download, worker
\* or box is still open; the operation goes on or ends.
NeverStartedOver ==
  [][\A c \in Acting :
       task[c].stage # "none" => task'[c] = Idle \/ task'[c].op = task[c].op]_vars

\* Whatever is refused, missing or fails, a component that is in progress has
\* something under way that will call its finished slot (P2P and TRAY return
\* without it and are left out): its buttons come back.
InProgressIsUnderWay ==
  \A c \in Acting \ {"P2P", "TRAY"} :
    task[c].m_in_progress => task[c].stage # "none"

\* Nested event loops return to the right operation: a box on the stack is the
\* only one of its component, which is waiting for it, and every operation that
\* waits for a box has one.
BoxesAreAwaited ==
  LET boxes == {i \in DOMAIN frames : frames[i].kind = "box"} IN
  /\ \A i, j \in boxes : frames[i].comp = frames[j].comp => i = j
  /\ {frames[i].comp : i \in boxes} = {c \in Acting : task[c].stage \in Boxed}

\* The timer of a component runs, or its handler is under way and will start it
\* again, exactly if the frequency in the settings is not "never".
TimerFollowsSettings ==
  \A c \in Timed :
    LET held == {i \in DOMAIN frames : frames[i] = TimerFrame(c)} IN
    /\ (c \in timer \/ held # {}) <=> c \notin settings.never
    /\ c \in timer => held = {}

\* A download or a worker's result is handled whatever boxes are left open: what
\* runs in the background comes to its finished slot, or to a box of its own.
WorkEnds ==
  \A c \in Acting :
    task[c].stage \in {"downloading", "working", "ok", "failed"}
      ~> task[c].stage \in {"none"} \cup Boxed

\* "Subutai Control Center update is not allowed while other components are being
\* downloaded, installed, uninstalled or updated." (DlgAbout.cpp)
TrayUpdatesAlone ==
  [][(~task["TRAY"].m_in_progress /\ task'["TRAY"].m_in_progress)
       => \A c \in Acting \ {"TRAY"} : ~task[c].m_in_progress]_vars

\* "To continue, you must install the P2P Daemon first." (UpdaterComponentP2P.cpp):
\* a daemon that is not there, with nothing under way, can be installed.
MissingP2PCanBeInstalled ==
  ~p2p_found /\ task["P2P"].stage = "none" => ~task["P2P"].m_in_progress

\* "Automatic p2p update", "Automatic CC update" (DlgSettings.ui): what the
\* settings dialog shows is what the timers do.
AutoupdateFollowsSettings == autoupdate = settings.autoupdate
=============================================================================
