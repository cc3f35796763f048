----------------------------- MODULE Installers -----------------------------
(***************************************************************************)
(* The functions of CSystemCallWrapper at work, each in a thread of the    *)
(* pool: the mutexes installer_is_busy and vagrant_is_busy, the scripts in *)
(* the directory of temporary files, and what each function tells of how   *)
(* its processes ended.  InstallFunctions says what the functions do; here *)
(* a function is a sequence of steps, and an action carries out a step.    *)
(***************************************************************************)
EXTENDS InstallFunctions, Integers, FiniteSets

CONSTANTS
  Bodies,   \* the steps of each function on each system
  Teams     \* the sets of functions that are used together

Systems == {"linux", "mac", "windows"}
Nobody == "nobody"

\* The steps between which no mutex changes hands.
LockSteps == {"lock", "unlock"}

\* The next step after i that takes or gives back a mutex, or the end.
IsExit(body, i, j) ==
  /\ j \in (i + 1)..(Len(body) + 1)
  /\ j <= Len(body) => body[j].do \in LockSteps
  /\ \A k \in (i + 1)..(j - 1) : body[k].do \notin LockSteps

\* Step i comes after a lock() of the mutex and before its unlock().
InSection(body, i, mutex) ==
  \E k \in 1..(i - 1) :
    /\ body[k].do = "lock" /\ body[k].on = mutex
    /\ \A j \in k..(i - 1) : ~ (body[j].do = "unlock" /\ body[j].on = mutex)

\* Every lock() has its unlock(), on the way on which nothing is forgotten.
Balanced(body) ==
  /\ \A i \in 1..Len(body) :
       /\ body[i].do \in LockSteps => body[i].on \in Mutexes
       /\ body[i].do = "lock" => ~ InSection(body, i, body[i].on)
       /\ body[i].do = "unlock" => InSection(body, i, body[i].on)
       /\ body[i].forgets =>
            /\ InSection(body, i, "installer") /\ body[i].do \notin LockSteps
            /\ \A j \in 1..(Len(body) + 1) :
                 IsExit(body, i, j) => /\ j <= Len(body)
                                       /\ body[j].do = "unlock" /\ body[j].on = "installer"
  /\ \A mutex \in Mutexes : ~ InSection(body, Len(body) + 1, mutex)

ScriptSteps == {"create", "write", "erase"}

\* At step i, the script has been written and nothing has been done to it since.
Prepared(body, i, script) ==
  \E w \in 1..(i - 1) :
    /\ body[w].do = "write" /\ body[w].on = script
    /\ \A k \in (w + 1)..(i - 1) : ~ (body[k].do \in ScriptSteps /\ body[k].on = script)

\* A script is written on every way to the process that runs it, and erased
\* before a mutex changes hands or the function ends.
Orderly(body) ==
  /\ \A i \in 1..Len(body) :
       body[i].do = "call" /\ body[i].on # "" =>
         body[i].on \in Scripts /\ Prepared(body, i, body[i].on)
  /\ \A i \in 1..(Len(body) + 1), script \in Scripts :
       (i <= Len(body) => body[i].do \in LockSteps) => ~ Prepared(body, i, script)

\* The function may return at this step.
CanReturn(step) ==
  \/ step.do \in {"need", "create", "write", "judge"}
  \/ step.do = "call" /\ step.fine \ step.says # Outcomes

\* There is no return between the writing of a script and its removal.
CleansUp(body) ==
  \A i \in 1..Len(body), script \in Scripts :
    CanReturn(body[i]) => ~ Prepared(body, i, script)

Touches(body) == {body[i].on : i \in {j \in 1..Len(body) : body[j].do \in ScriptSteps}}

\* The two are functions of one component, which has one operation at a time.
OfOneComponent(f, g) == \E c \in DOMAIN FunctionsOf : {f, g} \subseteq FunctionsOf[c]

ASSUME BodiesAssumption ==
  /\ Bodies \in [Functions -> [Systems -> Seq(Steps)]]
  /\ \A f \in Functions, s \in Systems : Balanced(Bodies[f][s])
ASSUME TeamsAssumption == \A t \in Teams : t \subseteq Functions
ASSUME NobodyAssumption == {Nobody, "absent", "unfinished"} \cap Functions = {}
ASSUME ScriptsAssumption ==
  \A s \in Systems, f \in Functions :
    /\ Orderly(Bodies[f][s])
    /\ f # "install_vmware_utility" => CleansUp(Bodies[f][s])
    /\ \A g \in Functions \ {f} :
         Touches(Bodies[f][s]) \cap Touches(Bodies[g][s]) # {} => OfOneComponent(f, g)

VARIABLES
  os,        \* the system Control Center was built for
  team,      \* the functions that are used
  thread,    \* the thread of each of them
  busy,      \* the function that has each mutex, or Nobody
  scripts    \* the scripts in the directory of temporary files

vars == <<os, team, thread, busy, scripts>>

Body(f) == Bodies[f][os]

\* at       the step it has come to, 0 before the first, Len + 1 after the last;
\* result   what it has to tell;
\* kept     the outcome it has kept;
\* owed     the processes it was called for that have not been a success.
Threads ==
  [at : Nat, result : {"success", "failure"}, kept : Outcomes, owed : SUBSET Nat]

Idle == [at |-> 0, result |-> "success", kept |-> "done", owed |-> {}]

TypeOK ==
  /\ os \in Systems
  /\ team \in Teams
  /\ thread \in [team -> Threads]
  /\ \A f \in team : thread[f].at <= Len(Body(f)) + 1
  /\ busy \in [Mutexes -> team \cup {Nobody}]
  /\ scripts \in [Scripts -> {"absent", "unfinished"} \cup team]

Init ==
  /\ os \in Systems
  /\ team \in Teams
  /\ \A f \in team : Body(f) # Absent
  /\ thread = [f \in team |-> Idle]
  /\ busy = [m \in Mutexes |-> Nobody]
  /\ scripts = [s \in Scripts |-> "absent"]

----------------------------------------------------------------------------
\* The step a function is at.

Running(f) == thread[f].at \in 1..Len(Body(f))
Ended(f)   == thread[f].at = Len(Body(f)) + 1
Here(f)    == Body(f)[thread[f].at]
At(f, do)  == Running(f) /\ Here(f).do = do

\* It goes on with the next step.
GoesOn(f, t) == thread' = [thread EXCEPT ![f] = [t EXCEPT !.at = @ + 1]]

\* Mutant: an early return gives no mutex back.
ReturnsLocked(f, told) ==
  \E exit \in 1..(Len(Body(f)) + 1) :
    /\ IsExit(Body(f), thread[f].at, exit)
    /\ thread' = [thread EXCEPT ![f] = [@ EXCEPT
         !.at = IF exit <= Len(Body(f)) THEN exit + 1 ELSE exit,
         !.result = told]]

\* It returns: a mutex it holds is given back on the way, unless it is forgotten.
Returns(f, told) ==
  \E exit \in 1..(Len(Body(f)) + 1) :
    /\ IsExit(Body(f), thread[f].at, exit)
    /\ thread' = [thread EXCEPT ![f] = [@ EXCEPT
         !.at = IF Here(f).forgets THEN exit + 1 ELSE exit,
         !.result = told]]

----------------------------------------------------------------------------
\* The component's m_in_progress.
Excluded(f) ==
  \E c \in DOMAIN FunctionsOf, g \in team :
    {f, g} \subseteq FunctionsOf[c] /\ thread[g].at # 0

\* Silent(Un)Installer::startWork, or another caller.
Begin(f) ==
  /\ thread[f].at = 0
  /\ ~ Excluded(f)
  /\ thread' = [thread EXCEPT ![f] =
       [Idle EXCEPT !.at = 1, !.owed = {i \in 1..Len(Body(f)) : Body(f)[i].vital}]]
  /\ UNCHANGED <<os, team, busy, scripts>>

\* Mutant: tryLock() with a time limit, whose answer is not looked at.
TakeMutexAnyway(f) ==
  /\ At(f, "lock")
  /\ busy' = [busy EXCEPT ![Here(f).on] = f]
  /\ GoesOn(f, [thread[f] EXCEPT !.result = "success"])
  /\ UNCHANGED <<os, team, scripts>>

\* QMutex::lock, which waits.
TakeMutex(f) ==
  /\ At(f, "lock")
  /\ busy[Here(f).on] = Nobody
  /\ busy' = [busy EXCEPT ![Here(f).on] = f]
  /\ GoesOn(f, [thread[f] EXCEPT !.result = "success"])
  /\ UNCHANGED <<os, team, scripts>>

GiveMutexBack(f) ==
  /\ At(f, "unlock")
  /\ busy' = [busy EXCEPT ![Here(f).on] = Nobody]
  /\ GoesOn(f, thread[f])
  /\ UNCHANGED <<os, team, scripts>>

\* Something that is needed is there or not.
Look(f) ==
  /\ At(f, "need")
  /\ GoesOn(f, thread[f]) \/ Returns(f, "failure")
  /\ UNCHANGED <<os, team, busy, scripts>>

\* QFile::open, which empties the file, or fails.
CreateScript(f) ==
  /\ At(f, "create")
  /\ \/ /\ GoesOn(f, thread[f])
        /\ scripts' = [scripts EXCEPT ![Here(f).on] = "unfinished"]
     \/ Returns(f, "failure") /\ UNCHANGED scripts
  /\ UNCHANGED <<os, team, busy>>

\* Mutant: what QFile::write answers is not looked at.
WriteScriptAnyway(f) ==
  /\ At(f, "write")
  /\ scripts' \in {scripts, [scripts EXCEPT ![Here(f).on] = f]}
  /\ GoesOn(f, thread[f])
  /\ UNCHANGED <<os, team, busy>>

\* QFile::write and setPermissions.
WriteScript(f) ==
  /\ At(f, "write")
  /\ \/ GoesOn(f, thread[f]) /\ scripts' = [scripts EXCEPT ![Here(f).on] = f]
     \/ Returns(f, "failure") /\ UNCHANGED scripts
  /\ UNCHANGED <<os, team, busy>>

\* Mutant: the script of a process that failed is kept.
EraseScriptIfDone(f) ==
  /\ At(f, "erase")
  /\ scripts' = IF thread[f].kept = "done" THEN [scripts EXCEPT ![Here(f).on] = "absent"]
                ELSE scripts
  /\ GoesOn(f, thread[f])
  /\ UNCHANGED <<os, team, busy>>

EraseScript(f) ==
  /\ At(f, "erase")
  /\ scripts' = [scripts EXCEPT ![Here(f).on] = "absent"]
  /\ GoesOn(f, thread[f])
  /\ UNCHANGED <<os, team, busy>>

\* What the end of a process makes of the thread.
Told(f, outcome) ==
  [thread[f] EXCEPT
     !.kept = IF Here(f).keeps THEN outcome ELSE @,
     !.owed = IF outcome = "done" THEN @ \ {thread[f].at} ELSE @]

\* ssystem, ssystem_th: the process ends, or is given up.
ProcessEnds(f, outcome) ==
  /\ At(f, "call")
  /\ \/ outcome \in Here(f).fine /\ GoesOn(f, Told(f, outcome))
     \/ outcome \notin Here(f).fine \ Here(f).says
        /\ Returns(f, IF outcome \in Here(f).says THEN "success" ELSE "failure")
  /\ UNCHANGED <<os, team, busy, scripts>>

\* Mutant: only the code is looked at, which is 0 for a process that was given up.
JudgeOutcomeByCode(f) ==
  /\ At(f, "judge")
  /\ IF thread[f].kept \in Here(f).fine \cup ByCode THEN GoesOn(f, thread[f])
     ELSE Returns(f, "failure")
  /\ UNCHANGED <<os, team, busy, scripts>>

JudgeOutcome(f) ==
  /\ At(f, "judge")
  /\ IF thread[f].kept \in Here(f).fine THEN GoesOn(f, thread[f]) ELSE Returns(f, "failure")
  /\ UNCHANGED <<os, team, busy, scripts>>

\* The function returns its result.
Report(f) ==
  /\ Ended(f)
  /\ thread' = [thread EXCEPT ![f] = Idle]
  /\ UNCHANGED <<os, team, busy, scripts>>

Advance(f) ==
  \/ TakeMutex(f) \/ GiveMutexBack(f)
  \/ Look(f)
  \/ CreateScript(f) \/ WriteScript(f) \/ EraseScript(f)
  \/ \E outcome \in Outcomes : ProcessEnds(f, outcome)
  \/ JudgeOutcome(f)
  \/ Report(f)

Next == \E f \in team : Begin(f) \/ Advance(f)

Spec == Init /\ [][Next]_vars

\* Every thread is scheduled, and every process ends or is given up.
Fairness == WF_vars(\E f \in team : Advance(f))
FairSpec == Spec /\ Fairness

----------------------------------------------------------------------------
(* What should hold. *)

Inside(mutex) == {f \in team : InSection(Body(f), thread[f].at, mutex)}
LostBy(mutex) == {f \in team : busy[mutex] = f /\ f \notin Inside(mutex)}

\* installer_is_busy as OneAtATime promises it: two functions that take it are
\* never at work together, and once one has returned without unlock(), at the
\* early returns of SystemCallWrapper.cpp that forget it, no other is ever again.
Installer == INSTANCE OneAtATime WITH inside <- Inside("installer"), lost <- LostBy("installer")
InstallersTakeTurns == Installer!Spec

\* The functions that have such a return, each on the systems that have it.
Forgetful ==
  {"install_vmware_utility", "uninstall_vmware_utility", "install_parallels",
   "uninstall_parallels", "install_subutai_box", "update_by_virtualbox", "update_by_libvirt",
   "update_by_parallels"}

ASSUME ForgetfulAssumption ==
  \A f \in Functions, s \in Systems :
    (\E i \in 1..Len(Bodies[f][s]) : Bodies[f][s][i].forgets) => f \in Forgetful

\* No other function ever leaves a mutex locked, and vagrant_is_busy is never lost:
\* the QMutexLocker gives it back whatever the functions it calls have done.
OnlyKnownLosses ==
  /\ LostBy("installer") \subseteq Forgetful
  /\ LostBy("vagrant") = {}

\* The functions that may tell a success though a process they were called for
\* was refused, was given up or has crashed: they look at the code and not at the
\* error, at the error and not at the code, or at another process.
Lenient ==
  [linux   |-> {"uninstall_p2p", "uninstall_chrome", "uninstall_firefox", "install_kvm",
                "uninstall_kvm", "install_vagrant_libvirt"},
   mac     |-> {"install_x2go", "install_vmware", "install_parallels", "uninstall_parallels",
                "uninstall_firefox"},
   windows |-> {"install_hyperv", "uninstall_hyperv"}]

\* The outcome kept at step i is still to be judged strictly, at step `from' or later.
IsJudged(body, i, from) ==
  \E j \in from..Len(body) :
    /\ body[j].do = "judge" /\ body[j].fine \subseteq Strictly
    /\ \A k \in (i + 1)..(j - 1) : ~ body[k].keeps

\* Every process a function was called for is looked at strictly, at once or
\* before another outcome is kept; no return tells a success, and the process is
\* not over when a mutex is taken.
Earnest(body) ==
  \A i \in 1..Len(body) :
    /\ body[i].says = {}
    /\ body[i].do = "lock" => \A k \in 1..(i - 1) : ~ body[k].vital
    /\ body[i].vital =>
         /\ body[i].do = "call"
         /\ \/ body[i].fine \subseteq Strictly
            \/ body[i].keeps /\ IsJudged(body, i, i + 1)

ASSUME LenientAssumption ==
  \A s \in Systems, f \in Functions : f \in Lenient[s] \/ Earnest(Bodies[f][s])

\* A function that tells a success to its Silent(Un)Installer, which shows it and
\* runs the post action, has seen every process it was called for end well.
SuccessIsEarned ==
  \A f \in team :
    Ended(f) /\ thread[f].result = "success" /\ f \notin Lenient[os]
      => thread[f].owed = {}

\* The script that pkexec runs as root is the one the function has just written,
\* though the names of the scripts are shared by all that runs.
ScriptIsItsOwn ==
  \A f \in team : At(f, "call") /\ Here(f).on # "" => scripts[Here(f).on] = f

\* A function that has ended does not leave behind the script it ran, except that of
\* the utility of VMware.
NoScriptLeft ==
  \A f \in team, s \in Scripts :
    Ended(f) /\ scripts[s] = f => f = "install_vmware_utility"

Begins == \E f \in team : Begin(f)

\* Unless installer_is_busy is lost, every function ends once no other is begun:
\* the jobs that take it while they have vagrant_is_busy do not lock each other out.
SettlesUnlessLost ==
  <>[][~ Begins]_vars => <>[](LostBy("installer") # {} \/ \A f \in team : thread[f].at = 0)
=============================================================================
