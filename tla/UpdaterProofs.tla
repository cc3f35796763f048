--------------------------- MODULE UpdaterProofs ---------------------------
(***************************************************************************)
(* Theorems about Updater, for any of the three systems, any components    *)
(* and any number of operations at once.                                   *)
(*                                                                         *)
(* The argument: whatever the plan of a component, what an operation makes *)
(* of its task is one of a few outcomes (BegunFits and the lemmas before); *)
(* a stack of handlers is changed by pushing and popping (Pushed, Popped); *)
(* and each box is the mark of a task that waits, each frame of a timer    *)
(* that of a timer which will be started again (IInv).                     *)
(***************************************************************************)
EXTENDS Updater, SequenceTheorems, FiniteSetTheorems, TLAPS

----------------------------------------------------------------------------
\* The components whose operations may return without a finished slot.
MayReturn == {"P2P", "TRAY"}

PlanFits(c, plan) ==
  /\ plan.run \in {"worker", "replace", "nothing"}
  /\ c \notin MayReturn =>
       plan.before # "p2p_path" /\ plan.missing = "finishes" /\ plan.run # "replace"

LEMMA PlansFit ==
  \A c \in Components : \A op \in DOMAIN Plans[c] : PlanFits(c, Plans[c][op])
<1>1. /\ PlanFits("other", Silent) /\ PlanFits("other", Asked)
      /\ PlanFits("other", AskedAndDownloaded) /\ PlanFits("other", UpToDate)
  BY DEF PlanFits, Silent, Asked, AskedAndDownloaded, UpToDate, MayReturn
<1>2. ASSUME NEW c \in Components, NEW op \in DOMAIN Plans[c],
             c \notin {"TRAY", "P2P", "E2E", "KVM", "SUBUTAI_BOX"}
      PROVE  PlanFits(c, Plans[c][op])
  BY <1>1, <1>2 DEF PlanFits, Components, Plans, MayReturn, X2GO, VAGRANT, CHROME,
     FIREFOX, XQUARTZ, VMWARE_UTILITY, VMWARE, PARALLELS, HYPERV, ORACLE_VIRTUALBOX,
     VAGRANT_SUBUTAI, VAGRANT_VBGUEST, VAGRANT_LIBVIRT, VAGRANT_PARALLELS,
     VAGRANT_VMWARE_DESKTOP
<1>3. ASSUME NEW op \in DOMAIN KVM PROVE PlanFits("KVM", KVM[op])
  <2>1. PlanFits("KVM", KVM.install)
    BY OSAssumption DEF KVM, PlanFits, MayReturn, AskedAndDownloaded, Asked, UpToDate, Silent
  <2>2. PlanFits("KVM", KVM.update)
    BY OSAssumption DEF KVM, PlanFits, MayReturn, AskedAndDownloaded, Asked, UpToDate, Silent
  <2>3. PlanFits("KVM", KVM.uninstall)
    BY OSAssumption DEF KVM, PlanFits, MayReturn, AskedAndDownloaded, Asked, UpToDate, Silent
  <2>4. op \in {"install", "update", "uninstall"}
    BY DEF KVM
  <2>. QED  BY <2>1, <2>2, <2>3, <2>4
<1>4. ASSUME NEW op \in DOMAIN SUBUTAI_BOX PROVE PlanFits("SUBUTAI_BOX", SUBUTAI_BOX[op])
  <2>1. PlanFits("SUBUTAI_BOX", SUBUTAI_BOX.install)
    BY OSAssumption DEF SUBUTAI_BOX, PlanFits, MayReturn, AskedAndDownloaded, Asked,
       UpToDate, Silent
  <2>2. PlanFits("SUBUTAI_BOX", SUBUTAI_BOX.update)
    BY OSAssumption DEF SUBUTAI_BOX, PlanFits, MayReturn, AskedAndDownloaded, Asked,
       UpToDate, Silent
  <2>3. PlanFits("SUBUTAI_BOX", SUBUTAI_BOX.uninstall)
    BY OSAssumption DEF SUBUTAI_BOX, PlanFits, MayReturn, AskedAndDownloaded, Asked,
       UpToDate, Silent
  <2>4. op \in {"install", "update", "uninstall"}
    BY DEF SUBUTAI_BOX
  <2>. QED  BY <2>1, <2>2, <2>3, <2>4
<1>5. ASSUME NEW op \in DOMAIN E2E PROVE PlanFits("E2E", E2E[op])
  <2>1. PlanFits("E2E", E2E.install)
    BY OSAssumption DEF E2E, PlanFits, MayReturn, AskedAndDownloaded, Asked, UpToDate, Silent
  <2>2. PlanFits("E2E", E2E.update)
    BY OSAssumption DEF E2E, PlanFits, MayReturn, AskedAndDownloaded, Asked, UpToDate, Silent
  <2>3. PlanFits("E2E", E2E.uninstall)
    BY OSAssumption DEF E2E, PlanFits, MayReturn, AskedAndDownloaded, Asked, UpToDate, Silent
  <2>4. op \in {"install", "update", "uninstall"}
    BY DEF E2E
  <2>. QED  BY <2>1, <2>2, <2>3, <2>4
<1>6. ASSUME NEW op \in DOMAIN P2P PROVE PlanFits("P2P", P2P[op])
  <2>1. PlanFits("P2P", P2P.install)
    BY OSAssumption DEF P2P, PlanFits, MayReturn, AskedAndDownloaded, Asked, UpToDate, Silent
  <2>2. PlanFits("P2P", P2P.update)
    BY OSAssumption DEF P2P, PlanFits, MayReturn, AskedAndDownloaded, Asked, UpToDate, Silent
  <2>3. PlanFits("P2P", P2P.uninstall)
    BY OSAssumption DEF P2P, PlanFits, MayReturn, AskedAndDownloaded, Asked, UpToDate, Silent
  <2>4. op \in {"install", "update", "uninstall"}
    BY DEF P2P
  <2>. QED  BY <2>1, <2>2, <2>3, <2>4
<1>7. ASSUME NEW op \in DOMAIN TRAY PROVE PlanFits("TRAY", TRAY[op])
  <2>1. PlanFits("TRAY", TRAY.update)
    BY OSAssumption DEF TRAY, PlanFits, MayReturn, AskedAndDownloaded, Asked, UpToDate, Silent
  <2>2. op \in {"update"}
    BY DEF TRAY
  <2>. QED  BY <2>1, <2>2
<1> QED
  BY <1>2, <1>3, <1>4, <1>5, <1>6, <1>7 DEF Plans, Components

----------------------------------------------------------------------------
\* What an operation makes of a task: it ends, goes on, or for P2P and TRAY
\* returns without a finished slot.
Outcomes(c, op) ==
  {Idle} \cup {At(op, s) : s \in Stages \ {"none"}}
         \cup (IF c \in MayReturn THEN {Returned(op)} ELSE {})

LEMMA FinishedFits ==
  ASSUME NEW c, NEW op, NEW success, NEW t \in Finished(c, op, success)
  PROVE  t \in Outcomes(c, op) /\ t.stage # "asking"
BY DEF Finished, Outcomes, Idle, At, Stages

LEMMA RanFits ==
  ASSUME NEW c \in Components, NEW op \in DOMAIN Plans[c], NEW t \in Ran(c, op)
  PROVE  t \in Outcomes(c, op) /\ t.stage # "asking"
<1>1. At(op, "working") \in Outcomes(c, op) /\ At(op, "working").stage # "asking"
  BY DEF Outcomes, At, Stages
<1>2. Plans[c][op].run \in {"worker", "replace", "nothing"}
  BY PlansFit DEF PlanFits
<1>3. CASE Plans[c][op].run = "worker"
  BY <1>1, <1>3 DEF Ran
<1>4. CASE Plans[c][op].run = "replace"
  BY <1>4, FinishedFits DEF Ran
<1>5. CASE Plans[c][op].run = "nothing"
  BY <1>5, FinishedFits DEF Ran
<1>. QED  BY <1>2, <1>3, <1>4, <1>5

LEMMA ProceededFits ==
  ASSUME NEW c \in Components, NEW op \in DOMAIN Plans[c], NEW t \in Proceeded(c, op)
  PROVE  t \in Outcomes(c, op) /\ t.stage # "asking"
<1>1. At(op, "downloading") \in Outcomes(c, op) /\ At(op, "downloading").stage # "asking"
  BY DEF Outcomes, At, Stages
<1>2. c \in MayReturn => Returned(op) \in Outcomes(c, op) /\ Returned(op).stage # "asking"
  BY DEF Outcomes, At, Returned
<1>3. ASSUME t \in Fetched(c, op)  PROVE t \in Outcomes(c, op) /\ t.stage # "asking"
  <2>1. Plans[c][op].missing = "finishes" \/ c \in MayReturn
    BY PlansFit DEF PlanFits
  <2>2. \/ t = At(op, "downloading")
        \/ t \in Finished(c, op, FALSE)
        \/ c \in MayReturn /\ t = Returned(op)
    BY <1>3, <2>1 DEF Fetched
  <2>. QED  BY <1>1, <1>2, <2>2, FinishedFits
<1>4. t \in Fetched(c, op) \/ t \in Ran(c, op)
  BY DEF Proceeded
<1>. QED  BY <1>3, <1>4, RanFits

\* A component in progress refuses; what is begun is asking, or as above.
LEMMA BegunFits ==
  ASSUME NEW c \in Components, NEW op \in DOMAIN Plans[c], NEW found,
         NEW t \in Begun(c, op, found)
  PROVE  /\ task[c].m_in_progress => t = task[c]
         /\ ~task[c].m_in_progress => t \in Outcomes(c, op)
<1>1. CASE task[c].m_in_progress
  BY <1>1 DEF Begun
<1>2. CASE ~task[c].m_in_progress
  <2>1. Plans[c][op].before # "p2p_path" \/ c \in MayReturn
    BY PlansFit DEF PlanFits
  <2>2. CASE Plans[c][op].before = "p2p_path" /\ ~found
    BY <1>2, <2>1, <2>2 DEF Begun, Outcomes
  <2>3. CASE ~(Plans[c][op].before = "p2p_path" /\ ~found)
    <3>1. t \in {At(op, "asking")} \/ t \in Proceeded(c, op) \/ t \in Finished(c, op, FALSE)
      BY <1>2, <2>3 DEF Begun
    <3>2. At(op, "asking") \in Outcomes(c, op)
      BY DEF Outcomes, Stages, At
    <3>. QED  BY <1>2, <3>1, <3>2, ProceededFits, FinishedFits
  <2>. QED  BY <2>2, <2>3
<1>. QED  BY <1>1, <1>2

----------------------------------------------------------------------------
\* The tasks of a component: a stage is only reached in progress, and without a
\* stage a component is in progress only if its operations may return.
TasksOf(c) == {Idle} \cup UNION {Outcomes(c, op) : op \in DOMAIN Plans[c]}
TasksFit ==
  /\ task = [c \in Acting |-> task[c]]
  /\ \A c \in Acting : task[c] \in TasksOf(c)

LEMMA TaskFacts ==
  ASSUME NEW c \in Components, NEW t \in TasksOf(c)
  PROVE  /\ t.stage \in Stages
         /\ t.stage # "none" => t.m_in_progress /\ t.op \in DOMAIN Plans[c]
         /\ t.m_in_progress /\ c \notin MayReturn => t.stage # "none"
         /\ t.stage # "none" => t = At(t.op, t.stage)
         /\ t.m_in_progress \in BOOLEAN
<1>1. CASE t = Idle
  BY <1>1 DEF Idle, Stages
<1>2. ASSUME NEW op \in DOMAIN Plans[c], NEW s \in Stages \ {"none"}, t = At(op, s)
      PROVE  /\ t.stage = s /\ t.op = op /\ t.m_in_progress = TRUE
  BY <1>2 DEF At
<1>3. ASSUME NEW op \in DOMAIN Plans[c], c \in MayReturn, t = Returned(op)
      PROVE  /\ t.stage = "none" /\ t.m_in_progress = TRUE
  BY <1>3 DEF At, Returned
<1>4. \/ t = Idle
      \/ \E op \in DOMAIN Plans[c], s \in Stages \ {"none"} : t = At(op, s)
      \/ \E op \in DOMAIN Plans[c] : c \in MayReturn /\ t = Returned(op)
  BY DEF TasksOf, Outcomes
<1>. QED  BY <1>1, <1>2, <1>3, <1>4 DEF Stages

LEMMA OutcomeFacts ==
  ASSUME NEW c \in Components, NEW op \in DOMAIN Plans[c], NEW t \in Outcomes(c, op)
  PROVE  /\ t \in TasksOf(c)
         /\ t = Idle \/ t.op = op
BY DEF TasksOf, Outcomes, At, Returned

----------------------------------------------------------------------------
\* What is on a stack when a handler begins or ends to wait.
Waiting ==
  {BoxFrame(c) : c \in Acting} \cup {TimerFrame(c) : c \in Timed}
    \cup {BatchFrame(s) : s \in Seq(Acting \ {"TRAY"})}
Has(f, x) == \E i \in DOMAIN f : f[i] = x
Once(f, x) == \A i, j \in DOMAIN f : f[i] = x /\ f[j] = x => i = j

LEMMA FrontLast ==
  ASSUME NEW S, NEW f \in Seq(S), f # <<>>
  PROVE  /\ Len(f) \in Nat \ {0} /\ DOMAIN f = 1..Len(f)
         /\ Last(f) = f[Len(f)] /\ Last(f) \in S
         /\ Front(f) \in Seq(S) /\ DOMAIN Front(f) = 1..(Len(f) - 1)
         /\ \A i \in 1..(Len(f) - 1) : Front(f)[i] = f[i]
<1>1. Len(f) \in Nat \ {0} /\ DOMAIN f = 1..Len(f)
  BY EmptySeq, LenProperties
<1>2. \A i \in 1..(Len(f) - 1) : f[i] \in S
  BY <1>1, ElementOfSeq
<1>3. /\ SubSeq(f, 1, Len(f) - 1) \in Seq(S)
      /\ Len(SubSeq(f, 1, Len(f) - 1)) = IF 1 <= Len(f) - 1 THEN Len(f) - 1 - 1 + 1 ELSE 0
      /\ \A i \in 1..(Len(f) - 1 - 1 + 1) : SubSeq(f, 1, Len(f) - 1)[i] = f[1 + i - 1]
  BY <1>1, <1>2, SubSeqProperties
<1>4. Len(SubSeq(f, 1, Len(f) - 1)) = Len(f) - 1
  BY <1>1, <1>3
<1>5. DOMAIN SubSeq(f, 1, Len(f) - 1) = 1..(Len(f) - 1)
  BY <1>3, <1>4, LenProperties
<1>6. \A i \in 1..(Len(f) - 1) : SubSeq(f, 1, Len(f) - 1)[i] = f[i]
  BY <1>1, <1>3
<1>7. f[Len(f)] \in S
  BY <1>1, ElementOfSeq
<1>. QED  BY <1>1, <1>3, <1>5, <1>6, <1>7 DEF Front, Last

LEMMA Pushed ==
  ASSUME NEW S, NEW f \in Seq(S), NEW y \in S
  PROVE  /\ Append(f, y) \in Seq(S)
         /\ \A x : Has(Append(f, y), x) <=> Has(f, x) \/ x = y
         /\ \A x : Once(f, x) /\ (x = y => ~Has(f, x)) => Once(Append(f, y), x)
<1>1. /\ Append(f, y) \in Seq(S) /\ Len(Append(f, y)) = Len(f) + 1
      /\ \A i \in 1..Len(f) : Append(f, y)[i] = f[i]
      /\ Append(f, y)[Len(f) + 1] = y
  BY AppendProperties
<1>2. Len(f) \in Nat /\ DOMAIN f = 1..Len(f) /\ DOMAIN Append(f, y) = 1..(Len(f) + 1)
  BY <1>1, LenProperties
<1>. QED  BY <1>1, <1>2 DEF Has, Once

LEMMA Popped ==
  ASSUME NEW S, NEW f \in Seq(S), f # <<>>
  PROVE  /\ Front(f) \in Seq(S) /\ Last(f) \in S
         /\ \A x : Has(f, x) <=> Has(Front(f), x) \/ x = Last(f)
         /\ \A x : Once(f, x) => Once(Front(f), x) /\ (x = Last(f) => ~Has(Front(f), x))
<1>1. /\ Len(f) \in Nat \ {0} /\ DOMAIN f = 1..Len(f)
      /\ Last(f) = f[Len(f)] /\ Last(f) \in S
      /\ Front(f) \in Seq(S) /\ DOMAIN Front(f) = 1..(Len(f) - 1)
      /\ \A i \in 1..(Len(f) - 1) : Front(f)[i] = f[i]
  BY FrontLast
<1>2. ASSUME NEW x  PROVE Has(f, x) <=> Has(Front(f), x) \/ x = Last(f)
  <2>1. Has(f, x) => Has(Front(f), x) \/ x = Last(f)
    BY <1>1 DEF Has
  <2>2. Has(Front(f), x) \/ x = Last(f) => Has(f, x)
    BY <1>1 DEF Has
  <2>. QED  BY <2>1, <2>2
<1>3. ASSUME NEW x, Once(f, x)
      PROVE  Once(Front(f), x) /\ (x = Last(f) => ~Has(Front(f), x))
  <2>1. Once(Front(f), x)
    BY <1>1, <1>3 DEF Once
  <2>2. ASSUME x = Last(f), NEW i \in DOMAIN Front(f), Front(f)[i] = x  PROVE FALSE
    BY <1>1, <1>3, <2>2 DEF Once
  <2>. QED  BY <2>1, <2>2 DEF Has
<1>. QED  BY <1>1, <1>2, <1>3

LEMMA FramesDiffer ==
  /\ \A c, d : BoxFrame(c) = BoxFrame(d) => c = d
  /\ \A c, d : TimerFrame(c) = TimerFrame(d) => c = d
  /\ \A c, d : BoxFrame(c) # TimerFrame(d)
  /\ \A c, s : BoxFrame(c) # BatchFrame(s) /\ TimerFrame(c) # BatchFrame(s)
  /\ \A c : BoxFrame(c).kind = "box" /\ BoxFrame(c).comp = c
  /\ \A c : TimerFrame(c).kind = "timer" /\ TimerFrame(c).comp = c
  /\ \A s : BatchFrame(s).kind = "batch" /\ BatchFrame(s).rest = s
BY DEF BoxFrame, TimerFrame, BatchFrame

LEMMA FrameKinds ==
  ASSUME NEW x \in Waiting
  PROVE  /\ x.kind = "box" => x.comp \in Acting /\ x = BoxFrame(x.comp)
         /\ x.kind = "timer" => x.comp \in Timed /\ x = TimerFrame(x.comp)
         /\ x.kind = "batch" => x.rest \in Seq(Acting \ {"TRAY"}) /\ x = BatchFrame(x.rest)
BY FramesDiffer DEF Waiting

----------------------------------------------------------------------------
\* The inductive invariant.
Boxes(tasks, f) ==
  \A c \in Acting : /\ Once(f, BoxFrame(c))
                    /\ Has(f, BoxFrame(c)) <=> tasks[c].stage \in Boxed
Timers(active, f, never) ==
  \A c \in Timed : /\ Once(f, TimerFrame(c))
                   /\ c \in active \/ Has(f, TimerFrame(c)) <=> c \notin never
                   /\ c \in active => ~Has(f, TimerFrame(c))
FramesFit == frames \in Seq(Waiting)
BoxesFit == Boxes(task, frames)
TimersFit == timer \subseteq Timed /\ Timers(timer, frames, settings.never)
IInv == TasksFit /\ FramesFit /\ BoxesFit /\ TimersFit

\* The conclusion of NeverStartedOver.
GoesOn == \A c \in Acting :
  task[c].stage # "none" => task'[c] = Idle \/ task'[c].op = task[c].op

\* Two stacks with the same timers.
SameTimers(f, g) ==
  \A c \in Timed : /\ Has(g, TimerFrame(c)) <=> Has(f, TimerFrame(c))
                   /\ Once(f, TimerFrame(c)) => Once(g, TimerFrame(c))

\* A handler that leaves `under' waiting and in which c gets task t.
LEMMA BecomesFits ==
  ASSUME TasksFit, NEW under \in Seq(Waiting), NEW c \in Acting, NEW t \in TasksOf(c),
         Becomes(c, t, under),
         \A d \in Acting : Once(under, BoxFrame(d)),
         \A d \in Acting \ {c} : Has(under, BoxFrame(d)) <=> task[d].stage \in Boxed,
         \/ t = task[c] /\ (Has(under, BoxFrame(c)) <=> task[c].stage \in Boxed)
         \/ ~Has(under, BoxFrame(c)) /\ (t.stage \in Boxed => t # task[c])
  PROVE  /\ TasksFit' /\ FramesFit' /\ BoxesFit'
         /\ SameTimers(under, frames')
         /\ task'[c] = t /\ \A d \in Acting \ {c} : task'[d] = task[d]
<1>1. task'[c] = t /\ \A d \in Acting \ {c} : task'[d] = task[d]
  BY DEF Becomes, TasksFit
<1>2. TasksFit'
  BY <1>1 DEF Becomes, TasksFit
<1>3. CASE t.stage \in Boxed /\ t # task[c]
  <2>1. frames' = Append(under, BoxFrame(c)) /\ BoxFrame(c) \in Waiting
    BY <1>3 DEF Becomes, Waiting
  <2>2. /\ frames' \in Seq(Waiting)
        /\ \A x : Has(frames', x) <=> Has(under, x) \/ x = BoxFrame(c)
        /\ \A x : Once(under, x) /\ (x = BoxFrame(c) => ~Has(under, x)) => Once(frames', x)
    BY <2>1, Pushed
  <2>3. BoxesFit'
    BY <1>1, <1>3, <2>2, FramesDiffer DEF BoxesFit, Boxes
  <2>4. SameTimers(under, frames')
    BY <2>2, FramesDiffer DEF SameTimers
  <2>. QED  BY <1>1, <1>2, <2>2, <2>3, <2>4 DEF FramesFit
<1>4. CASE ~(t.stage \in Boxed /\ t # task[c])
  <2>1. frames' = under
    BY <1>4 DEF Becomes
  <2>2. BoxesFit'
    BY <1>1, <1>4, <2>1 DEF BoxesFit, Boxes
  <2>. QED  BY <1>1, <1>2, <2>1, <2>2 DEF FramesFit, SameTimers
<1>. QED  BY <1>3, <1>4

----------------------------------------------------------------------------
\* The steps.

LEMMA PlansOf ==
  ASSUME NEW c \in Components \ {"TRAY"}
  PROVE  DOMAIN Plans[c] = Operations
BY DEF Components, Plans, Operations, P2P, X2GO, VAGRANT, ORACLE_VIRTUALBOX, CHROME,
   FIREFOX, E2E, VAGRANT_SUBUTAI, VAGRANT_VBGUEST, SUBUTAI_BOX, VAGRANT_PARALLELS,
   VAGRANT_LIBVIRT, VAGRANT_VMWARE_DESKTOP, VMWARE, VMWARE_UTILITY, XQUARTZ, HYPERV,
   KVM, PARALLELS

LEMMA PlanOfTray == "TRAY" \in Components /\ DOMAIN Plans["TRAY"] = {"update"}
BY DEF Components, Plans, TRAY

LEMMA TimersKept ==
  ASSUME IInv, timer' = timer, settings' = settings, SameTimers(frames, frames')
  PROVE  TimersFit'
BY DEF IInv, TimersFit, Timers, SameTimers

LEMMA BegunStep ==
  ASSUME IInv, NEW under \in Seq(Waiting), NEW c \in Acting, NEW op \in DOMAIN Plans[c],
         NEW t \in Begun(c, op, p2p_found), Becomes(c, t, under),
         \A d \in Acting : /\ Once(under, BoxFrame(d))
                           /\ Has(under, BoxFrame(d)) <=> task[d].stage \in Boxed
  PROVE  TasksFit' /\ FramesFit' /\ BoxesFit' /\ SameTimers(under, frames') /\ GoesOn
<1>1. c \in Components
  BY ActingAssumption
<1>2. task[c] \in TasksOf(c)
  BY DEF IInv, TasksFit
<1>3. CASE task[c].m_in_progress
  <2>1. t = task[c]
    BY <1>1, <1>3, BegunFits
  <2>2. /\ TasksFit' /\ FramesFit' /\ BoxesFit' /\ SameTimers(under, frames')
        /\ task'[c] = t /\ \A d \in Acting \ {c} : task'[d] = task[d]
    BY <1>2, <2>1, BecomesFits DEF IInv
  <2>. QED  BY <2>1, <2>2 DEF GoesOn
<1>4. CASE ~task[c].m_in_progress
  <2>1. t \in Outcomes(c, op)
    BY <1>1, <1>4, BegunFits
  <2>2. t \in TasksOf(c)
    BY <1>1, <2>1, OutcomeFacts
  <2>3. task[c].stage = "none"
    BY <1>1, <1>2, <1>4, TaskFacts
  <2>4. ~Has(under, BoxFrame(c)) /\ (t.stage \in Boxed => t # task[c])
    BY <2>3 DEF Boxed
  <2>5. /\ TasksFit' /\ FramesFit' /\ BoxesFit' /\ SameTimers(under, frames')
        /\ task'[c] = t /\ \A d \in Acting \ {c} : task'[d] = task[d]
    BY <2>2, <2>4, BecomesFits DEF IInv
  <2>. QED  BY <2>3, <2>5 DEF GoesOn
<1>. QED  BY <1>3, <1>4

\* The handlers that only begin an operation.
LEMMA BeginStep ==
  ASSUME IInv, NEW c \in Acting, NEW op \in DOMAIN Plans[c],
         NEW t \in Begun(c, op, p2p_found), Becomes(c, t, frames),
         timer' = timer, settings' = settings
  PROVE  IInv' /\ GoesOn
<1>1. frames \in Seq(Waiting)
  BY DEF IInv, FramesFit
<1>2. \A d \in Acting : /\ Once(frames, BoxFrame(d))
                        /\ Has(frames, BoxFrame(d)) <=> task[d].stage \in Boxed
  BY DEF IInv, BoxesFit, Boxes
<1>3. TasksFit' /\ FramesFit' /\ BoxesFit' /\ SameTimers(frames, frames') /\ GoesOn
  BY <1>1, <1>2, BegunStep
<1>4. TimersFit'
  BY <1>3, TimersKept
<1>. QED  BY <1>3, <1>4 DEF IInv

\* The handlers that come to a finished slot.
LEMMA FinishStep ==
  ASSUME IInv, NEW c \in Acting, task[c].stage \in {"downloading", "ok", "failed"},
         NEW t \in Outcomes(c, task[c].op), Becomes(c, t, frames),
         timer' = timer, settings' = settings
  PROVE  IInv' /\ GoesOn
<1>1. c \in Components /\ task[c] \in TasksOf(c) /\ frames \in Seq(Waiting)
  BY ActingAssumption DEF IInv, TasksFit, FramesFit
<1>2. task[c].op \in DOMAIN Plans[c]
  BY <1>1, TaskFacts
<1>3. t \in TasksOf(c) /\ (t = Idle \/ t.op = task[c].op)
  BY <1>1, <1>2, OutcomeFacts
<1>4. \A d \in Acting : /\ Once(frames, BoxFrame(d))
                        /\ Has(frames, BoxFrame(d)) <=> task[d].stage \in Boxed
  BY DEF IInv, BoxesFit, Boxes
<1>5. task[c].stage \notin Boxed
  BY DEF Boxed
<1>6. /\ TasksFit' /\ FramesFit' /\ BoxesFit' /\ SameTimers(frames, frames')
      /\ task'[c] = t /\ \A d \in Acting \ {c} : task'[d] = task[d]
  <2>1. ~Has(frames, BoxFrame(c)) /\ (t.stage \in Boxed => t # task[c])
    BY <1>4, <1>5
  <2>. QED  BY <1>1, <1>3, <1>4, <2>1, BecomesFits DEF IInv
<1>7. TimersFit'
  BY <1>6, TimersKept
<1>8. GoesOn
  BY <1>3, <1>6 DEF GoesOn
<1>. QED  BY <1>6, <1>7, <1>8 DEF IInv

LEMMA AnswerStep ==
  ASSUME IInv, AnswerBox
  PROVE  IInv' /\ GoesOn
<1> DEFINE c == Last(frames).comp
<1>1. /\ frames \in Seq(Waiting) /\ frames # <<>> /\ Last(frames).kind = "box"
      /\ timer' = timer /\ settings' = settings
  BY DEF IInv, FramesFit, AnswerBox
<1>2. /\ Front(frames) \in Seq(Waiting) /\ Last(frames) \in Waiting
      /\ \A x : Has(frames, x) <=> Has(Front(frames), x) \/ x = Last(frames)
      /\ \A x : Once(frames, x) =>
           Once(Front(frames), x) /\ (x = Last(frames) => ~Has(Front(frames), x))
  BY <1>1, Popped
<1>3. c \in Acting /\ Last(frames) = BoxFrame(c)
  BY <1>1, <1>2, FrameKinds
<1>4. c \in Components /\ task[c] \in TasksOf(c)
  BY <1>3, ActingAssumption DEF IInv, TasksFit
<1>5. PICK t \in {Idle} \cup (IF task[c].stage = "asking" THEN Proceeded(c, task[c].op)
                                                          ELSE {}) :
        Becomes(c, t, Front(frames))
  BY DEF AnswerBox
<1>6. \A d \in Acting : /\ Once(frames, BoxFrame(d))
                        /\ Has(frames, BoxFrame(d)) <=> task[d].stage \in Boxed
  BY DEF IInv, BoxesFit, Boxes
<1>7. task[c].stage \in Boxed
  BY <1>2, <1>3, <1>6
<1>8. task[c].op \in DOMAIN Plans[c]
  BY <1>4, <1>7, TaskFacts DEF Boxed
<1>9. t \in TasksOf(c) /\ (t = Idle \/ t.op = task[c].op) /\ t # task[c]
  <2>1. CASE t = Idle
    BY <1>7, <2>1 DEF TasksOf, Idle, Boxed
  <2>2. CASE t # Idle
    <3>1. t \in Proceeded(c, task[c].op) /\ task[c].stage = "asking"
      BY <1>5, <2>2
    <3>2. t \in Outcomes(c, task[c].op) /\ t.stage # "asking"
      BY <1>4, <1>8, <3>1, ProceededFits
    <3>. QED  BY <1>4, <1>8, <3>1, <3>2, OutcomeFacts
  <2>. QED  BY <2>1, <2>2
<1>10. \A d \in Acting \ {c} : Has(Front(frames), BoxFrame(d)) <=> task[d].stage \in Boxed
  BY <1>2, <1>3, <1>6, FramesDiffer
<1>11. \A d \in Acting : Once(Front(frames), BoxFrame(d))
  BY <1>2, <1>6
<1>12. ~Has(Front(frames), BoxFrame(c))
  BY <1>2, <1>3, <1>6
<1> HIDE DEF c
<1>13. /\ TasksFit' /\ FramesFit' /\ BoxesFit' /\ SameTimers(Front(frames), frames')
       /\ task'[c] = t /\ \A d \in Acting \ {c} : task'[d] = task[d]
  BY <1>2, <1>3, <1>5, <1>9, <1>10, <1>11, <1>12, BecomesFits DEF IInv
<1>14. SameTimers(frames, Front(frames))
  BY <1>2, <1>3, FramesDiffer DEF SameTimers
<1>15. TimersFit'
  <2>1. SameTimers(frames, frames')
    BY <1>13, <1>14 DEF SameTimers
  <2>. QED  BY <1>1, <2>1, TimersKept
<1>16. GoesOn
  BY <1>9, <1>13 DEF GoesOn
<1>. QED  BY <1>13, <1>15, <1>16 DEF IInv

LEMMA FiveAreFinite ==
  ASSUME NEW u, NEW v, NEW w, NEW x, NEW y
  PROVE  IsFiniteSet({u, v, w, x, y})
<1>1. IsFiniteSet({u})
  BY FS_Singleton
<1>2. IsFiniteSet({u} \cup {v})
  BY <1>1, FS_AddElement
<1>3. IsFiniteSet({u} \cup {v} \cup {w})
  BY <1>2, FS_AddElement
<1>4. IsFiniteSet({u} \cup {v} \cup {w} \cup {x})
  BY <1>3, FS_AddElement
<1>5. IsFiniteSet({u} \cup {v} \cup {w} \cup {x} \cup {y})
  BY <1>4, FS_AddElement
<1>6. {u} \cup {v} \cup {w} \cup {x} \cup {y} = {u, v, w, x, y}
  OBVIOUS
<1>. QED  BY <1>5, <1>6

LEMMA BatchBegins ==
  ASSUME IInv, UninstallButton
  PROVE  IInv' /\ GoesOn
<1>1. PICK chosen \in SUBSET (Acting \ {"TRAY"}) :
        \E s \in SetToSeqs(chosen) : frames' = <<BatchFrame(s)>>
  BY DEF UninstallButton, kSubset
<1> PICK s \in SetToSeqs(chosen) : frames' = <<BatchFrame(s)>>
  BY <1>1
<1>2. /\ frames = <<>> /\ task' = task /\ timer' = timer /\ settings' = settings
  BY DEF UninstallButton, DialogsActive
<1>3. s \in Seq(Acting \ {"TRAY"})
  <2>1. Components = {"TRAY", "P2P", "X2GO", "VAGRANT", "ORACLE_VIRTUALBOX"}
          \cup {"CHROME", "FIREFOX", "E2E", "VAGRANT_SUBUTAI", "VAGRANT_VBGUEST"}
          \cup {"SUBUTAI_BOX", "VAGRANT_PARALLELS", "VAGRANT_LIBVIRT",
                "VAGRANT_VMWARE_DESKTOP", "VMWARE"}
          \cup {"VMWARE_UTILITY", "XQUARTZ", "HYPERV", "KVM", "PARALLELS"}
    BY DEF Components, Plans
  <2>2. IsFiniteSet(Components)
    BY <2>1, FiveAreFinite, FS_Union
  <2>3. chosen \subseteq Acting \ {"TRAY"}
    OBVIOUS
  <2>4. IsFiniteSet(chosen)
    BY <2>2, <2>3, ActingAssumption, FS_Subset
  <2>5. Cardinality(chosen) \in Nat
    BY <2>4, FS_CardinalityType
  <2>6. s \in [1..Cardinality(chosen) -> chosen]
    BY DEF SetToSeqs
  <2>7. s \in [1..Cardinality(chosen) -> Acting \ {"TRAY"}]
    BY <2>3, <2>6
  <2>. QED  BY <2>5, <2>7, SeqDef
<1>4. frames' = Append(<<>>, BatchFrame(s)) /\ BatchFrame(s) \in Waiting
  BY <1>3 DEF Waiting
<1>5. <<>> \in Seq(Waiting)
  BY EmptySeq
<1>6. /\ frames' \in Seq(Waiting)
      /\ \A x : Has(frames', x) <=> Has(frames, x) \/ x = BatchFrame(s)
      /\ \A x : Once(frames, x) /\ (x = BatchFrame(s) => ~Has(frames, x)) => Once(frames', x)
  <2>1. frames \in Seq(Waiting)
    BY <1>2, <1>5
  <2>2. frames' = Append(frames, BatchFrame(s))
    BY <1>2, <1>4
  <2>3. BatchFrame(s) \in Waiting
    BY <1>4
  <2>4. /\ Append(frames, BatchFrame(s)) \in Seq(Waiting)
        /\ \A x : Has(Append(frames, BatchFrame(s)), x) <=> Has(frames, x) \/ x = BatchFrame(s)
        /\ \A x : Once(frames, x) /\ (x = BatchFrame(s) => ~Has(frames, x))
                    => Once(Append(frames, BatchFrame(s)), x)
    BY <2>1, <2>3, Pushed
  <2>. QED  BY <2>2, <2>4
<1>7. SameTimers(frames, frames')
  BY <1>6, FramesDiffer DEF SameTimers
<1>8. BoxesFit'
  BY <1>2, <1>6, FramesDiffer DEF IInv, BoxesFit, Boxes
<1>9. TasksFit' /\ GoesOn
  BY <1>2 DEF IInv, TasksFit, GoesOn
<1>10. TimersFit'
  BY <1>2, <1>7, TimersKept
<1>. QED  BY <1>6, <1>8, <1>9, <1>10 DEF IInv, FramesFit

LEMMA BatchGoesOn ==
  ASSUME IInv, UninstallNext
  PROVE  IInv' /\ GoesOn
<1> DEFINE rest == Last(frames).rest
           under == Append(Front(frames), BatchFrame(Tail(rest)))
<1>1. /\ frames \in Seq(Waiting) /\ frames # <<>> /\ Last(frames).kind = "batch"
      /\ timer' = timer /\ settings' = settings
  BY DEF IInv, FramesFit, UninstallNext
<1>2. /\ Front(frames) \in Seq(Waiting) /\ Last(frames) \in Waiting
      /\ \A x : Has(frames, x) <=> Has(Front(frames), x) \/ x = Last(frames)
      /\ \A x : Once(frames, x) =>
           Once(Front(frames), x) /\ (x = Last(frames) => ~Has(Front(frames), x))
  BY <1>1, Popped
<1>3. rest \in Seq(Acting \ {"TRAY"}) /\ Last(frames) = BatchFrame(rest)
  BY <1>1, <1>2, FrameKinds
<1>4. \A d \in Acting : /\ Once(frames, BoxFrame(d))
                        /\ Has(frames, BoxFrame(d)) <=> task[d].stage \in Boxed
  BY DEF IInv, BoxesFit, Boxes
<1>5. \A d \in Acting : /\ Once(Front(frames), BoxFrame(d))
                        /\ Has(Front(frames), BoxFrame(d)) <=> task[d].stage \in Boxed
  BY <1>2, <1>3, <1>4, FramesDiffer
<1>6. SameTimers(frames, Front(frames))
  BY <1>2, <1>3, FramesDiffer DEF SameTimers
<1>7. CASE rest = <<>>
  <2>1. frames' = Front(frames) /\ task' = task
    BY <1>7 DEF UninstallNext
  <2>2. TasksFit' /\ FramesFit' /\ BoxesFit' /\ GoesOn
    BY <1>2, <1>5, <2>1 DEF IInv, TasksFit, FramesFit, BoxesFit, Boxes, GoesOn
  <2>3. TimersFit'
    BY <1>1, <1>6, <2>1, TimersKept
  <2>. QED  BY <2>2, <2>3 DEF IInv
<1>8. CASE rest # <<>>
  <2>1. PICK t \in Begun(Head(rest), "uninstall", p2p_found) : Becomes(Head(rest), t, under)
    BY <1>8 DEF UninstallNext
  <2>2. Head(rest) \in Acting \ {"TRAY"} /\ Tail(rest) \in Seq(Acting \ {"TRAY"})
    BY <1>3, <1>8, HeadTailProperties
  <2>3. "uninstall" \in DOMAIN Plans[Head(rest)]
    BY <2>2, PlansOf, ActingAssumption DEF Operations
  <2>4. BatchFrame(Tail(rest)) \in Waiting
    BY <2>2 DEF Waiting
  <2>5. /\ under \in Seq(Waiting)
        /\ \A x : Has(under, x) <=> Has(Front(frames), x) \/ x = BatchFrame(Tail(rest))
        /\ \A x : Once(Front(frames), x)
                    /\ (x = BatchFrame(Tail(rest)) => ~Has(Front(frames), x))
                    => Once(under, x)
    BY <1>2, <2>4, Pushed
  <2>6. \A d \in Acting : /\ Once(under, BoxFrame(d))
                          /\ Has(under, BoxFrame(d)) <=> task[d].stage \in Boxed
    BY <1>5, <2>5, FramesDiffer
  <2>7. SameTimers(Front(frames), under)
    BY <2>5, FramesDiffer DEF SameTimers
  <2> HIDE DEF rest, under
  <2>8. TasksFit' /\ FramesFit' /\ BoxesFit' /\ SameTimers(under, frames') /\ GoesOn
    BY <2>1, <2>2, <2>3, <2>5, <2>6, BegunStep
  <2>9. TimersFit'
    <3>1. SameTimers(frames, frames')
      BY <1>6, <2>7, <2>8 DEF SameTimers
    <3>. QED  BY <1>1, <3>1, TimersKept
  <2>. QED  BY <2>8, <2>9 DEF IInv
<1>. QED  BY <1>7, <1>8

\* The handler of a timer waits: it has stopped the timer and will start it again.
LEMMA TimerStops ==
  ASSUME IInv, NEW c \in Timed, UpdateComponentTimerTimeout(c)
  PROVE  IInv' /\ GoesOn
<1> DEFINE under == Append(frames, TimerFrame(c))
<1>1. /\ frames \in Seq(Waiting) /\ TimerFrame(c) \in Waiting /\ c \in timer
      /\ timer' = timer \ {c} /\ settings' = settings /\ timer \subseteq Timed
  BY DEF IInv, FramesFit, TimersFit, UpdateComponentTimerTimeout, Waiting
<1>2. /\ under \in Seq(Waiting)
      /\ \A x : Has(under, x) <=> Has(frames, x) \/ x = TimerFrame(c)
      /\ \A x : Once(frames, x) /\ (x = TimerFrame(c) => ~Has(frames, x)) => Once(under, x)
  BY <1>1, Pushed
<1>3. \A d \in Acting : /\ Once(under, BoxFrame(d))
                        /\ Has(under, BoxFrame(d)) <=> task[d].stage \in Boxed
  BY <1>2, FramesDiffer DEF IInv, BoxesFit, Boxes
<1>4. \A d \in Timed :
        /\ Once(under, TimerFrame(d))
        /\ d \in timer' \/ Has(under, TimerFrame(d)) <=> d \notin settings.never
        /\ d \in timer' => ~Has(under, TimerFrame(d))
  BY <1>1, <1>2, FramesDiffer DEF IInv, TimersFit, Timers
<1>5. TasksFit' /\ FramesFit' /\ BoxesFit' /\ SameTimers(under, frames') /\ GoesOn
  <2>1. CASE frames' = under /\ task' = task
    BY <1>2, <1>3, <2>1
       DEF IInv, TasksFit, FramesFit, BoxesFit, Boxes, SameTimers, GoesOn
  <2>2. ASSUME NEW t \in Begun(c, "update", p2p_found), Becomes(c, t, under)
        PROVE  TasksFit' /\ FramesFit' /\ BoxesFit' /\ SameTimers(under, frames') /\ GoesOn
    <3>1. c \in Acting /\ "update" \in DOMAIN Plans[c]
      BY PlansOf, PlanOfTray, ActingAssumption DEF Timed, Operations
    <3>. HIDE DEF under
    <3>. QED  BY <1>2, <1>3, <2>2, <3>1, BegunStep
  <2>. QED  BY <2>1, <2>2 DEF UpdateComponentTimerTimeout
<1>6. TimersFit'
  BY <1>1, <1>4, <1>5 DEF TimersFit, Timers, SameTimers
<1>. QED  BY <1>5, <1>6 DEF IInv

LEMMA TimerStarts ==
  ASSUME IInv, TimerStart
  PROVE  IInv' /\ GoesOn
<1> DEFINE c == Last(frames).comp
<1>1. /\ frames \in Seq(Waiting) /\ frames # <<>> /\ Last(frames).kind = "timer"
      /\ frames' = Front(frames) /\ timer' = timer \cup {c}
      /\ task' = task /\ settings' = settings /\ timer \subseteq Timed
  BY DEF IInv, FramesFit, TimersFit, TimerStart
<1>2. /\ Front(frames) \in Seq(Waiting) /\ Last(frames) \in Waiting
      /\ \A x : Has(frames, x) <=> Has(Front(frames), x) \/ x = Last(frames)
      /\ \A x : Once(frames, x) =>
           Once(Front(frames), x) /\ (x = Last(frames) => ~Has(Front(frames), x))
  BY <1>1, Popped
<1>3. c \in Timed /\ Last(frames) = TimerFrame(c)
  BY <1>1, <1>2, FrameKinds
<1>4. TasksFit' /\ FramesFit' /\ GoesOn
  BY <1>1, <1>2 DEF IInv, TasksFit, FramesFit, GoesOn
<1>5. BoxesFit'
  BY <1>1, <1>2, <1>3, FramesDiffer DEF IInv, BoxesFit, Boxes
<1>6. TimersFit'
  <2>1. \A d \in Timed :
          /\ Once(frames, TimerFrame(d))
          /\ d \in timer \/ Has(frames, TimerFrame(d)) <=> d \notin settings.never
          /\ d \in timer => ~Has(frames, TimerFrame(d))
    BY DEF IInv, TimersFit, Timers
  <2>. HIDE DEF c
  <2>2. ASSUME NEW d \in Timed
        PROVE  /\ Once(frames', TimerFrame(d))
               /\ d \in timer' \/ Has(frames', TimerFrame(d)) <=> d \notin settings'.never
               /\ d \in timer' => ~Has(frames', TimerFrame(d))
    <3>1. CASE d = c
      BY <1>1, <1>2, <1>3, <2>1, <3>1
    <3>2. CASE d # c
      BY <1>1, <1>2, <1>3, <2>1, <3>2, FramesDiffer
    <3>. QED  BY <3>1, <3>2
  <2>. QED  BY <1>1, <1>3, <2>2 DEF TimersFit, Timers
<1>. QED  BY <1>4, <1>5, <1>6 DEF IInv

LEMMA WorkStep ==
  ASSUME IInv, NEW c \in Acting, Work(c)
  PROVE  IInv' /\ GoesOn
<1>1. /\ task[c].stage = "working" /\ frames' = frames /\ timer' = timer
      /\ settings' = settings
  BY DEF Work
<1>2. c \in Components /\ task[c] \in TasksOf(c)
  BY ActingAssumption DEF IInv, TasksFit
<1>3. task[c] = At(task[c].op, task[c].stage) /\ task[c].op \in DOMAIN Plans[c]
  BY <1>1, <1>2, TaskFacts
<1>4. PICK result \in {"ok", "failed"} : task' = [task EXCEPT ![c].stage = result]
  BY DEF Work
<1>5. task'[c] = At(task[c].op, result) /\ \A d \in Acting \ {c} : task'[d] = task[d]
  <2>1. task'[c] = [task[c] EXCEPT !.stage = result]
        /\ \A d \in Acting \ {c} : task'[d] = task[d]
    BY <1>4 DEF IInv, TasksFit
  <2>2. ASSUME NEW op, NEW old  PROVE [At(op, old) EXCEPT !.stage = result] = At(op, result)
    <3>1. At(op, old) \in [m_in_progress : {TRUE}, stage : {old, result}, op : {op}]
      BY DEF At
    <3>2. [At(op, old) EXCEPT !.stage = result]
            = [m_in_progress |-> At(op, old).m_in_progress, stage |-> result,
               op |-> At(op, old).op]
      BY <3>1
    <3>3. At(op, old).m_in_progress = TRUE /\ At(op, old).op = op
      BY DEF At
    <3>. QED  BY <3>2, <3>3, Zenon DEF At
  <2>3. [task[c] EXCEPT !.stage = result] = At(task[c].op, result)
    BY <1>3, <2>2, Zenon
  <2>. QED  BY <2>1, <2>3
<1>6. task'[c] \in Outcomes(c, task[c].op)
  BY <1>5 DEF Outcomes, Stages
<1>7. TasksFit'
  <2>1. task'[c] \in TasksOf(c)
    BY <1>2, <1>3, <1>6, OutcomeFacts
  <2>2. task' = [d \in Acting |-> task'[d]]
    BY <1>4 DEF IInv, TasksFit
  <2>. QED  BY <1>5, <2>1, <2>2 DEF IInv, TasksFit
<1>8. task[c].stage \notin Boxed /\ task'[c].stage \notin Boxed
  BY <1>1, <1>5 DEF At, Boxed
<1>9. BoxesFit'
  BY <1>1, <1>5, <1>8 DEF IInv, BoxesFit, Boxes
<1>10. FramesFit' /\ TimersFit'
  BY <1>1 DEF IInv, FramesFit, TimersFit, Timers
<1>11. GoesOn
  BY <1>5 DEF GoesOn, At
<1>. QED  BY <1>7, <1>9, <1>10, <1>11 DEF IInv

LEMMA SaveStep ==
  ASSUME IInv, SaveSettings
  PROVE  IInv' /\ GoesOn
<1>1. /\ frames = <<>> /\ frames' = frames /\ task' = task
      /\ timer' = Timed \ settings'.never
  BY DEF SaveSettings, DialogsActive, SetUpdateFreq
<1>2. TasksFit' /\ FramesFit' /\ BoxesFit' /\ GoesOn
  BY <1>1 DEF IInv, TasksFit, FramesFit, BoxesFit, Boxes, GoesOn
<1>3. TimersFit'
  BY <1>1 DEF TimersFit, Timers, Has, Once
<1>. QED  BY <1>2, <1>3 DEF IInv

LEMMA RestartStep ==
  ASSUME IInv, RestartTray
  PROVE  IInv' /\ GoesOn
<1>1. /\ frames' = <<>> /\ task' = [c \in Acting |-> Idle]
      /\ timer' = Timed \ settings'.never
  BY DEF RestartTray, SetUpdateFreq, AllIdle
<1>2. TasksFit' /\ GoesOn
  BY <1>1 DEF TasksFit, TasksOf, GoesOn
<1>3. FramesFit' /\ TimersFit'
  BY <1>1, EmptySeq DEF FramesFit, TimersFit, Timers, Has, Once
<1>4. BoxesFit'
  BY <1>1 DEF BoxesFit, Boxes, Has, Once, Idle, Boxed
<1>. QED  BY <1>2, <1>3, <1>4 DEF IInv

\* Every step keeps the invariant, and starts no operation over.
LEMMA StepFits ==
  ASSUME IInv, [Next]_vars
  PROVE  IInv' /\ GoesOn
<1>1. ASSUME NEW c \in Acting, NEW op \in Operations, Requested(c, op)
      PROVE  IInv' /\ GoesOn
  <2>1. op \in DOMAIN Plans[c]
    BY <1>1, PlansOf, ActingAssumption DEF Requested
  <2>. QED  BY <1>1, <2>1, BeginStep DEF Requested
<1>2. CASE LaunchP2PInstallation
  <2>1. "P2P" \in Acting /\ "install" \in DOMAIN Plans["P2P"]
    BY <1>2, PlansOf, ActingAssumption DEF LaunchP2PInstallation, Operations
  <2>. QED  BY <1>2, <2>1, BeginStep DEF LaunchP2PInstallation
<1>3. CASE TrayButton
  BY <1>3, PlanOfTray, BeginStep DEF TrayButton
<1>4. CASE TrayNotification
  BY <1>4, PlanOfTray, BeginStep DEF TrayNotification
<1>5. CASE UninstallProvider
  <2>1. /\ "VAGRANT_VMWARE_DESKTOP" \in Acting
        /\ "uninstall" \in DOMAIN Plans["VAGRANT_VMWARE_DESKTOP"]
    BY <1>5, PlansOf, ActingAssumption DEF UninstallProvider, Operations
  <2>. QED  BY <1>5, <2>1, BeginStep DEF UninstallProvider
<1>6. ASSUME NEW c \in Acting, DownloadFinished(c)
      PROVE  IInv' /\ GoesOn
  <2>1. c \in Components /\ task[c] \in TasksOf(c) /\ task[c].stage = "downloading"
    BY <1>6, ActingAssumption DEF DownloadFinished, IInv, TasksFit
  <2>2. task[c].op \in DOMAIN Plans[c]
    BY <2>1, TaskFacts
  <2>3. Plans[c][task[c].op].run = "replace" => c \in MayReturn
    BY <2>1, <2>2, PlansFit DEF PlanFits
  <2>4. PICK t \in Ran(c, task[c].op)
                     \cup (IF Plans[c][task[c].op].run = "replace" THEN {Returned(task[c].op)}
                           ELSE Finished(c, task[c].op, FALSE)) : Becomes(c, t, frames)
    BY <1>6 DEF DownloadFinished
  <2>5. t \in Outcomes(c, task[c].op)
    <3>1. c \in MayReturn => Returned(task[c].op) \in Outcomes(c, task[c].op)
      BY DEF Outcomes
    <3>. QED  BY <2>1, <2>2, <2>3, <2>4, <3>1, RanFits, FinishedFits
  <2>. QED  BY <1>6, <2>1, <2>4, <2>5, FinishStep DEF DownloadFinished
<1>7. ASSUME NEW c \in Acting, OutputReceived(c)
      PROVE  IInv' /\ GoesOn
  <2>1. PICK t \in Finished(c, task[c].op, task[c].stage = "ok") : Becomes(c, t, frames)
    BY <1>7 DEF OutputReceived
  <2>2. t \in Outcomes(c, task[c].op)
    BY FinishedFits
  <2>. QED  BY <1>7, <2>1, <2>2, FinishStep DEF OutputReceived
<1>8. CASE UNCHANGED vars
  BY <1>8 DEF vars, IInv, TasksFit, FramesFit, BoxesFit, Boxes, TimersFit, Timers, GoesOn
<1>9. Timed \subseteq Acting
  BY DEF Timed
<1>. QED  BY <1>1, <1>2, <1>3, <1>4, <1>5, <1>6, <1>7, <1>8, BatchBegins, BatchGoesOn,
             TimerStops, TimerStarts, AnswerStep, WorkStep, SaveStep, RestartStep DEF Next

LEMMA InitFits == Init => IInv
<1>. SUFFICES ASSUME Init  PROVE IInv
  OBVIOUS
<1>1. TasksFit
  BY DEF Init, AllIdle, TasksFit, TasksOf
<1>2. FramesFit /\ TimersFit
  BY EmptySeq DEF Init, FramesFit, TimersFit, Timers, Has, Once
<1>3. BoxesFit
  BY DEF Init, AllIdle, BoxesFit, Boxes, Has, Once, Idle, Boxed
<1>. QED  BY <1>1, <1>2, <1>3 DEF IInv

\* The tasks, the stack of handlers and the timers always fit each other.
THEOREM Invariant == Spec => []IInv
<1>1. IInv /\ [Next]_vars => IInv'
  BY StepFits
<1>. QED  BY <1>1, InitFits, PTL DEF Spec

----------------------------------------------------------------------------
\* For every set of components, every system and any number of operations at once.

\* m_in_progress protects an operation to its end: no other caller, timer or nested
\* event loop starts a second one on a component whose download, worker or box is
\* still open.
THEOREM NothingStartedOver == Spec => NeverStartedOver
<1>1. IInv /\ [Next]_vars =>
        [\A c \in Acting :
           task[c].stage # "none" => task'[c] = Idle \/ task'[c].op = task[c].op]_vars
  BY StepFits DEF GoesOn
<1>. QED  BY <1>1, Invariant, PTL DEF Spec, NeverStartedOver

\* A component in progress, other than P2P and TRAY, has something under way that
\* will call its finished slot.
THEOREM ProgressIsUnderWay == Spec => []InProgressIsUnderWay
<1>1. IInv => InProgressIsUnderWay
  BY TaskFacts, ActingAssumption DEF IInv, TasksFit, InProgressIsUnderWay, MayReturn
<1>. QED  BY <1>1, Invariant, PTL

\* Nested event loops return to the right operation.
THEOREM AwaitedBoxes == Spec => []BoxesAreAwaited
<1>1. ASSUME IInv  PROVE BoxesAreAwaited
  <2> DEFINE boxes == {i \in DOMAIN frames : frames[i].kind = "box"}
  <2>1. \A i \in boxes : frames[i].comp \in Acting /\ frames[i] = BoxFrame(frames[i].comp)
    <3>1. \A i \in DOMAIN frames : frames[i] \in Waiting
      BY <1>1, LenProperties, ElementOfSeq DEF IInv, FramesFit
    <3>. QED  BY <3>1, FrameKinds
  <2>2. \A c \in Acting : /\ Once(frames, BoxFrame(c))
                          /\ Has(frames, BoxFrame(c)) <=> task[c].stage \in Boxed
    BY <1>1 DEF IInv, BoxesFit, Boxes
  <2>3. \A i, j \in boxes : frames[i].comp = frames[j].comp => i = j
    BY <2>1, <2>2 DEF Once
  <2>4. ASSUME NEW i \in boxes
        PROVE  frames[i].comp \in {c \in Acting : task[c].stage \in Boxed}
    BY <2>1, <2>2 DEF Has
  <2>5. ASSUME NEW c \in Acting, task[c].stage \in Boxed
        PROVE  c \in {frames[i].comp : i \in boxes}
    <3>1. PICK i \in DOMAIN frames : frames[i] = BoxFrame(c)
      BY <2>2, <2>5 DEF Has
    <3>. QED  BY <3>1, FramesDiffer
  <2>6. {frames[i].comp : i \in boxes} = {c \in Acting : task[c].stage \in Boxed}
    BY <2>4, <2>5
  <2>. QED  BY <2>3, <2>6 DEF BoxesAreAwaited
<1>. QED  BY <1>1, Invariant, PTL

\* The timer of a component runs, or its handler is under way and will start it
\* again, exactly if the frequency in the settings is not "never".
THEOREM TimersFollowSettings == Spec => []TimerFollowsSettings
<1>1. ASSUME IInv  PROVE TimerFollowsSettings
  <2>1. ASSUME NEW c \in Timed
        PROVE  Has(frames, TimerFrame(c))
                 <=> {i \in DOMAIN frames : frames[i] = TimerFrame(c)} # {}
    BY DEF Has
  <2>. QED  BY <1>1, <2>1 DEF IInv, TimersFit, Timers, TimerFollowsSettings
<1>. QED  BY <1>1, Invariant, PTL
=============================================================================
