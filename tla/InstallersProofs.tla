-------------------------- MODULE InstallersProofs --------------------------
(***************************************************************************)
(* Proofs about Installers, for every table of functions that is as the    *)
(* assumptions of Installers say, of which TLC evaluates each on the table *)
(* of InstallFunctions.                                                    *)
(*                                                                         *)
(* The mutexes: a function between the lock() and the unlock() of a mutex  *)
(* is the one that has it, and who has it is between them or has forgotten *)
(* it.  Where a function stands is read from the position in its body, who *)
(* has a mutex from busy: the four shapes of a step (it moves nothing,     *)
(* takes, gives back or forgets a mutex) relate the two.                   *)
(*                                                                         *)
(* The results: a process that was due and did not end well, and that the  *)
(* function has come past, has its outcome kept, with the judgement to     *)
(* come.  The scripts: a function has a script, by its position in its     *)
(* body, exactly when the script is the one it wrote; nobody else touches  *)
(* it, for those that could are of the same component and not at work.     *)
(***************************************************************************)
EXTENDS Installers, TLAPS

----------------------------------------------------------------------------
\* Positions in a body and its sections.

\* A step that does not take or give back the mutex leaves a function where it
\* was, taking it leads into the section and giving it back out of it.
LEMMA SectionStep ==
  ASSUME NEW body \in Seq(Steps), NEW i \in 1..Len(body), NEW m
  PROVE  /\ ~ (body[i].do \in LockSteps /\ body[i].on = m)
              => (InSection(body, i + 1, m) <=> InSection(body, i, m))
         /\ body[i].do = "lock" /\ body[i].on = m => InSection(body, i + 1, m)
         /\ body[i].do = "unlock" /\ body[i].on = m => ~ InSection(body, i + 1, m)
<1>1. (i + 1) - 1 = i /\ i \in Nat /\ i >= 1
  OBVIOUS
<1>2. \A k, j \in Int : k \in 1..i /\ j \in k..i <=> k \in 1..i /\ (j \in k..(i - 1) \/ j = i)
  BY <1>1
<1>3. ASSUME ~ (body[i].do \in LockSteps /\ body[i].on = m)
      PROVE  InSection(body, i + 1, m) <=> InSection(body, i, m)
  BY <1>1, <1>2, <1>3 DEF InSection, LockSteps
<1>4. ASSUME body[i].do = "lock", body[i].on = m
      PROVE  InSection(body, i + 1, m)
  <2>1. \A j \in i..i : ~ (body[j].do = "unlock" /\ body[j].on = m)
    BY <1>4
  <2> QED BY <2>1, <1>1, <1>4 DEF InSection
<1>5. ASSUME body[i].do = "unlock", body[i].on = m
      PROVE  ~ InSection(body, i + 1, m)
  BY <1>1, <1>5 DEF InSection
<1> QED BY <1>3, <1>4, <1>5

\* No mutex changes hands on the way to the exit.
LEMMA SectionExit ==
  ASSUME NEW body \in Seq(Steps), NEW i \in 1..Len(body), NEW j \in 1..(Len(body) + 1), NEW m,
         body[i].do \notin LockSteps, IsExit(body, i, j)
  PROVE  InSection(body, j, m) <=> InSection(body, i, m)
<1>1. j >= i + 1
  BY DEF IsExit
<1>2. \A k \in i..(j - 1) : body[k].do \notin LockSteps
  BY DEF IsExit
<1>3. ASSUME InSection(body, j, m) PROVE InSection(body, i, m)
  <2>1. PICK k \in 1..(j - 1) :
          /\ body[k].do = "lock" /\ body[k].on = m
          /\ \A l \in k..(j - 1) : ~ (body[l].do = "unlock" /\ body[l].on = m)
    BY <1>3 DEF InSection
  <2>2. k \in 1..(i - 1)
    BY <2>1, <1>1, <1>2 DEF LockSteps
  <2> QED BY <2>1, <2>2, <1>1 DEF InSection
<1>4. ASSUME InSection(body, i, m) PROVE InSection(body, j, m)
  <2>1. PICK k \in 1..(i - 1) :
          /\ body[k].do = "lock" /\ body[k].on = m
          /\ \A l \in k..(i - 1) : ~ (body[l].do = "unlock" /\ body[l].on = m)
    BY <1>4 DEF InSection
  <2>2. k \in 1..(j - 1)
    BY <1>1
  <2>3. \A l \in k..(j - 1) : ~ (body[l].do = "unlock" /\ body[l].on = m)
    <3> SUFFICES ASSUME NEW l \in k..(j - 1)
                 PROVE  ~ (body[l].do = "unlock" /\ body[l].on = m)
      OBVIOUS
    <3>1. CASE l \in k..(i - 1)
      BY <2>1, <3>1
    <3>2. CASE l \in i..(j - 1)
      BY <1>2, <3>2 DEF LockSteps
    <3> QED BY <3>1, <3>2
  <2> QED BY <2>1, <2>2, <2>3 DEF InSection
<1> QED BY <1>3, <1>4

\* A function that has not begun, or not taken a step, has no mutex.
LEMMA SectionStart == \A body, m : ~ InSection(body, 0, m) /\ ~ InSection(body, 1, m)
BY DEF InSection

----------------------------------------------------------------------------
\* The invariant.

\* Function f is between the lock() and the unlock() of mutex m.
In(f, m) == InSection(Body(f), thread[f].at, m)

HolderHasIt == \A f \in team, m \in Mutexes : In(f, m) => busy[m] = f

IInv == TypeOK /\ HolderHasIt

LEMMA BodyType ==
  ASSUME TypeOK, NEW f \in team
  PROVE  f \in Functions /\ f # Nobody /\ Body(f) \in Seq(Steps) /\ Balanced(Body(f))
BY BodiesAssumption, TeamsAssumption, NobodyAssumption DEF TypeOK, Body

\* The step a running function is at.
LEMMA HereType ==
  ASSUME TypeOK, NEW f \in team, Running(f)
  PROVE  /\ Here(f) \in Steps /\ Here(f) = Body(f)[thread[f].at]
         /\ thread[f] \in Threads /\ thread[f].at \in 1..Len(Body(f)) /\ Len(Body(f)) \in Nat
BY BodyType DEF TypeOK, Running, Here

----------------------------------------------------------------------------
\* The shapes of a step.

\* Only the thread of f moves.
OnlyMoves(f) ==
  /\ os' = os /\ team' = team
  /\ thread' \in [team -> Threads]
  /\ thread'[f].at <= Len(Body(f)) + 1
  /\ \A g \in team \ {f} : thread'[g] = thread[g]

Keeps(f, m) == In(f, m)' <=> In(f, m)

MovesNothing(f) == busy' = busy /\ \A m \in Mutexes : Keeps(f, m)

Takes(f, m) ==
  /\ busy[m] = Nobody /\ busy' = [busy EXCEPT ![m] = f]
  /\ In(f, m)' /\ \A n \in Mutexes \ {m} : Keeps(f, n)

GivesBack(f, m) ==
  /\ In(f, m) /\ busy' = [busy EXCEPT ![m] = Nobody]
  /\ ~ In(f, m)' /\ \A n \in Mutexes \ {m} : Keeps(f, n)

Drops(f) ==
  /\ In(f, "installer") /\ busy' = busy
  /\ ~ In(f, "installer")' /\ Keeps(f, "vagrant")
  /\ \E i \in 1..Len(Body(f)) : Body(f)[i].forgets

Shape(f) ==
  /\ OnlyMoves(f)
  /\ \/ MovesNothing(f)
     \/ \E m \in Mutexes : Takes(f, m) \/ GivesBack(f, m)
     \/ Drops(f)

\* To go on is to be at the next step.
LEMMA GoesOnMoves ==
  ASSUME TypeOK, NEW f \in team, Running(f), NEW t \in Threads, t.at = thread[f].at,
         GoesOn(f, t), UNCHANGED <<os, team>>
  PROVE  OnlyMoves(f) /\ thread'[f].at = thread[f].at + 1
<1> DEFINE moved == [t EXCEPT !.at = @ + 1]
<1>1. thread' = [thread EXCEPT ![f] = moved]
  BY DEF GoesOn
<1>2. moved \in Threads /\ moved.at = thread[f].at + 1
  BY DEF Threads
<1> HIDE DEF moved
<1>3. thread[f].at + 1 <= Len(Body(f)) + 1
  BY HereType
<1>4. thread \in [team -> Threads]
  BY DEF TypeOK
<1>5. thread'[f] = moved
  BY <1>1, <1>4
<1>6. thread' \in [team -> Threads] /\ \A g \in team \ {f} : thread'[g] = thread[g]
  BY <1>1, <1>2, <1>4
<1> QED BY <1>2, <1>3, <1>5, <1>6 DEF OnlyMoves

\* A step that goes on and is about no mutex moves none.
LEMMA GoesOnQuietly ==
  ASSUME TypeOK, NEW f \in team, Running(f), Here(f).do \notin LockSteps,
         NEW t \in Threads, t.at = thread[f].at, GoesOn(f, t), UNCHANGED <<os, team, busy>>
  PROVE  Shape(f)
<1>1. OnlyMoves(f) /\ thread'[f].at = thread[f].at + 1
  BY GoesOnMoves
<1>2. Body(f)' = Body(f)
  BY DEF Body
<1>3. \A m \in Mutexes : Keeps(f, m)
  BY <1>1, <1>2, BodyType, HereType, SectionStep DEF Keeps, In
<1> QED BY <1>1, <1>3 DEF Shape, MovesNothing

\* A return moves no mutex, or forgets installer_is_busy.
LEMMA ReturnsShape ==
  ASSUME TypeOK, NEW f \in team, Running(f), Here(f).do \notin LockSteps,
         NEW told \in {"success", "failure"}, Returns(f, told), UNCHANGED <<os, team, busy>>
  PROVE  Shape(f)
<1> DEFINE body == Body(f)
           i == thread[f].at
<1>1. PICK exit \in 1..(Len(body) + 1) :
        /\ IsExit(body, i, exit)
        /\ thread' = [thread EXCEPT ![f] = [@ EXCEPT
             !.at = IF Here(f).forgets THEN exit + 1 ELSE exit, !.result = told]]
  BY DEF Returns
<1> DEFINE next == IF Here(f).forgets THEN exit + 1 ELSE exit
           moved == [thread[f] EXCEPT !.at = next, !.result = told]
<1>2. body \in Seq(Steps) /\ Balanced(body) /\ i \in 1..Len(body) /\ Len(body) \in Nat
      /\ Here(f) = body[i] /\ thread[f] \in Threads /\ thread \in [team -> Threads]
  BY BodyType, HereType DEF TypeOK
<1>3. Here(f).forgets =>
        /\ InSection(body, i, "installer") /\ exit <= Len(body)
        /\ body[exit].do = "unlock" /\ body[exit].on = "installer"
  BY <1>1, <1>2 DEF Balanced
<1>4. next \in Nat /\ next <= Len(body) + 1
  BY <1>1, <1>2, <1>3
<1>5. moved \in Threads /\ moved.at = next
  BY <1>2, <1>4 DEF Threads
<1>6. thread' = [thread EXCEPT ![f] = moved]
  BY <1>1
<1> HIDE DEF moved
<1>7. OnlyMoves(f) /\ thread'[f].at = next
  BY <1>2, <1>4, <1>5, <1>6 DEF OnlyMoves
<1>8. \A m : InSection(body, exit, m) <=> InSection(body, i, m)
  BY <1>1, <1>2, SectionExit
<1>9. Body(f)' = body
  BY DEF Body
<1>10. CASE ~ Here(f).forgets
  <2>1. thread'[f].at = exit
    BY <1>7, <1>10
  <2>2. \A m \in Mutexes : Keeps(f, m)
    BY <2>1, <1>8, <1>9 DEF Keeps, In
  <2> QED BY <1>7, <2>2 DEF Shape, MovesNothing
<1>11. CASE Here(f).forgets
  <2>1. thread'[f].at = exit + 1
    BY <1>7, <1>11
  <2>2. exit \in 1..Len(body)
    BY <1>1, <1>3, <1>11
  <2>3. ~ InSection(body, exit + 1, "installer")
    BY <1>2, <1>3, <1>11, <2>2, SectionStep
  <2>4. InSection(body, exit + 1, "vagrant") <=> InSection(body, exit, "vagrant")
    BY <1>2, <1>3, <1>11, <2>2, SectionStep
  <2>5. Drops(f)
    BY <2>1, <2>3, <2>4, <1>2, <1>3, <1>8, <1>9, <1>11 DEF Drops, Keeps, In
  <2> QED BY <1>7, <2>5 DEF Shape
<1> QED BY <1>10, <1>11

LEMMA BeginShape ==
  ASSUME TypeOK, NEW f \in team, Begin(f)
  PROVE  Shape(f)
<1> DEFINE o == {i \in 1..Len(Body(f)) : Body(f)[i].vital}
           moved == [Idle EXCEPT !.at = 1, !.owed = o]
<1>1. thread' = [thread EXCEPT ![f] = moved] /\ UNCHANGED <<os, team, busy>>
  BY DEF Begin
<1>2. Body(f) \in Seq(Steps) /\ Len(Body(f)) \in Nat /\ thread \in [team -> Threads]
      /\ thread[f].at = 0
  BY BodyType DEF TypeOK, Begin
<1>3. moved \in Threads /\ moved.at = 1
  <2>1. o \in SUBSET Nat
    BY <1>2
  <2> HIDE DEF o
  <2> QED BY <2>1 DEF Threads, Idle, Outcomes
<1> HIDE DEF moved
<1>4. OnlyMoves(f) /\ thread'[f].at = 1
  BY <1>1, <1>2, <1>3 DEF OnlyMoves
<1>5. Body(f)' = Body(f)
  BY <1>1 DEF Body
<1>6. \A m \in Mutexes : Keeps(f, m)
  BY <1>2, <1>4, <1>5, SectionStart DEF Keeps, In
<1> QED BY <1>1, <1>4, <1>6 DEF Shape, MovesNothing

LEMMA ReportShape ==
  ASSUME TypeOK, NEW f \in team, Report(f)
  PROVE  Shape(f)
<1>1. thread' = [thread EXCEPT ![f] = Idle] /\ UNCHANGED <<os, team, busy>>
      /\ thread[f].at = Len(Body(f)) + 1
  BY DEF Report, Ended
<1>2. Body(f) \in Seq(Steps) /\ Len(Body(f)) \in Nat /\ thread \in [team -> Threads]
  BY BodyType DEF TypeOK
<1>3. Idle \in Threads /\ Idle.at = 0
  BY DEF Threads, Idle, Outcomes
<1>4. OnlyMoves(f) /\ thread'[f].at = 0
  BY <1>1, <1>2, <1>3 DEF OnlyMoves
<1>5. Body(f)' = Body(f)
  BY <1>1 DEF Body
<1>6. \A m \in Mutexes : ~ InSection(Body(f), Len(Body(f)) + 1, m)
  BY BodyType DEF Balanced
<1>7. \A m \in Mutexes : Keeps(f, m)
  BY <1>1, <1>4, <1>5, <1>6, SectionStart DEF Keeps, In
<1> QED BY <1>1, <1>4, <1>7 DEF Shape, MovesNothing

LEMMA TakeMutexShape ==
  ASSUME TypeOK, NEW f \in team, TakeMutex(f)
  PROVE  Shape(f)
<1>0. Running(f) /\ Here(f).do = "lock" /\ Here(f).on \in Mutexes
  BY HereType, BodyType DEF TakeMutex, At, Balanced, LockSteps
<1> PICK m \in Mutexes : m = Here(f).on
  BY <1>0
<1>1. /\ Running(f) /\ Here(f).do = "lock" /\ Here(f).on = m /\ busy[m] = Nobody
      /\ busy' = [busy EXCEPT ![m] = f] /\ UNCHANGED <<os, team>>
      /\ GoesOn(f, [thread[f] EXCEPT !.result = "success"])
  BY DEF TakeMutex, At
<1>2. Here(f) = Body(f)[thread[f].at] /\ thread[f] \in Threads /\ thread[f].at \in 1..Len(Body(f))
      /\ Body(f) \in Seq(Steps) /\ Balanced(Body(f))
  BY <1>1, HereType, BodyType
<1>3. [thread[f] EXCEPT !.result = "success"] \in Threads
      /\ [thread[f] EXCEPT !.result = "success"].at = thread[f].at
  BY <1>2 DEF Threads
<1>4. OnlyMoves(f) /\ thread'[f].at = thread[f].at + 1
  BY <1>1, <1>3, GoesOnMoves
<1>6. Body(f)' = Body(f)
  BY <1>1 DEF Body
<1>7. In(f, m)'
  BY <1>1, <1>2, <1>4, <1>6, SectionStep DEF In
<1>8. \A n \in Mutexes \ {m} : Keeps(f, n)
  BY <1>1, <1>2, <1>4, <1>6, SectionStep DEF Keeps, In
<1>9. Takes(f, m)
  BY <1>1, <1>7, <1>8 DEF Takes
<1> QED BY <1>4, <1>9 DEF Shape

LEMMA GiveMutexBackShape ==
  ASSUME TypeOK, NEW f \in team, GiveMutexBack(f)
  PROVE  Shape(f)
<1>0. Running(f) /\ Here(f).do = "unlock" /\ Here(f).on \in Mutexes
  BY HereType, BodyType DEF GiveMutexBack, At, Balanced, LockSteps
<1> PICK m \in Mutexes : m = Here(f).on
  BY <1>0
<1>1. /\ Running(f) /\ Here(f).do = "unlock" /\ Here(f).on = m
      /\ busy' = [busy EXCEPT ![m] = Nobody] /\ UNCHANGED <<os, team>>
      /\ GoesOn(f, thread[f])
  BY DEF GiveMutexBack, At
<1>2. Here(f) = Body(f)[thread[f].at] /\ thread[f] \in Threads /\ thread[f].at \in 1..Len(Body(f))
      /\ Body(f) \in Seq(Steps) /\ Balanced(Body(f))
  BY <1>1, HereType, BodyType
<1>3. OnlyMoves(f) /\ thread'[f].at = thread[f].at + 1
  BY <1>1, <1>2, GoesOnMoves
<1>4. In(f, m)
  BY <1>1, <1>2 DEF Balanced, LockSteps, In
<1>5. Body(f)' = Body(f)
  BY <1>1 DEF Body
<1>6. ~ In(f, m)'
  BY <1>1, <1>2, <1>3, <1>5, SectionStep DEF In
<1>7. \A n \in Mutexes \ {m} : Keeps(f, n)
  BY <1>1, <1>2, <1>3, <1>5, SectionStep DEF Keeps, In
<1>8. GivesBack(f, m)
  BY <1>1, <1>4, <1>6, <1>7 DEF GivesBack
<1> QED BY <1>3, <1>4, <1>8 DEF Shape

\* What the end of a process makes of a thread is a thread.
LEMMA ToldType ==
  ASSUME TypeOK, NEW f \in team, Running(f), NEW outcome \in Outcomes
  PROVE  Told(f, outcome) \in Threads /\ Told(f, outcome).at = thread[f].at
<1> DEFINE k == IF Here(f).keeps THEN outcome ELSE thread[f].kept
           o == IF outcome = "done" THEN thread[f].owed \ {thread[f].at} ELSE thread[f].owed
<1>1. thread[f] \in Threads
  BY HereType
<1>2. k \in Outcomes /\ o \in SUBSET Nat
  BY <1>1 DEF Threads
<1>3. Told(f, outcome) = [thread[f] EXCEPT !.kept = k, !.owed = o]
  BY DEF Told
<1> HIDE DEF k, o
<1> QED BY <1>1, <1>2, <1>3 DEF Threads

LEMMA AdvanceShape ==
  ASSUME TypeOK, NEW f \in team, Advance(f)
  PROVE  Shape(f)
<1>1. Running(f) => thread[f] \in Threads
  BY HereType
<1>2. CASE TakeMutex(f)
  BY <1>2, TakeMutexShape
<1>3. CASE GiveMutexBack(f)
  BY <1>3, GiveMutexBackShape
<1>4. CASE Look(f)
  BY <1>1, <1>4, GoesOnQuietly, ReturnsShape DEF Look, At, LockSteps
<1>5. CASE CreateScript(f)
  BY <1>1, <1>5, GoesOnQuietly, ReturnsShape DEF CreateScript, At, LockSteps
<1>6. CASE WriteScript(f)
  BY <1>1, <1>6, GoesOnQuietly, ReturnsShape DEF WriteScript, At, LockSteps
<1>7. CASE EraseScript(f)
  BY <1>1, <1>7, GoesOnQuietly DEF EraseScript, At, LockSteps
<1>8. ASSUME NEW outcome \in Outcomes, ProcessEnds(f, outcome) PROVE Shape(f)
  <2>1. Running(f) /\ Here(f).do \notin LockSteps /\ UNCHANGED <<os, team, busy>>
    BY <1>8 DEF ProcessEnds, At, LockSteps
  <2>2. CASE GoesOn(f, Told(f, outcome))
    BY <2>1, <2>2, ToldType, GoesOnQuietly
  <2>3. CASE Returns(f, IF outcome \in Here(f).says THEN "success" ELSE "failure")
    BY <2>1, <2>3, ReturnsShape
  <2> QED BY <1>8, <2>2, <2>3 DEF ProcessEnds
<1>9. CASE JudgeOutcome(f)
  BY <1>1, <1>9, GoesOnQuietly, ReturnsShape DEF JudgeOutcome, At, LockSteps
<1>10. CASE Report(f)
  BY <1>10, ReportShape
<1> QED BY <1>2, <1>3, <1>4, <1>5, <1>6, <1>7, <1>8, <1>9, <1>10 DEF Advance

LEMMA NextShape ==
  ASSUME TypeOK, Next
  PROVE  \E f \in team : Shape(f)
BY BeginShape, AdvanceShape DEF Next

----------------------------------------------------------------------------
\* The invariant holds.

LEMMA ScriptsType ==
  ASSUME TypeOK, [Next]_vars
  PROVE  scripts' \in [Scripts -> {"absent", "unfinished"} \cup team]
<1> DEFINE S == {"absent", "unfinished"} \cup team
<1>1. scripts \in [Scripts -> S]
  BY DEF TypeOK
<1>2. ASSUME NEW s \in Scripts, NEW v \in S PROVE [scripts EXCEPT ![s] = v] \in [Scripts -> S]
  BY <1>1
<1>3. ASSUME NEW x, NEW v \in S PROVE [scripts EXCEPT ![x] = v] \in [Scripts -> S]
  BY <1>1
<1> QED BY <1>1, <1>3 DEF Next, vars, Begin, Advance, TakeMutex, GiveMutexBack, Look, CreateScript,
          WriteScript, EraseScript, ProcessEnds, JudgeOutcome, Report

LEMMA TypeStep == TypeOK /\ [Next]_vars => TypeOK'
<1> SUFFICES ASSUME TypeOK, [Next]_vars PROVE TypeOK'
  OBVIOUS
<1>1. scripts' \in [Scripts -> {"absent", "unfinished"} \cup team]
  BY ScriptsType
<1>2. CASE UNCHANGED vars
  BY <1>2 DEF TypeOK, vars, Body
<1>3. CASE Next
  <2>1. PICK f \in team : Shape(f)
    BY <1>3, NextShape
  <2>2. os' = os /\ team' = team /\ thread' \in [team -> Threads]
    BY <2>1 DEF Shape, OnlyMoves
  <2>3. \A g \in team : Body(g)' = Body(g)
    BY <2>2 DEF Body
  <2>4. \A g \in team : thread'[g].at <= Len(Body(g)) + 1
    BY <2>1 DEF Shape, OnlyMoves, TypeOK
  <2>5. busy' \in [Mutexes -> team \cup {Nobody}]
    BY <2>1 DEF Shape, MovesNothing, Takes, GivesBack, Drops, TypeOK
  <2> QED BY <1>1, <2>2, <2>3, <2>4, <2>5 DEF TypeOK
<1> QED BY <1>2, <1>3

\* The types are as declared, for every table of functions and every use of them.
THEOREM TypeCorrect == Spec => []TypeOK
<1>1. Init => TypeOK
  <2> SUFFICES ASSUME Init PROVE TypeOK
    OBVIOUS
  <2>1. \A f \in team : Body(f) \in Seq(Steps)
    BY BodiesAssumption, TeamsAssumption DEF Init, Body
  <2>2. Idle \in Threads /\ Idle.at = 0
    BY DEF Idle, Threads, Outcomes
  <2>3. \A f \in team : thread[f].at <= Len(Body(f)) + 1
    BY <2>1, <2>2 DEF Init
  <2> QED BY <2>2, <2>3 DEF Init, TypeOK
<1> QED BY <1>1, TypeStep, PTL DEF Spec

LEMMA HolderStep == IInv /\ [Next]_vars => HolderHasIt'
<1> SUFFICES ASSUME IInv, [Next]_vars PROVE HolderHasIt'
  OBVIOUS
<1> USE DEF IInv
<1>1. CASE UNCHANGED vars
  BY <1>1 DEF HolderHasIt, vars, In, Body
<1>2. CASE Next
  <2>1. PICK f \in team : Shape(f)
    BY <1>2, NextShape
  <2>2. os' = os /\ team' = team /\ busy \in [Mutexes -> team \cup {Nobody}]
    BY <2>1 DEF Shape, OnlyMoves, TypeOK
  <2>3. \A g \in team \ {f}, m \in Mutexes : Keeps(g, m)
    BY <2>1, <2>2 DEF Shape, OnlyMoves, Keeps, In, Body
  <2>4. \A g \in team : g # Nobody
    BY BodyType
  <2> SUFFICES ASSUME NEW g \in team, NEW m \in Mutexes, In(g, m)' PROVE busy'[m] = g
    BY <2>2 DEF HolderHasIt
  <2>5. CASE MovesNothing(f)
    BY <2>3, <2>5 DEF MovesNothing, Keeps, HolderHasIt
  <2>6. ASSUME NEW n \in Mutexes, Takes(f, n) PROVE busy'[m] = g
    BY <2>2, <2>3, <2>4, <2>6 DEF Takes, Keeps, HolderHasIt
  <2>7. ASSUME NEW n \in Mutexes, GivesBack(f, n) PROVE busy'[m] = g
    BY <2>2, <2>3, <2>7 DEF GivesBack, Keeps, HolderHasIt
  <2>8. CASE Drops(f)
    <3>1. \A n \in Mutexes : In(f, n)' => In(f, n)
      BY <2>8 DEF Drops, Keeps, Mutexes
    <3> QED BY <2>3, <2>8, <3>1 DEF Drops, Keeps, HolderHasIt
  <2> QED BY <2>1, <2>5, <2>6, <2>7, <2>8 DEF Shape
<1> QED BY <1>1, <1>2

LEMMA Inductive == Spec => []IInv
<1>1. Init => HolderHasIt
  BY SectionStart DEF Init, HolderHasIt, In, Idle
<1>2. TypeOK /\ HolderHasIt /\ [Next]_vars => HolderHasIt'
  BY HolderStep DEF IInv
<1>3. Spec => []TypeOK
  BY TypeCorrect
<1> QED BY <1>1, <1>2, <1>3, PTL DEF Spec, IInv

----------------------------------------------------------------------------
\* The functions implement OneAtATime.

\* Only a function that is inside has the mutex, and then it is not lost.
LEMMA InsideAlone ==
  ASSUME IInv, NEW f \in team, In(f, "installer")
  PROVE  Inside("installer") = {f} /\ LostBy("installer") = {} /\ busy["installer"] = f
<1>1. busy["installer"] = f
  BY DEF IInv, HolderHasIt, Mutexes
<1>2. \A g \in team : In(g, "installer") => g = f
  BY <1>1 DEF IInv, HolderHasIt, Mutexes
<1> QED BY <1>1, <1>2 DEF Inside, LostBy, In

\* A mutex that nobody has is not lost, and nobody is inside.
LEMMA FreeMutex ==
  ASSUME IInv, busy["installer"] = Nobody
  PROVE  Inside("installer") = {} /\ LostBy("installer") = {}
<1>1. \A g \in team : g # Nobody
  BY BodyType DEF IInv
<1> QED BY <1>1 DEF IInv, HolderHasIt, Mutexes, Inside, LostBy, In

LEMMA OneAtATimeStep ==
  ASSUME IInv, IInv', [Next]_vars
  PROVE  [Installer!Next]_<<Inside("installer"), LostBy("installer")>>
<1> DEFINE m == "installer"
<1>1. CASE UNCHANGED vars
  BY <1>1 DEF vars, Inside, LostBy, Body
<1>2. CASE Next
  <2>1. PICK f \in team : Shape(f)
    BY <1>2, NextShape DEF IInv
  <2>2. os' = os /\ team' = team /\ busy \in [Mutexes -> team \cup {Nobody}]
    BY <2>1 DEF Shape, OnlyMoves, IInv, TypeOK
  <2>3. \A g \in team \ {f} : Keeps(g, m)
    BY <2>1, <2>2 DEF Shape, OnlyMoves, Keeps, In, Body
  <2>4. f \in Functions /\ f # Nobody /\ \A g \in team : g # Nobody
    BY BodyType DEF IInv
  <2>5. ASSUME busy'[m] = busy[m], Keeps(f, m)
        PROVE  UNCHANGED <<Inside(m), LostBy(m)>>
    BY <2>2, <2>3, <2>5 DEF Keeps, Inside, LostBy, In
  <2>6. CASE MovesNothing(f)
    BY <2>5, <2>6 DEF MovesNothing, Mutexes
  <2>7. CASE Takes(f, m)
    <3>1. Inside(m) = {} /\ LostBy(m) = {}
      BY <2>7, FreeMutex DEF Takes
    <3>2. \A g \in team : In(g, m)' <=> g = f
      BY <2>3, <2>7, <3>1 DEF Takes, Keeps, Inside, In
    <3>3. busy'[m] = f
      BY <2>2, <2>7 DEF Takes, Mutexes
    <3>4. Inside(m)' = {f} /\ LostBy(m)' = {}
      BY <2>2, <3>2, <3>3 DEF Inside, LostBy, In
    <3> QED BY <2>4, <3>1, <3>4 DEF Installer!Next, Installer!Enter
  <2>8. CASE GivesBack(f, m)
    <3>1. Inside(m) = {f} /\ LostBy(m) = {}
      BY <2>8, InsideAlone DEF GivesBack
    <3>2. \A g \in team : ~ In(g, m)'
      BY <2>3, <2>8, <3>1 DEF GivesBack, Keeps, Inside, In
    <3>3. busy'[m] = Nobody
      BY <2>2, <2>8 DEF GivesBack, Mutexes
    <3>4. Inside(m)' = {} /\ LostBy(m)' = {}
      BY <2>2, <2>4, <3>2, <3>3 DEF Inside, LostBy, In
    <3> QED BY <3>1, <3>4 DEF Installer!Next, Installer!Leave
  <2>9. ASSUME NEW n \in Mutexes \ {m}, Takes(f, n) \/ GivesBack(f, n)
        PROVE  UNCHANGED <<Inside(m), LostBy(m)>>
    <3>1. busy'[m] = busy[m] /\ Keeps(f, m)
      BY <2>2, <2>9 DEF Takes, GivesBack, Mutexes
    <3> QED BY <3>1, <2>5
  <2>10. CASE Drops(f)
    <3>1. Inside(m) = {f} /\ LostBy(m) = {} /\ busy[m] = f
      BY <2>10, InsideAlone DEF Drops
    <3>2. \A g \in team : ~ In(g, m)'
      BY <2>3, <2>10, <3>1 DEF Drops, Keeps, Inside, In
    <3>3. Inside(m)' = {} /\ LostBy(m)' = {f}
      BY <2>2, <2>10, <3>1, <3>2 DEF Drops, Inside, LostBy, In
    <3> QED BY <3>1, <3>3 DEF Installer!Next, Installer!Lose
  <2> QED BY <2>1, <2>6, <2>7, <2>8, <2>9, <2>10 DEF Shape
<1> QED BY <1>1, <1>2

\* Two functions that take installer_is_busy are never at work together, and none
\* is at work after one has returned with it.
THEOREM TakingTurns == Spec => InstallersTakeTurns
<1>1. Init => Installer!Init
  <2> SUFFICES ASSUME Init PROVE Installer!Init
    OBVIOUS
  <2>1. \A f \in team : f # Nobody /\ ~ In(f, "installer")
    BY SectionStart, TeamsAssumption, NobodyAssumption DEF Init, In, Idle
  <2> QED BY <2>1 DEF Init, Installer!Init, Inside, LostBy, In, Mutexes
<1>2. IInv /\ IInv' /\ [Next]_vars
        => [Installer!Next]_<<Inside("installer"), LostBy("installer")>>
  BY OneAtATimeStep
<1>3. Spec => []IInv
  BY Inductive
<1> QED BY <1>1, <1>2, <1>3, PTL DEF Spec, InstallersTakeTurns, Installer!Spec

----------------------------------------------------------------------------
\* Whoever has a mutex is between its lock() and its unlock(), unless it is one of
\* those that forget installer_is_busy.

KnownLoss ==
  \A m \in Mutexes, f \in team : busy[m] = f => In(f, m) \/ (m = "installer" /\ f \in Forgetful)

LEMMA KnownLossStep == IInv /\ KnownLoss /\ [Next]_vars => KnownLoss'
<1> SUFFICES ASSUME IInv, KnownLoss, [Next]_vars PROVE KnownLoss'
  OBVIOUS
<1> USE DEF IInv
<1>1. CASE UNCHANGED vars
  BY <1>1 DEF KnownLoss, vars, In, Body
<1>2. CASE Next
  <2>1. PICK f \in team : Shape(f)
    BY <1>2, NextShape
  <2>2. os' = os /\ team' = team /\ busy \in [Mutexes -> team \cup {Nobody}]
    BY <2>1 DEF Shape, OnlyMoves, TypeOK
  <2>3. \A g \in team \ {f}, m \in Mutexes : Keeps(g, m)
    BY <2>1, <2>2 DEF Shape, OnlyMoves, Keeps, In, Body
  <2>4. \A g \in team : g # Nobody
    BY BodyType
  <2> SUFFICES ASSUME NEW m \in Mutexes, NEW g \in team, busy'[m] = g
               PROVE  In(g, m)' \/ (m = "installer" /\ g \in Forgetful)
    BY <2>2 DEF KnownLoss
  <2>5. CASE MovesNothing(f)
    BY <2>3, <2>5 DEF MovesNothing, Keeps, KnownLoss
  <2>6. ASSUME NEW n \in Mutexes, Takes(f, n) \/ GivesBack(f, n)
        PROVE  In(g, m)' \/ (m = "installer" /\ g \in Forgetful)
    <3>1. CASE n = m
      BY <2>2, <2>4, <2>6, <3>1 DEF Takes, GivesBack
    <3>2. CASE n # m
      <4>1. busy[m] = g /\ Keeps(g, m)
        BY <2>2, <2>3, <2>6, <3>2 DEF Takes, GivesBack
      <4>. QED  BY <4>1 DEF Keeps, KnownLoss
    <3>. QED  BY <3>1, <3>2
  <2>7. CASE Drops(f)
    <3>1. f \in Forgetful
      BY <2>7, BodyType, ForgetfulAssumption DEF Drops, TypeOK, Body
    <3>2. busy[m] = g
      BY <2>7 DEF Drops
    <3>3. CASE g = f
      BY <2>7, <3>1, <3>2, <3>3 DEF Drops, Keeps, KnownLoss, Mutexes
    <3>4. CASE g # f
      BY <2>3, <3>2, <3>4 DEF Keeps, KnownLoss
    <3>. QED  BY <3>3, <3>4
  <2> QED BY <2>1, <2>5, <2>6, <2>7 DEF Shape
<1> QED BY <1>1, <1>2

\* Over any number of operations, each returning at any of its returns, only the
\* eight functions that have a return without unlock() leave installer_is_busy
\* locked, and nothing ever leaves vagrant_is_busy locked.
THEOREM KnownLosses == Spec => []OnlyKnownLosses
<1>1. Init => KnownLoss
  <2> SUFFICES ASSUME Init PROVE KnownLoss
    OBVIOUS
  <2>1. \A f \in team : f # Nobody
    BY TeamsAssumption, NobodyAssumption DEF Init
  <2> QED BY <2>1 DEF Init, KnownLoss
<1>2. KnownLoss => OnlyKnownLosses
  BY DEF KnownLoss, OnlyKnownLosses, LostBy, Inside, In, Mutexes
<1>3. Spec => []IInv
  BY Inductive
<1> QED BY <1>1, <1>2, <1>3, KnownLossStep, PTL DEF Spec

----------------------------------------------------------------------------
\* What a step makes of a thread.

LEMMA GoesOnThread ==
  ASSUME TypeOK, NEW f \in team, NEW t \in Threads, GoesOn(f, t)
  PROVE  /\ thread'[f].at = t.at + 1 /\ thread'[f].result = t.result
         /\ thread'[f].kept = t.kept /\ thread'[f].owed = t.owed
         /\ \A g \in team \ {f} : thread'[g] = thread[g]
<1> DEFINE moved == [t EXCEPT !.at = @ + 1]
<1>1. /\ moved.at = t.at + 1 /\ moved.result = t.result
      /\ moved.kept = t.kept /\ moved.owed = t.owed
  BY DEF Threads
<1>2. thread' = [thread EXCEPT ![f] = moved] /\ thread \in [team -> Threads]
  BY DEF GoesOn, TypeOK
<1> HIDE DEF moved
<1> QED BY <1>1, <1>2

LEMMA ReturnsThread ==
  ASSUME TypeOK, NEW f \in team, Running(f), Here(f).do \notin LockSteps,
         NEW told, Returns(f, told)
  PROVE  /\ \E exit \in 1..(Len(Body(f)) + 1) :
              /\ exit <= Len(Body(f)) => Body(f)[exit].do \in LockSteps
              /\ \/ thread'[f].at = exit
                 \/ exit <= Len(Body(f)) /\ thread'[f].at = exit + 1
         /\ thread'[f].result = told /\ thread'[f].owed = thread[f].owed
         /\ \A g \in team \ {f} : thread'[g] = thread[g]
<1>1. PICK exit \in 1..(Len(Body(f)) + 1) :
        /\ IsExit(Body(f), thread[f].at, exit)
        /\ thread' = [thread EXCEPT ![f] = [@ EXCEPT
             !.at = IF Here(f).forgets THEN exit + 1 ELSE exit, !.result = told]]
  BY DEF Returns
<1> DEFINE next == IF Here(f).forgets THEN exit + 1 ELSE exit
           moved == [thread[f] EXCEPT !.at = next, !.result = told]
<1>2. thread[f] \in Threads /\ thread \in [team -> Threads] /\ Balanced(Body(f))
      /\ thread[f].at \in 1..Len(Body(f)) /\ Here(f) = Body(f)[thread[f].at]
  BY HereType, BodyType DEF TypeOK
<1>3. moved.at = next /\ moved.result = told /\ moved.owed = thread[f].owed
  BY <1>2 DEF Threads
<1>4. thread' = [thread EXCEPT ![f] = moved]
  BY <1>1
<1>5. Here(f).forgets => exit <= Len(Body(f))
  BY <1>1, <1>2 DEF Balanced
<1> HIDE DEF moved
<1>6. thread'[f] = moved /\ \A g \in team \ {f} : thread'[g] = thread[g]
  BY <1>2, <1>4
<1>7. exit <= Len(Body(f)) => Body(f)[exit].do \in LockSteps
  BY <1>1 DEF IsExit
<1> QED BY <1>3, <1>5, <1>6, <1>7

----------------------------------------------------------------------------
\* A success is earned: a process that was vital and did not end well, and that the
\* function has come past, has its outcome kept, and the judgement is still to come.

EarnedAt(body, strict, t) ==
  /\ t.owed \subseteq {i \in 1..Len(body) : body[i].vital}
  /\ strict /\ t.result = "success" =>
       \A i \in t.owed : i < t.at =>
         body[i].keeps /\ t.kept # "done" /\ IsJudged(body, i, t.at)

EarnedInv == \A f \in team : EarnedAt(Body(f), f \notin Lenient[os], thread[f])

\* A step that is neither a call nor a judgement changes nothing about it.
LEMMA EarnedOn ==
  ASSUME NEW body \in Seq(Steps), NEW strict \in BOOLEAN, strict => Earnest(body),
         NEW t, NEW u, t.at \in 1..Len(body), EarnedAt(body, strict, t),
         body[t.at].do \notin {"call", "judge"},
         u.at = t.at + 1, u.kept = t.kept, u.owed = t.owed,
         u.result = t.result \/ body[t.at].do = "lock"
  PROVE  EarnedAt(body, strict, u)
<1>0. t.at \in Nat /\ Len(body) \in Nat /\ t.owed \subseteq {i \in 1..Len(body) : body[i].vital}
  BY DEF EarnedAt
<1> SUFFICES ASSUME strict, u.result = "success", NEW i \in t.owed, i < u.at
             PROVE  body[i].keeps /\ u.kept # "done" /\ IsJudged(body, i, u.at)
  BY <1>0 DEF EarnedAt
<1>1. i \in 1..Len(body) /\ body[i].vital /\ Earnest(body)
  BY <1>0
<1>2. i # t.at
  BY <1>0, <1>1 DEF Earnest
<1>3. i < t.at
  BY <1>0, <1>1, <1>2
<1>4. body[t.at].do # "lock"
  BY <1>0, <1>1, <1>3 DEF Earnest
<1>5. body[i].keeps /\ t.kept # "done" /\ IsJudged(body, i, t.at)
  BY <1>3, <1>4 DEF EarnedAt
<1>6. PICK j \in (t.at)..Len(body) :
        /\ body[j].do = "judge" /\ body[j].fine \subseteq Strictly
        /\ \A k \in (i + 1)..(j - 1) : ~ body[k].keeps
  BY <1>5 DEF IsJudged
<1>7. j \in (u.at)..Len(body)
  BY <1>0, <1>6
<1> QED BY <1>5, <1>6, <1>7 DEF IsJudged

\* A judgement the function goes on after is not strict, or all had ended well.
LEMMA EarnedByJudge ==
  ASSUME NEW body \in Seq(Steps), NEW strict \in BOOLEAN, strict => Earnest(body),
         NEW t, NEW u, t.at \in 1..Len(body), EarnedAt(body, strict, t),
         body[t.at].do = "judge", t.kept \in body[t.at].fine,
         u.at = t.at + 1, u.kept = t.kept, u.owed = t.owed, u.result = t.result
  PROVE  EarnedAt(body, strict, u)
<1>0. t.at \in Nat /\ Len(body) \in Nat /\ t.owed \subseteq {i \in 1..Len(body) : body[i].vital}
  BY DEF EarnedAt
<1> SUFFICES ASSUME strict, u.result = "success", NEW i \in t.owed, i < u.at
             PROVE  body[i].keeps /\ u.kept # "done" /\ IsJudged(body, i, u.at)
  BY <1>0 DEF EarnedAt
<1>1. i \in 1..Len(body) /\ body[i].vital /\ Earnest(body)
  BY <1>0
<1>2. i # t.at
  BY <1>0, <1>1 DEF Earnest
<1>3. i < t.at
  BY <1>0, <1>1, <1>2
<1>4. body[i].keeps /\ t.kept # "done" /\ IsJudged(body, i, t.at)
  BY <1>3 DEF EarnedAt
<1>5. PICK j \in (t.at)..Len(body) :
        /\ body[j].do = "judge" /\ body[j].fine \subseteq Strictly
        /\ \A k \in (i + 1)..(j - 1) : ~ body[k].keeps
  BY <1>4 DEF IsJudged
<1>6. j # t.at
  BY <1>4, <1>5 DEF Strictly
<1>7. j \in (u.at)..Len(body)
  BY <1>0, <1>5, <1>6
<1> QED BY <1>4, <1>5, <1>7 DEF IsJudged

\* The end of a process the function goes on after: it ended well, or its outcome is
\* kept for the judgement; no outcome that is still to be judged is lost.
LEMMA EarnedByCall ==
  ASSUME NEW body \in Seq(Steps), NEW strict \in BOOLEAN, strict => Earnest(body),
         NEW t, NEW u, t.at \in 1..Len(body), EarnedAt(body, strict, t),
         body[t.at].do = "call", NEW outcome \in body[t.at].fine,
         u.at = t.at + 1, u.result = t.result,
         u.kept = IF body[t.at].keeps THEN outcome ELSE t.kept,
         u.owed = IF outcome = "done" THEN t.owed \ {t.at} ELSE t.owed
  PROVE  EarnedAt(body, strict, u)
<1>0. t.at \in Nat /\ Len(body) \in Nat /\ t.owed \subseteq {i \in 1..Len(body) : body[i].vital}
      /\ u.owed \subseteq t.owed
  BY DEF EarnedAt
<1> SUFFICES ASSUME strict, u.result = "success", NEW i \in u.owed, i < u.at
             PROVE  body[i].keeps /\ u.kept # "done" /\ IsJudged(body, i, u.at)
  BY <1>0 DEF EarnedAt
<1>1. i \in 1..Len(body) /\ body[i].vital /\ Earnest(body) /\ i \in t.owed
  BY <1>0
<1>2. CASE i = t.at
  <2>1. outcome # "done"
    BY <1>2
  <2>2. ~ (body[i].fine \subseteq Strictly)
    BY <2>1, <1>2 DEF Strictly
  <2>3. body[i].keeps /\ IsJudged(body, i, i + 1)
    BY <2>2, <1>1 DEF Earnest
  <2> QED BY <2>1, <2>3, <1>2
<1>3. CASE i # t.at
  <2>1. i < t.at
    BY <1>0, <1>1, <1>3
  <2>2. body[i].keeps /\ t.kept # "done" /\ IsJudged(body, i, t.at)
    BY <2>1, <1>1 DEF EarnedAt
  <2>3. PICK j \in (t.at)..Len(body) :
          /\ body[j].do = "judge" /\ body[j].fine \subseteq Strictly
          /\ \A k \in (i + 1)..(j - 1) : ~ body[k].keeps
    BY <2>2 DEF IsJudged
  <2>4. j # t.at
    BY <2>3
  <2>5. j \in (u.at)..Len(body) /\ t.at \in (i + 1)..(j - 1)
    BY <1>0, <1>1, <2>1, <2>3, <2>4
  <2>6. u.kept = t.kept
    BY <2>3, <2>5
  <2> QED BY <2>2, <2>3, <2>5, <2>6 DEF IsJudged
<1> QED BY <1>2, <1>3

\* A step of f keeps what EarnedAt says of it.
LEMMA EarnedStep ==
  ASSUME TypeOK, NEW f \in team, EarnedAt(Body(f), f \notin Lenient[os], thread[f]),
         Begin(f) \/ Advance(f)
  PROVE  EarnedAt(Body(f), f \notin Lenient[os], thread'[f])
<1> DEFINE body == Body(f)
           t == thread[f]
           u == thread'[f]
           strict == f \notin Lenient[os]
<1>0. body \in Seq(Steps) /\ strict \in BOOLEAN /\ Len(body) \in Nat
      /\ t \in Threads /\ thread \in [team -> Threads]
  BY BodyType DEF TypeOK
<1>1. strict => Earnest(body)
  BY BodyType, LenientAssumption DEF TypeOK, Body
<1>2. EarnedAt(body, strict, t)
  OBVIOUS
<1>3. Running(f) => t.at \in 1..Len(body) /\ Here(f) = body[t.at]
  BY HereType
<1> HIDE DEF body, t, strict
<1> SUFFICES EarnedAt(body, strict, u)
  BY DEF body, strict
<1>4. ASSUME Running(f), Here(f).do \notin LockSteps, Returns(f, "failure")
      PROVE  EarnedAt(body, strict, u)
  <2>1. u.result = "failure" /\ u.owed = t.owed
    BY <1>4, ReturnsThread DEF t
  <2> QED BY <2>1, <1>2 DEF EarnedAt
<1>5. ASSUME Running(f), Here(f).do \notin {"call", "judge"}, GoesOn(f, thread[f])
      PROVE  EarnedAt(body, strict, u)
  <2>1. u.at = t.at + 1 /\ u.result = t.result /\ u.kept = t.kept /\ u.owed = t.owed
    BY <1>0, <1>5, GoesOnThread DEF t
  <2>. HIDE DEF u
  <2> QED BY <2>1, <1>0, <1>1, <1>2, <1>3, <1>5, EarnedOn
<1>6. CASE Begin(f)
  <2> DEFINE o == {i \in 1..Len(Body(f)) : Body(f)[i].vital}
             moved == [Idle EXCEPT !.at = 1, !.owed = o]
  <2>1. u = moved
    BY <1>0, <1>6 DEF Begin
  <2>2. u.owed = {i \in 1..Len(body) : body[i].vital} /\ u.at = 1
    BY <2>1 DEF Idle, body
  <2> HIDE DEF u
  <2> QED BY <2>2 DEF EarnedAt
<1>7. CASE TakeMutex(f)
  <2> DEFINE v == [thread[f] EXCEPT !.result = "success"]
  <2>1. v \in Threads /\ v.at = t.at /\ v.kept = t.kept /\ v.owed = t.owed
    BY <1>0 DEF Threads, t
  <2>2. GoesOn(f, v) /\ Running(f) /\ Here(f).do = "lock"
    BY <1>7 DEF TakeMutex, At
  <2> HIDE DEF v
  <2>3. u.at = t.at + 1 /\ u.kept = t.kept /\ u.owed = t.owed
    BY <2>1, <2>2, GoesOnThread
  <2> HIDE DEF u
  <2> QED BY <2>2, <2>3, <1>0, <1>1, <1>2, <1>3, EarnedOn
<1>8. CASE GiveMutexBack(f)
  BY <1>5, <1>8 DEF GiveMutexBack, At
<1>9. CASE Look(f)
  BY <1>4, <1>5, <1>9 DEF Look, At, LockSteps
<1>10. CASE CreateScript(f)
  BY <1>4, <1>5, <1>10 DEF CreateScript, At, LockSteps
<1>11. CASE WriteScript(f)
  BY <1>4, <1>5, <1>11 DEF WriteScript, At, LockSteps
<1>12. CASE EraseScript(f)
  BY <1>5, <1>12 DEF EraseScript, At
<1>13. ASSUME NEW outcome \in Outcomes, ProcessEnds(f, outcome)
       PROVE  EarnedAt(body, strict, u)
  <2>1. Running(f) /\ Here(f).do = "call"
    BY <1>13 DEF ProcessEnds, At
  <2>2. CASE outcome \in Here(f).fine /\ GoesOn(f, Told(f, outcome))
    <3> DEFINE v == Told(f, outcome)
    <3>1. v \in Threads /\ v.at = t.at
      BY <2>1, ToldType DEF t
    <3>2. /\ v.kept = IF Here(f).keeps THEN outcome ELSE t.kept
          /\ v.owed = IF outcome = "done" THEN t.owed \ {t.at} ELSE t.owed
          /\ v.result = t.result
      BY <1>0 DEF Told, Threads, t
    <3> HIDE DEF v
    <3>3. GoesOn(f, v)
      BY <2>2 DEF v
    <3>4. u.at = t.at + 1 /\ u.result = t.result /\ u.kept = v.kept /\ u.owed = v.owed
      BY <3>1, <3>2, <3>3, GoesOnThread
    <3>5. body[t.at].do = "call" /\ outcome \in body[t.at].fine /\ t.at \in 1..Len(body)
          /\ Here(f) = body[t.at]
      BY <2>1, <2>2, <1>3
    <3>6. /\ u.kept = IF body[t.at].keeps THEN outcome ELSE t.kept
          /\ u.owed = IF outcome = "done" THEN t.owed \ {t.at} ELSE t.owed
      BY <3>2, <3>4, <3>5
    <3> HIDE DEF u
    <3> QED BY <3>4, <3>5, <3>6, <1>0, <1>1, <1>2, EarnedByCall
  <2>3. CASE Returns(f, IF outcome \in Here(f).says THEN "success" ELSE "failure")
    <3>1. CASE strict
      <4>1. Here(f).says = {}
        BY <1>1, <1>3, <2>1, <3>1 DEF Earnest
      <4> QED BY <1>4, <2>1, <2>3, <4>1 DEF LockSteps
    <3>2. CASE ~ strict
      <4>1. u.owed = t.owed
        BY <2>1, <2>3, ReturnsThread DEF t, LockSteps
      <4> QED BY <4>1, <1>2, <3>2 DEF EarnedAt
    <3> QED BY <3>1, <3>2
  <2> QED BY <1>13, <2>2, <2>3 DEF ProcessEnds
<1>14. CASE JudgeOutcome(f)
  <2>1. Running(f) /\ Here(f).do = "judge"
    BY <1>14 DEF JudgeOutcome, At
  <2>2. CASE thread[f].kept \in Here(f).fine /\ GoesOn(f, thread[f])
    <3>1. u.at = t.at + 1 /\ u.result = t.result /\ u.kept = t.kept /\ u.owed = t.owed
      BY <1>0, <2>2, GoesOnThread DEF t
    <3>2. t.kept \in body[t.at].fine /\ body[t.at].do = "judge" /\ t.at \in 1..Len(body)
      BY <2>1, <2>2, <1>3 DEF t
    <3> HIDE DEF u
    <3> QED BY <3>1, <3>2, <1>0, <1>1, <1>2, EarnedByJudge
  <2>3. CASE Returns(f, "failure")
    BY <1>4, <2>1, <2>3 DEF LockSteps
  <2> QED BY <1>14, <2>2, <2>3 DEF JudgeOutcome
<1>15. CASE Report(f)
  <2>1. u = Idle
    BY <1>0, <1>15 DEF Report
  <2>2. u.owed = {}
    BY <2>1 DEF Idle
  <2> HIDE DEF u
  <2> QED BY <2>2 DEF EarnedAt
<1> QED BY <1>6, <1>7, <1>8, <1>9, <1>10, <1>11, <1>12, <1>13, <1>14, <1>15 DEF Advance

LEMMA EarnedInvStep == IInv /\ EarnedInv /\ [Next]_vars => EarnedInv'
<1> SUFFICES ASSUME IInv, EarnedInv, [Next]_vars PROVE EarnedInv'
  OBVIOUS
<1> USE DEF IInv
<1>1. CASE UNCHANGED vars
  BY <1>1 DEF EarnedInv, vars, Body
<1>2. CASE Next
  <2>1. PICK f \in team : Begin(f) \/ Advance(f)
    BY <1>2 DEF Next
  <2>2. Shape(f)
    BY <2>1, BeginShape, AdvanceShape
  <2>3. os' = os /\ team' = team /\ \A g \in team \ {f} : thread'[g] = thread[g]
    BY <2>2 DEF Shape, OnlyMoves
  <2>4. EarnedAt(Body(f), f \notin Lenient[os], thread'[f])
    BY <2>1, EarnedStep DEF EarnedInv
  <2>5. \A g \in team : EarnedAt(Body(g), g \notin Lenient[os], thread'[g])
    BY <2>3, <2>4 DEF EarnedInv
  <2> QED BY <2>3, <2>5 DEF EarnedInv, Body
<1> QED BY <1>1, <1>2

\* Whatever the outcomes of its processes and at whichever return it ends: a function
\* outside Lenient tells a success only when every process it was called for ended
\* well.
THEOREM EarnedSuccess == Spec => []SuccessIsEarned
<1>1. Init => EarnedInv
  BY DEF Init, EarnedInv, EarnedAt, Idle
<1>2. IInv /\ EarnedInv => SuccessIsEarned
  <2> SUFFICES ASSUME IInv, EarnedInv, NEW f \in team,
                      Ended(f), thread[f].result = "success", f \notin Lenient[os],
                      NEW i \in thread[f].owed
               PROVE  FALSE
    BY DEF SuccessIsEarned
  <2>1. Body(f) \in Seq(Steps) /\ Len(Body(f)) \in Nat
    BY BodyType DEF IInv
  <2>2. i \in 1..Len(Body(f)) /\ thread[f].at = Len(Body(f)) + 1
    BY DEF EarnedInv, EarnedAt, Ended
  <2>3. IsJudged(Body(f), i, Len(Body(f)) + 1)
    BY <2>1, <2>2 DEF EarnedInv, EarnedAt
  <2> QED BY <2>1, <2>3 DEF IsJudged
<1>3. Spec => []IInv
  BY Inductive
<1> QED BY <1>1, <1>2, <1>3, EarnedInvStep, PTL DEF Spec

----------------------------------------------------------------------------
\* The scripts.

\* Function f has written script s and not done with it.
Has(f, s) == Prepared(Body(f), thread[f].at, s)

\* Functions of one component are not at work together.
ApartInv ==
  \A f, g \in team : f # g /\ OfOneComponent(f, g) => thread[f].at = 0 \/ thread[g].at = 0

\* A script a function has is the one it wrote, and none stays when it has it no more.
ScriptsFollow ==
  \A f \in team, s \in Scripts :
    /\ Has(f, s) => scripts[s] = f
    /\ f # "install_vmware_utility" /\ scripts[s] = f => Has(f, s)

SInv == ApartInv /\ ScriptsFollow

\* A step on another thing, or none, leaves a script prepared or not as it was.
LEMMA PreparedStep ==
  ASSUME NEW body \in Seq(Steps), NEW i \in 1..Len(body), NEW s
  PROVE  /\ ~ (body[i].do \in ScriptSteps /\ body[i].on = s)
              => (Prepared(body, i + 1, s) <=> Prepared(body, i, s))
         /\ body[i].do = "write" /\ body[i].on = s => Prepared(body, i + 1, s)
         /\ body[i].do \in {"create", "erase"} /\ body[i].on = s => ~ Prepared(body, i + 1, s)
<1>0. (i + 1) - 1 = i /\ i \in Nat /\ i >= 1
  OBVIOUS
<1>1. ASSUME ~ (body[i].do \in ScriptSteps /\ body[i].on = s)
      PROVE  Prepared(body, i + 1, s) <=> Prepared(body, i, s)
  <2>1. ASSUME Prepared(body, i + 1, s) PROVE Prepared(body, i, s)
    <3>1. PICK w \in 1..i :
            /\ body[w].do = "write" /\ body[w].on = s
            /\ \A k \in (w + 1)..i : ~ (body[k].do \in ScriptSteps /\ body[k].on = s)
      BY <2>1, <1>0 DEF Prepared
    <3>2. w # i
      BY <3>1, <1>1 DEF ScriptSteps
    <3>3. w \in 1..(i - 1)
      BY <3>1, <3>2
    <3> QED BY <3>1, <3>3 DEF Prepared
  <2>2. ASSUME Prepared(body, i, s) PROVE Prepared(body, i + 1, s)
    <3>1. PICK w \in 1..(i - 1) :
            /\ body[w].do = "write" /\ body[w].on = s
            /\ \A k \in (w + 1)..(i - 1) : ~ (body[k].do \in ScriptSteps /\ body[k].on = s)
      BY <2>2 DEF Prepared
    <3>2. w \in 1..i /\ \A k \in (w + 1)..i : k \in (w + 1)..(i - 1) \/ k = i
      BY <3>1
    <3>3. \A k \in (w + 1)..i : ~ (body[k].do \in ScriptSteps /\ body[k].on = s)
      BY <3>1, <3>2, <1>1
    <3> QED BY <3>1, <3>2, <3>3, <1>0 DEF Prepared
  <2> QED BY <2>1, <2>2
<1>2. ASSUME body[i].do = "write", body[i].on = s PROVE Prepared(body, i + 1, s)
  <2>1. i \in 1..((i + 1) - 1) /\ (i + 1)..((i + 1) - 1) = {}
    BY <1>0
  <2> QED BY <1>2, <2>1 DEF Prepared
<1>3. ASSUME body[i].do \in {"create", "erase"}, body[i].on = s PROVE ~ Prepared(body, i + 1, s)
  <2> SUFFICES ASSUME NEW w \in 1..((i + 1) - 1), body[w].do = "write",
                      \A k \in (w + 1)..((i + 1) - 1) :
                        ~ (body[k].do \in ScriptSteps /\ body[k].on = s)
               PROVE  FALSE
    BY DEF Prepared
  <2>1. CASE w = i
    BY <1>3, <2>1
  <2>2. CASE w # i
    <3>1. i \in (w + 1)..((i + 1) - 1)
      BY <2>2
    <3> QED BY <1>3, <3>1 DEF ScriptSteps
  <2> QED BY <2>1, <2>2
<1> QED BY <1>1, <1>2, <1>3

\* No script is prepared before the first step and at it.
LEMMA PreparedStart == \A body, s : ~ Prepared(body, 0, s) /\ ~ Prepared(body, 1, s)
BY DEF Prepared

\* Nor after the last one.
LEMMA PreparedEnd ==
  ASSUME NEW body \in Seq(Steps), Orderly(body), NEW s \in Scripts
  PROVE  ~ Prepared(body, Len(body) + 1, s)
<1> DEFINE i == Len(body) + 1
<1>1. i \in 1..(Len(body) + 1) /\ ~ (i <= Len(body))
  OBVIOUS
<1> HIDE DEF i
<1>2. ~ Prepared(body, i, s)
  BY <1>1 DEF Orderly
<1> QED BY <1>2 DEF i

\* What is prepared is something the body touches.
LEMMA PreparedTouches ==
  ASSUME NEW body \in Seq(Steps), NEW i \in 0..(Len(body) + 1), NEW s, Prepared(body, i, s)
  PROVE  s \in Touches(body) /\ i # 0
<1>1. PICK w \in 1..(i - 1) : body[w].do = "write" /\ body[w].on = s
  BY DEF Prepared
<1>2. w \in 1..Len(body) /\ i # 0
  BY <1>1
<1> QED BY <1>1, <1>2 DEF Touches, ScriptSteps

----------------------------------------------------------------------------
\* What a step does to the scripts.

\* Function f leaves the script as it is, and has it no more than before.
LeavesIt(f, s) ==
  /\ scripts'[s] = scripts[s]
  /\ Prepared(Body(f), thread'[f].at, s) => Has(f, s)
  /\ Has(f, s) => Prepared(Body(f), thread'[f].at, s) \/ f = "install_vmware_utility"

\* It writes it, or makes an end of what was there.
SeesToIt(f, s) ==
  /\ s \in Touches(Body(f))
  /\ \/ scripts'[s] = f /\ Prepared(Body(f), thread'[f].at, s)
     \/ scripts'[s] \in {"unfinished", "absent"} /\ ~ Prepared(Body(f), thread'[f].at, s)

ScriptShape(f) == \A s \in Scripts : LeavesIt(f, s) \/ (thread[f].at # 0 /\ SeesToIt(f, s))

LEMMA ScriptBody ==
  ASSUME TypeOK, NEW f \in team
  PROVE  Orderly(Body(f)) /\ (f # "install_vmware_utility" => CleansUp(Body(f)))
BY BodyType, ScriptsAssumption DEF TypeOK, Body

\* A function that goes on with a step that is not on a script leaves them all.
LEMMA GoesOnScripts ==
  ASSUME TypeOK, NEW f \in team, Running(f), Here(f).do \notin ScriptSteps,
         thread'[f].at = thread[f].at + 1, UNCHANGED scripts
  PROVE  ScriptShape(f)
BY HereType, BodyType, PreparedStep DEF ScriptShape, LeavesIt, Has

\* A function that returns leaves the scripts; it has none, and had none but the utility's.
LEMMA ReturnsScripts ==
  ASSUME TypeOK, NEW f \in team, Running(f), Here(f).do \notin LockSteps, CanReturn(Here(f)),
         NEW told, Returns(f, told), UNCHANGED scripts
  PROVE  ScriptShape(f)
<1> SUFFICES ASSUME NEW s \in Scripts PROVE LeavesIt(f, s)
  BY DEF ScriptShape
<1>1. PICK exit \in 1..(Len(Body(f)) + 1) :
        /\ exit <= Len(Body(f)) => Body(f)[exit].do \in LockSteps
        /\ \/ thread'[f].at = exit
           \/ exit <= Len(Body(f)) /\ thread'[f].at = exit + 1
  BY ReturnsThread
<1>2. Body(f) \in Seq(Steps) /\ Orderly(Body(f)) /\ Len(Body(f)) \in Nat
  BY BodyType, ScriptBody
<1>3. ~ Prepared(Body(f), exit, s)
  BY <1>1, <1>2 DEF Orderly
<1>4. exit <= Len(Body(f)) => ~ Prepared(Body(f), exit + 1, s)
  <2> SUFFICES ASSUME exit <= Len(Body(f)) PROVE ~ Prepared(Body(f), exit + 1, s)
    OBVIOUS
  <2>1. exit \in 1..Len(Body(f)) /\ Body(f)[exit].do \notin ScriptSteps
    BY <1>1, <1>2 DEF LockSteps, ScriptSteps
  <2> QED BY <2>1, <1>2, <1>3, PreparedStep
<1>5. ~ Prepared(Body(f), thread'[f].at, s)
  BY <1>1, <1>3, <1>4
<1>6. f # "install_vmware_utility" => ~ Has(f, s)
  BY HereType, ScriptBody DEF CleansUp, Has
<1> QED BY <1>5, <1>6 DEF LeavesIt

LEMMA StepScripts ==
  ASSUME TypeOK, NEW f \in team, Begin(f) \/ Advance(f)
  PROVE  ScriptShape(f)
<1>0. /\ Body(f) \in Seq(Steps) /\ Len(Body(f)) \in Nat
      /\ thread \in [team -> Threads] /\ thread[f] \in Threads
      /\ scripts \in [Scripts -> {"absent", "unfinished"} \cup team]
  BY BodyType DEF TypeOK
<1>1. Running(f) => /\ thread[f].at \in 1..Len(Body(f)) /\ Here(f) = Body(f)[thread[f].at]
  BY HereType
<1>2. GoesOn(f, thread[f]) => thread'[f].at = thread[f].at + 1
  BY <1>0, GoesOnThread
<1>3. ASSUME Running(f), Here(f).do \in ScriptSteps, GoesOn(f, thread[f]),
             NEW v \in {"unfinished", "absent", f},
             v = f <=> Here(f).do = "write",
             scripts' = [scripts EXCEPT ![Here(f).on] = v]
      PROVE  ScriptShape(f)
  <2> SUFFICES ASSUME NEW s \in Scripts
               PROVE  LeavesIt(f, s) \/ (thread[f].at # 0 /\ SeesToIt(f, s))
    BY DEF ScriptShape
  <2>1. thread'[f].at = thread[f].at + 1 /\ thread[f].at \in 1..Len(Body(f))
        /\ Here(f) = Body(f)[thread[f].at] /\ thread[f].at # 0
    BY <1>1, <1>2, <1>3
  <2>2. CASE Here(f).on = s
    <3>1. scripts'[s] = v
      BY <1>0, <1>3, <2>2
    <3>2. s \in Touches(Body(f))
      BY <1>3, <2>1, <2>2 DEF Touches
    <3>3. CASE Here(f).do = "write"
      <4>1. Prepared(Body(f), thread'[f].at, s)
        BY <1>0, <2>1, <2>2, <3>3, PreparedStep
      <4> QED BY <1>3, <2>1, <3>1, <3>2, <3>3, <4>1 DEF SeesToIt
    <3>4. CASE Here(f).do \in {"create", "erase"}
      <4>1. ~ Prepared(Body(f), thread'[f].at, s)
        <5> DEFINE i == thread[f].at
        <5>1. Body(f)[i].do \in {"create", "erase"} /\ Body(f)[i].on = s /\ i \in 1..Len(Body(f))
          BY <2>1, <2>2, <3>4
        <5>2. ~ Prepared(Body(f), i + 1, s)
          BY <1>0, <5>1, PreparedStep
        <5> QED BY <2>1, <5>2
      <4>2. Here(f).do # "write"
        BY <3>4
      <4>3. v # f
        BY <1>3, <4>2
      <4>4. scripts'[s] \in {"unfinished", "absent"}
        BY <1>3, <3>1, <4>3
      <4> QED BY <2>1, <3>2, <4>1, <4>4 DEF SeesToIt
    <3> QED BY <1>3, <3>3, <3>4 DEF ScriptSteps
  <2>3. CASE Here(f).on # s
    <3>1. scripts'[s] = scripts[s]
      BY <1>0, <1>3, <2>3
    <3>2. Prepared(Body(f), thread'[f].at, s) <=> Has(f, s)
      BY <1>0, <2>1, <2>3, PreparedStep DEF Has
    <3> QED BY <3>1, <3>2 DEF LeavesIt
  <2> QED BY <2>2, <2>3
<1>4. f \notin {"unfinished", "absent"}
  BY BodyType, NobodyAssumption
<1>5. CASE Begin(f)
  <2> DEFINE moved == [Idle EXCEPT !.at = 1, !.owed = {i \in 1..Len(Body(f)) : Body(f)[i].vital}]
  <2>1. thread' = [thread EXCEPT ![f] = moved] /\ UNCHANGED scripts /\ thread[f].at = 0
    BY <1>5 DEF Begin
  <2>2. moved.at = 1
    BY DEF Idle
  <2> HIDE DEF moved
  <2>3. thread'[f].at = 1
    BY <2>1, <2>2, <1>0
  <2> QED BY <2>1, <2>3, PreparedStart DEF ScriptShape, LeavesIt, Has
<1>6. CASE TakeMutex(f)
  <2> DEFINE v == [thread[f] EXCEPT !.result = "success"]
  <2>1. v \in Threads /\ v.at = thread[f].at
    BY <1>0 DEF Threads
  <2>2. GoesOn(f, v) /\ Running(f) /\ Here(f).do = "lock" /\ UNCHANGED scripts
    BY <1>6 DEF TakeMutex, At
  <2> HIDE DEF v
  <2>3. thread'[f].at = thread[f].at + 1
    BY <2>1, <2>2, GoesOnThread
  <2> QED BY <2>2, <2>3, GoesOnScripts DEF ScriptSteps
<1>7. CASE GiveMutexBack(f)
  BY <1>2, <1>7, GoesOnScripts DEF GiveMutexBack, At, ScriptSteps
<1>8. CASE Look(f)
  BY <1>2, <1>8, GoesOnScripts, ReturnsScripts DEF Look, At, ScriptSteps, LockSteps, CanReturn
<1>9. CASE CreateScript(f)
  <2>1. Running(f) /\ Here(f).do = "create"
    BY <1>9 DEF CreateScript, At
  <2>2. CASE GoesOn(f, thread[f]) /\ scripts' = [scripts EXCEPT ![Here(f).on] = "unfinished"]
    BY <1>3, <1>4, <2>1, <2>2 DEF ScriptSteps
  <2>3. CASE Returns(f, "failure") /\ UNCHANGED scripts
    BY <2>1, <2>3, ReturnsScripts DEF LockSteps, CanReturn
  <2> QED BY <1>9, <2>2, <2>3 DEF CreateScript
<1>10. CASE WriteScript(f)
  <2>1. Running(f) /\ Here(f).do = "write"
    BY <1>10 DEF WriteScript, At
  <2>2. CASE GoesOn(f, thread[f]) /\ scripts' = [scripts EXCEPT ![Here(f).on] = f]
    BY <1>3, <1>4, <2>1, <2>2 DEF ScriptSteps
  <2>3. CASE Returns(f, "failure") /\ UNCHANGED scripts
    BY <2>1, <2>3, ReturnsScripts DEF LockSteps, CanReturn
  <2> QED BY <1>10, <2>2, <2>3 DEF WriteScript
<1>11. CASE EraseScript(f)
  <2>1. Running(f) /\ Here(f).do = "erase" /\ GoesOn(f, thread[f])
        /\ scripts' = [scripts EXCEPT ![Here(f).on] = "absent"]
    BY <1>11 DEF EraseScript, At
  <2> QED BY <1>3, <1>4, <2>1 DEF ScriptSteps
<1>12. ASSUME NEW outcome \in Outcomes, ProcessEnds(f, outcome) PROVE ScriptShape(f)
  <2>1. Running(f) /\ Here(f).do = "call" /\ UNCHANGED scripts
    BY <1>12 DEF ProcessEnds, At
  <2>2. CASE GoesOn(f, Told(f, outcome))
    <3>1. thread'[f].at = thread[f].at + 1
      BY <2>1, <2>2, ToldType, GoesOnThread
    <3> QED BY <2>1, <3>1, GoesOnScripts DEF ScriptSteps
  <2>3. CASE /\ outcome \notin Here(f).fine \ Here(f).says
             /\ Returns(f, IF outcome \in Here(f).says THEN "success" ELSE "failure")
    <3>1. CanReturn(Here(f))
      BY <2>1, <2>3 DEF CanReturn
    <3> QED BY <2>1, <2>3, <3>1, ReturnsScripts DEF LockSteps
  <2> QED BY <1>12, <2>2, <2>3 DEF ProcessEnds
<1>13. CASE JudgeOutcome(f)
  BY <1>2, <1>13, GoesOnScripts, ReturnsScripts
     DEF JudgeOutcome, At, ScriptSteps, LockSteps, CanReturn
<1>14. CASE Report(f)
  <2>1. thread'[f] = Idle /\ UNCHANGED scripts /\ thread[f].at = Len(Body(f)) + 1
    BY <1>0, <1>14 DEF Report, Ended
  <2>2. thread'[f].at = 0
    BY <2>1 DEF Idle
  <2>3. \A s \in Scripts : ~ Has(f, s)
    BY <1>0, <2>1, ScriptBody, PreparedEnd DEF Has
  <2> QED BY <2>1, <2>2, <2>3, PreparedStart DEF ScriptShape, LeavesIt
<1> QED BY <1>5, <1>6, <1>7, <1>8, <1>9, <1>10, <1>11, <1>12, <1>13, <1>14 DEF Advance

----------------------------------------------------------------------------
\* The invariant of the scripts.

\* A component's function begins when none of it is at work, so those that share the
\* name of a script are apart.
LEMMA ApartStep ==
  ASSUME TypeOK, ApartInv, [Next]_vars
  PROVE  ApartInv'
<1>1. CASE UNCHANGED vars
  BY <1>1 DEF ApartInv, vars
<1>2. CASE Next
  <2>1. PICK f \in team : Begin(f) \/ Advance(f)
    BY <1>2 DEF Next
  <2>2. team' = team /\ \A g \in team \ {f} : thread'[g] = thread[g]
    BY <2>1, BeginShape, AdvanceShape DEF Shape, OnlyMoves
  <2>3. \A g \in team \ {f} :
          OfOneComponent(f, g) \/ OfOneComponent(g, f) => thread[g].at = 0 \/ thread[f].at = 0
    BY DEF ApartInv
  <2>4. CASE Begin(f)
    <3>1. \A g \in team : OfOneComponent(f, g) \/ OfOneComponent(g, f) => thread[g].at = 0
      BY <2>4 DEF Begin, Excluded, OfOneComponent
    <3> QED BY <2>2, <3>1 DEF ApartInv
  <2>5. CASE Advance(f)
    <3>1. thread[f].at # 0
      BY <2>5, BodyType DEF Advance, TakeMutex, GiveMutexBack, Look, CreateScript, WriteScript,
         EraseScript, ProcessEnds, JudgeOutcome, Report, At, Running, Ended
    <3> QED BY <2>2, <3>1 DEF ApartInv
  <2> QED BY <2>1, <2>4, <2>5
<1> QED BY <1>1, <1>2

LEMMA FollowStep ==
  ASSUME TypeOK, SInv, [Next]_vars
  PROVE  ScriptsFollow'
<1> USE DEF SInv
<1>1. CASE UNCHANGED vars
  BY <1>1 DEF ScriptsFollow, vars, Has, Body
<1>2. CASE Next
  <2>1. PICK f \in team : Begin(f) \/ Advance(f)
    BY <1>2 DEF Next
  <2>2. os' = os /\ team' = team /\ \A g \in team \ {f} : thread'[g] = thread[g]
    BY <2>1, BeginShape, AdvanceShape DEF Shape, OnlyMoves
  <2>3. \A g \in team, s \in Scripts : Has(g, s)' <=> Prepared(Body(g), thread'[g].at, s)
    BY <2>2 DEF Has, Body
  <2>4. \A g \in team \ {f}, s \in Scripts : Has(g, s)' <=> Has(g, s)
    BY <2>2 DEF Has, Body
  <2> SUFFICES ASSUME NEW g \in team, NEW s \in Scripts
               PROVE  /\ Has(g, s)' => scripts'[s] = g
                      /\ g # "install_vmware_utility" /\ scripts'[s] = g => Has(g, s)'
    BY <2>2 DEF ScriptsFollow
  <2>5. CASE LeavesIt(f, s)
    <3>1. CASE g = f
      BY <2>3, <2>5, <3>1 DEF LeavesIt, ScriptsFollow
    <3>2. CASE g # f
      BY <2>4, <2>5, <3>2 DEF LeavesIt, ScriptsFollow
    <3> QED BY <3>1, <3>2
  <2>6. CASE thread[f].at # 0 /\ SeesToIt(f, s)
    <3>1. g \notin {"unfinished", "absent"}
      BY BodyType, NobodyAssumption
    <3>2. CASE g = f
      BY <2>3, <2>6, <3>1, <3>2 DEF SeesToIt
    <3>3. CASE g # f
      <4>1. scripts'[s] # g
        BY <2>6, <3>1, <3>3 DEF SeesToIt
      <4>2. ~ Has(g, s)
        <5> SUFFICES ASSUME Has(g, s) PROVE FALSE
          OBVIOUS
        <5>1. thread[g].at \in 0..(Len(Body(g)) + 1) /\ Body(g) \in Seq(Steps)
          BY BodyType DEF TypeOK, Threads
        <5>2. s \in Touches(Body(g)) /\ thread[g].at # 0
          BY <5>1, PreparedTouches DEF Has
        <5>3. s \in Touches(Body(f))
          BY <2>6 DEF SeesToIt
        <5>4. f \in Functions /\ g \in Functions /\ os \in Systems
          BY BodyType DEF TypeOK
        <5>5. OfOneComponent(f, g)
          BY <5>2, <5>3, <5>4, <3>3, ScriptsAssumption DEF Body
        <5> QED BY <2>6, <3>3, <5>2, <5>5 DEF ApartInv
      <4> QED BY <2>4, <3>3, <4>1, <4>2
    <3> QED BY <3>2, <3>3
  <2> QED BY <2>1, <2>5, <2>6, StepScripts DEF ScriptShape
<1> QED BY <1>1, <1>2

LEMMA ScriptsInductive == Spec => [](TypeOK /\ SInv)
<1>1. Init => SInv
  <2> SUFFICES ASSUME Init PROVE SInv
    OBVIOUS
  <2>1. \A f \in team : thread[f].at = 0 /\ f # "absent"
    BY TeamsAssumption, NobodyAssumption DEF Init, Idle
  <2>2. ApartInv
    BY <2>1 DEF ApartInv
  <2>3. ScriptsFollow
    BY <2>1, PreparedStart DEF Init, ScriptsFollow, Has
  <2> QED BY <2>2, <2>3 DEF SInv
<1>2. TypeOK /\ SInv /\ [Next]_vars => SInv'
  BY ApartStep, FollowStep DEF SInv
<1> QED BY <1>1, <1>2, TypeCorrect, PTL DEF Spec

\* However the functions are interleaved and fail: what pkexec is told to run as root
\* is, byte for byte, what the same run of the function has written.
THEOREM OwnScripts == Spec => []ScriptIsItsOwn
<1>1. TypeOK /\ SInv => ScriptIsItsOwn
  <2> SUFFICES ASSUME TypeOK, SInv, NEW f \in team, At(f, "call"), Here(f).on # ""
               PROVE  scripts[Here(f).on] = f
    BY DEF ScriptIsItsOwn
  <2>1. Here(f).on \in Scripts /\ Has(f, Here(f).on)
    BY HereType, ScriptBody DEF At, Orderly, Has
  <2> QED BY <2>1 DEF SInv, ScriptsFollow
<1> QED BY <1>1, ScriptsInductive, PTL

\* At whichever return a function ends, the script it wrote is no more there.
THEOREM ScriptsCleaned == Spec => []NoScriptLeft
<1>1. TypeOK /\ SInv => NoScriptLeft
  <2> SUFFICES ASSUME TypeOK, SInv, NEW f \in team, NEW s \in Scripts, Ended(f), scripts[s] = f,
                      f # "install_vmware_utility"
               PROVE  FALSE
    BY DEF NoScriptLeft
  <2>1. Has(f, s)
    BY DEF SInv, ScriptsFollow
  <2>2. ~ Prepared(Body(f), Len(Body(f)) + 1, s)
    BY BodyType, ScriptBody, PreparedEnd
  <2> QED BY <2>1, <2>2 DEF Has, Ended
<1> QED BY <1>1, ScriptsInductive, PTL

=============================================================================
