--------------------------- MODULE TrayPartsProofs ---------------------------
(***************************************************************************)
(* Proofs about the parts of Control Center that MCTrayParts puts in one   *)
(* run, for any values of their constants: what each run property says of  *)
(* its part is a theorem of TraySpec.                                      *)
(*                                                                         *)
(* The parts whose proofs are long have modules of their own; here are the *)
(* theorems of the other four, about any behaviour of that part alone:     *)
(* the executable that is replaced, the lists of swarms and jobs, the      *)
(* window of keys and the menu of environments.  Then: a behaviour of      *)
(* TraySpec is, for each part, a behaviour of its own specification, or    *)
(* the part never leaves where it began (Parts); so every theorem about a  *)
(* part is one about the composition.                                      *)
(***************************************************************************)
EXTENDS MCTrayParts, InstallersProofs, SequenceTheorems, FiniteSetTheorems

----------------------------------------------------------------------------
\* Lists of keys and of jobs.

\* The modules of the parts take these operators from the community modules, each by
\* an instance of its own.
LEMMA SameOperators ==
  ASSUME NEW s, NEW x, NEW S
  PROVE  /\ Dialog!RemoveFirst(s, x) = Ssh!RemoveFirst(s, x)
         /\ Dialog!SetToSeqs(S) = Ssh!Arrangements(S)
         /\ P2P!SetToSeqs(S) = Ssh!Arrangements(S)
         /\ Ssh!IsFiniteSet(S) = IsFiniteSet(S)
<1>1. Dialog!RemoveFirst(s, x) = Ssh!RemoveFirst(s, x)
  BY DEF Dialog!RemoveFirst, Dialog!RemoveAt, Dialog!SelectInSeq, Dialog!Min,
         Ssh!RemoveFirst, Ssh!RemoveAt, Ssh!SelectInSeq, Ssh!Min
<1>2. Dialog!SetToSeqs(S) = Ssh!Arrangements(S)
  BY DEF Dialog!SetToSeqs, Dialog!Cardinality, Ssh!Arrangements, Ssh!Cardinality
<1>3. P2P!SetToSeqs(S) = Ssh!Arrangements(S)
  BY DEF P2P!SetToSeqs, P2P!Cardinality, Ssh!Arrangements, Ssh!Cardinality
<1>4. Ssh!IsFiniteSet(S) = IsFiniteSet(S)
  BY DEF Ssh!IsFiniteSet, IsFiniteSet
<1> QED BY <1>1, <1>2, <1>3, <1>4

\* A list of everything in a finite set, in some order.
LEMMA ListedFacts ==
  ASSUME NEW S, IsFiniteSet(S), NEW s \in Ssh!Arrangements(S)
  PROVE  s \in Seq(S) /\ Dialog!IsInjective(s) /\ Dialog!ToSet(s) = S
<1>1. s \in Seq(S) /\ Ssh!NoTwice(s) /\ Ssh!Elements(s) = S
  BY SameOperators, Ssh!ArrangementFacts
<1> QED BY <1>1 DEF Ssh!NoTwice, Ssh!Elements, Dialog!IsInjective, Dialog!ToSet

\* One list after another, with nothing in both.
LEMMA JoinedFacts ==
  ASSUME NEW K, NEW s \in Seq(K), NEW t \in Seq(K), Dialog!IsInjective(s),
         Dialog!IsInjective(t), Dialog!ToSet(s) \cap Dialog!ToSet(t) = {}
  PROVE  /\ s \o t \in Seq(K) /\ Dialog!IsInjective(s \o t)
         /\ Dialog!ToSet(s \o t) = Dialog!ToSet(s) \cup Dialog!ToSet(t)
<1>1. \A l : /\ Dialog!ToSet(l) = Ssh!Elements(l)
             /\ Dialog!IsInjective(l) <=> Ssh!NoTwice(l)
  BY DEF Ssh!NoTwice, Ssh!Elements, Dialog!IsInjective, Dialog!ToSet
<1> QED BY <1>1, Ssh!ConcatFacts

\* A list without one of its keys.
LEMMA TakenFacts ==
  ASSUME NEW K, NEW s \in Seq(K), Dialog!IsInjective(s), NEW x
  PROVE  /\ Dialog!RemoveFirst(s, x) \in Seq(K) /\ Dialog!IsInjective(Dialog!RemoveFirst(s, x))
         /\ Dialog!ToSet(Dialog!RemoveFirst(s, x)) = Dialog!ToSet(s) \ {x}
<1>1. \A l : /\ Dialog!ToSet(l) = Ssh!Elements(l)
             /\ Dialog!IsInjective(l) <=> Ssh!NoTwice(l)
  BY DEF Ssh!NoTwice, Ssh!Elements, Dialog!IsInjective, Dialog!ToSet
<1>2. Dialog!RemoveFirst(s, x) = Ssh!RemoveFirst(s, x)
  BY SameOperators
<1> QED BY <1>1, <1>2, Ssh!RemoveFirstFacts

----------------------------------------------------------------------------
\* The swarms: what is queued are jobs, and what arrives are results of jobs.

LEMMA QueuedFacts ==
  ASSUME NEW kind \in {"join", "leave", "check"}, NEW envs \in SUBSET Envs,
         NEW list \in P2P!Queued(kind, envs)
  PROVE  list \in Seq(P2P!Jobs)
<1> DEFINE S == {[do |-> kind, env |-> e] : e \in envs}
           f == [e \in envs |-> [do |-> kind, env |-> e]]
<1>1. f \in Surjection(envs, S)
  BY DEF Surjection
<1>2. IsFiniteSet(envs)
  BY EnvsAssumption, FS_Subset
<1>3. S \subseteq P2P!Jobs
  BY DEF P2P!Jobs
<1>4. list \in Ssh!Arrangements(S)
  BY SameOperators DEF P2P!Queued
<1> HIDE DEF S, f
<1>5. IsFiniteSet(S)
  BY <1>1, <1>2, FS_Surjection
<1>6. list \in Seq(S)
  BY <1>4, <1>5, ListedFacts
<1> QED BY <1>3, <1>6, SeqMonotonic

LEMMA RoundStep ==
  ASSUME P2P!TypeOK, P2P!Round \/ P2P!HubChanges \/ P2P!DaemonChanges
  PROVE  P2P!TypeOK'
<1>1. CASE P2P!RoundBegins
  BY <1>1 DEF P2P!RoundBegins, P2P!TypeOK
<1>2. CASE P2P!SwarmsAreShown
  BY <1>2 DEF P2P!SwarmsAreShown, P2P!TypeOK
<1>3. CASE P2P!RoundEnds
  <2>1. PICK joins \in P2P!Queued("join", healthy \ joined_swarms),
             checks_ \in P2P!Queued("check", hub \cap joined_swarms),
             leaves \in P2P!Queued("leave", P2P!ToLeave) :
          jobs' = jobs \o joins \o checks_ \o leaves
    BY <1>3 DEF P2P!RoundEnds
  <2>2. /\ healthy \ joined_swarms \in SUBSET Envs /\ hub \cap joined_swarms \in SUBSET Envs
        /\ P2P!ToLeave \in SUBSET Envs
    BY DEF P2P!TypeOK, P2P!ToLeave
  <2>3. /\ joins \in Seq(P2P!Jobs) /\ checks_ \in Seq(P2P!Jobs) /\ leaves \in Seq(P2P!Jobs)
    BY <2>2, QueuedFacts
  <2>4. jobs' \in Seq(P2P!Jobs)
    <3>1. jobs \in Seq(P2P!Jobs)
      BY DEF P2P!TypeOK
    <3> QED BY <2>1, <2>3, <3>1, ConcatProperties
  <2>5. /\ round' = "waiting" /\ joined_swarms' = {} /\ connected_envs' \subseteq Envs
        /\ UNCHANGED <<hub, healthy, daemon, swarms, results, connected_conts>>
    BY <1>3 DEF P2P!RoundEnds, P2P!TypeOK
  <2> QED BY <2>4, <2>5 DEF P2P!TypeOK
<1>4. CASE P2P!HubChanges
  BY <1>4 DEF P2P!HubChanges, P2P!TypeOK
<1>5. CASE P2P!DaemonChanges
  BY <1>5 DEF P2P!DaemonChanges, P2P!TypeOK, P2P!main
<1> QED BY <1>1, <1>2, <1>3, <1>4, <1>5 DEF P2P!Round

LEMMA JobStep ==
  ASSUME P2P!TypeOK, P2P!Job \/ P2P!JobFails
  PROVE  P2P!TypeOK'
<1>1. jobs # <<>>
  BY DEF P2P!Job, P2P!Join, P2P!Leave, P2P!Check, P2P!NoDaemon, P2P!JobFails
<1>2. Head(jobs) \in P2P!Jobs /\ Tail(jobs) \in Seq(P2P!Jobs)
  BY <1>1, HeadTailProperties DEF P2P!TypeOK
<1>3. Head(jobs).env \in Envs /\ Head(jobs).do \in {"join", "leave", "check"}
  BY <1>2 DEF P2P!Jobs
<1>4. \E success \in BOOLEAN, in \in SUBSET Envs : P2P!JobIsDone(success, in)
  <2>1. swarms \in SUBSET Envs
    BY DEF P2P!TypeOK
  <2>2. /\ swarms \cup {Head(jobs).env} \in SUBSET Envs
        /\ swarms \ {Head(jobs).env} \in SUBSET Envs
    BY <1>3, <2>1
  <2>3. CASE P2P!Join
    BY <2>2, <2>3 DEF P2P!Join
  <2>4. CASE P2P!Leave
    BY <2>2, <2>4 DEF P2P!Leave
  <2>5. CASE P2P!Check
    <3>1. P2P!JobIsDone(Head(jobs).env \in swarms, swarms)
      BY <2>5 DEF P2P!Check
    <3>2. (Head(jobs).env \in swarms) \in BOOLEAN
      OBVIOUS
    <3> QED BY <2>1, <3>1, <3>2, Zenon
  <2>6. CASE P2P!JobFails
    BY <2>1, <2>2, <2>6 DEF P2P!JobFails
  <2> QED BY <2>3, <2>4, <2>5, <2>6 DEF P2P!Job, P2P!NoDaemon
<1>5. PICK success \in BOOLEAN, in \in SUBSET Envs : P2P!JobIsDone(success, in)
  BY <1>4
<1> DEFINE r == [do |-> Head(jobs).do, env |-> Head(jobs).env, success |-> success]
<1>6. r \in P2P!Results
  BY <1>3 DEF P2P!Results
<1>7. results' \in Seq(P2P!Results)
  <2>1. results' = Append(results, r) /\ results \in Seq(P2P!Results)
    BY <1>5 DEF P2P!JobIsDone, P2P!TypeOK
  <2> HIDE DEF r
  <2> QED BY <1>6, <2>1, AppendProperties
<1>8. /\ jobs' = Tail(jobs) /\ swarms' = in
      /\ UNCHANGED <<hub, healthy, round, joined_swarms, connected_envs, connected_conts,
                     daemon>>
  BY <1>5 DEF P2P!JobIsDone, P2P!main
<1> QED BY <1>2, <1>7, <1>8 DEF P2P!TypeOK

\* Rounds of update_status, jobs of the pool and slots of their results, in any order:
\* what is joined, shown and queued is of environments, and the healthy ones are the
\* Hub's.
THEOREM SwarmsTypeCorrect == P2P!Spec => []P2P!TypeOK
<1>1. P2P!Init => P2P!TypeOK
  <2>1. <<>> \in Seq(P2P!Jobs) /\ <<>> \in Seq(P2P!Results)
    BY EmptySeq
  <2> QED BY <2>1 DEF P2P!Init, P2P!TypeOK
<1>2. P2P!TypeOK /\ [P2P!Next]_P2P!vars => P2P!TypeOK'
  <2> SUFFICES ASSUME P2P!TypeOK, [P2P!Next]_P2P!vars PROVE P2P!TypeOK'
    OBVIOUS
  <2>1. CASE P2P!ResultArrives
    <3>1. Head(results) \in P2P!Results /\ Tail(results) \in Seq(P2P!Results)
      BY <2>1, HeadTailProperties DEF P2P!ResultArrives, P2P!TypeOK
    <3> DEFINE r == Head(results)
    <3>2. r.env \in Envs /\ r.do \in {"join", "leave", "check"}
      BY <3>1 DEF P2P!Results
    <3>3. /\ connected_envs' = CASE r.do = "join"  -> P2P!With(connected_envs, r.env, r.success)
                                 [] r.do = "leave" -> connected_envs \ {r.env}
                                 [] r.do = "check" -> connected_envs
          /\ connected_conts' = IF r.do = "check"
                                  THEN P2P!With(connected_conts, r.env, r.success)
                                  ELSE connected_conts
      BY <2>1 DEF P2P!ResultArrives
    <3>4. connected_envs' \subseteq Envs /\ connected_conts' \subseteq Envs
      <4> HIDE DEF r
      <4> QED BY <3>2, <3>3 DEF P2P!TypeOK, P2P!With
    <3> QED BY <2>1, <3>1, <3>4 DEF P2P!ResultArrives, P2P!TypeOK
  <2>2. CASE UNCHANGED P2P!vars
    BY <2>2 DEF P2P!vars, P2P!TypeOK
  <2>3. CASE P2P!Round \/ P2P!HubChanges \/ P2P!DaemonChanges
    BY <2>3, RoundStep
  <2>4. CASE P2P!Job \/ P2P!JobFails
    BY <2>4, JobStep
  <2> QED BY <2>1, <2>2, <2>3, <2>4 DEF P2P!Next, P2P!Disturbs
<1> QED BY <1>1, <1>2, PTL DEF P2P!Spec

----------------------------------------------------------------------------
\* The executable that is replaced.

\* A file that is not there is None, and nothing else.
Present ==
  /\ dst # Executable!None => dst.is # "none"
  /\ tmp # Executable!None => tmp.is # "none"

\* Until the old executable is renamed, it is there, in its place.
Untouched == call \in {"remove", "rename"} => dst.is # "none" /\ dst = before

\* setPermissions is for the copy.
Copied == call = "permit" => dst = [is |-> "dead", new |-> TRUE]

\* The mode that was read is the one of the executable there was.
ModeOfBefore == perm <=> (before.is # "dead")

\* What is under way has not been told.
NotTold == call # "waiting" => finished = "nothing"

ExecutableInv ==
  /\ Executable!TypeOK
  /\ Present /\ Untouched /\ Copied /\ ModeOfBefore /\ NotTold
  /\ Executable!SuccessIsWhole

LEMMA FileFacts ==
  /\ Executable!None \in Executable!File /\ Executable!None.is = "none"
  /\ \A runs \in BOOLEAN : Executable!Mode(runs) \in {"runs", "dead"}
  /\ \A is \in {"none", "runs", "dead"}, new \in BOOLEAN :
       /\ [is |-> is, new |-> new] \in Executable!File
       /\ [is |-> is, new |-> new].is = is /\ [is |-> is, new |-> new].new = new
  /\ \A file \in Executable!File :
       /\ file.is \in {"none", "runs", "dead"} /\ file.new \in BOOLEAN
       /\ file = [is |-> file.is, new |-> file.new]
BY DEF Executable!None, Executable!File, Executable!Mode

LEMMA ExecutableBegins == Executable!Init => ExecutableInv
<1> SUFFICES ASSUME Executable!Init PROVE ExecutableInv
  OBVIOUS
<1>1. /\ dst \in Executable!File /\ before \in Executable!File /\ tmp \in Executable!File
      /\ before.is # "dead"
  BY FileFacts DEF Executable!Init
<1>2. perm \in BOOLEAN /\ perm
  BY DEF Executable!Init
<1>3. Executable!TypeOK
  BY <1>1, <1>2 DEF Executable!Init, Executable!TypeOK
<1>4. Present /\ Untouched /\ Copied /\ NotTold /\ Executable!SuccessIsWhole
  BY DEF Executable!Init, Present, Executable!None, Untouched, Copied, NotTold,
         Executable!SuccessIsWhole
<1>5. ModeOfBefore
  BY <1>1, <1>2 DEF ModeOfBefore
<1> QED BY <1>3, <1>4, <1>5 DEF ExecutableInv

LEMMA ExecutableStep == ExecutableInv /\ [Executable!Next]_Executable!vars => ExecutableInv'
<1> SUFFICES ASSUME ExecutableInv, [Executable!Next]_Executable!vars PROVE ExecutableInv'
  OBVIOUS
<1> DEFINE Call == Executable!RemoveTmp \/ Executable!RenameOld \/ Executable!CopyNew
                   \/ Executable!Permit \/ Executable!Crash
<1>1. /\ dst \in Executable!File /\ tmp \in Executable!File /\ before \in Executable!File
      /\ perm \in BOOLEAN
      /\ call \in {"waiting", "remove", "rename", "copy", "permit"}
      /\ finished \in {"nothing", "success", "failure"}
      /\ Present /\ Untouched /\ Copied /\ ModeOfBefore /\ NotTold /\ Executable!SuccessIsWhole
  BY DEF ExecutableInv, Executable!TypeOK
<1> USE DEF Executable!Tells, Executable!GoesOn
<1>2. CASE Executable!Begin
  <2> USE <1>1, <1>2 DEF Executable!Begin
  <2>1. Executable!TypeOK'
    <3>1. dst' \in Executable!File /\ tmp' \in Executable!File /\ before' \in Executable!File
      BY FileFacts
    <3>2. perm' \in BOOLEAN
      OBVIOUS
    <3>3. /\ call' \in {"waiting", "remove", "rename", "copy", "permit"}
          /\ finished' \in {"nothing", "success", "failure"}
      OBVIOUS
    <3> QED BY <3>1, <3>2, <3>3 DEF Executable!TypeOK
  <2>2. before'.is = dst.is /\ dst' = before' /\ tmp'.is = tmp.is /\ dst'.new = FALSE
    BY FileFacts
  <2>3. /\ dst = Executable!None => dst' = Executable!None
        /\ tmp = Executable!None => tmp' = Executable!None
    BY FileFacts DEF Executable!None
  <2>4. Present' /\ Untouched'
    BY <2>2, <2>3 DEF Present, Untouched
  <2>5. Copied' /\ NotTold'
    BY FileFacts DEF Copied, NotTold
  <2>6. ModeOfBefore'
    <3>1. perm' = (dst.is # "dead")
      OBVIOUS
    <3> QED BY <2>2, <3>1 DEF ModeOfBefore
  <2>7. Executable!SuccessIsWhole'
    BY FileFacts DEF Copied, ModeOfBefore, Untouched, NotTold, Executable!SuccessIsWhole
  <2> QED BY <2>1, <2>4, <2>5, <2>6, <2>7 DEF ExecutableInv
<1>3. CASE Call
  <2> USE <1>1, <1>3 DEF Executable!RemoveTmp, Executable!RenameOld, Executable!CopyNew,
                         Executable!Permit, Executable!Crash
  <2>1. Executable!TypeOK'
    <3>1. dst' \in Executable!File /\ tmp' \in Executable!File /\ before' \in Executable!File
      <4> USE FileFacts
      <4> HIDE <1>3 DEF Executable!RemoveTmp, Executable!RenameOld, Executable!CopyNew,
                        Executable!Permit, Executable!Crash
      <4>1. CASE Executable!RemoveTmp
        BY <4>1 DEF Executable!RemoveTmp
      <4>2. CASE Executable!RenameOld
        BY <4>2 DEF Executable!RenameOld
      <4>3. CASE Executable!CopyNew
        BY <4>3 DEF Executable!CopyNew
      <4>4. CASE Executable!Permit
        BY <4>4 DEF Executable!Permit
      <4>5. CASE Executable!Crash
        BY <4>5 DEF Executable!Crash
      <4> QED BY <1>3, <4>1, <4>2, <4>3, <4>4, <4>5
    <3>2. perm' \in BOOLEAN
      OBVIOUS
    <3>3. /\ call' \in {"waiting", "remove", "rename", "copy", "permit"}
          /\ finished' \in {"nothing", "success", "failure"}
      OBVIOUS
    <3> QED BY <3>1, <3>2, <3>3 DEF Executable!TypeOK
  <2>2. Present' /\ Untouched'
    BY FileFacts DEF Present, Untouched
  <2>3. Copied' /\ NotTold'
    BY FileFacts DEF Copied, NotTold
  <2>4. ModeOfBefore'
    BY DEF ModeOfBefore
  <2>5. Executable!SuccessIsWhole'
    <3> USE FileFacts DEF Copied, ModeOfBefore, Untouched, NotTold, Executable!SuccessIsWhole
    <3> HIDE <1>3 DEF Executable!RemoveTmp, Executable!RenameOld, Executable!CopyNew,
                      Executable!Permit, Executable!Crash
    <3>1. CASE Executable!RemoveTmp
      BY <3>1 DEF Executable!RemoveTmp
    <3>2. CASE Executable!RenameOld
      BY <3>2 DEF Executable!RenameOld
    <3>3. CASE Executable!CopyNew
      BY <3>3 DEF Executable!CopyNew
    <3>4. CASE Executable!Permit
      BY <3>4 DEF Executable!Permit
    <3>5. CASE Executable!Crash
      BY <3>5 DEF Executable!Crash
    <3> QED BY <1>3, <3>1, <3>2, <3>3, <3>4, <3>5
  <2> QED BY <2>1, <2>2, <2>3, <2>4, <2>5 DEF ExecutableInv
<1>4. CASE UNCHANGED Executable!vars
  BY <1>4 DEF Executable!vars, ExecutableInv, Executable!TypeOK, Present, Untouched, Copied,
              ModeOfBefore, NotTold, Executable!SuccessIsWhole
<1> QED BY <1>2, <1>3, <1>4 DEF Executable!Next

LEMMA ExecutableInvariance == Executable!Spec => []ExecutableInv
BY ExecutableBegins, ExecutableStep, PTL DEF Executable!Spec

\* The executable, the one kept beside it and the mark finished have the values that
\* the calls of replace_executables can give them.
THEOREM ExecutableTypeCorrect == Executable!Spec => []Executable!TypeOK
<1>1. ExecutableInv => Executable!TypeOK
  BY DEF ExecutableInv
<1>2. QED
  BY <1>1, ExecutableInvariance, PTL

\* finished(true) is told, whatever call fails, only of an executable that is whole,
\* or when nothing was touched.
THEOREM SuccessWhole == Executable!Spec => []Executable!SuccessIsWhole
<1>1. ExecutableInv => Executable!SuccessIsWhole
  BY DEF ExecutableInv
<1>2. QED
  BY <1>1, ExecutableInvariance, PTL

\* The step that could lose an executable: the old one beside it is removed, when the
\* one in its place is there.
LEMMA ExecutableKeepsOne ==
  ASSUME ExecutableInv, [Executable!Next]_Executable!vars,
         dst # Executable!None \/ tmp # Executable!None
  PROVE  dst' # Executable!None \/ tmp' # Executable!None
<1> USE DEF ExecutableInv, Executable!TypeOK, Executable!File, Executable!None, Present,
            Untouched, Executable!Tells, Executable!GoesOn
<1>1. CASE Executable!Begin
  BY <1>1 DEF Executable!Begin
<1>2. CASE Executable!RemoveTmp
  BY <1>2 DEF Executable!RemoveTmp
<1>3. CASE Executable!RenameOld
  BY <1>3 DEF Executable!RenameOld
<1>4. CASE Executable!CopyNew
  BY <1>4 DEF Executable!CopyNew
<1>5. CASE Executable!Permit
  BY <1>5 DEF Executable!Permit, Copied, Executable!Mode
<1>6. CASE Executable!Crash
  BY <1>6 DEF Executable!Crash
<1>7. CASE UNCHANGED Executable!vars
  BY <1>7 DEF Executable!vars
<1> QED BY <1>1, <1>2, <1>3, <1>4, <1>5, <1>6, <1>7 DEF Executable!Next

\* Whatever call fails and whenever Control Center ends in the middle, no step loses
\* the last executable that is installed.
THEOREM OneStays == Executable!Spec => Executable!OneIsLeft
<1>1. ExecutableInv /\ [Executable!Next]_Executable!vars =>
        [{dst, tmp} # {Executable!None} => {dst', tmp'} # {Executable!None}]_Executable!vars
  BY ExecutableKeepsOne
<1>2. QED
  BY <1>1, ExecutableInvariance, PTL DEF Executable!Spec, Executable!OneIsLeft

----------------------------------------------------------------------------
\* The window of keys.

\* As long as a key is known to be in the environment it is in the list, and the list
\* shown is of keys.
LEMMA ShownFits ==
  ASSUME NEW list \in Seq(Keys), Dialog!TypeOK, Dialog!KeysUpdated(list)
  PROVE  /\ shown' \in Seq(Keys) /\ ticks' \subseteq [row : Nat, key : Keys]
         /\ swapped' \in BOOLEAN
<1>1. shown' \in Seq(Keys) /\ ticks' \subseteq [row : Nat, key : Keys]
  BY DEF Dialog!KeysUpdated, Dialog!TicksLeft, Dialog!TypeOK
<1>2. swapped' \in BOOLEAN
  BY DEF Dialog!KeysUpdated, Dialog!Swaps
<1> QED BY <1>1, <1>2

\* What refresh_key_files makes of a list.
LEMMA AddedFacts ==
  ASSUME NEW list \in Seq(Keys), Dialog!IsInjective(list), NEW in_dir \in SUBSET Keys,
         NEW longer \in {list \o new : new \in Dialog!SetToSeqs(in_dir \ Dialog!ToSet(list))}
  PROVE  /\ longer \in Seq(Keys) /\ Dialog!IsInjective(longer)
         /\ Dialog!ToSet(list) \subseteq Dialog!ToSet(longer)
<1>1. PICK new \in Dialog!SetToSeqs(in_dir \ Dialog!ToSet(list)) : longer = list \o new
  OBVIOUS
<1>2. IsFiniteSet(in_dir \ Dialog!ToSet(list))
  BY KeysAssumption, FS_Subset
<1>3. new \in Ssh!Arrangements(in_dir \ Dialog!ToSet(list))
  BY SameOperators
<1>4. /\ new \in Seq(in_dir \ Dialog!ToSet(list)) /\ Dialog!IsInjective(new)
      /\ Dialog!ToSet(new) = in_dir \ Dialog!ToSet(list)
  BY <1>2, <1>3, ListedFacts
<1>5. new \in Seq(Keys)
  BY <1>4, SeqMonotonic
<1> QED BY <1>1, <1>4, <1>5, JoinedFacts

\* The list is read again, with the files there are then.
LEMMA ReadFits ==
  ASSUME Dialog!TypeOK, Dialog!Refreshed(key_list, key_files'), key_files' \subseteq Keys,
         UNCHANGED <<there, notices>>, DOMAIN removing' \subseteq Keys,
         \A k \in DOMAIN removing' : removing'[k] \in {"asking", "unlinking"}
  PROVE  Dialog!TypeOK'
<1>1. PICK list \in {key_list \o new :
                       new \in Dialog!SetToSeqs(key_files' \ Dialog!ToSet(key_list))} :
        key_list' = list /\ Dialog!KeysUpdated(list)
  BY DEF Dialog!Refreshed
<1>2. key_list \in Seq(Keys) /\ Dialog!IsInjective(key_list)
  BY DEF Dialog!TypeOK
<1>3. /\ list \in Seq(Keys) /\ Dialog!IsInjective(list)
      /\ Dialog!ToSet(key_list) \subseteq Dialog!ToSet(list)
  BY <1>2, AddedFacts
<1>4. shown' \in Seq(Keys) /\ ticks' \subseteq [row : Nat, key : Keys] /\ swapped' \in BOOLEAN
  BY <1>1, <1>3, ShownFits
<1> QED BY <1>1, <1>3, <1>4 DEF Dialog!TypeOK

LEMMA DialogStep ==
  ASSUME Dialog!TypeOK, [Dialog!Next]_Dialog!vars
  PROVE  Dialog!TypeOK'
<1>1. CASE Dialog!NoticeArrives
  <2>1. /\ Dialog!KeysUpdated(key_list) /\ notices' \in Nat
        /\ UNCHANGED <<key_files, key_list, there, removing>>
    BY <1>1 DEF Dialog!NoticeArrives, Dialog!TypeOK
  <2>2. shown' \in Seq(Keys) /\ ticks' \subseteq [row : Nat, key : Keys] /\ swapped' \in BOOLEAN
    BY <2>1, ShownFits DEF Dialog!TypeOK
  <2> QED BY <2>1, <2>2 DEF Dialog!TypeOK
<1>2. CASE Dialog!RefreshKeyFiles
  <2>1. /\ Dialog!Refreshed(key_list, key_files')
        /\ UNCHANGED <<key_files, there, removing, notices>>
    BY <1>2 DEF Dialog!RefreshKeyFiles
  <2> QED BY <2>1, ReadFits DEF Dialog!TypeOK
<1>3. CASE Dialog!CheckFinds
  <2>1. /\ notices' \in Nat /\ there' \subseteq Dialog!ToSet(key_list)
        /\ UNCHANGED <<key_files, key_list, removing, shown, ticks, swapped>>
    BY <1>3 DEF Dialog!CheckFinds, Dialog!TypeOK, Dialog!dialog
  <2> QED BY <2>1 DEF Dialog!TypeOK
<1>4. CASE Dialog!Tick
  <2>1. PICK i \in DOMAIN shown :
          \/ ticks' = ticks \cup {[row |-> i, key |-> shown[i]]}
          \/ ticks' = ticks \ {t \in ticks : t.row = i}
    BY <1>4 DEF Dialog!Tick
  <2>2. i \in Nat /\ shown[i] \in Keys
    BY LenProperties DEF Dialog!TypeOK
  <2>3. ticks' \subseteq [row : Nat, key : Keys]
    BY <2>1, <2>2 DEF Dialog!TypeOK
  <2>4. swapped' \in BOOLEAN
    BY <1>4 DEF Dialog!Tick
  <2>5. UNCHANGED <<key_files, key_list, there, removing, notices, shown>>
    BY <1>4 DEF Dialog!Tick
  <2> QED BY <2>3, <2>4, <2>5 DEF Dialog!TypeOK
<1>5. CASE Dialog!Generate
  <2>1. /\ Dialog!Refreshed(key_list, key_files') /\ key_files' \subseteq Keys
        /\ UNCHANGED <<there, removing, notices>>
    BY <1>5 DEF Dialog!Generate, Dialog!TypeOK
  <2> QED BY <2>1, ReadFits DEF Dialog!TypeOK
<1>6. CASE Dialog!RemoveHere
  <2>1. PICK k, left :
          /\ k \in (Dialog!ToSet(shown) \cap Dialog!ToSet(key_list) \cap key_files) \ there
          /\ left = Dialog!RemoveFirst(key_list, k)
          /\ key_files' = key_files \ {k}
          /\ key_list' \in {left \o new :
                              new \in Dialog!SetToSeqs(key_files' \ Dialog!ToSet(left))}
          /\ shown' = key_list'
          /\ ticks' = Dialog!TicksLeft(left, shown) \cap Dialog!TicksLeft(key_list', left)
          /\ swapped' = Dialog!Swaps(key_list')
    BY <1>6 DEF Dialog!RemoveHere
  <2>2. key_list \in Seq(Keys) /\ Dialog!IsInjective(key_list) /\ key_files' \in SUBSET Keys
    BY <2>1 DEF Dialog!TypeOK
  <2>3. /\ left \in Seq(Keys) /\ Dialog!IsInjective(left)
        /\ Dialog!ToSet(left) = Dialog!ToSet(key_list) \ {k}
    BY <2>1, <2>2, TakenFacts
  <2>4. /\ key_list' \in Seq(Keys) /\ Dialog!IsInjective(key_list')
        /\ Dialog!ToSet(left) \subseteq Dialog!ToSet(key_list')
    BY <2>1, <2>2, <2>3, AddedFacts
  <2>5. there' = there /\ removing' = removing /\ notices' = notices
    BY <1>6 DEF Dialog!RemoveHere
  <2>6. there' \subseteq Dialog!ToSet(key_list')
    BY <2>1, <2>3, <2>4, <2>5 DEF Dialog!TypeOK
  <2>7. swapped' \in BOOLEAN
    BY <2>1 DEF Dialog!Swaps
  <2>8. ticks' \subseteq [row : Nat, key : Keys]
    BY <2>1 DEF Dialog!TicksLeft, Dialog!TypeOK
  <2> QED BY <2>1, <2>2, <2>4, <2>5, <2>6, <2>7, <2>8 DEF Dialog!TypeOK
<1>7. CASE Dialog!RemoveEverywhere
  <2>1. PICK k \in (Dialog!ToSet(shown) \cap there) \ DOMAIN removing :
          removing' = [l \in DOMAIN removing \cup {k} |->
                         IF l = k THEN "asking" ELSE removing[l]]
    BY <1>7 DEF Dialog!RemoveEverywhere
  <2>2. Dialog!Refreshed(key_list, key_files') /\ UNCHANGED <<key_files, there, notices>>
    BY <1>7 DEF Dialog!RemoveEverywhere
  <2>3. \A l \in there : l \in Keys
    BY LenProperties DEF Dialog!TypeOK, Dialog!ToSet
  <2>4. /\ DOMAIN removing' \subseteq Keys
        /\ \A l \in DOMAIN removing' : removing'[l] \in {"asking", "unlinking"}
    BY <2>1, <2>3 DEF Dialog!TypeOK
  <2> QED BY <2>2, <2>4, ReadFits DEF Dialog!TypeOK
<1>8. CASE Dialog!CleanKey
  <2>1. PICK k \in DOMAIN removing :
          /\ removing' = [removing EXCEPT ![k] = "unlinking"]
          /\ key_list' = Dialog!RemoveFirst(key_list, k)
          /\ there' = there \ {k}
    BY <1>8 DEF Dialog!CleanKey
  <2>2. /\ key_list' \in Seq(Keys) /\ Dialog!IsInjective(key_list')
        /\ Dialog!ToSet(key_list') = Dialog!ToSet(key_list) \ {k}
    BY <2>1, TakenFacts DEF Dialog!TypeOK
  <2>3. notices' \in Nat /\ UNCHANGED <<key_files, shown, ticks, swapped>>
    BY <1>8 DEF Dialog!CleanKey, Dialog!TypeOK, Dialog!dialog
  <2>4. /\ DOMAIN removing' \subseteq Keys
        /\ \A l \in DOMAIN removing' : removing'[l] \in {"asking", "unlinking"}
    BY <2>1 DEF Dialog!TypeOK
  <2> QED BY <2>1, <2>2, <2>3, <2>4 DEF Dialog!TypeOK
<1>9. CASE Dialog!Unlink
  <2>1. PICK k \in DOMAIN removing :
          /\ key_files' = key_files \ {k}
          /\ removing' = [l \in DOMAIN removing \ {k} |-> removing[l]]
    BY <1>9 DEF Dialog!Unlink
  <2>2. UNCHANGED <<key_list, there, notices, shown, ticks, swapped>>
    BY <1>9 DEF Dialog!Unlink, Dialog!dialog
  <2> QED BY <2>1, <2>2 DEF Dialog!TypeOK
<1>10. CASE Dialog!SendToHub \/ UNCHANGED Dialog!vars
  BY <1>10 DEF Dialog!SendToHub, Dialog!vars, Dialog!dialog, Dialog!TypeOK
<1> QED BY <1>1, <1>2, <1>3, <1>4, <1>5, <1>6, <1>7, <1>8, <1>9, <1>10 DEF Dialog!Next

\* Ticks, answers, workers and the timer: the list has no key twice, what is known to
\* be in the environment is in the list, and a tick is of a row and a key.
THEOREM WindowTypeCorrect == Dialog!Spec => []Dialog!TypeOK
<1>1. Dialog!Init => Dialog!TypeOK
  <2> SUFFICES ASSUME Dialog!Init PROVE Dialog!TypeOK
    OBVIOUS
  <2>1. DOMAIN <<>> = {}
    OBVIOUS
  <2>2. removing = <<>> /\ key_list = <<>> /\ shown = <<>>
    BY DEF Dialog!Init
  <2>3. DOMAIN removing = {} /\ Dialog!IsInjective(key_list)
    BY <2>1, <2>2 DEF Dialog!IsInjective
  <2>4. key_list \in Seq(Keys) /\ shown \in Seq(Keys)
    BY <2>2, EmptySeq
  <2>5. key_files \subseteq Keys /\ there = {} /\ notices = 0 /\ ticks = {} /\ swapped = FALSE
    BY DEF Dialog!Init
  <2> QED BY <2>3, <2>4, <2>5 DEF Dialog!TypeOK
<1> QED BY <1>1, DialogStep, PTL DEF Dialog!Spec

\* Unless another list as long was shown, a tick is beside the key it was made for.
TicksInPlace == ticks # {} => swapped \/ \A t \in ticks : shown[t.row] = t.key

\* A list that is shown keeps the ticks in place if it leaves none, or is the one
\* that was shown, or is as long and taken note of.
LEMMA ShownInPlace ==
  ASSUME TicksInPlace, NEW list, shown' = list, ticks' \in {ticks, {}},
         ticks' # {} => Len(list) = Len(shown), swapped' = Dialog!Swaps(list)
  PROVE  TicksInPlace'
<1> SUFFICES ASSUME ticks' # {}, ~swapped' PROVE \A t \in ticks' : shown'[t.row] = t.key
  BY DEF TicksInPlace
<1>1. ticks' = ticks /\ ticks # {}
  OBVIOUS
<1>2. ~swapped /\ list = shown
  BY DEF Dialog!Swaps
<1> QED BY <1>1, <1>2 DEF TicksInPlace

LEMMA UpdatedInPlace ==
  ASSUME TicksInPlace, NEW list, Dialog!KeysUpdated(list)
  PROVE  TicksInPlace'
<1>1. /\ shown' = list /\ swapped' = Dialog!Swaps(list)
      /\ ticks' = IF Len(list) # Len(shown) THEN {} ELSE ticks
  BY DEF Dialog!KeysUpdated, Dialog!TicksLeft
<1> QED BY <1>1, ShownInPlace

LEMMA TicksStep ==
  ASSUME TicksInPlace, [Dialog!Next]_Dialog!vars
  PROVE  TicksInPlace'
<1>1. CASE UNCHANGED Dialog!dialog
  BY <1>1 DEF Dialog!dialog, TicksInPlace
<1>2. CASE Dialog!NoticeArrives
  BY <1>2, UpdatedInPlace DEF Dialog!NoticeArrives
<1>3. CASE Dialog!RefreshKeyFiles \/ Dialog!Generate \/ Dialog!RemoveEverywhere
  <2>1. Dialog!KeysUpdated(key_list')
    BY <1>3 DEF Dialog!RefreshKeyFiles, Dialog!Generate, Dialog!RemoveEverywhere,
                Dialog!Refreshed
  <2> QED BY <2>1, UpdatedInPlace
<1>4. CASE Dialog!Tick
  <2>1. PICK i \in DOMAIN shown :
          ticks' = IF {t \in ticks : t.row = i} = {}
                   THEN ticks \cup {[row |-> i, key |-> shown[i]]}
                   ELSE ticks \ {t \in ticks : t.row = i}
    BY <1>4 DEF Dialog!Tick
  <2>2. swapped' = (swapped /\ ticks' # {}) /\ shown' = shown
    BY <1>4 DEF Dialog!Tick
  <2>3. \A t \in ticks' : t \in ticks \/ shown[t.row] = t.key
    BY <2>1
  <2> SUFFICES ASSUME ticks' # {}, ~swapped', NEW t \in ticks' PROVE shown'[t.row] = t.key
    BY DEF TicksInPlace
  <2>4. ~swapped
    BY <2>2
  <2> QED BY <2>2, <2>3, <2>4 DEF TicksInPlace
<1>5. CASE Dialog!RemoveHere
  <2>1. PICK left :
          /\ shown' = key_list' /\ swapped' = Dialog!Swaps(key_list')
          /\ ticks' = Dialog!TicksLeft(left, shown) \cap Dialog!TicksLeft(key_list', left)
    BY <1>5 DEF Dialog!RemoveHere
  <2>2. ticks' \in {ticks, {}} /\ (ticks' # {} => Len(key_list') = Len(shown))
    BY <2>1 DEF Dialog!TicksLeft
  <2> QED BY <2>1, <2>2, ShownInPlace
<1>6. CASE Dialog!CheckFinds \/ Dialog!SendToHub \/ Dialog!CleanKey \/ Dialog!Unlink
           \/ UNCHANGED Dialog!vars
  <2>1. UNCHANGED Dialog!dialog
    BY <1>6 DEF Dialog!CheckFinds, Dialog!SendToHub, Dialog!CleanKey, Dialog!Unlink,
                Dialog!vars
  <2> QED BY <1>1, <2>1
<1> QED BY <1>2, <1>3, <1>4, <1>5, <1>6 DEF Dialog!Next

\* Keys are made, removed, found and read again while rows are ticked: what is sent is
\* what was ticked, but for the two cases that SentAsTicked names.
THEOREM KeysAsTicked == Dialog!Spec => []Dialog!SentAsTicked
<1>1. Dialog!Init => TicksInPlace
  BY DEF Dialog!Init, TicksInPlace
<1>2. TicksInPlace /\ [Dialog!Next]_Dialog!vars => TicksInPlace'
  BY TicksStep
<1>3. TicksInPlace => Dialog!SentAsTicked
  <2> SUFFICES ASSUME TicksInPlace, NEW t \in ticks, key_list = shown, ~swapped
               PROVE  key_list[t.row] = t.key
    BY DEF Dialog!SentAsTicked
  <2> QED BY DEF TicksInPlace
<1> QED BY <1>1, <1>2, <1>3, PTL DEF Dialog!Spec

----------------------------------------------------------------------------
\* The menu of environments.

\* The environments of the run.
EnvIds == DOMAIN EnvNames

MenuInv ==
  /\ Menu!TypeOK
  /\ my_envs_button_table = m_hub_menu \ {"Empty"}
  /\ \A e \in EnvIds : e \in my_envs_button_table <=> environments_table[e] = "listed"
  /\ lst_environments \subseteq my_envs_button_table
  /\ \A e \in my_envs_button_table : \E l \in lst_environments : EnvNames[l] = EnvNames[e]
  /\ "Empty" \in m_hub_menu <=> my_envs_button_table = {}

LEMMA MenuStep ==
  ASSUME Menu!NoEmptyName, MenuInv, Menu!EnvironmentsUpdated
  PROVE  MenuInv'
<1>1. PICK list \in SUBSET EnvIds :
        LET rows == [e \in EnvIds |-> IF e \in list THEN "listed" ELSE environments_table[e]]
            gone == Menu!Gone(list, rows)
            new == list \ my_envs_button_table
            longer == IF new = {} THEN m_hub_menu ELSE (m_hub_menu \cup new) \ {"Empty"}
            shorter == longer \ (gone \cap my_envs_button_table)
        IN  /\ lst_environments' = list
            /\ environments_table' =
                 [e \in EnvIds |-> IF e \in gone THEN "DELETED" ELSE rows[e]]
            /\ my_envs_button_table' = Menu!Buttons(list, gone)
            /\ m_hub_menu' = IF shorter = {} THEN {"Empty"} ELSE shorter
  BY DEF EnvIds, Menu!EnvironmentsUpdated
<1> DEFINE rows == [e \in EnvIds |-> IF e \in list THEN "listed" ELSE environments_table[e]]
           gone == Menu!Gone(list, rows)
           new == list \ my_envs_button_table
           longer == IF new = {} THEN m_hub_menu ELSE (m_hub_menu \cup new) \ {"Empty"}
           shorter == longer \ (gone \cap my_envs_button_table)
           left == (my_envs_button_table \cup list) \ gone
<1>2. /\ lst_environments' = list
      /\ environments_table' = [e \in EnvIds |-> IF e \in gone THEN "DELETED" ELSE rows[e]]
      /\ my_envs_button_table' = left
      /\ m_hub_menu' = IF shorter = {} THEN {"Empty"} ELSE shorter
  BY <1>1 DEF Menu!Buttons
<1>3. /\ my_envs_button_table \subseteq EnvIds /\ m_hub_menu \subseteq EnvIds \cup {"Empty"}
      /\ environments_table \in [EnvIds -> {"unknown", "listed", "DELETED"}]
  BY DEF EnvIds, MenuInv, Menu!TypeOK
<1>4. \A e \in EnvIds : /\ e \in list => rows[e] = "listed"
                        /\ e \notin list => rows[e] = environments_table[e]
  OBVIOUS
<1>5. \A e \in EnvIds :
        e \in gone <=> rows[e] # "unknown" /\ \A l \in list : EnvNames[l] # EnvNames[e]
  BY DEF EnvIds, Menu!Gone
<1>6. gone \subseteq EnvIds
  BY DEF EnvIds, Menu!Gone
<1> HIDE DEF rows, gone
<1>7. list \cap gone = {}
  BY <1>5
<1>8. longer \ {"Empty"} = my_envs_button_table \cup list
      /\ ("Empty" \in longer <=> my_envs_button_table \cup list = {})
  BY <1>3 DEF EnvIds, MenuInv, Menu!NoEmptyName
<1> HIDE DEF longer
<1>9. shorter \ {"Empty"} = left
      /\ ("Empty" \in shorter <=> my_envs_button_table \cup list = {})
  <2>1. (gone \cap list) = {}
    BY <1>7
  <2> QED BY <1>6, <1>8, <2>1 DEF EnvIds, Menu!NoEmptyName
<1> HIDE DEF shorter
<1>10. "Empty" \notin left /\ left \subseteq EnvIds
  BY <1>3, <1>6 DEF EnvIds, Menu!NoEmptyName
<1>11. /\ m_hub_menu' \ {"Empty"} = left
       /\ "Empty" \in m_hub_menu' <=> left = {}
  <2>1. CASE shorter = {}
    BY <1>2, <1>9, <2>1
  <2>2. CASE shorter # {} /\ "Empty" \in shorter
    BY <1>2, <1>9, <2>2
  <2>3. CASE shorter # {} /\ "Empty" \notin shorter
    BY <1>2, <1>9, <2>3
  <2> QED BY <2>1, <2>2, <2>3
<1>12. \A e \in EnvIds : e \in left <=> environments_table'[e] = "listed"
  <2> SUFFICES ASSUME NEW e \in EnvIds
               PROVE  e \in left <=> environments_table'[e] = "listed"
    OBVIOUS
  <2>1. environments_table'[e] = IF e \in gone THEN "DELETED" ELSE rows[e]
    BY <1>2
  <2>2. e \in my_envs_button_table <=> environments_table[e] = "listed"
    BY DEF MenuInv
  <2> QED BY <1>4, <2>1, <2>2
<1>13. list \subseteq left
  BY <1>7
<1>14. \A e \in left : \E l \in list : EnvNames[l] = EnvNames[e]
  <2> SUFFICES ASSUME NEW e \in left PROVE \E l \in list : EnvNames[l] = EnvNames[e]
    OBVIOUS
  <2>1. e \in EnvIds /\ e \notin gone
    BY <1>10
  <2>2. rows[e] # "unknown"
    BY <1>4, <2>1 DEF MenuInv
  <2> QED BY <1>5, <2>1, <2>2
<1>15. environments_table' \in [EnvIds -> {"unknown", "listed", "DELETED"}]
  <2>1. \A e \in EnvIds : rows[e] \in {"unknown", "listed", "DELETED"}
    BY <1>3, <1>4
  <2> QED BY <1>2, <2>1
<1>16. m_hub_menu' \subseteq EnvIds \cup {"Empty"}
  BY <1>10, <1>11
<1> HIDE DEF left
<1>17. Menu!TypeOK'
  BY <1>2, <1>10, <1>15, <1>16 DEF EnvIds, Menu!TypeOK
<1> QED BY <1>2, <1>11, <1>12, <1>13, <1>14, <1>17 DEF MenuInv

LEMMA MenuInvariance == ASSUME Menu!NoEmptyName PROVE Menu!Spec => []MenuInv
<1>1. Menu!Init => MenuInv
  BY DEF EnvIds, Menu!Init, MenuInv, Menu!TypeOK, Menu!NoEmptyName
<1>2. MenuInv /\ [Menu!Next]_Menu!vars => MenuInv'
  <2> SUFFICES ASSUME MenuInv, [Menu!Next]_Menu!vars PROVE MenuInv'
    OBVIOUS
  <2>1. CASE UNCHANGED Menu!vars
    BY <2>1 DEF EnvIds, Menu!vars, MenuInv, Menu!TypeOK
  <2> QED BY <2>1, MenuStep DEF Menu!Next
<1> QED BY <1>1, <1>2, PTL DEF Menu!Spec

\* What the tables and the menu hold are environments, or the entry for an empty list.
THEOREM MenuTypeCorrect == ASSUME Menu!NoEmptyName PROVE Menu!Spec => []Menu!TypeOK
<1>1. MenuInv => Menu!TypeOK
  BY DEF MenuInv
<1> QED BY <1>1, MenuInvariance, PTL

\* Lists longer and shorter, environments that come back and environments that share
\* their name: the menu offers those of the list, and of the others only namesakes.
THEOREM MenuShowsEnvironments ==
  ASSUME Menu!NoEmptyName PROVE Menu!Spec => []Menu!EnvironmentsAreShown
<1>1. MenuInv => Menu!EnvironmentsAreShown
  BY DEF EnvIds, MenuInv, Menu!EnvironmentsAreShown, Menu!TypeOK
<1> QED BY <1>1, MenuInvariance, PTL

----------------------------------------------------------------------------
\* The composition: what every behaviour of TraySpec is for a part.

PartNames == {"installers", "p2p", "moving", "removing", "ssh", "dialog", "executable",
              "peers", "environments"}

\* A tuple of all variables of a part is what the part calls vars.
LEMMA SameVariables ==
  /\ UNCHANGED p2p <=> UNCHANGED P2P!vars
  /\ UNCHANGED transfer <=> UNCHANGED Moving!vars
  /\ UNCHANGED transfer <=> UNCHANGED Removing!vars
  /\ UNCHANGED ssh <=> UNCHANGED Ssh!vars
  /\ UNCHANGED dialog <=> UNCHANGED Dialog!vars
  /\ UNCHANGED executable <=> UNCHANGED Executable!vars
  /\ UNCHANGED peers <=> UNCHANGED Peers!vars
  /\ UNCHANGED menu <=> UNCHANGED Menu!vars
<1>1. UNCHANGED p2p <=> UNCHANGED P2P!vars
  BY DEF p2p, P2P!vars
<1>2. UNCHANGED transfer <=> UNCHANGED Moving!vars
  BY DEF transfer, Moving!vars, Moving!listing, Moving!browser, Moving!table
<1>3. UNCHANGED transfer <=> UNCHANGED Removing!vars
  BY DEF transfer, Removing!vars, Removing!listing, Removing!browser, Removing!table
<1>4. UNCHANGED ssh <=> UNCHANGED Ssh!vars
  BY DEF ssh, Ssh!vars, Ssh!outside, Ssh!known, Ssh!check
<1>5. UNCHANGED dialog <=> UNCHANGED Dialog!vars
  BY DEF dialog, Dialog!vars, Dialog!dialog
<1>6. UNCHANGED executable <=> UNCHANGED Executable!vars
  BY DEF executable, Executable!vars
<1>7. UNCHANGED peers <=> UNCHANGED Peers!vars
  BY DEF peers, Peers!vars
<1>8. UNCHANGED menu <=> UNCHANGED Menu!vars
  BY DEF menu, Menu!vars
<1> QED BY <1>1, <1>2, <1>3, <1>4, <1>5, <1>6, <1>7, <1>8

\* Each part begins as it would alone; the two ways of moving files begin alike.
LEMMA TrayBegins ==
  ASSUME TrayInit
  PROVE  /\ part \in PartNames /\ Init /\ P2P!Init /\ Moving!Init /\ Removing!Init /\ Ssh!Init
         /\ Dialog!Init /\ Executable!Init /\ Peers!Init /\ Menu!Init
<1>1. Moving!Init => Removing!Init
  BY DEF Moving!Init, Removing!Init, Moving!EmptyBag, Removing!EmptyBag, Moving!SetToBag,
         Removing!SetToBag
<1> QED BY <1>1 DEF TrayInit, PartNames

\* Each step of the composition is one of the part it is about, and leaves the others.
LEMMA TraySteps ==
  ASSUME [TrayNext]_parts
  PROVE  /\ part' = part
         /\ [Next]_vars
         /\ [P2P!Next]_P2P!vars
         /\ part # "removing" => [Moving!Next]_Moving!vars
         /\ part # "moving" => [Removing!Next]_Removing!vars
         /\ [Ssh!Next]_Ssh!vars
         /\ [Dialog!Next]_Dialog!vars
         /\ [Executable!Next]_Executable!vars
         /\ [Peers!Next]_Peers!vars
         /\ [Menu!Next]_Menu!vars
<1> SUFFICES
      /\ part' = part
      /\ Next \/ UNCHANGED vars
      /\ P2P!Next \/ UNCHANGED p2p
      /\ Moving!Next \/ UNCHANGED transfer \/ part = "removing"
      /\ Removing!Next \/ UNCHANGED transfer \/ part = "moving"
      /\ Ssh!Next \/ UNCHANGED ssh
      /\ Dialog!Next \/ UNCHANGED dialog
      /\ Executable!Next \/ UNCHANGED executable
      /\ Peers!Next \/ UNCHANGED peers
      /\ Menu!Next \/ UNCHANGED menu
  BY SameVariables
<1>1. CASE Only("installers", Next)
  BY <1>1 DEF Only
<1>2. CASE Only("p2p", P2P!Next)
  BY <1>2 DEF Only
<1>3. CASE Only("moving", Moving!Next)
  BY <1>3 DEF Only
<1>4. CASE Only("removing", Removing!Next)
  BY <1>4 DEF Only
<1>5. CASE Only("ssh", Ssh!Next)
  BY <1>5 DEF Only
<1>6. CASE Only("dialog", Dialog!Next)
  BY <1>6 DEF Only
<1>7. CASE Only("executable", Executable!Next)
  BY <1>7 DEF Only
<1>8. CASE Only("peers", Peers!Next)
  BY <1>8 DEF Only
<1>9. CASE Only("environments", Menu!Next)
  BY <1>9 DEF Only
<1>10. CASE UNCHANGED parts
  BY <1>10 DEF parts
<1> QED BY <1>1, <1>2, <1>3, <1>4, <1>5, <1>6, <1>7, <1>8, <1>9, <1>10 DEF TrayNext

\* The two ways of moving files.
Moves == part = "moving"
Removes == part = "removing"

PartIsKnown == part \in PartNames

\* So a behaviour of the composition is one of each part, and, of the two ways of
\* moving files, of each that the other one does not take.
LEMMA Parts ==
  TraySpec => /\ Spec /\ P2P!Spec /\ Ssh!Spec /\ Dialog!Spec /\ Executable!Spec
              /\ Peers!Spec /\ Menu!Spec /\ []PartIsKnown
              /\ Moving!Spec \/ []Removes
              /\ Removing!Spec \/ []Moves
              /\ []~Moves \/ []~Removes
<1>1. TrayInit => /\ Init /\ P2P!Init /\ Moving!Init /\ Removing!Init /\ Ssh!Init /\ Dialog!Init
                  /\ Executable!Init /\ Peers!Init /\ Menu!Init /\ PartIsKnown
                  /\ ~(Moves /\ Removes)
  BY TrayBegins DEF PartIsKnown, Moves, Removes
<1>2. [TrayNext]_parts =>
        /\ [Next]_vars /\ [P2P!Next]_P2P!vars /\ [Ssh!Next]_Ssh!vars
        /\ [Dialog!Next]_Dialog!vars /\ [Executable!Next]_Executable!vars
        /\ [Peers!Next]_Peers!vars /\ [Menu!Next]_Menu!vars
  BY TraySteps
<1>3. [TrayNext]_parts /\ ~Removes => [Moving!Next]_Moving!vars
  BY TraySteps DEF Removes
<1>4. [TrayNext]_parts /\ ~Moves => [Removing!Next]_Removing!vars
  BY TraySteps DEF Moves
<1>5. [TrayNext]_parts => /\ Removes' <=> Removes
                          /\ Moves' <=> Moves
                          /\ PartIsKnown => PartIsKnown'
  BY TraySteps DEF Removes, Moves, PartIsKnown
<1> QED
  BY <1>1, <1>2, <1>3, <1>4, <1>5, PTL
  DEF TraySpec, Spec, P2P!Spec, Ssh!Spec, Dialog!Spec, Executable!Spec, Peers!Spec, Menu!Spec,
      Moving!Spec, Removing!Spec

----------------------------------------------------------------------------
\* What the run checks of each part, for the composition.

\* Whatever part a behaviour is about, its variables have values that their classes
\* can hold.
THEOREM PartsTypeCorrect == TraySpec => []PartsTypeOK
<1>1. P2P!Spec => []P2P!TypeOK
  BY SwarmsTypeCorrect
<1>2. Moving!Spec => []Moving!TypeOK
  BY Moving!FilesTypeCorrect, WindowAssumption
<1>3. Removing!Spec => []Removing!TypeOK
  BY Removing!FilesTypeCorrect, WindowAssumption
<1>4. Ssh!Spec => []Ssh!TypeOK
  BY Ssh!KeysTypeCorrect, KeysAssumption, SameOperators
<1>5. Peers!Spec => []Peers!TypeOK
  BY Peers!PeersTypeCorrect, PeersAssumption
<1>6. Menu!Spec => []Menu!TypeOK
  BY MenuTypeCorrect, MenuAssumption
<1>7. /\ PartIsKnown /\ TypeOK /\ P2P!TypeOK /\ Ssh!TypeOK /\ Dialog!TypeOK
      /\ Executable!TypeOK /\ Peers!TypeOK /\ Menu!TypeOK
      /\ Moving!TypeOK \/ ~Moves
      /\ Removing!TypeOK \/ ~Removes
      => PartsTypeOK
  BY DEF PartsTypeOK, PartIsKnown, PartNames, Moves, Removes
<1> QED
  BY <1>1, <1>2, <1>3, <1>4, <1>5, <1>6, <1>7, Parts, TypeCorrect, WindowTypeCorrect,
     ExecutableTypeCorrect, PTL

\* Answers of earlier listings, ends of downloads and windows that are closed and opened
\* again: the files shown are of the directory their paths are made with.
THEOREM ListingStaysOfDirectory == TraySpec => []ListingIsOfDirectory
<1>1. Moving!Spec => []Moving!ListingIsOfDirectory
  BY Moving!ListingOfDirectory, WindowAssumption
<1>2. Removing!Spec => []Removing!ListingIsOfDirectory
  BY Removing!ListingOfDirectory, WindowAssumption
<1>3. Removing!ListingIsOfDirectory => Moving!ListingIsOfDirectory
  BY DEF Removing!ListingIsOfDirectory, Moving!ListingIsOfDirectory, Removing!EmptyBag,
         Moving!EmptyBag, Removing!SetToBag, Moving!SetToBag
<1>4. Moving!ListingIsOfDirectory => ListingIsOfDirectory
  BY DEF ListingIsOfDirectory
<1> QED
  BY <1>1, <1>2, <1>3, <1>4, Parts, PTL

\* Keys come and go while rows are ticked: a key is sent to what was ticked beside it.
THEOREM KeysSentAsTicked == TraySpec => []SentAsTicked
<1>1. Dialog!SentAsTicked => SentAsTicked
  BY DEF SentAsTicked
<1> QED
  BY <1>1, Parts, KeysAsTicked, PTL

\* An answer the Hub gave before an upload is never all that is known of a key.
THEOREM DeployedStaysOnItsWay == TraySpec => []DeployedIsOnItsWay
<1>1. Ssh!Spec => []Ssh!DeployedIsOnItsWay
  BY Ssh!DeployedOnItsWay, KeysAssumption, SameOperators
<1>2. Ssh!DeployedIsOnItsWay => DeployedIsOnItsWay
  BY DEF DeployedIsOnItsWay
<1> QED
  BY <1>1, <1>2, Parts, PTL

\* A replacement that tells its success left a whole executable in its place.
THEOREM SuccessesAreWhole == TraySpec => []SuccessIsWhole
<1>1. Executable!SuccessIsWhole => SuccessIsWhole
  BY DEF SuccessIsWhole
<1> QED
  BY <1>1, Parts, SuccessWhole, PTL

\* No step of a replacement, and no end of Control Center in the middle of it, loses the
\* last executable that is installed.
THEOREM OneExecutableStays == TraySpec => OneIsLeft
<1>1. Executable!OneIsLeft <=> OneIsLeft
  BY DEF OneIsLeft
<1> QED
  BY <1>1, Parts, OneStays, PTL

\* Whatever order the updates of the three tables come in, the menus show their peers.
THEOREM PeersStayShown == TraySpec => []PeersAreShown
<1>1. Peers!Spec => []Peers!PeersAreShown
  BY Peers!PeersAllShown, PeersAssumption
<1>2. Peers!PeersAreShown => PeersAreShown
  BY DEF PeersAreShown
<1> QED
  BY <1>1, <1>2, Parts, PTL

\* A row that says "updating" is one of a peer whose update has not answered.
THEOREM UpdatingStaysUnderWay == TraySpec => []UpdatingIsUnderWay
<1>1. Peers!Spec => []Peers!UpdatingIsUnderWay
  BY Peers!UpdatesUnderWay, PeersAssumption
<1>2. Peers!UpdatingIsUnderWay => UpdatingIsUnderWay
  BY DEF UpdatingIsUnderWay
<1> QED
  BY <1>1, <1>2, Parts, PTL

\* A local peer loses its fingerprint only with its row, when the Bazaar has none of it.
THEOREM FingersStayKept == TraySpec => FingersAreKept
<1>1. Peers!Spec => Peers!FingersAreKept
  BY Peers!FingersKept, PeersAssumption
<1>2. [\A n \in DOMAIN Lives : Peers!ForgetsFinger(n)]_Peers!vars
        => [part = "peers" => \A n \in DOMAIN Lives : Peers!ForgetsFinger(n)]_peers
  BY SameVariables
<1> QED
  BY <1>1, <1>2, Parts, PTL DEF FingersAreKept, Peers!FingersAreKept

\* The menu offers the environments of the Hub's list, and of others only namesakes.
THEOREM EnvironmentsStayShown == TraySpec => []EnvironmentsAreShown
<1>1. Menu!Spec => []Menu!EnvironmentsAreShown
  BY MenuShowsEnvironments, MenuAssumption
<1>2. Menu!EnvironmentsAreShown => EnvironmentsAreShown
  BY DEF EnvironmentsAreShown
<1> QED
  BY <1>1, <1>2, Parts, PTL

\* A row of the list of transfers that becomes finished has earned it, both when files
\* are moved and when they are removed.
THEOREM FinishedStaysEarned == TraySpec => FinishedIsEarned
<1> DEFINE A == \A i \in DOMAIN files_to_transfer :
                  Moving!Finishes(i) =>
                    IF part = "removing" THEN Removing!Earned(i) ELSE Moving!Earned(i)
<1>1. Moving!Spec => Moving!FinishedIsEarned
  BY Moving!FinishedEarned
<1>2. Removing!Spec => Removing!FinishedIsEarned
  BY Removing!FinishedEarned
<1>3. ~Removes /\ [\A i \in DOMAIN files_to_transfer :
                     Moving!Finishes(i) => Moving!Earned(i)]_Moving!vars
        => [A]_transfer
  BY SameVariables DEF Removes
<1>4. Removes /\ [\A i \in DOMAIN files_to_transfer :
                     Removing!Finishes(i) => Removing!Earned(i)]_Removing!vars
        => [A]_transfer
  <2>1. \A i : Moving!Finishes(i) <=> Removing!Finishes(i)
    BY DEF Moving!Finishes, Removing!Finishes
  <2> QED BY <2>1, SameVariables DEF Removes
<1>5. ~(Moves /\ Removes)
  BY DEF Moves, Removes
<1> HIDE DEF A
<1>6. TraySpec => [][A]_transfer
  BY <1>1, <1>2, <1>3, <1>4, <1>5, Parts, PTL
  DEF Moving!FinishedIsEarned, Removing!FinishedIsEarned
<1> QED BY <1>6 DEF FinishedIsEarned, A
=============================================================================
