------------------------ MODULE PeerControllerProofs ------------------------
(***************************************************************************)
(* Theorems about PeerController, for any number of peers, of terminal     *)
(* commands and of rounds in flight.                                       *)
(***************************************************************************)
EXTENDS PeerController, SequenceTheorems, FiniteSetTheorems, TLAPS

----------------------------------------------------------------------------
\* Counting the elements of a sequence that number_threads counts.

LEMMA CountedFinite ==
  ASSUME NEW S, NEW s \in Seq(S)
  PROVE  /\ Counted(s) \subseteq 1..Len(s)
         /\ IsFiniteSet(Counted(s))
         /\ Cardinality(Counted(s)) \in Nat
<1>1. Counted(s) \subseteq 1..Len(s)
  BY LenProperties DEF Counted
<1>2. IsFiniteSet(1..Len(s))
  BY FS_Interval, LenProperties
<1>3. IsFiniteSet(Counted(s))
  BY <1>1, <1>2, FS_Subset
<1>. QED  BY <1>1, <1>3, FS_CardinalityType

\* What a concatenation counts is what its parts count together.
LEMMA CountedConcat ==
  ASSUME NEW S, NEW s \in Seq(S), NEW t \in Seq(S)
  PROVE  Cardinality(Counted(s \o t)) = Cardinality(Counted(s)) + Cardinality(Counted(t))
<1> DEFINE Shifted == {Len(s) + j : j \in Counted(t)}
           shift == [j \in Counted(t) |-> Len(s) + j]
<1>1. /\ Len(s) \in Nat /\ Len(t) \in Nat
      /\ DOMAIN s = 1..Len(s) /\ DOMAIN t = 1..Len(t)
  BY LenProperties
<1>2. /\ s \o t \in Seq(S)
      /\ DOMAIN (s \o t) = 1..(Len(s) + Len(t))
      /\ \A i \in 1..(Len(s) + Len(t)) :
           (s \o t)[i] = IF i <= Len(s) THEN s[i] ELSE t[i - Len(s)]
  BY ConcatProperties, LenProperties
<1>3. Counted(s \o t) = Counted(s) \cup Shifted
  <2>1. ASSUME NEW i \in Counted(s \o t)  PROVE i \in Counted(s) \cup Shifted
    <3>1. CASE i <= Len(s)
      BY <1>1, <1>2, <2>1, <3>1 DEF Counted
    <3>2. CASE ~(i <= Len(s))
      <4>1. i - Len(s) \in Counted(t)
        BY <1>1, <1>2, <2>1, <3>2 DEF Counted
      <4>2. i = Len(s) + (i - Len(s))
        BY <1>1, <1>2, <2>1 DEF Counted
      <4>. QED  BY <4>1, <4>2
    <3>. QED  BY <3>1, <3>2
  <2>2. ASSUME NEW i \in Counted(s)  PROVE i \in Counted(s \o t)
    BY <1>1, <1>2, <2>2 DEF Counted
  <2>3. ASSUME NEW j \in Counted(t)  PROVE Len(s) + j \in Counted(s \o t)
    BY <1>1, <1>2, <2>3 DEF Counted
  <2>. QED  BY <2>1, <2>2, <2>3
<1>4. Counted(t) \subseteq 1..Len(t) /\ Counted(s) \subseteq 1..Len(s)
  BY CountedFinite
<1>5. Counted(s) \cap Shifted = {}
  BY <1>1, <1>4
<1>6. shift \in Bijection(Counted(t), Shifted)
  <2>1. shift \in [Counted(t) -> Shifted]
    OBVIOUS
  <2>2. \A i, j \in Counted(t) : shift[i] = shift[j] => i = j
    BY <1>1, <1>4
  <2>3. \A k \in Shifted : \E j \in Counted(t) : shift[j] = k
    OBVIOUS
  <2>. QED  BY <2>1, <2>2, <2>3 DEF Bijection, Injection, Surjection, IsInjective
<1>7. IsFiniteSet(Shifted) /\ Cardinality(Shifted) = Cardinality(Counted(t))
  BY <1>6, CountedFinite, FS_Bijection DEF ExistsBijection
<1>8. Cardinality(Counted(s) \cap Shifted) = 0
  BY <1>5, FS_EmptySet
<1>9. Cardinality(Counted(s)) \in Nat /\ Cardinality(Counted(t)) \in Nat
  BY CountedFinite
<1>. HIDE DEF Shifted
<1>10. Cardinality(Counted(s) \cup Shifted)
         = Cardinality(Counted(s)) + Cardinality(Shifted) - Cardinality(Counted(s) \cap Shifted)
  BY <1>7, CountedFinite, FS_Union
<1>. QED
  BY <1>3, <1>7, <1>8, <1>9, <1>10

LEMMA CountedSingle ==
  ASSUME NEW S, NEW e \in S
  PROVE  Cardinality(Counted(<<e>>)) = IF e.kind = "vm" THEN 0 ELSE 1
<1>1. DOMAIN <<e>> = {1} /\ <<e>>[1] = e
  OBVIOUS
<1>2. CASE e.kind = "vm"
  <2>1. Counted(<<e>>) = {}
    BY <1>1, <1>2 DEF Counted
  <2>. QED  BY <1>2, <2>1, FS_EmptySet
<1>3. CASE e.kind # "vm"
  <2>1. Counted(<<e>>) = {1}
    BY <1>1, <1>3 DEF Counted
  <2>. QED  BY <1>3, <2>1, FS_Singleton
<1>. QED  BY <1>2, <1>3

LEMMA CountedAppend ==
  ASSUME NEW S, NEW s \in Seq(S), NEW e \in S
  PROVE  Cardinality(Counted(Append(s, e)))
           = Cardinality(Counted(s)) + (IF e.kind = "vm" THEN 0 ELSE 1)
<1>1. Append(s, e) = s \o <<e>> /\ <<e>> \in Seq(S)
  BY AppendIsConcat
<1>. QED  BY <1>1, CountedConcat, CountedSingle

LEMMA CountedTail ==
  ASSUME NEW S, NEW s \in Seq(S), s # <<>>
  PROVE  Cardinality(Counted(s))
           = Cardinality(Counted(Tail(s))) + (IF Head(s).kind = "vm" THEN 0 ELSE 1)
<1>1. Head(s) \in S /\ Tail(s) \in Seq(S) /\ <<Head(s)>> \in Seq(S)
  BY HeadTailProperties
<1>2. s = <<Head(s)>> \o Tail(s)
  BY HeadTailProperties, ConcatProperties, SeqEqual, <1>1
<1>3. Cardinality(Counted(Tail(s))) \in Nat
  BY <1>1, CountedFinite
<1>4. Cardinality(Counted(<<Head(s)>> \o Tail(s)))
        = Cardinality(Counted(<<Head(s)>>)) + Cardinality(Counted(Tail(s)))
  BY <1>1, CountedConcat
<1>5. Cardinality(Counted(<<Head(s)>>)) = IF Head(s).kind = "vm" THEN 0 ELSE 1
  BY <1>1, CountedSingle
<1>6. Cardinality(Counted(s)) = Cardinality(Counted(<<Head(s)>> \o Tail(s)))
  BY <1>2, Zenon
<1>. QED  BY <1>3, <1>4, <1>5, <1>6

\* A sequence without UpdateVMInformation jobs counts all its elements.
LEMMA CountedAll ==
  ASSUME NEW S, NEW s \in Seq(S), \A i \in DOMAIN s : s[i].kind # "vm"
  PROVE  Cardinality(Counted(s)) = Len(s)
<1>1. Counted(s) = 1..Len(s) /\ Len(s) \in Nat
  BY LenProperties DEF Counted
<1>. QED  BY <1>1, FS_Interval

----------------------------------------------------------------------------
\* The rows a step writes are rows.
LEMMA UpdFinishedType ==
  ASSUME NEW table \in [Peers -> Rows]
  PROVE  UpdFinished(table) \in [Peers -> Rows]
BY DEF UpdFinished, Rows, NoRow

LEMMA GotPeerInfoType ==
  ASSUME TypeOK, NEW p \in Peers, NEW st \in Statuses \cup {"undefined"},
         NEW n \in Nat, number_threads # 0, GotPeerInfo(p, st, n)
  PROVE  /\ number_threads' = number_threads + n - 1
         /\ number_threads' \in Nat
         /\ machine_peers_table' \in [Peers -> Rows]
<1> DEFINE table == [machine_peers_table EXCEPT ![p] = [update |-> "new", status |-> st]]
<1>1. table \in [Peers -> Rows]
  BY DEF TypeOK, Rows
<1>2. UpdFinished(table) \in [Peers -> Rows]
  BY <1>1, UpdFinishedType
<1>3. /\ number_threads' = number_threads + n - 1
      /\ machine_peers_table' = IF number_threads' = 0 THEN UpdFinished(table) ELSE table
  BY DEF GotPeerInfo
<1>. HIDE DEF table
<1>. QED  BY <1>1, <1>2, <1>3 DEF TypeOK

\* The jobs search_local queues, in whatever order Vagrant lists the peers.
LEMMA OrderType ==
  ASSUME NEW asked \in SUBSET Peers, NEW order \in SetToSeqs(asked)
  PROVE  LET jobs == [i \in DOMAIN order |-> [kind |-> "status", peer |-> order[i]]]
         IN  /\ jobs \in Seq(Jobs)
             /\ Len(jobs) = Len(order) /\ Len(order) \in Nat
             /\ \A i \in DOMAIN jobs : jobs[i].kind # "vm"
<1> DEFINE jobs == [i \in DOMAIN order |-> [kind |-> "status", peer |-> order[i]]]
           n == Cardinality(asked)
<1>1. IsFiniteSet(asked)
  BY PeersAssumption, FS_Subset
<1>2. n \in Nat
  BY <1>1, FS_CardinalityType
<1>3. order \in [1..n -> asked]
  BY DEF SetToSeqs
<1>. HIDE DEF n
<1>4. order \in Seq(asked) /\ Len(order) = n
  BY <1>2, <1>3
<1>5. jobs \in [1..n -> Jobs] /\ DOMAIN jobs = 1..n
  BY <1>3 DEF Jobs
<1>6. jobs \in Seq(Jobs) /\ Len(jobs) = n
  BY <1>2, <1>5
<1>. QED  BY <1>2, <1>4, <1>6

----------------------------------------------------------------------------
\* Every step keeps the types, one lemma for each part of the system.

LEMMA InitType == Init => TypeOK
<1> SUFFICES ASSUME Init PROVE TypeOK
  OBVIOUS
<1>1. NoRow \in Rows /\ NoThread \in Threads
  BY DEF NoRow, Rows, NoThread, Threads, Statuses
<1>. QED  BY <1>1 DEF Init, TypeOK, VmStates

\* refresh() and the worker of the pool.
LEMMA PoolType ==
  ASSUME TypeOK, Refresh \/ RunJob
  PROVE  TypeOK'
<1>1. CASE Refresh
  <2>1. pool' \in Seq(Jobs)
    BY <1>1, AppendProperties DEF Refresh, TypeOK, Jobs
  <2>. QED  BY <1>1, <2>1 DEF Refresh, TypeOK, mainVars, commandVars
<1>2. CASE RunVmJob
  <2>1. pool' \in Seq(Jobs)
    BY <1>2, HeadTailProperties DEF RunVmJob, TypeOK
  <2>2. done' \in Seq(Results)
    BY <1>2, AppendProperties DEF RunVmJob, TypeOK, Results
  <2>. QED  BY <1>2, <2>1, <2>2 DEF RunVmJob, TypeOK, mainVars, commandVars
<1>3. CASE RunStatusJob
  <2>1. pool' \in Seq(Jobs) /\ Head(pool) \in Jobs
    BY <1>3, HeadTailProperties DEF RunStatusJob, TypeOK
  <2>2. Head(pool).peer \in Peers
    BY <1>3, <2>1 DEF RunStatusJob, Jobs, VmJob
  <2>3. done' \in Seq(Results)
    BY <1>3, <2>2, AppendProperties DEF RunStatusJob, TypeOK, Results, VmStates, Statuses
  <2>. QED  BY <1>3, <2>1, <2>3 DEF RunStatusJob, TypeOK, mainVars, commandVars
<1>4. CASE RunPortJob
  <2>1. pool' \in Seq(Jobs) /\ Head(pool) \in Jobs
    BY <1>4, HeadTailProperties DEF RunPortJob, TypeOK
  <2>2. Head(pool).peer \in Peers
    BY <1>4, <2>1 DEF RunPortJob, Jobs, VmJob
  <2>3. done' \in Seq(Results)
    BY <1>4, <2>2, AppendProperties DEF RunPortJob, TypeOK, Results
  <2>. QED  BY <1>4, <2>1, <2>3 DEF RunPortJob, TypeOK, mainVars, commandVars
<1>. QED  BY <1>1, <1>2, <1>3, <1>4 DEF RunJob

\* A thread that has begun moves on to another stage.
LEMMA StageType ==
  ASSUME TypeOK, NEW c \in Commands, command[c].stage # "unused",
         NEW st \in {"clicked", "window", "failed", "refused", "over"}
  PROVE  [command EXCEPT ![c].stage = st] \in [Commands -> Threads]
<1> DEFINE begun == [stage : {"clicked", "window", "failed", "refused", "over"}, peer : Peers, op : Ops]
<1>1. command[c] \in begun
  BY DEF TypeOK, Threads, NoThread
<1>2. [command[c] EXCEPT !.stage = st] \in begun
  BY <1>1
<1>3. [command[c] EXCEPT !.stage = st] \in Threads
  BY <1>2 DEF Threads
<1>4. [command EXCEPT ![c].stage = st]
        = [command EXCEPT ![c] = [command[c] EXCEPT !.stage = st]]
  BY DEF TypeOK
<1>. HIDE DEF begun
<1>. QED  BY <1>3, <1>4, Zenon DEF TypeOK

\* A command leaves its machine in one of the states of machines.
LEMMA AfterType ==
  ASSUME TypeOK, NEW c \in Commands, TerminalEnds(c)
  PROVE  vm' \in [Peers -> VmStates]
<1> DEFINE p == command[c].peer
           after == After(command[c].op, vm[p])
<1>1. vm' = vm \/ vm' = [vm EXCEPT ![p] = after]
  BY DEF TerminalEnds
<1>2. CASE p \in Peers
  <2>1. vm[p] \in VmStates
    BY <1>2 DEF TypeOK
  <2>2. after \in VmStates
    BY <2>1 DEF After, VmStates
  <2>. HIDE DEF after, p
  <2>. QED  BY <1>1, <2>2 DEF TypeOK
<1>3. CASE p \notin Peers
  <2>. HIDE DEF after, p
  <2>. QED  BY <1>1, <1>3 DEF TypeOK
<1>. QED  BY <1>2, <1>3

\* The terminal commands, and the peers other programs create.
LEMMA CommandType ==
  ASSUME TypeOK, NEW p \in Peers,
         \/ DialogRefreshed(p) \/ RemoveNotCreated(p) \/ PeerCreated(p)
         \/ \E c \in Commands, op \in Ops : Click(c, p, op)
         \/ \E c \in Commands : StartTerminal(c) \/ WindowEnds(c) \/ TerminalEnds(c)
  PROVE  TypeOK'
<1> USE DEF TypeOK, mainVars, queueVars, commandVars
<1>1. CASE DialogRefreshed(p)
  BY <1>1 DEF DialogRefreshed
<1>2. CASE RemoveNotCreated(p)
  BY <1>2 DEF RemoveNotCreated, VmStates
<1>3. CASE PeerCreated(p)
  BY <1>3 DEF PeerCreated, VmStates
<1>4. ASSUME NEW c \in Commands, NEW op \in Ops, Click(c, p, op)  PROVE TypeOK'
  BY <1>4 DEF Click, Threads
<1>5. ASSUME NEW c \in Commands, StartTerminal(c)  PROVE TypeOK'
  <2>1. command[c].peer \in Peers /\ command[c].op \in Ops
    BY <1>5 DEF StartTerminal, Threads, NoThread
  <2>2. command' \in [Commands -> Threads]
    <3>1. \/ command' = [command EXCEPT ![c].stage = "window"]
          \/ command' = [command EXCEPT ![c].stage = "failed"]
          \/ command' = [command EXCEPT ![c].stage = "refused"]
      BY <1>5 DEF StartTerminal
    <3>2. command[c].stage # "unused"
      BY <1>5 DEF StartTerminal
    <3>3. \A st \in {"window", "failed", "refused"} :
            [command EXCEPT ![c].stage = st] \in [Commands -> Threads]
      BY <3>2, StageType
    <3>. QED  BY <3>1, <3>3, Zenon
  <2>. QED  BY <1>5, <2>1, <2>2 DEF StartTerminal
<1>6. ASSUME NEW c \in Commands, WindowEnds(c)  PROVE TypeOK'
  <2>1. command[c].peer \in Peers /\ command[c].op \in Ops
    BY <1>6 DEF WindowEnds, Threads, NoThread
  <2>2. command' \in [Commands -> Threads]
    BY <1>6, StageType DEF WindowEnds
  <2>. QED  BY <1>6, <2>1, <2>2 DEF WindowEnds
<1>7. ASSUME NEW c \in Commands, TerminalEnds(c)  PROVE TypeOK'
  <2>1. vm' \in [Peers -> VmStates]
    BY <1>7, AfterType
  <2>. QED  BY <1>7, <2>1 DEF TerminalEnds
<1>. QED  BY <1>1, <1>2, <1>3, <1>4, <1>5, <1>6, <1>7

\* check_logs queues one refresh for each peer it has just removed.
LEMMA CheckLogsQueue ==
  ASSUME TypeOK, CheckLogs
  PROVE  \E k \in Nat : /\ pool' = pool \o [i \in 1..k |-> VmJob]
                        /\ [i \in 1..k |-> VmJob] \in Seq(Jobs)
                        /\ number_threads' \in {number_threads, 0}
<1> DEFINE ended == {c \in Commands : terminal[c] \in {"finished", "failed"}}
           destroyed == {command[c].peer : c \in {d \in ended :
                           terminal[d] = "finished" /\ command[d].op = "destroy"}}
<1>1. destroyed \subseteq Peers \cup {NoPeer}
  BY DEF TypeOK, Threads, NoThread
<1>2. IsFiniteSet(Peers \cup {NoPeer})
  BY PeersAssumption, FS_AddElement
<1>3. Cardinality(destroyed) \in Nat
  BY <1>1, <1>2, FS_Subset, FS_CardinalityType
<1>4. pool' = pool \o [i \in 1..Cardinality(destroyed) |-> VmJob]
  BY DEF CheckLogs
<1>5. \A k \in Nat : [i \in 1..k |-> VmJob] \in Seq(Jobs)
  BY DEF Jobs
<1>6. number_threads' \in {number_threads, 0}
  BY DEF CheckLogs
<1>. HIDE DEF destroyed
<1>. QED  BY <1>3, <1>4, <1>5, <1>6

LEMMA CheckLogsType ==
  ASSUME TypeOK, CheckLogs
  PROVE  TypeOK'
<1>1. PICK k \in Nat : /\ pool' = pool \o [i \in 1..k |-> VmJob]
                       /\ [i \in 1..k |-> VmJob] \in Seq(Jobs)
                       /\ number_threads' \in {number_threads, 0}
  BY CheckLogsQueue
<1>2. pool' \in Seq(Jobs) /\ number_threads' \in Nat
  BY <1>1, ConcatProperties DEF TypeOK
<1>3. vm' \in [Peers -> VmStates]
  BY DEF CheckLogs, TypeOK, VmStates
<1>4. terminal' \in [Commands -> {"none", "running", "finished", "failed"}]
  BY DEF CheckLogs, TypeOK
<1>. QED  BY <1>2, <1>3, <1>4 DEF CheckLogs, TypeOK

\* The answers the main thread takes: what they do to the queues and the count.
LEMMA DeliverVmJobStep ==
  ASSUME TypeOK, DeliverVmJob
  PROVE  /\ TypeOK'
         /\ \E jobs \in Seq(Jobs) : /\ pool' = pool \o jobs
                                    /\ \A i \in DOMAIN jobs : jobs[i].kind # "vm"
                                    /\ number_threads' = number_threads + Len(jobs)
<1> DEFINE found == Head(done).found
           searched == IF found # {} THEN found ELSE {p \in Peers : vm[p] # "absent"}
           asked == searched \ running_commands
<1>1. Head(done) \in Results /\ done' \in Seq(Results)
  BY HeadTailProperties DEF DeliverVmJob, TypeOK
<1>2. asked \in SUBSET Peers
  BY <1>1 DEF Results
<1>3. PICK order \in SetToSeqs(asked) :
        /\ pool' = pool \o [i \in DOMAIN order |-> [kind |-> "status", peer |-> order[i]]]
        /\ number_threads' = number_threads + Len(order)
        /\ checking_statutes' = checking_statutes \cup asked
        /\ machine_peers_table' = IF number_threads' = 0 THEN UpdFinished(machine_peers_table)
                                                         ELSE machine_peers_table
  BY DEF DeliverVmJob
<1> DEFINE jobs == [i \in DOMAIN order |-> [kind |-> "status", peer |-> order[i]]]
<1>4. /\ jobs \in Seq(Jobs) /\ Len(jobs) = Len(order) /\ Len(order) \in Nat
      /\ \A i \in DOMAIN jobs : jobs[i].kind # "vm"
  <2>. HIDE DEF asked
  <2>. QED  BY <1>2, OrderType
<1>5. pool' = pool \o jobs
  BY <1>3
<1>. HIDE DEF jobs, asked
<1>6. pool' \in Seq(Jobs) /\ number_threads' \in Nat
  <2>1. pool' \in Seq(Jobs)
    BY <1>4, <1>5, ConcatProperties DEF TypeOK
  <2>2. number_threads' \in Nat
    BY <1>3, <1>4 DEF TypeOK
  <2>. QED  BY <2>1, <2>2
<1>7. machine_peers_table' \in [Peers -> Rows]
  BY <1>3, UpdFinishedType DEF TypeOK
<1>8. TypeOK'
  BY <1>1, <1>2, <1>3, <1>6, <1>7 DEF TypeOK, DeliverVmJob, commandVars
<1>. QED  BY <1>3, <1>4, <1>5, <1>8

LEMMA DeliverStatusStep ==
  ASSUME TypeOK, DeliverStatus
  PROVE  /\ TypeOK'
         /\ rest' = rest
         /\ \/ pool' = pool /\ number_threads = 0 /\ number_threads' = 0
            \/ pool' = pool /\ number_threads' = number_threads - 1
            \/ /\ \E p \in Peers : pool' = Append(pool, [kind |-> "port", peer |-> p])
               /\ number_threads' = number_threads
<1> DEFINE p == Head(done).peer
           out == Head(done).output
<1>1. Head(done) \in Results /\ done' \in Seq(Results)
  BY HeadTailProperties DEF DeliverStatus, TypeOK
<1>2. p \in Peers /\ out \in Statuses
  BY <1>1 DEF DeliverStatus, Results
<1>3. /\ checking_statutes' = checking_statutes \ {p}
      /\ \/ number_threads = 0 /\ Ignored /\ UNCHANGED pool
         \/ /\ number_threads # 0 /\ UNCHANGED rest
            /\ pool' = Append(pool, [kind |-> "port", peer |-> p])
            /\ GotPeerInfo(p, out, 1)
         \/ number_threads # 0 /\ UNCHANGED rest /\ UNCHANGED pool /\ GotPeerInfo(p, out, 0)
  BY DEF DeliverStatus
<1>. HIDE DEF p, out
<1>4. CASE number_threads = 0 /\ Ignored /\ UNCHANGED pool
  BY <1>1, <1>3, <1>4 DEF TypeOK, DeliverStatus, Ignored, commandVars
<1>5. CASE /\ number_threads # 0 /\ UNCHANGED rest
           /\ pool' = Append(pool, [kind |-> "port", peer |-> p])
           /\ GotPeerInfo(p, out, 1)
  <2>1. number_threads' = number_threads /\ machine_peers_table' \in [Peers -> Rows]
    BY <1>2, <1>5, GotPeerInfoType DEF TypeOK
  <2>2. pool' \in Seq(Jobs)
    BY <1>2, <1>5, AppendProperties DEF TypeOK, Jobs
  <2>3. TypeOK'
    BY <1>1, <1>3, <1>5, <2>1, <2>2 DEF TypeOK, DeliverStatus, commandVars
  <2>. QED  BY <1>2, <1>5, <2>1, <2>3
<1>6. CASE number_threads # 0 /\ UNCHANGED rest /\ UNCHANGED pool /\ GotPeerInfo(p, out, 0)
  <2>1. /\ number_threads' = number_threads - 1 /\ number_threads' \in Nat
        /\ machine_peers_table' \in [Peers -> Rows]
    BY <1>2, <1>6, GotPeerInfoType DEF TypeOK
  <2>2. TypeOK'
    BY <1>1, <1>3, <1>6, <2>1 DEF TypeOK, DeliverStatus, commandVars
  <2>. QED  BY <1>6, <2>1, <2>2
<1>. QED  BY <1>3, <1>4, <1>5, <1>6

LEMMA DeliverPortStep ==
  ASSUME TypeOK, DeliverPort
  PROVE  /\ TypeOK'
         /\ pool' = pool
         /\ \/ rest' = rest /\ number_threads = 0 /\ number_threads' = 0
            \/ rest' = rest /\ number_threads' = number_threads - 1
            \/ Len(rest') = Len(rest) + 2 /\ number_threads' = number_threads + 1
<1> DEFINE p == Head(done).peer
           st == machine_peers_table[p].status
<1>1. Head(done) \in Results /\ done' \in Seq(Results)
  BY HeadTailProperties DEF DeliverPort, TypeOK
<1>2. p \in Peers
  BY <1>1 DEF DeliverPort, Results
<1>3. st \in Statuses \cup {"undefined"}
  BY <1>2 DEF TypeOK, Rows
<1>4. \/ number_threads = 0 /\ Ignored
      \/ number_threads # 0 /\ rest' = rest \o <<p, p>> /\ GotPeerInfo(p, st, 2)
      \/ number_threads # 0 /\ UNCHANGED rest /\ GotPeerInfo(p, st, 0)
  BY DEF DeliverPort
<1>. HIDE DEF p, st
<1>5. CASE number_threads = 0 /\ Ignored
  BY <1>1, <1>5 DEF TypeOK, DeliverPort, Ignored, commandVars
<1>6. CASE number_threads # 0 /\ rest' = rest \o <<p, p>> /\ GotPeerInfo(p, st, 2)
  <2>1. /\ number_threads' = number_threads + 1 /\ number_threads' \in Nat
        /\ machine_peers_table' \in [Peers -> Rows]
    <3>1. /\ number_threads' = number_threads + 2 - 1 /\ number_threads' \in Nat
          /\ machine_peers_table' \in [Peers -> Rows]
      BY <1>2, <1>3, <1>6, GotPeerInfoType
    <3>. QED  BY <3>1 DEF TypeOK
  <2>2. <<p, p>> \in Seq(Peers) /\ Len(<<p, p>>) = 2
    BY <1>2
  <2>3. rest' \in Seq(Peers) /\ Len(rest') = Len(rest) + 2
    BY <1>6, <2>2, ConcatProperties DEF TypeOK
  <2>4. TypeOK'
    BY <1>1, <2>1, <2>3 DEF TypeOK, DeliverPort, commandVars
  <2>. QED  BY <2>1, <2>3, <2>4 DEF DeliverPort
<1>7. CASE number_threads # 0 /\ UNCHANGED rest /\ GotPeerInfo(p, st, 0)
  <2>1. /\ number_threads' = number_threads - 1 /\ number_threads' \in Nat
        /\ machine_peers_table' \in [Peers -> Rows]
    BY <1>2, <1>3, <1>7, GotPeerInfoType DEF TypeOK
  <2>2. TypeOK'
    BY <1>1, <1>7, <2>1 DEF TypeOK, DeliverPort, commandVars
  <2>. QED  BY <1>7, <2>1, <2>2 DEF DeliverPort
<1>. QED  BY <1>4, <1>5, <1>6, <1>7

\* Removing one element shortens a sequence by one.
LEMMA RemoveAtLen ==
  ASSUME NEW S, NEW s \in Seq(S), NEW i \in DOMAIN s
  PROVE  RemoveAt(s, i) \in Seq(S) /\ Len(RemoveAt(s, i)) = Len(s) - 1
<1>1. /\ Len(s) \in Nat /\ DOMAIN s = 1..Len(s) /\ s \in [1..Len(s) -> S]
      /\ i \in 1..Len(s)
  BY LenProperties
<1>2. SubSeq(s, 1, i-1) \in Seq(S) /\ Len(SubSeq(s, 1, i-1)) = i - 1
  <2>1. \A j \in 1..(i-1) : s[j] \in S
    BY <1>1
  <2>. QED  BY <1>1, <2>1, SubSeqProperties
<1>3. SubSeq(s, i+1, Len(s)) \in Seq(S) /\ Len(SubSeq(s, i+1, Len(s))) = Len(s) - i
  <2>1. \A j \in (i+1)..Len(s) : s[j] \in S
    BY <1>1
  <2>. QED  BY <1>1, <2>1, SubSeqProperties
<1>. QED  BY <1>1, <1>2, <1>3, ConcatProperties DEF RemoveAt

LEMMA RestFinishedStep ==
  ASSUME TypeOK, RestFinished
  PROVE  /\ TypeOK'
         /\ pool' = pool /\ done' = done
         /\ Len(rest') = Len(rest) - 1
         /\ \/ number_threads = 0 /\ number_threads' = 0
            \/ number_threads' = number_threads - 1
<1>1. PICK i \in DOMAIN rest :
        LET p == rest[i] IN
         /\ IF number_threads = 0
            THEN UNCHANGED <<number_threads, machine_peers_table>>
            ELSE GotPeerInfo(p, machine_peers_table[p].status, 0)
         /\ rest' = RemoveAt(rest, i)
  BY DEF RestFinished
<1>2. rest' \in Seq(Peers) /\ Len(rest') = Len(rest) - 1
  BY <1>1, RemoveAtLen DEF TypeOK
<1>3. rest[i] \in Peers
  BY LenProperties DEF TypeOK
<1>4. machine_peers_table[rest[i]].status \in Statuses \cup {"undefined"}
  BY <1>3 DEF TypeOK, Rows
<1>5. CASE number_threads = 0
  BY <1>1, <1>2, <1>5 DEF TypeOK, RestFinished, commandVars
<1>6. CASE number_threads # 0
  <2>1. /\ number_threads' = number_threads - 1 /\ number_threads' \in Nat
        /\ machine_peers_table' \in [Peers -> Rows]
    BY <1>1, <1>3, <1>4, <1>6, GotPeerInfoType DEF TypeOK
  <2>2. TypeOK'
    BY <1>2, <2>1 DEF TypeOK, RestFinished, commandVars
  <2>. QED  BY <1>2, <2>1, <2>2 DEF RestFinished
<1>. QED  BY <1>5, <1>6

LEMMA NextType == TypeOK /\ [Next]_vars => TypeOK'
<1> SUFFICES ASSUME TypeOK, [Next]_vars  PROVE TypeOK'
  OBVIOUS
<1>1. CASE RefreshTimerTimeout \/ CreatePeerDialogOpened \/ RunJob
  BY <1>1, PoolType DEF RefreshTimerTimeout, CreatePeerDialogOpened
<1>2. CASE Deliver
  BY <1>2, DeliverVmJobStep, DeliverStatusStep, DeliverPortStep DEF Deliver
<1>3. CASE RestFinished
  BY <1>3, RestFinishedStep
<1>4. CASE CheckLogs
  BY <1>4, CheckLogsType
<1>5. ASSUME NEW p \in Peers,
             \/ DialogRefreshed(p) \/ RemoveNotCreated(p) \/ PeerCreated(p)
             \/ \E c \in Commands, op \in Ops : Click(c, p, op)
      PROVE  TypeOK'
  BY <1>5, CommandType
<1>6. ASSUME NEW c \in Commands, StartTerminal(c) \/ WindowEnds(c) \/ TerminalEnds(c)
      PROVE  TypeOK'
  <2>1. CASE Peers # {}
    <3>1. PICK p \in Peers : TRUE
      BY <2>1
    <3>. QED  BY <1>6, <3>1, CommandType
  <2>2. CASE Peers = {}
    <3>1. command[c] = NoThread
      BY <2>2 DEF TypeOK, Threads
    <3>2. CASE TerminalEnds(c)
      <4>1. vm' \in [Peers -> VmStates]
        BY <3>2, AfterType
      <4>. QED  BY <3>2, <4>1 DEF TerminalEnds, TypeOK, mainVars, queueVars
    <3>3. CASE StartTerminal(c) \/ WindowEnds(c)
      BY <3>1, <3>3 DEF StartTerminal, WindowEnds, NoThread
    <3>. QED  BY <1>6, <3>2, <3>3
  <2>. QED  BY <2>1, <2>2
<1>7. CASE UNCHANGED vars
  BY <1>7 DEF vars, mainVars, queueVars, commandVars, TypeOK
<1>. QED
  BY <1>1, <1>2, <1>3, <1>4, <1>5, <1>6, <1>7 DEF Next, RunJob, Deliver

\* The variables of PeerController keep their types: in particular
\* number_threads, decremented by answers that may be stale, never becomes
\* negative.
THEOREM TypeCorrect == Spec => []TypeOK
BY InitType, NextType, PTL DEF Spec

----------------------------------------------------------------------------
\* The count and the answers that will still arrive.

LEMMA CountInit == Init => CountIsCovered
<1> SUFFICES ASSUME Init  PROVE CountIsCovered
  OBVIOUS
<1>1. Counted(<<>>) = {}
  BY DEF Counted
<1>2. Cardinality(Counted(pool)) = 0 /\ Cardinality(Counted(done)) = 0 /\ Len(rest) = 0
  BY <1>1, FS_EmptySet DEF Init
<1>. QED  BY <1>2 DEF Init, CountIsCovered, Outstanding

\* The three counts are natural numbers.
LEMMA OutstandingType ==
  ASSUME TypeOK
  PROVE  /\ Cardinality(Counted(pool)) \in Nat
         /\ Cardinality(Counted(done)) \in Nat
         /\ Len(rest) \in Nat
BY CountedFinite, LenProperties DEF TypeOK

\* A result is counted as long as the job it comes from was.
LEMMA RunJobCount ==
  ASSUME TypeOK, RunJob
  PROVE  /\ Cardinality(Counted(pool')) + Cardinality(Counted(done'))
              = Cardinality(Counted(pool)) + Cardinality(Counted(done))
         /\ rest' = rest /\ number_threads' = number_threads
<1>1. /\ pool # <<>> /\ pool' = Tail(pool)
      /\ rest' = rest /\ number_threads' = number_threads
  BY DEF RunJob, RunVmJob, RunStatusJob, RunPortJob, mainVars
<1>2. \E r \in Results : done' = Append(done, r) /\ r.kind = Head(pool).kind
  <2>1. CASE RunVmJob
    BY <2>1 DEF RunVmJob, Results
  <2>2. ASSUME RunStatusJob \/ RunPortJob  PROVE Head(pool).peer \in Peers
    <3>1. Head(pool) \in Jobs
      BY <1>1, HeadTailProperties DEF TypeOK
    <3>. QED  BY <2>2, <3>1 DEF RunStatusJob, RunPortJob, Jobs, VmJob
  <2>3. CASE RunStatusJob
    <3>1. (IF vm[Head(pool).peer] = "absent" THEN "not_created" ELSE vm[Head(pool).peer])
             \in Statuses
      BY <2>2, <2>3 DEF TypeOK, VmStates, Statuses
    <3>. QED  BY <2>2, <2>3, <3>1 DEF RunStatusJob, Results
  <2>4. CASE RunPortJob
    <3>1. PICK out \in {"undefined", "port"} :
            done' = Append(done, [kind |-> "port", peer |-> Head(pool).peer,
                                  output |-> out, found |-> {}])
      BY <2>4 DEF RunPortJob
    <3>2. [kind |-> "port", peer |-> Head(pool).peer, output |-> out, found |-> {}]
            \in Results
      BY <2>2, <2>4, <3>1 DEF Results
    <3>. QED  BY <2>4, <3>1, <3>2 DEF RunPortJob
  <2>. QED  BY <2>1, <2>3, <2>4 DEF RunJob
<1>3. PICK r \in Results : done' = Append(done, r) /\ r.kind = Head(pool).kind
  BY <1>2
<1>4. Cardinality(Counted(done'))
        = Cardinality(Counted(done)) + (IF r.kind = "vm" THEN 0 ELSE 1)
  BY <1>3, CountedAppend DEF TypeOK
<1>5. Cardinality(Counted(pool))
        = Cardinality(Counted(pool')) + (IF Head(pool).kind = "vm" THEN 0 ELSE 1)
  BY <1>1, CountedTail DEF TypeOK
<1>6. Cardinality(Counted(pool')) \in Nat
  BY <1>1, HeadTailProperties, CountedFinite DEF TypeOK
<1>. QED  BY <1>1, <1>3, <1>4, <1>5, <1>6, OutstandingType

\* Each answer the main thread takes brings back the unit of the count that
\* stands for it, unless the count was forgotten.
LEMMA DeliverBalance ==
  ASSUME TypeOK, Deliver
  PROVE  /\ Outstanding \in Nat /\ Outstanding' \in Nat /\ number_threads' \in Nat
         /\ \/ number_threads' - number_threads = Outstanding' - Outstanding
            \/ number_threads = 0 /\ number_threads' = 0 /\ Outstanding' = Outstanding - 1
<1>1. TypeOK'
  BY DeliverVmJobStep, DeliverStatusStep, DeliverPortStep DEF Deliver
<1>2. done # <<>> /\ done' = Tail(done)
  BY DEF Deliver, DeliverVmJob, DeliverStatus, DeliverPort
<1>3. Cardinality(Counted(done))
        = Cardinality(Counted(done')) + (IF Head(done).kind = "vm" THEN 0 ELSE 1)
  BY <1>2, CountedTail DEF TypeOK
<1>4. /\ Cardinality(Counted(pool')) \in Nat
      /\ Cardinality(Counted(done')) \in Nat
      /\ Len(rest') \in Nat
  BY <1>1, CountedFinite, LenProperties DEF TypeOK
<1>5. /\ Cardinality(Counted(pool)) \in Nat /\ Cardinality(Counted(done)) \in Nat
      /\ Len(rest) \in Nat /\ number_threads \in Nat /\ number_threads' \in Nat
  BY <1>1, OutstandingType DEF TypeOK
<1>6. CASE DeliverVmJob
  <2>1. PICK jobs \in Seq(Jobs) : /\ pool' = pool \o jobs
                                  /\ \A i \in DOMAIN jobs : jobs[i].kind # "vm"
                                  /\ number_threads' = number_threads + Len(jobs)
    BY <1>6, DeliverVmJobStep
  <2>2. Cardinality(Counted(pool')) = Cardinality(Counted(pool)) + Cardinality(Counted(jobs))
    BY <2>1, CountedConcat DEF TypeOK
  <2>3. Cardinality(Counted(jobs)) = Len(jobs) /\ Len(jobs) \in Nat
    BY <2>1, CountedAll, LenProperties
  <2>4. rest' = rest /\ Cardinality(Counted(done)) = Cardinality(Counted(done'))
    BY <1>3, <1>4, <1>6 DEF DeliverVmJob
  <2>5. Outstanding' = Outstanding + Len(jobs)
    BY <1>4, <1>5, <2>2, <2>3, <2>4 DEF Outstanding
  <2>6. Outstanding \in Nat /\ Outstanding' \in Nat
    BY <1>4, <1>5 DEF Outstanding
  <2>. QED  BY <1>5, <2>1, <2>3, <2>5, <2>6
<1>7. CASE DeliverStatus
  <2>1. Cardinality(Counted(done)) = Cardinality(Counted(done')) + 1
    BY <1>3, <1>4, <1>7 DEF DeliverStatus
  <2>2. /\ rest' = rest
        /\ \/ pool' = pool /\ number_threads = 0 /\ number_threads' = 0
           \/ pool' = pool /\ number_threads' = number_threads - 1
           \/ /\ \E p \in Peers : pool' = Append(pool, [kind |-> "port", peer |-> p])
              /\ number_threads' = number_threads
    BY <1>7, DeliverStatusStep
  <2>0. Outstanding \in Nat /\ Outstanding' \in Nat
    BY <1>4, <1>5 DEF Outstanding
  <2>a. ASSUME pool' = pool PROVE Outstanding' = Outstanding - 1
    BY <1>4, <1>5, <2>1, <2>2, <2>a DEF Outstanding
  <2>3. CASE pool' = pool /\ number_threads = 0 /\ number_threads' = 0
    BY <1>5, <2>0, <2>a, <2>3
  <2>4. CASE pool' = pool /\ number_threads' = number_threads - 1
    BY <1>5, <2>0, <2>a, <2>4
  <2>5. CASE /\ \E p \in Peers : pool' = Append(pool, [kind |-> "port", peer |-> p])
             /\ number_threads' = number_threads
    <3>1. PICK p \in Peers : pool' = Append(pool, [kind |-> "port", peer |-> p])
      BY <2>5
    <3>2. [kind |-> "port", peer |-> p] \in Jobs
      BY DEF Jobs
    <3>3. Cardinality(Counted(pool')) = Cardinality(Counted(pool)) + 1
      BY <3>1, <3>2, CountedAppend DEF TypeOK
    <3>4. Outstanding' = Outstanding
      BY <1>4, <1>5, <2>1, <2>2, <3>3 DEF Outstanding
    <3>. QED  BY <1>5, <2>0, <2>5, <3>4
  <2>. QED  BY <2>2, <2>3, <2>4, <2>5
<1>8. CASE DeliverPort
  <2>1. Cardinality(Counted(done)) = Cardinality(Counted(done')) + 1
    BY <1>3, <1>4, <1>8 DEF DeliverPort
  <2>2. /\ pool' = pool
        /\ \/ rest' = rest /\ number_threads = 0 /\ number_threads' = 0
           \/ rest' = rest /\ number_threads' = number_threads - 1
           \/ Len(rest') = Len(rest) + 2 /\ number_threads' = number_threads + 1
    BY <1>8, DeliverPortStep
  <2>3. Outstanding' = Outstanding - 1 + Len(rest') - Len(rest)
    BY <1>4, <1>5, <2>1, <2>2 DEF Outstanding
  <2>4. Outstanding \in Nat /\ Outstanding' \in Nat
    BY <1>4, <1>5 DEF Outstanding
  <2>. QED  BY <1>4, <1>5, <2>2, <2>3, <2>4
<1>. QED  BY <1>6, <1>7, <1>8 DEF Deliver

LEMMA DeliverCount ==
  ASSUME TypeOK, CountIsCovered, Deliver
  PROVE  CountIsCovered'
<1>1. number_threads \in Nat
  BY DEF TypeOK
<1>2. /\ Outstanding \in Nat /\ Outstanding' \in Nat /\ number_threads' \in Nat
      /\ \/ number_threads' - number_threads = Outstanding' - Outstanding
         \/ number_threads = 0 /\ number_threads' = 0 /\ Outstanding' = Outstanding - 1
  BY DeliverBalance
<1>3. number_threads <= Outstanding
  BY DEF CountIsCovered
<1>4. number_threads' <= Outstanding'
  <2>. HIDE DEF CountIsCovered
  <2>. QED  BY <1>1, <1>2, <1>3
<1>. QED  BY <1>4 DEF CountIsCovered

\* check_logs only adds UpdateVMInformation jobs, and may forget the count.
LEMMA CheckLogsCount ==
  ASSUME TypeOK, CountIsCovered, CheckLogs
  PROVE  CountIsCovered'
<1>1. PICK k \in Nat : /\ pool' = pool \o [i \in 1..k |-> VmJob]
                       /\ [i \in 1..k |-> VmJob] \in Seq(Jobs)
                       /\ number_threads' \in {number_threads, 0}
  BY CheckLogsQueue
<1> DEFINE jobs == [i \in 1..k |-> VmJob]
<1>2. Counted(jobs) = {}
  BY DEF Counted, VmJob
<1>3. Cardinality(Counted(jobs)) = 0
  BY <1>2, FS_EmptySet
<1>4. jobs \in Seq(Jobs) /\ pool' = pool \o jobs
  BY <1>1
<1>. HIDE DEF jobs
<1>5. Cardinality(Counted(pool')) = Cardinality(Counted(pool)) + Cardinality(Counted(jobs))
  BY <1>4, CountedConcat DEF TypeOK
<1>6. done' = done /\ rest' = rest
  BY DEF CheckLogs
<1>7. number_threads \in Nat
  BY DEF TypeOK
<1>. QED
  BY <1>1, <1>3, <1>5, <1>6, <1>7, OutstandingType DEF CountIsCovered, Outstanding

LEMMA NextCount == TypeOK /\ CountIsCovered /\ [Next]_vars => CountIsCovered'
<1> SUFFICES ASSUME TypeOK, CountIsCovered, [Next]_vars  PROVE CountIsCovered'
  OBVIOUS
<1>1. CASE Refresh
  <2>1. Cardinality(Counted(pool')) = Cardinality(Counted(pool))
    <3>1. VmJob \in Jobs /\ VmJob.kind = "vm"
      BY DEF Jobs, VmJob
    <3>2. Cardinality(Counted(Append(pool, VmJob)))
            = Cardinality(Counted(pool)) + (IF VmJob.kind = "vm" THEN 0 ELSE 1)
      BY <3>1, CountedAppend DEF TypeOK
    <3>. QED  BY <1>1, <3>1, <3>2, OutstandingType DEF Refresh
  <2>. QED  BY <1>1, <2>1 DEF Refresh, mainVars, CountIsCovered, Outstanding
<1>2. CASE RunJob
  <2>1. Outstanding' = Outstanding /\ number_threads' = number_threads
    BY <1>2, RunJobCount DEF Outstanding
  <2>. QED  BY <2>1 DEF CountIsCovered
<1>3. CASE Deliver
  BY <1>3, DeliverCount
<1>4. CASE RestFinished
  <2>1. number_threads \in Nat
    BY DEF TypeOK
  <2>. QED
    BY <1>4, <2>1, RestFinishedStep, OutstandingType DEF CountIsCovered, Outstanding
<1>5. CASE CheckLogs
  BY <1>5, CheckLogsCount
<1>6. CASE \/ \E p \in Peers : DialogRefreshed(p) \/ RemoveNotCreated(p) \/ PeerCreated(p)
           \/ \E c \in Commands, p \in Peers, op \in Ops : Click(c, p, op)
           \/ \E c \in Commands : StartTerminal(c) \/ WindowEnds(c) \/ TerminalEnds(c)
           \/ UNCHANGED vars
  <2>1. UNCHANGED <<number_threads, pool, done, rest>>
    BY <1>6 DEF DialogRefreshed, RemoveNotCreated, PeerCreated, Click, StartTerminal,
                WindowEnds, TerminalEnds, vars, mainVars, queueVars
  <2>. QED  BY <2>1 DEF CountIsCovered, Outstanding
<1>. QED
  BY <1>1, <1>2, <1>3, <1>4, <1>5, <1>6
  DEF Next, RunJob, Deliver, RefreshTimerTimeout, CreatePeerDialogOpened

\* However rounds overlap and whatever check_logs forgets, number_threads never
\* exceeds the answers that will still arrive: the count cannot stay above 0
\* with nothing left to bring it down, which would stop refresh() for ever.
THEOREM CountCovered == Spec => []CountIsCovered
BY CountInit, NextCount, TypeCorrect, PTL DEF Spec

----------------------------------------------------------------------------
\* A peer that a status check has locked.

\* The check waits in the pool, or its result is posted.
Queued(q, p) == \E i \in DOMAIN q : q[i] = [kind |-> "status", peer |-> p]
Posted(d, p) == \E i \in DOMAIN d : d[i].kind = "status" /\ d[i].peer = p

LEMMA LockAsQueues ==
  LockHasAStatusCheck <=> \A p \in checking_statutes : Queued(pool, p) \/ Posted(done, p)
BY DEF LockHasAStatusCheck, Queued, Posted

\* What is added at the end takes nothing away.
LEMMA QueuedConcat ==
  ASSUME NEW S, NEW s \in Seq(S), NEW t \in Seq(S), NEW p
  PROVE  /\ Queued(s, p) => Queued(s \o t, p)
         /\ Queued(t, p) => Queued(s \o t, p)
<1>1. /\ Len(s) \in Nat /\ Len(t) \in Nat
      /\ DOMAIN s = 1..Len(s) /\ DOMAIN t = 1..Len(t)
      /\ DOMAIN (s \o t) = 1..(Len(s) + Len(t))
      /\ \A i \in 1..Len(s) : (s \o t)[i] = s[i]
      /\ \A i \in 1..Len(t) : (s \o t)[Len(s) + i] = t[i]
  BY ConcatProperties, LenProperties
<1>2. ASSUME Queued(s, p) PROVE Queued(s \o t, p)
  BY <1>1, <1>2 DEF Queued
<1>3. ASSUME NEW i \in DOMAIN t, t[i] = [kind |-> "status", peer |-> p]
      PROVE  Queued(s \o t, p)
  <2>1. Len(s) + i \in DOMAIN (s \o t) /\ (s \o t)[Len(s) + i] = t[i]
    BY <1>1
  <2>. QED  BY <1>3, <2>1 DEF Queued
<1>. QED  BY <1>2, <1>3 DEF Queued

LEMMA QueuedAppend ==
  ASSUME NEW S, NEW s \in Seq(S), NEW e \in S, NEW p, Queued(s, p)
  PROVE  Queued(Append(s, e), p)
<1>1. DOMAIN s = 1..Len(s) /\ Len(s) \in Nat /\ DOMAIN Append(s, e) = 1..(Len(s) + 1)
      /\ \A i \in 1..Len(s) : Append(s, e)[i] = s[i]
  BY AppendProperties, LenProperties
<1>. QED  BY <1>1 DEF Queued

LEMMA PostedAppend ==
  ASSUME NEW S, NEW s \in Seq(S), NEW e \in S, NEW p,
         Posted(s, p) \/ (e.kind = "status" /\ e.peer = p)
  PROVE  Posted(Append(s, e), p)
<1>1. DOMAIN s = 1..Len(s) /\ Len(s) \in Nat /\ DOMAIN Append(s, e) = 1..(Len(s) + 1)
      /\ Append(s, e)[Len(s) + 1] = e
      /\ \A i \in 1..Len(s) : Append(s, e)[i] = s[i]
  BY AppendProperties, LenProperties
<1>. QED  BY <1>1 DEF Posted

\* The first one leaves.
LEMMA TailPlaces ==
  ASSUME NEW S, NEW s \in Seq(S), s # <<>>, NEW i \in DOMAIN s, i # 1
  PROVE  i - 1 \in DOMAIN Tail(s) /\ Tail(s)[i - 1] = s[i]
<1>1. /\ Len(s) \in Nat /\ DOMAIN s = 1..Len(s) /\ Tail(s) \in Seq(S)
      /\ Len(Tail(s)) = Len(s) - 1 /\ DOMAIN Tail(s) = 1..Len(Tail(s))
      /\ \A j \in 1..Len(Tail(s)) : Tail(s)[j] = s[j + 1]
  BY HeadTailProperties, LenProperties
<1>2. i - 1 \in 1..Len(Tail(s)) /\ (i - 1) + 1 = i
  BY <1>1
<1>. QED  BY <1>1, <1>2

LEMMA HeadLeaves ==
  ASSUME NEW S, NEW s \in Seq(S), s # <<>>, NEW p
  PROVE  /\ Queued(s, p) => Queued(Tail(s), p) \/ Head(s) = [kind |-> "status", peer |-> p]
         /\ Posted(s, p) => Posted(Tail(s), p) \/ (Head(s).kind = "status" /\ Head(s).peer = p)
<1>1. Head(s) = s[1]
  BY HeadTailProperties
<1>2. ASSUME NEW i \in DOMAIN s, s[i] = [kind |-> "status", peer |-> p]
      PROVE  Queued(Tail(s), p) \/ Head(s) = [kind |-> "status", peer |-> p]
  BY <1>1, <1>2, TailPlaces DEF Queued
<1>3. ASSUME NEW i \in DOMAIN s, s[i].kind = "status", s[i].peer = p
      PROVE  Posted(Tail(s), p) \/ (Head(s).kind = "status" /\ Head(s).peer = p)
  BY <1>1, <1>3, TailPlaces DEF Posted
<1>. QED  BY <1>2, <1>3 DEF Queued, Posted

\* The pool's thread moves a check from the pool to the results.
LEMMA RunJobLock ==
  ASSUME TypeOK, LockHasAStatusCheck, RunJob
  PROVE  LockHasAStatusCheck'
<1>1. pool # <<>> /\ pool' = Tail(pool) /\ checking_statutes' = checking_statutes
  BY DEF RunJob, RunVmJob, RunStatusJob, RunPortJob, mainVars
<1> DEFINE Result(r) == /\ done' = Append(done, r)
                        /\ Head(pool).kind = "status" =>
                             r.kind = "status" /\ r.peer = Head(pool).peer
<1>a. ASSUME RunVmJob PROVE \E r : Result(r)
  <2>1. PICK found : done' = Append(done, [kind |-> "vm", peer |-> NoPeer,
                                           output |-> "undefined", found |-> found])
    BY <1>a DEF RunVmJob
  <2>2. Result([kind |-> "vm", peer |-> NoPeer, output |-> "undefined", found |-> found])
    BY <1>a, <2>1 DEF RunVmJob
  <2>. QED  BY <2>2
<1>b. ASSUME RunStatusJob PROVE \E r : Result(r)
  <2> DEFINE p == Head(pool).peer
             r == [kind |-> "status", peer |-> p, found |-> {},
                   output |-> IF vm[p] = "absent" THEN "not_created" ELSE vm[p]]
  <2>1. Result(r)
    BY <1>b DEF RunStatusJob
  <2>. QED  BY <2>1
<1>c. ASSUME RunPortJob PROVE \E r : Result(r)
  <2>1. PICK out : done' = Append(done, [kind |-> "port", peer |-> Head(pool).peer,
                                         output |-> out, found |-> {}])
    BY <1>c DEF RunPortJob
  <2>2. Result([kind |-> "port", peer |-> Head(pool).peer, output |-> out, found |-> {}])
    BY <1>c, <2>1 DEF RunPortJob
  <2>. QED  BY <2>2
<1>2. PICK r : /\ done' = Append(done, r)
               /\ Head(pool).kind = "status" => r.kind = "status" /\ r.peer = Head(pool).peer
  BY <1>a, <1>b, <1>c DEF RunJob
<1>3. ASSUME NEW p \in checking_statutes PROVE Queued(pool', p) \/ Posted(done', p)
  <2>1. \A d \in Seq(Results \cup {r}) :
          Posted(d, p) \/ (r.kind = "status" /\ r.peer = p) => Posted(Append(d, r), p)
    BY PostedAppend
  <2>2. done \in Seq(Results \cup {r}) /\ pool \in Seq(Jobs)
    BY DEF TypeOK
  <2>3. Queued(pool, p) \/ Posted(done, p)
    BY LockAsQueues, <1>3
  <2>4. CASE Posted(done, p)
    BY <1>2, <2>1, <2>2, <2>4
  <2>5. CASE Queued(pool, p)
    <3>1. Queued(Tail(pool), p) \/ Head(pool) = [kind |-> "status", peer |-> p]
      BY <1>1, <2>2, <2>5, HeadLeaves
    <3>2. CASE Queued(Tail(pool), p)
      BY <1>1, <3>2
    <3>3. CASE Head(pool) = [kind |-> "status", peer |-> p]
      BY <1>2, <2>1, <2>2, <3>3
    <3>. QED  BY <3>1, <3>2, <3>3
  <2>. QED  BY <2>3, <2>4, <2>5
<1>. QED  BY <1>1, <1>3 DEF LockHasAStatusCheck, Queued, Posted

\* Handlers that only add jobs, and lock nobody.
LEMMA AddsJobsLock ==
  ASSUME TypeOK, LockHasAStatusCheck, NEW jobs \in Seq(Jobs),
         pool' = pool \o jobs, done' = done, checking_statutes' = checking_statutes
  PROVE  LockHasAStatusCheck'
<1>1. ASSUME NEW p \in checking_statutes PROVE Queued(pool', p) \/ Posted(done', p)
  BY <1>1, LockAsQueues, QueuedConcat DEF TypeOK
<1>. QED  BY <1>1 DEF LockHasAStatusCheck, Queued, Posted

\* Every peer that is asked has its place in the order.
LEMMA OrderCovers ==
  ASSUME NEW asked \in SUBSET Peers, NEW order \in SetToSeqs(asked)
  PROVE  \A p \in asked : \E i \in DOMAIN order : order[i] = p
<1> DEFINE n == Cardinality(asked)
<1>1. IsFiniteSet(asked) /\ n \in Nat
  BY PeersAssumption, FS_Subset, FS_CardinalityType
<1>2. /\ order \in [1..n -> asked]
      /\ \A i, j \in 1..n : i # j => order[i] # order[j]
  BY DEF SetToSeqs
<1>3. Cardinality(1..n) = n
  <2>. HIDE DEF n
  <2>. QED  BY <1>1, FS_Interval
<1>. HIDE DEF n
<1>4. order \in Injection(1..n, asked)
  BY <1>2 DEF Injection, IsInjective
<1>5. order \in Surjection(1..n, asked)
  <2>1. Cardinality(1..n) = Cardinality(asked)
    BY <1>3 DEF n
  <2>. QED  BY <1>1, <1>4, <2>1, FS_Injection
<1>. QED  BY <1>2, <1>5 DEF Surjection

\* search_local locks the peers it queues a check for.
LEMMA DeliverVmJobLock ==
  ASSUME TypeOK, LockHasAStatusCheck, DeliverVmJob
  PROVE  LockHasAStatusCheck'
<1> DEFINE found == Head(done).found
           searched == IF found # {} THEN found ELSE {p \in Peers : vm[p] # "absent"}
           asked == searched \ running_commands
<1>1. Head(done) \in Results
  BY HeadTailProperties DEF DeliverVmJob, TypeOK
<1>2. asked \in SUBSET Peers
  BY <1>1 DEF Results
<1>3. PICK order \in SetToSeqs(asked) :
        /\ pool' = pool \o [i \in DOMAIN order |-> [kind |-> "status", peer |-> order[i]]]
        /\ checking_statutes' = checking_statutes \cup asked
  BY DEF DeliverVmJob
<1>4. done # <<>> /\ done' = Tail(done) /\ Head(done).kind = "vm"
  BY DEF DeliverVmJob
<1> DEFINE jobs == [i \in DOMAIN order |-> [kind |-> "status", peer |-> order[i]]]
<1>. HIDE DEF asked
<1>5. \A p \in asked : \E i \in DOMAIN order : order[i] = p
  BY <1>2, OrderCovers
<1>6. jobs \in Seq(Jobs) /\ DOMAIN jobs = DOMAIN order
  BY <1>2, OrderType
<1>7. ASSUME NEW p \in asked PROVE Queued(pool', p)
  <2>1. PICK i \in DOMAIN order : p = order[i]
    BY <1>5, <1>7
  <2>2. jobs[i] = [kind |-> "status", peer |-> p] /\ i \in DOMAIN jobs
    BY <1>6, <2>1
  <2>3. pool' = pool \o jobs
    BY <1>3
  <2>. HIDE DEF jobs
  <2>4. Queued(jobs, p)
    BY <2>2 DEF Queued
  <2>. QED  BY <1>6, <2>3, <2>4, QueuedConcat DEF TypeOK
<1>8. ASSUME NEW p \in checking_statutes PROVE Queued(pool', p) \/ Posted(done', p)
  <2>1. pool' = pool \o jobs
    BY <1>3
  <2>. HIDE DEF jobs
  <2>2. Queued(pool, p) => Queued(pool', p)
    BY <1>6, <2>1, QueuedConcat DEF TypeOK
  <2>3. Posted(done, p) => Posted(done', p)
    BY <1>4, HeadLeaves DEF TypeOK
  <2>. QED  BY <1>8, <2>2, <2>3, LockAsQueues
<1>. QED  BY <1>3, <1>7, <1>8 DEF LockHasAStatusCheck, Queued, Posted

\* The result of a check unlocks its peer, and no other.
LEMMA DeliverStatusLock ==
  ASSUME TypeOK, LockHasAStatusCheck, DeliverStatus
  PROVE  LockHasAStatusCheck'
<1>1. /\ done # <<>> /\ done' = Tail(done)
      /\ checking_statutes' = checking_statutes \ {Head(done).peer}
  BY DEF DeliverStatus
<1>2. pool' = pool \/ \E p \in Peers : pool' = Append(pool, [kind |-> "port", peer |-> p])
  BY DeliverStatusStep
<1>3. ASSUME NEW p \in checking_statutes' PROVE Queued(pool', p) \/ Posted(done', p)
  <2>1. p \in checking_statutes /\ p # Head(done).peer
    BY <1>1, <1>3
  <2>2. Queued(pool, p) => Queued(pool', p)
    <3>1. \A q \in Peers : [kind |-> "port", peer |-> q] \in Jobs
      BY DEF Jobs
    <3>. QED  BY <1>2, <3>1, QueuedAppend DEF TypeOK
  <2>3. Posted(done, p) => Posted(done', p)
    BY <1>1, <2>1, HeadLeaves DEF TypeOK
  <2>. QED  BY <2>1, <2>2, <2>3, LockAsQueues
<1>. QED  BY <1>3 DEF LockHasAStatusCheck, Queued, Posted

LEMMA DeliverPortLock ==
  ASSUME TypeOK, LockHasAStatusCheck, DeliverPort
  PROVE  LockHasAStatusCheck'
<1>1. /\ done # <<>> /\ done' = Tail(done) /\ Head(done).kind = "port"
      /\ pool' = pool /\ checking_statutes' = checking_statutes
  BY DEF DeliverPort
<1>2. ASSUME NEW p \in checking_statutes PROVE Queued(pool', p) \/ Posted(done', p)
  <2>1. Posted(done, p) => Posted(done', p)
    BY <1>1, HeadLeaves DEF TypeOK
  <2>. QED  BY <1>1, <1>2, <2>1, LockAsQueues
<1>. QED  BY <1>1, <1>2 DEF LockHasAStatusCheck, Queued, Posted

LEMMA NextLock == TypeOK /\ LockHasAStatusCheck /\ [Next]_vars => LockHasAStatusCheck'
<1> SUFFICES ASSUME TypeOK, LockHasAStatusCheck, [Next]_vars PROVE LockHasAStatusCheck'
  OBVIOUS
<1>1. CASE Refresh
  <2>1. pool' = pool \o <<VmJob>> /\ <<VmJob>> \in Seq(Jobs)
    BY <1>1 DEF Refresh, Jobs, TypeOK
  <2>. QED  BY <1>1, <2>1, AddsJobsLock DEF Refresh, mainVars
<1>2. CASE RunJob
  BY <1>2, RunJobLock
<1>3. CASE Deliver
  BY <1>3, DeliverVmJobLock, DeliverStatusLock, DeliverPortLock DEF Deliver
<1>4. CASE CheckLogs
  <2>1. \E k \in Nat : /\ pool' = pool \o [i \in 1..k |-> VmJob]
                        /\ [i \in 1..k |-> VmJob] \in Seq(Jobs)
    BY <1>4, CheckLogsQueue
  <2>2. done' = done /\ checking_statutes' = checking_statutes
    BY <1>4 DEF CheckLogs
  <2>. QED  BY <2>1, <2>2, AddsJobsLock
<1>5. CASE UNCHANGED <<pool, done, checking_statutes>>
  BY <1>5 DEF LockHasAStatusCheck
<1>6. CASE RestFinished
  BY <1>5, <1>6 DEF RestFinished
<1>7. ASSUME NEW p \in Peers,
             \/ DialogRefreshed(p) \/ RemoveNotCreated(p) \/ PeerCreated(p)
             \/ \E c \in Commands, op \in Ops : Click(c, p, op)
      PROVE  LockHasAStatusCheck'
  BY <1>5, <1>7 DEF DialogRefreshed, RemoveNotCreated, PeerCreated, Click, mainVars, queueVars
<1>8. ASSUME NEW c \in Commands, StartTerminal(c) \/ WindowEnds(c) \/ TerminalEnds(c)
      PROVE  LockHasAStatusCheck'
  BY <1>5, <1>8 DEF StartTerminal, WindowEnds, TerminalEnds, mainVars, queueVars
<1>9. CASE UNCHANGED vars
  BY <1>5, <1>9 DEF vars, mainVars, queueVars
<1>. QED
  BY <1>1, <1>2, <1>3, <1>4, <1>6, <1>7, <1>8, <1>9
     DEF Next, RunJob, Deliver, RefreshTimerTimeout, CreatePeerDialogOpened

\* A peer that is locked by a status check has that check under way, so that its
\* buttons come back: parse_peer_info unlocks it even when no round waits for it.
THEOREM LockedWhileChecked == Spec => []LockHasAStatusCheck
<1>1. Init => LockHasAStatusCheck
  BY DEF Init, LockHasAStatusCheck
<1>. QED  BY <1>1, NextLock, TypeCorrect, PTL DEF Spec
----------------------------------------------------------------------------
\* The elements of the queues a step makes.

LEMMA TailElements ==
  ASSUME NEW S, NEW s \in Seq(S), s # <<>>
  PROVE  \A i \in DOMAIN Tail(s) : i + 1 \in DOMAIN s /\ Tail(s)[i] = s[i + 1]
<1>1. /\ Len(s) \in Nat /\ DOMAIN s = 1..Len(s) /\ Tail(s) \in Seq(S)
      /\ Len(Tail(s)) = Len(s) - 1 /\ DOMAIN Tail(s) = 1..Len(Tail(s))
      /\ \A j \in 1..Len(Tail(s)) : Tail(s)[j] = s[j + 1]
  BY HeadTailProperties, LenProperties
<1>. QED  BY <1>1

LEMMA ConcatElements ==
  ASSUME NEW S, NEW s \in Seq(S), NEW t \in Seq(S)
  PROVE  \A i \in DOMAIN (s \o t) :
           \/ i \in DOMAIN s /\ (s \o t)[i] = s[i]
           \/ i > Len(s) /\ \E j \in DOMAIN t : (s \o t)[i] = t[j]
<1>1. /\ Len(s) \in Nat /\ Len(t) \in Nat
      /\ DOMAIN s = 1..Len(s) /\ DOMAIN t = 1..Len(t)
      /\ DOMAIN (s \o t) = 1..(Len(s) + Len(t))
      /\ \A i \in 1..(Len(s) + Len(t)) :
           (s \o t)[i] = IF i <= Len(s) THEN s[i] ELSE t[i - Len(s)]
  BY ConcatProperties, LenProperties
<1>2. ASSUME NEW i \in 1..(Len(s) + Len(t)), ~(i <= Len(s))
      PROVE  i > Len(s) /\ \E j \in DOMAIN t : (s \o t)[i] = t[j]
  <2>1. i - Len(s) \in DOMAIN t /\ (s \o t)[i] = t[i - Len(s)]
    BY <1>1, <1>2
  <2>. QED  BY <1>1, <1>2, <2>1
<1>3. ASSUME NEW i \in 1..(Len(s) + Len(t)), i <= Len(s)
      PROVE  i \in DOMAIN s /\ (s \o t)[i] = s[i]
  BY <1>1, <1>3
<1>. QED  BY <1>1, <1>2, <1>3

LEMMA AppendElements ==
  ASSUME NEW S, NEW s \in Seq(S), NEW e \in S
  PROVE  \A i \in DOMAIN Append(s, e) :
           \/ i \in DOMAIN s /\ Append(s, e)[i] = s[i]
           \/ i > Len(s) /\ Append(s, e)[i] = e
<1>1. /\ Len(s) \in Nat /\ DOMAIN s = 1..Len(s)
      /\ DOMAIN Append(s, e) = 1..(Len(s) + 1)
      /\ Append(s, e)[Len(s) + 1] = e
      /\ \A i \in 1..Len(s) : Append(s, e)[i] = s[i]
  BY AppendProperties, LenProperties
<1>. QED  BY <1>1

LEMMA RemoveAtElements ==
  ASSUME NEW S, NEW s \in Seq(S), NEW n \in DOMAIN s
  PROVE  \A i \in DOMAIN RemoveAt(s, n) : \E j \in DOMAIN s : RemoveAt(s, n)[i] = s[j]
<1>1. /\ Len(s) \in Nat /\ DOMAIN s = 1..Len(s) /\ s \in [1..Len(s) -> S]
      /\ n \in 1..Len(s)
  BY LenProperties
<1> DEFINE before == SubSeq(s, 1, n-1)
           after == SubSeq(s, n+1, Len(s))
<1>2. /\ before \in Seq(S) /\ Len(before) = n - 1
      /\ \A i \in 1..Len(before) : before[i] = s[i]
  <2>1. \A j \in 1..(n-1) : s[j] \in S
    BY <1>1
  <2>2. \A j \in 1..(n-1) : 1 + j - 1 = j
    OBVIOUS
  <2>. QED  BY <1>1, <2>1, <2>2, SubSeqProperties
<1>3. /\ after \in Seq(S) /\ Len(after) = Len(s) - n
      /\ \A i \in 1..Len(after) : after[i] = s[n + i]
  <2>1. \A j \in (n+1)..Len(s) : s[j] \in S
    BY <1>1
  <2>. QED  BY <1>1, <2>1, SubSeqProperties
<1>4. RemoveAt(s, n) = before \o after
  BY DEF RemoveAt
<1>. HIDE DEF before, after
<1>5. ASSUME NEW i \in DOMAIN (before \o after)
      PROVE  \E j \in DOMAIN s : (before \o after)[i] = s[j]
  <2>1. DOMAIN before = 1..Len(before) /\ DOMAIN after = 1..Len(after)
    BY <1>2, <1>3, LenProperties
  <2>2. CASE i \in DOMAIN before /\ (before \o after)[i] = before[i]
    BY <1>1, <1>2, <2>1, <2>2
  <2>3. ASSUME NEW j \in DOMAIN after, (before \o after)[i] = after[j]
        PROVE  \E k \in DOMAIN s : (before \o after)[i] = s[k]
    <3>1. n + j \in DOMAIN s /\ after[j] = s[n + j]
      BY <1>1, <1>3, <2>1, <2>3
    <3>. QED  BY <2>3, <3>1
  <2>. QED  BY <1>2, <1>3, <1>5, <2>2, <2>3, ConcatElements
<1>. QED  BY <1>4, <1>5

\* A job or a result that is there is counted.
LEMMA PendingIsCounted ==
  ASSUME NEW S, NEW s \in Seq(S), NEW i \in DOMAIN s, s[i].kind # "vm"
  PROVE  Cardinality(Counted(s)) > 0
<1>1. Counted(s) # {}
  BY DEF Counted
<1>. QED  BY <1>1, CountedFinite, FS_EmptySet

----------------------------------------------------------------------------
\* What the rounds keep while no terminal command is given.

Quiet == \A c \in Commands : command[c] = NoThread
Live(p) == vm[p] \in {"poweroff", "running"}

NoneAbout(s, p) == \A i \in DOMAIN s : s[i].peer # p
NoneFound(d, p) == \A i \in DOMAIN d : p \notin d[i].found
HasPort(s, p) == \E i \in DOMAIN s : s[i].kind = "port" /\ s[i].peer = p
InRest(s, p) == \E i \in DOMAIN s : s[i] = p
SomeAre(d) == \A i \in DOMAIN d : d[i].output # "not_created"

\* A listing that was made before p was created.
Stale(r, p) == r.kind = "vm" /\ r.found # {} /\ p \notin r.found
Missed(d, p) == \E i \in DOMAIN d : Stale(d[i], p)
StaleFirst(d, p) == \A i, j \in DOMAIN d : Stale(d[i], p) /\ j < i => d[j].peer # p

\* No command is given, so no machine is locked, and none is destroyed.
NothingCommanded ==
  /\ running_commands = {}
  /\ \A c \in Commands : terminal[c] = "none"
  /\ \A p \in Peers : vm[p] # "not_created" /\ machine_peers_table[p].status # "not_created"
  /\ SomeAre(done)

\* Nobody has heard of a machine that does not exist yet.
AbsentUnknown ==
  \A p \in Peers : vm[p] = "absent" =>
    ~InTable(p) /\ NoneAbout(pool, p) /\ NoneAbout(done, p) /\ NoneFound(done, p)

\* The count is exactly the answers that will still arrive.
CountIsExact == number_threads = Outstanding

\* Whoever is asked for its port, or asked by REST, has its row.
AskedInTable ==
  \A p \in Peers : HasPort(pool, p) \/ HasPort(done, p) \/ InRest(rest, p) => InTable(p)

\* In the middle of a round, a row that the round has not touched yet will be:
\* the check of its machine is on the way.
OldIsChecked ==
  \A p \in Peers :
    Live(p) /\ machine_peers_table[p].update = "old" /\ Outstanding > 0
      => Queued(pool, p) \/ Posted(done, p)

\* The listings that miss a machine come before every answer about it.
StaleBeforeKnown ==
  \A p \in Peers : Live(p) =>
    (Missed(done, p) => ~InTable(p)) /\ StaleFirst(done, p)

RoundInv ==
  /\ NothingCommanded
  /\ AbsentUnknown
  /\ CountIsExact
  /\ AskedInTable
  /\ OldIsChecked
  /\ StaleBeforeKnown

LEMMA RoundInit == Init => RoundInv
<1> SUFFICES ASSUME Init PROVE RoundInv
  OBVIOUS
<1>1. Counted(<<>>) = {}
  BY DEF Counted
<1>2. Cardinality(Counted(pool)) = 0 /\ Cardinality(Counted(done)) = 0 /\ Len(rest) = 0
  BY <1>1, FS_EmptySet DEF Init
<1>3. CountIsExact
  BY <1>2 DEF Init, CountIsExact, Outstanding
<1>4. NothingCommanded
  BY DEF Init, NothingCommanded, SomeAre, NoRow
<1>5. AbsentUnknown /\ AskedInTable /\ OldIsChecked /\ StaleBeforeKnown
  BY DEF Init, AbsentUnknown, AskedInTable, OldIsChecked, StaleBeforeKnown, InTable, NoRow,
         NoneAbout, NoneFound, HasPort, InRest, Missed, StaleFirst
<1>. QED  BY <1>3, <1>4, <1>5 DEF RoundInv

LEMMA DeliverExact ==
  ASSUME TypeOK, CountIsExact, Deliver
  PROVE  CountIsExact'
<1>1. Outstanding \in Nat /\ Outstanding' \in Nat /\ number_threads \in Nat
  BY DeliverBalance DEF TypeOK
<1>2. \/ number_threads' - number_threads = Outstanding' - Outstanding
      \/ number_threads = 0 /\ number_threads' = 0 /\ Outstanding' = Outstanding - 1
  BY DeliverBalance
<1>. QED  BY <1>1, <1>2, DeliverBalance DEF CountIsExact

LEMMA RefreshCount ==
  ASSUME TypeOK, Refresh
  PROVE  Outstanding' = Outstanding /\ number_threads' = number_threads
<1>1. VmJob \in Jobs /\ VmJob.kind = "vm"
  BY DEF Jobs, VmJob
<1>2. Cardinality(Counted(Append(pool, VmJob)))
        = Cardinality(Counted(pool)) + (IF VmJob.kind = "vm" THEN 0 ELSE 1)
  BY <1>1, CountedAppend DEF TypeOK
<1>3. Cardinality(Counted(pool')) = Cardinality(Counted(pool))
  BY <1>1, <1>2, OutstandingType DEF Refresh
<1>. QED  BY <1>3 DEF Refresh, mainVars, Outstanding

LEMMA RestFinishedExact ==
  ASSUME TypeOK, CountIsExact, RestFinished
  PROVE  CountIsExact' /\ number_threads # 0
<1>1. number_threads \in Nat
  BY DEF TypeOK
<1>2. Len(rest) > 0
  BY LenProperties DEF RestFinished, TypeOK
<1>. QED
  BY <1>1, <1>2, RestFinishedStep, OutstandingType DEF CountIsExact, Outstanding

\* refresh() asks for a listing and changes nothing else.
LEMMA RefreshRound ==
  ASSUME TypeOK, RoundInv, Refresh
  PROVE  RoundInv'
<1>1. VmJob \in Jobs /\ pool' = Append(pool, VmJob)
  BY DEF Refresh, Jobs
<1>2. UNCHANGED <<vm, number_threads, done, rest, machine_peers_table, running_commands, terminal>>
  BY DEF Refresh, mainVars, commandVars
<1>3. Outstanding' = Outstanding
  BY RefreshCount
<1>4. \A i \in DOMAIN pool' : (i \in DOMAIN pool /\ pool'[i] = pool[i]) \/ pool'[i] = VmJob
  BY <1>1, AppendElements DEF TypeOK
<1>5. ASSUME NEW p \in Peers
      PROVE  /\ NoneAbout(pool, p) => NoneAbout(pool', p)
             /\ HasPort(pool', p) => HasPort(pool, p)
             /\ Queued(pool, p) => Queued(pool', p)
  <2>1. VmJob.peer # p /\ VmJob.kind = "vm"
    BY PeersAssumption DEF VmJob
  <2>2. Queued(pool, p) => Queued(pool', p)
    BY <1>1, QueuedAppend DEF TypeOK
  <2>. QED  BY <1>4, <2>1, <2>2 DEF NoneAbout, HasPort
<1>6. NothingCommanded'
  BY <1>2 DEF RoundInv, NothingCommanded, SomeAre
<1>7. AbsentUnknown'
  BY <1>2, <1>5 DEF RoundInv, AbsentUnknown, InTable, NoneAbout, NoneFound
<1>8. CountIsExact'
  BY <1>2, <1>3 DEF RoundInv, CountIsExact
<1>9. AskedInTable'
  BY <1>2, <1>5 DEF RoundInv, AskedInTable, InTable, HasPort, InRest
<1>10. OldIsChecked'
  BY <1>2, <1>3, <1>5 DEF RoundInv, OldIsChecked, Live, Posted
<1>11. StaleBeforeKnown'
  BY <1>2 DEF RoundInv, StaleBeforeKnown, Live, InTable, Missed, StaleFirst
<1>. QED  BY <1>6, <1>7, <1>8, <1>9, <1>10, <1>11 DEF RoundInv

\* What a job answers while no command is given: the machine it is about exists,
\* and a listing that is not empty has every machine that exists.
LEMMA RunJobResult ==
  ASSUME TypeOK, NothingCommanded, AbsentUnknown, RunJob
  PROVE  \E r \in Results :
           /\ done' = Append(done, r)
           /\ r.kind = Head(pool).kind /\ r.peer = Head(pool).peer
           /\ r.output # "not_created"
           /\ \A p \in Peers : Live(p) => ~Stale(r, p)
           /\ \A p \in Peers : vm[p] = "absent" => p \notin r.found
<1>1. /\ pool # <<>> /\ Head(pool) \in Jobs /\ Head(pool) = pool[1] /\ 1 \in DOMAIN pool
  BY HeadTailProperties, LenProperties, EmptySeq DEF TypeOK, RunJob, RunVmJob, RunStatusJob, RunPortJob
<1>2. CASE RunVmJob
  <2>1. PICK found \in {{p \in Peers : vm[p] \in {"poweroff", "running"}}, {}} :
          done' = Append(done, [kind |-> "vm", peer |-> NoPeer,
                                output |-> "undefined", found |-> found])
    BY <1>2 DEF RunVmJob
  <2> DEFINE r == [kind |-> "vm", peer |-> NoPeer, output |-> "undefined", found |-> found]
  <2>2. r \in Results /\ r.found = found /\ r.output = "undefined"
        /\ r.kind = "vm" /\ r.peer = NoPeer
    BY DEF Results
  <2>3. Head(pool).kind = "vm" /\ Head(pool).peer = NoPeer
    BY <1>1, <1>2 DEF RunVmJob, Jobs, VmJob
  <2>4. done' = Append(done, r)
    BY <2>1
  <2>. HIDE DEF r
  <2>5. \A p \in Peers : Live(p) => ~Stale(r, p)
    BY <2>2 DEF Live, Stale
  <2>6. \A p \in Peers : vm[p] = "absent" => p \notin r.found
    BY <2>2
  <2>. QED  BY <2>2, <2>3, <2>4, <2>5, <2>6
<1>3. CASE RunStatusJob
  <2> DEFINE q == Head(pool).peer
             out == IF vm[q] = "absent" THEN "not_created" ELSE vm[q]
             r == [kind |-> "status", peer |-> q, found |-> {}, output |-> out]
  <2>1. q \in Peers /\ Head(pool).kind = "status"
    BY <1>1, <1>3 DEF RunStatusJob, Jobs, VmJob
  <2>2. out \in Statuses /\ out # "not_created"
    <3>1. vm[q] # "absent"
      BY <1>1, <2>1 DEF AbsentUnknown, NoneAbout
    <3>2. vm[q] # "not_created" /\ vm[q] \in VmStates
      BY <2>1 DEF NothingCommanded, TypeOK
    <3>. QED  BY <3>1, <3>2 DEF VmStates, Statuses
  <2>3. done' = Append(done, r)
    BY <1>3 DEF RunStatusJob
  <2>. HIDE DEF q, out
  <2>4. r \in Results
    BY <2>1, <2>2 DEF Results
  <2>5. /\ r.kind = Head(pool).kind /\ r.peer = Head(pool).peer
        /\ r.output # "not_created"
        /\ \A p \in Peers : Live(p) => ~Stale(r, p)
        /\ \A p \in Peers : vm[p] = "absent" => p \notin r.found
    BY <2>1, <2>2 DEF Stale, q
  <2>. HIDE DEF r
  <2>. QED  BY <2>3, <2>4, <2>5
<1>4. CASE RunPortJob
  <2> DEFINE q == Head(pool).peer
  <2>1. q \in Peers /\ Head(pool).kind = "port"
    BY <1>1, <1>4 DEF RunPortJob, Jobs, VmJob
  <2>2. PICK out \in {"undefined", "port"} :
          done' = Append(done, [kind |-> "port", peer |-> q, output |-> out, found |-> {}])
    BY <1>4 DEF RunPortJob
  <2> DEFINE r == [kind |-> "port", peer |-> q, output |-> out, found |-> {}]
  <2>3. done' = Append(done, r)
    BY <2>2
  <2>. HIDE DEF q
  <2>4. r \in Results
    BY <2>1 DEF Results
  <2>5. /\ r.kind = Head(pool).kind /\ r.peer = Head(pool).peer
        /\ r.output # "not_created"
        /\ \A p \in Peers : Live(p) => ~Stale(r, p)
        /\ \A p \in Peers : vm[p] = "absent" => p \notin r.found
    BY <2>1 DEF Stale, q
  <2>. HIDE DEF r
  <2>. QED  BY <2>3, <2>4, <2>5
<1>. QED  BY <1>2, <1>3, <1>4 DEF RunJob

LEMMA RunJobRound ==
  ASSUME TypeOK, RoundInv, RunJob
  PROVE  RoundInv'
<1>. USE DEF RoundInv
<1>1. /\ pool # <<>> /\ pool' = Tail(pool) /\ Head(pool) = pool[1] /\ 1 \in DOMAIN pool
      /\ Head(pool) \in Jobs
      /\ UNCHANGED <<vm, number_threads, rest, machine_peers_table, running_commands, terminal>>
  BY HeadTailProperties, LenProperties, EmptySeq
     DEF RunJob, RunVmJob, RunStatusJob, RunPortJob, mainVars, commandVars, TypeOK
<1>2. PICK r \in Results :
           /\ done' = Append(done, r)
           /\ r.kind = Head(pool).kind /\ r.peer = Head(pool).peer
           /\ r.output # "not_created"
           /\ \A p \in Peers : Live(p) => ~Stale(r, p)
           /\ \A p \in Peers : vm[p] = "absent" => p \notin r.found
  BY RunJobResult
<1>3. Outstanding' = Outstanding
  BY RunJobCount DEF Outstanding
<1>4. \A i \in DOMAIN done' :
        (i \in DOMAIN done /\ done'[i] = done[i]) \/ (i > Len(done) /\ done'[i] = r)
  BY <1>2, AppendElements DEF TypeOK
<1>5. \A i \in DOMAIN pool' : i + 1 \in DOMAIN pool /\ pool'[i] = pool[i + 1]
  BY <1>1, TailElements DEF TypeOK
<1>6. NothingCommanded'
  BY <1>1, <1>2, <1>4 DEF NothingCommanded, SomeAre
<1>7. AbsentUnknown'
  <2>1. ASSUME NEW p \in Peers, vm[p] = "absent"
        PROVE  /\ ~InTable(p)' /\ NoneAbout(pool', p)
               /\ NoneAbout(done', p) /\ NoneFound(done', p)
    <3>1. ~InTable(p) /\ NoneAbout(pool, p) /\ NoneAbout(done, p) /\ NoneFound(done, p)
      BY <2>1 DEF AbsentUnknown
    <3>2. NoneAbout(pool', p)
      BY <1>5, <3>1 DEF NoneAbout
    <3>3. r.peer # p /\ p \notin r.found
      BY <1>1, <1>2, <2>1, <3>1 DEF NoneAbout
    <3>4. NoneAbout(done', p) /\ NoneFound(done', p)
      BY <1>4, <3>1, <3>3 DEF NoneAbout, NoneFound
    <3>. QED  BY <1>1, <3>1, <3>2, <3>4 DEF InTable
  <2>. QED  BY <1>1, <2>1 DEF AbsentUnknown
<1>8. CountIsExact'
  BY <1>1, <1>3 DEF CountIsExact
<1>9. AskedInTable'
  <2>1. ASSUME NEW p \in Peers, HasPort(pool', p) \/ HasPort(done', p) \/ InRest(rest', p)
        PROVE  InTable(p)'
    <3>1. HasPort(pool', p) => HasPort(pool, p)
      BY <1>5 DEF HasPort
    <3>2. HasPort(done', p) => HasPort(done, p) \/ HasPort(pool, p)
      BY <1>1, <1>2, <1>4 DEF HasPort
    <3>3. InRest(rest', p) => InRest(rest, p)
      BY <1>1
    <3>4. InTable(p)
      BY <2>1, <3>1, <3>2, <3>3 DEF AskedInTable
    <3>. QED  BY <1>1, <3>4 DEF InTable
  <2>. QED  BY <2>1 DEF AskedInTable
<1>10. OldIsChecked'
  <2>1. ASSUME NEW p \in Peers, Queued(pool, p) \/ Posted(done, p)
        PROVE  Queued(pool', p) \/ Posted(done', p)
    <3>1. Queued(pool, p) => Queued(Tail(pool), p) \/ Head(pool) = [kind |-> "status", peer |-> p]
      BY <1>1, HeadLeaves DEF TypeOK
    <3>2. Posted(done, p) \/ (r.kind = "status" /\ r.peer = p) => Posted(Append(done, r), p)
      BY PostedAppend DEF TypeOK
    <3>. QED  BY <1>1, <1>2, <2>1, <3>1, <3>2
  <2>. QED  BY <1>1, <1>3, <2>1 DEF OldIsChecked, Live
<1>11. StaleBeforeKnown'
  <2>1. ASSUME NEW p \in Peers, Live(p)
        PROVE  (Missed(done', p) => ~InTable(p)') /\ StaleFirst(done', p)
    <3>1. ~Stale(r, p)
      BY <1>2, <2>1
    <3>2. Missed(done', p) => Missed(done, p)
      BY <1>4, <3>1 DEF Missed
    <3>3. (Missed(done, p) => ~InTable(p)) /\ StaleFirst(done, p)
      BY <2>1 DEF StaleBeforeKnown
    <3>4. ASSUME NEW i \in DOMAIN done', NEW j \in DOMAIN done', Stale(done'[i], p), j < i
          PROVE  done'[j].peer # p
      <4>1. i \in DOMAIN done /\ done'[i] = done[i]
        BY <1>4, <3>1, <3>4
      <4>2. DOMAIN done = 1..Len(done) /\ Len(done) \in Nat /\ j \in Nat
        BY <3>4, LenProperties, <1>2, AppendProperties DEF TypeOK
      <4>3. j \in DOMAIN done /\ done'[j] = done[j]
        BY <1>4, <3>4, <4>1, <4>2
      <4>. QED  BY <3>3, <3>4, <4>1, <4>3 DEF StaleFirst
    <3>. QED  BY <1>1, <3>2, <3>3, <3>4 DEF InTable, StaleFirst
  <2>. QED  BY <1>1, <2>1 DEF StaleBeforeKnown, Live
<1>. QED  BY <1>6, <1>7, <1>8, <1>9, <1>10, <1>11

\* What an answer about p does to the rows.
LEMMA AnswerRows ==
  ASSUME TypeOK, NEW p \in Peers, NEW st \in Statuses \cup {"undefined"},
         NEW n \in Nat, number_threads # 0, GotPeerInfo(p, st, n)
  PROVE  /\ machine_peers_table'[p].update = (IF number_threads' = 0 THEN "old" ELSE "new")
         /\ machine_peers_table'[p].status = st
         /\ \A q \in Peers \ {p} :
              IF number_threads' # 0
              THEN machine_peers_table'[q] = machine_peers_table[q]
              ELSE IF machine_peers_table[q].update = "new"
              THEN /\ machine_peers_table'[q].update = "old"
                   /\ machine_peers_table'[q].status = machine_peers_table[q].status
              ELSE machine_peers_table'[q] = NoRow
<1> DEFINE table == [machine_peers_table EXCEPT ![p] = [update |-> "new", status |-> st]]
<1>1. /\ \A q \in Peers : machine_peers_table[q] \in Rows
      /\ \A q \in Peers : table[q] = IF q = p THEN [update |-> "new", status |-> st]
                                     ELSE machine_peers_table[q]
  BY DEF TypeOK
<1>2. machine_peers_table' = IF number_threads' = 0 THEN UpdFinished(table) ELSE table
  BY DEF GotPeerInfo
<1>. HIDE DEF table
<1>3. CASE number_threads' = 0
  <2>1. \A q \in Peers : machine_peers_table'[q] = IF table[q].update = "new"
                           THEN [table[q] EXCEPT !.update = "old"] ELSE NoRow
    BY <1>2, <1>3 DEF UpdFinished
  <2>2. ASSUME NEW row \in Rows
        PROVE  /\ [row EXCEPT !.update = "old"].update = "old"
               /\ [row EXCEPT !.update = "old"].status = row.status
    BY DEF Rows
  <2>3. [update |-> "new", status |-> st] \in Rows
    BY DEF Rows
  <2>4. /\ machine_peers_table'[p].update = "old"
        /\ machine_peers_table'[p].status = st
    <3>1. table[p] = [update |-> "new", status |-> st]
      BY <1>1
    <3>2. machine_peers_table'[p] = [table[p] EXCEPT !.update = "old"]
      BY <2>1, <3>1
    <3>. QED  BY <2>2, <2>3, <3>1, <3>2
  <2>5. ASSUME NEW q \in Peers \ {p}
        PROVE  IF machine_peers_table[q].update = "new"
               THEN /\ machine_peers_table'[q].update = "old"
                    /\ machine_peers_table'[q].status = machine_peers_table[q].status
               ELSE machine_peers_table'[q] = NoRow
    <3>1. table[q] = machine_peers_table[q] /\ table[q] \in Rows
      BY <1>1
    <3>2. CASE machine_peers_table[q].update = "new"
      <4>1. machine_peers_table'[q] = [table[q] EXCEPT !.update = "old"]
        BY <2>1, <3>1, <3>2
      <4>. QED  BY <2>2, <3>1, <3>2, <4>1
    <3>3. CASE machine_peers_table[q].update # "new"
      BY <2>1, <3>1, <3>3
    <3>. QED  BY <3>2, <3>3
  <2>. QED  BY <1>3, <2>4, <2>5
<1>4. CASE number_threads' # 0
  BY <1>1, <1>2, <1>4
<1>. QED  BY <1>3, <1>4

\* An answer about p that the round waits for keeps what the rows rest on, and
\* every row of a machine that exists.
LEMMA AnswerRound ==
  ASSUME TypeOK, TypeOK', AskedInTable, OldIsChecked, CountIsExact, CountIsExact',
         NEW p \in Peers, NEW st \in Statuses \cup {"undefined"}, NEW n \in Nat,
         number_threads # 0, GotPeerInfo(p, st, n), vm' = vm,
         \A q \in Peers \ {p} :
           /\ Queued(pool, q) \/ Posted(done, q) => Queued(pool', q) \/ Posted(done', q)
           /\ HasPort(pool', q) \/ HasPort(done', q) \/ InRest(rest', q)
                => HasPort(pool, q) \/ HasPort(done, q) \/ InRest(rest, q)
  PROVE  /\ AskedInTable'
         /\ OldIsChecked'
         /\ \A q \in Peers : Live(q) /\ InTable(q) => InTable(q)'
         /\ \A q \in Peers \ {p} : ~InTable(q) => ~InTable(q)'
<1>1. /\ machine_peers_table'[p].update = (IF number_threads' = 0 THEN "old" ELSE "new")
      /\ \A q \in Peers \ {p} :
              IF number_threads' # 0
              THEN machine_peers_table'[q] = machine_peers_table[q]
              ELSE IF machine_peers_table[q].update = "new"
              THEN machine_peers_table'[q].update = "old"
              ELSE machine_peers_table'[q] = NoRow
  BY AnswerRows
<1>2. Outstanding > 0 /\ Outstanding \in Nat
  BY OutstandingType DEF TypeOK, CountIsExact
<1>3. /\ Cardinality(Counted(pool')) \in Nat /\ Cardinality(Counted(done')) \in Nat
      /\ Len(rest') \in Nat
  BY CountedFinite, LenProperties DEF TypeOK
<1>4. ASSUME NEW q, number_threads' = 0
      PROVE  /\ ~Queued(pool', q) /\ ~Posted(done', q)
             /\ ~HasPort(pool', q) /\ ~HasPort(done', q) /\ ~InRest(rest', q)
  <2>1. /\ Cardinality(Counted(pool')) = 0 /\ Cardinality(Counted(done')) = 0
        /\ Len(rest') = 0
    BY <1>3, <1>4 DEF CountIsExact, Outstanding
  <2>2. pool' \in Seq(Jobs) /\ done' \in Seq(Results)
    BY DEF TypeOK
  <2>3. (\A i \in DOMAIN pool' : pool'[i].kind = "vm") /\ (\A i \in DOMAIN done' : done'[i].kind = "vm")
    <3>1. ASSUME NEW i \in DOMAIN pool', pool'[i].kind # "vm" PROVE FALSE
      <4>1. Cardinality(Counted(pool')) > 0
        BY <2>2, <3>1, PendingIsCounted
      <4>. QED  BY <2>1, <4>1
    <3>2. ASSUME NEW i \in DOMAIN done', done'[i].kind # "vm" PROVE FALSE
      <4>1. Cardinality(Counted(done')) > 0
        BY <2>2, <3>2, PendingIsCounted
      <4>. QED  BY <2>1, <4>1
    <3>. QED  BY <3>1, <3>2
  <2>4. DOMAIN rest' = {}
    BY <2>1, LenProperties DEF TypeOK
  <2>. QED  BY <2>3, <2>4 DEF Queued, Posted, HasPort, InRest
<1>5. AskedInTable'
  <2>1. ASSUME NEW q \in Peers, HasPort(pool', q) \/ HasPort(done', q) \/ InRest(rest', q)
        PROVE  machine_peers_table'[q].update # "none"
    <3>1. number_threads' # 0
      BY <1>4, <2>1
    <3>2. CASE q = p
      BY <1>1, <3>1, <3>2
    <3>3. CASE q # p
      BY <1>1, <2>1, <3>1, <3>3 DEF AskedInTable, InTable
    <3>. QED  BY <3>2, <3>3
  <2>. QED  BY <2>1 DEF AskedInTable, InTable
<1>6. OldIsChecked'
  <2>1. ASSUME NEW q \in Peers, vm[q] \in {"poweroff", "running"},
               machine_peers_table'[q].update = "old", Outstanding' > 0
        PROVE  Queued(pool', q) \/ Posted(done', q)
    <3>1. number_threads' # 0
      BY <2>1 DEF CountIsExact
    <3>2. q # p /\ machine_peers_table[q].update = "old"
      BY <1>1, <2>1, <3>1
    <3>. QED  BY <1>2, <2>1, <3>2 DEF OldIsChecked, Live
  <2>. QED  BY <2>1 DEF OldIsChecked, Live
<1>7. ASSUME NEW q \in Peers, Live(q), InTable(q)
      PROVE  InTable(q)'
  <2>1. CASE q = p
    BY <1>1, <2>1 DEF InTable
  <2>2. CASE q # p /\ number_threads' # 0
    BY <1>1, <1>7, <2>2 DEF InTable
  <2>3. CASE q # p /\ number_threads' = 0
    <3>1. machine_peers_table[q].update # "old"
      BY <1>2, <1>4, <1>7, <2>3 DEF OldIsChecked
    <3>2. machine_peers_table[q].update = "new"
      BY <1>7, <3>1 DEF TypeOK, Rows, InTable
    <3>. QED  BY <1>1, <2>3, <3>2 DEF InTable
  <2>. QED  BY <2>1, <2>2, <2>3
<1>8. ASSUME NEW q \in Peers \ {p}, ~InTable(q)
      PROVE  ~InTable(q)'
  BY <1>1, <1>8 DEF InTable, NoRow
<1>. QED  BY <1>5, <1>6, <1>7, <1>8

\* What the head's leaving does to the results.
LEMMA DoneTail ==
  ASSUME TypeOK, done # <<>>, done' = Tail(done), NEW p
  PROVE  /\ NoneAbout(done, p) => NoneAbout(done', p)
         /\ NoneFound(done, p) => NoneFound(done', p)
         /\ HasPort(done', p) => HasPort(done, p)
         /\ Missed(done', p) => Missed(done, p)
         /\ StaleFirst(done, p) => StaleFirst(done', p)
         /\ StaleFirst(done, p) /\ Head(done).peer = p => ~Missed(done', p)
         /\ SomeAre(done) => SomeAre(done')
<1>1. \A i \in DOMAIN done' : i + 1 \in DOMAIN done /\ done'[i] = done[i + 1]
  BY TailElements DEF TypeOK
<1>2. /\ 1 \in DOMAIN done /\ Head(done) = done[1]
      /\ DOMAIN done = 1..Len(done) /\ Len(done) \in Nat
      /\ DOMAIN done' = 1..Len(done') /\ Len(done') \in Nat
  BY HeadTailProperties, LenProperties, EmptySeq DEF TypeOK
<1>3. ASSUME StaleFirst(done, p) PROVE StaleFirst(done', p)
  <2>1. ASSUME NEW i \in DOMAIN done', NEW j \in DOMAIN done', Stale(done'[i], p), j < i
        PROVE  done'[j].peer # p
    <3>1. i + 1 \in DOMAIN done /\ j + 1 \in DOMAIN done /\ j + 1 < i + 1
      BY <1>1, <1>2, <2>1
    <3>2. done'[i] = done[i + 1] /\ done'[j] = done[j + 1]
      BY <1>1, <2>1
    <3>. QED  BY <1>3, <2>1, <3>1, <3>2 DEF StaleFirst
  <2>. QED  BY <2>1 DEF StaleFirst
<1>4. ASSUME StaleFirst(done, p), Head(done).peer = p, NEW i \in DOMAIN done', Stale(done'[i], p)
      PROVE  FALSE
  <2>1. i + 1 \in DOMAIN done /\ 1 < i + 1 /\ done'[i] = done[i + 1]
    BY <1>1, <1>2, <1>4
  <2>2. done[1].peer # p
    BY <1>2, <1>4, <2>1 DEF StaleFirst
  <2>. QED  BY <1>2, <1>4, <2>2
<1>5. /\ NoneAbout(done, p) => NoneAbout(done', p)
      /\ NoneFound(done, p) => NoneFound(done', p)
      /\ HasPort(done', p) => HasPort(done, p)
      /\ SomeAre(done) => SomeAre(done')
  BY <1>1 DEF NoneAbout, NoneFound, HasPort, SomeAre
<1>6. Missed(done', p) => Missed(done, p)
  BY <1>1 DEF Missed
<1>7. StaleFirst(done, p) /\ Head(done).peer = p => ~Missed(done', p)
  BY <1>4 DEF Missed
<1>. QED  BY <1>3, <1>5, <1>6, <1>7

\* search_local asks every machine that has a row and still exists.
LEMMA DeliverVmJobRound ==
  ASSUME TypeOK, RoundInv, DeliverVmJob
  PROVE  RoundInv' /\ \A p \in Peers : Live(p) /\ InTable(p) => InTable(p)'
<1>. USE DEF RoundInv
<1> DEFINE found == Head(done).found
           searched == IF found # {} THEN found ELSE {p \in Peers : vm[p] # "absent"}
           asked == searched \ running_commands
<1>1. /\ done # <<>> /\ done' = Tail(done) /\ Head(done).kind = "vm"
      /\ Head(done) = done[1] /\ 1 \in DOMAIN done /\ Head(done) \in Results
      /\ UNCHANGED <<vm, rest, running_commands, terminal>>
  BY HeadTailProperties, LenProperties, EmptySeq DEF DeliverVmJob, commandVars, TypeOK
<1>2. asked \in SUBSET Peers /\ asked = searched
  BY <1>1 DEF Results, NothingCommanded
<1>3. PICK order \in SetToSeqs(asked) :
        /\ pool' = pool \o [i \in DOMAIN order |-> [kind |-> "status", peer |-> order[i]]]
        /\ number_threads' = number_threads + Len(order)
        /\ machine_peers_table' = IF number_threads' = 0 THEN UpdFinished(machine_peers_table)
                                                         ELSE machine_peers_table
  BY DEF DeliverVmJob
<1> DEFINE jobs == [i \in DOMAIN order |-> [kind |-> "status", peer |-> order[i]]]
<1>4. \A p \in Peers : Live(p) /\ InTable(p) => p \in asked
  <2>1. ASSUME NEW p \in Peers, Live(p), InTable(p)
        PROVE  p \in searched
    <3>1. CASE found = {}
      BY <2>1, <3>1 DEF Live
    <3>2. CASE found # {} /\ p \notin found
      <4>1. Stale(done[1], p)
        BY <1>1, <3>2 DEF Stale
      <4>2. Missed(done, p)
        BY <1>1, <4>1 DEF Missed
      <4>. QED  BY <2>1, <4>2 DEF StaleBeforeKnown
    <3>. QED  BY <3>1, <3>2
  <2>. QED  BY <1>2, <2>1
<1>5. \A p \in asked : vm[p] # "absent"
  <2>1. ASSUME NEW p \in Peers, vm[p] = "absent" PROVE p \notin searched
    BY <1>1, <2>1 DEF AbsentUnknown, NoneFound
  <2>. QED  BY <1>2, <2>1
<1>. HIDE DEF asked
<1>6. jobs \in Seq(Jobs) /\ DOMAIN jobs = DOMAIN order /\ Len(jobs) = Len(order)
  BY <1>2, OrderType
<1>7. \A i \in DOMAIN jobs : jobs[i].kind = "status" /\ jobs[i].peer \in asked
  <2>1. \A i \in DOMAIN order : order[i] \in asked
    <3>1. order \in [1..Cardinality(asked) -> asked]
      BY DEF SetToSeqs
    <3>. QED  BY <3>1
  <2>. QED  BY <1>6, <2>1
<1>8. ASSUME NEW p \in asked PROVE Queued(jobs, p)
  <2>1. PICK i \in DOMAIN order : p = order[i]
    BY <1>2, <1>8, OrderCovers
  <2>2. jobs[i] = [kind |-> "status", peer |-> p] /\ i \in DOMAIN jobs
    BY <1>6, <2>1
  <2>. HIDE DEF jobs
  <2>. QED  BY <2>2 DEF Queued
<1>9. pool' = pool \o jobs /\ number_threads' = number_threads + Len(jobs)
  BY <1>3, <1>6
<1>. HIDE DEF jobs, found, searched
<1>10. \A i \in DOMAIN pool' :
         (i \in DOMAIN pool /\ pool'[i] = pool[i]) \/ \E j \in DOMAIN jobs : pool'[i] = jobs[j]
  BY <1>6, <1>9, ConcatElements DEF TypeOK
<1>11. \A p : (Queued(pool, p) => Queued(pool', p)) /\ (Queued(jobs, p) => Queued(pool', p))
  BY <1>6, <1>9, QueuedConcat DEF TypeOK
<1>12. number_threads \in Nat /\ Len(jobs) \in Nat
  BY <1>6, LenProperties DEF TypeOK
<1>13. CountIsExact' /\ TypeOK'
  BY DeliverExact, DeliverVmJobStep DEF Deliver
<1>14. ASSUME number_threads' = 0 PROVE asked = {}
  <2>1. Len(jobs) = 0
    BY <1>9, <1>12, <1>14
  <2>2. DOMAIN jobs = {}
    BY <1>6, <2>1, LenProperties
  <2>3. ASSUME NEW p \in asked PROVE FALSE
    BY <1>8, <2>2, <2>3 DEF Queued
  <2>. QED  BY <2>3
<1>15. ASSUME NEW p \in Peers
       PROVE  /\ ~InTable(p) => machine_peers_table'[p].update = "none"
              /\ machine_peers_table'[p].status # "not_created"
              /\ Live(p) /\ InTable(p) => machine_peers_table'[p].update # "none"
  <2>1. machine_peers_table[p] \in Rows /\ machine_peers_table[p].status # "not_created"
    BY DEF TypeOK, NothingCommanded
  <2>2. CASE number_threads' # 0
    BY <1>3, <2>1, <2>2 DEF InTable
  <2>3. CASE number_threads' = 0
    <3>1. ~(Live(p) /\ InTable(p))
      BY <1>4, <1>14, <2>3
    <3>2. machine_peers_table'[p] = IF machine_peers_table[p].update = "new"
            THEN [machine_peers_table[p] EXCEPT !.update = "old"] ELSE NoRow
      BY <1>3, <2>3 DEF UpdFinished
    <3>3. ASSUME NEW row \in Rows
          PROVE  /\ [row EXCEPT !.update = "old"].update = "old"
                 /\ [row EXCEPT !.update = "old"].status = row.status
      BY DEF Rows
    <3>4. CASE machine_peers_table[p].update = "new"
      BY <2>1, <3>1, <3>2, <3>3, <3>4 DEF InTable
    <3>5. CASE machine_peers_table[p].update # "new"
      BY <3>1, <3>2, <3>5 DEF NoRow, InTable
    <3>. QED  BY <3>4, <3>5
  <2>. QED  BY <2>2, <2>3
<1>16. NothingCommanded'
  <2>1. SomeAre(done')
    BY <1>1, DoneTail DEF NothingCommanded
  <2>. QED  BY <1>1, <1>15, <2>1 DEF NothingCommanded
<1>17. AbsentUnknown'
  <2>1. ASSUME NEW p \in Peers, vm[p] = "absent"
        PROVE  /\ ~InTable(p)' /\ NoneAbout(pool', p)
               /\ NoneAbout(done', p) /\ NoneFound(done', p)
    <3>1. ~InTable(p) /\ NoneAbout(pool, p) /\ NoneAbout(done, p) /\ NoneFound(done, p)
      BY <2>1 DEF AbsentUnknown
    <3>2. NoneAbout(pool', p)
      BY <1>5, <1>7, <1>10, <2>1, <3>1 DEF NoneAbout
    <3>3. NoneAbout(done', p) /\ NoneFound(done', p)
      BY <1>1, <3>1, DoneTail
    <3>. QED  BY <1>15, <3>1, <3>2, <3>3 DEF InTable
  <2>. QED  BY <1>1, <2>1 DEF AbsentUnknown
<1>18. AskedInTable'
  <2>1. ASSUME NEW p \in Peers, HasPort(pool', p) \/ HasPort(done', p) \/ InRest(rest', p)
        PROVE  machine_peers_table'[p].update # "none"
    <3>1. HasPort(pool', p) => HasPort(pool, p)
      BY <1>7, <1>10 DEF HasPort
    <3>2. HasPort(done', p) => HasPort(done, p)
      BY <1>1, DoneTail
    <3>3. (HasPort(pool, p) \/ HasPort(done, p) \/ InRest(rest, p)) /\ InTable(p)
      BY <1>1, <2>1, <3>1, <3>2 DEF AskedInTable
    <3>4. Outstanding > 0
      <4>1. pool \in Seq(Jobs) /\ done \in Seq(Results) /\ rest \in Seq(Peers)
        BY DEF TypeOK
      <4>2. HasPort(pool, p) => Cardinality(Counted(pool)) > 0
        BY <4>1, PendingIsCounted DEF HasPort
      <4>3. HasPort(done, p) => Cardinality(Counted(done)) > 0
        BY <4>1, PendingIsCounted DEF HasPort
      <4>4. InRest(rest, p) => Len(rest) > 0
        BY <4>1, LenProperties DEF InRest
      <4>. QED  BY <3>3, <4>2, <4>3, <4>4, OutstandingType DEF Outstanding
    <3>5. number_threads' # 0
      BY <1>9, <1>12, <3>4 DEF CountIsExact
    <3>. QED  BY <1>3, <3>3, <3>5 DEF InTable
  <2>. QED  BY <2>1 DEF AskedInTable, InTable
<1>19. OldIsChecked'
  <2>1. ASSUME NEW p \in Peers, Live(p), machine_peers_table'[p].update = "old"
        PROVE  Queued(pool', p)
    <3>1. InTable(p)
      BY <1>15, <2>1
    <3>. QED  BY <1>4, <1>8, <1>11, <2>1, <3>1
  <2>. QED  BY <1>1, <2>1 DEF OldIsChecked, Live
<1>20. StaleBeforeKnown'
  <2>1. ASSUME NEW p \in Peers, Live(p)
        PROVE  (Missed(done', p) => ~InTable(p)') /\ StaleFirst(done', p)
    BY <1>1, <1>15, <2>1, DoneTail DEF StaleBeforeKnown, InTable
  <2>. QED  BY <1>1, <2>1 DEF StaleBeforeKnown, Live
<1>21. \A p \in Peers : Live(p) /\ InTable(p) => InTable(p)'
  BY <1>15 DEF InTable
<1>. QED  BY <1>13, <1>16, <1>17, <1>18, <1>19, <1>20, <1>21

\* The result of a check: its machine exists, and no listing that misses it is
\* still on the way.
LEMMA DeliverStatusRound ==
  ASSUME TypeOK, RoundInv, DeliverStatus
  PROVE  RoundInv' /\ \A p \in Peers : Live(p) /\ InTable(p) => InTable(p)'
<1>. USE DEF RoundInv
<1> DEFINE p == Head(done).peer
           out == Head(done).output
<1>1. /\ done # <<>> /\ done' = Tail(done) /\ Head(done).kind = "status"
      /\ Head(done) = done[1] /\ 1 \in DOMAIN done /\ Head(done) \in Results
      /\ UNCHANGED <<vm, running_commands, terminal>>
  BY HeadTailProperties, LenProperties, EmptySeq DEF DeliverStatus, commandVars, TypeOK
<1>2. p \in Peers /\ out \in Statuses /\ out # "not_created"
  BY <1>1 DEF Results, NothingCommanded, SomeAre
<1>3. number_threads # 0
  <2>1. Cardinality(Counted(done)) > 0
    BY <1>1, PendingIsCounted DEF TypeOK
  <2>. QED  BY <2>1, OutstandingType DEF CountIsExact, Outstanding
<1>4. /\ rest' = rest
      /\ \/ pool' = Append(pool, [kind |-> "port", peer |-> p]) /\ GotPeerInfo(p, out, 1)
         \/ pool' = pool /\ GotPeerInfo(p, out, 0)
  BY <1>3 DEF DeliverStatus
<1>5. CountIsExact' /\ TypeOK'
  BY DeliverExact, DeliverStatusStep DEF Deliver
<1>6. PICK n \in {0, 1} : GotPeerInfo(p, out, n)
  BY <1>4
<1>. HIDE DEF p, out
<1>7. [kind |-> "port", peer |-> p] \in Jobs
  BY <1>2 DEF Jobs
<1>8. \A i \in DOMAIN pool' :
        (i \in DOMAIN pool /\ pool'[i] = pool[i]) \/ pool'[i] = [kind |-> "port", peer |-> p]
  <2> DEFINE e == [kind |-> "port", peer |-> p]
  <2>1. e \in Jobs /\ pool \in Seq(Jobs) /\ (pool' = Append(pool, e) \/ pool' = pool)
    BY <1>4, <1>7 DEF TypeOK
  <2>. HIDE DEF e
  <2>2. \A i \in DOMAIN Append(pool, e) :
          (i \in DOMAIN pool /\ Append(pool, e)[i] = pool[i]) \/ Append(pool, e)[i] = e
    BY <2>1, AppendElements
  <2>3. \A i \in DOMAIN pool' : (i \in DOMAIN pool /\ pool'[i] = pool[i]) \/ pool'[i] = e
    BY <2>1, <2>2
  <2>. QED  BY <2>3 DEF e
<1>9. ASSUME NEW q \in Peers \ {p}
      PROVE  /\ Queued(pool, q) \/ Posted(done, q) => Queued(pool', q) \/ Posted(done', q)
             /\ HasPort(pool', q) \/ HasPort(done', q) \/ InRest(rest', q)
                   => HasPort(pool, q) \/ HasPort(done, q) \/ InRest(rest, q)
  <2>1. Queued(pool, q) => Queued(pool', q)
    BY <1>4, <1>7, QueuedAppend DEF TypeOK
  <2>2. Posted(done, q) => Posted(done', q)
    BY <1>1, HeadLeaves DEF TypeOK, p
  <2>3. HasPort(pool', q) => HasPort(pool, q)
    BY <1>8, <1>9 DEF HasPort
  <2>4. HasPort(done', q) => HasPort(done, q)
    BY <1>1, DoneTail
  <2>. QED  BY <1>4, <2>1, <2>2, <2>3, <2>4
<1>10. /\ AskedInTable' /\ OldIsChecked'
       /\ \A q \in Peers : Live(q) /\ InTable(q) => InTable(q)'
       /\ \A q \in Peers \ {p} : ~InTable(q) => ~InTable(q)'
  <2>1. n \in Nat /\ out \in Statuses \cup {"undefined"} /\ vm' = vm
    BY <1>1, <1>2
  <2>. HIDE DEF RoundInv
  <2>2. AskedInTable /\ OldIsChecked /\ CountIsExact
    BY DEF RoundInv
  <2>. QED  BY <1>2, <1>3, <1>5, <1>6, <1>9, <2>1, <2>2, AnswerRound
<1>11. vm[p] # "absent"
  BY <1>1, <1>2 DEF AbsentUnknown, NoneAbout, p
<1>12. NothingCommanded'
  <2>1. /\ machine_peers_table'[p].status # "not_created"
        /\ \A q \in Peers \ {p} : \/ machine_peers_table'[q] = NoRow
                                  \/ machine_peers_table'[q].status = machine_peers_table[q].status
    BY <1>2, <1>3, <1>6, AnswerRows
  <2>2. \A q \in Peers : machine_peers_table'[q].status # "not_created"
    BY <2>1 DEF NothingCommanded, NoRow
  <2>3. SomeAre(done')
    BY <1>1, DoneTail DEF NothingCommanded
  <2>. QED  BY <1>1, <2>2, <2>3 DEF NothingCommanded
<1>13. AbsentUnknown'
  <2>1. ASSUME NEW q \in Peers, vm[q] = "absent"
        PROVE  /\ ~InTable(q)' /\ NoneAbout(pool', q)
               /\ NoneAbout(done', q) /\ NoneFound(done', q)
    <3>1. ~InTable(q) /\ NoneAbout(pool, q) /\ NoneAbout(done, q) /\ NoneFound(done, q)
      BY <2>1 DEF AbsentUnknown
    <3>2. q # p
      BY <1>11, <2>1
    <3>3. NoneAbout(pool', q)
      BY <1>8, <3>1, <3>2 DEF NoneAbout
    <3>4. NoneAbout(done', q) /\ NoneFound(done', q)
      BY <1>1, <3>1, DoneTail
    <3>. QED  BY <1>10, <3>1, <3>2, <3>3, <3>4
  <2>. QED  BY <1>1, <2>1 DEF AbsentUnknown
<1>14. StaleBeforeKnown'
  <2>1. ASSUME NEW q \in Peers, Live(q)
        PROVE  (Missed(done', q) => ~InTable(q)') /\ StaleFirst(done', q)
    <3>1. (Missed(done, q) => ~InTable(q)) /\ StaleFirst(done, q)
      BY <2>1 DEF StaleBeforeKnown
    <3>2. StaleFirst(done', q) /\ (Missed(done', q) => Missed(done, q))
      BY <1>1, <3>1, DoneTail
    <3>3. CASE q = p
      BY <1>1, <3>1, <3>2, <3>3, DoneTail DEF p
    <3>4. CASE q # p
      BY <1>10, <3>1, <3>2, <3>4
    <3>. QED  BY <3>3, <3>4
  <2>. QED  BY <1>1, <2>1 DEF StaleBeforeKnown, Live
<1>. QED  BY <1>5, <1>10, <1>12, <1>13, <1>14

\* The port of a machine that has its row.
LEMMA DeliverPortRound ==
  ASSUME TypeOK, RoundInv, DeliverPort
  PROVE  RoundInv' /\ \A p \in Peers : Live(p) /\ InTable(p) => InTable(p)'
<1>. USE DEF RoundInv
<1> DEFINE p == Head(done).peer
           st == machine_peers_table[p].status
<1>1. /\ done # <<>> /\ done' = Tail(done) /\ Head(done).kind = "port"
      /\ Head(done) = done[1] /\ 1 \in DOMAIN done /\ Head(done) \in Results
      /\ UNCHANGED <<vm, pool, running_commands, terminal>>
  BY HeadTailProperties, LenProperties, EmptySeq DEF DeliverPort, commandVars, TypeOK
<1>2. p \in Peers
  BY <1>1 DEF Results
<1>3. st \in Statuses \cup {"undefined"} /\ st # "not_created"
  BY <1>2 DEF TypeOK, Rows, NothingCommanded
<1>4. number_threads # 0
  <2>1. Cardinality(Counted(done)) > 0
    BY <1>1, PendingIsCounted DEF TypeOK
  <2>. QED  BY <2>1, OutstandingType DEF CountIsExact, Outstanding
<1>5. \/ rest' = rest \o <<p, p>> /\ GotPeerInfo(p, st, 2)
      \/ rest' = rest /\ GotPeerInfo(p, st, 0)
  BY <1>4 DEF DeliverPort
<1>6. CountIsExact' /\ TypeOK'
  BY DeliverExact, DeliverPortStep DEF Deliver
<1>7. PICK n \in {0, 2} : GotPeerInfo(p, st, n)
  BY <1>5
<1>8. HasPort(done, p)
  BY <1>1 DEF HasPort
<1>. HIDE DEF p, st
<1>9. \A i \in DOMAIN rest' : (i \in DOMAIN rest /\ rest'[i] = rest[i]) \/ rest'[i] = p
  <2>1. <<p, p>> \in Seq(Peers) /\ \A i \in DOMAIN <<p, p>> : <<p, p>>[i] = p
    BY <1>2
  <2> DEFINE two == <<p, p>>
  <2>2. (rest' = rest \o two \/ rest' = rest) /\ rest \in Seq(Peers)
    BY <1>5 DEF TypeOK
  <2>. HIDE DEF two
  <2>3. \A i \in DOMAIN (rest \o two) :
          (i \in DOMAIN rest /\ (rest \o two)[i] = rest[i]) \/ (rest \o two)[i] = p
    <3>1. two \in Seq(Peers) /\ \A i \in DOMAIN two : two[i] = p
      BY <2>1 DEF two
    <3>. QED  BY <2>2, <3>1, ConcatElements
  <2>. QED  BY <2>2, <2>3
<1>10. ASSUME NEW q \in Peers \ {p}
       PROVE  /\ Queued(pool, q) \/ Posted(done, q) => Queued(pool', q) \/ Posted(done', q)
              /\ HasPort(pool', q) \/ HasPort(done', q) \/ InRest(rest', q)
                    => HasPort(pool, q) \/ HasPort(done, q) \/ InRest(rest, q)
  <2>1. Posted(done, q) => Posted(done', q)
    BY <1>1, HeadLeaves DEF TypeOK
  <2>2. HasPort(done', q) => HasPort(done, q)
    BY <1>1, DoneTail
  <2>3. InRest(rest', q) => InRest(rest, q)
    BY <1>9, <1>10 DEF InRest
  <2>. QED  BY <1>1, <2>1, <2>2, <2>3
<1>11. /\ AskedInTable' /\ OldIsChecked'
       /\ \A q \in Peers : Live(q) /\ InTable(q) => InTable(q)'
       /\ \A q \in Peers \ {p} : ~InTable(q) => ~InTable(q)'
  <2>1. n \in Nat /\ vm' = vm
    BY <1>1
  <2>. HIDE DEF RoundInv
  <2>2. AskedInTable /\ OldIsChecked /\ CountIsExact
    BY DEF RoundInv
  <2>. QED  BY <1>2, <1>3, <1>4, <1>6, <1>7, <1>10, <2>1, <2>2, AnswerRound
<1>12. NothingCommanded'
  <2>1. /\ machine_peers_table'[p].status # "not_created"
        /\ \A q \in Peers \ {p} : \/ machine_peers_table'[q] = NoRow
                                  \/ machine_peers_table'[q].status = machine_peers_table[q].status
    BY <1>2, <1>3, <1>4, <1>7, AnswerRows
  <2>2. \A q \in Peers : machine_peers_table'[q].status # "not_created"
    BY <2>1 DEF NothingCommanded, NoRow
  <2>3. SomeAre(done')
    BY <1>1, DoneTail DEF NothingCommanded
  <2>. QED  BY <1>1, <2>2, <2>3 DEF NothingCommanded
<1>13. InTable(p)
  BY <1>2, <1>8 DEF AskedInTable
<1>14. ASSUME NEW q \in Peers, ~InTable(q) PROVE ~InTable(q)'
  BY <1>11, <1>13, <1>14
<1>15. AbsentUnknown'
  <2>1. ASSUME NEW q \in Peers, vm[q] = "absent"
        PROVE  /\ ~InTable(q)' /\ NoneAbout(pool', q)
               /\ NoneAbout(done', q) /\ NoneFound(done', q)
    <3>1. ~InTable(q) /\ NoneAbout(pool, q) /\ NoneAbout(done, q) /\ NoneFound(done, q)
      BY <2>1 DEF AbsentUnknown
    <3>2. NoneAbout(done', q) /\ NoneFound(done', q)
      BY <1>1, <3>1, DoneTail
    <3>. QED  BY <1>1, <1>14, <3>1, <3>2
  <2>. QED  BY <1>1, <2>1 DEF AbsentUnknown
<1>16. StaleBeforeKnown'
  <2>1. ASSUME NEW q \in Peers, Live(q)
        PROVE  (Missed(done', q) => ~InTable(q)') /\ StaleFirst(done', q)
    <3>1. (Missed(done, q) => ~InTable(q)) /\ StaleFirst(done, q)
      BY <2>1 DEF StaleBeforeKnown
    <3>2. StaleFirst(done', q) /\ (Missed(done', q) => Missed(done, q))
      BY <1>1, <3>1, DoneTail
    <3>. QED  BY <1>14, <3>1, <3>2
  <2>. QED  BY <1>1, <2>1 DEF StaleBeforeKnown, Live
<1>. QED  BY <1>6, <1>11, <1>12, <1>15, <1>16

\* A REST answer about a machine that has its row.
LEMMA RestFinishedRound ==
  ASSUME TypeOK, RoundInv, RestFinished
  PROVE  RoundInv' /\ \A p \in Peers : Live(p) /\ InTable(p) => InTable(p)'
<1>. USE DEF RoundInv
<1>1. CountIsExact' /\ number_threads # 0 /\ TypeOK'
  BY RestFinishedExact, RestFinishedStep
<1>2. PICK i \in DOMAIN rest :
        /\ GotPeerInfo(rest[i], machine_peers_table[rest[i]].status, 0)
        /\ rest' = RemoveAt(rest, i)
  BY <1>1 DEF RestFinished
<1>3. UNCHANGED <<vm, pool, done, running_commands, terminal>>
  BY DEF RestFinished, commandVars
<1> DEFINE p == rest[i]
           st == machine_peers_table[p].status
<1>4. p \in Peers
  BY LenProperties DEF TypeOK
<1>5. st \in Statuses \cup {"undefined"} /\ st # "not_created"
  BY <1>4 DEF TypeOK, Rows, NothingCommanded
<1>6. GotPeerInfo(p, st, 0)
  BY <1>2
<1>7. InRest(rest, p)
  BY DEF InRest
<1>. HIDE DEF p, st
<1>8. \A j \in DOMAIN rest' : \E k \in DOMAIN rest : rest'[j] = rest[k]
  BY <1>2, RemoveAtElements DEF TypeOK
<1>9. ASSUME NEW q \in Peers \ {p}
      PROVE  /\ Queued(pool, q) \/ Posted(done, q) => Queued(pool', q) \/ Posted(done', q)
             /\ HasPort(pool', q) \/ HasPort(done', q) \/ InRest(rest', q)
                   => HasPort(pool, q) \/ HasPort(done, q) \/ InRest(rest, q)
  <2>1. InRest(rest', q) => InRest(rest, q)
    BY <1>8 DEF InRest
  <2>. QED  BY <1>3, <2>1
<1>10. /\ AskedInTable' /\ OldIsChecked'
       /\ \A q \in Peers : Live(q) /\ InTable(q) => InTable(q)'
       /\ \A q \in Peers \ {p} : ~InTable(q) => ~InTable(q)'
  <2>1. 0 \in Nat /\ vm' = vm
    BY <1>3
  <2>. HIDE DEF RoundInv
  <2>2. AskedInTable /\ OldIsChecked /\ CountIsExact
    BY DEF RoundInv
  <2>. QED  BY <1>1, <1>4, <1>5, <1>6, <1>9, <2>1, <2>2, AnswerRound
<1>11. NothingCommanded'
  <2>1. /\ machine_peers_table'[p].status # "not_created"
        /\ \A q \in Peers \ {p} : \/ machine_peers_table'[q] = NoRow
                                  \/ machine_peers_table'[q].status = machine_peers_table[q].status
    BY <1>1, <1>4, <1>5, <1>6, AnswerRows
  <2>2. \A q \in Peers : machine_peers_table'[q].status # "not_created"
    BY <2>1 DEF NothingCommanded, NoRow
  <2>. QED  BY <1>3, <2>2 DEF NothingCommanded
<1>12. InTable(p)
  BY <1>4, <1>7 DEF AskedInTable
<1>13. ASSUME NEW q \in Peers, ~InTable(q) PROVE ~InTable(q)'
  BY <1>10, <1>12, <1>13
<1>14. AbsentUnknown'
  BY <1>3, <1>13 DEF AbsentUnknown
<1>15. StaleBeforeKnown'
  BY <1>3, <1>13 DEF StaleBeforeKnown, Live
<1>. QED  BY <1>1, <1>10, <1>11, <1>14, <1>15

\* A new machine is one that nobody has heard of.
LEMMA PeerCreatedRound ==
  ASSUME TypeOK, RoundInv, NEW p \in Peers, PeerCreated(p)
  PROVE  RoundInv'
<1>. USE DEF RoundInv
<1>1. UNCHANGED <<number_threads, pool, done, rest, machine_peers_table,
                  running_commands, terminal>>
  BY DEF PeerCreated, mainVars, queueVars, commandVars
<1>2. /\ vm[p] = "absent" /\ vm'[p] = "running"
      /\ \A q \in Peers \ {p} : vm'[q] = vm[q]
  BY DEF PeerCreated, TypeOK
<1>3. ~InTable(p) /\ NoneAbout(done, p)
  BY <1>2 DEF AbsentUnknown
<1>4. NothingCommanded' /\ AbsentUnknown'
  BY <1>1, <1>2 DEF NothingCommanded, AbsentUnknown, InTable
<1>5. CountIsExact' /\ AskedInTable'
  BY <1>1 DEF CountIsExact, Outstanding, AskedInTable, InTable
<1>6. OldIsChecked'
  <2>1. machine_peers_table[p].update # "old"
    BY <1>3 DEF InTable
  <2>2. Outstanding' = Outstanding
    BY <1>1 DEF Outstanding
  <2>. QED  BY <1>1, <1>2, <2>1, <2>2 DEF OldIsChecked, Live
<1>7. StaleBeforeKnown'
  <2>1. StaleFirst(done, p)
    BY <1>3 DEF StaleFirst, NoneAbout
  <2>. QED  BY <1>1, <1>2, <1>3, <2>1 DEF StaleBeforeKnown, Live, InTable
<1>. QED  BY <1>4, <1>5, <1>6, <1>7

\* Once a command is given, its thread is there for good.
LEMMA QuietBefore == TypeOK /\ [Next]_vars /\ Quiet' => Quiet
<1> SUFFICES ASSUME TypeOK, [Next]_vars, NEW c \in Commands, command[c] # NoThread
             PROVE  command'[c] # NoThread
  BY DEF Quiet
<1>1. command[c].stage # "unused"
  BY DEF TypeOK, Threads, NoThread
<1>2. CASE command' = command
  BY <1>2
<1>3. ASSUME NEW d \in Commands, StartTerminal(d) \/ WindowEnds(d)
      PROVE  command'[c] # NoThread
  <2>1. PICK st \in {"window", "failed", "refused", "over"} :
          command' = [command EXCEPT ![d].stage = st]
    BY <1>3 DEF StartTerminal, WindowEnds
  <2>2. CASE c = d
    <3>1. command' = [command EXCEPT ![d] = [command[d] EXCEPT !.stage = st]]
      BY <2>1
    <3>2. command'[c] = [command[c] EXCEPT !.stage = st] /\ command[c] \in Threads
      BY <2>2, <3>1 DEF TypeOK
    <3>3. [command[c] EXCEPT !.stage = st].stage = st
      BY <1>1, <3>2 DEF Threads, NoThread
    <3>. QED  BY <3>2, <3>3 DEF NoThread
  <2>3. CASE c # d
    BY <2>1, <2>3 DEF TypeOK
  <2>. QED  BY <2>2, <2>3
<1>4. ASSUME NEW d \in Commands, NEW p \in Peers, NEW op \in Ops, Click(d, p, op)
      PROVE  command'[c] # NoThread
  BY <1>4 DEF Click, TypeOK
<1>5. \/ command' = command
      \/ \E d \in Commands : StartTerminal(d) \/ WindowEnds(d)
      \/ \E d \in Commands, p \in Peers, op \in Ops : Click(d, p, op)
  BY DEF Next, vars, mainVars, commandVars, queueVars, RefreshTimerTimeout,
     CreatePeerDialogOpened, Refresh, RunVmJob, RunStatusJob, RunPortJob, DeliverVmJob,
     DeliverStatus, DeliverPort, RestFinished, CheckLogs, DialogRefreshed,
     RemoveNotCreated, PeerCreated, TerminalEnds
<1>. QED  BY <1>2, <1>3, <1>4, <1>5

\* One step from a state where no command is given: a step of the rounds, or the
\* first command.
LEMMA NextRound ==
  ASSUME TypeOK, Quiet, RoundInv, [Next]_vars
  PROVE  /\ Quiet' => RoundInv'
         /\ \A p \in Peers : Live(p) /\ InTable(p) => InTable(p)'
<1> DEFINE Kept == \A p \in Peers : Live(p) /\ InTable(p) => InTable(p)'
<1>1. CASE Refresh
  BY <1>1, RefreshRound DEF Refresh, mainVars, InTable
<1>2. CASE RunJob
  BY <1>2, RunJobRound DEF RunJob, RunVmJob, RunStatusJob, RunPortJob, mainVars, InTable
<1>3. CASE Deliver
  BY <1>3, DeliverVmJobRound, DeliverStatusRound, DeliverPortRound DEF Deliver
<1>4. CASE RestFinished
  BY <1>4, RestFinishedRound
<1>5. ASSUME NEW p \in Peers, PeerCreated(p)
      PROVE  RoundInv' /\ Kept
  BY <1>5, PeerCreatedRound DEF PeerCreated, mainVars, InTable
<1>6. CASE UNCHANGED vars \/ \E p \in Peers : DialogRefreshed(p)
  <2>1. UNCHANGED <<vm, number_threads, pool, done, rest, machine_peers_table,
                    running_commands, terminal>>
    BY <1>6 DEF DialogRefreshed, vars, mainVars, queueVars, commandVars
  <2>2. NothingCommanded' /\ AbsentUnknown'
    BY <2>1 DEF RoundInv, NothingCommanded, AbsentUnknown, InTable
  <2>3. CountIsExact' /\ AskedInTable'
    BY <2>1 DEF RoundInv, CountIsExact, Outstanding, AskedInTable, InTable
  <2>4. OldIsChecked' /\ StaleBeforeKnown'
    BY <2>1 DEF RoundInv, OldIsChecked, Outstanding, StaleBeforeKnown, Live, InTable
  <2>. QED  BY <2>1, <2>2, <2>3, <2>4 DEF RoundInv, InTable
<1>7. ASSUME NEW c \in Commands, NEW p \in Peers, NEW op \in Ops, Click(c, p, op)
      PROVE  ~Quiet' /\ Kept
  <2>1. command'[c].stage = "clicked"
    BY <1>7 DEF Click, TypeOK
  <2>2. ~Quiet'
    BY <2>1 DEF Quiet, NoThread
  <2>. QED  BY <1>7, <2>2 DEF Click, mainVars, InTable
<1>8. /\ ~CheckLogs
      /\ \A p \in Peers : ~RemoveNotCreated(p)
      /\ \A c \in Commands : ~StartTerminal(c) /\ ~WindowEnds(c) /\ ~TerminalEnds(c)
  BY DEF CheckLogs, RemoveNotCreated, RoundInv, NothingCommanded, Quiet, NoThread,
         StartTerminal, WindowEnds, TerminalEnds
<1>. QED
  BY <1>1, <1>2, <1>3, <1>4, <1>5, <1>6, <1>7, <1>8
     DEF Next, RunJob, Deliver, RefreshTimerTimeout, CreatePeerDialogOpened

\* While no terminal command is given, whatever rounds overlap, answers come
\* late, listings fail and machines are created: number_threads is exactly the
\* answers that will still arrive, the answers are about rows that are there,
\* and the check of every row still to be refreshed is under way.
THEOREM RoundsAreExact == Spec => [](Quiet => RoundInv)
<1>1. Init => (Quiet => RoundInv)
  BY RoundInit
<1>2. TypeOK /\ (Quiet => RoundInv) /\ [Next]_vars => (Quiet => RoundInv)'
  BY NextRound, QuietBefore
<1>. QED  BY <1>1, <1>2, TypeCorrect, PTL DEF Spec

\* While no terminal command is given, the row of a machine that exists is not
\* deleted: overlapping rounds, late answers, failed listings and newly created
\* peers do not make a peer flicker in the menu.
THEOREM LivePeersStay == Spec => LivePeerKept
<1> DEFINE Kept == \A p \in Peers :
                     /\ InTable(p) /\ vm[p] \in {"poweroff", "running"}
                     /\ \A c \in Commands : command[c] = NoThread
                     => InTable(p)'
<1>1. TypeOK /\ (Quiet => RoundInv) /\ [Next]_vars => [Kept]_vars
  BY NextRound DEF Quiet, Live
<1>2. Spec => [][Kept]_vars
  BY <1>1, RoundsAreExact, TypeCorrect, PTL DEF Spec
<1>. QED  BY <1>2 DEF LivePeerKept
=============================================================================
