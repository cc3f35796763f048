---------------------------- MODULE SshKeysProofs ----------------------------
(***************************************************************************)
(* Proofs about SshKeys: a key that the Hub has in an environment is known *)
(* to be there, or what is under way will tell.  For any keys (finitely    *)
(* many), any environments and any number of workers and of checks.        *)
(*                                                                         *)
(* What a check knows of an environment may be older than an upload.  That *)
(* it is not the last word rests on two more invariants: the answer a      *)
(* check holds is about an environment it has still to look at and of keys *)
(* of the list, since it holds m_mutex (AnswerFits); and a file that is    *)
(* not in the list is of a key nobody has asked about, or one that a       *)
(* removal is about to take away (UnlistedIsNew).                          *)
(***************************************************************************)
EXTENDS SshKeys, SequenceTheorems, FiniteSetTheorems, WellFoundedInduction, TLAPS

----------------------------------------------------------------------------
\* Lists.

\* Arrangements of a finite set: each element once.
Arrangements(S) ==
  {f \in [1..Cardinality(S) -> S] : \A i, j \in 1..Cardinality(S) : i # j => f[i] # f[j]}

Elements(s) == {s[i] : i \in DOMAIN s}

NoTwice(s) == \A i, j \in DOMAIN s : s[i] = s[j] => i = j

\* An arrangement of a finite set lists each element, and each once.
LEMMA ArrangementFacts ==
  ASSUME NEW S, IsFiniteSet(S), NEW f \in Arrangements(S)
  PROVE  f \in Seq(S) /\ NoTwice(f) /\ Elements(f) = S
<1> DEFINE n == Cardinality(S)
<1>1. n \in Nat
  BY FS_CardinalityType
<1>2. f \in [1..n -> S] /\ \A i, j \in 1..n : i # j => f[i] # f[j]
  BY DEF Arrangements
<1>3. IsFiniteSet(1..n) /\ Cardinality(1..n) = n
  BY <1>1, FS_Interval
<1> HIDE DEF n
<1>4. f \in Injection(1..n, S)
  BY <1>2 DEF Injection, IsInjective
<1>5. f \in Surjection(1..n, S)
  BY <1>3, <1>4, FS_Injection DEF n
<1>6. \A x \in S : \E i \in 1..n : f[i] = x
  BY <1>5 DEF Surjection
<1>7. Elements(f) = S
  BY <1>2, <1>6 DEF Elements
<1> QED BY <1>1, <1>2, <1>7 DEF NoTwice

\* What two lists hold, one after the other.
LEMMA ConcatFacts ==
  ASSUME NEW K, NEW s \in Seq(K), NEW t \in Seq(K)
  PROVE  /\ s \o t \in Seq(K) /\ Elements(s \o t) = Elements(s) \cup Elements(t)
         /\ NoTwice(s) /\ NoTwice(t) /\ Elements(s) \cap Elements(t) = {} => NoTwice(s \o t)
<1>1. /\ s \o t \in Seq(K) /\ Len(s \o t) = Len(s) + Len(t)
      /\ \A i \in 1..(Len(s) + Len(t)) :
           (s \o t)[i] = IF i <= Len(s) THEN s[i] ELSE t[i - Len(s)]
  BY ConcatProperties
<1>2. /\ Len(s) \in Nat /\ Len(t) \in Nat
      /\ DOMAIN s = 1..Len(s) /\ DOMAIN t = 1..Len(t) /\ DOMAIN (s \o t) = 1..(Len(s) + Len(t))
  BY <1>1, LenProperties
<1> DEFINE c == s \o t
<1> HIDE DEF c
<1>3. \A i \in 1..Len(s) : i \in 1..(Len(s) + Len(t)) /\ c[i] = s[i]
  BY <1>1, <1>2 DEF c
<1>4. \A i \in 1..Len(t) : i + Len(s) \in 1..(Len(s) + Len(t)) /\ c[i + Len(s)] = t[i]
  BY <1>1, <1>2 DEF c
<1>5. \A i \in 1..(Len(s) + Len(t)) :
        \/ i \in 1..Len(s) /\ c[i] = s[i]
        \/ i - Len(s) \in 1..Len(t) /\ c[i] = t[i - Len(s)]
  BY <1>1, <1>2 DEF c
<1>6. Elements(c) = Elements(s) \cup Elements(t)
  <2>1. ASSUME NEW x \in Elements(c) PROVE x \in Elements(s) \cup Elements(t)
    BY <1>2, <1>5, <2>1 DEF Elements, c
  <2>2. ASSUME NEW x \in Elements(s) PROVE x \in Elements(c)
    BY <1>2, <1>3, <2>2 DEF Elements, c
  <2>3. ASSUME NEW x \in Elements(t) PROVE x \in Elements(c)
    <3>1. PICK i \in 1..Len(t) : x = t[i]
      BY <1>2 DEF Elements
    <3>2. i + Len(s) \in DOMAIN c /\ c[i + Len(s)] = x
      BY <1>2, <1>4, <3>1 DEF c
    <3> QED BY <3>2 DEF Elements
  <2> QED BY <2>1, <2>2, <2>3
<1>7. ASSUME NoTwice(s), NoTwice(t), Elements(s) \cap Elements(t) = {} PROVE NoTwice(c)
  <2> SUFFICES ASSUME NEW i \in 1..(Len(s) + Len(t)), NEW j \in 1..(Len(s) + Len(t)), c[i] = c[j]
               PROVE  i = j
    BY <1>2 DEF NoTwice, c
  <2>1. \A p \in 1..Len(s), q \in 1..Len(t) : s[p] # t[q]
    BY <1>2, <1>7 DEF Elements
  <2>2. CASE i \in 1..Len(s) /\ c[i] = s[i] /\ j \in 1..Len(s) /\ c[j] = s[j]
    BY <2>2, <1>2, <1>7 DEF NoTwice
  <2>3. CASE i - Len(s) \in 1..Len(t) /\ c[i] = t[i - Len(s)]
             /\ j - Len(s) \in 1..Len(t) /\ c[j] = t[j - Len(s)]
    <3>1. i - Len(s) = j - Len(s)
      BY <2>3, <1>2, <1>7 DEF NoTwice
    <3> QED BY <3>1, <1>2
  <2> QED BY <1>5, <2>1, <2>2, <2>3
<1> QED BY <1>1, <1>6, <1>7 DEF c

\* What a piece of a list holds.
LEMMA PieceFacts ==
  ASSUME NEW K, NEW s \in Seq(K), NEW m \in Nat \ {0}, NEW n \in Nat, n <= Len(s)
  PROVE  /\ SubSeq(s, m, n) \in Seq(K)
         /\ Elements(SubSeq(s, m, n)) = {s[i] : i \in m..n}
         /\ NoTwice(s) => NoTwice(SubSeq(s, m, n))
<1> DEFINE b == SubSeq(s, m, n)
<1>1. Len(s) \in Nat /\ DOMAIN s = 1..Len(s) /\ \A i \in 1..Len(s) : s[i] \in K
  BY LenProperties
<1>2. \A i \in m..n : i \in 1..Len(s)
  BY <1>1
<1>3. /\ b \in Seq(K) /\ Len(b) = (IF m <= n THEN n - m + 1 ELSE 0)
      /\ \A i \in 1..(n - m + 1) : b[i] = s[m + i - 1]
  <2>1. \A i \in m..n : s[i] \in K
    BY <1>1, <1>2
  <2> QED BY <2>1, SubSeqProperties
<1>4. DOMAIN b = 1..Len(b)
  BY <1>3, LenProperties
<1>5. DOMAIN b = 1..(n - m + 1)
  BY <1>3, <1>4
<1> HIDE DEF b
<1>6. ASSUME NEW x \in Elements(b) PROVE x \in {s[i] : i \in m..n}
  <2>1. PICK i \in 1..(n - m + 1) : x = b[i]
    BY <1>5 DEF Elements
  <2>2. x = s[m + i - 1] /\ m + i - 1 \in m..n
    BY <1>3, <2>1
  <2> QED BY <2>2
<1>7. ASSUME NEW i \in m..n PROVE s[i] \in Elements(b)
  <2>1. i - m + 1 \in 1..(n - m + 1) /\ m + (i - m + 1) - 1 = i
    OBVIOUS
  <2>2. b[i - m + 1] = s[i]
    BY <1>3, <2>1
  <2> QED BY <1>5, <2>1, <2>2 DEF Elements
<1>8. ASSUME NoTwice(s) PROVE NoTwice(b)
  <2> SUFFICES ASSUME NEW i \in 1..(n - m + 1), NEW j \in 1..(n - m + 1), b[i] = b[j]
               PROVE  i = j
    BY <1>5 DEF NoTwice
  <2>1. s[m + i - 1] = s[m + j - 1]
    BY <1>3
  <2>2. m + i - 1 \in m..n /\ m + j - 1 \in m..n
    OBVIOUS
  <2>3. m + i - 1 = m + j - 1
    BY <1>1, <1>2, <1>8, <2>1, <2>2 DEF NoTwice
  <2> QED BY <2>3
<1> QED BY <1>3, <1>6, <1>7, <1>8 DEF b

\* A list without its i-th element.
LEMMA RemoveAtFacts ==
  ASSUME NEW K, NEW s \in Seq(K), NEW i \in 1..Len(s)
  PROVE  /\ RemoveAt(s, i) \in Seq(K) /\ Elements(RemoveAt(s, i)) \subseteq Elements(s)
         /\ NoTwice(s) => /\ NoTwice(RemoveAt(s, i))
                          /\ Elements(RemoveAt(s, i)) = Elements(s) \ {s[i]}
<1> DEFINE a == SubSeq(s, 1, i - 1)
           b == SubSeq(s, i + 1, Len(s))
<1>1. Len(s) \in Nat /\ DOMAIN s = 1..Len(s)
  BY LenProperties
<1>2. i - 1 \in Nat /\ i - 1 <= Len(s) /\ i + 1 \in Nat \ {0} /\ Len(s) <= Len(s) /\ 1 \in Nat \ {0}
  BY <1>1
<1>3. /\ a \in Seq(K) /\ Elements(a) = {s[j] : j \in 1..(i - 1)}
      /\ NoTwice(s) => NoTwice(a)
  BY <1>2, PieceFacts
<1>4. /\ b \in Seq(K) /\ Elements(b) = {s[j] : j \in (i + 1)..Len(s)}
      /\ NoTwice(s) => NoTwice(b)
  BY <1>1, <1>2, PieceFacts
<1> HIDE DEF a, b
<1>5. RemoveAt(s, i) = a \o b
  BY DEF RemoveAt, a, b
<1>6. /\ a \o b \in Seq(K) /\ Elements(a \o b) = Elements(a) \cup Elements(b)
      /\ NoTwice(a) /\ NoTwice(b) /\ Elements(a) \cap Elements(b) = {} => NoTwice(a \o b)
  BY <1>3, <1>4, ConcatFacts
<1>7. /\ \A j \in 1..(i - 1) : j \in 1..Len(s) /\ j < i
      /\ \A j \in (i + 1)..Len(s) : j \in 1..Len(s) /\ j > i
      /\ \A j \in 1..Len(s) : j # i => j \in 1..(i - 1) \/ j \in (i + 1)..Len(s)
      /\ \A j \in 1..(i - 1), k \in (i + 1)..Len(s) : j # k
  BY <1>1
<1>8. Elements(a \o b) \subseteq Elements(s)
  BY <1>1, <1>3, <1>4, <1>6, <1>7 DEF Elements
<1>9. ASSUME NoTwice(s) PROVE NoTwice(a \o b) /\ Elements(a \o b) = Elements(s) \ {s[i]}
  <2>1. \A j, k \in 1..Len(s) : s[j] = s[k] => j = k
    BY <1>1, <1>9 DEF NoTwice
  <2>2. Elements(a) \cap Elements(b) = {}
    BY <1>3, <1>4, <1>7, <2>1
  <2>3. s[i] \notin Elements(a) \cup Elements(b)
    <3>1. \A j \in 1..(i - 1) : j # i
      BY <1>7
    <3>2. \A j \in (i + 1)..Len(s) : j # i
      BY <1>7
    <3> QED BY <1>3, <1>4, <1>7, <2>1, <3>1, <3>2
  <2>4. \A j \in 1..Len(s) : j # i => s[j] \in Elements(a) \cup Elements(b)
    BY <1>3, <1>4, <1>7
  <2>5. Elements(s) \ {s[i]} \subseteq Elements(a) \cup Elements(b)
    BY <1>1, <2>4 DEF Elements
  <2> QED BY <1>3, <1>4, <1>6, <1>8, <1>9, <2>2, <2>3, <2>5
<1> QED BY <1>5, <1>6, <1>8, <1>9

\* Induction, in the form the provers can use: a set of numbers has a least one.
LEMMA LeastNumber ==
  ASSUME NEW W \in SUBSET Nat, W # {}
  PROVE  \E m \in W : \A k \in W : ~ (k < m)
<1>1. \E m \in W : \A k \in W : ~ (<<k, m>> \in OpToRel(<, Nat))
  BY NatLessThanWellFounded, WFMin
<1> QED BY <1>1 DEF OpToRel

\* A list without an element: no element twice, so it is gone.
LEMMA RemoveFirstFacts ==
  ASSUME NEW K, NEW s \in Seq(K), NEW x
  PROVE  /\ RemoveFirst(s, x) \in Seq(K) /\ Elements(RemoveFirst(s, x)) \subseteq Elements(s)
         /\ NoTwice(s) => /\ NoTwice(RemoveFirst(s, x))
                          /\ Elements(RemoveFirst(s, x)) = Elements(s) \ {x}
<1>1. Len(s) \in Nat /\ DOMAIN s = 1..Len(s)
  BY LenProperties
<1> DEFINE I == {i \in 1..Len(s) : s[i] = x}
<1>2. CASE I = {}
  <2>1. RemoveFirst(s, x) = s
    BY <1>2 DEF RemoveFirst
  <2>2. x \notin Elements(s)
    BY <1>1, <1>2 DEF Elements
  <2> QED BY <2>1, <2>2
<1>3. CASE I # {}
  <2>1. RemoveFirst(s, x) = RemoveAt(s, Min(I))
    BY <1>3 DEF RemoveFirst, SelectInSeq
  <2>2. I \in SUBSET Nat
    BY <1>1
  <2>3. PICK m \in I : \A k \in I : ~ (k < m)
    <3> HIDE DEF I
    <3> QED BY <1>3, <2>2, LeastNumber
  <2>4. \A k \in I : m <= k
    BY <2>2, <2>3
  <2>5. Min(I) \in I
    <3> HIDE DEF I
    <3> QED BY <2>4 DEF Min
  <2>6. Min(I) \in 1..Len(s) /\ s[Min(I)] = x
    BY <2>5
  <2> HIDE DEF I
  <2> QED BY <2>1, <2>6, RemoveAtFacts
<1> QED BY <1>2, <1>3

\* Erasing at a number, or at the end when the number is beyond it.
LEMMA ErasedAtFacts ==
  ASSUME NEW K, NEW s \in Seq(K), NEW i \in Nat \ {0}, s # <<>>
  PROVE  ErasedAt(s, i) \in Seq(K) /\ Elements(ErasedAt(s, i)) \subseteq Elements(s)
<1>1. Len(s) \in Nat \ {0} /\ DOMAIN s = 1..Len(s)
  BY LenProperties, EmptySeq
<1>2. CASE i <= Len(s)
  <2>1. i \in 1..Len(s)
    BY <1>1, <1>2
  <2> QED BY <1>2, <2>1, RemoveAtFacts DEF ErasedAt
<1>3. CASE ~(i <= Len(s))
  <2>1. ErasedAt(s, i) = SubSeq(s, 1, Len(s) - 1)
    BY <1>3 DEF ErasedAt, Front
  <2>2. /\ SubSeq(s, 1, Len(s) - 1) \in Seq(K)
        /\ Elements(SubSeq(s, 1, Len(s) - 1)) = {s[j] : j \in 1..(Len(s) - 1)}
    <3>1. Len(s) - 1 \in Nat /\ Len(s) - 1 <= Len(s) /\ 1 \in Nat \ {0}
      BY <1>1
    <3> QED BY <3>1, PieceFacts
  <2>3. \A j \in 1..(Len(s) - 1) : j \in 1..Len(s)
    BY <1>1
  <2> QED BY <1>1, <2>1, <2>2, <2>3 DEF Elements
<1> QED BY <1>2, <1>3

----------------------------------------------------------------------------
\* The loop over the keys whose file is gone.

\* What one turn of the loop of LeftAfter makes of a list.
Turn(l, i) == IF m_keys[i] \in ToSet(l) \ files THEN ErasedAt(l, i) ELSE l

IsLoop(f, list, n) == f = [i \in 0..n |-> IF i = 0 THEN list ELSE Turn(f[i - 1], i)]

HasLoop(list, n) == \E f : IsLoop(f, list, n)

\* A loop over one number less can be gone on with.
LEMMA LoopGoesOn ==
  ASSUME NEW list, NEW n \in Nat, n # 0, HasLoop(list, n - 1)
  PROVE  HasLoop(list, n)
<1>1. PICK f : IsLoop(f, list, n - 1)
  BY DEF HasLoop
<1> DEFINE g == [i \in 0..n |-> IF i = n THEN Turn(f[n - 1], n) ELSE f[i]]
<1>2. /\ \A i \in 0..(n - 1) : i \in 0..n /\ i # n
      /\ \A i \in 0..n : i # 0 => i - 1 \in 0..(n - 1) /\ (i # n => i \in 0..(n - 1))
      /\ n \in 0..n /\ 0 \in 0..n /\ 0 \in 0..(n - 1)
  OBVIOUS
<1>3. \A i \in 0..(n - 1) : g[i] = f[i]
  BY <1>2
<1>4. \A i \in 0..(n - 1) : f[i] = IF i = 0 THEN list ELSE Turn(f[i - 1], i)
  BY <1>1 DEF IsLoop
<1>5. ASSUME NEW i \in 0..n PROVE g[i] = IF i = 0 THEN list ELSE Turn(g[i - 1], i)
  <2>1. CASE i = n
    <3>1. g[i] = Turn(f[n - 1], n) /\ n - 1 \in 0..(n - 1)
      BY <1>2, <2>1
    <3> QED BY <1>3, <2>1, <3>1
  <2>2. CASE i # n
    <3>1. i \in 0..(n - 1) /\ g[i] = f[i]
      BY <1>2, <1>3, <2>2
    <3>2. i # 0 => i - 1 \in 0..(n - 1) /\ g[i - 1] = f[i - 1]
      BY <1>2, <1>3
    <3> QED BY <1>4, <3>1, <3>2
  <2> QED BY <2>1, <2>2
<1>6. g = [i \in 0..n |-> g[i]]
  OBVIOUS
<1> HIDE DEF g
<1>7. g = [i \in 0..n |-> IF i = 0 THEN list ELSE Turn(g[i - 1], i)]
  BY <1>5, <1>6
<1> QED BY <1>7 DEF HasLoop, IsLoop

\* There is a function that WithoutLost defines.
LEMMA LoopExists ==
  ASSUME NEW list, NEW n \in Nat
  PROVE  HasLoop(list, n)
<1> DEFINE W == {k \in Nat : ~HasLoop(list, k)}
<1>1. HasLoop(list, 0)
  <2> DEFINE f == [i \in 0..0 |-> list]
  <2>1. f = [i \in 0..0 |-> IF i = 0 THEN list ELSE Turn(f[i - 1], i)]
    OBVIOUS
  <2> HIDE DEF f
  <2> QED BY <2>1 DEF HasLoop, IsLoop
<1>2. W = {}
  <2> SUFFICES ASSUME W # {} PROVE FALSE
    OBVIOUS
  <2>1. PICK m \in W : \A k \in W : ~ (k < m)
    <3>1. W \in SUBSET Nat
      OBVIOUS
    <3> HIDE DEF W
    <3> QED BY <3>1, LeastNumber
  <2>2. m \in Nat /\ m # 0 /\ ~HasLoop(list, m)
    BY <1>1
  <2>3. m - 1 \in Nat /\ m - 1 < m
    BY <2>2
  <2>4. HasLoop(list, m - 1)
    BY <2>1, <2>3
  <2> HIDE DEF W
  <2> QED BY <2>2, <2>4, LoopGoesOn
<1> QED BY <1>2

\* A turn of the loop takes keys out.
LEMMA TurnKeeps ==
  ASSUME NEW K, NEW l \in Seq(K), NEW i \in Nat \ {0}
  PROVE  Turn(l, i) \in Seq(K) /\ Elements(Turn(l, i)) \subseteq Elements(l)
<1>1. CASE m_keys[i] \in ToSet(l) \ files
  <2>1. l # <<>>
    BY <1>1 DEF ToSet
  <2> QED BY <1>1, <2>1, ErasedAtFacts DEF Turn
<1>2. CASE ~(m_keys[i] \in ToSet(l) \ files)
  BY <1>2 DEF Turn
<1> QED BY <1>1, <1>2

\* Erasing by the number in another list takes keys out, and never puts one in.
LEMMA WithoutLostFacts ==
  ASSUME NEW K, NEW list \in Seq(K), NEW n \in Nat, n = Len(m_keys)
  PROVE  WithoutLost(list) \in Seq(K) /\ Elements(WithoutLost(list)) \subseteq Elements(list)
<1> DEFINE f == CHOOSE h : IsLoop(h, list, n)
<1>1. IsLoop(f, list, n)
  BY LoopExists DEF HasLoop
<1>2. WithoutLost(list) = f[n]
  BY DEF WithoutLost, LeftAfter, IsLoop, Turn
<1> HIDE DEF f
<1>3. \A i \in 0..n : f[i] = IF i = 0 THEN list ELSE Turn(f[i - 1], i)
  BY <1>1 DEF IsLoop
<1> DEFINE Fine(i) == f[i] \in Seq(K) /\ Elements(f[i]) \subseteq Elements(list)
           W == {i \in 0..n : ~Fine(i)}
<1>4. W = {}
  <2> SUFFICES ASSUME W # {} PROVE FALSE
    OBVIOUS
  <2>1. PICK m \in W : \A k \in W : ~ (k < m)
    <3>1. W \in SUBSET Nat
      OBVIOUS
    <3> HIDE DEF W
    <3> QED BY <3>1, LeastNumber
  <2>2. m \in 0..n /\ ~Fine(m)
    OBVIOUS
  <2>3. m # 0
    <3>1. 0 \in 0..n /\ f[0] = list
      BY <1>3
    <3> QED BY <2>2, <3>1
  <2>4. m - 1 \in 0..n /\ m - 1 < m /\ m \in Nat \ {0}
    BY <2>2, <2>3
  <2>5. Fine(m - 1)
    BY <2>1, <2>4
  <2>6. f[m] = Turn(f[m - 1], m)
    BY <1>3, <2>2, <2>3
  <2>7. f[m - 1] \in Seq(K) /\ Elements(f[m - 1]) \subseteq Elements(list)
    BY <2>5
  <2>8. Turn(f[m - 1], m) \in Seq(K) /\ Elements(Turn(f[m - 1], m)) \subseteq Elements(f[m - 1])
    BY <2>4, <2>7, TurnKeeps
  <2> QED BY <2>2, <2>6, <2>7, <2>8
<1>5. n \in 0..n
  OBVIOUS
<1> QED BY <1>2, <1>4, <1>5

----------------------------------------------------------------------------
\* The invariant.

\* An answer is for the check that holds m_mutex, about an environment it has still to
\* look at, and of keys of the list.
AnswerFits ==
  answer # NoAnswer =>
    /\ m_mutex /\ answer \in Envs \X Seq(Keys) /\ answer[1] \in checking \ DOMAIN m_envs
    /\ ToSet(answer[2]) \subseteq ToSet(m_keys)

\* Nobody has asked anything about the key.
IsNew(k) ==
  /\ k \notin {p[1] : p \in deployed} /\ \A w \in workers : w.key # k
  /\ \A e \in DOMAIN m_envs : k \notin ToSet(m_envs[e])

UnlistedIsNew == \A k \in files \ ToSet(m_keys) : WillUnlink(k) \/ IsNew(k)

KeysFit == TypeOK /\ AnswerFits

LEMMA ElementsAreSet ==
  ASSUME NEW s PROVE Elements(s) = ToSet(s) /\ (NoTwice(s) <=> IsInjective(s))
BY DEF Elements, ToSet, NoTwice, IsInjective

LEMMA ToSetIn ==
  ASSUME NEW K, NEW s \in Seq(K) PROVE ToSet(s) \subseteq K
BY LenProperties DEF ToSet

\* What refresh_key_files leaves of a list, and of what is known of its keys.
LEMMA RefreshedFacts ==
  ASSUME IsFiniteSet(Keys), NEW list \in Seq(Keys), IsInjective(list),
         NEW in_dir \in SUBSET Keys, Refreshed(list, in_dir)
  PROVE  /\ m_keys' \in Seq(Keys) /\ IsInjective(m_keys')
         /\ ToSet(m_keys') = ToSet(list) \cup in_dir
         /\ env_ids' = [k \in Keys |-> IF k \in ToSet(list) THEN env_ids[k] ELSE {}]
<1>1. PICK new \in SetToSeqs(in_dir \ ToSet(list)) : m_keys' = list \o new
  BY DEF Refreshed
<1>2. IsFiniteSet(in_dir \ ToSet(list))
  BY FS_Subset
<1>3. new \in Arrangements(in_dir \ ToSet(list))
  BY DEF SetToSeqs, Arrangements
<1>4. /\ new \in Seq(in_dir \ ToSet(list)) /\ IsInjective(new)
      /\ ToSet(new) = in_dir \ ToSet(list)
  BY <1>2, <1>3, ArrangementFacts, ElementsAreSet
<1>5. new \in Seq(Keys)
  BY <1>4, SeqMonotonic
<1>6. /\ m_keys' \in Seq(Keys) /\ IsInjective(m_keys')
      /\ ToSet(m_keys') = ToSet(list) \cup ToSet(new)
  BY <1>1, <1>4, <1>5, ConcatFacts, ElementsAreSet
<1> QED BY <1>4, <1>6 DEF Refreshed

LEMMA RemovedFacts ==
  ASSUME NEW list \in Seq(Keys), IsInjective(list), NEW k
  PROVE  /\ RemoveFirst(list, k) \in Seq(Keys) /\ IsInjective(RemoveFirst(list, k))
         /\ ToSet(RemoveFirst(list, k)) = ToSet(list) \ {k}
BY RemoveFirstFacts, ElementsAreSet

LEMMA LostFacts ==
  ASSUME m_keys \in Seq(Keys), NEW list \in Seq(Keys)
  PROVE  WithoutLost(list) \in Seq(Keys) /\ ToSet(WithoutLost(list)) \subseteq ToSet(list)
<1>1. Len(m_keys) \in Nat
  BY LenProperties
<1> QED BY <1>1, WithoutLostFacts, ElementsAreSet

\* What a question brings: the keys of the list that the Hub has there.
LEMMA AskedFacts ==
  ASSUME IsFiniteSet(Keys), m_keys \in Seq(Keys), NEW e,
         NEW told \in SetToSeqs({k \in ToSet(m_keys) : <<k, e>> \in deployed})
  PROVE  told \in Seq(Keys) /\ ToSet(told) = {k \in ToSet(m_keys) : <<k, e>> \in deployed}
<1> DEFINE S == {k \in ToSet(m_keys) : <<k, e>> \in deployed}
<1>1. S \subseteq Keys
  BY ToSetIn
<1>2. IsFiniteSet(S)
  BY <1>1, FS_Subset
<1>3. told \in Arrangements(S)
  BY DEF SetToSeqs, Arrangements
<1> HIDE DEF S
<1>4. told \in Seq(S) /\ Elements(told) = S
  BY <1>2, <1>3, ArrangementFacts
<1>5. told \in Seq(Keys)
  BY <1>1, <1>4, SeqMonotonic
<1> QED BY <1>4, <1>5, ElementsAreSet DEF S

----------------------------------------------------------------------------
\* The steps.

\* The values fit, and so does the answer: only the check that asked goes on.
LEMMA KeysFitStep ==
  ASSUME IsFiniteSet(Keys), KeysFit, [Next]_vars
  PROVE  KeysFit'
<1> USE DEF KeysFit
<1>1. CASE RefreshKeyFiles
  <2>1. /\ m_keys' \in Seq(Keys) /\ IsInjective(m_keys') /\ ToSet(m_keys') = ToSet(m_keys) \cup files
        /\ env_ids' = [k \in Keys |-> IF k \in ToSet(m_keys) THEN env_ids[k] ELSE {}]
    BY <1>1, RefreshedFacts DEF RefreshKeyFiles, TypeOK
  <2>2. env_ids' \in [Keys -> SUBSET Envs]
    BY <2>1 DEF TypeOK
  <2>3. UNCHANGED <<outside, m_envs, m_lst_healthy_environments, check, workers, unanswered>>
        /\ ~m_mutex
    BY <1>1 DEF RefreshKeyFiles
  <2> QED BY <2>1, <2>2, <2>3 DEF TypeOK, AnswerFits, outside, check
<1>2. CASE \E envs \in SUBSET Envs : Updated(envs)
  BY <1>2 DEF Updated, TypeOK, AnswerFits, outside, known
<1>3. CASE CheckBegins
  <2>1. /\ jobs' \in Nat /\ checking' \subseteq Envs /\ m_mutex' \in BOOLEAN
    BY <1>3 DEF CheckBegins, TypeOK
  <2>2. \E stays \in SUBSET DOMAIN m_envs : m_envs' = [e \in stays |-> m_envs[e]]
    BY <1>3 DEF CheckBegins
  <2>3. DOMAIN m_envs' \subseteq Envs /\ \A e \in DOMAIN m_envs' : m_envs'[e] \in Seq(Keys)
    BY <2>2 DEF TypeOK
  <2>4. UNCHANGED <<outside, known, m_lst_healthy_environments, answer, workers, unanswered>>
        /\ ~m_mutex
    BY <1>3 DEF CheckBegins
  <2> QED BY <2>1, <2>3, <2>4 DEF TypeOK, AnswerFits, outside, known
<1>4. CASE CheckKnown
  <2>1. PICK e \in checking \cap DOMAIN m_envs :
          /\ checking' = checking \ {e}
          /\ m_envs' = [m_envs EXCEPT ![e] = WithoutLost(m_envs[e])]
          /\ env_ids' = [k \in Keys |-> IF k \in FoundIn(m_envs[e])
                                          THEN env_ids[k] \cup {e} ELSE env_ids[k]]
    BY <1>4 DEF CheckKnown
  <2>2. WithoutLost(m_envs[e]) \in Seq(Keys)
    BY LostFacts DEF TypeOK
  <2>3. DOMAIN m_envs' \subseteq Envs /\ \A f \in DOMAIN m_envs' : m_envs'[f] \in Seq(Keys)
    BY <2>1, <2>2 DEF TypeOK
  <2>4. env_ids' \in [Keys -> SUBSET Envs]
    BY <2>1 DEF TypeOK
  <2>5. UNCHANGED <<outside, m_keys, m_lst_healthy_environments, jobs, m_mutex, answer, workers,
                    unanswered>> /\ answer = NoAnswer
    BY <1>4 DEF CheckKnown
  <2> QED BY <2>1, <2>3, <2>4, <2>5 DEF TypeOK, AnswerFits, outside
<1>5. CASE CheckAsks
  <2>1. PICK e \in checking \ DOMAIN m_envs, told \in Seq(Keys) :
          /\ answer' = <<e, told>> /\ ToSet(told) \subseteq ToSet(m_keys)
          /\ unanswered' \in {unanswered \ {e}, unanswered \cup {e}}
    <3>1. PICK e \in checking \ DOMAIN m_envs :
            \/ /\ \E told \in SetToSeqs({k \in ToSet(m_keys) : <<k, e>> \in deployed}) :
                    answer' = <<e, told>>
               /\ unanswered' = unanswered \ {e}
            \/ /\ answer' = <<e, <<>> >>
               /\ unanswered' = unanswered \cup {e}
      BY <1>5 DEF CheckAsks
    <3>2. CASE \E told \in SetToSeqs({k \in ToSet(m_keys) : <<k, e>> \in deployed}) :
                 answer' = <<e, told>> /\ unanswered' = unanswered \ {e}
      <4>1. PICK told \in SetToSeqs({k \in ToSet(m_keys) : <<k, e>> \in deployed}) :
              answer' = <<e, told>> /\ unanswered' = unanswered \ {e}
        BY <3>2
      <4>2. told \in Seq(Keys) /\ ToSet(told) = {k \in ToSet(m_keys) : <<k, e>> \in deployed}
        BY AskedFacts DEF TypeOK
      <4> QED BY <4>1, <4>2
    <3>3. CASE answer' = <<e, <<>> >> /\ unanswered' = unanswered \cup {e}
      <4>1. <<>> \in Seq(Keys) /\ ToSet(<<>>) = {}
        BY EmptySeq DEF ToSet
      <4> QED BY <3>3, <4>1
    <3> QED BY <3>1, <3>2, <3>3
  <2>2. UNCHANGED <<outside, known, m_envs, m_lst_healthy_environments, jobs, m_mutex, checking,
                    workers>> /\ m_mutex
    BY <1>5 DEF CheckAsks
  <2>3. TypeOK'
    BY <2>1, <2>2 DEF TypeOK, outside, known
  <2>4. answer' \in Envs \X Seq(Keys) /\ answer'[1] = e /\ answer'[2] = told
    BY <2>1 DEF TypeOK
  <2> QED BY <2>1, <2>2, <2>3, <2>4 DEF AnswerFits, known
<1>6. CASE CheckRecords
  <2>1. /\ answer # NoAnswer /\ answer' = NoAnswer
        /\ checking' = checking \ {answer[1]}
        /\ m_envs' = [f \in DOMAIN m_envs \cup {answer[1]} |->
                        IF f = answer[1] THEN answer[2] ELSE m_envs[f]]
        /\ env_ids' = [k \in Keys |-> IF k \in ToSet(answer[2]) THEN env_ids[k] \cup {answer[1]}
                                                               ELSE env_ids[k]]
    BY <1>6 DEF CheckRecords
  <2>2. answer[1] \in Envs /\ answer[2] \in Seq(Keys)
    BY <2>1 DEF AnswerFits
  <2>3. DOMAIN m_envs' \subseteq Envs /\ \A f \in DOMAIN m_envs' : m_envs'[f] \in Seq(Keys)
    BY <2>1, <2>2 DEF TypeOK
  <2>4. env_ids' \in [Keys -> SUBSET Envs]
    BY <2>1, <2>2 DEF TypeOK
  <2>5. UNCHANGED <<outside, m_keys, m_lst_healthy_environments, jobs, m_mutex, workers,
                    unanswered>>
    BY <1>6 DEF CheckRecords
  <2> QED BY <2>1, <2>3, <2>4, <2>5 DEF TypeOK, AnswerFits, outside
<1>7. CASE CheckEnds
  BY <1>7 DEF CheckEnds, TypeOK, AnswerFits, outside, known
<1>8. CASE UploadKey
  <2>1. /\ jobs' \in Nat /\ workers' \subseteq Workers
        /\ UNCHANGED <<outside, known, m_envs, m_lst_healthy_environments, m_mutex, checking,
                       answer, unanswered>>
    BY <1>8, ToSetIn DEF UploadKey, TypeOK, Workers
  <2> QED BY <2>1 DEF TypeOK, AnswerFits, outside, known
<1>9. CASE RemoveHere
  <2>1. PICK k \in ToSet(m_keys) \cap files :
          /\ files' = files \ {k} /\ Refreshed(RemoveFirst(m_keys, k), files')
    BY <1>9 DEF RemoveHere
  <2>2. /\ RemoveFirst(m_keys, k) \in Seq(Keys) /\ IsInjective(RemoveFirst(m_keys, k))
    BY RemovedFacts DEF TypeOK
  <2>3. files' \in SUBSET Keys
    BY <2>1 DEF TypeOK
  <2>4. /\ m_keys' \in Seq(Keys) /\ IsInjective(m_keys')
        /\ env_ids' = [l \in Keys |-> IF l \in ToSet(RemoveFirst(m_keys, k)) THEN env_ids[l]
                                                                            ELSE {}]
    BY <2>1, <2>2, <2>3, RefreshedFacts
  <2>5. env_ids' \in [Keys -> SUBSET Envs]
    BY <2>4 DEF TypeOK
  <2>6. UNCHANGED <<deployed, m_envs, m_lst_healthy_environments, check, workers, unanswered>>
        /\ ~m_mutex
    BY <1>9 DEF RemoveHere
  <2> QED BY <2>3, <2>4, <2>5, <2>6 DEF TypeOK, AnswerFits, check
<1>10. CASE RemoveEverywhere
  <2>1. /\ m_keys' \in Seq(Keys) /\ IsInjective(m_keys')
        /\ env_ids' = [k \in Keys |-> IF k \in ToSet(m_keys) THEN env_ids[k] ELSE {}]
    BY <1>10, RefreshedFacts DEF RemoveEverywhere, TypeOK
  <2>2. env_ids' \in [Keys -> SUBSET Envs]
    BY <2>1 DEF TypeOK
  <2>3. workers' \subseteq Workers
    <3>1. \A k \in ToSet(m_keys) : k \in Keys /\ env_ids[k] \in SUBSET Envs
      BY ToSetIn DEF TypeOK
    <3> QED BY <1>10, <3>1 DEF RemoveEverywhere, TypeOK, Workers
  <2>4. UNCHANGED <<outside, m_envs, m_lst_healthy_environments, check, unanswered>> /\ ~m_mutex
    BY <1>10 DEF RemoveEverywhere
  <2> QED BY <2>1, <2>2, <2>3, <2>4 DEF TypeOK, AnswerFits, outside, check
<1>11. CASE Rest
  <2>1. PICK w \in workers :
          /\ \/ deployed' = IF w.do = "upload" THEN deployed \cup ({w.key} \X w.envs)
                                               ELSE deployed \ ({w.key} \X w.envs)
             \/ UNCHANGED deployed
          /\ Step(w, "clean")
          /\ UNCHANGED <<files, known, m_envs, m_lst_healthy_environments, check, unanswered>>
    BY <1>11 DEF Rest
  <2>2. w.key \in Keys /\ w.envs \subseteq Envs /\ workers' \subseteq Workers
    BY <2>1 DEF TypeOK, Workers, Step
  <2>3. deployed' \subseteq Keys \X Envs
    BY <2>1, <2>2 DEF TypeOK
  <2> QED BY <2>1, <2>2, <2>3 DEF TypeOK, AnswerFits, known, check
<1>12. CASE CleanEnvironments
  <2>1. PICK w \in workers :
          /\ m_envs' = [e \in DOMAIN m_envs \ w.envs |-> m_envs[e]]
          /\ m_lst_healthy_environments' = m_lst_healthy_environments \ w.envs
          /\ workers' = workers \ {w} /\ unanswered' = unanswered \ w.envs
          /\ UNCHANGED <<outside, known, check>> /\ ~m_mutex
    BY <1>12 DEF CleanEnvironments, Forgotten
  <2>2. DOMAIN m_envs' \subseteq Envs /\ \A f \in DOMAIN m_envs' : m_envs'[f] \in Seq(Keys)
    BY <2>1 DEF TypeOK
  <2> QED BY <2>1, <2>2 DEF TypeOK, AnswerFits, outside, known, check
<1>13. CASE CleanKey
  <2>1. PICK w \in workers :
          /\ m_keys' = RemoveFirst(m_keys, w.key) /\ env_ids' = [env_ids EXCEPT ![w.key] = {}]
          /\ Step(w, "unlink")
          /\ UNCHANGED <<outside, m_envs, m_lst_healthy_environments, check, unanswered>>
          /\ ~m_mutex
    BY <1>13 DEF CleanKey
  <2>2. m_keys' \in Seq(Keys) /\ IsInjective(m_keys')
    BY <2>1, RemovedFacts DEF TypeOK
  <2>3. workers' \subseteq Workers /\ env_ids' \in [Keys -> SUBSET Envs]
    BY <2>1 DEF TypeOK, Workers, Step
  <2> QED BY <2>1, <2>2, <2>3 DEF TypeOK, AnswerFits, outside, check
<1>14. CASE Unlink
  <2>1. /\ files' \subseteq files /\ workers' \subseteq workers
        /\ UNCHANGED <<deployed, known, m_envs, m_lst_healthy_environments, check, unanswered>>
    BY <1>14 DEF Unlink
  <2> QED BY <2>1 DEF TypeOK, AnswerFits, known, check
<1>15. CASE Generate
  <2>1. /\ files' \subseteq Keys
        /\ UNCHANGED <<deployed, known, m_envs, m_lst_healthy_environments, check, workers,
                       unanswered>>
    BY <1>15 DEF Generate, TypeOK
  <2> QED BY <2>1 DEF TypeOK, AnswerFits, known, check
<1>16. CASE UNCHANGED vars
  BY <1>16 DEF vars, TypeOK, AnswerFits, outside, known, check
<1>17. EnvironmentsUpdated \/ HubChanges => \E envs \in SUBSET Envs : Updated(envs)
  BY DEF EnvironmentsUpdated, HubChanges
<1> QED BY <1>1, <1>2, <1>3, <1>4, <1>5, <1>6, <1>7, <1>8, <1>9, <1>10, <1>11, <1>12, <1>13,
           <1>14, <1>15, <1>16, <1>17 DEF Next, Check, Work, Disturbs

\* A key leaves the list with its file, or by a removal that will unlink it.
LEMMA UnlistedStep ==
  ASSUME IsFiniteSet(Keys), KeysFit, UnlistedIsNew, [Next]_vars
  PROVE  UnlistedIsNew'
<1> SUFFICES ASSUME NEW k \in files' \ ToSet(m_keys') PROVE WillUnlink(k)' \/ IsNew(k)'
  BY DEF UnlistedIsNew
<1> USE DEF KeysFit
<1>1. CASE RefreshKeyFiles \/ RemoveEverywhere
  <2>1. files' = files /\ Refreshed(m_keys, files)
    BY <1>1 DEF RefreshKeyFiles, RemoveEverywhere, outside
  <2>2. ToSet(m_keys') = ToSet(m_keys) \cup files
    BY <2>1, RefreshedFacts DEF TypeOK
  <2> QED BY <2>1, <2>2
<1>2. CASE RemoveHere
  <2>1. PICK l \in ToSet(m_keys) \cap files :
          /\ files' = files \ {l} /\ Refreshed(RemoveFirst(m_keys, l), files')
    BY <1>2 DEF RemoveHere
  <2>2. RemoveFirst(m_keys, l) \in Seq(Keys) /\ IsInjective(RemoveFirst(m_keys, l))
    BY RemovedFacts DEF TypeOK
  <2>3. files' \in SUBSET Keys
    BY <2>1 DEF TypeOK
  <2>4. files' \subseteq ToSet(m_keys')
    BY <2>1, <2>2, <2>3, RefreshedFacts
  <2> QED BY <2>4
<1>3. CASE CheckBegins
  <2>1. UNCHANGED <<files, deployed, m_keys, workers>>
    BY <1>3 DEF CheckBegins, outside, known
  <2>2. \E stays \in SUBSET DOMAIN m_envs : m_envs' = [e \in stays |-> m_envs[e]]
    BY <1>3 DEF CheckBegins
  <2> QED BY <2>1, <2>2 DEF UnlistedIsNew, IsNew, WillUnlink
<1>4. CASE CheckKnown
  <2>1. PICK e \in DOMAIN m_envs : m_envs' = [m_envs EXCEPT ![e] = WithoutLost(m_envs[e])]
    BY <1>4 DEF CheckKnown
  <2>2. ToSet(WithoutLost(m_envs[e])) \subseteq ToSet(m_envs[e])
    BY LostFacts DEF TypeOK
  <2>3. UNCHANGED <<files, deployed, m_keys, workers>>
    BY <1>4 DEF CheckKnown, outside
  <2> QED BY <2>1, <2>2, <2>3 DEF UnlistedIsNew, IsNew, WillUnlink
<1>5. CASE CheckRecords
  <2>1. /\ m_envs' = [f \in DOMAIN m_envs \cup {answer[1]} |->
                        IF f = answer[1] THEN answer[2] ELSE m_envs[f]]
        /\ UNCHANGED <<files, deployed, m_keys, workers>>
    BY <1>5 DEF CheckRecords, outside
  <2>2. ToSet(answer[2]) \subseteq ToSet(m_keys)
    BY <1>5 DEF CheckRecords, AnswerFits
  <2> QED BY <2>1, <2>2 DEF UnlistedIsNew, IsNew, WillUnlink
<1>6. CASE UploadKey
  <2>1. PICK w : w.key \in ToSet(m_keys) /\ workers' = workers \cup {w}
    BY <1>6 DEF UploadKey
  <2>2. UNCHANGED <<files, deployed, m_keys, m_envs>>
    BY <1>6 DEF UploadKey, outside, known
  <2> QED BY <2>1, <2>2 DEF UnlistedIsNew, IsNew, WillUnlink
<1>7. CASE Rest
  <2>1. PICK w \in workers :
          /\ w.at = "rest"
          /\ \/ deployed' = IF w.do = "upload" THEN deployed \cup ({w.key} \X w.envs)
                                               ELSE deployed \ ({w.key} \X w.envs)
             \/ UNCHANGED deployed
          /\ workers' = (workers \ {w}) \cup {[w EXCEPT !.at = "clean"]}
          /\ UNCHANGED <<files, m_keys, m_envs>>
    BY <1>7 DEF Rest, Step, known
  <2>2. w \in Workers
    BY <2>1 DEF TypeOK
  <2>3. [w EXCEPT !.at = "clean"].key = w.key
    BY <2>2 DEF Workers
  <2>4. WillUnlink(k) => WillUnlink(k)'
    BY <2>1 DEF WillUnlink
  <2>5. ASSUME IsNew(k) PROVE IsNew(k)'
    <3>1. w.key # k
      BY <2>1, <2>5 DEF IsNew
    <3>2. \A v \in workers' : v.key # k
      BY <2>1, <2>3, <2>5, <3>1 DEF IsNew
    <3>3. \A p \in deployed' : p \in deployed \/ p[1] = w.key
      BY <2>1
    <3>4. k \notin {p[1] : p \in deployed'}
      BY <2>5, <3>1, <3>3 DEF IsNew
    <3> QED BY <2>1, <2>5, <3>2, <3>4 DEF IsNew
  <2> QED BY <2>1, <2>4, <2>5 DEF UnlistedIsNew
<1>8. CASE CleanEnvironments
  <2>1. PICK w \in workers :
          /\ w.do = "upload" /\ m_envs' = [e \in DOMAIN m_envs \ w.envs |-> m_envs[e]]
          /\ workers' = workers \ {w}
          /\ UNCHANGED <<files, deployed, m_keys>>
    BY <1>8 DEF CleanEnvironments, Forgotten, outside, known
  <2> QED BY <2>1 DEF UnlistedIsNew, IsNew, WillUnlink
<1>9. CASE CleanKey
  <2>1. PICK w \in workers :
          /\ w.do = "remove" /\ w.at = "clean" /\ m_keys' = RemoveFirst(m_keys, w.key)
          /\ workers' = (workers \ {w}) \cup {[w EXCEPT !.at = "unlink"]}
          /\ UNCHANGED <<files, deployed, m_envs>>
    BY <1>9 DEF CleanKey, Step, outside
  <2>2. w \in Workers
    BY <2>1 DEF TypeOK
  <2>3. /\ [w EXCEPT !.at = "unlink"].key = w.key /\ [w EXCEPT !.at = "unlink"].do = "remove"
        /\ [w EXCEPT !.at = "unlink"].at = "unlink"
    BY <2>1, <2>2 DEF Workers
  <2>4. ToSet(m_keys') = ToSet(m_keys) \ {w.key}
    BY <2>1, RemovedFacts DEF TypeOK
  <2>5. CASE k = w.key
    BY <2>1, <2>3, <2>5 DEF WillUnlink
  <2>6. CASE k # w.key
    <3>1. WillUnlink(k) \/ IsNew(k)
      BY <2>1, <2>4, <2>6 DEF UnlistedIsNew
    <3>2. WillUnlink(k) => WillUnlink(k)'
      BY <2>1 DEF WillUnlink
    <3>3. IsNew(k) => IsNew(k)'
      BY <2>1, <2>3 DEF IsNew
    <3> QED BY <3>1, <3>2, <3>3
  <2> QED BY <2>5, <2>6
<1>10. CASE Unlink
  <2>1. PICK w \in workers :
          /\ files' = files \ {w.key} /\ workers' = workers \ {w}
          /\ UNCHANGED <<deployed, m_keys, m_envs>>
    BY <1>10 DEF Unlink, known
  <2> QED BY <2>1 DEF UnlistedIsNew, IsNew, WillUnlink
<1>11. CASE Generate
  <2>1. PICK l :
          /\ l \notin files \cup ToSet(m_keys) \cup {w.key : w \in workers}
          /\ l \notin {p[1] : p \in deployed}
          /\ \A e \in DOMAIN m_envs : l \notin ToSet(m_envs[e])
          /\ files' = files \cup {l}
    BY <1>11 DEF Generate
  <2>2. UNCHANGED <<deployed, m_keys, m_envs, workers>>
    BY <1>11 DEF Generate, known
  <2> QED BY <2>1, <2>2 DEF UnlistedIsNew, IsNew, WillUnlink
<1>12. CASE UNCHANGED <<files, deployed, m_keys, m_envs, workers>>
  BY <1>12 DEF UnlistedIsNew, IsNew, WillUnlink
<1>13. EnvironmentsUpdated \/ HubChanges \/ CheckAsks \/ CheckEnds \/ UNCHANGED vars
         => UNCHANGED <<files, deployed, m_keys, m_envs, workers>>
  BY DEF EnvironmentsUpdated, HubChanges, Updated, CheckAsks, CheckEnds, vars, outside, known
<1> QED BY <1>1, <1>2, <1>3, <1>4, <1>5, <1>6, <1>7, <1>8, <1>9, <1>10, <1>11, <1>12, <1>13
        DEF Next, Check, Work, Disturbs

\* The key is in the environment, and the controller does not know it.
Unknown(k, e) ==
  <<k, e>> \in deployed /\ k \in files \cap ToSet(m_keys) /\ e \notin env_ids[k] \cup unanswered

OnItsWay(k, e) == WillFind(k, e) \/ WillForget(e) \/ WillUnlink(k)

LEMMA WayPairs ==
  ASSUME TypeOK
  PROVE  DeployedIsOnItsWay <=> \A k \in Keys, e \in Envs : Unknown(k, e) => OnItsWay(k, e)
<1>1. \A p \in deployed : p[1] \in Keys /\ p[2] \in Envs /\ p = <<p[1], p[2]>>
  BY DEF TypeOK
<1> QED BY <1>1 DEF DeployedIsOnItsWay, Unknown, OnItsWay

\* A key that was listed before is as known, or on its way, as it was; one that is
\* listed anew is about to be unlinked, or nobody has deployed it.
LEMMA ListedAnew ==
  ASSUME KeysFit, UnlistedIsNew, DeployedIsOnItsWay, ~m_mutex, NEW k \in Keys, NEW e \in Envs,
         Unknown(k, e)', deployed' = deployed, files' \subseteq files, workers \subseteq workers',
         UNCHANGED <<m_envs, answer, unanswered>>,
         k \in ToSet(m_keys) => env_ids'[k] = env_ids[k]
  PROVE  OnItsWay(k, e)'
<1>1. CASE k \in ToSet(m_keys)
  <2>1. Unknown(k, e)
    BY <1>1 DEF Unknown
  <2>2. OnItsWay(k, e)
    BY <2>1, WayPairs DEF KeysFit
  <2> QED BY <2>2 DEF OnItsWay, WillFind, WillForget, WillUnlink
<1>2. CASE k \notin ToSet(m_keys)
  <2>1. WillUnlink(k) \/ IsNew(k)
    BY <1>2 DEF UnlistedIsNew, Unknown
  <2>2. ~IsNew(k)
    <3>1. <<k, e>> \in deployed /\ <<k, e>>[1] = k
      BY DEF Unknown
    <3> QED BY <3>1 DEF IsNew
  <2> QED BY <2>1, <2>2 DEF OnItsWay, WillUnlink
<1> QED BY <1>1, <1>2

\* An upload that the Hub has takes what is known of its environments away, and only
\* then ends; until then a check has the key in its answer, or has still to ask.
LEMMA OnItsWayStep ==
  ASSUME IsFiniteSet(Keys), KeysFit, UnlistedIsNew, DeployedIsOnItsWay, [Next]_vars
  PROVE  DeployedIsOnItsWay'
<1>1. KeysFit'
  BY KeysFitStep
<1>2. \A p \in deployed' : p[1] \in Keys /\ p[2] \in Envs /\ p = <<p[1], p[2]>>
  BY <1>1 DEF KeysFit, TypeOK
<1> SUFFICES ASSUME NEW k \in Keys, NEW e \in Envs, Unknown(k, e)' PROVE OnItsWay(k, e)'
  BY <1>2 DEF DeployedIsOnItsWay, Unknown, OnItsWay
<1>3. Unknown(k, e) => OnItsWay(k, e)
  BY WayPairs DEF KeysFit
<1>4. ~m_mutex => answer = NoAnswer
  BY DEF KeysFit, AnswerFits
<1>5. CASE RefreshKeyFiles \/ RemoveEverywhere
  <2>1. /\ ~m_mutex /\ Refreshed(m_keys, files) /\ workers \subseteq workers'
        /\ UNCHANGED <<files, deployed, m_envs, answer, unanswered>>
    BY <1>5 DEF RefreshKeyFiles, RemoveEverywhere, outside, check
  <2>2. env_ids' = [l \in Keys |-> IF l \in ToSet(m_keys) THEN env_ids[l] ELSE {}]
    BY <2>1, RefreshedFacts DEF KeysFit, TypeOK
  <2> QED BY <2>1, <2>2, ListedAnew
<1>6. CASE RemoveHere
  <2>1. PICK l \in ToSet(m_keys) \cap files :
          /\ files' = files \ {l} /\ Refreshed(RemoveFirst(m_keys, l), files')
          /\ UNCHANGED <<deployed, m_envs, answer, workers, unanswered>> /\ ~m_mutex
    BY <1>6 DEF RemoveHere, check
  <2>2. /\ RemoveFirst(m_keys, l) \in Seq(Keys) /\ IsInjective(RemoveFirst(m_keys, l))
        /\ ToSet(RemoveFirst(m_keys, l)) = ToSet(m_keys) \ {l}
    BY RemovedFacts DEF KeysFit, TypeOK
  <2>3. files' \in SUBSET Keys
    BY <2>1 DEF KeysFit, TypeOK
  <2>4. env_ids' = [j \in Keys |-> IF j \in ToSet(RemoveFirst(m_keys, l)) THEN env_ids[j] ELSE {}]
    BY <2>1, <2>2, <2>3, RefreshedFacts
  <2>5. k # l
    BY <2>1 DEF Unknown
  <2>6. k \in ToSet(m_keys) => env_ids'[k] = env_ids[k]
    BY <2>2, <2>4, <2>5
  <2> QED BY <2>1, <2>6, ListedAnew
<1>7. CASE CheckBegins
  <2>1. UNCHANGED <<files, deployed, m_keys, env_ids, answer, workers, unanswered>> /\ ~m_mutex
    BY <1>7 DEF CheckBegins, outside, known
  <2>2. \E stays \in SUBSET DOMAIN m_envs : m_envs' = [f \in stays |-> m_envs[f]]
    BY <1>7 DEF CheckBegins
  <2>3. OnItsWay(k, e)
    BY <1>3, <2>1 DEF Unknown
  <2> QED BY <1>4, <2>1, <2>2, <2>3 DEF OnItsWay, WillFind, WillForget, WillUnlink
<1>8. CASE CheckKnown
  <2>1. PICK f \in checking \cap DOMAIN m_envs :
          /\ m_envs' = [m_envs EXCEPT ![f] = WithoutLost(m_envs[f])]
          /\ env_ids' = [l \in Keys |-> IF l \in FoundIn(m_envs[f])
                                          THEN env_ids[l] \cup {f} ELSE env_ids[l]]
    BY <1>8 DEF CheckKnown
  <2>2. UNCHANGED <<files, deployed, m_keys, answer, workers, unanswered>> /\ answer = NoAnswer
    BY <1>8 DEF CheckKnown, outside
  <2>3. env_ids[k] \subseteq env_ids'[k]
    BY <2>1
  <2>4. OnItsWay(k, e)
    BY <1>3, <2>2, <2>3 DEF Unknown
  <2>5. DOMAIN m_envs' = DOMAIN m_envs
    BY <2>1
  <2> QED BY <2>2, <2>4, <2>5 DEF OnItsWay, WillFind, WillForget, WillUnlink
<1>9. CASE CheckAsks
  <2>1. PICK f \in checking \ DOMAIN m_envs :
          \/ /\ \E told \in SetToSeqs({l \in ToSet(m_keys) : <<l, f>> \in deployed}) :
                  answer' = <<f, told>>
             /\ unanswered' = unanswered \ {f}
          \/ /\ answer' = <<f, <<>> >>
             /\ unanswered' = unanswered \cup {f}
    BY <1>9 DEF CheckAsks
  <2>2. UNCHANGED <<files, deployed, m_keys, env_ids, m_envs, workers>> /\ answer = NoAnswer
    BY <1>9 DEF CheckAsks, outside, known
  <2>3. answer'[1] = f /\ answer' # NoAnswer
    <3>1. \A told : <<f, told>>[1] = f /\ <<f, told>> # <<>>
      OBVIOUS
    <3> QED BY <2>1, <3>1 DEF NoAnswer
  <2>4. CASE e = f
    <3>1. unanswered' = unanswered \ {f}
      BY <2>1, <2>4 DEF Unknown
    <3>2. PICK told \in SetToSeqs({l \in ToSet(m_keys) : <<l, f>> \in deployed}) :
            answer' = <<f, told>>
      BY <2>1, <2>4 DEF Unknown
    <3>3. ToSet(told) = {l \in ToSet(m_keys) : <<l, f>> \in deployed}
      BY AskedFacts DEF KeysFit, TypeOK
    <3>4. k \in ToSet(told)
      BY <2>2, <2>4, <3>3 DEF Unknown
    <3>5. WillFind(k, e)'
      BY <2>3, <2>4, <3>2, <3>4 DEF WillFind, ToSet
    <3> QED BY <3>5 DEF OnItsWay
  <2>5. CASE e # f
    <3>1. OnItsWay(k, e)
      BY <1>3, <2>1, <2>2, <2>5 DEF Unknown
    <3> QED BY <2>2, <2>3, <2>5, <3>1 DEF OnItsWay, WillFind, WillForget, WillUnlink
  <2> QED BY <2>4, <2>5
<1>10. CASE CheckRecords
  <2>1. /\ answer # NoAnswer /\ answer' = NoAnswer
        /\ m_envs' = [f \in DOMAIN m_envs \cup {answer[1]} |->
                        IF f = answer[1] THEN answer[2] ELSE m_envs[f]]
        /\ env_ids' = [l \in Keys |-> IF l \in ToSet(answer[2]) THEN env_ids[l] \cup {answer[1]}
                                                               ELSE env_ids[l]]
        /\ UNCHANGED <<files, deployed, m_keys, workers, unanswered>>
    BY <1>10 DEF CheckRecords, outside
  <2>2. env_ids[k] \subseteq env_ids'[k]
    BY <2>1
  <2>3. OnItsWay(k, e)
    BY <1>3, <2>1, <2>2 DEF Unknown
  <2>4. CASE e = answer[1]
    <3>1. k \notin ToSet(answer[2])
      BY <2>1, <2>4 DEF Unknown
    <3>2. ~WillFind(k, e)
      BY <2>1, <2>4, <3>1 DEF WillFind
    <3> QED BY <2>1, <2>3, <3>2 DEF OnItsWay, WillForget, WillUnlink
  <2>5. CASE e # answer[1]
    BY <2>1, <2>3, <2>5 DEF OnItsWay, WillFind, WillForget, WillUnlink
  <2> QED BY <2>4, <2>5
<1>11. CASE UploadKey
  <2>1. /\ workers \subseteq workers'
        /\ UNCHANGED <<files, deployed, m_keys, env_ids, m_envs, answer, unanswered>>
    BY <1>11 DEF UploadKey, outside, known
  <2>2. OnItsWay(k, e)
    BY <1>3, <2>1 DEF Unknown
  <2> QED BY <2>1, <2>2 DEF OnItsWay, WillFind, WillForget, WillUnlink
<1>12. CASE Rest
  <2>1. PICK w \in workers :
          /\ w.at = "rest"
          /\ \/ deployed' = IF w.do = "upload" THEN deployed \cup ({w.key} \X w.envs)
                                               ELSE deployed \ ({w.key} \X w.envs)
             \/ UNCHANGED deployed
          /\ workers' = (workers \ {w}) \cup {[w EXCEPT !.at = "clean"]}
          /\ UNCHANGED <<files, m_keys, env_ids, m_envs, answer, unanswered>>
    BY <1>12 DEF Rest, Step, known, check
  <2>2. w \in Workers
    BY <2>1 DEF KeysFit, TypeOK
  <2>3. /\ [w EXCEPT !.at = "clean"].at = "clean" /\ [w EXCEPT !.at = "clean"].do = w.do
        /\ [w EXCEPT !.at = "clean"].envs = w.envs
    BY <2>2 DEF Workers
  <2>4. CASE <<k, e>> \in deployed
    <3>1. OnItsWay(k, e)
      BY <1>3, <2>1, <2>4 DEF Unknown
    <3> QED BY <2>1, <3>1 DEF OnItsWay, WillFind, WillForget, WillUnlink
  <2>5. CASE <<k, e>> \notin deployed
    <3>1. w.do = "upload" /\ e \in w.envs
      BY <2>1, <2>5 DEF Unknown
    <3> QED BY <2>1, <2>3, <3>1 DEF OnItsWay, WillForget
  <2> QED BY <2>4, <2>5
<1>13. CASE CleanEnvironments
  <2>1. PICK w \in workers :
          /\ w.do = "upload" /\ m_envs' = [f \in DOMAIN m_envs \ w.envs |-> m_envs[f]]
          /\ workers' = workers \ {w} /\ unanswered' = unanswered \ w.envs
          /\ UNCHANGED <<files, deployed, m_keys, env_ids, answer>> /\ ~m_mutex
    BY <1>13 DEF CleanEnvironments, Forgotten, outside, known, check
  <2>2. CASE e \in w.envs
    BY <1>4, <2>1, <2>2 DEF OnItsWay, WillFind
  <2>3. CASE e \notin w.envs
    <3>1. OnItsWay(k, e)
      BY <1>3, <2>1, <2>3 DEF Unknown
    <3>2. WillFind(k, e) => WillFind(k, e)'
      BY <1>4, <2>1, <2>3 DEF WillFind
    <3>3. WillForget(e) => WillForget(e)'
      BY <2>1, <2>3 DEF WillForget
    <3>4. WillUnlink(k) => WillUnlink(k)'
      BY <2>1 DEF WillUnlink
    <3> QED BY <3>1, <3>2, <3>3, <3>4 DEF OnItsWay
  <2> QED BY <2>2, <2>3
<1>14. CASE CleanKey
  <2>1. PICK w \in workers :
          /\ w.do = "remove" /\ w.at = "clean" /\ m_keys' = RemoveFirst(m_keys, w.key)
          /\ env_ids' = [env_ids EXCEPT ![w.key] = {}]
          /\ workers' = (workers \ {w}) \cup {[w EXCEPT !.at = "unlink"]}
          /\ UNCHANGED <<files, deployed, m_envs, answer, unanswered>>
    BY <1>14 DEF CleanKey, Step, outside, check
  <2>2. ToSet(m_keys') = ToSet(m_keys) \ {w.key}
    BY <2>1, RemovedFacts DEF KeysFit, TypeOK
  <2>3. k \in ToSet(m_keys) /\ k # w.key
    BY <2>2 DEF Unknown
  <2>4. env_ids'[k] = env_ids[k]
    BY <2>1, <2>3 DEF KeysFit, TypeOK
  <2>5. OnItsWay(k, e)
    BY <1>3, <2>1, <2>3, <2>4 DEF Unknown
  <2> QED BY <2>1, <2>5 DEF OnItsWay, WillFind, WillForget, WillUnlink
<1>15. CASE Unlink
  <2>1. PICK w \in workers :
          /\ w.at = "unlink" /\ files' = files \ {w.key} /\ workers' = workers \ {w}
          /\ UNCHANGED <<deployed, m_keys, env_ids, m_envs, answer, unanswered>>
    BY <1>15 DEF Unlink, known, check
  <2>2. k # w.key
    BY <2>1 DEF Unknown
  <2>3. OnItsWay(k, e)
    BY <1>3, <2>1 DEF Unknown
  <2> QED BY <2>1, <2>2, <2>3 DEF OnItsWay, WillFind, WillForget, WillUnlink
<1>16. CASE Generate
  <2>1. PICK l : l \notin {p[1] : p \in deployed} /\ files' = files \cup {l}
    BY <1>16 DEF Generate
  <2>2. UNCHANGED <<deployed, m_keys, env_ids, m_envs, answer, workers, unanswered>>
    BY <1>16 DEF Generate, known, check
  <2>3. k # l
    <3>1. <<k, e>> \in deployed /\ <<k, e>>[1] = k
      BY <2>2 DEF Unknown
    <3> QED BY <2>1, <3>1
  <2>4. OnItsWay(k, e)
    BY <1>3, <2>1, <2>2, <2>3 DEF Unknown
  <2> QED BY <2>2, <2>4 DEF OnItsWay, WillFind, WillForget, WillUnlink
<1>17. CASE UNCHANGED <<files, deployed, m_keys, env_ids, m_envs, answer, workers, unanswered>>
  <2>1. OnItsWay(k, e)
    BY <1>3, <1>17 DEF Unknown
  <2> QED BY <1>17, <2>1 DEF OnItsWay, WillFind, WillForget, WillUnlink
<1>18. EnvironmentsUpdated \/ HubChanges \/ CheckEnds \/ UNCHANGED vars =>
         UNCHANGED <<files, deployed, m_keys, env_ids, m_envs, answer, workers, unanswered>>
  BY DEF EnvironmentsUpdated, HubChanges, Updated, CheckEnds, vars, outside, known, check
<1> QED BY <1>5, <1>6, <1>7, <1>8, <1>9, <1>10, <1>11, <1>12, <1>13, <1>14, <1>15, <1>16, <1>17,
           <1>18 DEF Next, Check, Work, Disturbs

SshInv == KeysFit /\ UnlistedIsNew /\ DeployedIsOnItsWay

LEMMA SshBegins ==
  ASSUME IsFiniteSet(Keys), Init
  PROVE  SshInv
<1>1. files \in SUBSET Keys /\ m_keys \in SetToSeqs(files)
  BY DEF Init
<1>2. IsFiniteSet(files) /\ m_keys \in Arrangements(files)
  BY <1>1, FS_Subset DEF SetToSeqs, Arrangements
<1>3. m_keys \in Seq(files) /\ IsInjective(m_keys) /\ ToSet(m_keys) = files
  BY <1>2, ArrangementFacts, ElementsAreSet
<1>4. m_keys \in Seq(Keys)
  BY <1>1, <1>3, SeqMonotonic
<1>5. DOMAIN m_envs = {}
  BY DEF Init
<1>6. env_ids \in [Keys -> SUBSET Envs] /\ 1 \in Nat
  BY DEF Init
<1>7. TypeOK
  BY <1>1, <1>3, <1>4, <1>5, <1>6 DEF Init, TypeOK
<1>8. AnswerFits
  BY DEF Init, AnswerFits
<1>9. UnlistedIsNew /\ DeployedIsOnItsWay
  BY <1>3 DEF Init, UnlistedIsNew, DeployedIsOnItsWay
<1> QED BY <1>7, <1>8, <1>9 DEF SshInv, KeysFit

LEMMA SshInvariance == ASSUME IsFiniteSet(Keys) PROVE Spec => []SshInv
<1>1. Init => SshInv
  BY SshBegins
<1>2. SshInv /\ [Next]_vars => SshInv'
  BY KeysFitStep, UnlistedStep, OnItsWayStep DEF SshInv
<1> QED BY <1>1, <1>2, PTL DEF Spec

\* The list of keys has no key twice and every variable a value its class can hold,
\* though the keys of an environment are erased by their number in another list.
THEOREM KeysTypeCorrect == ASSUME IsFiniteSet(Keys) PROVE Spec => []TypeOK
<1>1. SshInv => TypeOK
  BY DEF SshInv, KeysFit
<1> QED BY <1>1, SshInvariance, PTL

\* Uploads, removals, checks and readings of the directory in any order: a key that
\* was deployed is known to be, or what is under way will tell, or take it away.
THEOREM DeployedOnItsWay == ASSUME IsFiniteSet(Keys) PROVE Spec => []DeployedIsOnItsWay
<1>1. SshInv => DeployedIsOnItsWay
  BY DEF SshInv
<1> QED BY <1>1, SshInvariance, PTL
=============================================================================
