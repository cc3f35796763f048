------------------------- MODULE FileTransferProofs -------------------------
(***************************************************************************)
(* The window that moves files shows the directory it says it shows, and   *)
(* marks a row finished only for what was done, for any container and any  *)
(* number of files, windows, listings and transfers.                       *)
(*                                                                         *)
(* ListingIsOfDirectory is about the last answer to arrive; it holds       *)
(* because all the listings under way are of one directory, the window's,  *)
(* as long as the buttons that ask for another are off while one is under  *)
(* way.  That they are is a matter of counting: refresh_queries, which     *)
(* survives its window, is never less than the listings under way.  These  *)
(* are counted here one by one (Tokens), not by BagCardinality, so that no *)
(* induction over the bag is needed.                                       *)
(*                                                                         *)
(* FinishedIsEarned is a matter of row numbers, which Clear changes behind *)
(* the backs of the transfers: no two rows are of one file, so no row      *)
(* becomes finished by moving.                                             *)
(***************************************************************************)
EXTENDS FileTransfer, Integers, FiniteSetTheorems, SequenceTheorems, TLAPS

----------------------------------------------------------------------------
\* Bags, and the listings in one.

Bag(q) == q \in [DOMAIN q -> Nat \ {0}]

Tokens(q) == {t \in Dirs \X Nat : t[1] \in DOMAIN q /\ t[2] \in 1..q[t[1]]}

\* There are no more than n listings under way.
AtMost(q, n) ==
  /\ DOMAIN q \subseteq Dirs /\ Bag(q)
  /\ IsFiniteSet(Tokens(q)) /\ Cardinality(Tokens(q)) <= n

LEMMA ListingOf ==
  ASSUME NEW q, NEW d \in Dirs, NEW i \in Nat
  PROVE  <<d, i>> \in Tokens(q) <=> d \in DOMAIN q /\ i \in 1..q[d]
BY DEF Tokens

LEMMA SameTokens ==
  ASSUME NEW S, NEW T, S \subseteq Dirs \X Nat, T \subseteq Dirs \X Nat,
         \A d \in Dirs, i \in Nat : <<d, i>> \in S <=> <<d, i>> \in T
  PROVE  S = T
<1>1. ASSUME NEW t \in Dirs \X Nat PROVE t \in S <=> t \in T
  <2>1. PICK d \in Dirs, i \in Nat : t = <<d, i>>
    OBVIOUS
  <2> QED BY <2>1
<1> QED BY <1>1

LEMMA NoListing ==
  ASSUME NEW n \in Nat
  PROVE  DOMAIN EmptyBag = {} /\ AtMost(EmptyBag, n)
<1>1. DOMAIN EmptyBag = {} /\ Bag(EmptyBag)
  BY DEF EmptyBag, SetToBag, Bag
<1>2. Tokens(EmptyBag) = {}
  BY <1>1 DEF Tokens
<1> QED BY <1>1, <1>2, FS_EmptySet DEF AtMost

LEMMA ListingAdded ==
  ASSUME NEW q, NEW n \in Nat, AtMost(q, n), NEW d \in Dirs,
         NEW r, r = q (+) SetToBag({d})
  PROVE  DOMAIN r = DOMAIN q \cup {d} /\ AtMost(r, n + 1)
<1> DEFINE k == IF d \in DOMAIN q THEN q[d] + 1 ELSE 1
<1>0. Bag(q)
  BY DEF AtMost
<1>1. k \in Nat \ {0}
  BY <1>0 DEF Bag
<1>2. /\ DOMAIN r = DOMAIN q \cup {d}
      /\ r[d] = k
      /\ \A e \in DOMAIN q \ {d} : r[e] = q[e]
      /\ r = [e \in DOMAIN r |-> r[e]]
  BY <1>0 DEF SetToBag, (+), Bag
<1>3. Bag(r)
  BY <1>0, <1>1, <1>2 DEF Bag
<1>4. Tokens(r) = Tokens(q) \cup {<<d, k>>}
  <2>1. ASSUME NEW e \in Dirs, NEW i \in Nat
        PROVE  <<e, i>> \in Tokens(r) <=> <<e, i>> \in Tokens(q) \cup {<<d, k>>}
    <3>1. CASE e # d
      BY <1>2, <3>1, ListingOf
    <3>2. CASE e = d /\ d \in DOMAIN q
      <4>1. q[d] \in Nat /\ k = q[d] + 1
        BY <1>0, <3>2 DEF Bag
      <4>2. i \in 1..k <=> i \in 1..q[d] \/ i = k
        BY <4>1
      <4> QED BY <1>2, <3>2, <4>2, ListingOf
    <3>3. CASE e = d /\ d \notin DOMAIN q
      <4>1. k = 1 /\ (i \in 1..k <=> i = k)
        BY <3>3
      <4> QED BY <1>2, <3>3, <4>1, ListingOf
    <3> QED BY <3>1, <3>2, <3>3
  <2>2. Tokens(r) \subseteq Dirs \X Nat /\ Tokens(q) \subseteq Dirs \X Nat
    BY DEF Tokens
  <2>3. Tokens(q) \cup {<<d, k>>} \subseteq Dirs \X Nat
    BY <1>1, <2>2
  <2> DEFINE S == Tokens(r)
             T == Tokens(q) \cup {<<d, k>>}
  <2>4. /\ S \subseteq Dirs \X Nat /\ T \subseteq Dirs \X Nat
        /\ \A e \in Dirs, i \in Nat : <<e, i>> \in S <=> <<e, i>> \in T
    BY <2>1, <2>2, <2>3
  <2> HIDE DEF S, T
  <2>5. S = T
    BY <2>4, SameTokens
  <2> QED BY <2>5 DEF S, T
<1> HIDE DEF k
<1>5. IsFiniteSet(Tokens(r)) /\ Cardinality(Tokens(r)) <= n + 1
  <2>1. IsFiniteSet(Tokens(q)) /\ Cardinality(Tokens(q)) <= n /\ Cardinality(Tokens(q)) \in Nat
    BY FS_CardinalityType DEF AtMost
  <2>2. /\ IsFiniteSet(Tokens(r))
        /\ \/ Cardinality(Tokens(r)) = Cardinality(Tokens(q))
           \/ Cardinality(Tokens(r)) = Cardinality(Tokens(q)) + 1
    <3> DEFINE S == Tokens(q)
               x == <<d, k>>
    <3>1. Tokens(r) = S \cup {x} /\ IsFiniteSet(S)
      BY <1>4, <2>1
    <3> HIDE DEF S, x
    <3>2. IsFiniteSet(S \cup {x}) /\ (\/ Cardinality(S \cup {x}) = Cardinality(S)
                                     \/ Cardinality(S \cup {x}) = Cardinality(S) + 1)
      BY <3>1, FS_AddElement
    <3> QED BY <3>1, <3>2 DEF S
  <2> QED BY <2>1, <2>2
<1> QED BY <1>2, <1>3, <1>5 DEF AtMost

\* The listing that arrives is one less; and when there can be none any more, there
\* is none.
LEMMA ListingTaken ==
  ASSUME NEW q, NEW n \in Nat, AtMost(q, n), NEW d \in DOMAIN q,
         NEW r, r = q (-) SetToBag({d})
  PROVE  /\ n > 0 /\ DOMAIN r \subseteq DOMAIN q /\ AtMost(r, n - 1)
         /\ n - 1 = 0 => r = EmptyBag
<1>0. Bag(q) /\ d \in Dirs /\ q[d] \in Nat \ {0}
  BY DEF AtMost, Bag
<1>1. /\ DOMAIN r = {e \in DOMAIN q : e # d \/ q[d] > 1}
      /\ d \in DOMAIN r => r[d] = q[d] - 1
      /\ \A e \in DOMAIN r \ {d} : r[e] = q[e]
      /\ r = [e \in DOMAIN r |-> r[e]]
  BY <1>0 DEF SetToBag, (-), Bag
<1>2. Bag(r)
  <2>1. ASSUME NEW e \in DOMAIN r PROVE r[e] \in Nat \ {0}
    BY <1>0, <1>1, <2>1 DEF Bag
  <2> QED BY <1>1, <2>1 DEF Bag
<1>3. <<d, q[d]>> \in Tokens(q)
  BY <1>0 DEF Tokens
<1>4. Tokens(r) = Tokens(q) \ {<<d, q[d]>>}
  <2>1. ASSUME NEW e \in Dirs, NEW i \in Nat
        PROVE  <<e, i>> \in Tokens(r) <=> <<e, i>> \in Tokens(q) \ {<<d, q[d]>>}
    <3>1. CASE e # d
      BY <1>1, <3>1, ListingOf
    <3>2. CASE e = d /\ d \in DOMAIN r
      <4>1. i \in 1..r[d] <=> i \in 1..q[d] /\ i # q[d]
        BY <1>0, <1>1, <3>2
      <4> QED BY <3>2, <4>1, ListingOf
    <3>3. CASE e = d /\ d \notin DOMAIN r
      <4>1. q[d] = 1
        BY <1>0, <1>1, <3>3
      <4>2. i \in 1..q[d] <=> i = q[d]
        BY <4>1
      <4> QED BY <3>3, <4>2, ListingOf
    <3> QED BY <3>1, <3>2, <3>3
  <2>2. Tokens(r) \subseteq Dirs \X Nat /\ Tokens(q) \ {<<d, q[d]>>} \subseteq Dirs \X Nat
    BY DEF Tokens
  <2> QED BY <2>1, <2>2, SameTokens
<1>5. IsFiniteSet(Tokens(q)) /\ Cardinality(Tokens(q)) <= n
  BY DEF AtMost
<1>6. /\ IsFiniteSet(Tokens(r)) /\ Cardinality(Tokens(r)) = Cardinality(Tokens(q)) - 1
      /\ Cardinality(Tokens(q)) \in Nat /\ Cardinality(Tokens(r)) \in Nat
  <2> DEFINE S == Tokens(q)
             x == <<d, q[d]>>
  <2>1. Tokens(r) = S \ {x} /\ IsFiniteSet(S) /\ x \in S
    BY <1>3, <1>4, <1>5
  <2> HIDE DEF S, x
  <2>2. IsFiniteSet(S \ {x}) /\ Cardinality(S \ {x}) = Cardinality(S) - 1
    BY <2>1, FS_RemoveElement
  <2>3. Cardinality(S) \in Nat /\ Cardinality(S \ {x}) \in Nat
    BY <2>1, <2>2, FS_CardinalityType
  <2> QED BY <2>1, <2>2, <2>3 DEF S
<1>7. n > 0 /\ Cardinality(Tokens(r)) <= n - 1
  BY <1>5, <1>6
<1>8. DOMAIN r \subseteq DOMAIN q /\ AtMost(r, n - 1)
  BY <1>1, <1>2, <1>6, <1>7 DEF AtMost
<1>9. ASSUME n - 1 = 0 PROVE r = EmptyBag
  <2>1. Tokens(r) = {}
    <3>1. Cardinality(Tokens(r)) = 0
      BY <1>6, <1>7, <1>9
    <3> QED BY <1>6, <3>1, FS_EmptySet
  <2>2. DOMAIN r = {}
    <3> SUFFICES ASSUME NEW e \in DOMAIN r PROVE FALSE
      OBVIOUS
    <3>1. r[e] \in Nat \ {0} /\ e \in Dirs
      BY <1>2, <1>8 DEF Bag, AtMost
    <3>2. <<e, 1>> \in Tokens(r)
      BY <3>1 DEF Tokens
    <3> QED BY <2>1, <3>2
  <2> QED BY <1>1, <2>2 DEF EmptyBag, SetToBag
<1> QED BY <1>7, <1>8, <1>9
----------------------------------------------------------------------------
\* The invariant.

\* Between two windows nothing of the window is left.
NothingLeft ==
  ~open => /\ queries = EmptyBag /\ ~buttons /\ creating = "no"
           /\ DOMAIN transfers = {}

\* Unless the buttons came on too early, they are off while a listing is under way,
\* and all listings are of the directory of the window.
OneDirectory ==
  ~early => /\ buttons => queries = EmptyBag
            /\ DOMAIN queries \subseteq {current_remote_dir}

ListingInv ==
  /\ {open, buttons, early} \subseteq BOOLEAN /\ current_remote_dir \in Dirs
  /\ remote_files \in Dirs \cup {"home", "nothing"}
  /\ creating \in {"no", "naming", "mkdir"}
  /\ refresh_queries \in Nat /\ AtMost(queries, refresh_queries)
  /\ NothingLeft /\ OneDirectory /\ ListingIsOfDirectory

\* Asking for a listing keeps the window in order if the directory is the one it
\* is in, or no other listing is under way.
LEMMA RefreshStep ==
  ASSUME ListingInv, NEW dir \in Dirs,
         dir = current_remote_dir \/ buttons \/ queries = EmptyBag,
         RefreshRemote(dir), open' = TRUE, creating' \in {"no", "naming", "mkdir"}
  PROVE  ListingInv'
<1>1. /\ current_remote_dir' = dir /\ queries' = queries (+) SetToBag({dir})
      /\ refresh_queries' = refresh_queries + 1 /\ buttons' = FALSE
      /\ remote_files' = remote_files /\ early' = early
  BY DEF RefreshRemote
<1>2. DOMAIN queries' = DOMAIN queries \cup {dir} /\ AtMost(queries', refresh_queries')
  BY <1>1, ListingAdded DEF ListingInv
<1>3. DOMAIN EmptyBag = {}
  BY NoListing
<1>4. queries' # EmptyBag
  BY <1>2, <1>3
<1>5. OneDirectory'
  BY <1>1, <1>2, <1>3 DEF OneDirectory, ListingInv
<1>6. NothingLeft' /\ ListingIsOfDirectory'
  BY <1>4 DEF NothingLeft, ListingIsOfDirectory
<1>7. refresh_queries' \in Nat
  BY <1>1 DEF ListingInv
<1> QED BY <1>1, <1>2, <1>5, <1>6, <1>7 DEF ListingInv

LEMMA EnableStep ==
  ASSUME ListingInv, open, EnableButtons, open' = open,
         creating' \in {"no", "naming", "mkdir"}
  PROVE  ListingInv'
<1>1. /\ buttons' = TRUE /\ early' = (early \/ queries # EmptyBag)
      /\ UNCHANGED <<current_remote_dir, remote_files, queries, refresh_queries>>
  BY DEF EnableButtons, browser
<1>2. early \in BOOLEAN /\ early' \in BOOLEAN
  BY <1>1 DEF ListingInv
<1>3. ~early' => ~early /\ queries = EmptyBag
  BY <1>1, <1>2
<1>4. OneDirectory' /\ ListingIsOfDirectory'
  BY <1>1, <1>3 DEF ListingInv, OneDirectory, ListingIsOfDirectory
<1>5. NothingLeft'
  BY DEF NothingLeft
<1> QED BY <1>1, <1>2, <1>4, <1>5 DEF ListingInv

LEMMA ArrivalStep ==
  ASSUME ListingInv, ListingArrives
  PROVE  ListingInv'
<1>1. PICK dir \in BagToSet(queries), came \in Dirs \cup {"home", "nothing"} :
        /\ came \in {dir, "home", "nothing"}
        /\ queries' = queries (-) SetToBag({dir})
        /\ remote_files' = came
        /\ refresh_queries' = refresh_queries - 1
        /\ buttons' = (buttons \/ refresh_queries' = 0)
        /\ UNCHANGED <<open, current_remote_dir, creating, early, table>>
  BY DEF ListingArrives, Left, LastAnswer
<1>2. dir \in DOMAIN queries
  BY <1>1 DEF BagToSet
<1>3. refresh_queries \in Nat /\ AtMost(queries, refresh_queries)
  BY DEF ListingInv
<1>4. /\ refresh_queries' \in Nat /\ DOMAIN queries' \subseteq DOMAIN queries
      /\ AtMost(queries', refresh_queries')
      /\ refresh_queries' = 0 => queries' = EmptyBag
  <2> DEFINE n == refresh_queries
             q == queries
             r == queries'
  <2>1. n \in Nat /\ AtMost(q, n) /\ dir \in DOMAIN q /\ r = q (-) SetToBag({dir})
    BY <1>1, <1>2, <1>3
  <2> HIDE DEF n, q, r
  <2>2. n > 0 /\ DOMAIN r \subseteq DOMAIN q /\ AtMost(r, n - 1)
        /\ (n - 1 = 0 => r = EmptyBag)
    BY <2>1, ListingTaken
  <2>3. n - 1 \in Nat
    BY <2>1, <2>2
  <2> QED BY <1>1, <2>2, <2>3 DEF n, q, r
<1>5. DOMAIN EmptyBag = {}
  BY NoListing
<1>6. open /\ open'
  BY <1>1, <1>2, <1>5 DEF ListingInv, NothingLeft
<1>7. ASSUME ~early'
      PROVE  /\ dir = current_remote_dir /\ ~buttons
             /\ DOMAIN queries' \subseteq {current_remote_dir'}
  BY <1>1, <1>2, <1>4, <1>5, <1>7 DEF ListingInv, OneDirectory
<1>8. buttons' \in BOOLEAN
  BY <1>1
<1>9. NothingLeft'
  BY <1>6 DEF NothingLeft
<1>10. OneDirectory'
  BY <1>1, <1>4, <1>7 DEF OneDirectory
<1>11. ListingIsOfDirectory'
  BY <1>1, <1>7 DEF ListingIsOfDirectory
<1> QED BY <1>1, <1>4, <1>8, <1>9, <1>10, <1>11 DEF ListingInv

\* The handlers that leave the listings alone, but may turn the buttons off.
LEMMA AsideStep ==
  ASSUME ListingInv, open' = open, open,
         UNCHANGED <<current_remote_dir, remote_files, queries, refresh_queries, early>>,
         buttons' \in {buttons, FALSE}, creating' \in {"no", "naming", "mkdir"}
  PROVE  ListingInv'
<1>1. {open', buttons', early'} \subseteq BOOLEAN
  BY DEF ListingInv
<1>2. OneDirectory' /\ ListingIsOfDirectory' /\ NothingLeft'
  <2>1. buttons' => buttons
    OBVIOUS
  <2>2. OneDirectory'
    BY <2>1 DEF ListingInv, OneDirectory
  <2>3. ListingIsOfDirectory'
    BY DEF ListingInv, ListingIsOfDirectory
  <2>4. NothingLeft'
    BY DEF NothingLeft
  <2> QED BY <2>2, <2>3, <2>4
<1>3. AtMost(queries', refresh_queries') /\ refresh_queries' \in Nat
  BY DEF ListingInv
<1> QED BY <1>1, <1>2, <1>3 DEF ListingInv

LEMMA ListingStep ==
  ASSUME BeginsSomewhere, ListingInv, [Next]_vars
  PROVE  ListingInv'
<1> USE DEF listing, browser, table
<1>0. creating \in {"no", "naming", "mkdir"} /\ current_remote_dir \in Dirs
  BY DEF ListingInv
<1>1. CASE UNCHANGED vars
  BY <1>1 DEF vars, ListingInv, NothingLeft, OneDirectory, ListingIsOfDirectory
<1>2. CASE Open
  <2>1. /\ Root \in Dirs /\ RefreshRemote(Root) /\ open' = TRUE /\ creating' = creating
        /\ queries = EmptyBag
    BY <1>2 DEF Open, BeginsSomewhere, ListingInv, NothingLeft
  <2> QED BY <1>0, <2>1, RefreshStep
<1>3. CASE Close
  <2>1. /\ open' = FALSE /\ current_remote_dir' = Root /\ remote_files' = "nothing"
        /\ buttons' = FALSE /\ queries' = EmptyBag /\ early' = FALSE /\ creating' = "no"
        /\ transfers' = EmptyBag /\ refresh_queries' = refresh_queries
    BY <1>3 DEF Close
  <2>2. DOMAIN EmptyBag = {} /\ AtMost(EmptyBag, refresh_queries) /\ refresh_queries \in Nat
    BY NoListing DEF ListingInv
  <2>3. NothingLeft' /\ OneDirectory' /\ ListingIsOfDirectory'
    BY <2>1, <2>2 DEF NothingLeft, OneDirectory, ListingIsOfDirectory
  <2> QED BY <2>1, <2>2, <2>3 DEF ListingInv, BeginsSomewhere
<1>4. CASE ListingArrives
  BY <1>4, ArrivalStep
<1>5. CASE Browse
  <2>1. PICK dir \in Dirs : RefreshRemote(dir)
    BY <1>5 DEF Browse
  <2>2. buttons /\ open' = TRUE /\ creating' = creating
    BY <1>5 DEF Browse, Idle, ListingInv
  <2> QED BY <1>0, <2>1, <2>2, RefreshStep
<1>6. CASE CreateFolder
  BY <1>6, AsideStep DEF CreateFolder, Idle
<1>7. CASE NameIsGiven
  <2>1. open
    BY <1>7 DEF NameIsGiven, ListingInv, NothingLeft
  <2> QED BY <1>7, <2>1, AsideStep DEF NameIsGiven
<1>8. CASE NamingIsLeft
  <2>1. open
    BY <1>8 DEF NamingIsLeft, ListingInv, NothingLeft
  <2> QED BY <1>8, <2>1, EnableStep DEF NamingIsLeft
<1>9. CASE FolderIsCreated
  <2>1. open
    BY <1>9 DEF FolderIsCreated, ListingInv, NothingLeft
  <2>2. open' = TRUE /\ open' = open /\ creating' = "no"
    BY <1>9, <2>1 DEF FolderIsCreated, ListingInv
  <2>3. CASE RefreshRemote(current_remote_dir)
    BY <1>0, <2>2, <2>3, RefreshStep
  <2>4. CASE UNCHANGED listing
    BY <2>1, <2>2, <2>4, AsideStep
  <2> QED BY <1>9, <2>3, <2>4 DEF FolderIsCreated
<1>10. CASE DropFile \/ MoveSelected \/ RemoveSelected \/ PickLocalFile \/ Start \/ Clear
  <2>1. open /\ UNCHANGED <<open, listing, creating>>
    BY <1>10 DEF DropFile, MoveSelected, RemoveSelected, PickLocalFile, Start, Clear, Idle
  <2> QED BY <1>0, <2>1, AsideStep
<1>11. CASE PickRemoteFile
  BY <1>0, <1>11, AsideStep DEF PickRemoteFile, Idle
<1>12. CASE TransferEnds
  <2>1. open
    BY <1>12 DEF TransferEnds, BagToSet, ListingInv, NothingLeft
  <2>2. open' = TRUE /\ open' = open /\ creating' = creating
    BY <1>12, <2>1 DEF TransferEnds, ListingInv
  <2>3. UNCHANGED listing \/ RefreshRemote(current_remote_dir) \/ EnableButtons
    BY <1>12 DEF TransferEnds
  <2>4. CASE UNCHANGED listing
    BY <1>0, <2>1, <2>2, <2>4, AsideStep
  <2>5. CASE RefreshRemote(current_remote_dir)
    BY <1>0, <2>2, <2>5, RefreshStep
  <2>6. CASE EnableButtons
    BY <1>0, <2>1, <2>2, <2>6, EnableStep
  <2> QED BY <2>3, <2>4, <2>5, <2>6
<1> QED BY <1>1, <1>2, <1>3, <1>4, <1>5, <1>6, <1>7, <1>8, <1>9, <1>10, <1>11, <1>12 DEF Next

LEMMA ListingInit ==
  ASSUME BeginsSomewhere, Init
  PROVE  ListingInv
<1>1. DOMAIN EmptyBag = {} /\ AtMost(EmptyBag, 0)
  BY NoListing
<1>2. NothingLeft /\ OneDirectory /\ ListingIsOfDirectory
  BY <1>1 DEF Init, NothingLeft, OneDirectory, ListingIsOfDirectory
<1> QED BY <1>1, <1>2 DEF Init, ListingInv, BeginsSomewhere

LEMMA ListingInductive == ASSUME BeginsSomewhere PROVE Spec => []ListingInv
BY ListingInit, ListingStep, PTL DEF Spec

\* Listings that are late, that fail, and those of a window that is gone: what the
\* window shows last is of the directory it makes its paths with.
THEOREM ListingOfDirectory == ASSUME BeginsSomewhere PROVE Spec => []ListingIsOfDirectory
<1>1. ListingInv => ListingIsOfDirectory
  BY DEF ListingInv
<1> QED BY <1>1, ListingInductive, PTL

----------------------------------------------------------------------------
\* The table.

\* No two rows are of one file.
OneRow ==
  \A i, j \in DOMAIN files_to_transfer :
    files_to_transfer[i].file = files_to_transfer[j].file => i = j

TableInv ==
  /\ files_to_transfer \in Seq(Rows) /\ OneRow
  /\ BagToSet(transfers) \subseteq Transfers /\ done \subseteq Files

LEMMA Shift ==
  ASSUME NEW i \in Int, NEW j \in Int, NEW n \in Int, NEW k \in Int,
         1 <= i, i <= j, k >= i, k <= i - 1 + (n - j)
  PROVE  /\ k - (i - 1) \in 1..n - j /\ ~ (k <= i - 1) /\ k >= i
         /\ k + (j + 1 - i) \in 1..n /\ j + (k - (i - 1)) = k + (j + 1 - i)
OBVIOUS

\* r is s without the elements from i to j.
Shortened(S, s, i, j, r) ==
  /\ r \in Seq(S)
  /\ \A k \in DOMAIN r : \/ k < i /\ k \in DOMAIN s /\ r[k] = s[k]
                         \/ LET m == k + (j + 1 - i)
                            IN  k >= i /\ m \in DOMAIN s /\ r[k] = s[m]

LEMMA ClearedRows ==
  ASSUME NEW S, NEW s \in Seq(S), NEW i \in DOMAIN s, NEW j \in DOMAIN s, i <= j,
         NEW r, r = SubSeq(s, 1, i - 1) \o SubSeq(s, j + 1, Len(s))
  PROVE  Shortened(S, s, i, j, r)
<1> DEFINE n == Len(s)
           a == SubSeq(s, 1, i - 1)
           b == SubSeq(s, j + 1, n)
<1>1. n \in Nat /\ i \in 1..n /\ j \in 1..n /\ DOMAIN s = 1..n
      /\ \A k \in 1..n : s[k] \in S
  OBVIOUS
<1> HIDE DEF n
<1>2. /\ a \in Seq(S) /\ Len(a) = i - 1 /\ \A k \in 1..i - 1 : a[k] = s[k]
  <2>1. i - 1 \in Int /\ \A k \in 1..i - 1 : s[k] \in S
    BY <1>1
  <2>2. /\ a \in Seq(S) /\ Len(a) = IF 1 <= i - 1 THEN i - 1 - 1 + 1 ELSE 0
        /\ \A k \in 1..i - 1 - 1 + 1 : a[k] = s[1 + k - 1]
    BY <2>1, SubSeqProperties
  <2> HIDE DEF a
  <2>3. \A k \in 1..i - 1 : k \in 1..i - 1 - 1 + 1 /\ 1 + k - 1 = k
    BY <1>1
  <2> QED BY <1>1, <2>2, <2>3
<1>3. /\ b \in Seq(S) /\ Len(b) = n - j /\ \A k \in 1..n - j : b[k] = s[j + k]
  <2>1. j + 1 \in Int /\ n \in Int /\ \A k \in j + 1..n : s[k] \in S
    BY <1>1
  <2>2. /\ b \in Seq(S) /\ Len(b) = IF j + 1 <= n THEN n - (j + 1) + 1 ELSE 0
        /\ \A k \in 1..n - (j + 1) + 1 : b[k] = s[j + 1 + k - 1]
    BY <2>1, SubSeqProperties
  <2> HIDE DEF b
  <2>3. \A k \in 1..n - j : k \in 1..n - (j + 1) + 1 /\ j + 1 + k - 1 = j + k
    BY <1>1
  <2> QED BY <1>1, <2>2, <2>3
<1>4. r = a \o b
  BY DEF n
<1> HIDE DEF a, b
<1>5. /\ r \in Seq(S) /\ Len(r) = i - 1 + (n - j)
      /\ \A k \in 1..i - 1 + (n - j) : r[k] = IF k <= i - 1 THEN a[k] ELSE b[k - (i - 1)]
  <2>1. /\ a \o b \in Seq(S) /\ Len(a \o b) = Len(a) + Len(b)
        /\ \A k \in 1..Len(a) + Len(b) :
             (a \o b)[k] = IF k <= Len(a) THEN a[k] ELSE b[k - Len(a)]
    BY <1>2, <1>3, ConcatProperties
  <2> QED BY <1>2, <1>3, <1>4, <2>1
<1>6. DOMAIN r = 1..i - 1 + (n - j)
  BY <1>5
<1>7. ASSUME NEW k \in DOMAIN r, k < i PROVE k \in DOMAIN s /\ r[k] = s[k]
  <2>1. k \in 1..i - 1 /\ k \in 1..n /\ k <= i - 1
    BY <1>1, <1>6, <1>7
  <2> QED BY <1>1, <1>2, <1>5, <1>6, <2>1
<1>8. ASSUME NEW k \in DOMAIN r, ~ (k < i)
      PROVE  k >= i /\ k + (j + 1 - i) \in DOMAIN s /\ r[k] = s[k + (j + 1 - i)]
  <2>0. k \in Int /\ k >= i /\ k <= i - 1 + (n - j) /\ i \in Int /\ j \in Int /\ n \in Int
        /\ 1 <= i
    BY <1>1, <1>6, <1>8
  <2>1. /\ k - (i - 1) \in 1..n - j /\ ~ (k <= i - 1) /\ k >= i
        /\ k + (j + 1 - i) \in 1..n /\ j + (k - (i - 1)) = k + (j + 1 - i)
    BY <2>0, Shift
  <2>2. r[k] = b[k - (i - 1)]
    BY <1>5, <1>6, <2>1
  <2>3. b[k - (i - 1)] = s[j + (k - (i - 1))]
    BY <1>3, <2>1
  <2> QED BY <1>1, <2>1, <2>2, <2>3
<1> QED BY <1>5, <1>7, <1>8 DEF Shortened
\* What it says of row i that it becomes finished.
LEMMA Finished ==
  ASSUME TableInv, NEW i \in DOMAIN files_to_transfer, Finishes(i)
  PROVE  /\ i \in DOMAIN files_to_transfer'
         /\ files_to_transfer[i].status # "finished"
         /\ files_to_transfer'[i].status = "finished"
         /\ files_to_transfer'[i].file = files_to_transfer[i].file
<1>1. files_to_transfer[i] \in Rows
  BY DEF TableInv
<1> DEFINE row == files_to_transfer[i]
<1>2. row \in Rows
  BY <1>1
<1> HIDE DEF row
<1>3. [row EXCEPT !.status = "finished"].status = "finished"
      /\ [row EXCEPT !.status = "finished"].file = row.file
  BY <1>2 DEF Rows
<1> QED BY <1>3 DEF Finishes, row

RowFinishes == \A i \in DOMAIN files_to_transfer : Finishes(i) => Earned(i)

\* Rows that are as they were, or begin, do not become finished.
LEMMA NoneFinishes ==
  ASSUME TableInv,
         \A i \in DOMAIN files_to_transfer' \cap DOMAIN files_to_transfer :
           files_to_transfer'[i] = files_to_transfer[i] \/ files_to_transfer'[i].status = "to"
  PROVE  RowFinishes
BY Finished DEF RowFinishes

LEMMA AddStep ==
  ASSUME TableInv, NEW file \in Files, NEW instant \in BOOLEAN, AddRow(file, instant)
  PROVE  TableInv' /\ RowFinishes
<1> DEFINE f == files_to_transfer
           new == [file |-> file, status |-> "to"]
           rows == Append(f, new)
<1>1. /\ file \notin InTable
      /\ files_to_transfer' = rows /\ done' = done \ {file}
      /\ transfers' = transfers
         \/ transfers' = transfers (+) SetToBag({Transfer(rows, Len(rows))})
  BY DEF AddRow
<1>2. new \in Rows /\ new.file = file
  BY DEF Rows
<1> HIDE DEF new
<1>3. /\ f \in Seq(Rows) /\ Len(f) \in Nat /\ DOMAIN f = 1..Len(f)
      /\ \A i \in DOMAIN f : f[i] \in Rows
  BY DEF TableInv
<1> HIDE DEF f
<1>4. /\ rows \in Seq(Rows) /\ Len(rows) = Len(f) + 1 /\ DOMAIN rows = 1..Len(f) + 1
      /\ rows[Len(f) + 1] = new /\ \A i \in 1..Len(f) : rows[i] = f[i]
  BY <1>2, <1>3, AppendProperties
<1> HIDE DEF rows
<1>5. \A i \in DOMAIN f : rows[i] = f[i] /\ f[i].file # file
  BY <1>1, <1>3, <1>4 DEF InTable, f
<1>6. \A i \in DOMAIN rows : i \in DOMAIN f \/ (i = Len(f) + 1 /\ rows[i].file = file)
  BY <1>2, <1>3, <1>4
<1>7. OneRow'
  BY <1>1, <1>5, <1>6 DEF OneRow, TableInv, f
<1>8. BagToSet(transfers') \subseteq Transfers
  <2>1. Len(rows) \in Nat /\ rows[Len(rows)].file = file
    BY <1>2, <1>3, <1>4
  <2>2. Transfer(rows, Len(rows)) \in Transfers
    BY <2>1 DEF Transfer, Transfers
  <2>3. DOMAIN transfers \subseteq Transfers
    BY DEF TableInv, BagToSet
  <2>4. DOMAIN (transfers (+) SetToBag({Transfer(rows, Len(rows))})) \subseteq Transfers
    BY <2>2, <2>3 DEF (+), SetToBag
  <2> QED BY <1>1, <2>3, <2>4 DEF BagToSet
<1>9. RowFinishes
  BY <1>1, <1>5, NoneFinishes DEF f
<1> QED BY <1>1, <1>4, <1>7, <1>8, <1>9 DEF TableInv

LEMMA StartStep ==
  ASSUME TableInv, Start
  PROVE  TableInv' /\ RowFinishes
<1> DEFINE f == files_to_transfer
           g == files_to_transfer'
<1>1. PICK again, started \in SUBSET DOMAIN f :
        /\ g = [i \in DOMAIN f |-> IF i \in again THEN [f[i] EXCEPT !.status = "to"]
                                                ELSE f[i]]
        /\ transfers' = transfers (+) SetToBag({Transfer(f, i) : i \in started})
        /\ done' = done
  <2>1. PICK selected \in SUBSET DOMAIN f :
        LET wanted == IF selected = {} THEN DOMAIN f ELSE selected
            started == {i \in wanted : f[i].status # "finished"}
            again == {i \in started \cap selected :
                        f[i].file \in FilesTo({"upload", "download"})}
        IN  /\ g = [i \in DOMAIN f |-> IF i \in again THEN [f[i] EXCEPT !.status = "to"]
                                                    ELSE f[i]]
            /\ transfers' = transfers (+) SetToBag({Transfer(f, i) : i \in started})
            /\ done' = done
    BY DEF Start
  <2> DEFINE wanted == IF selected = {} THEN DOMAIN f ELSE selected
             started == {i \in wanted : f[i].status # "finished"}
             again == {i \in started \cap selected :
                         f[i].file \in FilesTo({"upload", "download"})}
  <2>2. started \in SUBSET DOMAIN f /\ again \in SUBSET DOMAIN f
    OBVIOUS
  <2>3. /\ g = [i \in DOMAIN f |-> IF i \in again THEN [f[i] EXCEPT !.status = "to"]
                                                 ELSE f[i]]
        /\ transfers' = transfers (+) SetToBag({Transfer(f, i) : i \in started})
        /\ done' = done
    BY <2>1
  <2> HIDE DEF started, again, f, g
  <2> QED BY <2>2, <2>3
<1>2. /\ f \in Seq(Rows) /\ Len(f) \in Nat /\ DOMAIN f = 1..Len(f)
      /\ \A i \in DOMAIN f : f[i] \in Rows
  BY DEF TableInv
<1> HIDE DEF f, g
<1>3. \A row \in Rows : /\ [row EXCEPT !.status = "to"] \in Rows
                        /\ [row EXCEPT !.status = "to"].status = "to"
                        /\ [row EXCEPT !.status = "to"].file = row.file
  BY DEF Rows
<1>4. /\ DOMAIN g = DOMAIN f
      /\ \A i \in DOMAIN f : /\ g[i] \in Rows /\ g[i].file = f[i].file
                             /\ g[i] = f[i] \/ g[i].status = "to"
  BY <1>1, <1>2, <1>3
<1>5. g \in Seq(Rows)
  <2>1. g \in [1..Len(f) -> Rows]
    BY <1>1, <1>2, <1>4
  <2> QED BY <1>2, <2>1
<1>6. BagToSet(transfers') \subseteq Transfers
  <2>1. \A i \in started : Transfer(f, i) \in Transfers
    <3> SUFFICES ASSUME NEW i \in started PROVE Transfer(f, i) \in Transfers
      OBVIOUS
    <3>1. i \in Nat /\ f[i].file \in Files
      BY <1>1, <1>2 DEF Rows
    <3> QED BY <3>1 DEF Transfer, Transfers
  <2>2. DOMAIN transfers \subseteq Transfers
    BY DEF TableInv, BagToSet
  <2> QED BY <1>1, <2>1, <2>2 DEF BagToSet, (+), SetToBag
<1>7. OneRow'
  BY <1>4 DEF OneRow, TableInv, f, g
<1>8. RowFinishes
  BY <1>4, NoneFinishes DEF f, g
<1> QED BY <1>1, <1>5, <1>6, <1>7, <1>8 DEF TableInv, g

LEMMA ClearStep ==
  ASSUME TableInv, Clear
  PROVE  TableInv' /\ RowFinishes
<1> DEFINE f == files_to_transfer
           g == files_to_transfer'
<1>1. PICK i, j \in DOMAIN f :
        /\ i <= j
        /\ g = SubSeq(f, 1, i - 1) \o SubSeq(f, j + 1, Len(f))
        /\ transfers' = transfers /\ done' = done
  BY DEF Clear
<1>2. f \in Seq(Rows) /\ DOMAIN f = 1..Len(f) /\ Len(f) \in Nat
  BY DEF TableInv
<1>3. OneRow
  BY DEF TableInv
<1> HIDE DEF f, g
<1> DEFINE At(k) == IF k < i THEN k ELSE k + (j + 1 - i)
<1>4. /\ g \in Seq(Rows)
      /\ \A k \in DOMAIN g : At(k) \in DOMAIN f /\ g[k] = f[At(k)]
  <2>0. Shortened(Rows, f, i, j, g)
    BY <1>1, <1>2, ClearedRows
  <2>1. /\ g \in Seq(Rows)
        /\ \A k \in DOMAIN g : \/ k < i /\ k \in DOMAIN f /\ g[k] = f[k]
                               \/ LET m == k + (j + 1 - i)
                                  IN  k >= i /\ m \in DOMAIN f /\ g[k] = f[m]
    BY <2>0 DEF Shortened
  <2>2. i \in Nat /\ DOMAIN g \subseteq Nat
    BY <1>2, <2>1
  <2>3. \A k \in DOMAIN g : k >= i => ~ (k < i)
    BY <2>2
  <2> QED BY <2>1, <2>3
<1>5. i \in Nat /\ j \in Nat /\ DOMAIN g \subseteq Nat
  BY <1>2, <1>4
<1>6. \A k, m \in DOMAIN g : At(k) = At(m) => k = m
  BY <1>1, <1>5
<1> HIDE DEF At
<1>7. OneRow'
  BY <1>3, <1>4, <1>6 DEF OneRow, f, g
<1>8. RowFinishes
  <2> SUFFICES ASSUME NEW k \in DOMAIN f, Finishes(k) PROVE FALSE
    BY DEF RowFinishes, f
  <2>1. /\ k \in DOMAIN g /\ f[k].status # "finished"
        /\ g[k].status = "finished" /\ g[k].file = f[k].file
    BY Finished DEF f, g
  <2>2. At(k) \in DOMAIN f /\ g[k] = f[At(k)]
    BY <1>4, <2>1
  <2>3. At(k) = k
    BY <1>3, <2>1, <2>2 DEF OneRow, f
  <2> QED BY <2>1, <2>2, <2>3
<1>9. UNCHANGED transfers /\ UNCHANGED done
  BY <1>1
<1> QED BY <1>4, <1>7, <1>8, <1>9 DEF TableInv, g

LEMMA EndStep ==
  ASSUME TableInv, TransferEnds
  PROVE  TableInv' /\ RowFinishes
<1> DEFINE f == files_to_transfer
           g == files_to_transfer'
<1>1. PICK t \in BagToSet(transfers), ended \in {"worked", "refused", "broke"} :
        /\ transfers' = transfers (-) SetToBag({t})
        /\ done' = IF ended = "worked" THEN done \cup {t.file} ELSE done
        /\ \/ g = f
           \/ /\ t.row \in DOMAIN f
              /\ g = [f EXCEPT ![t.row].status =
                        IF Succeeds(KindOf[t.file], ended) THEN "finished" ELSE "failed"]
  BY DEF TransferEnds
<1> DEFINE status == IF Succeeds(KindOf[t.file], ended) THEN "finished" ELSE "failed"
<1>2. t \in Transfers
  BY DEF TableInv
<1>3. /\ f \in Seq(Rows) /\ Len(f) \in Nat /\ DOMAIN f = 1..Len(f)
      /\ \A i \in DOMAIN f : f[i] \in Rows
  BY DEF TableInv
<1> HIDE DEF f, g
<1>4. \A row \in Rows : /\ [row EXCEPT !.status = status] \in Rows
                        /\ [row EXCEPT !.status = status].status = status
                        /\ [row EXCEPT !.status = status].file = row.file
  BY DEF Rows
<1>5. /\ DOMAIN g = DOMAIN f /\ g \in Seq(Rows)
      /\ \A i \in DOMAIN f : g[i] \in Rows /\ g[i].file = f[i].file
      /\ \A i \in DOMAIN f \ {t.row} : g[i] = f[i]
      /\ t.row \in DOMAIN f => g[t.row] = f[t.row] \/ g[t.row].status = status
  <2>1. CASE g = f
    BY <1>3, <2>1
  <2>2. CASE t.row \in DOMAIN f /\ g = [f EXCEPT ![t.row].status = status]
    <3> DEFINE row == [f[t.row] EXCEPT !.status = status]
    <3>1. row \in Rows /\ row.status = status /\ row.file = f[t.row].file
      BY <1>3, <1>4, <2>2
    <3>2. g = [f EXCEPT ![t.row] = row]
      BY <2>2
    <3> HIDE DEF row, status
    <3> QED BY <1>3, <2>2, <3>1, <3>2
  <2> QED BY <1>1, <2>1, <2>2
<1>6. OneRow'
  BY <1>5 DEF OneRow, TableInv, f, g
<1>7. BagToSet(transfers') \subseteq Transfers
  BY <1>1 DEF TableInv, BagToSet, (-), SetToBag
<1>8. done' \subseteq Files
  BY <1>1, <1>2 DEF TableInv, Transfers
<1>9. RowFinishes
  <2> SUFFICES ASSUME NEW i \in DOMAIN f, Finishes(i) PROVE Earned(i)
    BY DEF RowFinishes, f
  <2>1. /\ f[i].status # "finished" /\ g[i].status = "finished"
    BY Finished DEF f, g
  <2>2. i = t.row /\ status = "finished"
    BY <1>5, <2>1
  <2>3. Succeeds(KindOf[t.file], ended)
    BY <2>2
  <2>4. CASE t.file # f[i].file
    BY <2>2, <2>4 DEF Earned, f
  <2>5. CASE t.file = f[i].file /\ ended = "worked"
    BY <1>1, <2>5 DEF Earned, f
  <2>6. CASE t.file = f[i].file /\ KindOf[t.file] = "remove_local"
    BY <1>2, <2>6 DEF Earned, f, FilesTo, Transfers
  <2> QED BY <2>3, <2>4, <2>5, <2>6 DEF Succeeds
<1> QED BY <1>5, <1>6, <1>7, <1>8, <1>9 DEF TableInv, g

LEMMA TableStep ==
  ASSUME TableInv, [Next]_vars
  PROVE  TableInv' /\ RowFinishes
<1>1. ASSUME UNCHANGED table PROVE TableInv' /\ RowFinishes
  <2>1. TableInv'
    BY <1>1 DEF TableInv, OneRow, table
  <2> QED BY <1>1, <2>1, NoneFinishes DEF table
<1>2. CASE Close
  <2>1. files_to_transfer' = <<>> /\ transfers' = EmptyBag /\ done' = {}
    BY <1>2 DEF Close
  <2>2. DOMAIN EmptyBag = {} /\ DOMAIN <<>> = {} /\ <<>> \in Seq(Rows)
    BY NoListing
  <2>3. TableInv'
    BY <2>1, <2>2 DEF TableInv, OneRow, BagToSet
  <2> QED BY <2>1, <2>2, <2>3, NoneFinishes
<1>3. CASE DropFile \/ MoveSelected \/ RemoveSelected \/ PickLocalFile \/ PickRemoteFile
  <2>1. \E file \in Files, instant \in BOOLEAN : AddRow(file, instant)
    BY <1>3 DEF DropFile, MoveSelected, RemoveSelected, PickLocalFile, PickRemoteFile, FilesTo
  <2> QED BY <2>1, AddStep
<1>4. CASE Start
  BY <1>4, StartStep
<1>5. CASE Clear
  BY <1>5, ClearStep
<1>6. CASE TransferEnds
  BY <1>6, EndStep
<1>7. CASE \/ Open \/ ListingArrives \/ Browse \/ CreateFolder \/ NameIsGiven
           \/ NamingIsLeft \/ FolderIsCreated \/ UNCHANGED vars
  <2>1. UNCHANGED table
    BY <1>7 DEF Open, ListingArrives, Browse, CreateFolder, NameIsGiven, NamingIsLeft,
                FolderIsCreated, vars
  <2> QED BY <1>1, <2>1
<1> QED BY <1>2, <1>3, <1>4, <1>5, <1>6, <1>7 DEF Next

LEMMA TableInductive == Spec => []TableInv
<1>1. Init => TableInv
  <2> SUFFICES ASSUME Init PROVE TableInv
    OBVIOUS
  <2>1. DOMAIN EmptyBag = {} /\ DOMAIN <<>> = {} /\ <<>> \in Seq(Rows)
    BY NoListing
  <2> QED BY <2>1 DEF Init, TableInv, OneRow, BagToSet
<1>2. TableInv /\ [Next]_vars => TableInv'
  BY TableStep
<1> QED BY <1>1, <1>2, PTL DEF Spec

\* The types are as declared; refresh_queries is not below 0, whatever windows and
\* listings come and go.
THEOREM FilesTypeCorrect == ASSUME BeginsSomewhere PROVE Spec => []TypeOK
<1>1. ListingInv /\ TableInv => TypeOK
  BY DEF ListingInv, TableInv, TypeOK, AtMost, BagToSet
<1> QED BY <1>1, ListingInductive, TableInductive, PTL

\* Rows that are cleared, started again or moved, and transfers that end late: a row
\* becomes finished only for what its own file has seen done, or by the end of one
\* that had its number before.
THEOREM FinishedEarned == Spec => FinishedIsEarned
<1>1. TableInv /\ [Next]_vars => [RowFinishes]_vars
  BY TableStep
<1>2. Spec => [][RowFinishes]_vars
  BY <1>1, TableInductive, PTL DEF Spec
<1> QED BY <1>2 DEF RowFinishes, FinishedIsEarned
=============================================================================
