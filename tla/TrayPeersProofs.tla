-------------------------- MODULE TrayPeersProofs --------------------------
(***************************************************************************)
(* The menus of the tray show the peers of the three tables, fingerprints  *)
(* are not forgotten by accident and "updating" is not left behind, for    *)
(* any peers with fingerprints of their own (OwnFingers) and any number of *)
(* them.                                                                   *)
(*                                                                         *)
(* PeersAreShown says of the buttons and menus what they are.  Step by     *)
(* step it is shown in two halves.  A tray is Neat when every button is    *)
(* one somebody tells of and in the menu it belongs to: all the helpers    *)
(* see to that, whatever the tables are.  A tray Follows a table of local  *)
(* peers, of the Bazaar and of the LAN when the buttons at each key say    *)
(* what those tables say; a handler that tells of a peer, or deletes one,  *)
(* moves the tray from one set of tables to the next (GotEffect, HubTurn,  *)
(* LanTurn, HubGoneTurn, GoneEffect).                                      *)
(*                                                                         *)
(* The handlers that loop over several peers are folds over finite sets.   *)
(* FoldExists makes the fold a function of the set, by the number of its   *)
(* elements; SubsetInduction carries what one turn of the loop does over   *)
(* to the whole of it.                                                     *)
(***************************************************************************)
EXTENDS TrayPeers, Integers, FiniteSetTheorems, WellFoundedInduction, TLAPS

----------------------------------------------------------------------------
\* Folds over finite sets, with functions for what a turn of the loop does.

\* A set of numbers has a least one.
LEMMA LeastNumber ==
  ASSUME NEW W \in SUBSET Nat, W # {}
  PROVE  \E m \in W : \A k \in W : ~ (k < m)
<1>1. \E m \in W : \A k \in W : ~ (<<k, m>> \in OpToRel(<, Nat))
  BY NatLessThanWellFounded, WFMin
<1> QED BY <1>1 DEF OpToRel

\* The loop over s by function g, begun with base, is a function of s.
IsFold(it, g, base, s) ==
  it[s] = IF s = {} THEN base
          ELSE LET x == CHOOSE y \in s : TRUE IN g[<<x, it[s \ {x}]>>]

UpTo(S, n) == {s \in SUBSET S : Cardinality(s) <= n}

FoldsUpTo(S, T, g, base, n) ==
  \E it \in [UpTo(S, n) -> T] : \A s \in UpTo(S, n) : IsFold(it, g, base, s)

LEMMA SmallerSet ==
  ASSUME NEW S, IsFiniteSet(S), NEW n \in Nat, NEW s \in UpTo(S, n), s # {},
         NEW x, x = CHOOSE y \in s : TRUE
  PROVE  x \in S /\ x \in s /\ n >= 1 /\ s \ {x} \in UpTo(S, n - 1)
<1>1. x \in s /\ s \subseteq S
  BY DEF UpTo
<1>2. IsFiniteSet(s) /\ Cardinality(s) \in Nat /\ Cardinality(s) <= n
  BY <1>1, FS_Subset, FS_CardinalityType DEF UpTo
<1>3. Cardinality(s \ {x}) = Cardinality(s) - 1 /\ Cardinality(s) # 0
  BY <1>1, <1>2, FS_RemoveElement, FS_EmptySet
<1>4. Cardinality(s \ {x}) <= n - 1 /\ n >= 1
  BY <1>2, <1>3
<1> QED BY <1>1, <1>4 DEF UpTo

LEMMA NextFold ==
  ASSUME NEW S, IsFiniteSet(S), NEW T, NEW g \in [S \X T -> T], NEW base \in T,
         NEW n \in Nat, n >= 1, FoldsUpTo(S, T, g, base, n - 1)
  PROVE  FoldsUpTo(S, T, g, base, n)
<1>1. PICK it \in [UpTo(S, n - 1) -> T] : \A s \in UpTo(S, n - 1) : IsFold(it, g, base, s)
  BY DEF FoldsUpTo
<1> DEFINE next == [s \in UpTo(S, n) |->
                      IF s = {} THEN base
                      ELSE LET x == CHOOSE y \in s : TRUE IN g[<<x, it[s \ {x}]>>]]
<1>2. \A s \in UpTo(S, n - 1) : next[s] = it[s]
  <2> SUFFICES ASSUME NEW s \in UpTo(S, n - 1) PROVE next[s] = it[s]
    OBVIOUS
  <2>1. s \in UpTo(S, n)
    <3>1. s \in SUBSET S /\ Cardinality(s) <= n - 1
      BY DEF UpTo
    <3>2. Cardinality(s) \in Nat
      BY <3>1, FS_Subset, FS_CardinalityType
    <3> QED BY <3>1, <3>2 DEF UpTo
  <2> QED BY <2>1, <1>1 DEF IsFold
<1>3. \A s \in UpTo(S, n) : s # {} =>
        LET x == CHOOSE y \in s : TRUE IN x \in S /\ s \ {x} \in UpTo(S, n - 1)
  BY SmallerSet
<1>4. next \in [UpTo(S, n) -> T]
  <2> SUFFICES ASSUME NEW s \in UpTo(S, n), s # {}
               PROVE  LET x == CHOOSE y \in s : TRUE IN g[<<x, it[s \ {x}]>>] \in T
    OBVIOUS
  <2> DEFINE x == CHOOSE y \in s : TRUE
  <2>1. x \in S /\ s \ {x} \in UpTo(S, n - 1)
    BY <1>3
  <2> HIDE DEF x
  <2>2. <<x, it[s \ {x}]>> \in S \X T
    BY <1>1, <2>1
  <2>3. g[<<x, it[s \ {x}]>>] \in T
    BY <2>2
  <2> QED BY <2>3 DEF x
<1>5. ASSUME NEW s \in UpTo(S, n) PROVE IsFold(next, g, base, s)
  <2>1. CASE s = {}
    BY <2>1 DEF IsFold
  <2>2. CASE s # {}
    <3> DEFINE x == CHOOSE y \in s : TRUE
    <3>1. s \ {x} \in UpTo(S, n - 1)
      BY <1>3, <2>2
    <3>2. next[s \ {x}] = it[s \ {x}]
      BY <3>1, <1>2
    <3>3. next[s] = g[<<x, it[s \ {x}]>>]
      BY <2>2
    <3> HIDE DEF next
    <3> QED BY <2>2, <3>2, <3>3 DEF IsFold
  <2> QED BY <2>1, <2>2
<1> HIDE DEF next
<1> QED BY <1>4, <1>5 DEF FoldsUpTo

LEMMA FoldExists ==
  ASSUME NEW S, IsFiniteSet(S), NEW T, NEW g \in [S \X T -> T], NEW base \in T
  PROVE  \E it \in [SUBSET S -> T] : \A s \in SUBSET S : IsFold(it, g, base, s)
<1> DEFINE W == {n \in Nat : ~ FoldsUpTo(S, T, g, base, n)}
<1>1. FoldsUpTo(S, T, g, base, 0)
  <2>1. UpTo(S, 0) = {{}}
    <3>1. ASSUME NEW s \in UpTo(S, 0) PROVE s = {}
      <4>1. IsFiniteSet(s) /\ Cardinality(s) \in Nat /\ Cardinality(s) <= 0
        BY FS_Subset, FS_CardinalityType DEF UpTo
      <4> QED BY <4>1, FS_EmptySet
    <3>2. {} \in UpTo(S, 0)
      BY FS_EmptySet DEF UpTo
    <3> QED BY <3>1, <3>2
  <2> DEFINE it == [s \in {{}} |-> base]
  <2>2. it \in [{{}} -> T] /\ it[{}] = base
    OBVIOUS
  <2> HIDE DEF it
  <2>3. \A s \in {{}} : IsFold(it, g, base, s)
    BY <2>2 DEF IsFold
  <2> QED BY <2>1, <2>2, <2>3 DEF FoldsUpTo
<1>2. W = {}
  <2> SUFFICES ASSUME W # {} PROVE FALSE
    OBVIOUS
  <2>1. PICK m \in W : \A k \in W : ~ (k < m)
    <3>1. W \in SUBSET Nat
      OBVIOUS
    <3> HIDE DEF W
    <3> QED BY <3>1, LeastNumber
  <2>2. m \in Nat /\ m # 0 /\ ~ FoldsUpTo(S, T, g, base, m)
    BY <1>1, <2>1
  <2>3. m - 1 \in Nat /\ m - 1 < m /\ m >= 1
    BY <2>2
  <2>4. FoldsUpTo(S, T, g, base, m - 1)
    BY <2>1, <2>3
  <2> QED BY <2>2, <2>3, <2>4, NextFold
<1>3. FoldsUpTo(S, T, g, base, Cardinality(S))
  BY <1>2, FS_CardinalityType
<1>4. UpTo(S, Cardinality(S)) = SUBSET S
  BY FS_Subset DEF UpTo
<1> QED BY <1>3, <1>4 DEF FoldsUpTo

\* Induction over the subsets of a finite set, each made of the one without the
\* element that CHOOSE takes from it; the claim is the set P of those it holds for.
LEMMA SubsetInduction ==
  ASSUME NEW S, IsFiniteSet(S), NEW P, {} \in P,
         \A s \in SUBSET S, x \in S :
           s # {} /\ x = (CHOOSE y \in s : TRUE) /\ s \ {x} \in P => s \in P
  PROVE  S \in P
<1> DEFINE W == {n \in Nat : \E s \in SUBSET S : s \notin P /\ Cardinality(s) = n}
<1>1. W = {}
  <2> SUFFICES ASSUME W # {} PROVE FALSE
    OBVIOUS
  <2>1. PICK m \in W : \A k \in W : ~ (k < m)
    <3>1. W \in SUBSET Nat
      OBVIOUS
    <3> HIDE DEF W
    <3> QED BY <3>1, LeastNumber
  <2>2. PICK s \in SUBSET S : s \notin P /\ Cardinality(s) = m
    BY <2>1
  <2>3. s # {} /\ IsFiniteSet(s)
    BY <2>2, FS_Subset
  <2>4. PICK x \in s : x = CHOOSE y \in s : TRUE
    BY <2>3
  <2>5. Cardinality(s \ {x}) = m - 1 /\ m \in Nat
    BY <2>2, <2>3, <2>4, FS_RemoveElement
  <2>6. Cardinality(s \ {x}) \in Nat
    BY <2>3, FS_RemoveElement, FS_CardinalityType
  <2>7. s \ {x} \notin P /\ s \ {x} \in SUBSET S
    BY <2>2, <2>3, <2>4
  <2>8. m - 1 \in W /\ m - 1 < m
    BY <2>5, <2>6, <2>7
  <2> HIDE DEF W
  <2> QED BY <2>1, <2>8
<1> QED BY <1>1, FS_CardinalityType

----------------------------------------------------------------------------
\* The tray.

ButtonTables == UNION {[D -> Buttons] : D \in SUBSET ButtonKeys}

Trays ==
  [buttons : ButtonTables, hub_menu : SUBSET (ButtonKeys \cup {Empty}),
   lan_menu : SUBSET (ButtonKeys \cup {Empty}), peer_finger : [Names -> Fingers \cup {None}]]

\* A button of the menu "My Peers".
Mine(b) == b.local # None \/ b.hub

\* Every button is one somebody tells of, and in the menu it belongs to.
Neat(t) ==
  /\ \A k \in DOMAIN t.buttons : Mine(t.buttons[k]) \/ t.buttons[k].lan
  /\ \A k \in ButtonKeys : k \in t.hub_menu <=> Mine(ButtonAt(t, k))
  /\ \A k \in ButtonKeys : k \in t.lan_menu <=> ~ Mine(ButtonAt(t, k)) /\ ButtonAt(t, k).lan
  /\ Empty \in t.hub_menu <=> t.hub_menu \cap ButtonKeys = {}
  /\ Empty \in t.lan_menu <=> t.lan_menu \cap ButtonKeys = {}

LEMMA TableType ==
  ASSUME NEW b \in ButtonTables
  PROVE  DOMAIN b \subseteq ButtonKeys /\ b \in [DOMAIN b -> Buttons]
BY DEF ButtonTables

LEMMA TableMade ==
  ASSUME NEW D \in SUBSET ButtonKeys, NEW b \in [D -> Buttons]
  PROVE  b \in ButtonTables
BY DEF ButtonTables

LEMMA ButtonType ==
  ASSUME NEW t \in Trays, NEW k
  PROVE  ButtonAt(t, k) \in Buttons
<1>1. t.buttons \in ButtonTables
  BY DEF Trays
<1>2. NewButton \in Buttons
  BY DEF NewButton, Buttons, Marks
<1> QED BY <1>1, <1>2, TableType DEF ButtonAt

\* removeAction and addAction.
LEMMA WithoutMenu ==
  ASSUME OwnFingers, NEW menu \in SUBSET (ButtonKeys \cup {Empty}), NEW key \in ButtonKeys,
         Empty \in menu <=> menu \cap ButtonKeys = {}
  PROVE  /\ Without(menu, key) \in SUBSET (ButtonKeys \cup {Empty})
         /\ \A k \in ButtonKeys : k \in Without(menu, key) <=> k \in menu /\ k # key
         /\ Empty \in Without(menu, key) <=> Without(menu, key) \cap ButtonKeys = {}
<1>1. Empty \notin ButtonKeys
  BY DEF OwnFingers
<1> QED BY <1>1 DEF Without

LEMMA WithMenu ==
  ASSUME OwnFingers, NEW menu \in SUBSET (ButtonKeys \cup {Empty}), NEW key \in ButtonKeys
  PROVE  /\ With(menu, key) \in SUBSET (ButtonKeys \cup {Empty})
         /\ \A k \in ButtonKeys : k \in With(menu, key) <=> k \in menu \/ k = key
         /\ Empty \in With(menu, key) <=> With(menu, key) \cap ButtonKeys = {}
<1>1. Empty \notin ButtonKeys
  BY DEF OwnFingers
<1> QED BY <1>1 DEF With

\* The tray with button b at a key, before the icon is brought up to date.
Put(t, key, b) ==
  [t EXCEPT !.buttons = [k \in DOMAIN @ \cup {key} |-> IF k = key THEN b ELSE @[k]]]

\* What is shown under a key.
SameButton(b, c) == b.local = c.local /\ (b.hub <=> c.hub) /\ (b.lan <=> c.lan)

\* v is t with a button like b at the key, in the menu it belongs to.
Gets(t, key, b, v) ==
  /\ v \in Trays /\ Neat(v) /\ v.peer_finger = t.peer_finger
  /\ \A k \in ButtonKeys \ {key} : ButtonAt(v, k) = ButtonAt(t, k)
  /\ SameButton(ButtonAt(v, key), b)

LEMMA PutType ==
  ASSUME NEW t \in Trays, NEW key \in ButtonKeys, NEW b \in Buttons
  PROVE  /\ Put(t, key, b) \in Trays
         /\ Put(t, key, b).buttons \in [DOMAIN t.buttons \cup {key} -> Buttons]
         /\ Put(t, key, b).buttons[key] = b
         /\ \A k \in DOMAIN t.buttons \ {key} : Put(t, key, b).buttons[k] = t.buttons[k]
         /\ Put(t, key, b).hub_menu = t.hub_menu /\ Put(t, key, b).lan_menu = t.lan_menu
         /\ Put(t, key, b).peer_finger = t.peer_finger
<1> DEFINE table == [k \in DOMAIN t.buttons \cup {key} |-> IF k = key THEN b ELSE t.buttons[k]]
<1>1. DOMAIN t.buttons \subseteq ButtonKeys /\ t.buttons \in [DOMAIN t.buttons -> Buttons]
  BY TableType DEF Trays
<1>2. table \in [DOMAIN t.buttons \cup {key} -> Buttons]
  BY <1>1
<1>3. table \in ButtonTables
  BY <1>1, <1>2, TableMade
<1>4. table[key] = b /\ \A k \in DOMAIN t.buttons \ {key} : table[k] = t.buttons[k]
  OBVIOUS
<1>5. Put(t, key, b) = [t EXCEPT !.buttons = table]
  BY DEF Put
<1> HIDE DEF table
<1> QED BY <1>2, <1>3, <1>4, <1>5 DEF Trays

\* update_peer_icon, after a button was told something.
LEMMA IconEffect ==
  ASSUME OwnFingers, NEW t \in Trays, Neat(t), NEW key \in ButtonKeys, NEW b \in Buttons,
         Mine(b) \/ b.lan \/ key \notin t.lan_menu
  PROVE  Gets(t, key, b, UpdatePeerIcon(Put(t, key, b), key))
<1> DEFINE u == Put(t, key, b)
           v == UpdatePeerIcon(u, key)
<1>0. /\ DOMAIN t.buttons \subseteq ButtonKeys /\ t.buttons \in [DOMAIN t.buttons -> Buttons]
      /\ t.hub_menu \in SUBSET (ButtonKeys \cup {Empty})
      /\ t.lan_menu \in SUBSET (ButtonKeys \cup {Empty})
  BY TableType DEF Trays
<1>1. /\ u \in Trays /\ u.buttons \in [DOMAIN t.buttons \cup {key} -> Buttons]
      /\ u.buttons[key] = b /\ \A k \in DOMAIN t.buttons \ {key} : u.buttons[k] = t.buttons[k]
      /\ u.hub_menu = t.hub_menu /\ u.lan_menu = t.lan_menu
      /\ u.peer_finger = t.peer_finger
  BY PutType
<1> HIDE DEF u
<1>2. /\ ButtonAt(u, key) = b
      /\ \A k \in ButtonKeys \ {key} : ButtonAt(u, k) = ButtonAt(t, k)
  BY <1>0, <1>1 DEF ButtonAt
<1>3. CASE Mine(b)
  <2> DEFINE h == With(t.hub_menu, key)
             l == Without(t.lan_menu, key)
  <2>1. v = [u EXCEPT !.lan_menu = l, !.hub_menu = h]
    BY <1>1, <1>3 DEF UpdatePeerIcon, Mine
  <2>2. /\ h \in SUBSET (ButtonKeys \cup {Empty}) /\ l \in SUBSET (ButtonKeys \cup {Empty})
        /\ \A k \in ButtonKeys : k \in h <=> k \in t.hub_menu \/ k = key
        /\ \A k \in ButtonKeys : k \in l <=> k \in t.lan_menu /\ k # key
        /\ Empty \in h <=> h \cap ButtonKeys = {}
        /\ Empty \in l <=> l \cap ButtonKeys = {}
    BY <1>0, WithMenu, WithoutMenu DEF Neat
  <2> HIDE DEF h, l
  <2>3. /\ v \in Trays /\ v.hub_menu = h /\ v.lan_menu = l /\ v.buttons = u.buttons
        /\ v.peer_finger = t.peer_finger
    BY <1>1, <2>1, <2>2 DEF Trays
  <2> HIDE DEF v
  <2>4. \A k \in ButtonKeys : ButtonAt(v, k) = ButtonAt(u, k)
    BY <2>3 DEF ButtonAt
  <2>5. \A k \in ButtonKeys : (k \in h <=> Mine(ButtonAt(v, k)))
                              /\ (k \in l <=> ~ Mine(ButtonAt(v, k)) /\ ButtonAt(v, k).lan)
    BY <1>2, <1>3, <2>2, <2>4 DEF Neat
  <2>6. \A k \in DOMAIN v.buttons : Mine(v.buttons[k]) \/ v.buttons[k].lan
    BY <1>1, <1>3, <2>3 DEF Neat
  <2>7. Neat(v)
    BY <2>2, <2>3, <2>5, <2>6 DEF Neat
  <2>8. Gets(t, key, b, v)
    BY <1>2, <2>3, <2>4, <2>7 DEF Gets, SameButton
  <2> QED BY <2>8 DEF u, v
<1>4. CASE ~ Mine(b) /\ b.lan
  <2> DEFINE h == Without(t.hub_menu, key)
             l == With(t.lan_menu, key)
  <2>1. v = [u EXCEPT !.hub_menu = h, !.lan_menu = l]
    BY <1>1, <1>4 DEF UpdatePeerIcon, Mine
  <2>2. /\ h \in SUBSET (ButtonKeys \cup {Empty}) /\ l \in SUBSET (ButtonKeys \cup {Empty})
        /\ \A k \in ButtonKeys : k \in h <=> k \in t.hub_menu /\ k # key
        /\ \A k \in ButtonKeys : k \in l <=> k \in t.lan_menu \/ k = key
        /\ Empty \in h <=> h \cap ButtonKeys = {}
        /\ Empty \in l <=> l \cap ButtonKeys = {}
    BY <1>0, WithMenu, WithoutMenu DEF Neat
  <2> HIDE DEF h, l
  <2>3. /\ v \in Trays /\ v.hub_menu = h /\ v.lan_menu = l /\ v.buttons = u.buttons
        /\ v.peer_finger = t.peer_finger
    BY <1>1, <2>1, <2>2 DEF Trays
  <2> HIDE DEF v
  <2>4. \A k \in ButtonKeys : ButtonAt(v, k) = ButtonAt(u, k)
    BY <2>3 DEF ButtonAt
  <2>5. \A k \in ButtonKeys : (k \in h <=> Mine(ButtonAt(v, k)))
                              /\ (k \in l <=> ~ Mine(ButtonAt(v, k)) /\ ButtonAt(v, k).lan)
    BY <1>2, <1>4, <2>2, <2>4 DEF Neat
  <2>6. \A k \in DOMAIN v.buttons : Mine(v.buttons[k]) \/ v.buttons[k].lan
    BY <1>1, <1>4, <2>3 DEF Neat
  <2>7. Neat(v)
    BY <2>2, <2>3, <2>5, <2>6 DEF Neat
  <2>8. Gets(t, key, b, v)
    BY <1>2, <2>3, <2>4, <2>7 DEF Gets, SameButton
  <2> QED BY <2>8 DEF u, v
<1>5. CASE ~ Mine(b) /\ ~ b.lan
  <2> DEFINE h == Without(t.hub_menu, key)
             left == Restrict(u.buttons, DOMAIN u.buttons \ {key})
  <2>1. v = [u EXCEPT !.hub_menu = h, !.buttons = left]
    BY <1>1, <1>5 DEF UpdatePeerIcon, Mine
  <2>2. /\ h \in SUBSET (ButtonKeys \cup {Empty})
        /\ \A k \in ButtonKeys : k \in h <=> k \in t.hub_menu /\ k # key
        /\ Empty \in h <=> h \cap ButtonKeys = {}
    BY <1>0, WithoutMenu DEF Neat
  <2>3. /\ left \in [DOMAIN t.buttons \ {key} -> Buttons]
        /\ \A k \in DOMAIN left : left[k] = t.buttons[k]
    BY <1>1 DEF Restrict
  <2>4. left \in ButtonTables
    <3>1. DOMAIN t.buttons \ {key} \in SUBSET ButtonKeys
      BY <1>0
    <3> HIDE DEF left
    <3> QED BY <2>3, <3>1, TableMade
  <2> HIDE DEF h, left
  <2>5. /\ v \in Trays /\ v.hub_menu = h /\ v.lan_menu = t.lan_menu /\ v.buttons = left
        /\ v.peer_finger = t.peer_finger
    BY <1>1, <2>1, <2>2, <2>4 DEF Trays
  <2> HIDE DEF v
  <2>6. /\ ButtonAt(v, key) = NewButton
        /\ \A k \in ButtonKeys \ {key} : ButtonAt(v, k) = ButtonAt(t, k)
    BY <2>3, <2>5 DEF ButtonAt
  <2>7. SameButton(ButtonAt(v, key), b) /\ ~ Mine(ButtonAt(v, key)) /\ ~ ButtonAt(v, key).lan
    BY <1>5, <2>6 DEF SameButton, NewButton, Mine
  <2>8. key \notin t.lan_menu
    BY <1>5
  <2>9. \A k \in ButtonKeys : (k \in h <=> Mine(ButtonAt(v, k)))
                              /\ (k \in t.lan_menu <=> ~ Mine(ButtonAt(v, k)) /\ ButtonAt(v, k).lan)
    BY <2>2, <2>6, <2>7, <2>8 DEF Neat
  <2>10. \A k \in DOMAIN v.buttons : Mine(v.buttons[k]) \/ v.buttons[k].lan
    BY <1>0, <2>3, <2>5 DEF Neat
  <2>11. Neat(v)
    BY <2>2, <2>5, <2>9, <2>10 DEF Neat
  <2>12. Gets(t, key, b, v)
    BY <2>5, <2>6, <2>7, <2>11 DEF Gets
  <2> QED BY <2>12 DEF u, v
<1> QED BY <1>3, <1>4, <1>5

LEMMA UpdateEffect ==
  ASSUME OwnFingers, NEW t \in Trays, Neat(t), NEW key \in ButtonKeys, NEW b \in Buttons,
         Mine(b) \/ b.lan
  PROVE  Gets(t, key, b, UpdatePeerButton(t, key, b))
BY IconEffect DEF UpdatePeerButton, Put

LEMMA LocalEffect ==
  ASSUME OwnFingers, NEW t \in Trays, Neat(t), NEW key \in ButtonKeys, NEW n \in Names,
         NEW mark \in Marks
  PROVE  \E b \in Buttons :
           /\ Gets(t, key, b, UpdateLocal(t, key, n, mark))
           /\ b.local = n /\ (b.hub <=> ButtonAt(t, key).hub) /\ (b.lan <=> ButtonAt(t, key).lan)
<1> DEFINE c == ButtonAt(t, key)
           b == [c EXCEPT !.local = n, !.mark = mark]
<1>1. c \in Buttons
  BY ButtonType
<1> HIDE DEF c
<1>2. b \in Buttons /\ b.local = n /\ b.hub = c.hub /\ b.lan = c.lan
  BY <1>1 DEF Buttons
<1>3. UpdateLocal(t, key, n, mark) = UpdatePeerButton(t, key, b)
  BY DEF UpdateLocal, c
<1> HIDE DEF b
<1>4. Mine(b)
  BY <1>2 DEF Mine, OwnFingers, ButtonKeys
<1>5. Gets(t, key, b, UpdateLocal(t, key, n, mark))
  BY <1>2, <1>3, <1>4, UpdateEffect
<1> QED BY <1>2, <1>5 DEF c

LEMMA HubEffect ==
  ASSUME OwnFingers, NEW t \in Trays, Neat(t), NEW key \in ButtonKeys
  PROVE  \E b \in Buttons :
           /\ Gets(t, key, b, UpdateHub(t, key))
           /\ b.hub /\ b.local = ButtonAt(t, key).local /\ (b.lan <=> ButtonAt(t, key).lan)
<1> DEFINE c == ButtonAt(t, key)
           b == [c EXCEPT !.hub = TRUE]
<1>1. c \in Buttons
  BY ButtonType
<1> HIDE DEF c
<1>2. b \in Buttons /\ b.local = c.local /\ b.hub = TRUE /\ b.lan = c.lan
  BY <1>1 DEF Buttons
<1>3. UpdateHub(t, key) = UpdatePeerButton(t, key, b)
  BY DEF UpdateHub, c
<1> HIDE DEF b
<1>4. Mine(b)
  BY <1>2 DEF Mine
<1>5. Gets(t, key, b, UpdateHub(t, key))
  BY <1>2, <1>3, <1>4, UpdateEffect
<1> QED BY <1>2, <1>5 DEF c

LEMMA LanEffect ==
  ASSUME OwnFingers, NEW t \in Trays, Neat(t), NEW key \in ButtonKeys
  PROVE  \E b \in Buttons :
           /\ Gets(t, key, b, UpdateLan(t, key))
           /\ b.lan /\ b.local = ButtonAt(t, key).local /\ (b.hub <=> ButtonAt(t, key).hub)
<1> DEFINE c == ButtonAt(t, key)
           b == [c EXCEPT !.lan = TRUE]
<1>1. c \in Buttons
  BY ButtonType
<1> HIDE DEF c
<1>2. b \in Buttons /\ b.local = c.local /\ b.lan = TRUE /\ b.hub = c.hub
  BY <1>1 DEF Buttons
<1>3. UpdateLan(t, key) = UpdatePeerButton(t, key, b)
  BY DEF UpdateLan, c
<1> HIDE DEF b
<1>5. Gets(t, key, b, UpdateLan(t, key))
  BY <1>2, <1>3, UpdateEffect
<1> QED BY <1>2, <1>5 DEF c

\* delete_peer_button_info, for one of the two sources that are deleted: what the
\* button becomes.
LEMMA ToldEffect ==
  ASSUME OwnFingers, NEW t \in Trays, Neat(t), NEW key \in DOMAIN t.buttons,
         NEW b \in Buttons, b.lan <=> t.buttons[key].lan
  PROVE  Gets(t, key, b, UpdatePeerIcon([t EXCEPT !.buttons[key] = b], key))
<1>1. key \in ButtonKeys /\ t.buttons \in [DOMAIN t.buttons -> Buttons]
  BY TableType DEF Trays
<1>2. [t EXCEPT !.buttons[key] = b] = Put(t, key, b)
  <2>1. [t.buttons EXCEPT ![key] = b]
          = [k \in DOMAIN t.buttons \cup {key} |-> IF k = key THEN b ELSE t.buttons[k]]
    BY <1>1
  <2> QED BY <2>1 DEF Put
<1>3. Mine(b) \/ b.lan \/ key \notin t.lan_menu
  BY <1>1 DEF Neat, ButtonAt
<1> QED BY <1>1, <1>2, <1>3, IconEffect

LEMMA DeleteLocal ==
  ASSUME OwnFingers, NEW t \in Trays, Neat(t), NEW key \in ButtonKeys \cup {None}, NEW v,
         v = DeletePeerButtonInfo(t, key, "local")
  PROVE  /\ v \in Trays /\ Neat(v)
         /\ \A k \in ButtonKeys : /\ ButtonAt(v, k).hub <=> ButtonAt(t, k).hub
                                  /\ ButtonAt(v, k).lan <=> ButtonAt(t, k).lan
                                  /\ k # key => ButtonAt(v, k).local = ButtonAt(t, k).local
         /\ key \in ButtonKeys => ButtonAt(v, key).local = None
         /\ \A m \in Names :
              \/ v.peer_finger[m] = t.peer_finger[m]
              \/ /\ v.peer_finger[m] = None /\ key \in ButtonKeys /\ ButtonAt(t, key).local = m
                 /\ m # key /\ key \notin hub_peers_table
         /\ \A m \in Names :
              key \in ButtonKeys \ hub_peers_table /\ ButtonAt(t, key).local = m /\ m # key
                => v.peer_finger[m] = None
<1>0. DOMAIN t.buttons \subseteq ButtonKeys /\ t.buttons \in [DOMAIN t.buttons -> Buttons]
      /\ t.peer_finger \in [Names -> Fingers \cup {None}]
  BY TableType DEF Trays
<1>n. None \notin ButtonKeys /\ Names \subseteq ButtonKeys
  BY DEF OwnFingers, ButtonKeys
<1>1. CASE key \notin DOMAIN t.buttons
  <2>1. v = t /\ ButtonAt(t, key) = NewButton
    BY <1>1 DEF DeletePeerButtonInfo, ButtonAt
  <2>2. ButtonAt(t, key).local = None
    BY <2>1 DEF NewButton
  <2> QED BY <2>1, <2>2, <1>n
<1>2. CASE key \in DOMAIN t.buttons
  <2> DEFINE c == t.buttons[key]
             b == [c EXCEPT !.local = None, !.mark = "false"]
             shown == UpdatePeerIcon([t EXCEPT !.buttons[key] = b], key)
             n == c.local
             w == [shown EXCEPT !.peer_finger[n] = None]
  <2>1. c \in Buttons /\ ButtonAt(t, key) = c /\ key \in ButtonKeys
    BY <1>0, <1>2 DEF ButtonAt
  <2>2. v = IF n \in Names \ {key} /\ key \notin hub_peers_table THEN w ELSE shown
    BY <1>2 DEF DeletePeerButtonInfo
  <2> HIDE DEF c
  <2>3. b \in Buttons /\ b.local = None /\ b.hub = c.hub /\ b.lan = c.lan
    BY <2>1 DEF Buttons, Marks
  <2> HIDE DEF b
  <2>4. Gets(t, key, b, shown)
    BY <1>2, <2>3, ToldEffect DEF c
  <2> HIDE DEF shown
  <2>5. /\ shown \in Trays /\ Neat(shown) /\ shown.peer_finger = t.peer_finger
        /\ \A k \in ButtonKeys \ {key} : ButtonAt(shown, k) = ButtonAt(t, k)
        /\ ButtonAt(shown, key).local = None
        /\ ButtonAt(shown, key).hub <=> c.hub
        /\ ButtonAt(shown, key).lan <=> c.lan
    BY <2>3, <2>4 DEF Gets, SameButton
  <2>6. CASE n \in Names \ {key} /\ key \notin hub_peers_table
    <3>1. /\ w \in Trays /\ w.buttons = shown.buttons /\ w.hub_menu = shown.hub_menu
          /\ w.lan_menu = shown.lan_menu
          /\ w.peer_finger = [t.peer_finger EXCEPT ![n] = None]
      BY <2>5, <2>6 DEF Trays
    <3>2. v = w
      BY <2>2, <2>6
    <3> HIDE DEF w
    <3>3. Neat(v) /\ \A k \in ButtonKeys : ButtonAt(v, k) = ButtonAt(shown, k)
      BY <2>5, <3>1, <3>2 DEF Neat, ButtonAt
    <3>4. \A m \in Names : v.peer_finger[m] = IF m = n THEN None ELSE t.peer_finger[m]
      BY <1>0, <3>1, <3>2
    <3> QED BY <2>1, <2>5, <2>6, <3>1, <3>2, <3>3, <3>4
  <2>7. CASE ~ (n \in Names \ {key} /\ key \notin hub_peers_table)
    <3>1. v = shown
      BY <2>2, <2>7
    <3> QED BY <2>1, <2>5, <2>7, <3>1
  <2> QED BY <2>6, <2>7
<1> QED BY <1>1, <1>2

LEMMA DeleteHub ==
  ASSUME OwnFingers, NEW t \in Trays, Neat(t), NEW key \in ButtonKeys, NEW v,
         v = DeletePeerButtonInfo(t, key, "hub")
  PROVE  /\ v \in Trays /\ Neat(v) /\ v.peer_finger = t.peer_finger
         /\ \A k \in ButtonKeys : /\ ButtonAt(v, k).hub <=> ButtonAt(t, k).hub /\ k # key
                                  /\ ButtonAt(v, k).lan <=> ButtonAt(t, k).lan
                                  /\ ButtonAt(v, k).local = ButtonAt(t, k).local
<1>0. DOMAIN t.buttons \subseteq ButtonKeys /\ t.buttons \in [DOMAIN t.buttons -> Buttons]
  BY TableType DEF Trays
<1>1. CASE key \notin DOMAIN t.buttons
  <2>1. v = t /\ ButtonAt(t, key) = NewButton
    BY <1>1 DEF DeletePeerButtonInfo, ButtonAt
  <2>2. ~ ButtonAt(t, key).hub
    BY <2>1 DEF NewButton
  <2> QED BY <2>1, <2>2
<1>2. CASE key \in DOMAIN t.buttons
  <2> DEFINE c == t.buttons[key]
             b == [c EXCEPT !.hub = FALSE]
  <2>1. c \in Buttons /\ ButtonAt(t, key) = c
    BY <1>0, <1>2 DEF ButtonAt
  <2>2. v = UpdatePeerIcon([t EXCEPT !.buttons[key] = b], key)
    BY <1>2 DEF DeletePeerButtonInfo
  <2> HIDE DEF c
  <2>3. b \in Buttons /\ b.local = c.local /\ b.hub = FALSE /\ b.lan = c.lan
    BY <2>1 DEF Buttons
  <2> HIDE DEF b
  <2>4. Gets(t, key, b, v)
    BY <1>2, <2>2, <2>3, ToldEffect DEF c
  <2> QED BY <2>1, <2>3, <2>4 DEF Gets, SameButton
<1> QED BY <1>1, <1>2

----------------------------------------------------------------------------
\* A tray that follows the tables.

KeyIn(t, n) == IF t.peer_finger[n] = None THEN n ELSE t.peer_finger[n]

OwnIn(t) == \A n \in Names : t.peer_finger[n] \in FingersOf[n] \cup {None}

\* There is a button of a local peer exactly under its key, for those in the table.
LocalsIn(t, R) ==
  \A k \in ButtonKeys, n \in Names : ButtonAt(t, k).local = n <=> n \in R /\ k = KeyIn(t, n)

OthersIn(t, H, L) ==
  \A k \in ButtonKeys : (ButtonAt(t, k).hub <=> k \in H) /\ (ButtonAt(t, k).lan <=> k \in L)

Follows(t, R, H, L) ==
  /\ t \in Trays /\ Neat(t) /\ OwnIn(t)
  /\ LocalsIn(t, R) /\ OthersIn(t, H, L)

LEMMA OwnKey ==
  ASSUME OwnFingers, NEW t, OwnIn(t), NEW n \in Names
  PROVE  /\ KeyIn(t, n) \in ButtonKeys
         /\ t.peer_finger[n] # None => t.peer_finger[n] \in Fingers \ Names
         /\ \A m \in Names : KeyIn(t, m) = KeyIn(t, n) => m = n
         /\ \A m \in Names : t.peer_finger[m] = t.peer_finger[n] /\ t.peer_finger[n] # None
                               => m = n
         /\ \A m \in Names : KeyIn(t, m) = n => m = n
<1>1. Names \cap Fingers = {} /\ None \notin ButtonKeys
  BY DEF OwnFingers
<1>2. \A m \in Names : t.peer_finger[m] # None =>
        t.peer_finger[m] \in FingersOf[m] /\ t.peer_finger[m] \in Fingers
  BY DEF OwnFingers, OwnIn
<1>3. \A m \in Names : t.peer_finger[m] = t.peer_finger[n] /\ t.peer_finger[n] # None => m = n
  BY <1>2 DEF OwnFingers
<1> QED BY <1>1, <1>2, <1>3 DEF KeyIn, ButtonKeys

\* Of the answer to a finger, what the first half of got_peer_info_sl leaves: all is
\* as the tables say but for peer n, which may have a button under its name, one
\* under its fingerprint, or none.
AllBut(t, R, H, L, n) ==
  /\ t \in Trays /\ Neat(t) /\ OwnIn(t) /\ OthersIn(t, H, L)
  /\ \A k \in ButtonKeys, m \in Names \ {n} :
       ButtonAt(t, k).local = m <=> m \in R /\ k = KeyIn(t, m)
  /\ \A k \in ButtonKeys \ {n, KeyIn(t, n)} : ButtonAt(t, k).local # n

LEMMA FingeredEffect ==
  ASSUME OwnFingers, NEW t, NEW R, NEW H, NEW L, Follows(t, R, H, L), NEW n \in Names,
         NEW finger \in FingersOf[n] \cup {None}
  PROVE  /\ AllBut(Fingered(t, n, finger), R, H, L, n)
         /\ \A m \in Names : Fingered(t, n, finger).peer_finger[m] = t.peer_finger[m]
                             \/ Fingered(t, n, finger).peer_finger[m] # None
<1>0. t \in Trays /\ Neat(t) /\ OwnIn(t) /\ LocalsIn(t, R) /\ OthersIn(t, H, L)
  BY DEF Follows
<1>1. CASE finger \in {None, t.peer_finger[n]}
  <2>1. Fingered(t, n, finger) = t
    BY <1>1 DEF Fingered
  <2> QED BY <1>0, <2>1 DEF AllBut, LocalsIn
<1>2. CASE finger \notin {None, t.peer_finger[n]}
  <2> DEFINE old == t.peer_finger[n]
             u == DeletePeerButtonInfo(t, old, "local")
             v == [u EXCEPT !.peer_finger[n] = finger]
  <2>1. Fingered(t, n, finger) = v
    BY <1>2 DEF Fingered
  <2>2. old \in ButtonKeys \cup {None} /\ (old # None => old \in Fingers \ Names)
        /\ finger \in Fingers /\ finger # None
    BY <1>0, <1>2, OwnKey DEF ButtonKeys, OwnFingers
  <2>3. /\ u \in Trays /\ Neat(u)
        /\ \A k \in ButtonKeys : /\ ButtonAt(u, k).hub <=> ButtonAt(t, k).hub
                                 /\ ButtonAt(u, k).lan <=> ButtonAt(t, k).lan
                                 /\ k # old => ButtonAt(u, k).local = ButtonAt(t, k).local
        /\ old \in ButtonKeys => ButtonAt(u, old).local = None
        /\ \A m \in Names : u.peer_finger[m] = t.peer_finger[m]
                            \/ (old \in ButtonKeys /\ ButtonAt(t, old).local = m)
    BY <1>0, <2>2, DeleteLocal
  <2> HIDE DEF u
  <2>4. /\ v \in Trays /\ v.buttons = u.buttons /\ v.hub_menu = u.hub_menu
        /\ v.lan_menu = u.lan_menu
        /\ v.peer_finger = [u.peer_finger EXCEPT ![n] = finger]
    BY <2>2, <2>3 DEF Trays
  <2> HIDE DEF v
  <2>5. u.peer_finger \in [Names -> Fingers \cup {None}]
    BY <2>3 DEF Trays
  <2>6. \A m \in Names \ {n} : ~ (old \in ButtonKeys /\ ButtonAt(t, old).local = m)
    <3> SUFFICES ASSUME NEW m \in Names \ {n}, old \in ButtonKeys, ButtonAt(t, old).local = m
                 PROVE  FALSE
      OBVIOUS
    <3>1. old = KeyIn(t, m) /\ old # None
      BY <1>0 DEF LocalsIn, OwnFingers
    <3>2. KeyIn(t, n) = old
      BY <3>1 DEF KeyIn
    <3> QED BY <1>0, <3>1, <3>2, OwnKey
  <2>7. v.peer_finger[n] = finger /\ \A m \in Names \ {n} : v.peer_finger[m] = t.peer_finger[m]
    BY <2>3, <2>4, <2>5, <2>6
  <2>8. Neat(v) /\ \A k \in ButtonKeys : ButtonAt(v, k) = ButtonAt(u, k)
    BY <2>3, <2>4 DEF Neat, ButtonAt
  <2>9. OwnIn(v) /\ OthersIn(v, H, L)
    BY <1>0, <1>2, <2>3, <2>7, <2>8 DEF OwnIn, OthersIn
  <2>10. ASSUME NEW k \in ButtonKeys, NEW m \in Names \ {n}
         PROVE  ButtonAt(v, k).local = m <=> m \in R /\ k = KeyIn(v, m)
    <3>1. KeyIn(v, m) = KeyIn(t, m)
      BY <2>7 DEF KeyIn
    <3>2. ButtonAt(t, k).local = m <=> m \in R /\ k = KeyIn(t, m)
      BY <1>0 DEF LocalsIn
    <3>3. CASE k # old
      BY <2>3, <2>8, <3>1, <3>2, <3>3
    <3>4. CASE k = old
      <4>1. ButtonAt(v, k).local = None /\ m # None
        BY <2>3, <2>8, <3>4 DEF OwnFingers, ButtonKeys
      <4> QED BY <2>6, <3>1, <3>2, <3>4, <4>1
    <3> QED BY <3>3, <3>4
  <2>11. ASSUME NEW k \in ButtonKeys \ {n, KeyIn(v, n)}
         PROVE  ButtonAt(v, k).local # n
    <3>1. CASE k # old
      <4>1. k # KeyIn(t, n)
        BY <3>1 DEF KeyIn
      <4> QED BY <1>0, <2>3, <2>8, <3>1, <4>1 DEF LocalsIn
    <3>2. CASE k = old
      BY <2>3, <2>8, <3>2 DEF OwnFingers, ButtonKeys
    <3> QED BY <3>1, <3>2
  <2>12. AllBut(v, R, H, L, n)
    BY <2>4, <2>8, <2>9, <2>10, <2>11 DEF AllBut
  <2> QED BY <2>1, <2>2, <2>7, <2>12
<1> QED BY <1>1, <1>2

\* A button of the peer under its key makes the tray follow.
LEMMA LocalPut ==
  ASSUME OwnFingers, NEW t, NEW R, NEW H, NEW L, NEW n \in Names, NEW mark \in Marks,
         AllBut(t, R, H, L, n),
         \A k \in ButtonKeys \ {KeyIn(t, n)} : ButtonAt(t, k).local # n
  PROVE  /\ Follows(UpdateLocal(t, KeyIn(t, n), n, mark), R \cup {n}, H, L)
         /\ UpdateLocal(t, KeyIn(t, n), n, mark).peer_finger = t.peer_finger
<1> DEFINE key == KeyIn(t, n)
           v == UpdateLocal(t, key, n, mark)
<1>0. t \in Trays /\ Neat(t) /\ OwnIn(t) /\ OthersIn(t, H, L)
  BY DEF AllBut
<1>1. key \in ButtonKeys
  BY <1>0, OwnKey
<1>2. PICK b \in Buttons :
        /\ Gets(t, key, b, v)
        /\ b.local = n /\ (b.hub <=> ButtonAt(t, key).hub) /\ (b.lan <=> ButtonAt(t, key).lan)
  BY <1>0, <1>1, LocalEffect
<1> HIDE DEF v
<1>3. /\ v \in Trays /\ Neat(v) /\ v.peer_finger = t.peer_finger
      /\ \A k \in ButtonKeys \ {key} : ButtonAt(v, k) = ButtonAt(t, k)
      /\ ButtonAt(v, key).local = n
      /\ ButtonAt(v, key).hub <=> ButtonAt(t, key).hub
      /\ ButtonAt(v, key).lan <=> ButtonAt(t, key).lan
  BY <1>2 DEF Gets, SameButton
<1>4. \A m \in Names : KeyIn(v, m) = KeyIn(t, m)
  BY <1>3 DEF KeyIn
<1>5. ASSUME NEW k \in ButtonKeys, NEW m \in Names
      PROVE  ButtonAt(v, k).local = m <=> m \in R \cup {n} /\ k = KeyIn(v, m)
  <2>1. CASE m = n
    BY <1>3, <1>4, <2>1
  <2>2. CASE m # n
    <3>1. ButtonAt(t, k).local = m <=> m \in R /\ k = KeyIn(t, m)
      BY <2>2 DEF AllBut
    <3>2. CASE k = key
      <4>1. KeyIn(t, m) # key
        BY <1>0, <2>2, OwnKey
      <4> QED BY <1>3, <1>4, <2>2, <3>2, <4>1
    <3>3. CASE k # key
      BY <1>3, <1>4, <2>2, <3>1, <3>3
    <3> QED BY <3>2, <3>3
  <2> QED BY <2>1, <2>2
<1>6. LocalsIn(v, R \cup {n})
  BY <1>5 DEF LocalsIn
<1>7. OwnIn(v) /\ OthersIn(v, H, L)
  BY <1>0, <1>3 DEF OwnIn, OthersIn
<1>8. Follows(v, R \cup {n}, H, L)
  BY <1>3, <1>6, <1>7 DEF Follows
<1> QED BY <1>3, <1>8 DEF v

LEMMA ShownEffect ==
  ASSUME OwnFingers, NEW t, NEW R, NEW H, NEW L, NEW n \in Names, NEW mark \in Marks,
         AllBut(t, R, H, L, n)
  PROVE  /\ Follows(Shown(t, n, mark), R \cup {n}, H, L)
         /\ Shown(t, n, mark).peer_finger = t.peer_finger
<1>0. /\ t \in Trays /\ Neat(t) /\ OwnIn(t) /\ OthersIn(t, H, L)
      /\ \A k \in ButtonKeys, m \in Names \ {n} :
           ButtonAt(t, k).local = m <=> m \in R /\ k = KeyIn(t, m)
      /\ \A k \in ButtonKeys \ {n, KeyIn(t, n)} : ButtonAt(t, k).local # n
  BY DEF AllBut
<1>1. CASE t.peer_finger[n] = None
  <2>1. KeyIn(t, n) = n /\ Shown(t, n, mark) = UpdateLocal(t, KeyIn(t, n), n, mark)
    BY <1>1 DEF KeyIn, Shown
  <2> QED BY <1>0, <2>1, LocalPut
<1>2. CASE t.peer_finger[n] # None
  <2> DEFINE u == DeletePeerButtonInfo(t, n, "local")
  <2>1. n \in ButtonKeys /\ None \notin Names
    BY DEF ButtonKeys, OwnFingers
  <2>2. /\ u \in Trays /\ Neat(u)
        /\ \A k \in ButtonKeys : /\ ButtonAt(u, k).hub <=> ButtonAt(t, k).hub
                                 /\ ButtonAt(u, k).lan <=> ButtonAt(t, k).lan
                                 /\ k # n => ButtonAt(u, k).local = ButtonAt(t, k).local
        /\ ButtonAt(u, n).local = None
        /\ \A m \in Names : u.peer_finger[m] = t.peer_finger[m]
                            \/ (ButtonAt(t, n).local = m /\ m # n)
    BY <1>0, <2>1, DeleteLocal
  <2> HIDE DEF u
  <2>3. \A m \in Names \ {n} : ButtonAt(t, n).local # m /\ KeyIn(t, m) # n
    BY <1>0, <2>1, OwnKey
  <2>4. \A m \in Names : u.peer_finger[m] = t.peer_finger[m]
    BY <2>2, <2>3
  <2>5. \A m \in Names : KeyIn(u, m) = KeyIn(t, m)
    BY <2>4 DEF KeyIn
  <2>6. u.peer_finger = t.peer_finger
    <3>1. u.peer_finger \in [Names -> Fingers \cup {None}]
          /\ t.peer_finger \in [Names -> Fingers \cup {None}]
      BY <1>0, <2>2 DEF Trays
    <3> QED BY <2>4, <3>1
  <2>7. OwnIn(u) /\ OthersIn(u, H, L)
    BY <1>0, <2>2, <2>4 DEF OwnIn, OthersIn
  <2>8. ASSUME NEW k \in ButtonKeys, NEW m \in Names \ {n}
        PROVE  ButtonAt(u, k).local = m <=> m \in R /\ k = KeyIn(u, m)
    <3>1. CASE k = n
      BY <2>1, <2>2, <2>3, <2>5, <3>1
    <3>2. CASE k # n
      BY <1>0, <2>2, <2>5, <3>2
    <3> QED BY <3>1, <3>2
  <2>9. \A k \in ButtonKeys \ {KeyIn(u, n)} : ButtonAt(u, k).local # n
    BY <1>0, <2>1, <2>2, <2>5
  <2>10. AllBut(u, R, H, L, n)
    BY <2>2, <2>7, <2>8, <2>9 DEF AllBut
  <2>11. Shown(t, n, mark) = UpdateLocal(u, KeyIn(u, n), n, mark)
    BY <1>2, <2>4 DEF Shown, KeyIn, u
  <2> QED BY <2>6, <2>9, <2>10, <2>11, LocalPut
<1> QED BY <1>1, <1>2

\* v follows a table that has the peer as well, and has forgotten no fingerprint of t.
Takes(t, R, H, L, n, v) ==
  /\ Follows(v, R \cup {n}, H, L)
  /\ \A m \in Names : v.peer_finger[m] = t.peer_finger[m] \/ v.peer_finger[m] # None

\* got_peer_info_sl, for any of its answers.
LEMMA GotEffect ==
  ASSUME OwnFingers, NEW t, NEW R, NEW H, NEW L, Follows(t, R, H, L), NEW n \in Names,
         NEW finger \in FingersOf[n] \cup {None}, NEW mark \in Marks,
         NEW v, v = Shown(Fingered(t, n, finger), n, mark)
  PROVE  Takes(t, R, H, L, n, v)
<1> DEFINE u == Fingered(t, n, finger)
<1>1. /\ AllBut(u, R, H, L, n)
      /\ \A m \in Names : u.peer_finger[m] = t.peer_finger[m] \/ u.peer_finger[m] # None
  BY FingeredEffect
<1> HIDE DEF u
<1>2. v = Shown(u, n, mark)
  BY DEF u
<1>3. Follows(v, R \cup {n}, H, L) /\ v.peer_finger = u.peer_finger
  BY <1>1, <1>2, ShownEffect
<1> QED BY <1>1, <1>3 DEF Takes

----------------------------------------------------------------------------
\* The loops.  Each is a function of the set of those it has come to.

\* The two deletions of machine_peers_upd_finished for a row.
Gone2(t, n) ==
  DeletePeerButtonInfo(DeletePeerButtonInfo(t, t.peer_finger[n], "local"), n, "local")

NeatTrays == {t \in Trays : Neat(t)}

LEMMA GoneType ==
  ASSUME OwnFingers, NEW t \in NeatTrays, NEW n \in Names
  PROVE  Gone2(t, n) \in NeatTrays
<1> DEFINE u == DeletePeerButtonInfo(t, t.peer_finger[n], "local")
<1>1. t.peer_finger[n] \in ButtonKeys \cup {None} /\ n \in ButtonKeys \cup {None}
  BY DEF NeatTrays, Trays, ButtonKeys
<1>2. u \in Trays /\ Neat(u)
  BY <1>1, DeleteLocal DEF NeatTrays
<1> HIDE DEF u
<1>3. DeletePeerButtonInfo(u, n, "local") \in NeatTrays
  BY <1>1, <1>2, DeleteLocal DEF NeatTrays
<1> QED BY <1>3 DEF Gone2, u

LEMMA GoneEffect ==
  ASSUME OwnFingers, NEW t, NEW R, NEW H, NEW L, Follows(t, R, H, L), NEW n \in Names,
         NEW w, w = Gone2(t, n)
  PROVE  /\ Follows(w, R \ {n}, H, L)
         /\ \A m \in Names :
              \/ w.peer_finger[m] = t.peer_finger[m]
              \/ m = n /\ w.peer_finger[m] = None /\ t.peer_finger[m] \notin hub_peers_table
<1> DEFINE old == t.peer_finger[n]
           v == DeletePeerButtonInfo(t, old, "local")
<1>0. t \in Trays /\ Neat(t) /\ OwnIn(t) /\ LocalsIn(t, R) /\ OthersIn(t, H, L)
  BY DEF Follows
<1>1. /\ old \in ButtonKeys \cup {None} /\ (old # None => old \in Fingers \ Names)
      /\ n \in ButtonKeys /\ None \notin ButtonKeys /\ Names \subseteq ButtonKeys
      /\ (old # None => KeyIn(t, n) = old) /\ (old = None => KeyIn(t, n) = n)
  BY <1>0, OwnKey DEF ButtonKeys, OwnFingers, KeyIn
<1>2. /\ v \in Trays /\ Neat(v)
      /\ \A k \in ButtonKeys : /\ ButtonAt(v, k).hub <=> ButtonAt(t, k).hub
                               /\ ButtonAt(v, k).lan <=> ButtonAt(t, k).lan
                               /\ k # old => ButtonAt(v, k).local = ButtonAt(t, k).local
      /\ old \in ButtonKeys => ButtonAt(v, old).local = None
      /\ \A m \in Names :
           \/ v.peer_finger[m] = t.peer_finger[m]
           \/ /\ v.peer_finger[m] = None /\ old \in ButtonKeys /\ ButtonAt(t, old).local = m
              /\ old \notin hub_peers_table
  <2>1. old \in ButtonKeys \cup {None} /\ v = DeletePeerButtonInfo(t, old, "local")
    BY <1>1
  <2> HIDE DEF v, old
  <2> QED BY <1>0, <2>1, DeleteLocal
<1>3. \A m \in Names : old \in ButtonKeys /\ ButtonAt(t, old).local = m => m = n
  <2> SUFFICES ASSUME NEW m \in Names, old \in ButtonKeys, ButtonAt(t, old).local = m PROVE m = n
    OBVIOUS
  <2>1. old = KeyIn(t, m) /\ old = KeyIn(t, n)
    BY <1>0, <1>1 DEF LocalsIn
  <2> QED BY <1>0, <2>1, OwnKey
<1> HIDE DEF v
<1>4. /\ w \in Trays /\ Neat(w)
      /\ \A k \in ButtonKeys : /\ ButtonAt(w, k).hub <=> ButtonAt(v, k).hub
                               /\ ButtonAt(w, k).lan <=> ButtonAt(v, k).lan
                               /\ k # n => ButtonAt(w, k).local = ButtonAt(v, k).local
      /\ ButtonAt(w, n).local = None
      /\ \A m \in Names :
           \/ w.peer_finger[m] = v.peer_finger[m]
           \/ ButtonAt(v, n).local = m /\ m # n
  <2>1. w = DeletePeerButtonInfo(v, n, "local")
    BY DEF Gone2, v
  <2>2. v \in Trays /\ Neat(v) /\ n \in ButtonKeys \cup {None} /\ n \in ButtonKeys
    BY <1>1, <1>2
  <2> QED BY <2>1, <2>2, DeleteLocal
<1>5. \A m \in Names \ {n} : ButtonAt(v, n).local # m
  <2> SUFFICES ASSUME NEW m \in Names \ {n}, ButtonAt(v, n).local = m PROVE FALSE
    OBVIOUS
  <2>1. ButtonAt(t, n).local = m
    BY <1>1, <1>2
  <2>2. KeyIn(t, m) = n
    BY <1>0, <1>1, <2>1 DEF LocalsIn
  <2> QED BY <1>0, <2>2, OwnKey
<1>6. \A m \in Names :
        \/ w.peer_finger[m] = t.peer_finger[m]
        \/ m = n /\ w.peer_finger[m] = None /\ t.peer_finger[m] \notin hub_peers_table
  BY <1>2, <1>3, <1>4, <1>5
<1>7. OwnIn(w) /\ OthersIn(w, H, L)
  BY <1>0, <1>2, <1>4, <1>6 DEF OwnIn, OthersIn
<1>8. ASSUME NEW k \in ButtonKeys, NEW m \in Names
      PROVE  ButtonAt(w, k).local = m <=> m \in R \ {n} /\ k = KeyIn(w, m)
  <2>1. ButtonAt(t, k).local = m <=> m \in R /\ k = KeyIn(t, m)
    BY <1>0 DEF LocalsIn
  <2>2. CASE m = n
    <3>1. ButtonAt(w, k).local # n
      BY <1>0, <1>1, <1>2, <1>4 DEF LocalsIn
    <3> QED BY <2>2, <3>1
  <2>3. CASE m # n
    <3>1. KeyIn(w, m) = KeyIn(t, m)
      BY <1>6, <2>3 DEF KeyIn
    <3>2. CASE k = n
      <4>1. KeyIn(t, m) # n
        BY <1>0, <2>3, OwnKey
      <4> QED BY <1>1, <1>4, <3>1, <3>2, <4>1
    <3>3. CASE k # n /\ k = old
      <4>1. KeyIn(t, m) # old
        BY <1>0, <1>1, <2>3, <3>3, OwnKey
      <4> QED BY <1>1, <1>2, <1>4, <3>1, <3>3, <4>1
    <3>4. CASE k # n /\ k # old
      BY <1>2, <1>4, <2>1, <2>3, <3>1, <3>4
    <3> QED BY <3>2, <3>3, <3>4
  <2> QED BY <2>2, <2>3
<1>9. LocalsIn(w, R \ {n})
  BY <1>8 DEF LocalsIn
<1> QED BY <1>4, <1>6, <1>7, <1>9 DEF Follows

\* machine_peers_upd_finished: the rows that are gone.
LEMMA GoneLoop ==
  ASSUME OwnFingers, NEW t, NEW R, NEW H, NEW L, Follows(t, R, H, L),
         NEW S \in SUBSET Names
  PROVE  LET Gone(n, u) ==
               DeletePeerButtonInfo(
                 DeletePeerButtonInfo(u, u.peer_finger[n], "local"), n, "local")
             v == FoldSet(Gone, t, S)
         IN  /\ Follows(v, R \ S, H, L)
             /\ \A m \in Names :
                  \/ v.peer_finger[m] = t.peer_finger[m]
                  \/ /\ m \in S /\ v.peer_finger[m] = None
                     /\ t.peer_finger[m] \notin hub_peers_table
<1> DEFINE Gone(n, u) ==
             DeletePeerButtonInfo(DeletePeerButtonInfo(u, u.peer_finger[n], "local"), n, "local")
           g == [p \in S \X NeatTrays |-> Gone(p[1], p[2])]
           Eq(i) == i = [s \in SUBSET S |->
                           IF s = {} THEN t
                           ELSE LET x == CHOOSE y \in s : TRUE IN Gone(x, i[s \ {x}])]
           loop == CHOOSE i : Eq(i)
<1>0. IsFiniteSet(S) /\ t \in NeatTrays
  BY FS_Subset DEF OwnFingers, Follows, NeatTrays
<1>1. g \in [S \X NeatTrays -> NeatTrays]
  BY GoneType DEF Gone2
<1>2. PICK it \in [SUBSET S -> NeatTrays] : \A s \in SUBSET S : IsFold(it, g, t, s)
  <2> HIDE DEF g
  <2> QED BY <1>0, <1>1, FoldExists
<1>3. Eq(it)
  <2>1. ASSUME NEW s \in SUBSET S
        PROVE  it[s] = IF s = {} THEN t
                       ELSE LET x == CHOOSE y \in s : TRUE IN Gone(x, it[s \ {x}])
    <3>1. CASE s = {}
      BY <1>2, <3>1 DEF IsFold
    <3>2. CASE s # {}
      <4> DEFINE x == CHOOSE y \in s : TRUE
      <4>1. x \in S /\ s \ {x} \in SUBSET S
        BY <3>2
      <4>2. it[s] = g[<<x, it[s \ {x}]>>]
        BY <1>2, <3>2 DEF IsFold
      <4> HIDE DEF x
      <4>3. <<x, it[s \ {x}]>> \in S \X NeatTrays
        BY <4>1
      <4>4. it[s] = Gone(x, it[s \ {x}])
        BY <4>2, <4>3
      <4> QED BY <3>2, <4>4 DEF x
    <3> QED BY <3>1, <3>2
  <2> QED BY <2>1
<1>4. Eq(loop)
  BY <1>3
<1>5. FoldSet(Gone, t, S) = loop[S]
  BY DEF FoldSet, MapThenFoldSet
<1> HIDE DEF loop
<1>6. loop[{}] = t
  BY <1>4
<1>7. \A s \in SUBSET S, x \in S :
        s # {} /\ x = (CHOOSE y \in s : TRUE) => x \in s /\ loop[s] = Gone2(loop[s \ {x}], x)
  BY <1>4 DEF Gone2
<1> DEFINE Holds(s) ==
             /\ Follows(loop[s], R \ s, H, L)
             /\ \A m \in Names :
                  \/ loop[s].peer_finger[m] = t.peer_finger[m]
                  \/ /\ m \in s /\ loop[s].peer_finger[m] = None
                     /\ t.peer_finger[m] \notin hub_peers_table
           P == {s \in SUBSET S : Holds(s)}
<1>8. {} \in P
  <2>1. R \ {} = R
    OBVIOUS
  <2> QED BY <1>6, <2>1
<1>9. ASSUME NEW s \in SUBSET S, NEW x \in S, s # {}, x = (CHOOSE y \in s : TRUE), s \ {x} \in P
      PROVE  s \in P
  <2> DEFINE u == loop[s \ {x}]
  <2>1. x \in s /\ loop[s] = Gone2(u, x)
    <3> HIDE DEF P
    <3> QED BY <1>7, <1>9
  <2>2. /\ Follows(u, R \ (s \ {x}), H, L)
        /\ \A m \in Names :
             \/ u.peer_finger[m] = t.peer_finger[m]
             \/ /\ m \in s \ {x} /\ u.peer_finger[m] = None
                /\ t.peer_finger[m] \notin hub_peers_table
    BY <1>9
  <2> HIDE DEF u
  <2>3. /\ Follows(loop[s], (R \ (s \ {x})) \ {x}, H, L)
        /\ \A m \in Names :
             \/ loop[s].peer_finger[m] = u.peer_finger[m]
             \/ /\ m = x /\ loop[s].peer_finger[m] = None
                /\ u.peer_finger[m] \notin hub_peers_table
    BY <2>1, <2>2, GoneEffect
  <2>4. (R \ (s \ {x})) \ {x} = R \ s
    BY <2>1
  <2>5. Follows(loop[s], R \ s, H, L)
    BY <2>3, <2>4
  <2>6. \A m \in Names :
          \/ loop[s].peer_finger[m] = t.peer_finger[m]
          \/ /\ m \in s /\ loop[s].peer_finger[m] = None
             /\ t.peer_finger[m] \notin hub_peers_table
    BY <2>1, <2>2, <2>3
  <2> QED BY <2>5, <2>6
<1>10. S \in P
  <2> HIDE DEF P
  <2> QED BY <1>0, <1>8, <1>9, SubsetInduction
<1> QED BY <1>5, <1>10


\* A handler of the Bazaar's peers, or of the LAN's, leaves names and fingerprints.
LEMMA SameLocals ==
  ASSUME NEW t, NEW v, NEW R, v.peer_finger = t.peer_finger, OwnIn(t), LocalsIn(t, R),
         \A k \in ButtonKeys : ButtonAt(v, k).local = ButtonAt(t, k).local
  PROVE  OwnIn(v) /\ LocalsIn(v, R)
BY DEF OwnIn, LocalsIn, KeyIn

LEMMA HubTurn ==
  ASSUME OwnFingers, NEW t, NEW R, NEW H, NEW L, Follows(t, R, H, L), NEW f \in Fingers
  PROVE  Follows(UpdateHub(t, f), R, H \cup {f}, L) /\ UpdateHub(t, f).peer_finger = t.peer_finger
<1> DEFINE v == UpdateHub(t, f)
<1>0. t \in Trays /\ Neat(t) /\ OwnIn(t) /\ LocalsIn(t, R) /\ OthersIn(t, H, L) /\ f \in ButtonKeys
  BY DEF Follows, ButtonKeys
<1>1. PICK b \in Buttons :
        /\ Gets(t, f, b, v)
        /\ b.hub /\ b.local = ButtonAt(t, f).local /\ (b.lan <=> ButtonAt(t, f).lan)
  BY <1>0, HubEffect
<1>2. /\ v \in Trays /\ Neat(v) /\ v.peer_finger = t.peer_finger
      /\ \A k \in ButtonKeys : /\ ButtonAt(v, k).local = ButtonAt(t, k).local
                               /\ ButtonAt(v, k).hub <=> ButtonAt(t, k).hub \/ k = f
                               /\ ButtonAt(v, k).lan <=> ButtonAt(t, k).lan
  <2> HIDE DEF v
  <2> QED BY <1>0, <1>1 DEF Gets, SameButton
<1> HIDE DEF v
<1>3. OwnIn(v) /\ LocalsIn(v, R)
  BY <1>0, <1>2, SameLocals
<1>4. OthersIn(v, H \cup {f}, L)
  BY <1>0, <1>2 DEF OthersIn
<1>5. Follows(v, R, H \cup {f}, L) /\ v.peer_finger = t.peer_finger
  BY <1>2, <1>3, <1>4 DEF Follows
<1> QED BY <1>5 DEF v

\* my_peers_updated_sl: the peers of the list.
LEMMA HubLoop ==
  ASSUME OwnFingers, NEW t, NEW R, NEW H, NEW L, Follows(t, R, H, L),
         NEW S \in SUBSET Fingers
  PROVE  LET Online(f, u) == UpdateHub(u, f)
             v == FoldSet(Online, t, S)
         IN  Follows(v, R, H \cup S, L) /\ v.peer_finger = t.peer_finger
<1> DEFINE Online(f, u) == UpdateHub(u, f)
           g == [p \in S \X NeatTrays |-> Online(p[1], p[2])]
           Eq(i) == i = [s \in SUBSET S |->
                           IF s = {} THEN t
                           ELSE LET x == CHOOSE y \in s : TRUE IN Online(x, i[s \ {x}])]
           loop == CHOOSE i : Eq(i)
<1>0. IsFiniteSet(S) /\ t \in NeatTrays
  BY FS_Subset DEF OwnFingers, Follows, NeatTrays
<1>1. g \in [S \X NeatTrays -> NeatTrays]
  <2> SUFFICES ASSUME NEW f \in S, NEW u \in NeatTrays PROVE UpdateHub(u, f) \in NeatTrays
    OBVIOUS
  <2>1. u \in Trays /\ Neat(u) /\ f \in ButtonKeys
    BY DEF NeatTrays, ButtonKeys
  <2> QED BY <2>1, HubEffect DEF NeatTrays, Gets
<1>2. PICK it \in [SUBSET S -> NeatTrays] : \A s \in SUBSET S : IsFold(it, g, t, s)
  <2> HIDE DEF g
  <2> QED BY <1>0, <1>1, FoldExists
<1>3. Eq(it)
  <2>1. ASSUME NEW s \in SUBSET S
        PROVE  it[s] = IF s = {} THEN t
                       ELSE LET x == CHOOSE y \in s : TRUE IN Online(x, it[s \ {x}])
    <3>1. CASE s = {}
      BY <1>2, <3>1 DEF IsFold
    <3>2. CASE s # {}
      <4> DEFINE x == CHOOSE y \in s : TRUE
      <4>1. x \in S /\ s \ {x} \in SUBSET S
        BY <3>2
      <4>2. it[s] = g[<<x, it[s \ {x}]>>]
        BY <1>2, <3>2 DEF IsFold
      <4> HIDE DEF x
      <4>3. <<x, it[s \ {x}]>> \in S \X NeatTrays
        BY <4>1
      <4>4. it[s] = Online(x, it[s \ {x}])
        BY <4>2, <4>3
      <4> QED BY <3>2, <4>4 DEF x
    <3> QED BY <3>1, <3>2
  <2> QED BY <2>1
<1>4. Eq(loop)
  BY <1>3
<1>5. FoldSet(Online, t, S) = loop[S]
  BY DEF FoldSet, MapThenFoldSet
<1> HIDE DEF loop
<1>6. loop[{}] = t
  BY <1>4
<1>7. \A s \in SUBSET S, x \in S :
        s # {} /\ x = (CHOOSE y \in s : TRUE) => x \in s /\ loop[s] = Online(x, loop[s \ {x}])
  BY <1>4
<1> DEFINE Holds(s) ==
             Follows(loop[s], R, H \cup s, L) /\ loop[s].peer_finger = t.peer_finger
           P == {s \in SUBSET S : Holds(s)}
<1>8. {} \in P
  <2>1. H \cup {} = H
    OBVIOUS
  <2> QED BY <1>6, <2>1
<1>9. ASSUME NEW s \in SUBSET S, NEW x \in S, s # {}, x = (CHOOSE y \in s : TRUE), s \ {x} \in P
      PROVE  s \in P
  <2> DEFINE u == loop[s \ {x}]
  <2>1. x \in s /\ loop[s] = Online(x, u)
    <3> HIDE DEF P
    <3> QED BY <1>7, <1>9
  <2>2. Follows(u, R, H \cup (s \ {x}), L) /\ u.peer_finger = t.peer_finger
    BY <1>9
  <2> HIDE DEF u
  <2>3. /\ Follows(loop[s], R, (H \cup (s \ {x})) \cup {x}, L)
        /\ loop[s].peer_finger = t.peer_finger
    BY <2>1, <2>2, HubTurn
  <2>4. (H \cup (s \ {x})) \cup {x} = H \cup s
    BY <2>1
  <2> QED BY <2>3, <2>4
<1>10. S \in P
  <2> HIDE DEF P
  <2> QED BY <1>0, <1>8, <1>9, SubsetInduction
<1> QED BY <1>5, <1>10

LEMMA LanTurn ==
  ASSUME OwnFingers, NEW t, NEW R, NEW H, NEW L, Follows(t, R, H, L), NEW f \in Fingers
  PROVE  Follows(UpdateLan(t, f), R, H, L \cup {f}) /\ UpdateLan(t, f).peer_finger = t.peer_finger
<1> DEFINE v == UpdateLan(t, f)
<1>0. t \in Trays /\ Neat(t) /\ OwnIn(t) /\ LocalsIn(t, R) /\ OthersIn(t, H, L) /\ f \in ButtonKeys
  BY DEF Follows, ButtonKeys
<1>1. PICK b \in Buttons :
        /\ Gets(t, f, b, v)
        /\ b.lan /\ b.local = ButtonAt(t, f).local /\ (b.hub <=> ButtonAt(t, f).hub)
  BY <1>0, LanEffect
<1>2. /\ v \in Trays /\ Neat(v) /\ v.peer_finger = t.peer_finger
      /\ \A k \in ButtonKeys : /\ ButtonAt(v, k).local = ButtonAt(t, k).local
                               /\ ButtonAt(v, k).lan <=> ButtonAt(t, k).lan \/ k = f
                               /\ ButtonAt(v, k).hub <=> ButtonAt(t, k).hub
  <2> HIDE DEF v
  <2> QED BY <1>0, <1>1 DEF Gets, SameButton
<1> HIDE DEF v
<1>3. OwnIn(v) /\ LocalsIn(v, R)
  BY <1>0, <1>2, SameLocals
<1>4. OthersIn(v, H, L \cup {f})
  BY <1>0, <1>2 DEF OthersIn
<1>5. Follows(v, R, H, L \cup {f}) /\ v.peer_finger = t.peer_finger
  BY <1>2, <1>3, <1>4 DEF Follows
<1> QED BY <1>5 DEF v

\* Those the LAN search has found.
LEMMA LanLoop ==
  ASSUME OwnFingers, NEW t, NEW R, NEW H, NEW L, Follows(t, R, H, L),
         NEW S \in SUBSET Fingers
  PROVE  LET Found(f, u) == UpdateLan(u, f)
             v == FoldSet(Found, t, S)
         IN  Follows(v, R, H, L \cup S) /\ v.peer_finger = t.peer_finger
<1> DEFINE Found(f, u) == UpdateLan(u, f)
           g == [p \in S \X NeatTrays |-> Found(p[1], p[2])]
           Eq(i) == i = [s \in SUBSET S |->
                           IF s = {} THEN t
                           ELSE LET x == CHOOSE y \in s : TRUE IN Found(x, i[s \ {x}])]
           loop == CHOOSE i : Eq(i)
<1>0. IsFiniteSet(S) /\ t \in NeatTrays
  BY FS_Subset DEF OwnFingers, Follows, NeatTrays
<1>1. g \in [S \X NeatTrays -> NeatTrays]
  <2> SUFFICES ASSUME NEW f \in S, NEW u \in NeatTrays PROVE UpdateLan(u, f) \in NeatTrays
    OBVIOUS
  <2>1. u \in Trays /\ Neat(u) /\ f \in ButtonKeys
    BY DEF NeatTrays, ButtonKeys
  <2> QED BY <2>1, LanEffect DEF NeatTrays, Gets
<1>2. PICK it \in [SUBSET S -> NeatTrays] : \A s \in SUBSET S : IsFold(it, g, t, s)
  <2> HIDE DEF g
  <2> QED BY <1>0, <1>1, FoldExists
<1>3. Eq(it)
  <2>1. ASSUME NEW s \in SUBSET S
        PROVE  it[s] = IF s = {} THEN t
                       ELSE LET x == CHOOSE y \in s : TRUE IN Found(x, it[s \ {x}])
    <3>1. CASE s = {}
      BY <1>2, <3>1 DEF IsFold
    <3>2. CASE s # {}
      <4> DEFINE x == CHOOSE y \in s : TRUE
      <4>1. x \in S /\ s \ {x} \in SUBSET S
        BY <3>2
      <4>2. it[s] = g[<<x, it[s \ {x}]>>]
        BY <1>2, <3>2 DEF IsFold
      <4> HIDE DEF x
      <4>3. <<x, it[s \ {x}]>> \in S \X NeatTrays
        BY <4>1
      <4>4. it[s] = Found(x, it[s \ {x}])
        BY <4>2, <4>3
      <4> QED BY <3>2, <4>4 DEF x
    <3> QED BY <3>1, <3>2
  <2> QED BY <2>1
<1>4. Eq(loop)
  BY <1>3
<1>5. FoldSet(Found, t, S) = loop[S]
  BY DEF FoldSet, MapThenFoldSet
<1> HIDE DEF loop
<1>6. loop[{}] = t
  BY <1>4
<1>7. \A s \in SUBSET S, x \in S :
        s # {} /\ x = (CHOOSE y \in s : TRUE) => x \in s /\ loop[s] = Found(x, loop[s \ {x}])
  BY <1>4
<1> DEFINE Holds(s) ==
             Follows(loop[s], R, H, L \cup s) /\ loop[s].peer_finger = t.peer_finger
           P == {s \in SUBSET S : Holds(s)}
<1>8. {} \in P
  <2>1. L \cup {} = L
    OBVIOUS
  <2> QED BY <1>6, <2>1
<1>9. ASSUME NEW s \in SUBSET S, NEW x \in S, s # {}, x = (CHOOSE y \in s : TRUE), s \ {x} \in P
      PROVE  s \in P
  <2> DEFINE u == loop[s \ {x}]
  <2>1. x \in s /\ loop[s] = Found(x, u)
    <3> HIDE DEF P
    <3> QED BY <1>7, <1>9
  <2>2. Follows(u, R, H, L \cup (s \ {x})) /\ u.peer_finger = t.peer_finger
    BY <1>9
  <2> HIDE DEF u
  <2>3. /\ Follows(loop[s], R, H, (L \cup (s \ {x})) \cup {x})
        /\ loop[s].peer_finger = t.peer_finger
    BY <2>1, <2>2, LanTurn
  <2>4. (L \cup (s \ {x})) \cup {x} = L \cup s
    BY <2>1
  <2> QED BY <2>3, <2>4
<1>10. S \in P
  <2> HIDE DEF P
  <2> QED BY <1>0, <1>8, <1>9, SubsetInduction
<1> QED BY <1>5, <1>10

LEMMA HubGoneTurn ==
  ASSUME OwnFingers, NEW t, NEW R, NEW H, NEW L, Follows(t, R, H, L), NEW f \in Fingers
  PROVE  /\ Follows(DeletePeerButtonInfo(t, f, "hub"), R, H \ {f}, L)
         /\ DeletePeerButtonInfo(t, f, "hub").peer_finger = t.peer_finger
<1> DEFINE v == DeletePeerButtonInfo(t, f, "hub")
<1>0. t \in Trays /\ Neat(t) /\ OwnIn(t) /\ LocalsIn(t, R) /\ OthersIn(t, H, L) /\ f \in ButtonKeys
  BY DEF Follows, ButtonKeys
<1>2. /\ v \in Trays /\ Neat(v) /\ v.peer_finger = t.peer_finger
      /\ \A k \in ButtonKeys : /\ ButtonAt(v, k).local = ButtonAt(t, k).local
                               /\ ButtonAt(v, k).hub <=> ButtonAt(t, k).hub /\ k # f
                               /\ ButtonAt(v, k).lan <=> ButtonAt(t, k).lan
  BY <1>0, DeleteHub
<1> HIDE DEF v
<1>3. OwnIn(v) /\ LocalsIn(v, R)
  BY <1>0, <1>2, SameLocals
<1>4. OthersIn(v, H \ {f}, L)
  BY <1>0, <1>2 DEF OthersIn
<1>5. Follows(v, R, H \ {f}, L) /\ v.peer_finger = t.peer_finger
  BY <1>2, <1>3, <1>4 DEF Follows
<1> QED BY <1>5 DEF v

\* Those the Bazaar has no more.
LEMMA HubGoneLoop ==
  ASSUME OwnFingers, NEW t, NEW R, NEW H, NEW L, Follows(t, R, H, L),
         NEW S \in SUBSET Fingers
  PROVE  LET Disconnected(f, u) == DeletePeerButtonInfo(u, f, "hub")
             v == FoldSet(Disconnected, t, S)
         IN  Follows(v, R, H \ S, L) /\ v.peer_finger = t.peer_finger
<1> DEFINE Disconnected(f, u) == DeletePeerButtonInfo(u, f, "hub")
           g == [p \in S \X NeatTrays |-> Disconnected(p[1], p[2])]
           Eq(i) == i = [s \in SUBSET S |->
                           IF s = {} THEN t
                           ELSE LET x == CHOOSE y \in s : TRUE IN Disconnected(x, i[s \ {x}])]
           loop == CHOOSE i : Eq(i)
<1>0. IsFiniteSet(S) /\ t \in NeatTrays
  BY FS_Subset DEF OwnFingers, Follows, NeatTrays
<1>1. g \in [S \X NeatTrays -> NeatTrays]
  <2> SUFFICES ASSUME NEW f \in S, NEW u \in NeatTrays
               PROVE  DeletePeerButtonInfo(u, f, "hub") \in NeatTrays
    OBVIOUS
  <2>1. u \in Trays /\ Neat(u) /\ f \in ButtonKeys
    BY DEF NeatTrays, ButtonKeys
  <2> QED BY <2>1, DeleteHub DEF NeatTrays, Gets
<1>2. PICK it \in [SUBSET S -> NeatTrays] : \A s \in SUBSET S : IsFold(it, g, t, s)
  <2> HIDE DEF g
  <2> QED BY <1>0, <1>1, FoldExists
<1>3. Eq(it)
  <2>1. ASSUME NEW s \in SUBSET S
        PROVE  it[s] = IF s = {} THEN t
                       ELSE LET x == CHOOSE y \in s : TRUE IN Disconnected(x, it[s \ {x}])
    <3>1. CASE s = {}
      BY <1>2, <3>1 DEF IsFold
    <3>2. CASE s # {}
      <4> DEFINE x == CHOOSE y \in s : TRUE
      <4>1. x \in S /\ s \ {x} \in SUBSET S
        BY <3>2
      <4>2. it[s] = g[<<x, it[s \ {x}]>>]
        BY <1>2, <3>2 DEF IsFold
      <4> HIDE DEF x
      <4>3. <<x, it[s \ {x}]>> \in S \X NeatTrays
        BY <4>1
      <4>4. it[s] = Disconnected(x, it[s \ {x}])
        BY <4>2, <4>3
      <4> QED BY <3>2, <4>4 DEF x
    <3> QED BY <3>1, <3>2
  <2> QED BY <2>1
<1>4. Eq(loop)
  BY <1>3
<1>5. FoldSet(Disconnected, t, S) = loop[S]
  BY DEF FoldSet, MapThenFoldSet
<1> HIDE DEF loop
<1>6. loop[{}] = t
  BY <1>4
<1>7. \A s \in SUBSET S, x \in S :
        s # {} /\ x = (CHOOSE y \in s : TRUE) => x \in s /\ loop[s] = Disconnected(x, loop[s \ {x}])
  BY <1>4
<1> DEFINE Holds(s) ==
             Follows(loop[s], R, H \ s, L) /\ loop[s].peer_finger = t.peer_finger
           P == {s \in SUBSET S : Holds(s)}
<1>8. {} \in P
  <2>1. H \ {} = H
    OBVIOUS
  <2> QED BY <1>6, <2>1
<1>9. ASSUME NEW s \in SUBSET S, NEW x \in S, s # {}, x = (CHOOSE y \in s : TRUE), s \ {x} \in P
      PROVE  s \in P
  <2> DEFINE u == loop[s \ {x}]
  <2>1. x \in s /\ loop[s] = Disconnected(x, u)
    <3> HIDE DEF P
    <3> QED BY <1>7, <1>9
  <2>2. Follows(u, R, H \ (s \ {x}), L) /\ u.peer_finger = t.peer_finger
    BY <1>9
  <2> HIDE DEF u
  <2>3. /\ Follows(loop[s], R, (H \ (s \ {x})) \ {x}, L)
        /\ loop[s].peer_finger = t.peer_finger
    BY <2>1, <2>2, HubGoneTurn
  <2>4. (H \ (s \ {x})) \ {x} = H \ s
    BY <2>1
  <2> QED BY <2>3, <2>4
<1>10. S \in P
  <2> HIDE DEF P
  <2> QED BY <1>0, <1>8, <1>9, SubsetInduction
<1> QED BY <1>5, <1>10

----------------------------------------------------------------------------
\* The invariant.

PeersInv ==
  /\ TypeOK
  /\ Follows(tray, DOMAIN machine_peers_table, hub_peers_table, network_peers_table)

\* What a tray of its type says of the tables.
LEMMA TrayType ==
  ASSUME NEW t \in Trays
  PROVE  /\ DOMAIN t.buttons \subseteq ButtonKeys
         /\ \A k \in DOMAIN t.buttons : t.buttons[k] \in Buttons
         /\ t.hub_menu \cup t.lan_menu \subseteq ButtonKeys \cup {Empty}
         /\ t.peer_finger \in [Names -> Fingers \cup {None}]
BY TableType DEF Trays

\* A fingerprint is only forgotten with its row, and not while the Bazaar has it.
Remembers(n) ==
  \/ tray'.peer_finger[n] = tray.peer_finger[n]
  \/ tray'.peer_finger[n] # None
  \/ /\ n \in DOMAIN machine_peers_table \ DOMAIN machine_peers_table'
     /\ tray.peer_finger[n] \notin hub_peers_table

\* What an answer of a local peer does to the tables and to the tray.
LEMMA InfoStep ==
  ASSUME OwnFingers, PeersInv, NEW n \in Names, NEW finger \in FingersOf[n] \cup {None},
         NEW val \in Marks, GotPeerInfo(n, finger, val)
  PROVE  /\ DOMAIN machine_peers_table' = DOMAIN machine_peers_table \cup {n}
         /\ \A m \in DOMAIN machine_peers_table' : machine_peers_table'[m] \in Rows
         /\ Follows(tray', DOMAIN machine_peers_table', hub_peers_table, network_peers_table)
         /\ \A m \in Names : Remembers(m)
<1> DEFINE old == IF n \in DOMAIN machine_peers_table THEN machine_peers_table[n].mark
                                                      ELSE "false"
           mark == SetUpdateAvailable(old, val)
           row == [update |-> "new", mark |-> mark]
<1>1. old \in Marks
  BY DEF PeersInv, TypeOK, Rows, Marks
<1> HIDE DEF old
<1>2. mark \in Marks
  BY <1>1 DEF SetUpdateAvailable, Marks
<1>3. /\ machine_peers_table' = [m \in DOMAIN machine_peers_table \cup {n} |->
                                   IF m = n THEN row ELSE machine_peers_table[m]]
      /\ tray' = Shown(Fingered(tray, n, finger), n, row.mark)
  BY DEF GotPeerInfo, old
<1> HIDE DEF mark
<1>4. row \in Rows /\ row.mark = mark
  BY <1>2 DEF Rows
<1> HIDE DEF row
<1>5. DOMAIN machine_peers_table' = DOMAIN machine_peers_table \cup {n}
  BY <1>3
<1>6. \A m \in DOMAIN machine_peers_table' : machine_peers_table'[m] \in Rows
  BY <1>3, <1>4 DEF PeersInv, TypeOK
<1> DEFINE R == DOMAIN machine_peers_table
<1>7. Follows(tray, R, hub_peers_table, network_peers_table)
  BY DEF PeersInv
<1>8. tray' = Shown(Fingered(tray, n, finger), n, mark)
  BY <1>3, <1>4
<1> DEFINE v == tray'
<1> HIDE DEF v, R
<1>9. v = Shown(Fingered(tray, n, finger), n, mark)
  BY <1>8 DEF v
<1>10. Takes(tray, R, hub_peers_table, network_peers_table, n, v)
  BY <1>2, <1>7, <1>9, GotEffect
<1> QED BY <1>5, <1>6, <1>10 DEF v, R, Remembers, Takes

LEMMA GotType ==
  ASSUME OwnFingers, PeersInv, NEW n \in Names,
         GotOtherInfo(n) \/ GotFinger(n) \/ GotUpdate(n)
  PROVE  PeersInv' /\ \A m \in Names : Remembers(m)
<1> DEFINE old == IF n \in DOMAIN machine_peers_table THEN machine_peers_table[n].mark
                                                      ELSE "false"
<1>1. old \in Marks /\ {"false", "true"} \subseteq Marks
  BY DEF PeersInv, TypeOK, Rows, Marks
<1>2. UNCHANGED <<hub_peers_table, network_peers_table, dct_resource_hosts,
                  m_refresh_in_progress, offered, updates>>
  BY DEF GotOtherInfo, GotFinger, GotUpdate
<1>3. \E finger \in FingersOf[n] \cup {None}, val \in Marks : GotPeerInfo(n, finger, val)
  <2>1. CASE GotOtherInfo(n)
    BY <1>1, <2>1 DEF GotOtherInfo
  <2>2. CASE GotFinger(n)
    BY <1>1, <2>2 DEF GotFinger
  <2>3. CASE GotUpdate(n)
    BY <1>1, <2>3 DEF GotUpdate
  <2> QED BY <2>1, <2>2, <2>3
<1>4. /\ DOMAIN machine_peers_table' = DOMAIN machine_peers_table \cup {n}
      /\ \A m \in DOMAIN machine_peers_table' : machine_peers_table'[m] \in Rows
      /\ Follows(tray', DOMAIN machine_peers_table', hub_peers_table, network_peers_table)
      /\ \A m \in Names : Remembers(m)
  BY <1>3, InfoStep
<1>5. tray' \in Trays
  BY <1>4 DEF Follows
<1>6. TypeOK'
  BY <1>2, <1>4, <1>5, TrayType DEF PeersInv, TypeOK
<1> QED BY <1>2, <1>4, <1>6 DEF PeersInv

LEMMA FinishedStep ==
  ASSUME OwnFingers, PeersInv, MachinePeersUpdFinished
  PROVE  PeersInv' /\ \A m \in Names : Remembers(m)
<1> DEFINE gone == {n \in DOMAIN machine_peers_table : machine_peers_table[n].update = "old"}
           R == DOMAIN machine_peers_table
           left == R \ gone
           Gone(n, t) == DeletePeerButtonInfo(
                           DeletePeerButtonInfo(t, t.peer_finger[n], "local"), n, "local")
           v == FoldSet(Gone, tray, gone)
<1>1. /\ machine_peers_table' = [n \in left |-> [machine_peers_table[n] EXCEPT !.update = "old"]]
      /\ tray' = v
      /\ UNCHANGED <<hub_peers_table, network_peers_table, dct_resource_hosts,
                     m_refresh_in_progress, offered, updates>>
  BY DEF MachinePeersUpdFinished
<1>2. /\ Follows(tray, R, hub_peers_table, network_peers_table)
      /\ gone \in SUBSET Names /\ gone \subseteq R
  BY DEF PeersInv, TypeOK
<1>3. /\ DOMAIN machine_peers_table' = left
      /\ \A n \in left : machine_peers_table'[n] \in Rows
  BY <1>1 DEF PeersInv, TypeOK, Rows
<1>4. /\ Follows(v, R \ gone, hub_peers_table, network_peers_table)
      /\ \A m \in Names :
           \/ v.peer_finger[m] = tray.peer_finger[m]
           \/ /\ m \in gone /\ v.peer_finger[m] = None
              /\ tray.peer_finger[m] \notin hub_peers_table
  <2> HIDE DEF gone, R
  <2> QED BY <1>2, GoneLoop
<1> HIDE DEF v
<1>5. v \in Trays
  BY <1>4 DEF Follows
<1>6. \A m \in gone : m \in DOMAIN machine_peers_table \ DOMAIN machine_peers_table'
  BY <1>2, <1>3
<1> HIDE DEF gone
<1>7. TypeOK'
  BY <1>1, <1>3, <1>5, TrayType DEF PeersInv, TypeOK
<1>8. \A m \in Names : Remembers(m)
  BY <1>1, <1>4, <1>6 DEF Remembers
<1> QED BY <1>1, <1>3, <1>4, <1>7, <1>8 DEF PeersInv

LEMMA ListStep ==
  ASSUME OwnFingers, PeersInv, MyPeersUpdated
  PROVE  PeersInv' /\ tray'.peer_finger = tray.peer_finger
<1> DEFINE Online(f, t) == UpdateHub(t, f)
           Found(f, t) == UpdateLan(t, f)
           Disconnected(f, t) == DeletePeerButtonInfo(t, f, "hub")
           R == DOMAIN machine_peers_table
           H == hub_peers_table
           L == network_peers_table
           D == dct_resource_hosts
<1>1. PICK lst \in SUBSET Fingers :
        /\ tray' = FoldSet(Disconnected, FoldSet(Found, FoldSet(Online, tray, lst), D), H \ lst)
        /\ hub_peers_table' = lst
        /\ network_peers_table' = L \cup D
        /\ UNCHANGED <<machine_peers_table, dct_resource_hosts, m_refresh_in_progress,
                       offered, updates>>
  BY DEF MyPeersUpdated
<1>2. /\ Follows(tray, R, H, L) /\ H \subseteq Fingers /\ D \in SUBSET Fingers
      /\ H \ lst \in SUBSET Fingers
  BY DEF PeersInv, TypeOK, OwnFingers
<1> DEFINE u == FoldSet(Online, tray, lst)
           v == FoldSet(Found, u, D)
           w == FoldSet(Disconnected, v, H \ lst)
<1>3. Follows(u, R, H \cup lst, L) /\ u.peer_finger = tray.peer_finger
  <2> HIDE DEF R, H, L
  <2> QED BY <1>2, HubLoop
<1> HIDE DEF u
<1>4. Follows(v, R, H \cup lst, L \cup D) /\ v.peer_finger = u.peer_finger
  <2> DEFINE HH == H \cup lst
  <2>1. Follows(u, R, HH, L)
    BY <1>3
  <2> HIDE DEF R, HH, L, D
  <2>2. Follows(v, R, HH, L \cup D) /\ v.peer_finger = u.peer_finger
    BY <1>2, <2>1, LanLoop
  <2> QED BY <2>2 DEF HH
<1> HIDE DEF v
<1>5. Follows(w, R, (H \cup lst) \ (H \ lst), L \cup D) /\ w.peer_finger = v.peer_finger
  <2> DEFINE HH == H \cup lst
             LL == L \cup D
             S == H \ lst
  <2>1. Follows(v, R, HH, LL) /\ S \in SUBSET Fingers
    BY <1>2, <1>4
  <2> HIDE DEF R, HH, LL, S
  <2>2. Follows(FoldSet(Disconnected, v, S), R, HH \ S, LL)
        /\ FoldSet(Disconnected, v, S).peer_finger = v.peer_finger
    BY <2>1, HubGoneLoop
  <2> QED BY <2>2 DEF HH, LL, S
<1>6. (H \cup lst) \ (H \ lst) = lst
  OBVIOUS
<1>7. tray' = w
  BY <1>1 DEF u, v
<1> HIDE DEF w
<1>8. Follows(w, R, lst, L \cup D) /\ w \in Trays
  BY <1>5, <1>6 DEF Follows
<1>9. TypeOK'
  BY <1>1, <1>2, <1>7, <1>8, TrayType DEF PeersInv, TypeOK
<1>10. machine_peers_table' = machine_peers_table
  BY <1>1
<1> QED BY <1>1, <1>3, <1>4, <1>5, <1>7, <1>8, <1>9, <1>10 DEF PeersInv

\* The handlers that leave the tray alone.
LEMMA ElsewhereStep ==
  ASSUME OwnFingers, PeersInv,
         \/ \E n \in Names : UpdateEnds(n)
         \/ Refresh \/ FoundDevice \/ DelayTimerTimeout
         \/ \E k \in ButtonKeys : DialogRefreshed(k)
         \/ PeerUpdatePeerOS
  PROVE  PeersInv' /\ tray' = tray
<1>1. /\ tray' = tray /\ hub_peers_table' = hub_peers_table
      /\ network_peers_table' = network_peers_table
      /\ DOMAIN machine_peers_table' = DOMAIN machine_peers_table
  BY DEF UpdateEnds, Refresh, FoundDevice, DelayTimerTimeout, DialogRefreshed, PeerUpdatePeerOS
<1>2. \A n \in DOMAIN machine_peers_table : machine_peers_table'[n] \in Rows
  <2>1. ASSUME NEW n \in Names, UpdateEnds(n)
        PROVE  \A m \in DOMAIN machine_peers_table : machine_peers_table'[m] \in Rows
    BY <2>1 DEF UpdateEnds, MarkAfter, SetUpdateAvailable, PeersInv, TypeOK, Rows, Marks
  <2>2. ASSUME PeerUpdatePeerOS
        PROVE  \A m \in DOMAIN machine_peers_table : machine_peers_table'[m] \in Rows
    BY <2>2 DEF PeerUpdatePeerOS, PeersInv, TypeOK, Rows, Marks
  <2> QED BY <2>1, <2>2 DEF Refresh, FoundDevice, DelayTimerTimeout, DialogRefreshed,
                            PeersInv, TypeOK
<1>3. /\ dct_resource_hosts' \subseteq Devices /\ m_refresh_in_progress' \in BOOLEAN
      /\ offered' \in ButtonKeys \cup {None}
  BY DEF UpdateEnds, Refresh, FoundDevice, DelayTimerTimeout, DialogRefreshed,
         PeerUpdatePeerOS, PeersInv, TypeOK
<1>4. updates' \in [Names -> 0..MaxUpdates]
  <2>1. updates \in [Names -> 0..MaxUpdates] /\ MaxUpdates \in Nat
    BY DEF PeersInv, TypeOK, OwnFingers
  <2>2. ASSUME NEW n \in Names, UpdateEnds(n) PROVE updates' \in [Names -> 0..MaxUpdates]
    <3>1. updates[n] - 1 \in 0..MaxUpdates
      BY <2>1, <2>2 DEF UpdateEnds
    <3>2. updates' = [updates EXCEPT ![n] = updates[n] - 1]
      BY <2>2 DEF UpdateEnds
    <3> QED BY <2>1, <3>1, <3>2
  <2>3. ASSUME PeerUpdatePeerOS PROVE updates' \in [Names -> 0..MaxUpdates]
    <3> DEFINE n == IF offered \in DOMAIN tray.buttons THEN tray.buttons[offered].local
                                                       ELSE None
    <3>1. CASE updates' = updates
      BY <2>1, <3>1
    <3>2. CASE /\ n # None /\ updates[n] < MaxUpdates
               /\ updates' = [updates EXCEPT ![n] = updates[n] + 1]
      <4>1. n \in Names
        BY <3>2 DEF PeersInv, TypeOK, Buttons
      <4> HIDE DEF n
      <4>2. updates[n] + 1 \in 0..MaxUpdates
        BY <2>1, <3>2, <4>1
      <4> QED BY <2>1, <3>2, <4>1, <4>2
    <3> QED BY <2>3, <3>1, <3>2 DEF PeerUpdatePeerOS
  <2> QED BY <2>1, <2>2, <2>3 DEF Refresh, FoundDevice, DelayTimerTimeout, DialogRefreshed
<1>5. TypeOK'
  BY <1>1, <1>2, <1>3, <1>4 DEF PeersInv, TypeOK
<1> QED BY <1>1, <1>5 DEF PeersInv

LEMMA PeersStep ==
  ASSUME OwnFingers, PeersInv, [Next]_vars
  PROVE  PeersInv' /\ \A m \in Names : Remembers(m)
<1>1. CASE UNCHANGED vars
  BY <1>1 DEF vars, PeersInv, TypeOK, Remembers
<1>2. ASSUME NEW n \in Names, GotOtherInfo(n) \/ GotFinger(n) \/ GotUpdate(n)
      PROVE  PeersInv' /\ \A m \in Names : Remembers(m)
  BY <1>2, GotType
<1>3. CASE MachinePeersUpdFinished
  BY <1>3, FinishedStep
<1>4. CASE MyPeersUpdated
  BY <1>4, ListStep DEF Remembers
<1>5. CASE \/ \E n \in Names : UpdateEnds(n)
           \/ Refresh \/ FoundDevice \/ DelayTimerTimeout
           \/ \E k \in ButtonKeys : DialogRefreshed(k)
           \/ PeerUpdatePeerOS
  BY <1>5, ElsewhereStep DEF Remembers
<1> QED BY <1>1, <1>2, <1>3, <1>4, <1>5 DEF Next

LEMMA PeersInit ==
  ASSUME OwnFingers, Init
  PROVE  PeersInv
<1>1. PICK fingers \in [Names -> Fingers \cup {None}] :
        /\ \A n \in Names : fingers[n] \in FingersOf[n] \cup {None}
        /\ tray = [buttons |-> <<>>, hub_menu |-> {Empty}, lan_menu |-> {Empty},
                   peer_finger |-> fingers]
  BY DEF Init
<1>2. DOMAIN <<>> = {}
  OBVIOUS
<1>3. <<>> \in ButtonTables
  <2>1. <<>> \in [{} -> Buttons]
    OBVIOUS
  <2> QED BY <2>1, TableMade
<1>4. tray \in Trays
  BY <1>1, <1>3 DEF Trays
<1>5. \A k \in ButtonKeys : ButtonAt(tray, k) = NewButton
  BY <1>1, <1>2 DEF ButtonAt
<1>6. Neat(tray)
  <2>1. Empty \notin ButtonKeys
    BY DEF OwnFingers
  <2>2. tray.hub_menu = {Empty} /\ tray.lan_menu = {Empty} /\ DOMAIN tray.buttons = {}
    BY <1>1, <1>2
  <2>3. NewButton.local = None /\ ~ NewButton.hub /\ ~ NewButton.lan
    BY DEF NewButton
  <2>4. \A k \in ButtonKeys : ~ Mine(ButtonAt(tray, k)) /\ ~ ButtonAt(tray, k).lan
    BY <1>5, <2>3 DEF Mine
  <2> QED BY <2>1, <2>2, <2>4 DEF Neat
<1>7. DOMAIN machine_peers_table = {} /\ hub_peers_table = {} /\ network_peers_table = {}
  BY <1>2 DEF Init
<1>8. LocalsIn(tray, {}) /\ OthersIn(tray, {}, {}) /\ OwnIn(tray)
  <2>1. NewButton.local = None /\ ~ NewButton.hub /\ ~ NewButton.lan
    BY DEF NewButton
  <2>2. None \notin Names
    BY DEF OwnFingers, ButtonKeys
  <2>3. LocalsIn(tray, {})
    BY <1>5, <2>1, <2>2 DEF LocalsIn
  <2>4. OthersIn(tray, {}, {})
    BY <1>5, <2>1 DEF OthersIn
  <2>5. OwnIn(tray)
    BY <1>1 DEF OwnIn
  <2> QED BY <2>3, <2>4, <2>5
<1>9. updates \in [Names -> 0..MaxUpdates]
  BY DEF Init, OwnFingers
<1>10. TypeOK
  BY <1>4, <1>7, <1>9, TrayType DEF Init, TypeOK
<1> QED BY <1>4, <1>6, <1>7, <1>8, <1>10 DEF PeersInv, Follows

LEMMA PeersInductive == ASSUME OwnFingers PROVE Spec => []PeersInv
BY PeersInit, PeersStep, PTL DEF Spec

\* The types are as declared, for any peers whose fingerprints are their own.
THEOREM PeersTypeCorrect == ASSUME OwnFingers PROVE Spec => []TypeOK
<1>1. PeersInv => TypeOK
  BY DEF PeersInv
<1> QED BY <1>1, PeersInductive, PTL

\* In whatever order the three sources tell of however many peers, and whenever a
\* fingerprint becomes known, changes or is forgotten: the menus have a button exactly
\* for the peers in the three tables, one for each.
THEOREM PeersAllShown == ASSUME OwnFingers PROVE Spec => []PeersAreShown
<1>1. PeersInv => PeersAreShown
  <2> SUFFICES ASSUME PeersInv PROVE PeersAreShown
    OBVIOUS
  <2> DEFINE R == DOMAIN machine_peers_table
             local == {KeyOf(n) : n \in R}
             mine == local \cup hub_peers_table
             others == network_peers_table \ mine
  <2>0. /\ tray \in Trays /\ Neat(tray) /\ OwnIn(tray)
        /\ LocalsIn(tray, R) /\ OthersIn(tray, hub_peers_table, network_peers_table)
        /\ R \subseteq Names
        /\ hub_peers_table \subseteq ButtonKeys /\ network_peers_table \subseteq ButtonKeys
    BY DEF PeersInv, Follows, TypeOK, ButtonKeys, OwnFingers
  <2>1. /\ DOMAIN tray.buttons \subseteq ButtonKeys
        /\ tray.buttons \in [DOMAIN tray.buttons -> Buttons]
        /\ tray.hub_menu \subseteq ButtonKeys \cup {Empty}
        /\ tray.lan_menu \subseteq ButtonKeys \cup {Empty}
        /\ Empty \notin ButtonKeys /\ None \notin Names
    BY <2>0, TableType DEF Trays, OwnFingers, ButtonKeys
  <2>2. \A n \in Names : KeyOf(n) = KeyIn(tray, n) /\ KeyOf(n) \in ButtonKeys
    BY <2>0, OwnKey DEF KeyOf, KeyIn
  <2>3. \A k \in ButtonKeys : ButtonAt(tray, k).local # None <=> k \in local
    <3> SUFFICES ASSUME NEW k \in ButtonKeys PROVE ButtonAt(tray, k).local # None <=> k \in local
      OBVIOUS
    <3>1. ButtonAt(tray, k).local \in Names \cup {None}
      BY <2>0, ButtonType DEF Buttons
    <3>2. \A n \in Names : ButtonAt(tray, k).local = n <=> n \in R /\ k = KeyOf(n)
      BY <2>0, <2>2 DEF LocalsIn
    <3> QED BY <2>0, <2>1, <3>1, <3>2
  <2>4. local \subseteq ButtonKeys
    BY <2>0, <2>2
  <2>5. \A n \in R : ButtonAt(tray, KeyOf(n)).local = n
    BY <2>0, <2>2 DEF LocalsIn
  <2> HIDE DEF local
  <2>6. \A k \in ButtonKeys : /\ Mine(ButtonAt(tray, k)) <=> k \in mine
                              /\ ButtonAt(tray, k).hub <=> k \in hub_peers_table
                              /\ ButtonAt(tray, k).lan <=> k \in network_peers_table
    BY <2>0, <2>3 DEF Mine, OthersIn
  <2>7. \A k \in ButtonKeys : k \in DOMAIN tray.buttons <=>
          Mine(ButtonAt(tray, k)) \/ ButtonAt(tray, k).lan
    <3> SUFFICES ASSUME NEW k \in ButtonKeys
                 PROVE  k \in DOMAIN tray.buttons <=>
                          Mine(ButtonAt(tray, k)) \/ ButtonAt(tray, k).lan
      OBVIOUS
    <3>1. CASE k \in DOMAIN tray.buttons
      BY <2>0, <3>1 DEF Neat, ButtonAt
    <3>2. CASE k \notin DOMAIN tray.buttons
      BY <3>2 DEF ButtonAt, NewButton, Mine
    <3> QED BY <3>1, <3>2
  <2>8. DOMAIN tray.buttons = mine \cup others
    BY <2>0, <2>1, <2>4, <2>6, <2>7
  <2>9. \A k \in DOMAIN tray.buttons : ButtonAt(tray, k) = tray.buttons[k]
    BY DEF ButtonAt
  <2>10. \A k \in ButtonKeys : k \in tray.hub_menu <=> k \in mine
    BY <2>0, <2>6 DEF Neat
  <2>11. \A k \in ButtonKeys : k \in tray.lan_menu <=> k \in others
    BY <2>0, <2>6 DEF Neat
  <2>12. mine \subseteq ButtonKeys /\ others \subseteq ButtonKeys
    BY <2>0, <2>4
  <2> HIDE DEF mine, others
  <2>13. /\ Empty \in tray.hub_menu <=> mine = {}
         /\ Empty \in tray.lan_menu <=> others = {}
    BY <2>0, <2>10, <2>11, <2>12 DEF Neat
  <2>14. tray.hub_menu = IF mine = {} THEN {Empty} ELSE mine
    BY <2>1, <2>10, <2>12, <2>13
  <2>15. tray.lan_menu = IF others = {} THEN {Empty} ELSE others
    BY <2>1, <2>11, <2>12, <2>13
  <2>16. \A n \in R : KeyOf(n) \in DOMAIN tray.buttons /\ tray.buttons[KeyOf(n)].local = n
    <3>1. \A n \in R : KeyOf(n) \in ButtonKeys /\ KeyOf(n) \in mine
      BY <2>0, <2>2 DEF mine, local
    <3> QED BY <2>5, <2>8, <2>9, <3>1
  <2>17. \A k \in DOMAIN tray.buttons :
           /\ tray.buttons[k].local # None <=> k \in local
           /\ tray.buttons[k].hub <=> k \in hub_peers_table
           /\ tray.buttons[k].lan <=> k \in network_peers_table
    BY <2>1, <2>3, <2>6, <2>9
  <2> QED BY <2>8, <2>14, <2>15, <2>16, <2>17 DEF PeersAreShown, mine, others, local
<1> QED BY <1>1, PeersInductive, PTL

\* delete_peer_button_info, called behind the backs of the handlers, takes the
\* fingerprint of a peer out of the settings only with its row, and leaves it when
\* the Bazaar has it.
THEOREM FingersKept == ASSUME OwnFingers PROVE Spec => FingersAreKept
<1> DEFINE A == \A n \in Names : ForgetsFinger(n)
<1>1. PeersInv /\ [Next]_vars => [A]_vars
  BY PeersStep DEF Remembers, ForgetsFinger
<1> HIDE DEF A
<1>2. Spec => [][A]_vars
  BY <1>1, PeersInductive, PTL DEF Spec
<1> QED BY <1>2 DEF A, FingersAreKept

\* An answer of a peer that does not tell of an update leaves "updating" as it was,
\* and one that does cannot bring it back.
LEMMA UnderWayGot ==
  ASSUME PeersInv, UpdatingIsUnderWay, NEW n \in Names,
         GotOtherInfo(n) \/ GotFinger(n) \/ GotUpdate(n)
  PROVE  UpdatingIsUnderWay'
<1> DEFINE old == IF n \in DOMAIN machine_peers_table THEN machine_peers_table[n].mark
                                                      ELSE "false"
<1>1. \E finger \in FingersOf[n] \cup {None}, val \in {old, "false", "true"} :
        GotPeerInfo(n, finger, val)
  BY DEF GotOtherInfo, GotFinger, GotUpdate
<1>2. PICK val \in {old, "false", "true"} :
        machine_peers_table' = [m \in DOMAIN machine_peers_table \cup {n} |->
          IF m = n THEN [update |-> "new", mark |-> SetUpdateAvailable(old, val)]
          ELSE machine_peers_table[m]]
  BY <1>1 DEF GotPeerInfo
<1>3. updates' = updates
  BY DEF GotOtherInfo, GotFinger, GotUpdate
<1>4. SetUpdateAvailable(old, val) = "updating" =>
        n \in DOMAIN machine_peers_table /\ machine_peers_table[n].mark = "updating"
  <2>1. old = "updating" =>
          n \in DOMAIN machine_peers_table /\ machine_peers_table[n].mark = "updating"
    OBVIOUS
  <2> HIDE DEF old
  <2> QED BY <2>1 DEF SetUpdateAvailable
<1> HIDE DEF old
<1>5. \A m \in DOMAIN machine_peers_table' : machine_peers_table'[m].mark = "updating" =>
        m \in DOMAIN machine_peers_table /\ machine_peers_table[m].mark = "updating"
  BY <1>2, <1>4
<1> QED BY <1>3, <1>5 DEF UpdatingIsUnderWay

LEMMA UnderWayStep ==
  ASSUME PeersInv, UpdatingIsUnderWay, [Next]_vars
  PROVE  UpdatingIsUnderWay'
<1> USE DEF UpdatingIsUnderWay
<1>0. updates \in [Names -> 0..MaxUpdates] /\ DOMAIN machine_peers_table \subseteq Names
  BY DEF PeersInv, TypeOK
<1>1. CASE UNCHANGED vars
  BY <1>1 DEF vars
<1>2. ASSUME NEW n \in Names, GotOtherInfo(n) \/ GotFinger(n) \/ GotUpdate(n)
      PROVE  UpdatingIsUnderWay'
  BY <1>2, UnderWayGot
<1>3. ASSUME NEW n \in Names, UpdateEnds(n) PROVE UpdatingIsUnderWay'
  <2>1. PICK success \in BOOLEAN :
          machine_peers_table' = [m \in DOMAIN machine_peers_table |->
            IF m = n
            THEN [machine_peers_table[m] EXCEPT !.mark =
                    MarkAfter(machine_peers_table[m].mark, success)]
            ELSE machine_peers_table[m]]
    BY <1>3 DEF UpdateEnds
  <2>2. \A m \in DOMAIN machine_peers_table : machine_peers_table[m] \in Rows
    BY DEF PeersInv, TypeOK
  <2>3. \A mark \in Marks : MarkAfter(mark, success) = "false"
    BY DEF MarkAfter, SetUpdateAvailable, Marks
  <2>4. \A m \in DOMAIN machine_peers_table' :
          machine_peers_table'[m].mark = "updating" =>
            m # n /\ machine_peers_table'[m] = machine_peers_table[m]
    BY <2>1, <2>2, <2>3 DEF Rows
  <2>5. \A m \in Names : m # n => updates'[m] = updates[m]
    BY <1>0, <1>3 DEF UpdateEnds
  <2>6. DOMAIN machine_peers_table' = DOMAIN machine_peers_table
    BY <2>1
  <2> QED BY <1>0, <2>4, <2>5, <2>6
<1>4. CASE MachinePeersUpdFinished
  <2>1. \A m \in DOMAIN machine_peers_table' :
          /\ m \in DOMAIN machine_peers_table
          /\ machine_peers_table'[m].mark = machine_peers_table[m].mark
    BY <1>4 DEF MachinePeersUpdFinished, PeersInv, TypeOK, Rows
  <2> QED BY <1>4, <2>1 DEF MachinePeersUpdFinished
<1>5. CASE \/ MyPeersUpdated \/ Refresh \/ FoundDevice \/ DelayTimerTimeout
           \/ \E k \in ButtonKeys : DialogRefreshed(k)
  BY <1>5 DEF MyPeersUpdated, Refresh, FoundDevice, DelayTimerTimeout, DialogRefreshed
<1>6. CASE PeerUpdatePeerOS
  <2> DEFINE n == IF offered \in DOMAIN tray.buttons THEN tray.buttons[offered].local
                                                     ELSE None
  <2>1. CASE UNCHANGED <<machine_peers_table, updates>>
    BY <2>1
  <2>2. CASE /\ n # None
             /\ updates' = [updates EXCEPT ![n] = updates[n] + 1]
             /\ machine_peers_table' = [m \in DOMAIN machine_peers_table |->
                  IF m = n THEN [machine_peers_table[m] EXCEPT !.mark = "updating"]
                  ELSE machine_peers_table[m]]
    <3>1. n \in Names
      BY <2>2 DEF PeersInv, TypeOK, Buttons
    <3> HIDE DEF n
    <3>2. updates'[n] > 0 /\ \A m \in Names : m # n => updates'[m] = updates[m]
      BY <1>0, <2>2, <3>1
    <3>3. /\ DOMAIN machine_peers_table' = DOMAIN machine_peers_table
          /\ \A m \in DOMAIN machine_peers_table :
               m # n => machine_peers_table'[m] = machine_peers_table[m]
      BY <2>2
    <3> QED BY <1>0, <3>2, <3>3
  <2> QED BY <1>6, <2>1, <2>2 DEF PeerUpdatePeerOS
<1> QED BY <1>1, <1>2, <1>3, <1>4, <1>5, <1>6 DEF Next

\* A row says "updating" only while an update of its peer is under way, whatever rows
\* are deleted and made again and however many updates overlap and fail.
THEOREM UpdatesUnderWay == ASSUME OwnFingers PROVE Spec => []UpdatingIsUnderWay
<1>1. Init => UpdatingIsUnderWay
  BY DEF Init, UpdatingIsUnderWay
<1>2. PeersInv /\ UpdatingIsUnderWay /\ [Next]_vars => UpdatingIsUnderWay'
  BY UnderWayStep
<1> QED BY <1>1, <1>2, PeersInductive, PTL DEF Spec

=============================================================================
