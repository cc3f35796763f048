------------------------- MODULE HubControllerProofs -------------------------
(***************************************************************************)
(* Theorems about HubController, for any accounts, lists of environments,  *)
(* limit on repeated requests and number of requests under way.            *)
(***************************************************************************)
EXTENDS HubController, SequenceTheorems, TLAPS

\* Replacing the state of a frame by one its kind has keeps the stack a stack.
LEMMA SetFrameType ==
  ASSUME stack \in Seq(Frames), NEW i \in 1..Len(stack), NEW at,
         [stack[i] EXCEPT !.at = at] \in Frames
  PROVE  SetFrame(i, at) \in Seq(Frames)
<1>1. SetFrame(i, at) = [stack EXCEPT ![i] = [stack[i] EXCEPT !.at = at]]
  BY DEF SetFrame
<1>. QED  BY <1>1, ExceptSeq

\* A sequence without its last element.
LEMMA FrontType ==
  ASSUME NEW S, NEW s \in Seq(S), NEW n \in Nat, Len(s) = n + 1
  PROVE  SubSeq(s, 1, n) \in Seq(S) /\ Len(SubSeq(s, 1, n)) = n
<1>1. \A i \in 1..n : s[i] \in S
  BY ElementOfSeq
<1>2. SubSeq(s, 1, n) \in Seq(S)
  BY <1>1, SubSeqProperties
<1>3. Len(SubSeq(s, 1, n)) = IF 1 <= n THEN n - 1 + 1 ELSE 0
  BY <1>1, SubSeqProperties
<1>. QED  BY <1>2, <1>3

\* What is left of the stack when the innermost handler has ended.
LEMMA UnwoundType ==
  ASSUME stack \in Seq(Frames), stack # <<>>
  PROVE  /\ Unwound \in Seq(Frames)
         /\ Len(Unwound) = Len(stack) - 1
         /\ Last(stack) \in Frames
         /\ Len(stack) \in 1..Len(stack)
<1>1. Len(stack) \in Nat \ {0}
  BY EmptySeq, LenProperties
<1>2. Last(stack) \in Frames
  BY <1>1, ElementOfSeq DEF Last
<1>3. PICK n \in Nat : Len(stack) = n + 1
  <2>1. Len(stack) - 1 \in Nat /\ Len(stack) = (Len(stack) - 1) + 1
    BY <1>1
  <2>. QED  BY <2>1
<1>4. Unwound = SubSeq(stack, 1, n)
  <2>1. Len(stack) - 1 = n
    BY <1>3
  <2>. QED  BY <2>1 DEF Unwound, Front
<1>5. Unwound \in Seq(Frames) /\ Len(Unwound) = n
  BY <1>3, <1>4, FrontType
<1>. QED  BY <1>1, <1>2, <1>3, <1>5

\* The frames a handler adds, and the states it gives them.
LEMMA FrameTypes ==
  /\ \A kind \in Kinds \cup {"login"}, u \in Users :
       [kind |-> kind, as |-> u, at |-> "sent"] \in Frames
  /\ [kind |-> "dialog", at |-> "open"] \in Frames
  /\ \A f \in Frames, at \in {"open", "accepted", "rejected"} :
       f.kind = "dialog" => [f EXCEPT !.at = at] \in Frames
  /\ \A f \in Frames, at \in {"sent", "ok", "failed", "info"} :
       f.kind # "dialog" => f.as \in Users /\ [f EXCEPT !.at = at] \in Frames
<1>1. "dialog" \notin Kinds \cup {"login"}
  BY DEF Kinds
<1>. QED  BY <1>1 DEF Frames

\* Requests added to and taken from those under way.
LEMMA RequestTypes ==
  ASSUME environments \in [Sessions \cup Lists -> Nat]
  PROVE  /\ \A t \in Sessions : [environments EXCEPT ![t] = @ + 1] \in [Sessions \cup Lists -> Nat]
         /\ \A t \in Sessions \cup Lists : environments[t] > 0 =>
              [environments EXCEPT ![t] = @ - 1] \in [Sessions \cup Lists -> Nat]
OBVIOUS

LEMMA StartRoundType ==
  ASSUME TypeOK, StartRound
  PROVE  /\ refresh_timer' \in BOOLEAN
         /\ count' \in 0..3
         /\ balances' \in Nat
         /\ environments' \in [Sessions \cup Lists -> Nat]
<1>1. environments' \in [Sessions \cup Lists -> Nat]
  BY DEF StartRound, TypeOK
<1>2. refresh_timer' \in BOOLEAN
  BY DEF StartRound
<1>3. count' \in 0..3 /\ balances' \in Nat
  BY DEF StartRound, TypeOK
<1>. QED  BY <1>1, <1>2, <1>3

LEMMA ForceRefreshType ==
  ASSUME TypeOK, ForceRefresh
  PROVE  /\ refresh_timer' \in BOOLEAN
         /\ count' \in 0..3
         /\ balances' \in Nat
         /\ environments' \in [Sessions \cup Lists -> Nat]
<1>1. CASE count >= 2
  BY <1>1, StartRoundType DEF ForceRefresh
<1>2. CASE ~(count >= 2)
  BY <1>2 DEF ForceRefresh, roundVars, TypeOK
<1>. QED  BY <1>1, <1>2

LEMMA CountAnswerType ==
  ASSUME TypeOK, CountAnswer
  PROVE  refresh_timer' \in BOOLEAN /\ count' \in 0..3
BY DEF TypeOK, CountAnswer

----------------------------------------------------------------------------
LEMMA InitType == Init => TypeOK
<1>. SUFFICES ASSUME Init  PROVE TypeOK
  OBVIOUS
<1>1. <<>> \in Seq(Frames)
  BY EmptySeq
<1>2. attempts \in [Kinds -> 0..UPDATE_ATTEMPT_MAX]
  BY AttemptAssumption DEF Init
<1>3. environments \in [Sessions \cup Lists -> Nat]
  BY DEF Init
<1>4. session \in Sessions
  BY DEF Init, Sessions
<1>5. running \in BOOLEAN /\ icon \in BOOLEAN /\ refresh_timer \in BOOLEAN
  BY DEF Init
<1>6. count \in 0..3 /\ balances \in Nat
  BY DEF Init
<1>7. m_current_user \in Users /\ hub \in [Users -> Lists] /\ m_lst_environments = Empty /\ stack = <<>>
  BY DEF Init
<1>. QED  BY <1>1, <1>2, <1>3, <1>4, <1>5, <1>6, <1>7 DEF TypeOK

LEMMA NextType == TypeOK /\ [Next]_vars => TypeOK'
<1>. SUFFICES ASSUME TypeOK, [Next]_vars  PROVE TypeOK'
  OBVIOUS
<1>. USE DEF hubVars
<1>1. CASE RefreshTimer
  BY <1>1, StartRoundType DEF RefreshTimer, TypeOK
<1>2. CASE PeerRegistered
  BY <1>2, ForceRefreshType DEF PeerRegistered, TypeOK
<1>3. CASE BalanceAnswer
  BY <1>3, CountAnswerType DEF BalanceAnswer, TypeOK
<1>4. CASE BalanceNotJson
  <2>1. stack' \in Seq(Frames)
    BY <1>4, FrameTypes, AppendProperties DEF BalanceNotJson, LogInAgain, TypeOK, Kinds
  <2>. QED  BY <1>4, <2>1, CountAnswerType DEF BalanceNotJson, TypeOK
<1>5. ASSUME NEW list \in Lists, EnvironmentsAnswer(list)  PROVE TypeOK'
  BY <1>5, CountAnswerType, RequestTypes DEF EnvironmentsAnswer, TypeOK
<1>6. ASSUME NEW s \in Sessions, EnvironmentsError(s)  PROVE TypeOK'
  BY <1>6, CountAnswerType, RequestTypes DEF EnvironmentsError, TypeOK
<1>7. ASSUME NEW s \in Sessions, EnvironmentsNotJson(s)  PROVE TypeOK'
  <2>1. stack' \in Seq(Frames)
    BY <1>7, FrameTypes, AppendProperties DEF EnvironmentsNotJson, LogInAgain, TypeOK, Kinds
  <2>. QED  BY <1>7, <2>1, CountAnswerType, RequestTypes DEF EnvironmentsNotJson, TypeOK
<1>8. ASSUME NEW kind \in Kinds, AskAgain(kind)  PROVE TypeOK'
  <2>1. stack' \in Seq(Frames)
    BY <1>8, UnwoundType DEF AskAgain, TypeOK
  <2>2. attempts' \in [Kinds -> 0..UPDATE_ATTEMPT_MAX]
    BY <1>8, AttemptAssumption DEF AskAgain, AttemptsLeft, TypeOK
  <2>3. balances' \in Nat /\ environments' \in [Sessions \cup Lists -> Nat]
    BY <1>8, RequestTypes DEF AskAgain, TypeOK
  <2>. QED  BY <1>8, <2>1, <2>2, <2>3 DEF AskAgain, TypeOK
<1>9. CASE Logout
  <2>1. stack' \in Seq(Frames)
    BY <1>9, FrameTypes, AppendProperties DEF Logout, TypeOK
  <2>. QED  BY <1>9, <2>1 DEF Logout, TypeOK
<1>10. CASE CancelPressed
  <2>1. PICK i \in Waiting("dialog") : stack' = SetFrame(i, "rejected")
    BY <1>10 DEF CancelPressed
  <2>2. i \in 1..Len(stack) /\ stack[i] \in Frames /\ stack[i].kind = "dialog"
    BY <2>1, ElementOfSeq DEF Waiting, TypeOK
  <2>3. stack' \in Seq(Frames)
    BY <2>1, <2>2, FrameTypes, SetFrameType DEF TypeOK
  <2>. QED  BY <1>10, <2>3 DEF CancelPressed, roundVars, TypeOK
<1>11. CASE LoginGoesOn
  <2>1. CASE LoginTop({"ok"}) /\ stack' = SetFrame(Len(stack), "info")
    <3>1. Last(stack) \in Frames /\ Last(stack).kind # "dialog" /\ Len(stack) \in 1..Len(stack)
      BY <2>1, UnwoundType DEF LoginTop, TypeOK
    <3>2. stack' \in Seq(Frames)
      BY <2>1, <3>1, FrameTypes, SetFrameType DEF Last, TypeOK
    <3>. QED  BY <1>11, <3>2 DEF LoginGoesOn, roundVars, TypeOK
  <2>2. CASE LoginTop({"sent", "failed"}) /\ stack' = Unwound
    <3>1. stack' \in Seq(Frames)
      BY <2>2, UnwoundType DEF LoginTop, TypeOK
    <3>. QED  BY <1>11, <3>1 DEF LoginGoesOn, roundVars, TypeOK
  <2>. QED  BY <1>11, <2>1, <2>2 DEF LoginGoesOn
<1>12. CASE LoginSuccess
  <2>1. stack # <<>> /\ stack \in Seq(Frames)
    BY <1>12 DEF LoginSuccess, LoginTop, TypeOK
  <2>2. DOMAIN Unwound = 1..Len(Unwound) /\ Len(Unwound) \in Nat
    BY <2>1, UnwoundType, LenProperties
  <2>3. \A i \in DOMAIN Unwound : stack[i] \in Frames
    BY <2>1, <2>2, UnwoundType, LenProperties, ElementOfSeq
  <2>4. stack' \in [1..Len(Unwound) -> Frames]
    BY <1>12, <2>2, <2>3, FrameTypes DEF LoginSuccess
  <2>5. stack' \in Seq(Frames)
    BY <2>2, <2>4, SeqDef
  <2>. QED  BY <1>12, <2>5, ForceRefreshType DEF LoginSuccess, TypeOK
<1>13. CASE DialogReturns
  <2>1. stack' \in Seq(Frames)
    BY <1>13, UnwoundType DEF DialogReturns, TypeOK
  <2>. QED  BY <1>13, <2>1 DEF DialogReturns, roundVars, TypeOK
<1>14. ASSUME NEW name \in Users, OkPressed(name)  PROVE TypeOK'
  <2>1. stack' \in Seq(Frames)
    BY <1>14, FrameTypes, AppendProperties DEF OkPressed, TypeOK
  <2>. QED  BY <1>14, <2>1 DEF OkPressed, roundVars, TypeOK
<1>15. ASSUME NEW i \in 1..Len(stack), LoginAnswer(i)  PROVE TypeOK'
  <2>1. stack[i] \in Frames /\ stack[i].kind # "dialog"
    BY <1>15, ElementOfSeq DEF LoginAnswer, TypeOK
  <2>2. stack' \in Seq(Frames)
    BY <1>15, <2>1, FrameTypes, SetFrameType DEF LoginAnswer, TypeOK
  <2>3. session' \in Sessions
    BY <1>15, <2>1, FrameTypes DEF LoginAnswer, Sessions
  <2>. QED  BY <1>15, <2>2, <2>3 DEF LoginAnswer, roundVars, TypeOK
<1>16. ASSUME NEW u \in Users, HubAnswers(u)  PROVE TypeOK'
  <2>1. /\ u \in Sessions \cup Lists /\ hub[u] \in Sessions \cup Lists
        /\ u # hub[u]
    BY ListAssumption DEF Sessions, TypeOK
  <2> DEFINE taken == [environments EXCEPT ![u] = @ - 1]
  <2>2. taken \in [Sessions \cup Lists -> Nat]
    BY <1>16, <2>1, RequestTypes DEF HubAnswers, TypeOK
  <2>3. environments' = [taken EXCEPT ![hub[u]] = @ + 1]
    BY <1>16, <2>1 DEF HubAnswers, TypeOK
  <2>4. environments' \in [Sessions \cup Lists -> Nat]
    <3>. HIDE DEF taken
    <3>. QED  BY <2>1, <2>2, <2>3
  <2>. QED  BY <1>16, <2>4 DEF HubAnswers, TypeOK
<1>17. ASSUME NEW u \in Users, NEW list \in Lists, HubChanges(u, list)  PROVE TypeOK'
  BY <1>17 DEF HubChanges, roundVars, TypeOK
<1>18. CASE SessionExpires
  BY <1>18 DEF SessionExpires, roundVars, Sessions, TypeOK
<1>19. CASE UNCHANGED vars
  BY <1>19 DEF vars, roundVars, TypeOK
<1>. QED
  BY <1>1, <1>2, <1>3, <1>4, <1>5, <1>6, <1>7, <1>8, <1>9, <1>10, <1>11, <1>12, <1>13,
     <1>14, <1>15, <1>16, <1>17, <1>18, <1>19 DEF Next, Answers, Dialog, Hub

\* Every variable keeps its type: among others, no count of requests under way
\* becomes negative, no answer is counted that was not asked for, and the
\* attempts to ask again stay within UPDATE_ATTEMPT_MAX.
THEOREM HubTypeCorrect == Spec => []TypeOK
<1>. QED  BY InitType, NextType, PTL DEF Spec

----------------------------------------------------------------------------
\* RefreshGoesOn only speaks of icon and of the variables of the rounds.
LEMMA RoundKept ==
  ASSUME RefreshGoesOn, UNCHANGED <<icon, roundVars>>
  PROVE  RefreshGoesOn'
BY DEF RefreshGoesOn, AskedEnvironments, roundVars

\* A round starts with both requests under way.
LEMMA RoundStarted ==
  ASSUME TypeOK, StartRound
  PROVE  RefreshGoesOn'
<1>1. count' = 0 /\ balances' > 0
  BY DEF StartRound, TypeOK
<1>2. environments'[session] > 0 /\ session \in DOMAIN environments'
  BY DEF StartRound, TypeOK
<1>. QED  BY <1>1, <1>2 DEF RefreshGoesOn, AskedEnvironments

\* Counting an answer: the requests of the other kind are still there after the
\* first, and the timer runs after the second.
LEMMA AnswerCounted ==
  ASSUME TypeOK, RefreshGoesOn, CountAnswer, UNCHANGED icon,
         UNCHANGED balances \/ UNCHANGED environments
  PROVE  RefreshGoesOn'
<1>1. CASE count = 0
  <2>1. count' = 1
    BY <1>1 DEF CountAnswer
  <2>2. balances' > 0 \/ AskedEnvironments'
    BY <1>1 DEF RefreshGoesOn, AskedEnvironments
  <2>. QED  BY <2>1, <2>2 DEF RefreshGoesOn
<1>2. CASE count \in {1, 2, 3}
  <2>1. count' \in {2, 3}
    BY <1>2 DEF CountAnswer
  <2>2. count = 1 => refresh_timer'
    BY DEF CountAnswer
  <2>3. count >= 2 => (icon => refresh_timer')
    BY DEF CountAnswer, RefreshGoesOn
  <2>4. icon' => refresh_timer'
    BY <1>2, <2>2, <2>3
  <2>. QED  BY <2>1, <2>4 DEF RefreshGoesOn
<1>. QED  BY <1>1, <1>2 DEF TypeOK

\* Asking again only adds requests.
LEMMA AskedAgain ==
  ASSUME TypeOK, RefreshGoesOn, NEW kind \in Kinds, AskAgain(kind)
  PROVE  RefreshGoesOn'
<1>1. balances > 0 => balances' > 0
  BY DEF AskAgain, TypeOK
<1>2. AskedEnvironments => AskedEnvironments'
  <2>1. environments' = environments \/ environments' = [environments EXCEPT ![session] = @ + 1]
    BY DEF AskAgain
  <2>2. ASSUME NEW t \in DOMAIN environments, environments[t] > 0
        PROVE  t \in DOMAIN environments' /\ environments'[t] > 0
    BY <2>1, <2>2 DEF TypeOK
  <2>. QED  BY <2>2 DEF AskedEnvironments
<1>3. UNCHANGED <<icon, count, refresh_timer>>
  BY DEF AskAgain
<1>. QED  BY <1>1, <1>2, <1>3 DEF RefreshGoesOn

\* The Hub's answer is under way instead of the request.
LEMMA HubAnswered ==
  ASSUME TypeOK, RefreshGoesOn, NEW u \in Users, HubAnswers(u)
  PROVE  RefreshGoesOn'
<1> DEFINE taken == [environments EXCEPT ![u] = @ - 1]
<1>1. hub[u] \in Sessions \cup Lists /\ u # hub[u] /\ u \in Sessions \cup Lists
  BY ListAssumption DEF TypeOK, Sessions
<1>2. taken[hub[u]] \in Nat /\ hub[u] \in DOMAIN taken
  BY <1>1 DEF TypeOK
<1>3. environments' = [taken EXCEPT ![hub[u]] = @ + 1]
  BY <1>1 DEF HubAnswers, TypeOK
<1>. HIDE DEF taken
<1>4. hub[u] \in DOMAIN environments' /\ environments'[hub[u]] > 0
  BY <1>2, <1>3
<1>5. AskedEnvironments'
  BY <1>4 DEF AskedEnvironments
<1>. QED  BY <1>5 DEF HubAnswers, RefreshGoesOn

LEMMA InitGoesOn == Init => RefreshGoesOn
<1>. SUFFICES ASSUME Init  PROVE RefreshGoesOn
  OBVIOUS
<1>1. session \in DOMAIN environments /\ environments[session] = 1
  BY DEF Init, Sessions
<1>. QED  BY <1>1 DEF Init, RefreshGoesOn, AskedEnvironments

LEMMA NextGoesOn == TypeOK /\ RefreshGoesOn /\ [Next]_vars => RefreshGoesOn'
<1>. SUFFICES ASSUME TypeOK, RefreshGoesOn, [Next]_vars  PROVE RefreshGoesOn'
  OBVIOUS
<1>1. CASE RefreshTimer
  BY <1>1, RoundStarted DEF RefreshTimer
<1>2. CASE PeerRegistered
  BY <1>2, RoundStarted DEF PeerRegistered, ForceRefresh
<1>3. CASE BalanceAnswer \/ BalanceNotJson
  BY <1>3, AnswerCounted DEF BalanceAnswer, BalanceNotJson
<1>4. ASSUME NEW t \in Sessions \cup Lists,
             EnvironmentsAnswer(t) \/ EnvironmentsError(t) \/ EnvironmentsNotJson(t)
      PROVE  RefreshGoesOn'
  BY <1>4, AnswerCounted DEF EnvironmentsAnswer, EnvironmentsError, EnvironmentsNotJson
<1>5. ASSUME NEW kind \in Kinds, AskAgain(kind)  PROVE RefreshGoesOn'
  BY <1>5, AskedAgain
<1>6. CASE Logout
  <2>1. icon' = FALSE /\ UNCHANGED <<count, balances, environments>>
    BY <1>6 DEF Logout
  <2>. QED  BY <2>1 DEF RefreshGoesOn, AskedEnvironments
<1>7. CASE LoginSuccess
  <2>1. ForceRefresh
    BY <1>7 DEF LoginSuccess
  <2>2. CASE count >= 2
    BY <2>1, <2>2, RoundStarted DEF ForceRefresh
  <2>3. CASE ~(count >= 2)
    BY <2>1, <2>3 DEF ForceRefresh, roundVars, RefreshGoesOn, AskedEnvironments
  <2>. QED  BY <2>2, <2>3
<1>8. CASE CancelPressed \/ LoginGoesOn \/ DialogReturns \/ SessionExpires
  BY <1>8, RoundKept DEF CancelPressed, LoginGoesOn, DialogReturns, SessionExpires
<1>9. ASSUME NEW name \in Users, OkPressed(name)  PROVE RefreshGoesOn'
  BY <1>9, RoundKept DEF OkPressed
<1>10. ASSUME NEW i \in 1..Len(stack), LoginAnswer(i)  PROVE RefreshGoesOn'
  BY <1>10, RoundKept DEF LoginAnswer
<1>11. ASSUME NEW u \in Users, HubAnswers(u)  PROVE RefreshGoesOn'
  BY <1>11, HubAnswered
<1>12. ASSUME NEW u \in Users, NEW list \in Lists, HubChanges(u, list)  PROVE RefreshGoesOn'
  BY <1>12, RoundKept DEF HubChanges
<1>13. CASE UNCHANGED vars
  BY <1>13, RoundKept DEF vars
<1>. QED
  BY <1>1, <1>2, <1>3, <1>4, <1>5, <1>6, <1>7, <1>8, <1>9, <1>10, <1>11, <1>12, <1>13
     DEF Next, Answers, Dialog, Hub

\* The refresh of the tray never comes to a standstill while somebody is logged
\* in: a round under way has the requests it waits for, whatever answers of other
\* rounds, repeated requests and logins are counted or come in between, and with
\* no round under way the timer runs.
THEOREM HubRefreshGoesOn == Spec => []RefreshGoesOn
<1>. QED  BY HubTypeCorrect, InitGoesOn, NextGoesOn, PTL DEF Spec

=============================================================================
