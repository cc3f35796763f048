--------------------------- MODULE HubController ---------------------------
(***************************************************************************)
(* CHubController: the balance, the environments and the peers of the user *)
(* at the Bazaar (the Hub), refreshed in rounds, with logging out and in.  *)
(*                                                                         *)
(* A round sends three requests and stops m_refresh_timer; the second      *)
(* answer about the balance or the environments starts it again.  An       *)
(* answer that is no JSON (the session has expired, or there was no answer *)
(* at all) makes the handler log in again and ask once more.  login() runs *)
(* a nested event loop, and so do the login dialog and its own requests:   *)
(* meanwhile timers, answers and clicks are handled inside the handler     *)
(* that waits.  `stack' holds the waiting handlers, the innermost last.    *)
(***************************************************************************)
EXTENDS Integers, FiniteSets, Functions, SequencesExt

CONSTANTS
  Users,               \* accounts at the Hub
  NoSession,           \* a session the Hub does not (or no longer) accept
  Lists,               \* lists of environments the Hub may hold for a user
  Empty,               \* the empty list
  UPDATE_ATTEMPT_MAX,  \* 5 in the code
  MaxAsked             \* bounds the requests under way or to be repeated, by kind

ASSUME UserAssumption == NoSession \notin Users
ASSUME ListAssumption == Lists \cap (Users \cup {NoSession}) = {}
ASSUME AttemptAssumption == UPDATE_ATTEMPT_MAX \in Nat
ASSUME MaxAskedAssumption == MaxAsked \in [{"balance", "environments"} -> Nat]

VARIABLES
  running,       \* FALSE once the program has left its event loop
  icon,          \* the tray icon is shown: somebody is logged in
  m_current_user, \* who logs in, or logged in last
  session,       \* whose session the cookie of the network manager stands for
  hub,           \* the environments the Hub holds, by user
  refresh_timer, \* m_refresh_timer is active
  count,         \* UPDATED_COMPONENTS_COUNT; 3 stands for more than 2
  attempts,      \* UPDATE_*_ATTEMPT_COUNT
  balances,      \* how many requests for the balance are under way
  environments,  \* requests under way for the environments: by session while
                 \* the Hub has not answered, then by the list it answered with
  m_lst_environments, \* the environments shown
  stack          \* the handlers that wait, as frames

hubVars == <<session, hub>>
roundVars == <<refresh_timer, count, balances, environments>>
vars == <<running, icon, m_current_user, hubVars, roundVars,
          attempts, m_lst_environments, stack>>

Sessions == Users \cup {NoSession}
Kinds == {"balance", "environments"}

\* A handler that waits for login() or, kind "login", the slot of the dialog's
\* OK button; `as' is who logs in.  "sent": no success yet, and none any more if
\* the handler goes on from here, since the request is refused, lost or aborted
\* after 30 seconds; "failed": accepted, but after those 30 seconds; "info": the
\* two requests of get_user_info.
Frames ==
  [kind : Kinds \cup {"login"}, as : Users,
   at : {"sent", "ok", "failed", "info"}]
  \cup
  [kind : {"dialog"}, at : {"open", "accepted", "rejected"}]

TypeOK ==
  /\ running \in BOOLEAN /\ icon \in BOOLEAN
  /\ m_current_user \in Users
  /\ session \in Sessions
  /\ hub \in [Users -> Lists]
  /\ refresh_timer \in BOOLEAN
  /\ count \in 0..3
  /\ attempts \in [Kinds -> 0..UPDATE_ATTEMPT_MAX]
  /\ balances \in Nat
  /\ environments \in [Sessions \cup Lists -> Nat]
  /\ m_lst_environments \in Lists \cup {Empty}
  /\ stack \in Seq(Frames)

\* The handlers of `kind' that wait, and so may send one more request.
Waiting(kind) == {i \in 1..Len(stack) : stack[i].kind = kind}

\* Bound: a round is started only while each kind has fewer requests than
\* MaxAsked under way or to be repeated.
RoundFits ==
  /\ balances + Cardinality(Waiting("balance")) < MaxAsked["balance"]
  /\ FoldFunction(+, 0, environments) + Cardinality(Waiting("environments"))
       < MaxAsked["environments"]

\* TrayControlWindow's constructor has just started the first round.
Init ==
  /\ running = TRUE /\ icon = TRUE
  /\ m_current_user \in Users
  /\ session = m_current_user
  /\ hub \in [Users -> Lists]
  /\ refresh_timer = FALSE
  /\ count = 0
  /\ attempts = [k \in Kinds |-> 0]
  /\ balances = 1
  /\ environments = [t \in Sessions \cup Lists |-> IF t = session THEN 1 ELSE 0]
  /\ m_lst_environments = Empty
  /\ stack = <<>>
-----------------------------------------------------------------------------
\* Rounds.

\* refresh_timer_timeout
StartRound ==
  /\ RoundFits
  /\ refresh_timer' = FALSE
  /\ count' = 0
  /\ balances' = balances + 1
  /\ environments' = [environments EXCEPT ![session] = @ + 1]

\* Mutant: the round has had its two answers, not at least two.
ForceRefreshAtTwo ==
  IF count = 2 THEN StartRound ELSE UNCHANGED roundVars

ForceRefresh ==
  IF count >= 2 THEN StartRound ELSE UNCHANGED roundVars

RefreshTimer ==
  /\ running /\ refresh_timer
  /\ StartRound
  /\ UNCHANGED <<running, icon, m_current_user, hubVars, attempts, m_lst_environments, stack>>

\* DlgRegisterPeer has registered or unregistered a peer: force_refresh.
PeerRegistered ==
  /\ running /\ icon /\ count >= 2
  /\ ForceRefresh
  /\ UNCHANGED <<running, icon, m_current_user, hubVars, attempts, m_lst_environments, stack>>

\* Mutant: UPDATED_COMPONENTS_COUNT++ == 2.
CountAnswerLate ==
  /\ count' = IF count < 3 THEN count + 1 ELSE 3
  /\ refresh_timer' = (refresh_timer \/ count = 2)

\* ++UPDATED_COMPONENTS_COUNT == 2 starts the timer.
CountAnswer ==
  /\ count' = IF count < 3 THEN count + 1 ELSE 3
  /\ refresh_timer' = (refresh_timer \/ count = 1)

\* CRestWorker::login as the current user, called in a handler of an answer.
LogInAgain(kind) == Append(stack, [kind |-> kind, as |-> m_current_user, at |-> "sent"])

\* What a handler does once its login() has returned: the stack without it.
Unwound == Front(stack)

\* The balance has come, or an error with a JSON body.
BalanceAnswer ==
  /\ running /\ balances > 0
  /\ CountAnswer
  /\ balances' = balances - 1
  /\ UNCHANGED <<running, icon, m_current_user, hubVars, attempts, environments,
                 m_lst_environments, stack>>

\* The page of an expired session, or no body at all.
BalanceNotJson ==
  /\ running /\ balances > 0
  /\ CountAnswer
  /\ balances' = balances - 1
  /\ stack' = LogInAgain("balance")
  /\ UNCHANGED <<running, icon, m_current_user, hubVars, attempts, environments,
                 m_lst_environments>>

\* The environments have come.
EnvironmentsAnswer(list) ==
  /\ running /\ environments[list] > 0
  /\ CountAnswer
  /\ environments' = [environments EXCEPT ![list] = @ - 1]
  /\ m_lst_environments' = list
  /\ UNCHANGED <<running, icon, m_current_user, hubVars, attempts, balances, stack>>

\* An error with a JSON body: the list is kept.
EnvironmentsError(s) ==
  /\ running /\ environments[s] > 0
  /\ CountAnswer
  /\ environments' = [environments EXCEPT ![s] = @ - 1]
  /\ UNCHANGED <<running, icon, m_current_user, hubVars, attempts,
                 balances, m_lst_environments, stack>>

\* The page of an expired session, or no body at all: an error, or the 60
\* seconds after which the reply is closed.
EnvironmentsNotJson(s) ==
  /\ running /\ environments[s] > 0
  /\ CountAnswer
  /\ environments' = [environments EXCEPT ![s] = @ - 1]
  /\ stack' = LogInAgain("environments")
  /\ UNCHANGED <<running, icon, m_current_user, hubVars, attempts, balances, m_lst_environments>>

\* Mutant: one attempt too many.
OneMoreAttempt(kind) == attempts[kind] <= UPDATE_ATTEMPT_MAX

AttemptsLeft(kind) == attempts[kind] < UPDATE_ATTEMPT_MAX

\* The handler goes on after its login(): asks again, as long as the attempts
\* last, if that went well.
AskAgain(kind) ==
  LET ok == Last(stack).at = "ok"
      again == ok /\ AttemptsLeft(kind)
  IN /\ running /\ stack # <<>>
     /\ Last(stack).kind = kind
     /\ Last(stack).at \in {"sent", "ok", "failed"}
     /\ stack' = Unwound
     /\ attempts' = IF again THEN [attempts EXCEPT ![kind] = @ + 1]
                    ELSE IF ok THEN [attempts EXCEPT ![kind] = 0] ELSE attempts
     /\ balances' = IF again /\ kind = "balance" THEN balances + 1 ELSE balances
     /\ environments' = IF again /\ kind = "environments"
                        THEN [environments EXCEPT ![session] = @ + 1] ELSE environments
     /\ UNCHANGED <<running, icon, m_current_user, hubVars, refresh_timer, count,
                    m_lst_environments>>
-----------------------------------------------------------------------------
\* Logging out and in.

SetFrame(i, at) == [stack EXCEPT ![i].at = at]

\* TrayControlWindow::logout, up to the dialog's event loop; bound: one dialog.
Logout ==
  /\ running /\ icon /\ Waiting("dialog") = {}
  /\ refresh_timer' = FALSE
  /\ m_lst_environments' = Empty
  /\ icon' = FALSE
  /\ stack' = Append(stack, [kind |-> "dialog", at |-> "open"])
  /\ UNCHANGED <<running, m_current_user, hubVars, count, attempts, balances, environments>>

\* DlgLogin's OK button, with any password; bound: one login of the dialog at a
\* time.
OkPressed(name) ==
  /\ running /\ Waiting("login") = {}
  /\ \E i \in Waiting("dialog") : stack[i].at = "open"
  /\ m_current_user' = name
  /\ stack' = Append(stack, [kind |-> "login", as |-> name, at |-> "sent"])
  /\ UNCHANGED <<running, icon, hubVars, roundVars, attempts, m_lst_environments>>

\* The Cancel button, also while a login is under way.
CancelPressed ==
  /\ running
  /\ \E i \in Waiting("dialog") : stack[i].at = "open" /\ stack' = SetFrame(i, "rejected")
  /\ UNCHANGED <<running, icon, m_current_user, hubVars, roundVars, attempts, m_lst_environments>>

LoginTop(at) == running /\ stack # <<>> /\ Last(stack).kind = "login" /\ Last(stack).at \in at

\* DlgLogin::login goes on: get_user_info after a success, else a message.
LoginGoesOn ==
  /\ \/ LoginTop({"ok"}) /\ stack' = SetFrame(Len(stack), "info")
     \/ LoginTop({"sent", "failed"}) /\ stack' = Unwound
  /\ UNCHANGED <<running, icon, m_current_user, hubVars, roundVars, attempts, m_lst_environments>>

\* QDialog::accept(), then TrayControlWindow::login_success.
LoginSuccess ==
  /\ LoginTop({"info"})
  /\ stack' = [i \in DOMAIN Unwound |->
                 IF stack[i].kind = "dialog" THEN [stack[i] EXCEPT !.at = "accepted"] ELSE stack[i]]
  /\ ForceRefresh
  /\ icon' = TRUE
  /\ UNCHANGED <<running, m_current_user, hubVars, attempts, m_lst_environments>>

\* dlg.exec() has returned; without a login the program ends.
DialogReturns ==
  /\ running /\ stack # <<>>
  /\ Last(stack).kind = "dialog" /\ Last(stack).at # "open"
  /\ stack' = Unwound
  /\ running' = (Last(stack).at = "accepted")
  /\ UNCHANGED <<icon, m_current_user, hubVars, roundVars, attempts, m_lst_environments>>
-----------------------------------------------------------------------------
\* The Hub and the timeouts of send_request.  Any request may fail.

\* The Hub accepts a login: the cookie is set at once, while the handler goes on
\* when the inner ones have ended, and then fails if its 30 seconds are over.
LoginAnswer(i) ==
  /\ running /\ i \in 1..Len(stack)
  /\ stack[i].kind # "dialog" /\ stack[i].at = "sent"
  /\ session' = stack[i].as
  /\ \/ stack' = SetFrame(i, "ok")
     \/ i < Len(stack) /\ stack' = SetFrame(i, "failed")
  /\ UNCHANGED <<running, icon, m_current_user, hub, roundVars, attempts, m_lst_environments>>

\* The Hub answers a request for the environments; the answer is on its way.
HubAnswers(u) ==
  /\ running /\ environments[u] > 0
  /\ environments' = [environments EXCEPT ![u] = @ - 1, ![hub[u]] = @ + 1]
  /\ UNCHANGED <<running, icon, m_current_user, hubVars, attempts,
                 refresh_timer, count, balances, m_lst_environments, stack>>

HubChanges(u, list) ==
  /\ running /\ hub[u] # list
  /\ hub' = [hub EXCEPT ![u] = list]
  /\ UNCHANGED <<running, icon, m_current_user, session, roundVars,
                 attempts, m_lst_environments, stack>>

SessionExpires ==
  /\ running /\ session # NoSession
  /\ session' = NoSession
  /\ UNCHANGED <<running, icon, m_current_user, hub, roundVars,
                 attempts, m_lst_environments, stack>>
-----------------------------------------------------------------------------
Answers ==
  \/ BalanceAnswer \/ BalanceNotJson
  \/ \E list \in Lists : EnvironmentsAnswer(list)
  \/ \E s \in Sessions : EnvironmentsError(s) \/ EnvironmentsNotJson(s)
  \/ \E kind \in Kinds : AskAgain(kind)

Dialog ==
  \/ Logout \/ CancelPressed \/ LoginGoesOn \/ LoginSuccess \/ DialogReturns
  \/ \E name \in Users : OkPressed(name)

Hub ==
  \/ \E i \in 1..Len(stack) : LoginAnswer(i)
  \/ \E u \in Users : HubAnswers(u) \/ \E list \in Lists : HubChanges(u, list)
  \/ SessionExpires

Next == RefreshTimer \/ PeerRegistered \/ Answers \/ Dialog \/ Hub

\* Timers fire, requests are answered or time out, and a handler whose inner
\* event loop has been left goes on.  Nothing is assumed of the user, of the
\* Hub's data, of sessions or of the network.
Fairness ==
  /\ WF_vars(RefreshTimer)
  /\ WF_vars(BalanceAnswer \/ BalanceNotJson)
  /\ \A list \in Lists : WF_vars(EnvironmentsAnswer(list))
  /\ \A s \in Sessions :
       WF_vars(EnvironmentsError(s) \/ EnvironmentsNotJson(s) \/ (s \in Users /\ HubAnswers(s)))
  /\ \A kind \in Kinds : WF_vars(AskAgain(kind))
  /\ WF_vars(LoginGoesOn \/ LoginSuccess \/ DialogReturns)

Spec == Init /\ [][Next]_vars

FairSpec == Spec /\ Fairness
-----------------------------------------------------------------------------
AskedEnvironments == \E t \in DOMAIN environments : environments[t] > 0

\* A round that has not had its two answers has the requests under way that
\* will bring them, also when answers of an earlier round or repeated requests
\* are counted in their place: after no answer both are, after one there is one
\* left.  And while somebody is logged in, no round under way means that the
\* timer runs.  Otherwise the tray would never refresh again, since
\* force_refresh does nothing below 2.
RefreshGoesOn ==
  /\ count = 0 => balances > 0 /\ AskedEnvironments
  /\ count = 1 => balances > 0 \/ AskedEnvironments
  /\ icon /\ count >= 2 => refresh_timer

\* A request for the environments gets no answer, or not one of the Hub's.
RequestFails == \E u \in Users : EnvironmentsError(u) \/ EnvironmentsNotJson(u)

\* The tray comes to show what the Hub holds: once the user stays logged in, the
\* session is theirs, requests no longer fail and the Hub keeps a list, it is the
\* one shown, whatever was under way from before: answers of earlier rounds, of
\* another user or of an expired session, and handlers waiting for a login.
EnvironmentsConverge ==
  \A u \in Users, list \in Lists :
    /\ <>[](running /\ icon /\ m_current_user = u /\ session = u /\ hub[u] = list)
    /\ <>[][~RequestFails]_vars
    => <>[](m_lst_environments = list)

\* "Sign out from your account" (the tooltip of the Logout action): while the
\* login dialog asks who is to be logged in, no environments are shown.
SignedOut == ~icon => m_lst_environments = Empty

=============================================================================
