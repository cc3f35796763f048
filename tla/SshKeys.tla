------------------------------ MODULE SshKeys ------------------------------
(***************************************************************************)
(* SshKeys: the SSH keys of this machine, and what the tray knows of the   *)
(* environments they are deployed to (SshKeyController).  The dialog that  *)
(* shows them is in SshKeyDialog.                                          *)
(*                                                                         *)
(* Threads: the main thread (the timer that reads the directory, what the  *)
(* dialog asks for, the updates of the Hub); the one thread of m_pool,     *)
(* which asks the Hub which keys its environments have and holds m_mutex   *)
(* all along; and a thread for each upload and each removal, which ends    *)
(* with a lambda that runs in that thread.  External: the directory and    *)
(* the Hub.  A key stands for its file, its name and its content.          *)
(***************************************************************************)
EXTENDS Naturals, SequencesExt

CONSTANTS
  Keys, Envs,
  MaxWork    \* bounds the workers, and the checks that wait

VARIABLES
  files,       \* the keys in ssh_keys_storage
  deployed,    \* what the Hub has: pairs of a key and an environment
  m_keys,      \* the list of keys
  env_ids,     \* for each key of the list, the environments it is known to be in
  m_envs,      \* for each environment that was asked about, its keys in order
  m_lst_healthy_environments,
  jobs,        \* the checks that wait in m_pool
  m_mutex,     \* a check holds it
  checking,    \* the environments that check has still to look at
  answer,      \* the environment it has asked about, with the answer
  workers,     \* the uploads and removals under way
  unanswered   \* history: the environments whose question failed

outside == <<files, deployed>>
known == <<m_keys, env_ids>>
check == <<jobs, m_mutex, checking, answer>>
vars == <<outside, known, m_envs, m_lst_healthy_environments, check, workers, unanswered>>

NoAnswer == <<>>
Workers == [do : {"upload", "remove"}, key : Keys, envs : SUBSET Envs,
            at : {"rest", "clean", "unlink"}]

TypeOK ==
  /\ files \subseteq Keys /\ deployed \subseteq Keys \X Envs
  /\ m_keys \in Seq(Keys) /\ IsInjective(m_keys) /\ env_ids \in [Keys -> SUBSET Envs]
  /\ DOMAIN m_envs \subseteq Envs /\ \A e \in DOMAIN m_envs : m_envs[e] \in Seq(Keys)
  /\ m_lst_healthy_environments \subseteq Envs
  /\ jobs \in Nat /\ m_mutex \in BOOLEAN /\ checking \subseteq Envs
  /\ workers \subseteq Workers /\ unanswered \subseteq Envs

\* The constructor reads the directory and has a check wait.
Init ==
  /\ files \in SUBSET Keys /\ deployed = {}
  /\ m_keys \in SetToSeqs(files) /\ env_ids = [k \in Keys |-> {}]
  /\ m_envs = <<>> /\ m_lst_healthy_environments = Envs
  /\ jobs = 1 /\ m_mutex = FALSE /\ checking = {} /\ answer = NoAnswer
  /\ workers = {} /\ unanswered = {}

----------------------------------------------------------------------------
\* refresh_key_files, every five seconds and after what the dialog does: keys are
\* only added.
Refreshed(list, in_dir) ==
  \E new \in SetToSeqs(in_dir \ ToSet(list)) :
    /\ m_keys' = list \o new
    /\ env_ids' = [k \in Keys |-> IF k \in ToSet(list) THEN env_ids[k] ELSE {}]

RefreshKeyFiles ==
  /\ ~m_mutex /\ files \ ToSet(m_keys) # {}
  /\ Refreshed(m_keys, files)
  /\ UNCHANGED <<outside, m_envs, m_lst_healthy_environments, check, workers, unanswered>>

\* environments_updated_sl, refresh_healthy_envs: these are in the Hub's list.
Updated(envs) ==
  /\ jobs < MaxWork
  /\ m_lst_healthy_environments' = envs
  /\ jobs' = jobs + 1
  /\ UNCHANGED <<outside, known, m_envs, m_mutex, checking, answer, workers, unanswered>>

EnvironmentsUpdated == Updated(Envs)

----------------------------------------------------------------------------
\* check_environment_keys, in the thread of m_pool, which holds m_mutex.

\* It forgets environments that are gone, when the numbers differ.
CheckBegins ==
  /\ jobs > 0 /\ ~m_mutex
  /\ jobs' = jobs - 1
  /\ m_mutex' = TRUE /\ checking' = m_lst_healthy_environments
  /\ LET healthy == m_lst_healthy_environments
         stays == IF Cardinality(DOMAIN m_envs) = Cardinality(healthy)
                    THEN DOMAIN m_envs ELSE DOMAIN m_envs \cap healthy
     IN m_envs' = [e \in stays |-> m_envs[e]]
  /\ UNCHANGED <<outside, known, m_lst_healthy_environments, answer, workers, unanswered>>

\* Erasing beyond the end of a vector takes its last element.
ErasedAt(list, i) == IF i <= Len(list) THEN RemoveAt(list, i) ELSE Front(list)

\* The loop over m_keys: what is left of the list when i keys have been looked at.  A
\* key whose file is gone is erased by its number in m_keys, not in this list.
LeftAfter(list) ==
  LET left[i \in 0..Len(m_keys)] ==
        IF i = 0 THEN list
        ELSE IF m_keys[i] \in ToSet(left[i - 1]) \ files THEN ErasedAt(left[i - 1], i)
        ELSE left[i - 1]
  IN left

WithoutLost(list) == LeftAfter(list)[Len(m_keys)]

\* The keys the loop finds in what was left of the list by then, and in the directory.
FoundIn(list) ==
  {m_keys[i] : i \in {j \in DOMAIN m_keys : m_keys[j] \in ToSet(LeftAfter(list)[j - 1])}}
    \cap files

\* An environment that was asked about is not asked about again.
CheckKnown ==
  /\ m_mutex /\ answer = NoAnswer
  /\ \E e \in checking \cap DOMAIN m_envs :
       /\ checking' = checking \ {e}
       /\ m_envs' = [m_envs EXCEPT ![e] = WithoutLost(@)]
       /\ env_ids' = [k \in Keys |-> IF k \in FoundIn(m_envs[e])
                                       THEN env_ids[k] \cup {e} ELSE env_ids[k]]
  /\ UNCHANGED <<outside, m_keys, m_lst_healthy_environments, jobs, m_mutex, answer, workers,
                 unanswered>>

\* The keys come in the order of m_keys.
InOrder(there) ==
  \A p, q \in DOMAIN there : \A i, j \in DOMAIN m_keys :
    p < q /\ there[p] = m_keys[i] /\ there[q] = m_keys[j] => i < j

\* is_sshkeys_in_environment: the keys the Hub has there, or no answer.
CheckAsks ==
  /\ m_mutex /\ answer = NoAnswer
  /\ \E e \in checking \ DOMAIN m_envs :
       \/ /\ \E there \in SetToSeqs({k \in ToSet(m_keys) : <<k, e>> \in deployed}) :
               InOrder(there) /\ answer' = <<e, there>>
          /\ unanswered' = unanswered \ {e}
       \/ /\ answer' = <<e, <<>> >>
          /\ unanswered' = unanswered \cup {e}
  /\ UNCHANGED <<outside, known, m_envs, m_lst_healthy_environments, jobs, m_mutex, checking,
                 workers>>

CheckRecords ==
  /\ answer # NoAnswer
  /\ LET e == answer[1]
         there == answer[2]
     IN /\ checking' = checking \ {e}
        /\ m_envs' = [f \in DOMAIN m_envs \cup {e} |-> IF f = e THEN there ELSE m_envs[f]]
        /\ env_ids' = [k \in Keys |-> IF k \in ToSet(there) THEN env_ids[k] \cup {e}
                                                            ELSE env_ids[k]]
  /\ answer' = NoAnswer
  /\ UNCHANGED <<outside, m_keys, m_lst_healthy_environments, jobs, m_mutex, workers, unanswered>>

CheckEnds ==
  /\ m_mutex /\ checking = {}
  /\ m_mutex' = FALSE
  /\ UNCHANGED <<outside, known, m_envs, m_lst_healthy_environments, jobs, checking, answer,
                 workers, unanswered>>

----------------------------------------------------------------------------
\* What the dialog asks for, in the main thread.

\* upload_key, for one key: a worker begins, and a check waits.
UploadKey ==
  /\ ~m_mutex /\ Cardinality(workers) < MaxWork /\ jobs < MaxWork
  /\ \E k \in ToSet(m_keys), envs \in SUBSET Envs \ {{}} :
       /\ envs \cap env_ids[k] = {}
       /\ workers' = workers \cup {[do |-> "upload", key |-> k, envs |-> envs, at |-> "rest"]}
  /\ jobs' = jobs + 1
  /\ UNCHANGED <<outside, known, m_envs, m_lst_healthy_environments, m_mutex, checking, answer,
                 unanswered>>

\* remove_key of a key that is in no environment: the file goes at once.
RemoveHere ==
  /\ ~m_mutex
  /\ \E k \in ToSet(m_keys) \cap files :
       /\ env_ids[k] = {}
       /\ files' = files \ {k}
       /\ Refreshed(RemoveFirst(m_keys, k), files')
  /\ UNCHANGED <<deployed, m_envs, m_lst_healthy_environments, check, workers, unanswered>>

\* remove_key of a key that is in environments: a worker begins.
RemoveEverywhere ==
  /\ ~m_mutex /\ Cardinality(workers) < MaxWork
  /\ \E k \in ToSet(m_keys) :
       /\ env_ids[k] # {}
       /\ workers' = workers \cup
            {[do |-> "remove", key |-> k, envs |-> env_ids[k], at |-> "rest"]}
  /\ Refreshed(m_keys, files)
  /\ UNCHANGED <<outside, m_envs, m_lst_healthy_environments, check, unanswered>>

----------------------------------------------------------------------------
\* The workers.

Step(w, at) == workers' = (workers \ {w}) \cup {[w EXCEPT !.at = at]}

\* add_sshkey_to_environments and remove_sshkey_from_environments, whose errors
\* change nothing.
Rest ==
  \E w \in workers :
    /\ w.at = "rest"
    /\ \/ deployed' = IF w.do = "upload" THEN deployed \cup ({w.key} \X w.envs)
                                         ELSE deployed \ ({w.key} \X w.envs)
       \/ UNCHANGED deployed
    /\ Step(w, "clean")
    /\ UNCHANGED <<files, known, m_envs, m_lst_healthy_environments, check, unanswered>>

\* Mutant: what is known is kept, only the list of healthy environments is cleaned.
Kept(envs) == m_envs

\* What is known about these environments is forgotten.
Forgotten(envs) == [e \in DOMAIN m_envs \ envs |-> m_envs[e]]

\* clean_environment_list: the environments are to be asked about again, once the
\* Hub's list has come anew.
CleanEnvironments ==
  \E w \in workers :
    /\ w.do = "upload" /\ w.at = "clean" /\ ~m_mutex
    /\ m_envs' = Forgotten(w.envs)
    /\ m_lst_healthy_environments' = m_lst_healthy_environments \ w.envs
    /\ workers' = workers \ {w}
    /\ unanswered' = unanswered \ w.envs
    /\ UNCHANGED <<outside, known, check>>

\* clean_keys_list.
CleanKey ==
  \E w \in workers :
    /\ w.do = "remove" /\ w.at = "clean" /\ ~m_mutex
    /\ m_keys' = RemoveFirst(m_keys, w.key)
    /\ env_ids' = [env_ids EXCEPT ![w.key] = {}]
    /\ Step(w, "unlink")
    /\ UNCHANGED <<outside, m_envs, m_lst_healthy_environments, check, unanswered>>

\* The two files go.  The directory may have been read since the key left the list.
Unlink ==
  \E w \in workers :
    /\ w.at = "unlink"
    /\ files' = files \ {w.key}
    /\ workers' = workers \ {w}
    /\ UNCHANGED <<deployed, known, m_envs, m_lst_healthy_environments, check, unanswered>>

----------------------------------------------------------------------------
\* A key that was never there is generated, by the dialog or by another program.
Generate ==
  /\ \E k \in Keys :
       /\ k \notin files \cup ToSet(m_keys) \cup {w.key : w \in workers}
       /\ k \notin {p[1] : p \in deployed}
       /\ \A e \in DOMAIN m_envs : k \notin ToSet(m_envs[e])
       /\ files' = files \cup {k}
  /\ UNCHANGED <<deployed, known, m_envs, m_lst_healthy_environments, check, workers, unanswered>>

\* Some environments are not healthy, or gone.
HubChanges == \E envs \in SUBSET Envs \ {Envs} : Updated(envs)

Disturbs == UploadKey \/ RemoveHere \/ RemoveEverywhere \/ Generate \/ HubChanges
Check == CheckBegins \/ CheckKnown \/ CheckAsks \/ CheckRecords \/ CheckEnds
Work == Rest \/ CleanEnvironments \/ CleanKey \/ Unlink

Next == RefreshKeyFiles \/ EnvironmentsUpdated \/ Check \/ Work \/ Disturbs

\* The Hub's list comes again and again; the pool works; a worker that waits for
\* m_mutex gets it in the end.
FairUpdate == WF_vars(EnvironmentsUpdated)
FairCheck == WF_vars(Check)
FairWork == SF_vars(Work)

Spec == Init /\ [][Next]_vars
FairSpec == Spec /\ FairUpdate /\ FairCheck /\ FairWork

----------------------------------------------------------------------------
\* An upload that the Hub has, and whose environments are still to be forgotten.
WillForget(e) == \E w \in workers : w.do = "upload" /\ w.at = "clean" /\ e \in w.envs

\* A removal that has taken the key off the list, and whose files are still there.
WillUnlink(k) == \E w \in workers : w.do = "remove" /\ w.at = "unlink" /\ w.key = k

\* A check will find the key in the answer it has, or in the one it will get.
WillFind(k, e) ==
  IF answer # NoAnswer /\ answer[1] = e THEN k \in ToSet(answer[2])
  ELSE e \notin DOMAIN m_envs

\* A key that is deployed and here is known to be there, or else something that is
\* under way will make it known, or end it: an answer from before the upload is
\* never all that is left.  Unless the question failed.  SshKeyController.cpp:396.
DeployedIsOnItsWay ==
  \A p \in deployed :
    p[1] \in files \cap ToSet(m_keys) /\ p[2] \notin env_ids[p[1]] \cup unanswered =>
      WillFind(p[1], p[2]) \/ WillForget(p[2]) \/ WillUnlink(p[1])

AllKnown ==
  \A p \in deployed : \/ p[2] \in env_ids[p[1]]
                      \/ p[1] \notin files \cap ToSet(m_keys)
                      \/ p[2] \in unanswered

\* When all is quiet, a key that was deployed is known to be there: no check that
\* was under way during the upload leaves its old answer behind.  Unless the
\* question failed, which is not asked again.  SshKeyController.cpp:142.
DeployedIsKnown == <>[][~Disturbs]_vars => <>[]AllKnown
=============================================================================
