-------------------------- MODULE ExecutableUpdater --------------------------
(***************************************************************************)
(* CExecutableUpdater::replace_executables: how the executable of P2P or   *)
(* of Control Center is replaced by the downloaded one, a step for each    *)
(* call that changes the directory.  A call may fail, and Control Center   *)
(* may end between two of them.                                            *)
(***************************************************************************)

VARIABLES
  dst, tmp,   \* the executable in its place, and the one before beside it
  before,     \* history: the one in its place when the replacement began
  perm,       \* whether that one, or else the default, can be run
  call,       \* the next call, or "waiting"
  finished    \* finished(true), finished(false), or nothing yet

vars == <<dst, tmp, before, perm, call, finished>>

\* Nothing, or an executable that can be run or not, of this download or not.
File == [is : {"none", "runs", "dead"}, new : BOOLEAN]
None == [is |-> "none", new |-> FALSE]
Mode(runs) == IF runs THEN "runs" ELSE "dead"

TypeOK ==
  /\ {dst, tmp, before} \subseteq File /\ perm \in BOOLEAN
  /\ call \in {"waiting", "remove", "rename", "copy", "permit"}
  /\ finished \in {"nothing", "success", "failure"}

Init ==
  /\ dst \in {None, [is |-> "runs", new |-> FALSE]} /\ tmp = None
  /\ before = dst /\ perm = TRUE /\ call = "waiting" /\ finished = "nothing"

\* finished(replaced).
Tells(result) == call' = "waiting" /\ finished' = result

GoesOn(next) == call' = next /\ UNCHANGED finished

\* Another download is there.  If its file is missing, that is told as a success.
Begin ==
  /\ call = "waiting"
  /\ before' = [dst EXCEPT !.new = FALSE] /\ dst' = before'
  /\ tmp' = [tmp EXCEPT !.new = FALSE]
  /\ perm' = (dst.is # "dead")
  /\ \/ /\ call' = IF dst.is = "none" THEN "copy" ELSE IF tmp # None THEN "remove" ELSE "rename"
        /\ finished' = "nothing"
     \/ Tells("success")

\* ftmp.remove().  A failure is told as a success.
RemoveTmp ==
  /\ call = "remove"
  /\ \/ tmp' = None /\ GoesOn("rename")
     \/ Tells("success") /\ UNCHANGED tmp
  /\ UNCHANGED <<dst, before, perm>>

\* Mutant: the old executable is removed.
RemoveOld ==
  /\ call = "rename"
  /\ \/ dst' = None /\ GoesOn("copy")
     \/ Tells("failure") /\ UNCHANGED dst
  /\ UNCHANGED <<tmp, before, perm>>

\* dst.rename(tmp).
RenameOld ==
  /\ call = "rename"
  /\ \/ tmp' = dst /\ dst' = None /\ GoesOn("copy")
     \/ Tells("failure") /\ UNCHANGED <<dst, tmp>>
  /\ UNCHANGED <<before, perm>>

\* Mutant: the answer of copy() is not looked at.
CopyAnyway ==
  /\ call = "copy"
  /\ GoesOn("permit")
  /\ dst' \in {[is |-> "dead", new |-> TRUE], dst}
  /\ UNCHANGED <<tmp, before, perm>>

\* src.copy(): the copy has the permissions of the download, which cannot be run.
CopyNew ==
  /\ call = "copy"
  /\ \/ dst' = [is |-> "dead", new |-> TRUE] /\ GoesOn("permit")
     \/ Tells("failure") /\ UNCHANGED dst
  /\ UNCHANGED <<tmp, before, perm>>

\* setPermissions.
Permit ==
  /\ call = "permit"
  /\ \/ dst' = [dst EXCEPT !.is = IF @ = "none" THEN @ ELSE Mode(perm)] /\ Tells("success")
     \/ Tells("failure") /\ UNCHANGED dst
  /\ UNCHANGED <<tmp, before, perm>>

\* Control Center ends in the middle, and is started again.
Crash ==
  /\ call # "waiting"
  /\ call' = "waiting"
  /\ UNCHANGED <<dst, tmp, before, perm, finished>>

Next == Begin \/ RemoveTmp \/ RenameOld \/ CopyNew \/ Permit \/ Crash

Spec == Init /\ [][Next]_vars

----------------------------------------------------------------------------
\* Whatever fails and whenever Control Center ends, an executable that was installed
\* stays somewhere: in its place, or beside it.  ExecutableUpdater.cpp:63.
OneIsLeft == [][{dst, tmp} # {None} => {dst', tmp'} # {None}]_vars

\* finished(true) means that the downloaded executable is in its place, and runs if
\* the one before did or there was none; or else that nothing was touched.  A
\* success that left no executable, or one of another mode, would be worse than the
\* download that line 50 forgets.
SuccessIsWhole ==
  finished = "success" =>
    \/ dst = before
    \/ dst = [is |-> Mode(before.is # "dead"), new |-> TRUE]
=============================================================================
