---------------------------- MODULE FileTransfer ----------------------------
(***************************************************************************)
(* FileTransfer: the window that shows a container's directories and moves *)
(* or removes files (DlgTransferFile).                                     *)
(*                                                                         *)
(* Every handler runs in the main thread; scp, ssh and rm run in the       *)
(* global pool, and their results come back as signals in any order.  A    *)
(* transfer remembers the row of the table it was started for.  The        *)
(* window may be closed and a new one opened: rows, listings and queries   *)
(* are the window's, refresh_queries is a variable of the program.  The    *)
(* local listing is left out, and so is what a directory holds: of a       *)
(* remote listing the model keeps the directory it was made in.            *)
(***************************************************************************)
EXTENDS Naturals, Sequences, Bags

CONSTANTS
  Files,          \* the operations the user may ask for, one on each file
  KindOf,         \* what is to be done with a file, a function
  Dirs,           \* the directories of the container
  Root,           \* the one the window begins with
  MaxUnderWay     \* bounds the listings, transfers and new directories under way, and
                  \* the listings lost, when the user asks for another

\* The window begins in a directory of the container.
BeginsSomewhere == Root \in Dirs

VARIABLES
  open,               \* the window is there
  current_remote_dir,
  remote_files,       \* where the listing shown was made; "home": cd failed
  buttons,            \* set_buttons_enabled
  queries,            \* the listings under way: a bag of directories
  refresh_queries,
  creating,           \* create_folder_remote
  files_to_transfer,  \* the rows of tw_transfer_file
  transfers,          \* the transfers under way, a bag
  done,               \* the files whose operation has been carried out
  early               \* history: a handler turned them on during a listing

browser == <<current_remote_dir, remote_files, queries>>
listing == <<browser, buttons, refresh_queries, early>>
table == <<files_to_transfer, transfers, done>>
vars == <<open, listing, creating, table>>

Kinds == {"upload", "download", "remove_local", "remove_remote"}
FilesTo(kinds) == {file \in Files : KindOf[file] \in kinds}
Rows == [file : Files, status : {"to", "failed", "finished"}]
Transfers == [row : Nat, file : Files]

TypeOK ==
  /\ {open, buttons, early} \subseteq BOOLEAN
  /\ current_remote_dir \in Dirs /\ remote_files \in Dirs \cup {"home", "nothing"}
  /\ BagToSet(queries) \subseteq Dirs /\ refresh_queries \in Nat
  /\ creating \in {"no", "naming", "mkdir"}
  /\ files_to_transfer \in Seq(Rows) /\ BagToSet(transfers) \subseteq Transfers
  /\ done \subseteq Files

Init ==
  /\ open = FALSE /\ current_remote_dir = Root /\ remote_files = "nothing"
  /\ buttons = FALSE /\ queries = EmptyBag /\ refresh_queries = 0 /\ early = FALSE
  /\ creating = "no"
  /\ files_to_transfer = <<>> /\ transfers = EmptyBag /\ done = {}

Room == refresh_queries + BagCardinality(transfers)
          + (IF creating = "no" THEN 0 ELSE 1) < MaxUnderWay

----------------------------------------------------------------------------
\* refresh_remote_file_system, for the directory dir.
RefreshRemote(dir) ==
  /\ current_remote_dir' = dir
  /\ queries' = queries (+) SetToBag({dir})
  /\ refresh_queries' = refresh_queries + 1
  /\ buttons' = FALSE
  /\ UNCHANGED <<remote_files, early>>

\* set_buttons_enabled(true), by a handler that has no listing to wait for.
EnableButtons ==
  /\ buttons' = TRUE
  /\ early' = (early \/ queries # EmptyBag)
  /\ UNCHANGED <<browser, refresh_queries>>

\* The constructor and addUser, which asks for the first listing.
Open ==
  /\ ~open /\ Room
  /\ open' = TRUE
  /\ RefreshRemote(Root)
  /\ UNCHANGED <<creating, table>>

\* The window goes with the objects that wait for its listings and transfers.
\* What was started goes on, for nobody.
Close ==
  /\ open /\ creating # "naming"
  /\ open' = FALSE /\ current_remote_dir' = Root /\ remote_files' = "nothing"
  /\ buttons' = FALSE /\ queries' = EmptyBag /\ early' = FALSE
  /\ creating' = "no"
  /\ files_to_transfer' = <<>> /\ transfers' = EmptyBag /\ done' = {}
  /\ UNCHANGED refresh_queries

\* The user has the window before him, not the one that asks for a name.
Idle == open /\ creating # "naming"

----------------------------------------------------------------------------
\* The remote side of the window: directories and their listings.

\* Mutant: a listing that failed is not counted as answered.
LeftWhenSomethingCame(came) == IF came = "nothing" THEN refresh_queries ELSE refresh_queries - 1

\* Mutant: an answer is counted twice.
LeftCountedTwice(came) == refresh_queries - 2

\* --refresh_queries.
Left(came) == refresh_queries - 1

\* Mutant: the buttons come on with every answer.
AnyAnswer(left) == TRUE

\* Whether the window is done waiting.
LastAnswer(left) == left = 0

\* output_from_remote_command: the answer may be of the directory it was asked
\* for, of the user's home, where `cd' has left it, or empty.
ListingArrives ==
  \E dir \in BagToSet(queries), came \in Dirs \cup {"home", "nothing"} :
    /\ came \in {dir, "home", "nothing"}
    /\ queries' = queries (-) SetToBag({dir})
    /\ remote_files' = came
    /\ refresh_queries' = Left(came)
    /\ buttons' = (buttons \/ LastAnswer(refresh_queries'))
    /\ UNCHANGED <<open, current_remote_dir, creating, early, table>>

\* The button that asks again, a directory double-clicked and the button that
\* goes up.
Browse ==
  /\ Idle /\ buttons /\ Room
  /\ \E dir \in Dirs :
       /\ dir # current_remote_dir => dir = Root \/ remote_files # "nothing"
       /\ RefreshRemote(dir)
  /\ UNCHANGED <<open, creating, table>>

\* create_folder_remote: a window asks for the name, all else waits.
CreateFolder ==
  /\ Idle /\ buttons /\ creating = "no" /\ Room
  /\ creating' = "naming"
  /\ buttons' = FALSE
  /\ UNCHANGED <<open, browser, refresh_queries, early, table>>

\* A name is given, or the window is left.
NameIsGiven ==
  /\ creating = "naming"
  /\ creating' = "mkdir"
  /\ UNCHANGED <<open, listing, table>>

NamingIsLeft ==
  /\ creating = "naming"
  /\ creating' = "no"
  /\ EnableButtons
  /\ UNCHANGED <<open, table>>

\* The answer of mkdir.  One that failed turns no button on.
FolderIsCreated ==
  /\ creating = "mkdir"
  /\ creating' = "no"
  /\ \/ RefreshRemote(current_remote_dir)
     \/ UNCHANGED listing
  /\ UNCHANGED <<open, table>>

----------------------------------------------------------------------------
\* The table of what is to be moved or removed.

InTable == {files_to_transfer[i].file : i \in DOMAIN files_to_transfer}
UnderWay == {t.file : t \in BagToSet(transfers)}

\* The start of row i, of the rows given, in the pool.
Transfer(rows, i) == [row |-> i, file |-> rows[i].file]

\* file_transfer_field_add_file: a new last row, started at once or not.
AddRow(file, instant) ==
  LET rows == Append(files_to_transfer, [file |-> file, status |-> "to"])
  IN /\ file \notin InTable \cup UnderWay
     /\ files_to_transfer' = rows
     /\ done' = done \ {file}
     /\ IF instant
          THEN /\ Room
               /\ transfers' = transfers (+) SetToBag({Transfer(rows, Len(rows))})
          ELSE UNCHANGED transfers

\* A file of this machine is dropped on the table, which needs no button.
DropFile ==
  /\ Idle
  /\ \E file \in FilesTo({"upload"}) : AddRow(file, TRUE)
  /\ UNCHANGED <<open, listing, creating>>

\* The buttons, which start at once.  What is taken from the remote side needs a
\* listing.
MoveSelected ==
  /\ Idle /\ buttons
  /\ \E file \in FilesTo({"upload", "download"}) :
       /\ KindOf[file] = "download" => remote_files # "nothing"
       /\ AddRow(file, TRUE)
  /\ UNCHANGED <<open, listing, creating>>

RemoveSelected ==
  /\ Idle /\ buttons
  /\ \E file \in FilesTo({"remove_local", "remove_remote"}) :
       /\ KindOf[file] = "remove_remote" => remote_files # "nothing"
       /\ AddRow(file, TRUE)
  /\ UNCHANGED <<open, listing, creating>>

\* file_local_selected.
PickLocalFile ==
  /\ Idle
  /\ \E file \in FilesTo({"upload"}) : AddRow(file, FALSE)
  /\ UNCHANGED <<open, listing, creating>>

\* file_remote_selected on a file: the buttons are turned off, and not on again.
PickRemoteFile ==
  /\ Idle /\ buttons /\ remote_files # "nothing"
  /\ \E file \in FilesTo({"download"}) : AddRow(file, FALSE)
  /\ buttons' = FALSE
  /\ UNCHANGED <<open, browser, refresh_queries, early, creating>>

\* start_transfer_files: of the rows selected, or of all when none is, those not
\* finished.  A row under way is started again.
Start ==
  /\ Idle /\ buttons
  /\ \E selected \in SUBSET DOMAIN files_to_transfer :
       LET wanted == IF selected = {} THEN DOMAIN files_to_transfer ELSE selected
           started == {i \in wanted : files_to_transfer[i].status # "finished"}
           again == {i \in started \cap selected :
                       files_to_transfer[i].file \in FilesTo({"upload", "download"})}
       IN /\ started # {}
          /\ Room
          /\ files_to_transfer' = [i \in DOMAIN files_to_transfer |->
               IF i \in again THEN [files_to_transfer[i] EXCEPT !.status = "to"]
                              ELSE files_to_transfer[i]]
          /\ transfers' = transfers (+)
               SetToBag({Transfer(files_to_transfer, i) : i \in started})
  /\ UNCHANGED <<open, listing, creating, done>>

\* clear_files: the rows selected, one range of them, or all.  The rows below
\* move up; the transfers under way keep their numbers.
Clear ==
  /\ Idle /\ buttons
  /\ \E i, j \in DOMAIN files_to_transfer :
       /\ i <= j
       /\ files_to_transfer' = SubSeq(files_to_transfer, 1, i - 1)
                              \o SubSeq(files_to_transfer, j + 1, Len(files_to_transfer))
  /\ UNCHANGED <<open, listing, creating, transfers, done>>

\* Mutant: whoever ends without a crash has succeeded.
SucceedsUnlessBroken(kind, ended) == ended # "broke"

\* upload_file, download_file and send_command look at the exit code;
\* remove_file, outside Windows, does not.
Succeeds(kind, ended) == ended = "worked" \/ (ended = "refused" /\ kind = "remove_local")

\* transfer_finished, for the row the transfer was started for, whichever row that
\* is now.  A row that is finished stays as it is.  A success is followed by a new
\* listing of the side that changed.
TransferEnds ==
  \E t \in BagToSet(transfers), ended \in {"worked", "refused", "broke"} :
    LET hit == t.row \in DOMAIN files_to_transfer
               /\ files_to_transfer[t.row].status # "finished"
        success == Succeeds(KindOf[t.file], ended)
    IN /\ transfers' = transfers (-) SetToBag({t})
       /\ done' = IF ended = "worked" THEN done \cup {t.file} ELSE done
       /\ files_to_transfer' =
            IF hit THEN [files_to_transfer EXCEPT ![t.row].status =
                           IF success THEN "finished" ELSE "failed"]
                   ELSE files_to_transfer
       /\ IF ~hit \/ ~success
            THEN UNCHANGED listing
            ELSE IF files_to_transfer[t.row].file \in FilesTo({"upload", "remove_remote"})
                   THEN RefreshRemote(current_remote_dir)
                   ELSE EnableButtons
       /\ UNCHANGED <<open, creating>>

----------------------------------------------------------------------------
UserActs == Open \/ Close \/ Browse \/ CreateFolder \/ NameIsGiven \/ NamingIsLeft
            \/ DropFile \/ MoveSelected \/ RemoveSelected \/ PickLocalFile \/ PickRemoteFile
            \/ Start \/ Clear

Next ==
  \/ Open \/ Close
  \/ ListingArrives \/ Browse \/ CreateFolder \/ NameIsGiven \/ NamingIsLeft \/ FolderIsCreated
  \/ DropFile \/ MoveSelected \/ RemoveSelected \/ PickLocalFile \/ PickRemoteFile
  \/ Start \/ Clear \/ TransferEnds

\* A listing has ten seconds; scp has no limit, so a transfer need not end.
Fairness == WF_vars(ListingArrives)

Spec == Init /\ [][Next]_vars
FairSpec == Spec /\ Fairness

----------------------------------------------------------------------------
\* Unless the buttons came on while a listing was under way (the end of a download
\* or of a local removal, or a name that is not given, turns them on), the files
\* shown are of the directory their paths are made with, of the home directory, or
\* none: no answer that is late is taken for another directory's.
\* DlgTransferFile.cpp:992.
ListingIsOfDirectory ==
  open /\ ~early /\ queries = EmptyBag =>
    remote_files \in {current_remote_dir, "home", "nothing"}

\* Row i becomes finished in this step.
Finishes(i) ==
  /\ i \in DOMAIN files_to_transfer'
  /\ files_to_transfer[i].status # "finished"
  /\ files_to_transfer'[i] = [files_to_transfer[i] EXCEPT !.status = "finished"]

\* By a transfer that has done what the row says, or, as nobody looks at the exit
\* code of rm, may not have; or by one whose row was cleared, and whose number
\* another row has now.
Earned(i) ==
  LET row == files_to_transfer[i]
  IN \/ row.file \in done' \cup FilesTo({"remove_local"})
     \/ \E t \in BagToSet(transfers) : t.row = i /\ t.file # row.file

\* A row becomes finished, which makes the program forget it, only as Earned says:
\* not by the end of a transfer that failed, nor of one of another row.
\* DlgTransferFile.cpp:250.
FinishedIsEarned ==
  [][\A i \in DOMAIN files_to_transfer : Finishes(i) => Earned(i)]_vars

\* A listing that only listings of this window are counted with gives the buttons
\* back.
GivenBack ==
  (open /\ queries # EmptyBag /\ refresh_queries = BagCardinality(queries))
    ~> (buttons \/ ~open)

\* When the user waits, a listing under way gives the buttons back, whatever other
\* listings and transfers end meanwhile, unless a listing was lost with an earlier
\* window.  DlgTransferFile.cpp:1007.
ButtonsComeBack == <>[][~UserActs]_vars => GivenBack
=============================================================================
