------------------------- MODULE UpdaterComponents -------------------------
(***************************************************************************)
(* The twenty IUpdaterComponent classes: what install_internal,            *)
(* update_internal and uninstall_internal of each of them do, reduced to   *)
(* the shape of their control flow.  The wording of the boxes, the names   *)
(* of the files and the scripts that are run are left out.                 *)
(***************************************************************************)

CONSTANT OS   \* the system Control Center is built for

ASSUME OSAssumption == OS \in {"linux", "mac", "windows"}

\* A plan says
\*   before   what is looked at first: "p2p_path" makes update_internal return
\*            when the daemon is not found, "license" may finish at once;
\*   ask      whether a Yes/No box may, must or cannot be shown next;
\*   fetch    whether a file is then downloaded, unless the right one is there;
\*   missing  whether a file that kurjun does not have makes the operation call
\*            its finished slot, or just return;
\*   run      how the operation is carried out: by a worker, by replacing the
\*            executable in the main thread, or not at all;
\*   box      whether the post action of a success shows a box.
PlanType ==
  [before : {"nothing", "p2p_path", "license"},
   ask : SUBSET BOOLEAN,
   fetch : SUBSET BOOLEAN,
   missing : {"finishes", "returns"},
   run : {"worker", "replace", "nothing"},
   box : SUBSET BOOLEAN]

\* A Silent(Un)Installer or SilentUpdater started at once.
Silent ==
  [before |-> "nothing", ask |-> {FALSE}, fetch |-> {FALSE},
   missing |-> "finishes", run |-> "worker", box |-> {FALSE}]

\* The same after a question, which No (or a failed check) turns into a failure.
Asked == [Silent EXCEPT !.ask = {TRUE}]

\* The same after a question and the download of a package.
AskedAndDownloaded == [Asked EXCEPT !.fetch = {TRUE}]

\* update_internal of a component that its own vendor updates.
UpToDate == [Silent EXCEPT !.run = "nothing"]

----------------------------------------------------------------------------
\* One record per class.

X2GO           == [install |-> AskedAndDownloaded, update |-> UpToDate, uninstall |-> Silent]
VAGRANT        == [install |-> AskedAndDownloaded, update |-> UpToDate, uninstall |-> Silent]
CHROME         == [install |-> AskedAndDownloaded, update |-> UpToDate, uninstall |-> Silent]
FIREFOX        == [install |-> AskedAndDownloaded, update |-> UpToDate, uninstall |-> Silent]
XQUARTZ        == [install |-> AskedAndDownloaded, update |-> UpToDate, uninstall |-> Silent]
VMWARE_UTILITY == [install |-> AskedAndDownloaded, update |-> UpToDate, uninstall |-> Silent]
VMWARE         == [install |-> AskedAndDownloaded, update |-> UpToDate, uninstall |-> Asked]
PARALLELS      == [install |-> AskedAndDownloaded, update |-> UpToDate, uninstall |-> Asked]
HYPERV         == [install |-> Asked, update |-> UpToDate, uninstall |-> Asked]

\* On a Mac the uninstaller of VirtualBox is downloaded as well.
ORACLE_VIRTUALBOX ==
  [install |-> AskedAndDownloaded, update |-> UpToDate,
   uninstall |-> IF OS = "mac" THEN AskedAndDownloaded ELSE Asked]

\* A KVM that has been installed asks the user to log in again.
KVM == [install |-> [Asked EXCEPT !.box = {TRUE}], update |-> UpToDate, uninstall |-> Asked]

VAGRANT_SUBUTAI        == [install |-> Asked, update |-> Silent, uninstall |-> Silent]
VAGRANT_VBGUEST        == [install |-> Asked, update |-> Silent, uninstall |-> Silent]
VAGRANT_LIBVIRT        == [install |-> Asked, update |-> Silent, uninstall |-> Silent]
VAGRANT_PARALLELS      == [install |-> Asked, update |-> Silent, uninstall |-> Silent]
VAGRANT_VMWARE_DESKTOP == [install |-> Asked, update |-> Silent, uninstall |-> Silent]

\* Updating the box is installing it; the question is only for a box that is not
\* there.  Removing it asks when there are peers, and fails without a license.
SUBUTAI_BOX ==
  LET installed == [AskedAndDownloaded EXCEPT !.ask = {TRUE, FALSE}] IN
  [install |-> installed, update |-> installed,
   uninstall |-> [Silent EXCEPT !.before = "license", !.ask = {TRUE, FALSE}]]

\* The plugin is downloaded unless the browser is Chrome; the box that follows is
\* left out for Safari.
E2E ==
  [install |-> [Asked EXCEPT !.fetch = {TRUE, FALSE}, !.box = {TRUE, FALSE}],
   update |-> UpToDate,
   uninstall |-> [Silent EXCEPT !.box = {TRUE}]]

\* A package that is missing on kurjun makes P2P and TRAY return without calling
\* a finished slot.  A file downloaded earlier is used again.
P2P ==
  [install |-> [AskedAndDownloaded EXCEPT !.missing = "returns"],
   update |-> [Silent EXCEPT !.before = "p2p_path", !.fetch = {TRUE, FALSE},
                             !.missing = "returns", !.box = {TRUE, FALSE},
                             !.run = IF OS = "linux" THEN "worker" ELSE "replace"],
   uninstall |-> Silent]

\* install and uninstall of the tray are never called.
TRAY ==
  [update |-> [Silent EXCEPT !.fetch = {TRUE, FALSE}, !.missing = "returns",
                             !.run = "replace", !.box = {TRUE}]]

\* m_dct_components.
Plans ==
  [TRAY |-> TRAY, P2P |-> P2P, X2GO |-> X2GO, VAGRANT |-> VAGRANT,
   ORACLE_VIRTUALBOX |-> ORACLE_VIRTUALBOX, CHROME |-> CHROME, FIREFOX |-> FIREFOX,
   E2E |-> E2E, VAGRANT_SUBUTAI |-> VAGRANT_SUBUTAI,
   VAGRANT_VBGUEST |-> VAGRANT_VBGUEST, SUBUTAI_BOX |-> SUBUTAI_BOX,
   VAGRANT_PARALLELS |-> VAGRANT_PARALLELS, VAGRANT_LIBVIRT |-> VAGRANT_LIBVIRT,
   VAGRANT_VMWARE_DESKTOP |-> VAGRANT_VMWARE_DESKTOP, VMWARE |-> VMWARE,
   VMWARE_UTILITY |-> VMWARE_UTILITY, XQUARTZ |-> XQUARTZ, HYPERV |-> HYPERV,
   KVM |-> KVM, PARALLELS |-> PARALLELS]

Components == DOMAIN Plans

\* What btn_uninstall_components offers: one browser, one hypervisor and one
\* provider plugin at a time, and the components of high priority first.
Hypervisors == {"HYPERV", "ORACLE_VIRTUALBOX", "VMWARE", "KVM", "PARALLELS"}
Browsers == {"CHROME", "FIREFOX"}
ProviderPlugins ==
  {"VAGRANT_LIBVIRT", "VAGRANT_PARALLELS", "VAGRANT_VBGUEST", "VAGRANT_VMWARE_DESKTOP"}
HighPriority ==
  {"SUBUTAI_BOX", "VAGRANT_VBGUEST", "VAGRANT_SUBUTAI", "VAGRANT_VMWARE_DESKTOP",
   "E2E", "VMWARE_UTILITY"}
=============================================================================
