-------------------------- MODULE InstallFunctions --------------------------
(***************************************************************************)
(* What the functions of CSystemCallWrapper that install and remove the    *)
(* components do, on each system: the locks they take, what they look for, *)
(* the scripts they write, the processes they wait for, and what each of   *)
(* them makes of how a process ended.                                      *)
(*                                                                         *)
(* A function is a sequence of steps, which the module Installers carries  *)
(* out.  The commands, their arguments and the paths are left out.         *)
(***************************************************************************)
EXTENDS Sequences

----------------------------------------------------------------------------
\* How a process ends, as ssystem tells it.
\*   done      it exited with a code that its caller takes for a success;
\*   refused   it exited with another code;
\*   given_up  it did not start, or was not over in time: an error, with code 0;
\*   crashed   a crash, with a code that is not 0.
Outcomes == {"done", "refused", "given_up", "crashed"}

\* The outcomes a caller goes on after: most look at the error and at the code,
\* others only at the error, or only at the code.
Strictly   == {"done"}
ByError    == {"done", "refused"}
ByCode     == {"done", "given_up"}
NotCrashed == Outcomes \ {"crashed"}

----------------------------------------------------------------------------
\* The steps.
\*   do       what the step does: see Installers;
\*   on       the mutex or the script it is about;
\*   fine     the outcomes after which the function goes on;
\*   vital    the process is what the function is called for;
\*   keeps    the outcome is kept, to be judged later;
\*   forgets  returning at this step leaves installer_is_busy locked;
\*   says     the outcomes for which returning here tells a success.
Step(do, on) ==
  [do |-> do, on |-> on, fine |-> Strictly, vital |-> FALSE, keeps |-> FALSE,
   forgets |-> FALSE, says |-> {}]

Mutexes == {"installer", "vagrant"}
Scripts ==
  {"p2p_installer.sh", "p2p_updater.sh", "x2goinstall.sh", "vagrant_installer.sh",
   "vagrant_libvirt_installer.sh", "vmware_utility_installer.sh", "vb_installer.sh",
   "kvminstall.sh", "kvmuninstall.sh", "chrome_installer.sh", "firefox_installer.sh",
   "install_libssl1.0-dev.sh"}
Steps ==
  [do : {"lock", "unlock", "need", "create", "write", "erase", "call", "judge"}, 
   on : Mutexes \cup Scripts \cup {""},
   fine : SUBSET Outcomes, vital : BOOLEAN, keeps : BOOLEAN, forgets : BOOLEAN,
   says : SUBSET Outcomes]

Lock(mutex)   == Step("lock", mutex)
Unlock(mutex) == Step("unlock", mutex)

\* Something must be there: a program, a file, a directory that can be made.
Need == Step("need", "")

\* The script is created and opened, filled and made executable, erased.
Create(script) == Step("create", script)
Write(script)  == Step("write", script)
Erase(script) == Step("erase", script)

\* A process is waited for: the one the function is for, another one the
\* function depends on, or one whose outcome does not matter.
Run(fine) == [Step("call", "") EXCEPT !.fine = fine, !.vital = TRUE]
Ask(fine) == [Step("call", "") EXCEPT !.fine = fine]
Try       == Ask(Outcomes)

\* The outcome of a process is kept, and judged at a later step.
Keep        == [Try EXCEPT !.keeps = TRUE]
KeepVital   == [Keep EXCEPT !.vital = TRUE]
Exec(script) == [KeepVital EXCEPT !.on = script]
Judge(fine) == [Step("judge", "") EXCEPT !.fine = fine]

Forgets(step)    == [step EXCEPT !.forgets = TRUE]
Says(step, told) == [step EXCEPT !.says = told]

\* A wrapper: installer_is_busy is held around the body, and the version is read.
Locked(body) == <<Lock("installer")>> \o body \o <<Unlock("installer")>>

\* write_script.
Written(script) == <<Create(script), Write(script)>>

\* A script written to the directory of temporary files and run by pkexec sh.
Scripted(script) ==
  <<Need, Need, Need>> \o Written(script) \o <<Exec(script), Erase(script), Judge(Strictly)>>

\* The functions of a system that does not have the component.
Absent == <<>>

----------------------------------------------------------------------------
\* P2P.

\* In Windows the service is restarted unless msiexec refused.
install_p2p ==
  [linux   |-> Locked(Scripted("p2p_installer.sh")),
   mac     |-> Locked(<<Run(Strictly)>>),
   windows |-> Locked(<<KeepVital, Judge(Outcomes \ {"refused"}), Try, Try, Judge(Strictly)>>)]

update_p2p ==
  [linux   |-> Locked(Scripted("p2p_updater.sh") \o <<Try>>),
   mac     |-> Absent,
   windows |-> Absent]

\* In Linux the code is compared with 0 and with SCWE_SUCCESS, which is 0: an
\* apt-get that has not ended within a minute counts as a success.
uninstall_p2p ==
  [linux   |-> Locked(<<Need, Run(ByCode)>>),
   mac     |-> Locked(<<Need, Run(Strictly)>>),
   windows |-> Locked(<<Run(Strictly)>>)]

----------------------------------------------------------------------------
\* X2Go.  On a Mac only the error of the copying is looked at.
install_x2go ==
  [linux   |-> Locked(Scripted("x2goinstall.sh")),
   mac     |-> Locked(<<Run(ByError)>>),
   windows |-> Locked(<<Run(Strictly)>>)]

uninstall_x2go ==
  [linux   |-> Locked(<<Need, Run(Strictly)>>),
   mac     |-> Locked(<<Need, Run(Strictly)>>),
   windows |-> Locked(<<Ask(Strictly), Need, Run(Strictly)>>)]

----------------------------------------------------------------------------
\* Vagrant, its plugins and its boxes.
install_vagrant ==
  [linux   |-> Locked(Scripted("vagrant_installer.sh")),
   mac     |-> Locked(<<Run(Strictly)>>),
   windows |-> Locked(<<Run(Strictly)>>)]

uninstall_vagrant ==
  [linux   |-> Locked(<<Need, Run(Strictly)>>),
   mac     |-> Locked(<<Run(Strictly)>>),
   windows |-> Locked(<<Ask(Strictly), Need, Run(Strictly)>>)]

\* All the operations on the plugins but the installation of libvirt.
\* Mutant: the plugins also keep the jobs of the virtual machines away.
vagrant_plugin_guarded ==
  [os \in {"linux", "mac", "windows"} |->
     Locked(<<Lock("vagrant"), Run(Strictly), Unlock("vagrant")>>)]

vagrant_plugin ==
  [os \in {"linux", "mac", "windows"} |-> Locked(<<Run(Strictly)>>)]

\* run_script: the packages are installed with no lock held, and what comes of
\* it is not looked at.
install_vagrant_libvirt ==
  [linux   |-> <<Need, Need, Need>> \o Written("vagrant_libvirt_installer.sh")
                 \o <<Exec("vagrant_libvirt_installer.sh"), Erase("vagrant_libvirt_installer.sh")>>
                 \o vagrant_plugin["linux"],
   mac     |-> Absent,
   windows |-> Absent]

\* The box is added from the downloaded file, which is then moved into the
\* directory of Vagrant: when it cannot be renamed, the lock is not given back.
install_subutai_box ==
  [os \in {"linux", "mac", "windows"} |->
     Locked(<<Run(Strictly), Need, Need, Need, Need, Need, Forgets(Need), Need>>)]

vagrant_box_remove ==
  [os \in {"linux", "mac", "windows"} |-> <<Run(Strictly)>>]

----------------------------------------------------------------------------
\* VMware and Vagrant's utility for it, which needs VMware: without it both
\* functions return with the lock.  A script that failed stays on the disk.
install_vmware_utility ==
  [linux   |-> Locked(<<Forgets(Need), Need, Need, Need,
                        Create("vmware_utility_installer.sh"), Need,
                        Write("vmware_utility_installer.sh"),
                        Exec("vmware_utility_installer.sh"), Judge(Strictly),
                        Erase("vmware_utility_installer.sh")>>),
   mac     |-> Locked(<<Forgets(Need), Ask(NotCrashed), Run(Strictly)>>),
   windows |-> Locked(<<Forgets(Need), Run(Strictly)>>)]

uninstall_vmware_utility ==
  [linux   |-> Locked(<<Forgets(Need), Need, Run(Strictly)>>),
   mac     |-> Locked(<<Forgets(Need), Run(Strictly)>>),
   windows |-> Locked(<<Forgets(Need), Run(Strictly)>>)]

install_vmware ==
  [linux   |-> Locked(<<Need, Need, Run(Strictly)>>),
   mac     |-> Locked(<<Run(ByError)>>),
   windows |-> Locked(<<Run(Strictly)>>)]

uninstall_vmware ==
  [linux   |-> Locked(<<Need, Run(Strictly)>>),
   mac     |-> Locked(<<Need, Ask(ByCode), Run(Strictly)>>),
   windows |-> Locked(<<Run(Strictly)>>)]

----------------------------------------------------------------------------
\* Parallels: every early return keeps the lock.
install_parallels ==
  [linux   |-> Absent,
   mac     |-> Locked(<<KeepVital, Forgets(Judge(NotCrashed)), Judge(ByError)>>),
   windows |-> Absent]

\* The result is that of asking the application to quit; the removal is judged
\* by its code alone.
uninstall_parallels ==
  [linux   |-> Absent,
   mac     |-> Locked(<<Forgets(Need), Keep, Forgets(Judge(ByCode)), Forgets(Run(ByCode)),
                        Judge(ByError)>>),
   windows |-> Absent]

----------------------------------------------------------------------------
\* VirtualBox: the two scripts of Linux have one name.
install_oracle_virtualbox ==
  [linux   |-> Locked(Scripted("vb_installer.sh")),
   mac     |-> Locked(<<Run(Strictly)>>),
   windows |-> Locked(<<Run(Strictly)>>)]

uninstall_oracle_virtualbox ==
  [linux   |-> Locked(<<Try>> \o Scripted("vb_installer.sh")),
   mac     |-> Locked(<<Run(Strictly)>>),
   windows |-> Locked(<<Ask(Strictly), Need, Run(Strictly)>>)]

----------------------------------------------------------------------------
\* KVM: no lock.  lsb_release is asked for the distribution and, for Ubuntu, for
\* its version (elsewhere, the step stands for nothing); returning then tells the
\* error of lsb_release, which is none when it only exited with a code or said
\* nothing.  What the script exited with is not told either.
LsbRelease == Says(Ask(Strictly), ByError)

install_kvm ==
  [linux   |-> <<LsbRelease, LsbRelease, Need, Need, Need>> \o Written("kvminstall.sh")
                 \o <<Exec("kvminstall.sh"), Erase("kvminstall.sh"), Judge(ByError)>>,
   mac     |-> Absent,
   windows |-> Absent]

uninstall_kvm ==
  [linux   |-> <<LsbRelease, LsbRelease, Need, Need, Need>> \o Written("kvmuninstall.sh")
                 \o <<Exec("kvmuninstall.sh"), Erase("kvmuninstall.sh"), Judge(ByError)>>,
   mac     |-> Absent,
   windows |-> Absent]

----------------------------------------------------------------------------
\* Chrome.
install_chrome ==
  [linux   |-> Locked(Scripted("chrome_installer.sh")),
   mac     |-> Locked(<<Run(Strictly)>>),
   windows |-> Locked(<<Run(Strictly)>>)]

uninstall_chrome ==
  [linux   |-> Locked(<<Need, Run(ByCode)>>),
   mac     |-> Locked(<<Need, Try, Run(Strictly)>>),
   windows |-> Locked(<<Ask(Strictly), Need, Run(Strictly)>>)]

----------------------------------------------------------------------------
\* Firefox.
install_firefox ==
  [linux   |-> Locked(<<Ask(Strictly)>> \o Scripted("firefox_installer.sh")),
   mac     |-> Locked(<<Run(Strictly)>>),
   windows |-> Locked(<<Run(Strictly)>>)]

\* On a Mac the outcome is that of asking Firefox to quit.
uninstall_firefox ==
  [linux   |-> Locked(<<Need, Ask(Strictly), Run(ByCode)>>),
   mac     |-> Locked(<<Need, Keep, [Try EXCEPT !.vital = TRUE], Judge(Strictly)>>),
   windows |-> Locked(<<Ask(Strictly), Need, Run(Strictly)>>)]

----------------------------------------------------------------------------
\* The E2E plugin of each browser, which is told to quit.
install_e2e_chrome ==
  [linux   |-> Locked(<<Need, Ask(ByError), Run(Strictly)>>),
   mac     |-> Locked(<<Need, Ask(Strictly), Run(Strictly)>>),
   windows |-> Locked(<<Run(Strictly), Ask(Strictly)>>)]

uninstall_e2e_chrome ==
  [linux   |-> Locked(<<Need, Ask(ByError), Run(Strictly)>>),
   mac     |-> Locked(<<Need, Need, Ask(Strictly), Run(Strictly)>>),
   windows |-> Locked(<<Ask(Strictly), Run(Strictly), Ask(Strictly)>>)]

install_e2e_firefox ==
  [linux   |-> Locked(<<Ask(ByError), Need, Run(Strictly)>>),
   mac     |-> Locked(<<Ask(Strictly), Need, Run(Strictly)>>),
   windows |-> Locked(<<Ask(Strictly), Need, Need, Need>>)]

uninstall_e2e_firefox ==
  [linux   |-> Locked(<<Ask(ByError), Need, Run(Strictly)>>),
   mac     |-> Locked(<<Ask(Strictly), Need, Run(Strictly)>>),
   windows |-> Locked(<<Ask(Strictly), Need, Need>>)]

install_e2e_safari ==
  [linux |-> Absent, mac |-> <<Run(Strictly)>>, windows |-> Absent]

\* subutai_e2e_safari_exists runs plutil and answers yes when that fails.
uninstall_e2e_safari ==
  [linux |-> Absent, mac |-> <<Try, Need, Ask(Strictly), Need, Need, Need>>, windows |-> Absent]

----------------------------------------------------------------------------
\* XQuartz, Hyper-V, and the library that P2P needs.
install_xquartz ==
  [linux |-> Absent, mac |-> Locked(<<Run(Strictly)>>), windows |-> Absent]

uninstall_xquartz ==
  [linux |-> Absent, mac |-> <<Run(Strictly)>>, windows |-> Absent]

install_hyperv ==
  [linux |-> Absent, mac |-> Absent, windows |-> <<Run(ByError)>>]

uninstall_hyperv ==
  [linux |-> Absent, mac |-> Absent, windows |-> <<Run(ByError)>>]

install_libssl ==
  [linux   |-> Scripted("install_libssl1.0-dev.sh"),
   mac     |-> Absent,
   windows |-> Absent]

----------------------------------------------------------------------------
\* The jobs that ask about the virtual machines hold vagrant_is_busy; for the
\* network interfaces they take installer_is_busy as well.  Three of the four
\* functions return with it when the hypervisor does not answer.
virtualbox_interfaces == Locked(<<Need, Forgets(Ask(Strictly))>>)
libvirt_interfaces    == Locked(<<Need, Forgets(Ask(Strictly))>>)
parallels_interfaces  == Locked(<<Need, Forgets(Ask(Strictly))>>)

hyperv_interfaces == Locked(<<Need, Try>>)

vagrant_update_information(interfaces) ==
  <<Lock("vagrant")>> \o interfaces \o <<Try, Unlock("vagrant")>>

\* vagrant_status, vagrant_halt, vagrant_reload, vagrant_destroy, vagrant_up and
\* a vagrant_update_information that knows the interfaces: one process.
vagrant_command ==
  [os \in {"linux", "mac", "windows"} |-> <<Lock("vagrant"), Try, Unlock("vagrant")>>]

update_by_virtualbox ==
  [os \in {"linux", "mac", "windows"} |-> vagrant_update_information(virtualbox_interfaces)]
update_by_libvirt ==
  [linux |-> vagrant_update_information(libvirt_interfaces), mac |-> Absent, windows |-> Absent]
update_by_parallels ==
  [linux |-> Absent, mac |-> vagrant_update_information(parallels_interfaces), windows |-> Absent]
update_by_hyperv ==
  [linux |-> Absent, mac |-> Absent, windows |-> vagrant_update_information(hyperv_interfaces)]

----------------------------------------------------------------------------
\* The functions each component's workers call: SilentInstaller, SilentUninstaller
\* and SilentUpdater.  The plugins of Vagrant are components of their own, which
\* share vagrant_plugin; what is not listed is not called for a component.
FunctionsOf ==
  [P2P               |-> {"install_p2p", "update_p2p", "uninstall_p2p"},
   X2GO              |-> {"install_x2go", "uninstall_x2go"},
   VAGRANT           |-> {"install_vagrant", "uninstall_vagrant"},
   SUBUTAI_BOX       |-> {"install_subutai_box", "vagrant_box_remove"},
   VMWARE_UTILITY    |-> {"install_vmware_utility", "uninstall_vmware_utility"},
   VMWARE            |-> {"install_vmware", "uninstall_vmware"},
   PARALLELS         |-> {"install_parallels", "uninstall_parallels"},
   ORACLE_VIRTUALBOX |-> {"install_oracle_virtualbox", "uninstall_oracle_virtualbox"},
   KVM               |-> {"install_kvm", "uninstall_kvm"},
   CHROME            |-> {"install_chrome", "uninstall_chrome"},
   FIREFOX           |-> {"install_firefox", "uninstall_firefox"},
   E2E               |-> {"install_e2e_chrome", "uninstall_e2e_chrome", "install_e2e_firefox",
                          "uninstall_e2e_firefox", "install_e2e_safari", "uninstall_e2e_safari"},
   XQUARTZ           |-> {"install_xquartz", "uninstall_xquartz"},
   HYPERV            |-> {"install_hyperv", "uninstall_hyperv"}]

InstallBodies ==
  [install_p2p |-> install_p2p, update_p2p |-> update_p2p, uninstall_p2p |-> uninstall_p2p,
   install_x2go |-> install_x2go, uninstall_x2go |-> uninstall_x2go,
   install_vagrant |-> install_vagrant, uninstall_vagrant |-> uninstall_vagrant,
   vagrant_plugin |-> vagrant_plugin, install_vagrant_libvirt |-> install_vagrant_libvirt,
   install_subutai_box |-> install_subutai_box, vagrant_box_remove |-> vagrant_box_remove,
   install_vmware_utility |-> install_vmware_utility,
   uninstall_vmware_utility |-> uninstall_vmware_utility,
   install_vmware |-> install_vmware, uninstall_vmware |-> uninstall_vmware,
   install_parallels |-> install_parallels, uninstall_parallels |-> uninstall_parallels,
   install_oracle_virtualbox |-> install_oracle_virtualbox,
   uninstall_oracle_virtualbox |-> uninstall_oracle_virtualbox,
   install_kvm |-> install_kvm, uninstall_kvm |-> uninstall_kvm,
   install_chrome |-> install_chrome, uninstall_chrome |-> uninstall_chrome,
   install_firefox |-> install_firefox, uninstall_firefox |-> uninstall_firefox,
   install_e2e_chrome |-> install_e2e_chrome, uninstall_e2e_chrome |-> uninstall_e2e_chrome,
   install_e2e_firefox |-> install_e2e_firefox, uninstall_e2e_firefox |-> uninstall_e2e_firefox,
   install_e2e_safari |-> install_e2e_safari, uninstall_e2e_safari |-> uninstall_e2e_safari,
   install_xquartz |-> install_xquartz, uninstall_xquartz |-> uninstall_xquartz,
   install_hyperv |-> install_hyperv, uninstall_hyperv |-> uninstall_hyperv,
   install_libssl |-> install_libssl,
   update_by_virtualbox |-> update_by_virtualbox, update_by_libvirt |-> update_by_libvirt,
   update_by_parallels |-> update_by_parallels, update_by_hyperv |-> update_by_hyperv,
   vagrant_command |-> vagrant_command]

Functions == DOMAIN InstallBodies
=============================================================================
