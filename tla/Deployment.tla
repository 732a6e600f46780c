------------------------------ MODULE Deployment -------------------------------
(***************************************************************************)
(* The command line of cli.py: --install-systemd and --uninstall-systemd,  *)
(* one privileged command at a time, and the service they manage, from the *)
(* preflight of its certificate to its end. systemd is external: it keeps  *)
(* the unit it loaded last, restarts a service that failed, starts enabled *)
(* units at boot, and kills the process of a unit it restarts or stops.    *)
(*                                                                         *)
(* Of the options the scheme and --no-generate matter. A file is None, or  *)
(* belongs to a pair; pair 0 is the operator's own, the others were        *)
(* generated. A file that is not whole was being written when the program  *)
(* was killed. The operator keeps off the files while they are generated,  *)
(* and a generated pair differs from every file that is there.             *)
(***************************************************************************)
EXTENDS Integers

CONSTANTS None,
          MaxCommands,  \* bound: invocations of the command line
          MaxFaults,    \* bound: failing commands, crashes, kills and boots
          MaxEdits      \* bound: files the operator provides or removes

Options == [https : BOOLEAN, no_generate : BOOLEAN]
File    == [pair : 0..2, whole : BOOLEAN]

ASSUME NoneIsNeither == None \notin Options /\ None \notin File

VARIABLES
  command,   \* the next step of the command line, "none" if it does not run
  wanted,    \* the options it was given
  report,    \* what it said last: "none", "installed", "removed" or "failed"
  unit,      \* the unit file: None or the service's options
  loaded,    \* the unit systemd has in memory
  enabled,   \* is the service to start at boot?
  service,   \* "stopped", "failed", or how far its process is
  options,   \* the options of that process,
  made,      \* ... and the pair it has generated in memory
  cert, key, \* the files at the paths of the certificate and the key
  commands, faults, edits  \* what the bounds count

cli == <<command, wanted, report>>
systemd == <<unit, loaded, enabled>>
process == <<service, options, made>>
files == <<cert, key>>
vars == <<cli, systemd, process, files, commands, faults, edits>>

Generating == {"cert", "cert_write", "key", "key_write"}

Init ==
  /\ command = "none" /\ report = "none"
  /\ wanted \in Options /\ options = wanted
  /\ unit = None /\ loaded = None /\ enabled = FALSE
  /\ service = "stopped" /\ made = 0
  /\ cert = None /\ key = None
  /\ commands = 0 /\ faults = 0 /\ edits = 0

-----------------------------------------------------------------------------
\* build_exec_args and build_unit: --no-generate is not among the arguments.
Mirrored(o) == [https |-> o.https, no_generate |-> FALSE]

\* The commands of install_unit and uninstall_unit, each with its successor.
InstallSteps == [first |-> "install", install |-> "reload", reload |-> "enable",
                 enable |-> "restart", restart |-> "none"]
UninstallSteps_RemoveFirst == [first |-> "remove", remove |-> "disable", disable |-> "forget",
                               forget |-> "none"]
UninstallSteps == [first |-> "disable", disable |-> "remove", remove |-> "forget",
                   forget |-> "none"]

\* main: the command line begins, unless there is nothing to uninstall.
Begin(step, says) ==
  /\ command = "none" /\ commands < MaxCommands
  /\ commands' = commands + 1
  /\ command' = step /\ report' = says
  /\ UNCHANGED <<systemd, process, files, faults, edits>>

Install(o) == Begin(InstallSteps.first, "none") /\ wanted' = o
Uninstall ==
  /\ IF unit = None THEN Begin("none", "failed") ELSE Begin(UninstallSteps.first, "none")
  /\ UNCHANGED wanted

\* _run: the command succeeds and the next one is due, or it fails and the
\* command line ends with an error.
Ran(step, next, says) ==
  /\ command = step /\ command' = next
  /\ report' = IF next = "none" THEN says ELSE "none"
  /\ UNCHANGED <<wanted, files, commands, faults, edits>>

\* disable --now may have disabled what it then fails to stop.
CommandFails ==
  /\ command # "none" /\ faults < MaxFaults
  /\ faults' = faults + 1 /\ command' = "none" /\ report' = "failed"
  /\ enabled' \in IF command = "disable" THEN {enabled, FALSE} ELSE {enabled}
  /\ UNCHANGED <<wanted, unit, loaded, process, files, commands, edits>>

\* enable, like daemon-reload, makes systemd load the unit file.
InstallFile ==
  /\ Ran("install", InstallSteps.install, "installed")
  /\ unit' = Mirrored(wanted) /\ UNCHANGED <<loaded, enabled, process>>
Reload ==
  /\ Ran("reload", InstallSteps.reload, "installed")
  /\ loaded' = unit /\ UNCHANGED <<unit, enabled, process>>
Enable ==
  /\ Ran("enable", InstallSteps.enable, "installed")
  /\ loaded' = unit /\ enabled' = TRUE /\ UNCHANGED <<unit, process>>
Restart_IfStopped ==
  /\ Ran("restart", InstallSteps.restart, "installed")
  /\ IF service = "stopped" THEN service' = "preflight" /\ options' = loaded /\ UNCHANGED made
     ELSE UNCHANGED process
  /\ UNCHANGED systemd
Restart ==
  /\ Ran("restart", InstallSteps.restart, "installed")
  /\ service' = "preflight" /\ options' = loaded /\ UNCHANGED <<made, systemd>>

Disable ==
  /\ Ran("disable", UninstallSteps.disable, "removed")
  /\ enabled' = FALSE /\ service' = "stopped" /\ UNCHANGED <<unit, loaded, options, made>>
Remove ==
  /\ Ran("remove", UninstallSteps.remove, "removed")
  /\ unit' = None /\ UNCHANGED <<loaded, enabled, process>>
Forget ==
  /\ Ran("forget", UninstallSteps.forget, "removed")
  /\ loaded' = unit /\ UNCHANGED <<unit, enabled, process>>

-----------------------------------------------------------------------------
\* A step of the service's process.
Goes(from, to) ==
  /\ service = from /\ service' = to
  /\ UNCHANGED <<cli, systemd, options, commands, faults, edits>>

\* preflight_tls: both files are used, one of them is refused, and a pair that
\* differs from what is there is generated where there is none.
Fresh == IF \E f \in {cert, key} \ {None} : f.pair = 1 THEN 2 ELSE 1
Preflight_Completes ==
  /\ Goes("preflight", IF ~options.https \/ (cert # None /\ key # None) THEN "starting"
                       ELSE IF options.no_generate THEN "failed"
                       ELSE IF cert # None THEN "key" ELSE "cert")
  /\ made' = Fresh /\ UNCHANGED files
Preflight ==
  /\ Goes("preflight", IF ~options.https \/ (cert # None /\ key # None) THEN "starting"
                       ELSE IF cert # None \/ key # None \/ options.no_generate THEN "failed"
                       ELSE "cert")
  /\ made' = Fresh /\ UNCHANGED files

\* generate_self_signed: the certificate, then the key; each is created, then written.
CreateCert == /\ Goes("cert", "cert_write")
              /\ cert' = [pair |-> made, whole |-> FALSE] /\ UNCHANGED <<made, key>>
WriteCert  == /\ Goes("cert_write", "key")
              /\ cert' = [pair |-> made, whole |-> TRUE] /\ UNCHANGED <<made, key>>
CreateKey  == /\ Goes("key", "key_write")
              /\ key' = [pair |-> made, whole |-> FALSE] /\ UNCHANGED <<made, cert>>
WriteKey   == /\ Goes("key_write", "starting")
              /\ key' = [pair |-> made, whole |-> TRUE] /\ UNCHANGED <<made, cert>>

\* run_app: the server loads the pair.
PairUsable == cert # None /\ key # None /\ cert.whole /\ key.whole /\ cert.pair = key.pair
Start ==
  /\ Goes("starting", IF options.https => PairUsable THEN "serving" ELSE "failed")
  /\ UNCHANGED <<made, files>>

\* A port in use, a first scrape that fails, a full disk, a crash.
Running == service \notin {"stopped", "failed"}
Fails ==
  /\ Running /\ faults < MaxFaults
  /\ faults' = faults + 1 /\ service' = "failed"
  /\ UNCHANGED <<cli, systemd, options, made, files, commands, edits>>

\* Restart=on-failure, after RestartSec.
AutoRestart_Off == FALSE
AutoRestart ==
  /\ service = "failed" /\ service' = "preflight" /\ options' = loaded
  /\ UNCHANGED <<cli, systemd, made, files, commands, faults, edits>>

\* The machine goes down at any moment, and starts what is enabled.
Boot ==
  /\ faults < MaxFaults /\ faults' = faults + 1
  /\ command' = "none" /\ report' = IF command = "none" THEN report ELSE "failed"
  /\ loaded' = unit
  /\ IF enabled THEN service' = "preflight" /\ options' = unit
                ELSE service' = "stopped" /\ UNCHANGED options
  /\ UNCHANGED <<wanted, unit, enabled, made, files, commands, edits>>

\* The operator provides a file, or clears the directory.
Edit ==
  /\ service \notin Generating /\ edits < MaxEdits /\ edits' = edits + 1
  /\ UNCHANGED <<cli, systemd, process, commands, faults>>
Given == [pair |-> 0, whole |-> TRUE]
ProvideCert == Edit /\ cert = None /\ cert' = Given /\ UNCHANGED key
ProvideKey  == Edit /\ key = None /\ key' = Given /\ UNCHANGED cert
Clear       == Edit /\ cert' = None /\ key' = None

-----------------------------------------------------------------------------
ServiceStep == Preflight \/ CreateCert \/ WriteCert \/ CreateKey \/ WriteKey \/ Start \/ AutoRestart
CliStep == InstallFile \/ Reload \/ Enable \/ Restart \/ Disable \/ Remove \/ Forget

Next ==
  \/ \E o \in Options : Install(o)
  \/ Uninstall \/ CliStep \/ CommandFails
  \/ ServiceStep \/ Fails \/ Boot
  \/ ProvideCert \/ ProvideKey \/ Clear

Spec == Init /\ [][Next]_vars

\* The process and systemd go on by themselves; nobody need use the command line.
Fairness == WF_vars(ServiceStep)
FairSpec == Spec /\ Fairness

-----------------------------------------------------------------------------
TypeOK ==
  /\ command \in {"none", "install", "reload", "enable", "restart", "disable", "remove", "forget"}
  /\ report \in {"none", "installed", "removed", "failed"}
  /\ wanted \in Options /\ options \in Options /\ made \in 0..2
  /\ unit \in Options \union {None} /\ loaded \in Options \union {None}
  /\ enabled \in BOOLEAN
  /\ service \in {"stopped", "failed", "preflight", "starting", "serving"} \union Generating
  /\ cert \in File \union {None} /\ key \in File \union {None}
  /\ commands \in Nat /\ faults \in Nat /\ edits \in Nat

\* "not installed", which is all an uninstall says when it finds no unit file, is
\* true: whatever failed before, nothing runs, restarts or comes back at boot.
RemovedMeansStopped == unit = None => ~enabled /\ service = "stopped"

\* An install that reports success has replaced what ran before: the file, the unit
\* systemd has loaded and the process have one set of options, with the scheme that
\* was asked for (--no-generate is lost, see Mirrored), and the service is back
\* after a boot.
InstalledServes ==
  report = "installed" =>
    /\ unit # None /\ unit.https = wanted.https
    /\ loaded = unit /\ enabled
    /\ service # "stopped" /\ options = unit

\* A certificate is never paired with a key that another generation wrote, however
\* often the program is killed while it writes them.
GeneratedPairMatches ==
  cert # None /\ key # None /\ cert.pair # 0 /\ key.pair # 0 => cert.pair = key.pair

\* The program leaves a complete file alone, the operator's and its own, also
\* when its counterpart is missing.
KeepsFiles ==
  [][/\ cert # None /\ cert.whole => cert' \in {cert, None}
     /\ key # None /\ key.whole => key' \in {key, None}]_vars

\* A service that was installed serves in the end, whatever failures it meets on the
\* way: only a pair that is incomplete or does not match keeps it from serving.
Unusable == options.https /\ (cert # None \/ key # None) /\ ~PairUsable
InstalledComesUp ==
  (report = "installed" /\ command = "none") ~> (service = "serving" \/ Unusable \/ command # "none")

===============================================================================
