--------------------------- MODULE DeploymentProofs ----------------------------
(***************************************************************************)
(* Proofs about Deployment. The properties say what is true when a command *)
(* line has ended; the invariant adds what is true in its middle and in    *)
(* the middle of a generation.                                             *)
(***************************************************************************)
EXTENDS Deployment, TLAPS

-----------------------------------------------------------------------------
\* What runs or comes back has a unit, and systemd has loaded one.
Backed ==
  /\ enabled \/ service # "stopped" => unit # None
  /\ service # "stopped" => loaded # None

\* How far the command line has come.
Progress ==
  /\ command \in {"reload", "enable", "restart"} => unit = Mirrored(wanted)
  /\ command = "restart" => loaded = unit /\ enabled
  /\ command = "disable" => unit # None
  /\ command = "remove" => ~enabled /\ service = "stopped"
  /\ command = "forget" => unit = None

\* How far a generation has come: what it has not created yet is not there, and
\* what it has created belongs to the pair in memory.
Generation ==
  /\ service \in Generating => made # 0
  /\ service = "cert" => cert = None /\ key = None
  /\ service \in {"cert_write", "key", "key_write"} => cert # None /\ cert.pair = made
  /\ service = "cert_write" => ~cert.whole
  /\ service \in {"cert_write", "key"} => key = None
  /\ service = "key_write" => key # None /\ key.pair = made /\ ~key.whole

IInv ==
  /\ TypeOK /\ Backed /\ Progress /\ InstalledServes
  /\ Generation /\ GeneratedPairMatches

-----------------------------------------------------------------------------
LEMMA MirroredType ==
  \A o \in Options : /\ Mirrored(o) \in Options /\ Mirrored(o) # None
                     /\ Mirrored(o).https = o.https
  <1>1. \A o \in Options : Mirrored(o) \in Options
    BY DEF Mirrored, Options
  <1>2. \A o \in Options : Mirrored(o).https = o.https
    BY DEF Mirrored
  <1> QED
    BY <1>1, <1>2, NoneIsNeither

LEMMA FreshType == Fresh \in 1..2
  BY DEF Fresh

LEMMA FileType ==
  /\ Given \in File
  /\ \A p \in 0..2, w \in BOOLEAN : [pair |-> p, whole |-> w] \in File
  /\ None \notin File
  <1>1. Given \in File
    BY DEF Given, File
  <1>2. \A p \in 0..2, w \in BOOLEAN : [pair |-> p, whole |-> w] \in File
    BY DEF File
  <1> QED
    BY <1>1, <1>2, NoneIsNeither

\* The five parts of IInv depend on two groups of variables: what is installed,
\* and what is in the files.
Installed == Backed /\ Progress /\ InstalledServes
Files == Generation /\ GeneratedPairMatches

LEMMA Initially == Init => IInv
  <1> SUFFICES ASSUME Init PROVE IInv
    OBVIOUS
  <1>1. TypeOK
    <2>1. enabled \in BOOLEAN
      BY Zenon DEF Init
    <2> QED
      BY <2>1 DEF Init, TypeOK
  <1>2. Installed
    BY DEF Init, Installed, Backed, Progress, InstalledServes
  <1>3. Files
    BY DEF Init, Files, Generation, Generating, GeneratedPairMatches
  <1> QED
    BY <1>1, <1>2, <1>3 DEF IInv, Installed, Files

\* A step of the command line leaves the files alone, and whatever it does to the
\* process ends a generation or none.
LEMMA CliKeepsFiles ==
  ASSUME IInv, UNCHANGED <<cert, key, made>>,
         service' = service \/ service' \in {"stopped", "failed", "preflight"}
  PROVE  Files'
  BY DEF IInv, Files, Generation, Generating, GeneratedPairMatches

LEMMA InstallStep ==
  ASSUME IInv, NEW o \in Options, Install(o)
  PROVE  IInv'
  <1> USE DEF Install, Begin, cli, systemd, process, files, InstallSteps
  <1>1. TypeOK'
    BY DEF IInv, TypeOK
  <1>2. Installed'
    BY DEF IInv, TypeOK, Installed, Backed, Progress, InstalledServes
  <1>3. Files'
    BY CliKeepsFiles
  <1> QED
    BY <1>1, <1>2, <1>3 DEF IInv, Installed, Files

LEMMA UninstallStep ==
  ASSUME IInv, Uninstall
  PROVE  IInv'
  <1> USE DEF Uninstall, Begin, cli, systemd, process, files, UninstallSteps
  <1>1. TypeOK'
    BY DEF IInv, TypeOK
  <1>2. Installed'
    BY DEF IInv, TypeOK, Installed, Backed, Progress, InstalledServes
  <1>3. Files'
    BY CliKeepsFiles
  <1> QED
    BY <1>1, <1>2, <1>3 DEF IInv, Installed, Files

LEMMA CliStepKeeps ==
  ASSUME IInv, CliStep
  PROVE  IInv'
  <1> USE DEF Ran, cli, systemd, process, files, InstallSteps, UninstallSteps
  <1>a. /\ wanted \in Options /\ Mirrored(wanted) \in Options /\ Mirrored(wanted) # None
        /\ Mirrored(wanted).https = wanted.https
    BY MirroredType DEF IInv, TypeOK
  <1>1. CASE InstallFile
    <2>1. TypeOK'
      BY <1>1, <1>a DEF IInv, TypeOK, InstallFile
    <2>2. Installed'
      BY <1>1, <1>a DEF IInv, InstallFile, Installed, Backed, Progress, InstalledServes
    <2>3. Files'
      BY <1>1, CliKeepsFiles DEF InstallFile
    <2> QED
      BY <2>1, <2>2, <2>3 DEF IInv, Installed, Files
  <1>2. CASE Reload
    <2>1. TypeOK'
      BY <1>2 DEF IInv, TypeOK, Reload
    <2>2. Installed'
      BY <1>2, <1>a DEF IInv, Reload, Installed, Backed, Progress, InstalledServes
    <2>3. Files'
      BY <1>2, CliKeepsFiles DEF Reload
    <2> QED
      BY <2>1, <2>2, <2>3 DEF IInv, Installed, Files
  <1>3. CASE Enable
    <2>1. TypeOK'
      BY <1>3 DEF IInv, TypeOK, Enable
    <2>2. Installed'
      BY <1>3, <1>a DEF IInv, Enable, Installed, Backed, Progress, InstalledServes
    <2>3. Files'
      BY <1>3, CliKeepsFiles DEF Enable
    <2> QED
      BY <2>1, <2>2, <2>3 DEF IInv, Installed, Files
  <1>4. CASE Restart
    <2>1. TypeOK'
      BY <1>4, <1>a DEF IInv, TypeOK, Restart, Progress
    <2>2. Installed'
      BY <1>4, <1>a DEF IInv, Restart, Installed, Backed, Progress, InstalledServes
    <2>3. Files'
      BY <1>4, CliKeepsFiles DEF Restart
    <2> QED
      BY <2>1, <2>2, <2>3 DEF IInv, Installed, Files
  <1>5. CASE Disable
    <2>1. TypeOK'
      BY <1>5 DEF IInv, TypeOK, Disable
    <2>2. Installed'
      BY <1>5 DEF IInv, Disable, Installed, Backed, Progress, InstalledServes
    <2>3. Files'
      BY <1>5, CliKeepsFiles DEF Disable
    <2> QED
      BY <2>1, <2>2, <2>3 DEF IInv, Installed, Files
  <1>6. CASE Remove
    <2>1. TypeOK'
      BY <1>6 DEF IInv, TypeOK, Remove
    <2>2. Installed'
      BY <1>6 DEF IInv, Remove, Installed, Backed, Progress, InstalledServes
    <2>3. Files'
      BY <1>6, CliKeepsFiles DEF Remove
    <2> QED
      BY <2>1, <2>2, <2>3 DEF IInv, Installed, Files
  <1>7. CASE Forget
    <2>1. TypeOK'
      BY <1>7 DEF IInv, TypeOK, Forget
    <2>2. Installed'
      BY <1>7 DEF IInv, Forget, Installed, Backed, Progress, InstalledServes
    <2>3. Files'
      BY <1>7, CliKeepsFiles DEF Forget
    <2> QED
      BY <2>1, <2>2, <2>3 DEF IInv, Installed, Files
  <1> QED
    BY <1>1, <1>2, <1>3, <1>4, <1>5, <1>6, <1>7 DEF CliStep

LEMMA FaultKeeps ==
  ASSUME IInv, CommandFails \/ Fails \/ Boot
  PROVE  IInv'
  <1> USE DEF cli, systemd, process, files
  <1>1. CASE CommandFails
    <2>1. TypeOK'
      <3>1. enabled' \in BOOLEAN
        BY <1>1, Zenon DEF IInv, TypeOK, CommandFails
      <3> QED
        BY <1>1, <3>1 DEF IInv, TypeOK, CommandFails
    <2>2. Installed'
      BY <1>1 DEF IInv, TypeOK, CommandFails, Installed, Backed, Progress, InstalledServes
    <2>3. Files'
      BY <1>1, CliKeepsFiles DEF CommandFails
    <2> QED
      BY <2>1, <2>2, <2>3 DEF IInv, Installed, Files
  <1>2. CASE Fails
    <2>1. TypeOK'
      BY <1>2 DEF IInv, TypeOK, Fails
    <2>2. Installed'
      BY <1>2 DEF IInv, TypeOK, Fails, Running, Installed, Backed, Progress, InstalledServes
    <2>3. Files'
      BY <1>2, CliKeepsFiles DEF Fails
    <2> QED
      BY <2>1, <2>2, <2>3 DEF IInv, Installed, Files
  <1>3. CASE Boot
    <2>1. TypeOK'
      BY <1>3 DEF IInv, TypeOK, Backed, Boot
    <2>2. Installed'
      BY <1>3 DEF IInv, TypeOK, Boot, Installed, Backed, Progress, InstalledServes
    <2>3. Files'
      BY <1>3, CliKeepsFiles DEF Boot
    <2> QED
      BY <2>1, <2>2, <2>3 DEF IInv, Installed, Files
  <1> QED
    BY <1>1, <1>2, <1>3

\* A step of the process keeps Installed as long as the process does not stop.
LEMMA ProcessKeepsInstalled ==
  ASSUME IInv, UNCHANGED <<cli, systemd>>,
         service # "stopped", service' # "stopped",
         options' = options \/ options' = loaded
  PROVE  Installed'
  BY DEF IInv, Installed, Backed, Progress, InstalledServes, cli, systemd

LEMMA ServiceStepKeeps ==
  ASSUME IInv, ServiceStep
  PROVE  IInv'
  <1> USE FileType DEF Goes, cli, systemd, files
  <1>1. CASE Preflight
    <2>1. TypeOK'
      BY <1>1, FreshType DEF IInv, TypeOK, Preflight, Generating
    <2>2. Installed'
      BY <1>1, ProcessKeepsInstalled DEF Preflight
    <2>3. Files'
      BY <1>1, FreshType DEF IInv, Preflight, Files, Generation, Generating, GeneratedPairMatches
    <2> QED
      BY <2>1, <2>2, <2>3 DEF IInv, Installed, Files
  <1>2. CASE CreateCert
    <2>1. TypeOK'
      BY <1>2 DEF IInv, TypeOK, CreateCert, Generating
    <2>2. Installed'
      BY <1>2, ProcessKeepsInstalled DEF CreateCert
    <2>3. Files'
      BY <1>2 DEF IInv, TypeOK, CreateCert, Files, Generation, Generating, GeneratedPairMatches
    <2> QED
      BY <2>1, <2>2, <2>3 DEF IInv, Installed, Files
  <1>3. CASE WriteCert
    <2>1. TypeOK'
      BY <1>3 DEF IInv, TypeOK, WriteCert, Generating, Generation
    <2>2. Installed'
      BY <1>3, ProcessKeepsInstalled DEF WriteCert
    <2>3. Files'
      BY <1>3 DEF IInv, TypeOK, WriteCert, Files, Generation, Generating, GeneratedPairMatches
    <2> QED
      BY <2>1, <2>2, <2>3 DEF IInv, Installed, Files
  <1>4. CASE CreateKey
    <2>1. TypeOK'
      BY <1>4 DEF IInv, TypeOK, CreateKey, Generating
    <2>2. Installed'
      BY <1>4, ProcessKeepsInstalled DEF CreateKey
    <2>3. Files'
      BY <1>4 DEF IInv, TypeOK, CreateKey, Files, Generation, Generating, GeneratedPairMatches
    <2> QED
      BY <2>1, <2>2, <2>3 DEF IInv, Installed, Files
  <1>5. CASE WriteKey
    <2>1. TypeOK'
      BY <1>5 DEF IInv, TypeOK, WriteKey, Generating, Generation
    <2>2. Installed'
      BY <1>5, ProcessKeepsInstalled DEF WriteKey
    <2>3. Files'
      BY <1>5 DEF IInv, TypeOK, WriteKey, Files, Generation, Generating, GeneratedPairMatches
    <2> QED
      BY <2>1, <2>2, <2>3 DEF IInv, Installed, Files
  <1>6. CASE Start
    <2>1. TypeOK'
      BY <1>6 DEF IInv, TypeOK, Start
    <2>2. Installed'
      BY <1>6, ProcessKeepsInstalled DEF Start
    <2>3. Files'
      BY <1>6 DEF IInv, Start, Files, Generation, Generating, GeneratedPairMatches
    <2> QED
      BY <2>1, <2>2, <2>3 DEF IInv, Installed, Files
  <1>7. CASE AutoRestart
    <2>1. TypeOK'
      BY <1>7 DEF IInv, TypeOK, Backed, AutoRestart
    <2>2. Installed'
      BY <1>7, ProcessKeepsInstalled DEF AutoRestart
    <2>3. Files'
      BY <1>7, CliKeepsFiles DEF AutoRestart
    <2> QED
      BY <2>1, <2>2, <2>3 DEF IInv, Installed, Files
  <1> QED
    BY <1>1, <1>2, <1>3, <1>4, <1>5, <1>6, <1>7 DEF ServiceStep

LEMMA EditKeeps ==
  ASSUME IInv, ProvideCert \/ ProvideKey \/ Clear
  PROVE  IInv'
  <1> USE FileType DEF Edit, cli, systemd, process
  <1>1. TypeOK'
    BY DEF IInv, TypeOK, ProvideCert, ProvideKey, Clear
  <1>2. Installed'
    BY DEF IInv, ProvideCert, ProvideKey, Clear, Installed, Backed, Progress, InstalledServes
  <1>3. Files'
    BY DEF IInv, ProvideCert, ProvideKey, Clear, Given, Files, Generation, Generating,
           GeneratedPairMatches
  <1> QED
    BY <1>1, <1>2, <1>3 DEF IInv, Installed, Files

LEMMA Inductive == IInv /\ [Next]_vars => IInv'
  <1> SUFFICES ASSUME IInv, [Next]_vars PROVE IInv'
    OBVIOUS
  <1>1. ASSUME NEW o \in Options, Install(o) PROVE IInv'
    BY <1>1, InstallStep
  <1>2. CASE Uninstall
    BY <1>2, UninstallStep
  <1>3. CASE CliStep
    BY <1>3, CliStepKeeps
  <1>4. CASE CommandFails \/ Fails \/ Boot
    BY <1>4, FaultKeeps
  <1>5. CASE ServiceStep
    BY <1>5, ServiceStepKeeps
  <1>6. CASE ProvideCert \/ ProvideKey \/ Clear
    BY <1>6, EditKeeps
  <1>7. CASE UNCHANGED vars
    BY <1>7 DEF vars, cli, systemd, process, files, IInv, TypeOK, Backed, Progress,
                InstalledServes, Generation, GeneratedPairMatches
  <1> QED
    BY <1>1, <1>2, <1>3, <1>4, <1>5, <1>6, <1>7 DEF Next

LEMMA Invariance == Spec => []IInv
  BY Initially, Inductive, PTL DEF Spec

-----------------------------------------------------------------------------
\* The steps of install_unit, uninstall_unit, preflight_tls and of systemd keep
\* the types, however many commands, faults and edits there are: a process is
\* never started from a unit that is gone.
THEOREM DeploymentTypes == Spec => []TypeOK
  <1>1. IInv => TypeOK
    BY DEF IInv
  <1> QED
    BY <1>1, Invariance, PTL

\* Without a unit file, which is when uninstall_unit says that nothing is installed,
\* the service neither runs nor is to start at boot.
THEOREM NothingLeftBehind == Spec => []RemovedMeansStopped
  <1>1. IInv => RemovedMeansStopped
    BY DEF IInv, TypeOK, Backed, RemovedMeansStopped
  <1> QED
    BY <1>1, Invariance, PTL

\* After install_unit reports success file, systemd and process have the same options,
\* with the scheme it was given, until the next command line begins (cli.py:216-230).
THEOREM InstallReplaces == Spec => []InstalledServes
  <1>1. IInv => InstalledServes
    BY DEF IInv
  <1> QED
    BY <1>1, Invariance, PTL

\* generate_self_signed never pairs a certificate with a key of another generation,
\* though it may be killed between any two of its writes and started again.
THEOREM PairsMatch == Spec => []GeneratedPairMatches
  <1>1. IInv => GeneratedPairMatches
    BY DEF IInv
  <1> QED
    BY <1>1, Invariance, PTL

\* No step of the program overwrites a complete certificate or key.
THEOREM FilesKept == Spec => KeepsFiles
  <1> DEFINE Kept == /\ cert # None /\ cert.whole => cert' \in {cert, None}
                     /\ key # None /\ key.whole => key' \in {key, None}
  <1>1. IInv /\ [Next]_vars => [Kept]_vars
    <2> SUFFICES ASSUME IInv, Next PROVE Kept
      OBVIOUS
    <2> USE DEF cli, systemd, process, files
    <2>1. CASE UNCHANGED <<cert, key>>
      BY <2>1
    <2>2. CASE CreateCert \/ WriteCert \/ CreateKey \/ WriteKey
      BY <2>2 DEF CreateCert, WriteCert, CreateKey, WriteKey, Goes, IInv, Generation
    <2>3. CASE ProvideCert \/ ProvideKey \/ Clear
      BY <2>3 DEF ProvideCert, ProvideKey, Clear
    <2>4. ASSUME NEW o \in Options, Install(o) PROVE UNCHANGED <<cert, key>>
      BY <2>4 DEF Install, Begin
    <2>5. CASE Uninstall
      BY <2>5, <2>1 DEF Uninstall, Begin
    <2>6. CASE CliStep
      BY <2>6, <2>1 DEF CliStep, InstallFile, Reload, Enable, Restart, Disable, Remove, Forget, Ran
    <2>7. CASE CommandFails \/ Fails \/ Boot
      BY <2>7, <2>1 DEF CommandFails, Fails, Boot
    <2>8. CASE Preflight \/ Start \/ AutoRestart
      BY <2>8, <2>1 DEF Preflight, Start, AutoRestart
    <2> QED
      BY <2>1, <2>2, <2>3, <2>4, <2>5, <2>6, <2>7, <2>8 DEF Next, ServiceStep
  <1> QED
    BY <1>1, Invariance, PTL DEF Spec, KeepsFiles

===============================================================================
