--------------------------- MODULE BootstrapProofs ---------------------------
(***************************************************************************)
(* Proofs about module Bootstrap, for any number of extensions and of      *)
(* starts.  That only an interrupted initialisation damages a volume, and  *)
(* that a later boot changes nothing, rests on what each command of        *)
(* init.sh finds on the volume: BootInv says so, command by command.       *)
(***************************************************************************)
EXTENDS Bootstrap, TLAPS

(* A volume without a cluster has neither configuration nor extensions. *)
NoCluster == dir # "initialised" => conf = "none" /\ hba = "none" /\ created = 0

(* What the commands of the initialisation find on the volume. *)
Found ==
    /\ pc = "initdb_version" => dir = "begun"
    /\ pc = "initdb_catalog" => dir = "version"
    /\ pc \in {"conf", "conf_copy", "hba", "hba_copy", "start", "extensions", "stop"} =>
           dir = "initialised"
    /\ pc = "conf" => conf = "initdb"
    /\ pc = "conf_copy" => conf = "cut"
    /\ pc \in {"hba", "hba_copy", "start", "extensions", "stop"} => conf = "bench"
    /\ pc \in {"conf", "conf_copy", "hba"} => hba = "initdb"
    /\ pc = "hba_copy" => hba = "cut"
    /\ pc \in {"start", "extensions", "stop"} => hba = "bench"
    /\ pc \in {"conf", "conf_copy", "hba", "hba_copy", "start"} => created = 0
    /\ pc = "extensions" => created < Len(Extensions)
    /\ pc = "stop" => created = Len(Extensions)

(* Which server runs at which command, and where it listens. *)
Servers ==
    /\ server = (CASE pc = "serving"                -> "serving"
                   [] pc \in {"extensions", "stop"} -> "bootstrap"
                   [] OTHER                         -> "none")
    /\ server = "none" \/ server = "bootstrap" => listen = "socket"
    /\ listen = "all" => conf = "bench"

BootInv == TypeOK /\ NoCluster /\ Found /\ Servers /\ UninterruptedIsComplete

(* The container starts. *)
LEMMA BootStep == ASSUME BootInv, Boot PROVE BootInv'
<1> USE DEF BootInv, Boot
<1>1. TypeOK'
  <2>1. fault' \in BOOLEAN /\ interrupted' \in BOOLEAN
    BY Zenon DEF TypeOK, history
  <2> QED
    BY <2>1, ExtensionsAssumption, MaxBootsAssumption DEF TypeOK, Initialising, volume, process, history
<1>2. NoCluster' /\ Found'
  BY ExtensionsAssumption DEF TypeOK, Initialising, NoCluster, Found, volume, process, history
<1>3. Servers'
  BY DEF TypeOK, Initialising, Found, Servers, volume, process, history
<1>4. UninterruptedIsComplete'
  BY DEF TypeOK, Initialising, Found, UninterruptedIsComplete, Damaged, Complete, volume, process, history
<1> QED
  BY <1>1, <1>2, <1>3, <1>4

(* The volume is removed. *)
LEMMA WipeStep == ASSUME BootInv, Wipe PROVE BootInv'
<1> USE DEF BootInv, Wipe
<1>1. TypeOK'
  <2>1. fault' \in BOOLEAN /\ interrupted' \in BOOLEAN
    BY Zenon DEF TypeOK, history
  <2> QED
    BY <2>1, ExtensionsAssumption, MaxBootsAssumption DEF TypeOK, Initialising, process, history
<1>2. NoCluster' /\ Found'
  BY ExtensionsAssumption DEF TypeOK, Initialising, NoCluster, Found, process, history
<1>3. Servers'
  BY DEF TypeOK, Initialising, Found, Servers, process, history
<1>4. UninterruptedIsComplete'
  BY DEF TypeOK, Initialising, Found, UninterruptedIsComplete, Damaged, Complete, process, history
<1> QED
  BY <1>1, <1>2, <1>3, <1>4

(* init.sh looks at PG_VERSION. *)
LEMMA CheckStep == ASSUME BootInv, Check PROVE BootInv'
<1> USE DEF BootInv, Check
<1>1. TypeOK'
  BY ExtensionsAssumption, MaxBootsAssumption DEF TypeOK, Initialising, Found, At, Quiet, volume, process, history
<1>2. NoCluster' /\ Found'
  BY ExtensionsAssumption DEF TypeOK, Initialising, NoCluster, Found, At, Quiet, volume, process, history
<1>3. Servers'
  BY DEF TypeOK, Initialising, Found, Servers, At, Quiet, volume, process, history
<1>4. UninterruptedIsComplete'
  BY DEF TypeOK, Initialising, Found, UninterruptedIsComplete, Damaged, Complete, At, Quiet, volume, process, history
<1> QED
  BY <1>1, <1>2, <1>3, <1>4

(* initdb begins. *)
LEMMA InitdbStep == ASSUME BootInv, Initdb PROVE BootInv'
<1> USE DEF BootInv, Initdb
<1>1. TypeOK'
  BY ExtensionsAssumption, MaxBootsAssumption DEF TypeOK, Initialising, Found, At, Quiet, volume, process, history
<1>2. NoCluster' /\ Found'
  BY ExtensionsAssumption DEF TypeOK, Initialising, NoCluster, Found, At, Quiet, volume, process, history
<1>3. Servers'
  BY DEF TypeOK, Initialising, Found, Servers, At, Quiet, volume, process, history
<1>4. UninterruptedIsComplete'
  BY DEF TypeOK, Initialising, Found, UninterruptedIsComplete, Damaged, Complete, At, Quiet, volume, process, history
<1> QED
  BY <1>1, <1>2, <1>3, <1>4

(* initdb refuses the directory. *)
LEMMA InitdbRefusesStep == ASSUME BootInv, InitdbRefuses PROVE BootInv'
<1> USE DEF BootInv, InitdbRefuses
<1>1. TypeOK'
  BY ExtensionsAssumption, MaxBootsAssumption DEF TypeOK, Initialising, Found, At, Quiet, volume, process, history
<1>2. NoCluster' /\ Found'
  BY ExtensionsAssumption DEF TypeOK, Initialising, NoCluster, Found, At, Quiet, volume, process, history
<1>3. Servers'
  BY DEF TypeOK, Initialising, Found, Servers, At, Quiet, volume, process, history
<1>4. UninterruptedIsComplete'
  BY DEF TypeOK, Initialising, Found, UninterruptedIsComplete, Damaged, Complete, At, Quiet, volume, process, history
<1> QED
  BY <1>1, <1>2, <1>3, <1>4

(* initdb writes PG_VERSION. *)
LEMMA InitdbVersionStep == ASSUME BootInv, InitdbVersion PROVE BootInv'
<1> USE DEF BootInv, InitdbVersion
<1>1. TypeOK'
  BY ExtensionsAssumption, MaxBootsAssumption DEF TypeOK, Initialising, Found, At, Quiet, volume, process, history
<1>2. NoCluster' /\ Found'
  BY ExtensionsAssumption DEF TypeOK, Initialising, NoCluster, Found, At, Quiet, volume, process, history
<1>3. Servers'
  BY DEF TypeOK, Initialising, Found, Servers, At, Quiet, volume, process, history
<1>4. UninterruptedIsComplete'
  BY DEF TypeOK, Initialising, Found, UninterruptedIsComplete, Damaged, Complete, At, Quiet, volume, process, history
<1> QED
  BY <1>1, <1>2, <1>3, <1>4

(* initdb is done. *)
LEMMA InitdbDoneStep == ASSUME BootInv, InitdbDone PROVE BootInv'
<1> USE DEF BootInv, InitdbDone
<1>1. TypeOK'
  BY ExtensionsAssumption, MaxBootsAssumption DEF TypeOK, Initialising, Found, At, Quiet, volume, process, history
<1>2. NoCluster' /\ Found'
  BY ExtensionsAssumption DEF TypeOK, Initialising, NoCluster, Found, At, Quiet, volume, process, history
<1>3. Servers'
  BY DEF TypeOK, Initialising, Found, Servers, At, Quiet, volume, process, history
<1>4. UninterruptedIsComplete'
  BY DEF TypeOK, Initialising, Found, UninterruptedIsComplete, Damaged, Complete, At, Quiet, volume, process, history
<1> QED
  BY <1>1, <1>2, <1>3, <1>4

(* postgresql.conf is installed. *)
LEMMA InstallConfStep == ASSUME BootInv, InstallConf PROVE BootInv'
<1> USE DEF BootInv, InstallConf
<1>1. TypeOK'
  BY ExtensionsAssumption, MaxBootsAssumption DEF TypeOK, Initialising, Found, At, Quiet, volume, process, history
<1>2. NoCluster' /\ Found'
  <2>1. CASE At("conf", "conf_copy") /\ conf' = "cut"
    BY <2>1 DEF NoCluster, Found, At
  <2>2. CASE At("conf_copy", "hba") /\ conf' = "bench"
    BY <2>2 DEF NoCluster, Found, At
  <2> QED
    BY <2>1, <2>2
<1>3. Servers'
  BY DEF TypeOK, Initialising, Found, Servers, At, Quiet, volume, process, history
<1>4. UninterruptedIsComplete'
  BY DEF TypeOK, Initialising, Found, UninterruptedIsComplete, Damaged, Complete, At, Quiet, volume, process, history
<1> QED
  BY <1>1, <1>2, <1>3, <1>4

(* pg_hba.conf is installed. *)
LEMMA InstallHbaStep == ASSUME BootInv, InstallHba PROVE BootInv'
<1> USE DEF BootInv, InstallHba
<1>1. TypeOK'
  BY ExtensionsAssumption, MaxBootsAssumption DEF TypeOK, Initialising, Found, At, Quiet, volume, process, history
<1>2. NoCluster' /\ Found'
  BY ExtensionsAssumption DEF TypeOK, Initialising, NoCluster, Found, At, Quiet, volume, process, history
<1>3. Servers'
  BY DEF TypeOK, Initialising, Found, Servers, At, Quiet, volume, process, history
<1>4. UninterruptedIsComplete'
  BY DEF TypeOK, Initialising, Found, UninterruptedIsComplete, Damaged, Complete, At, Quiet, volume, process, history
<1> QED
  BY <1>1, <1>2, <1>3, <1>4

(* The bootstrap server starts. *)
LEMMA StartBootstrapStep == ASSUME BootInv, StartBootstrap PROVE BootInv'
<1> USE DEF BootInv, StartBootstrap
<1>1. TypeOK'
  BY ExtensionsAssumption, MaxBootsAssumption DEF TypeOK, Initialising, Found, At, volume, process, history
<1>2. NoCluster' /\ Found'
  BY ExtensionsAssumption DEF TypeOK, Initialising, NoCluster, Found, At, volume, process, history
<1>3. Servers'
  BY DEF TypeOK, Initialising, Found, Servers, At, volume, process, history
<1>4. UninterruptedIsComplete'
  BY DEF TypeOK, Initialising, Found, UninterruptedIsComplete, Damaged, Complete, At, volume, process, history
<1> QED
  BY <1>1, <1>2, <1>3, <1>4

(* An extension is created. *)
LEMMA CreateExtensionStep == ASSUME BootInv, CreateExtension PROVE BootInv'
<1> USE DEF BootInv, CreateExtension
<1>1. TypeOK'
  BY ExtensionsAssumption, MaxBootsAssumption DEF TypeOK, Initialising, Found, At, Quiet, volume, process, history
<1>2. NoCluster' /\ Found'
  BY ExtensionsAssumption DEF TypeOK, Initialising, NoCluster, Found, At, Quiet, volume, process, history
<1>3. Servers'
  BY DEF TypeOK, Initialising, Found, Servers, At, Quiet, volume, process, history
<1>4. UninterruptedIsComplete'
  BY DEF TypeOK, Initialising, Found, UninterruptedIsComplete, Damaged, Complete, At, Quiet, volume, process, history
<1> QED
  BY <1>1, <1>2, <1>3, <1>4

(* The bootstrap server stops. *)
LEMMA StopBootstrapStep == ASSUME BootInv, StopBootstrap PROVE BootInv'
<1> USE DEF BootInv, StopBootstrap
<1>1. TypeOK'
  BY ExtensionsAssumption, MaxBootsAssumption DEF TypeOK, Initialising, Found, At, volume, process, history
<1>2. NoCluster' /\ Found'
  BY ExtensionsAssumption DEF TypeOK, Initialising, NoCluster, Found, At, volume, process, history
<1>3. Servers'
  BY DEF TypeOK, Initialising, Found, Servers, At, volume, process, history
<1>4. UninterruptedIsComplete'
  BY DEF TypeOK, Initialising, Found, UninterruptedIsComplete, Damaged, Complete, At, volume, process, history
<1> QED
  BY <1>1, <1>2, <1>3, <1>4

(* The container becomes postgres. *)
LEMMA ExecStep == ASSUME BootInv, Exec PROVE BootInv'
<1> USE DEF BootInv, Exec
<1>1. TypeOK'
  BY ExtensionsAssumption, MaxBootsAssumption DEF TypeOK, Initialising, Found, At, volume, process, history, CanServe, Configured
<1>2. NoCluster' /\ Found'
  BY ExtensionsAssumption DEF TypeOK, Initialising, NoCluster, Found, At, volume, process, history, CanServe, Configured
<1>3. Servers'
  BY DEF TypeOK, Initialising, Found, Servers, At, volume, process, history, CanServe, Configured
<1>4. UninterruptedIsComplete'
  BY DEF TypeOK, Initialising, Found, UninterruptedIsComplete, Damaged, Complete, At, volume, process, history, CanServe, Configured
<1> QED
  BY <1>1, <1>2, <1>3, <1>4

(* A command fails. *)
LEMMA CommandFailsStep == ASSUME BootInv, CommandFails PROVE BootInv'
<1> USE DEF BootInv, CommandFails
<1>1. TypeOK'
  BY ExtensionsAssumption, MaxBootsAssumption DEF TypeOK, Initialising, Found, ContainerEnds
<1>2. NoCluster' /\ Found'
  BY ExtensionsAssumption DEF TypeOK, Initialising, NoCluster, Found, ContainerEnds
<1>3. Servers'
  BY DEF TypeOK, Initialising, Found, Servers, ContainerEnds
<1>4. UninterruptedIsComplete'
  BY DEF TypeOK, Initialising, Found, UninterruptedIsComplete, Damaged, Complete, ContainerEnds
<1> QED
  BY <1>1, <1>2, <1>3, <1>4

(* The container is stopped. *)
LEMMA StopStep == ASSUME BootInv, Stop PROVE BootInv'
<1> USE DEF BootInv, Stop
<1>1. TypeOK'
  BY ExtensionsAssumption, MaxBootsAssumption DEF TypeOK, Initialising, Found, ContainerEnds, volume
<1>2. NoCluster' /\ Found'
  BY ExtensionsAssumption DEF TypeOK, Initialising, NoCluster, Found, ContainerEnds, volume
<1>3. Servers'
  BY DEF TypeOK, Initialising, Found, Servers, ContainerEnds, volume
<1>4. UninterruptedIsComplete'
  BY DEF TypeOK, Initialising, Found, UninterruptedIsComplete, Damaged, Complete, ContainerEnds, volume
<1> QED
  BY <1>1, <1>2, <1>3, <1>4

---------------------------------------------------------------------------
(* BootInv holds in every reachable state. *)
THEOREM BootInvariant == Spec => []BootInv
<1>1. Init => BootInv
  <2> SUFFICES ASSUME Init PROVE BootInv
    OBVIOUS
  <2> USE DEF Init
  <2>1. fault \in BOOLEAN /\ interrupted \in BOOLEAN
    BY Zenon
  <2>2. TypeOK
    BY <2>1, ExtensionsAssumption, MaxBootsAssumption DEF TypeOK
  <2>3. NoCluster /\ Found /\ Servers /\ UninterruptedIsComplete
    BY DEF NoCluster, Found, Servers, UninterruptedIsComplete, Damaged
  <2> QED
    BY <2>2, <2>3 DEF BootInv
<1>2. BootInv /\ [Next]_vars => BootInv'
  <2> SUFFICES ASSUME BootInv, [Next]_vars PROVE BootInv'
    OBVIOUS
  <2>1. CASE InitStep
    BY <2>1, CheckStep, InitdbStep, InitdbRefusesStep, InitdbVersionStep, InitdbDoneStep,
       InstallConfStep, InstallHbaStep, StartBootstrapStep, CreateExtensionStep, StopBootstrapStep, ExecStep
    DEF InitStep
  <2>2. CASE Boot \/ Wipe \/ CommandFails \/ Stop
    BY <2>2, BootStep, WipeStep, CommandFailsStep, StopStep
  <2>3. CASE Done \/ UNCHANGED vars
    BY <2>3 DEF Done, vars, volume, process, history, BootInv, TypeOK, NoCluster, Found, Servers,
                UninterruptedIsComplete, Damaged, Complete
  <2> QED
    BY <2>1, <2>2, <2>3 DEF Next
<1> QED
  BY <1>1, <1>2, PTL DEF Spec

(* Every variable keeps its type. *)
THEOREM BootTypeCorrect == Spec => []TypeOK
<1>1. BootInv => TypeOK
  BY DEF BootInv
<1> QED
  BY <1>1, BootInvariant, PTL

(* Only an interrupted initialisation damages a volume (init.sh:2-8). *)
THEOREM UninterruptedIsCompleteCorrect == Spec => []UninterruptedIsComplete
<1>1. BootInv => UninterruptedIsComplete
  BY DEF BootInv
<1> QED
  BY <1>1, BootInvariant, PTL

(* The bootstrap server is out of the proxy's reach (init.sh:36-40). *)
THEOREM ProxyNeverSeesBootstrapCorrect == Spec => []ProxyNeverSeesBootstrap
<1>1. BootInv => ProxyNeverSeesBootstrap
  BY DEF BootInv, TypeOK, Initialising, Servers, ProxyNeverSeesBootstrap
<1> QED
  BY <1>1, BootInvariant, PTL

(* A boot leaves a complete cluster alone (init.sh:10-11). *)
THEOREM CompleteIsFinalCorrect == Spec => CompleteIsFinal
<1>1. BootInv /\ [Next]_vars => [Complete => Complete' \/ dir' = "empty"]_vars
  <2> SUFFICES ASSUME BootInv, Next, Complete, dir' # "empty" PROVE Complete'
    OBVIOUS
  <2> USE DEF BootInv, Complete
  <2>1. CASE InitStep
    BY <2>1 DEF InitStep, Check, Initdb, InitdbRefuses, InitdbVersion, InitdbDone, InstallConf, InstallHba,
       StartBootstrap, CreateExtension, StopBootstrap, Exec, At, volume, Found
  <2>2. CASE Boot \/ Wipe \/ Stop \/ Done
    BY <2>2 DEF Boot, Wipe, Stop, Done, vars, volume
  <2>3. CASE CommandFails
    BY <2>3 DEF CommandFails, Found
  <2> QED
    BY <2>1, <2>2, <2>3 DEF Next
<1> QED
  BY <1>1, BootInvariant, PTL DEF Spec, CompleteIsFinal

(* No boot repairs a damaged volume, and none changes it (init.sh:15). *)
THEOREM DamageIsFinalCorrect == Spec => DamageIsFinal
<1>1. BootInv /\ [Next]_vars => [Damaged => dir' = "empty" \/ (Damaged' /\ volume' = volume)]_vars
  <2> SUFFICES ASSUME BootInv, Next, Damaged, dir' # "empty" PROVE Damaged' /\ volume' = volume
    OBVIOUS
  <2> USE DEF BootInv, Damaged, Complete, Initialising
  <2>1. CASE InitStep
    BY <2>1 DEF InitStep, Check, Initdb, InitdbRefuses, InitdbVersion, InitdbDone, InstallConf, InstallHba,
       StartBootstrap, CreateExtension, StopBootstrap, Exec, At, volume, TypeOK
  <2>2. CASE Boot \/ Wipe \/ Stop \/ Done
    BY <2>2 DEF Boot, Wipe, Stop, Done, ContainerEnds, vars, volume
  <2>3. CASE CommandFails
    BY <2>3 DEF CommandFails, ContainerEnds, volume
  <2> QED
    BY <2>1, <2>2, <2>3 DEF Next
<1> QED
  BY <1>1, BootInvariant, PTL DEF Spec, DamageIsFinal
=============================================================================
