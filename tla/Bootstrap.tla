----------------------------- MODULE Bootstrap ------------------------------
(***************************************************************************)
(* The container of the bench's PostgreSQL image over several starts:      *)
(* entrypoint.sh runs init.sh, which initialises an empty data volume, and *)
(* then becomes postgres (deploy/postgres).  Any command may fail (set -e  *)
(* ends the container) and the container may be stopped at any point; the  *)
(* volume survives both.                                                   *)
(***************************************************************************)
EXTENDS Integers, Sequences

CONSTANTS
    Extensions, \* the extensions init.sh creates, in order
    MaxBoots    \* bound: how often the container is started

ASSUME ExtensionsAssumption == Len(Extensions) \in Nat \ {0}
ASSUME MaxBootsAssumption == MaxBoots \in Nat

VARIABLES
    dir,         \* PGDATA: "empty", "begun" (not empty, no PG_VERSION yet), "version"
                 \*   (PG_VERSION, no complete cluster), "initialised"
    conf, hba,   \* postgresql.conf, pg_hba.conf: "none", "initdb", "cut" (created,
                 \*   not copied), "bench"
    created,     \* number of extensions that have been created
    pc,          \* the command entrypoint.sh or init.sh is at, "off" without a container
    server,      \* the running server: "none", "bootstrap" (started by init.sh), "serving"
    listen,      \* where it listens: "socket", "localhost", "all"
    fault,       \* this container was stopped or a command of it failed
    interrupted, \* this happened to one that was initialising the volume
    boots        \* containers started

volume == <<dir, conf, hba, created>>
process == <<server, listen>>
history == <<fault, interrupted>>
vars == <<volume, pc, process, history, boots>>

Initialising == {"initdb_version", "initdb_catalog", "conf", "conf_copy", "hba", "hba_copy",
                 "start", "extensions", "stop"}

Init ==
    /\ dir = "empty" /\ conf = "none" /\ hba = "none" /\ created = 0
    /\ pc = "off"
    /\ server = "none" /\ listen = "socket"
    /\ fault = FALSE /\ interrupted = FALSE
    /\ boots = 0

Boot ==
    /\ pc = "off" /\ boots < MaxBoots
    /\ pc' = "check"
    /\ boots' = boots + 1
    /\ fault' = FALSE
    /\ UNCHANGED <<volume, process, interrupted>>

(* docker compose down -v *)
Wipe ==
    /\ pc = "off" /\ dir # "empty"
    /\ dir' = "empty" /\ conf' = "none" /\ hba' = "none" /\ created' = 0
    /\ interrupted' = FALSE
    /\ UNCHANGED <<pc, process, fault, boots>>

At(here, next) == pc = here /\ pc' = next

Quiet == UNCHANGED <<process, history, boots>>

(* Mutants: the configuration is installed on every boot; a boot goes on   *)
(* with the extensions that are missing.                                   *)
CheckAndReinstall ==
    /\ At("check", IF dir \in {"version", "initialised"} THEN "exec" ELSE "initdb")
    /\ conf' \in IF dir = "initialised" THEN {"cut", "bench"} ELSE {conf}
    /\ UNCHANGED <<dir, hba, created>> /\ Quiet
CheckExtensions ==
    /\ At("check", IF dir = "initialised" /\ created < Len(Extensions) THEN "start"
                   ELSE IF dir \in {"version", "initialised"} THEN "exec" ELSE "initdb")
    /\ UNCHANGED volume /\ Quiet

(* if [ -s "$PGDATA/PG_VERSION" ]; then exit 0 *)
Check ==
    /\ At("check", IF dir \in {"version", "initialised"} THEN "exec" ELSE "initdb")
    /\ UNCHANGED volume /\ Quiet

(* initdb wants an empty directory, and writes PG_VERSION before it makes  *)
(* the cluster.                                                            *)
Initdb ==
    /\ dir = "empty"
    /\ At("initdb", "initdb_version")
    /\ dir' = "begun"
    /\ UNCHANGED <<conf, hba, created>> /\ Quiet

InitdbRefuses ==
    /\ dir # "empty"
    /\ At("initdb", "off")
    /\ UNCHANGED volume /\ Quiet

InitdbVersion ==
    /\ At("initdb_version", "initdb_catalog")
    /\ dir' = "version"
    /\ UNCHANGED <<conf, hba, created>> /\ Quiet

InitdbDone ==
    /\ At("initdb_catalog", "conf")
    /\ dir' = "initialised" /\ conf' = "initdb" /\ hba' = "initdb"
    /\ UNCHANGED created /\ Quiet

(* install replaces a file by a new one and then copies into it. *)
InstallConf ==
    /\ \/ At("conf", "conf_copy") /\ conf' = "cut"
       \/ At("conf_copy", "hba") /\ conf' = "bench"
    /\ UNCHANGED <<dir, hba, created>> /\ Quiet

InstallHba ==
    /\ \/ At("hba", "hba_copy") /\ hba' = "cut"
       \/ At("hba_copy", "start") /\ hba' = "bench"
    /\ UNCHANGED <<dir, conf, created>> /\ Quiet

(* Where a server listens by its configuration: localhost by default. *)
Configured == IF conf = "bench" THEN "all" ELSE "localhost"

(* Mutant: the bootstrap server is started like any other. *)
StartAsConfigured ==
    /\ At("start", "extensions")
    /\ server' = "bootstrap" /\ listen' = Configured
    /\ UNCHANGED <<volume, history, boots>>

(* pg_ctl start with listen_addresses='' *)
StartBootstrap ==
    /\ At("start", "extensions")
    /\ server' = "bootstrap" /\ listen' = "socket"
    /\ UNCHANGED <<volume, history, boots>>

(* Mutant: one extension too many. *)
CreateOneMore ==
    /\ At("extensions", IF created = Len(Extensions) THEN "stop" ELSE "extensions")
    /\ created' = created + 1
    /\ UNCHANGED <<dir, conf, hba>> /\ Quiet

CreateExtension ==
    /\ At("extensions", IF created + 1 = Len(Extensions) THEN "stop" ELSE "extensions")
    /\ created' = created + 1
    /\ UNCHANGED <<dir, conf, hba>> /\ Quiet

(* Mutant: the server is left running for the entrypoint. *)
StopNever ==
    /\ At("stop", "exec")
    /\ UNCHANGED volume /\ Quiet

StopBootstrap ==
    /\ At("stop", "exec")
    /\ server' = "none"
    /\ UNCHANGED <<volume, listen, history, boots>>

(* A server needs a complete cluster, at least one entry in pg_hba.conf    *)
(* and the data directory for itself.                                      *)
CanServe == dir = "initialised" /\ hba # "cut" /\ server = "none"

(* exec postgres, which serves or exits. *)
Exec ==
    /\ At("exec", IF CanServe THEN "serving" ELSE "off")
    /\ server' = IF CanServe THEN "serving" ELSE "none"
    /\ listen' = IF CanServe THEN Configured ELSE "socket"
    /\ UNCHANGED <<volume, history, boots>>

---------------------------------------------------------------------------
(* The container is gone, and with it every process in it. *)
ContainerEnds ==
    /\ pc' = "off" /\ server' = "none" /\ listen' = "socket"
    /\ fault' = TRUE
    /\ interrupted' = (interrupted \/ pc \in Initialising)
    /\ UNCHANGED boots

(* SIGTERM, SIGKILL, a crash: at any point, without cleaning up. *)
Stop == pc # "off" /\ ContainerEnds /\ UNCHANGED volume

(* Mutant: an extension that fails does not end init.sh. *)
FailsAndGoesOn ==
    /\ At("extensions", "stop")
    /\ UNCHANGED volume /\ Quiet

(* A command fails: initdb removes what it has written, a client that is   *)
(* cut off may have created its extension all the same.                    *)
CommandFails ==
    /\ pc \in Initialising \cup {"initdb"}
    /\ ContainerEnds
    /\ dir' = IF pc \in {"initdb_version", "initdb_catalog"} THEN "empty" ELSE dir
    /\ created' \in {created} \cup (IF pc = "extensions" THEN {created + 1} ELSE {})
    /\ UNCHANGED <<conf, hba>>

Done == pc = "off" /\ boots = MaxBoots /\ UNCHANGED vars

InitStep ==
    \/ Check \/ Initdb \/ InitdbRefuses \/ InitdbVersion \/ InitdbDone \/ InstallConf \/ InstallHba
    \/ StartBootstrap \/ CreateExtension \/ StopBootstrap \/ Exec

Next == Boot \/ Wipe \/ InitStep \/ CommandFails \/ Stop \/ Done

(* The commands of a container end: pg_ctl -w gives up after a minute, and *)
(* CREATE EXTENSION waits for nobody.                                      *)
Spec == Init /\ [][Next]_vars /\ WF_vars(InitStep)

---------------------------------------------------------------------------
(* Properties *)

Complete ==
    /\ dir = "initialised" /\ conf = "bench" /\ hba = "bench"
    /\ created = Len(Extensions)

(* The volume holds something, nobody is initialising it, and it is not    *)
(* what init.sh makes of it.                                               *)
Damaged == pc \notin Initialising /\ dir # "empty" /\ ~Complete

TypeOK ==
    /\ dir \in {"empty", "begun", "version", "initialised"}
    /\ {conf, hba} \subseteq {"none", "initdb", "cut", "bench"}
    /\ created \in 0 .. Len(Extensions)
    /\ pc \in Initialising \cup {"off", "check", "initdb", "exec", "serving"}
    /\ server \in {"none", "bootstrap", "serving"}
    /\ listen \in {"socket", "localhost", "all"}
    /\ {fault, interrupted} \subseteq BOOLEAN
    /\ boots \in 0 .. MaxBoots

(* Only an interrupted initialisation damages a volume: what is served     *)
(* otherwise has its configuration and all extensions (init.sh:2-8).       *)
UninterruptedIsComplete == Damaged => interrupted

(* The proxy reaches a server that init.sh is done with, under the bench's *)
(* configuration, or none at all (init.sh:36-40).                          *)
ProxyNeverSeesBootstrap == listen = "all" => pc = "serving" /\ conf = "bench"

(* Later boots, whatever becomes of them, leave a complete cluster alone   *)
(* (init.sh:10-11); only removing the volume ends it.                      *)
CompleteIsFinal == [][Complete => Complete' \/ dir' = "empty"]_vars

(* No later boot repairs a damaged volume either: init.sh looks at         *)
(* PG_VERSION alone (init.sh:15), and initdb refuses the rest.             *)
DamageIsFinal == [][Damaged => dir' = "empty" \/ (Damaged' /\ volume' = volume)]_vars

(* A boot of a volume that was never interrupted ends in a server, unless  *)
(* it is stopped or a command of it fails.                                 *)
GoodVolumeServes == pc = "check" /\ ~interrupted ~> pc = "serving" \/ fault

(* init.sh:2-8: what is served has its configuration and its extensions.   *)
ServedIsComplete == pc = "serving" => Complete
=============================================================================
