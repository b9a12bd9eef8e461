---------------------------- MODULE ExporterService ----------------------------
(***************************************************************************)
(* The life of the exporter's processes: what main does until it waits for *)
(* a signal, what makes it end, and the supervisor that starts it again.   *)
(* One process is the service; others are started by hand on the same      *)
(* configuration file, and so on the same database and the same port.      *)
(*                                                                         *)
(* SnapshotStore has one process that writes the database.  This module    *)
(* says why there is only one.                                             *)
(***************************************************************************)
EXTENDS Naturals

CONSTANTS
    Procs,       \* processes
    Service,     \* the one that the supervisor runs
    Secrets,     \* what tokens may be signed with
    Managers,    \* OVM managers
    ConfigFiles, \* what the configuration file may hold
    None,
    Other,       \* another program that may listen on the port
    MaxEvents    \* bound on what happens to the processes from outside

ASSUME ServiceAssumption ==
    /\ Service \in Procs
    /\ None \notin Procs \cup Managers /\ Other \notin Procs \cup {None}
    /\ ConfigFiles \subseteq [valid : BOOLEAN, secret : Secrets, endpoint : Managers \cup {None}]
    /\ MaxEvents \in Nat

Config   == [secret : Secrets \cup {None}, endpoint : Managers \cup {None}]
NoConfig == [secret |-> None, endpoint |-> None]

VARIABLES
    pc,        \* how far main has come; off when there is no such process
    conf,      \* the configuration that a process has read
    lock,      \* who has the database file locked
    port,      \* who listens on the port
    file,      \* the configuration file
    certs,     \* which of the certificates it names can be loaded
    managerIP, \* the manager in the ovs-agent's database
    order,     \* what the operator wants of the service: up or down
    events     \* how much has happened

processes == <<pc, conf, lock, port>>
disk      == <<file, certs, managerIP>>
service   == <<pc, conf, lock, port, file, certs, managerIP, order, events>>

-----------------------------------------------------------------------------
Stages == {"off", "config", "database", "tls", "starting", "waiting"}

\* The endpoint of the configuration file or, without one, of the ovs-agent.
Endpoint == IF file.endpoint = None THEN managerIP ELSE file.endpoint

\* The server's key pair, and that of the authority for its clients.
CertFiles == {"pair", "ca"}
Loadable  == certs = CertFiles

\* Validate finds nothing to refuse; it loads the certificates to see.
Valid == file.valid /\ Loadable /\ Endpoint # None

Enter(p, stage) == pc' = [pc EXCEPT ![p] = stage]

\* With the process go its lock and its port, nothing else is done.
End(p) ==
    /\ Enter(p, "off")
    /\ conf' = [conf EXCEPT ![p] = NoConfig]
    /\ lock' = IF lock = p THEN None ELSE lock
    /\ port' = IF port = p THEN None ELSE port

Event == events < MaxEvents /\ events' = events + 1

ServiceInit ==
    /\ pc = [p \in Procs |-> "off"] /\ conf = [p \in Procs |-> NoConfig]
    /\ lock = None /\ port = None
    /\ file \in {f \in ConfigFiles : f.valid} /\ certs = CertFiles
    /\ managerIP \in Managers \cup {None}
    /\ order = "up" /\ events = 0

-----------------------------------------------------------------------------
(***************************************************************************)
(* main.                                                                   *)
(***************************************************************************)
\* Fault: the address of the manager is used unseen.
ParseConfig_AnyEndpoint(p) ==
    /\ pc[p] = "config"
    /\ \/ /\ file.valid /\ Loadable
          /\ Enter(p, "database")
          /\ conf' = [conf EXCEPT ![p] = [secret |-> file.secret, endpoint |-> Endpoint]]
          /\ UNCHANGED <<lock, port>>
       \/ ~ (file.valid /\ Loadable) /\ End(p)
    /\ UNCHANGED <<disk, order, events>>

ParseConfig(p) ==
    /\ pc[p] = "config"
    /\ \/ /\ Valid
          /\ Enter(p, "database")
          /\ conf' = [conf EXCEPT ![p] = [secret |-> file.secret, endpoint |-> Endpoint]]
          /\ UNCHANGED <<lock, port>>
       \/ ~ Valid /\ End(p)
    /\ UNCHANGED <<disk, order, events>>

\* Fault: after a second without the lock the process goes on without it.
OpenDatabase_Regardless(p) ==
    /\ pc[p] = "database"
    /\ \/ /\ Loadable
          /\ lock' = IF lock = None THEN p ELSE lock
          /\ Enter(p, "tls")
          /\ UNCHANGED <<conf, port>>
       \/ ~ Loadable /\ End(p)
    /\ UNCHANGED <<disk, order, events>>

\* NewAPIController validates once more, which loads the certificates again,
\* and opens the database.  The lock is tried for for one second, and once more
\* at its end: the process ends only if another one had it then.
OpenDatabase(p) ==
    /\ pc[p] = "database"
    /\ \/ /\ Loadable /\ lock = None
          /\ lock' = p
          /\ Enter(p, "tls")
          /\ UNCHANGED <<conf, port>>
       \/ (~ Loadable \/ lock # None) /\ End(p)
    /\ UNCHANGED <<disk, order, events>>

\* The certificates are loaded again, and the server's goroutine is started.
StartServer(p) ==
    /\ pc[p] = "tls"
    /\ \/ Loadable /\ Enter(p, "starting") /\ UNCHANGED <<conf, lock, port>>
       \/ ~ Loadable /\ End(p)
    /\ UNCHANGED <<disk, order, events>>

\* main comes to receive from the channel.
AwaitStop(p) ==
    /\ pc[p] = "starting"
    /\ Enter(p, "waiting")
    /\ UNCHANGED <<conf, lock, port, disk, order, events>>

\* Fault: the goroutine of a server that cannot listen just ends.
ListenAndServeTLS_NotFatal(p) ==
    /\ pc[p] \in {"starting", "waiting"} /\ port # p
    /\ \/ "pair" \in certs /\ port = None /\ port' = p /\ UNCHANGED <<pc, conf, lock>>
       \/ ("pair" \notin certs \/ port # None) /\ Enter(p, "deaf") /\ UNCHANGED <<conf, lock, port>>
    /\ UNCHANGED <<disk, order, events>>

\* The goroutine: when it cannot listen, or load the key pair a fourth time, it ends
\* the process, wherever main is.
ListenAndServeTLS(p) ==
    /\ pc[p] \in {"starting", "waiting"} /\ port # p
    /\ \/ "pair" \in certs /\ port = None /\ port' = p /\ UNCHANGED <<pc, conf, lock>>
       \/ ("pair" \notin certs \/ port # None) /\ End(p)
    /\ UNCHANGED <<disk, order, events>>

\* SIGINT or SIGTERM.  It ends a process that has not asked for signals yet, as
\* main does first, and one that waits.  The channel has no buffer: any other
\* signal is lost, which is a step that changes nothing.
Signal(p) ==
    /\ pc[p] \in {"config", "waiting"}
    /\ Event
    /\ End(p)
    /\ UNCHANGED <<disk, order>>

-----------------------------------------------------------------------------
(***************************************************************************)
(* The supervisor, and the operator.                                       *)
(***************************************************************************)
\* Restart=always: whenever the service should be up and is not.
Restart ==
    /\ order = "up" /\ pc[Service] = "off"
    /\ Enter(Service, "config")
    /\ UNCHANGED <<conf, lock, port, disk, order, events>>

StartByHand(p) ==
    /\ p # Service /\ pc[p] = "off"
    /\ Event
    /\ Enter(p, "config")
    /\ UNCHANGED <<conf, lock, port, disk, order>>

\* A stop sends SIGTERM, once ...
Stop ==
    /\ order = "up"
    /\ Event
    /\ order' = "down"
    /\ \/ pc[Service] \in {"config", "waiting"} /\ End(Service)
       \/ pc[Service] # "waiting" /\ UNCHANGED processes
    /\ UNCHANGED disk

\* ... and SIGKILL to a process that is still there some time later.
Kill ==
    /\ order = "down" /\ pc[Service] # "off"
    /\ End(Service)
    /\ UNCHANGED <<disk, order, events>>

Start ==
    /\ order = "down" /\ pc[Service] = "off"
    /\ order' = "up"
    /\ UNCHANGED <<processes, disk, events>>

\* A process ends by itself: it is killed, it panics, or one of the calls of
\* main fails that have no action here (the log folder, a damaged database).
Crash(p) ==
    /\ pc[p] # "off"
    /\ Event
    /\ End(p)
    /\ UNCHANGED <<disk, order>>

\* The configuration is edited, the certificates are replaced in steps, the
\* node is handed to another manager, another program takes or frees the port.
EditConfig ==
    /\ Event
    /\ \E f \in ConfigFiles : file' = f
    /\ UNCHANGED <<processes, certs, managerIP, order>>

ReplaceCerts ==
    /\ Event
    /\ \E c \in CertFiles : certs' = (certs \cup {c}) \ (certs \cap {c})
    /\ UNCHANGED <<processes, file, managerIP, order>>

ChangeManager ==
    /\ Event
    /\ \E m \in Managers \cup {None} : managerIP' = m
    /\ UNCHANGED <<processes, file, certs, order>>

TakePort ==
    /\ port = None
    /\ Event
    /\ port' = Other
    /\ UNCHANGED <<pc, conf, lock, disk, order>>

FreePort ==
    /\ port = Other
    /\ port' = None
    /\ UNCHANGED <<pc, conf, lock, disk, order, events>>

Main(p) == ParseConfig(p) \/ OpenDatabase(p) \/ StartServer(p) \/ AwaitStop(p)

ServiceNext ==
    \/ \E p \in Procs : \/ Main(p) \/ ListenAndServeTLS(p)
                        \/ Signal(p) \/ StartByHand(p) \/ Crash(p)
    \/ Restart \/ Stop \/ Kill \/ Start
    \/ EditConfig \/ ReplaceCerts \/ ChangeManager \/ TakePort \/ FreePort

-----------------------------------------------------------------------------
(***************************************************************************)
(* Properties.                                                             *)
(***************************************************************************)
\* Every variable has its type; a process has read its configuration when it
\* goes on to the database.
ServiceTypeOK ==
    /\ pc \in [Procs -> Stages]
    /\ conf \in [Procs -> Config]
    /\ \A p \in Procs : pc[p] \notin {"off", "config"} =>
          conf[p].secret \in Secrets /\ conf[p].endpoint \in Managers
    /\ lock \in Procs \cup {None}
    /\ port \in Procs \cup {None, Other}
    /\ file \in ConfigFiles /\ certs \subseteq CertFiles /\ managerIP \in Managers \cup {None}
    /\ order \in {"up", "down"} /\ events \in 0 .. MaxEvents

\* Whoever answers requests has the database locked and has come to the end of
\* main: whatever is started, killed or restarted meanwhile, no two processes
\* snapshot, delete or write records at the same time.
OwnerServes ==
    \A p \in Procs : /\ port = p => lock = p
                     /\ lock = p <=> pc[p] \in {"tls", "starting", "waiting"}

\* The service is wanted, and nothing is in its way.
Unhindered ==
    /\ order = "up"
    /\ Valid /\ port # Other /\ \A p \in Procs \ {Service} : pc[p] = "off"

\* However its processes have died, been stopped while they started, or missed
\* the lock or the port, the service serves again once nothing is in its way.
ServiceReturns == []<>(Unhindered => port = Service)
=============================================================================
