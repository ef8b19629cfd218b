----------------------------- MODULE DeviceReads -----------------------------
(***************************************************************************)
(* The requests that read the device or run its programs: status and       *)
(* metrics, configuration, logs, network devices, and the child processes  *)
(* under them.  Their services share no state, so a behaviour shows one of *)
(* them, its scene, and what surrounds the others is fixed.                *)
(***************************************************************************)
EXTENDS ChildProcess, DeviceStatus, RaspiConfig, Syslog, NetworkDevices

\* The scenes that are looked at.
CONSTANT Scenes

ASSUME ScenesAssumption == Scenes \subseteq {"child", "status", "config", "syslog", "devices"}

VARIABLE scene

vars == <<scene, children, statusVars, configVars, syslogVars, networkVars>>

SomeState == CHOOSE state \in FeatureState : TRUE

Init ==
  /\ scene \in Scenes
  /\ ChildInit /\ StatusInit /\ ConfigInit /\ SyslogInit /\ ListInit
  /\ scene # "status" => device = CHOOSE d \in Devices : TRUE
  /\ scene # "config" => features = [id \in Features |-> SomeState] /\ lists
  /\ scene # "syslog" => shift = CHOOSE zone \in Shifts : TRUE
  /\ scene # "devices" => manager = CHOOSE m \in Managers : TRUE

Shows(s) == scene = s /\ UNCHANGED scene

Only(childAction) ==
  Shows("child") /\ childAction /\ UNCHANGED <<statusVars, configVars, syslogVars, networkVars>>

Next ==
  \/ Only(ChildNext)
  \/ Shows("status") /\ StatusNext /\ UNCHANGED <<children, configVars, syslogVars, networkVars>>
  \/ Shows("config") /\ ConfigNext /\ UNCHANGED <<children, statusVars, syslogVars, networkVars>>
  \/ Shows("syslog") /\ SyslogNext /\ UNCHANGED <<children, statusVars, configVars, networkVars>>
  \/ Shows("devices") /\ ListNext /\ UNCHANGED <<children, statusVars, configVars, syslogVars>>

Spec == Init /\ [][Next]_vars

\* Node delivers what there is to read and the end of a child; whoever reads a stream goes
\* on reading.  No program has to exit.
FairSpec == Spec /\ \A c \in Child : WF_vars(Only(ChildStep(c)))

-----------------------------------------------------------------------------
Number == Int \cup {NaN}

ChildTypeOK ==
  children \in
    [Child -> [program : Program \cup {NoProgram},
               phase : {"none", "error", "runs", "exited", "closed"},
               unread : Seq({"char", "lead", "trail"}),
               text : Seq({"char", "lead", "trail", "long", "?", ""}),
               promise : {"none", "pending", "resolved", "rejected", "stream"}]]

\* Only the uptime may be no number.
StatusTypeOK ==
  /\ device \in [rules : Rules, now : Measures, clock : Nat, up : Nat, offset : Offsets,
                 serverOffset : Offsets]
  /\ gauges # <<>> =>
       /\ gauges.fs \in Sizes \X Sizes
       /\ gauges.temperature \in Int /\ gauges.uptime \in Number
  /\ \A r \in Reader :
       /\ status[r].pc \in {"idle", "status", "metrics", "ok", "failed"}
       /\ status[r].waits \subseteq Commands \cup {"parse"}
       /\ status[r].done \subseteq Commands \cup {"parse"}
       /\ status[r].shown \in
            [uptime : Number, printed : Number, upThen : Nat,
             fs : {<<>>} \cup (Sizes \X Sizes), temperature : Number]
       /\ status[r].disturbed \in BOOLEAN
       /\ status[r].cause \in {"none", "failed", "refused", "unparsable"}
       /\ status[r].seen \subseteq Measures

ConfigTypeOK ==
  /\ features \in [Features -> FeatureState]
  /\ lists \in BOOLEAN
  /\ config \in
       [Client -> [pc : {"idle", "usage", "states", "status", "set", "switched", "ok",
                         "bad request", "failed"},
                   op : {"none", "all", "one", "set"}, ids : Seq(Id), on : BOOLEAN,
                   value : Values \cup {NoValue}, out : Seq(AvailStat \cup Values),
                   shown : Seq([id : Id, isAvailable : BOOLEAN, isEnabled : BOOLEAN,
                                value : AvailStat \cup Values \cup {NoValue}])]]
  /\ seen \in [Client -> [Features -> SUBSET FeatureState]]

SyslogTypeOK ==
  /\ logs \in [DOMAIN SYSLOG_SERVICES -> SUBSET Time]
  /\ shift \in Shifts
  /\ \A r \in Watcher :
       /\ syslog[r].pc \in {"idle", "opens", "ok", "bad request", "failed"}
       /\ syslog[r].name \in DOMAIN SYSLOG_SERVICES \cup {Undefined}
       /\ syslog[r].format \in SyslogFormats \cup {Undefined}
       /\ syslog[r].since \in Time \cup {Undefined, Unparsable}
       /\ syslog[r].shown \subseteq Time

ListTypeOK ==
  /\ manager \in [Path -> DeviceProperties \cup {Gone}]
  /\ objects \subseteq NetworkObject
  /\ changes \in Nat
  /\ listing \in
       [Lister -> [pc : {"idle", "paths", "devices", "ok", "failed"}, paths : SUBSET Path,
                   next : [Path -> 0..ReadDone], callFailed : BOOLEAN,
                   shown : [Path -> [device : DeviceProperties \cup {Gone},
                                     contents : [Field -> Nat \cup {Null}]]]]]
  /\ was \in [Lister -> [devices : [Path -> SUBSET (DeviceProperties \cup {Gone})],
                         objects : SUBSET NetworkObject]]

TypeOK ==
  /\ scene \in Scenes
  /\ ChildTypeOK /\ StatusTypeOK /\ ConfigTypeOK /\ SyslogTypeOK /\ ListTypeOK
=============================================================================
