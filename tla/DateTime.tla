------------------------------ MODULE DateTime ------------------------------
(***************************************************************************)
(* DateTimeService: the date, the time zone and NTP of the device, set     *)
(* through timedated and systemd one D-Bus call at a time, and the         *)
(* configuration file of the NTP daemon, which writeFile empties before it *)
(* writes it.                                                              *)
(*                                                                         *)
(* Any call may fail, any request may be caught by a crash between two     *)
(* calls, and requests interleave.  The daemon reads its configuration     *)
(* when it starts; a restart is a job that systemd runs some time after    *)
(* RestartUnit has been answered.                                          *)
(***************************************************************************)
EXTENDS Naturals

CONSTANTS
  Request,     \* requests of the server
  Zone,        \* time zones
  Server,      \* NTP servers
  Absent,      \* there is no configuration file
  Torn,        \* the file is there and empty
  None         \* a request without an NTP server, or without a call

ASSUME DateTimeAssumption == Server \cap {Absent, Torn, None} = {}

VARIABLES
  clock,       \* the time of the device
  zone,
  daemon,      \* systemd-timesyncd: whether it is on, and the configuration it has read
  job,         \* a restart of the daemon waits in systemd
  file,        \* rpi-nest-ntp.conf
  req,         \* what each request does next, its call, and what it has done
  wanted,      \* the last argument of SetNTP
  broken       \* "server", "switch": a setNtp was left before its restart, before SetNTP

timeVars == <<clock, zone, daemon, job, file, req, wanted, broken>>

\* isNtpEnabled asks for a server, which may be the empty string: None here.
DateTimeSettings == [kind : {"date"}, date : Nat, timeZone : Zone]
NtpSettings == [kind : {"ntp"}, isNtpEnabled : BOOLEAN, ntpServer : Server \cup {None}]

Idle == [pc |-> "idle", call |-> None, did |-> {}]

Running(r) == req[r].pc \notin {"idle", "ok", "failed"}

TimeInit ==
  /\ clock = 0
  /\ zone \in Zone
  /\ file = Absent
  /\ wanted \in BOOLEAN
  /\ daemon = [on |-> wanted, config |-> file]
  /\ job = FALSE
  /\ req = [r \in Request |-> Idle]
  /\ broken = {}

At(r, pc) == req[r].pc = pc

Goto(r, pc) == req' = [req EXCEPT ![r].pc = pc]

Did(r, effect, pc) ==
  req' = [req EXCEPT ![r].pc = pc, ![r].did = @ \cup {effect}]

\* Mutant: an empty server is written too.
FirstStepUnchecked(call) ==
  CASE call.kind = "date" -> "check"
    [] call.kind = "ntp" -> "write"
    [] OTHER -> call.kind

FirstStep(call) ==
  CASE call.kind = "date" -> "check"
    [] call.kind = "ntp" -> IF call.ntpServer = None THEN "switch" ELSE "write"
    [] OTHER -> call.kind

-----------------------------------------------------------------------------
(* setDateTime                                                             *)

\* Mutant: the time zone is set before the time.
CheckNtpZoneFirst(r) ==
  /\ At(r, "check")
  /\ IF daemon.on THEN Goto(r, "failed") /\ UNCHANGED zone
     ELSE Did(r, "zone", "time") /\ zone' = req[r].call.timeZone
  /\ UNCHANGED <<clock, daemon, job, file, wanted, broken>>

CheckNtp(r) ==
  /\ At(r, "check")
  /\ Goto(r, IF daemon.on THEN "failed" ELSE "time")
  /\ UNCHANGED <<clock, zone, daemon, job, file, wanted, broken>>

\* timedated refuses while the daemon is on: NTP may have been enabled since the check.
SetTime(r) ==
  /\ At(r, "time")
  /\ ~daemon.on
  /\ clock' = req[r].call.date
  /\ Did(r, "time", "zone")
  /\ UNCHANGED <<zone, daemon, job, file, wanted, broken>>

SetTimezone(r) ==
  /\ At(r, "zone")
  /\ zone' = req[r].call.timeZone
  /\ Did(r, "zone", "ok")
  /\ UNCHANGED <<clock, daemon, job, file, wanted, broken>>

-----------------------------------------------------------------------------
(* setNtp                                                                  *)

\* writeFile opens the file, which empties it, ...
Truncate(r) ==
  /\ At(r, "write")
  /\ file' = Torn
  /\ Goto(r, "fill")
  /\ UNCHANGED <<clock, zone, daemon, job, wanted, broken>>

\* ... and writes it.
WriteServer(r) ==
  /\ At(r, "fill")
  /\ file' = req[r].call.ntpServer
  /\ Goto(r, "restart")
  /\ UNCHANGED <<clock, zone, daemon, job, wanted, broken>>

\* Mutant: the daemon is not restarted.
RestartUnitNever(r) ==
  /\ At(r, "restart")
  /\ Goto(r, "switch")
  /\ UNCHANGED <<clock, zone, daemon, job, file, wanted, broken>>

RestartUnit(r) ==
  /\ At(r, "restart")
  /\ job' = TRUE
  /\ Goto(r, "switch")
  /\ UNCHANGED <<clock, zone, daemon, file, wanted, broken>>

\* The daemon starts, and reads what its configuration is then.
Start == /\ daemon' = [on |-> TRUE, config |-> file]
         /\ job' = FALSE

\* SetNTP starts the daemon if it neither runs nor waits for its restart; to stop it
\* cancels the restart.
SwitchNtp(r) ==
  /\ At(r, "switch")
  /\ wanted' = req[r].call.isNtpEnabled
  /\ IF wanted' THEN IF daemon.on \/ job THEN UNCHANGED <<daemon, job>> ELSE Start
     ELSE daemon' = [daemon EXCEPT !.on = FALSE] /\ job' = FALSE
  /\ broken' = broken \ {"switch"}
  /\ Did(r, "switch", "ok")
  /\ UNCHANGED <<clock, zone, file>>

-----------------------------------------------------------------------------
(* What else happens                                                       *)

\* What a setNtp that ends at pc leaves undone.
LeftAt(pc) ==
  CASE pc \in {"fill", "restart"} -> {"server"}
    [] pc = "switch" -> {"switch"}
    [] OTHER -> {}

\* Mutant: an error of SetTime is not passed on.
CallFailsSilently(r) ==
  /\ Running(r)
  /\ ~At(r, "time")
  /\ Goto(r, "failed")
  /\ broken' = broken \cup LeftAt(req[r].pc)
  /\ UNCHANGED <<clock, zone, daemon, job, file, wanted>>

\* The call the request waits for fails: nothing of what was done before is undone.
CallFails(r) ==
  /\ Running(r)
  /\ Goto(r, "failed")
  /\ broken' = broken \cup LeftAt(req[r].pc)
  /\ UNCHANGED <<clock, zone, daemon, job, file, wanted>>

\* The API server ends; the device goes on.
TimeCrash ==
  /\ req' = [r \in Request |-> Idle]
  /\ broken' = broken \cup UNION {LeftAt(req[r].pc) : r \in Request}
  /\ UNCHANGED <<clock, zone, daemon, job, file, wanted>>

RunJob ==
  /\ job
  /\ Start
  /\ broken' = broken \ {"server"}
  /\ UNCHANGED <<clock, zone, file, req, wanted>>

\* The daemon sets the clock.
Synchronise(time) ==
  /\ daemon.on
  /\ clock' = time
  /\ UNCHANGED <<zone, daemon, job, file, req, wanted, broken>>

\* logind restarts the device.  What SetNTP enabled starts again, and reads its
\* configuration; the clock goes on from what was saved of it, the device has no other.
Reboot(r, time) ==
  /\ At(r, "reboot")
  /\ req' = [s \in Request |-> Idle]
  /\ daemon' = [on |-> wanted, config |-> IF wanted THEN file ELSE daemon.config]
  /\ job' = FALSE
  /\ broken' = {}
  /\ clock' = time
  /\ UNCHANGED <<zone, file, wanted>>

Handle(r) ==
  \/ CheckNtp(r) \/ SetTime(r) \/ SetTimezone(r)
  \/ Truncate(r) \/ WriteServer(r) \/ RestartUnit(r) \/ SwitchNtp(r)

-----------------------------------------------------------------------------
(* What is right                                                           *)

\* What GET /device/date-time shows of the file.
NtpAddressFromConfig(config) == IF config \in Server THEN config ELSE None

\* Once no setNtp is on its way and no restart waits, the daemon is on or off as SetNTP
\* was last asked, and runs with the server the API shows, unless a setNtp was left
\* between its write and its restart, or before its SetNTP: however many of them
\* overlap.  (setNtp, getNtpAddressFromConfig)
NtpAsConfigured ==
  (\A r \in Request : Running(r) => req[r].call.kind # "ntp") /\ ~job =>
    /\ "switch" \notin broken => daemon.on = wanted
    /\ "server" \notin broken /\ daemon.on =>
         NtpAddressFromConfig(daemon.config) = NtpAddressFromConfig(file)

\* A setDateTime that was answered success has set both; one that failed has set nothing
\* or, when the time zone was rejected, the time alone: never the zone alone.
DateTimeAnswers ==
  \A r \in Request :
    req[r].call # None /\ req[r].call.kind = "date" =>
      /\ At(r, "ok") => req[r].did = {"time", "zone"}
      /\ At(r, "failed") => req[r].did \subseteq {"time"}
=============================================================================
