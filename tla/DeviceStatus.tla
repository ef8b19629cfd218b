---------------------------- MODULE DeviceStatus ----------------------------
(***************************************************************************)
(* DeviceStatusService and DeviceMetricsService: one request runs five     *)
(* programs at once and answers when all have succeeded, while the device  *)
(* goes on.  What the programs print is parsed: the time of the last boot, *)
(* in local time; the columns of df, in blocks; the number of vcgencmd.    *)
(*                                                                         *)
(* A program is a ShellCall: it succeeds with its output or is rejected.   *)
(* pkexec rejects what polkit's rule does not list.                        *)
(***************************************************************************)
EXTENDS Integers, Sequences, FiniteSets

CONSTANTS
  Reader,      \* requests
  Rules,       \* lists of programs pkexec may run: the repository's, others
  Sizes,       \* disk space, used and available, in the blocks df counts
  Temperatures,
  Offsets,     \* of the time zones, from UTC
  LastTime,    \* bound
  NaN          \* what is not a number

ASSUME StatusAssumption ==
  /\ Sizes \subseteq Nat
  /\ Temperatures \cup Offsets \subseteq Int
  /\ LastTime \in Nat
  /\ NaN \notin Int

VARIABLES
  device,      \* what the programs look at, and the zone the server started in
  gauges,      \* the values of the Prometheus registry
  status       \* the requests; seen: what there was to measure while they were served

statusVars == <<device, gauges, status>>

Commands == {"serial", "uptime", "df", "temperature", "voltage"}

\* The programs that run as root.
Executable(command) ==
  CASE command = "serial" -> "/usr/bin/cat"
    [] command \in {"temperature", "voltage"} -> "/usr/bin/vcgencmd"
    [] OTHER -> "none"

\* The rule for pkexec, for the user and the group of the API.
ALLOWED_PKEXEC_PATHS == {"/usr/bin/raspi-config", "/usr/bin/vcgencmd"}
IsAllowedToExecuteProgram(program) == program \in device.rules

MayRun(command) ==
  Executable(command) # "none" => IsAllowedToExecuteProgram(Executable(command))

-----------------------------------------------------------------------------
(* What the services make of an output                                     *)

Digits(n) == IF n < 10 THEN 1 ELSE IF n < 100 THEN 2 ELSE IF n < 1000 THEN 3
             ELSE IF n < 10000 THEN 4 ELSE 5

\* df sets a number to the right of a column five wide; split(' ') has an empty string
\* for every blank before it, which parseInt does not take for a number.
Cells(n) == [i \in 1..(5 - Digits(n)) |-> NaN] \o <<n>>

\* Mutant: blanks at the start of the line are trimmed, the columns are not told apart.
ParseDfFirstTwice(used, available) == <<used, used>>

ParseDf(used, available) == SubSeq(Cells(used) \o Cells(available), 1, 2)

\* The expression for the number has no sign.
ParseTemperature(t) == IF t < 0 THEN -t ELSE t

\* What uptime -s prints, in the device's zone, and what is made of it in the server's.
BootPrinted == device.clock - device.up + device.offset
ParseUptime(printed) == device.clock - (printed - device.serverOffset)

-----------------------------------------------------------------------------
\* What a status shows, what uptime printed, and what was true when it was taken.
DeviceStatusDto ==
  [uptime |-> NaN, printed |-> NaN, upThen |-> 0, fs |-> <<>>, temperature |-> NaN]

NoStatus ==
  [pc |-> "idle", waits |-> {}, done |-> {}, shown |-> DeviceStatusDto, disturbed |-> FALSE,
   cause |-> "none", seen |-> {}]

Measures == [used : Sizes, available : Sizes, temperature : Temperatures]

Devices ==
  {[rules |-> rules, now |-> now, clock |-> 0, up |-> 0, offset |-> zone,
    serverOffset |-> zone] :
     rules \in Rules, now \in Measures, zone \in Offsets}

StatusInit ==
  /\ device \in Devices
  /\ gauges = <<>>
  /\ status = [r \in Reader |-> NoStatus]

\* GET /device/status or /device/metrics: all programs are started.
GetCurrentStatus(r, metrics) ==
  /\ status[r].pc = "idle"
  /\ status' = [status EXCEPT ![r] =
       [NoStatus EXCEPT !.pc = IF metrics THEN "metrics" ELSE "status",
                        !.waits = Commands \cup {"parse"}, !.seen = {device.now}]]
  /\ UNCHANGED <<device, gauges>>

Serves(r) == status[r].pc \in {"status", "metrics"}

Waits(r, command) == Serves(r) /\ command \in status[r].waits

\* Promise.all: when the last result is there the request is answered; metrics first sets
\* the gauges, and shows them.
Arrives(r, command, shown) ==
  LET waits == status[r].waits \ {command}
      all == waits = {}
  IN /\ status' = [status EXCEPT ![r].waits = waits, ![r].done = @ \cup {command},
                                 ![r].shown = shown, ![r].pc = IF all THEN "ok" ELSE @]
     /\ gauges' = IF all /\ status[r].pc = "metrics" THEN shown ELSE gauges
     /\ UNCHANGED device

\* Mutant: a rejected program is left out.
RejectedSettled(r, cause) ==
  \E command \in status[r].waits :
    LET waits == status[r].waits \ {command} IN
    /\ status' = [status EXCEPT ![r].waits = waits, ![r].pc = IF waits = {} THEN "ok" ELSE @]
    /\ UNCHANGED <<device, gauges>>

\* Promise.all: one rejection fails the request.
Rejected(r, cause) ==
  /\ status' = [status EXCEPT ![r].pc = "failed", ![r].waits = {}, ![r].cause = cause]
  /\ UNCHANGED <<device, gauges>>

CommandFails(r, command) ==
  /\ Waits(r, command)
  /\ Rejected(r, IF MayRun(command) THEN "failed" ELSE "refused")

\* The serial number and the voltage.
GetSerial(r, command) ==
  /\ command \in {"serial", "voltage"}
  /\ Waits(r, command) /\ MayRun(command)
  /\ Arrives(r, command, status[r].shown)

GetTemperature(r) ==
  /\ Waits(r, "temperature") /\ MayRun("temperature")
  /\ Arrives(r, "temperature",
             [status[r].shown EXCEPT !.temperature = ParseTemperature(device.now.temperature)])

\* Mutant: what is not a number is taken for one.
GetDiskSpaceInformationUnchecked(r) ==
  /\ Waits(r, "df")
  /\ Arrives(r, "df", [status[r].shown EXCEPT
               !.fs = ParseDf(device.now.used, device.now.available)])

\* Less than five digits leave an empty cell in the first two, which is no number.
GetDiskSpaceInformation(r) ==
  /\ Waits(r, "df")
  /\ LET fs == ParseDf(device.now.used, device.now.available) IN
     IF NaN \in {fs[1], fs[2]} THEN Rejected(r, "unparsable")
     ELSE Arrives(r, "df", [status[r].shown EXCEPT !.fs = fs])

\* uptime prints the boot time, or what is no date ...
UptimePrints(r, printed) ==
  /\ printed \in {BootPrinted, NaN}
  /\ Waits(r, "uptime")
  /\ status' = [status EXCEPT
       ![r].waits = @ \ {"uptime"}, ![r].done = @ \cup {"uptime"},
       ![r].shown.printed = printed, ![r].disturbed = device.offset # device.serverOffset]
  /\ UNCHANGED <<device, gauges>>

\* ... and the time that has passed since is taken after its close: getTime() of what is no
\* date is no number, and throws nothing.
GetUpTime(r) ==
  /\ Waits(r, "parse") /\ ~Waits(r, "uptime")
  /\ LET printed == status[r].shown.printed IN
     Arrives(r, "parse",
       [status[r].shown EXCEPT
          !.uptime = IF printed = NaN THEN NaN ELSE ParseUptime(printed), !.upThen = device.up])

StatusStep(r) ==
  \/ \E command \in {"serial", "voltage"} : GetSerial(r, command)
  \/ GetTemperature(r) \/ GetDiskSpaceInformation(r)
  \/ \E printed \in {BootPrinted, NaN} : UptimePrints(r, printed)
  \/ GetUpTime(r)
  \/ \E command \in Commands : CommandFails(r, command)

-----------------------------------------------------------------------------
(* The device                                                              *)

\* Time passes, and with it the disk fills and the temperature changes.
Passes(now) ==
  /\ device.up < LastTime
  /\ device' = [device EXCEPT !.up = @ + 1, !.clock = @ + 1, !.now = now]
  /\ status' = [r \in Reader |->
       IF Serves(r) THEN [status[r] EXCEPT !.seen = @ \cup {now}] ELSE status[r]]
  /\ UNCHANGED gauges

\* The time or the zone is set, by DateTime or NTP.  The server keeps the zone it
\* started in.
Sets(clock, zone) ==
  /\ device' = [device EXCEPT !.clock = clock, !.offset = zone]
  /\ status' = [r \in Reader |->
       IF Waits(r, "parse") /\ ~Waits(r, "uptime") /\ clock # device.clock
       THEN [status[r] EXCEPT !.disturbed = TRUE] ELSE status[r]]
  /\ UNCHANGED gauges

StatusNext ==
  \/ \E r \in Reader, metrics \in BOOLEAN : GetCurrentStatus(r, metrics)
  \/ \E r \in Reader : StatusStep(r)
  \/ \E now \in Measures : Passes(now)
  \/ \E clock \in 0..LastTime, zone \in Offsets : Sets(clock, zone)

-----------------------------------------------------------------------------
(* What is right                                                           *)

Answered(r) == status[r].pc = "ok"

\* What an answered status shows was so at a moment of the request, as far as its parsers
\* go: both columns of df are of one moment, in df's blocks; the temperature, if it was
\* not below zero; and the time since the boot at the answer of uptime, if uptime printed
\* a date, the clock was not set meanwhile, nor the zone since the server started.
StatusIsCurrent ==
  \A r \in Reader :
    LET shown == status[r].shown IN
    Answered(r) =>
      /\ \E now \in status[r].seen : shown.fs = <<now.used, now.available>>
      /\ \E now \in status[r].seen :
           now.temperature < 0 \/ shown.temperature = now.temperature
      /\ ~status[r].disturbed /\ shown.printed # NaN => shown.uptime = shown.upThen

\* A status or the metrics are answered only if every program succeeded, those that run as
\* root by polkit's rule: no part of it is missing or left from before (Promise.all).
StatusNeedsEveryProgram ==
  \A r \in Reader :
    Answered(r) => \A command \in Commands : command \in status[r].done /\ MayRun(command)

\* "The amount of used space in bytes", "of available space in bytes" (DeviceStatusFsDto).
BlockSize == 1024
DiskSpaceIsInBytes ==
  \A r \in Reader :
    Answered(r) => \E now \in status[r].seen :
      status[r].shown.fs = <<BlockSize * now.used, BlockSize * now.available>>

\* What df prints is parsed, with 1337 blocks used and 42 available too (the test
\* "should invoke df for root and ... return parsed result").
DiskSpaceIsParsed == \A r \in Reader : status[r].cause # "unparsable"

\* "The temperature of the CPU in degree celsius" (DeviceStatusCpuDto).
TemperatureIsSigned ==
  \A r \in Reader :
    Answered(r) => \E now \in status[r].seen : status[r].shown.temperature = now.temperature

\* "uptime returned unparsable result" is an error (UpTimeCommandService.getUpTime).
UptimeIsANumber == \A r \in Reader : Answered(r) => status[r].shown.uptime # NaN

\* "Get seconds since the system is up" (UpTimeCommandService.getUpTime).
UptimeIsTrue ==
  \A r \in Reader :
    Answered(r) /\ status[r].shown.printed # NaN =>
      status[r].shown.uptime = status[r].shown.upThen

\* "List of paths to executables that may be invoked with `pkexec`" (ALLOWED_PKEXEC_PATHS):
\* those the services invoke.
ProgramsAreListed == \A r \in Reader : status[r].cause # "refused"
=============================================================================
