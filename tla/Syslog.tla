------------------------------- MODULE Syslog -------------------------------
(***************************************************************************)
(* SyslogService and JournalctlService: which log a request reads, in      *)
(* which format, and from when on.  Of the time a client asks for, the     *)
(* date in UTC goes to journalctl, which takes it for a day of the         *)
(* device's own time zone.  A file is read as it is.                       *)
(***************************************************************************)
EXTENDS Integers

CONSTANTS
  Watcher,     \* requests
  Day,         \* units of time in a day
  Days,        \* bound: the days the logs go back
  Shifts,      \* of time zones, from UTC
  Undefined,   \* a filter that is not given
  Unparsable   \* a date that is valid, as that of a week is, and that Date does not parse

ASSUME DayAssumption ==
  /\ Day \in Nat \ {0}
  /\ Shifts \subseteq (-Day)..Day
  /\ {Undefined, Unparsable} \cap 0..(Day * Days) = {}
  /\ Undefined # Unparsable

VARIABLES logs, shift, syslog
syslogVars == <<logs, shift, syslog>>

Time == 0..(Day * Days)

SyslogFormats == {"json", "short"}

JournalLog == [isJournal |-> TRUE]
FileLog == [isJournal |-> FALSE]

SYSLOG_SERVICES ==
  [dpkg |-> FileLog, noderedrpinodes |-> FileLog, ssh |-> JournalLog, kernel |-> JournalLog]

SyslogDto ==
  [name : DOMAIN SYSLOG_SERVICES, format : SyslogFormats \cup {Undefined},
   since : Time \cup {Undefined, Unparsable}]

NoQuery == [pc |-> "idle", name |-> Undefined, format |-> Undefined, since |-> Undefined,
            shown |-> {}]

SyslogInit ==
  /\ logs \in [DOMAIN SYSLOG_SERVICES -> {Time}]
  /\ shift \in Shifts
  /\ syslog = [r \in Watcher |-> NoQuery]

\* toISOString().slice(0, 10)
SinceArgument(since) == Day * (since \div Day)

\* journalctl --since a day: from midnight of the zone on.
JournalSince(log, since) ==
  IF since = Undefined THEN log
  ELSE {entry \in log : entry >= SinceArgument(since) - shift}

Log(r, new) == syslog' = [syslog EXCEPT ![r] = new] /\ UNCHANGED <<logs, shift>>

\* A file has one format.  The arguments of journalctl need the date in UTC.
GetServiceLog(r, dto) ==
  /\ syslog[r].pc = "idle"
  /\ Log(r, [name |-> dto.name, format |-> dto.format, since |-> dto.since, shown |-> {},
             pc |-> IF SYSLOG_SERVICES[dto.name].isJournal
                    THEN IF dto.since = Unparsable THEN "failed" ELSE "opens"
                    ELSE IF dto.format \in {Undefined, "short"} THEN "opens"
                    ELSE "bad request"])

\* journalctl starts, or the file is opened, and read from its start.
StreamsLog(r) ==
  /\ syslog[r].pc = "opens"
  /\ LET log == logs[syslog[r].name]
         shown == IF SYSLOG_SERVICES[syslog[r].name].isJournal
                  THEN JournalSince(log, syslog[r].since) ELSE log
     IN Log(r, [syslog[r] EXCEPT !.pc = "ok", !.shown = shown])

\* journalctl cannot be started, there is no such file.
OpenFails(r) ==
  /\ syslog[r].pc = "opens"
  /\ Log(r, [syslog[r] EXCEPT !.pc = "failed"])

SyslogNext ==
  \E r \in Watcher :
    (\E dto \in SyslogDto : GetServiceLog(r, dto)) \/ StreamsLog(r) \/ OpenFails(r)

-----------------------------------------------------------------------------
\* "If provided, only logs that are newer than this date will be returned"
\* (SyslogFilterDto.since).
OnlyNewerLogs ==
  \A r \in Watcher :
    syslog[r].pc = "ok" /\ syslog[r].since # Undefined =>
      \A entry \in syslog[r].shown : entry > syslog[r].since

\* How far from that a journal can be: entries of up to a day (and the zone's offset)
\* before are returned too; and all newer ones are, except in a zone west of UTC, where
\* those of its first hours may be missing.  A file is returned whole.
SinceBounds ==
  \A r \in Watcher :
    LET s == syslog[r]
        west == IF shift < 0 THEN -shift ELSE 0 IN
    s.pc = "ok" =>
      IF s.since = Undefined \/ ~SYSLOG_SERVICES[s.name].isJournal THEN s.shown = logs[s.name]
      ELSE /\ {entry \in logs[s.name] : entry >= s.since + west} \subseteq s.shown
           /\ \A entry \in s.shown : entry > s.since - Day - shift
=============================================================================
