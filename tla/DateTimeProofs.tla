--------------------------- MODULE DateTimeProofs ---------------------------
(***************************************************************************)
(* What the requests to DateTimeService leave behind, however many of them *)
(* overlap, fail or are caught by a crash, a restart of the device or a    *)
(* change of the clock, for any zones, servers and requests.               *)
(***************************************************************************)
EXTENDS AccessControlProofs

LEMMA ReqTyped ==
  ASSUME TypeInv
  PROVE  req \in [Request -> RequestState]
  BY DEF TypeInv, TypeOK

\* A request moves to pc: its call stays, and all others stay where they are.
LEMMA Moves ==
  ASSUME TypeInv, NEW r \in Request, NEW pc
  PROVE  /\ Goto(r, pc) =>
              /\ req'[r].pc = pc /\ req'[r].call = req[r].call /\ req'[r].did = req[r].did
              /\ \A s \in Request \ {r} : req'[s] = req[s]
         /\ \A effect : Did(r, effect, pc) =>
              /\ req'[r].pc = pc /\ req'[r].call = req[r].call
              /\ req'[r].did = req[r].did \cup {effect}
              /\ \A s \in Request \ {r} : req'[s] = req[s]
  BY ReqTyped DEF Goto, Did, RequestState

\* The steps, as far as DateTime is concerned.
LEMMA TimeSteps ==
  ASSUME TypeInv, [Next]_vars
  PROVE  \/ UNCHANGED <<zone, daemon, job, file, req, wanted, broken>>
         \/ \E r \in Request, call \in Call, t \in tokens : Pass(r, t, call)
         \/ \E r \in Request : Handle(r) \/ CallFails(r) \/ ChangeUser(r)
         \/ RunJob \/ TimeCrash
         \/ \E r \in Request : \E time : Reboot(r, time)
<1>1. scope.calls \subseteq Call /\ scope.requests \subseteq Request
  BY ScopeAssumption DEF TypeInv, TypeOK
<1>2. ASSUME NEW r \in scope.requests, NEW t \in tokens, NEW call \in scope.calls,
             Pass(r, t, call)
      PROVE  \E s \in Request, c \in Call, u \in tokens : Pass(s, u, c)
  BY <1>1, <1>2
<1>3. ASSUME \/ \E u \in scope.logins : LoginRead(u)
             \/ \E login \in signing : LoginSign(login) \/ LoginFails(login)
             \/ Tick \/ UNCHANGED vars
      PROVE  UNCHANGED <<zone, daemon, job, file, req, wanted, broken>>
  BY <1>3 DEF LoginRead, LoginSign, LoginFails, Tick, vars, accessVars, timeVars
<1>4. Device => RunJob \/ UNCHANGED <<zone, daemon, job, file, req, wanted, broken>>
  BY DEF Device, Synchronise
<1> QED
  BY <1>2, <1>3, <1>4 DEF Next, Serve, Crash, Restart

(***************************************************************************)
(* NTP.  Between the answers of SetNTP the daemon, or the restart that     *)
(* waits for it, is what was asked for last; and a daemon that is on, with *)
(* nobody about to restart it, has read the file that is there.            *)
(***************************************************************************)
SwitchInv ==
  "switch" \notin broken /\ (\A r \in Request : ~At(r, "switch")) =>
    (daemon.on \/ job <=> wanted)

FileInv ==
  "server" \notin broken /\ daemon.on /\ ~job
    /\ (\A r \in Request : req[r].pc \notin {"fill", "restart"}) =>
  daemon.config = file

NtpInv == SwitchInv /\ FileInv

LEMMA NtpInit == Init => NtpInv
  BY DEF Init, TimeInit, NtpInv, SwitchInv, FileInv

\* A step of a request that is not at its SetNTP leaves the switch.
LEMMA SwitchKept ==
  ASSUME TypeInv, SwitchInv, NEW r \in Request, NEW pc,
         Goto(r, pc) \/ \E effect : Did(r, effect, pc),
         UNCHANGED <<daemon, job, wanted>>,
         ("switch" \in broken \/ At(r, "switch")) => "switch" \in broken'
  PROVE  SwitchInv'
<1>1. req'[r].pc = pc /\ \A s \in Request \ {r} : req'[s] = req[s]
  BY Moves
<1> QED
  BY <1>1 DEF SwitchInv, At

\* A step of a request that is neither writing the file nor about to restart the unit,
\* or that starts to, leaves file and daemon in step.
LEMMA FileKept ==
  ASSUME TypeInv, FileInv, NEW r \in Request, NEW pc,
         Goto(r, pc) \/ \E effect : Did(r, effect, pc),
         UNCHANGED <<daemon, job>>,
         file' = file \/ pc \in {"fill", "restart"},
         \/ "server" \in broken'
         \/ pc \in {"fill", "restart"}
         \/ "server" \notin broken /\ req[r].pc \notin {"fill", "restart"}
  PROVE  FileInv'
<1>1. req'[r].pc = pc /\ \A s \in Request \ {r} : req'[s] = req[s]
  BY Moves
<1> QED
  BY <1>1 DEF FileInv

LEMMA SwitchNtpStep ==
  ASSUME TypeInv, NtpInv, NEW r \in Request, SwitchNtp(r)
  PROVE  NtpInv'
<1>1. /\ wanted \in BOOLEAN /\ wanted' \in BOOLEAN
      /\ daemon \in [on : BOOLEAN, config : Server \cup {Absent, Torn}]
  BY DEF TypeInv, TypeOK, SwitchNtp, At, CallFits, NtpSettings
<1>2. /\ At(r, "switch") /\ req'[r].pc = "ok"
      /\ \A s \in Request \ {r} : req'[s] = req[s]
      /\ broken' = broken \ {"switch"} /\ file' = file
  BY Moves DEF SwitchNtp
<1>3. CASE ~wanted'
  <2>1. ~daemon'.on /\ ~job'
    BY <1>1, <1>3 DEF SwitchNtp
  <2> QED
    BY <1>3, <2>1 DEF NtpInv, SwitchInv, FileInv
<1>4. CASE wanted' /\ (daemon.on \/ job)
  <2>1. UNCHANGED <<daemon, job>>
    BY <1>4 DEF SwitchNtp
  <2>2. SwitchInv'
    BY <1>4, <2>1 DEF SwitchInv
  <2>3. FileInv'
    BY <1>2, <2>1 DEF NtpInv, FileInv, At
  <2> QED
    BY <2>2, <2>3 DEF NtpInv
<1>5. CASE wanted' /\ ~(daemon.on \/ job)
  <2>1. daemon'.on /\ daemon'.config = file
    BY <1>5 DEF SwitchNtp, Start
  <2> QED
    BY <1>2, <1>5, <2>1 DEF NtpInv, SwitchInv, FileInv
<1> QED
  BY <1>1, <1>3, <1>4, <1>5

LEMMA NtpStep == TypeInv /\ NtpInv /\ [Next]_vars => NtpInv'
<1> SUFFICES ASSUME TypeInv, NtpInv, [Next]_vars PROVE NtpInv'
  OBVIOUS
<1> USE DEF NtpInv
<1>1. CASE UNCHANGED <<zone, daemon, job, file, req, wanted, broken>>
  BY <1>1 DEF SwitchInv, FileInv, At
<1>2. ASSUME NEW r \in Request, NEW call \in Call, NEW t \in tokens, Pass(r, t, call)
      PROVE  NtpInv'
  <2>1. /\ req'[r].pc = FirstStep(call) /\ \A s \in Request \ {r} : req'[s] = req[s]
        /\ req[r].pc \in {"idle", "ok", "failed"}
        /\ UNCHANGED <<daemon, job, file, wanted, broken>>
    BY <1>2, ReqTyped DEF Pass, Running
  <2>2. SwitchInv'
    BY <2>1 DEF SwitchInv, At
  <2>3. FileInv'
    BY <2>1 DEF FileInv
  <2> QED
    BY <2>2, <2>3
<1>3. ASSUME NEW r \in Request, ChangeUser(r) PROVE NtpInv'
  BY <1>3, SwitchKept, FileKept DEF ChangeUser, At
<1>4. ASSUME NEW r \in Request, CheckNtp(r) PROVE NtpInv'
  BY <1>4, SwitchKept, FileKept DEF CheckNtp, At
<1>5. ASSUME NEW r \in Request, SetTime(r) PROVE NtpInv'
  BY <1>5, SwitchKept, FileKept DEF SetTime, At
<1>6. ASSUME NEW r \in Request, SetTimezone(r) PROVE NtpInv'
  BY <1>6, SwitchKept, FileKept DEF SetTimezone, At
<1>7. ASSUME NEW r \in Request, Truncate(r) PROVE NtpInv'
  BY <1>7, SwitchKept, FileKept DEF Truncate, At
<1>8. ASSUME NEW r \in Request, WriteServer(r) PROVE NtpInv'
  BY <1>8, SwitchKept, FileKept DEF WriteServer, At
<1>9. ASSUME NEW r \in Request, RestartUnit(r) PROVE NtpInv'
  <2>1. job' /\ req'[r].pc = "switch"
    BY <1>9, Moves DEF RestartUnit
  <2> QED
    BY <2>1 DEF SwitchInv, FileInv, At
<1>10. ASSUME NEW r \in Request, SwitchNtp(r) PROVE NtpInv'
  BY <1>10, SwitchNtpStep
<1>11. ASSUME NEW r \in Request, CallFails(r) PROVE NtpInv'
  <2>1. /\ Goto(r, "failed") /\ broken' = broken \cup LeftAt(req[r].pc)
        /\ UNCHANGED <<daemon, job, file, wanted>>
    BY <1>11 DEF CallFails
  <2>2. /\ At(r, "switch") => "switch" \in LeftAt(req[r].pc)
        /\ req[r].pc \in {"fill", "restart"} => "server" \in LeftAt(req[r].pc)
    BY DEF At, LeftAt
  <2>3. SwitchInv'
    BY <2>1, <2>2, SwitchKept
  <2>4. FileInv'
    BY <2>1, <2>2, FileKept
  <2> QED
    BY <2>3, <2>4
<1>12. CASE RunJob
  BY <1>12 DEF RunJob, Start, SwitchInv, FileInv, At
<1>13. CASE TimeCrash
  <2>1. /\ UNCHANGED <<daemon, job, file, wanted>>
        /\ broken' = broken \cup UNION {LeftAt(req[r].pc) : r \in Request}
    BY <1>13 DEF TimeCrash
  <2>2. \A r \in Request :
          /\ At(r, "switch") => "switch" \in broken'
          /\ req[r].pc \in {"fill", "restart"} => "server" \in broken'
    BY <2>1 DEF At, LeftAt
  <2> QED
    BY <2>1, <2>2 DEF SwitchInv, FileInv
<1>14. ASSUME NEW r \in Request, NEW time, Reboot(r, time) PROVE NtpInv'
  BY <1>14 DEF Reboot, SwitchInv, FileInv
<1> QED
  BY <1>1, <1>2, <1>3, <1>4, <1>5, <1>6, <1>7, <1>8, <1>9, <1>10, <1>11, <1>12, <1>13, <1>14,
     TimeSteps DEF Handle

LEMMA TypeAlways == Spec => []TypeInv
  BY InitTypes, NextTypes, PTL DEF Spec

\* Once no setNtp is on its way and no restart waits, the daemon is as SetNTP was last
\* asked and runs with the server the API shows, unless a setNtp was left half-way.
\* (setNtp, getNtpAddressFromConfig)
THEOREM NtpRunsAsConfigured == Spec => []NtpAsConfigured
<1>1. TypeInv /\ NtpInv => NtpAsConfigured
  <2> SUFFICES ASSUME TypeInv, NtpInv, ~job,
                      \A r \in Request : Running(r) => req[r].call.kind # "ntp"
               PROVE  /\ "switch" \notin broken => daemon.on = wanted
                      /\ "server" \notin broken /\ daemon.on => daemon.config = file
    BY DEF NtpAsConfigured
  <2>1. ASSUME NEW r \in Request
        PROVE  req[r].pc \notin {"fill", "restart", "switch"}
    BY DEF TypeInv, CallFits, NtpSettings, Running
  <2>2. daemon.on \in BOOLEAN /\ wanted \in BOOLEAN
    BY DEF TypeInv, TypeOK
  <2> QED
    BY <2>1, <2>2 DEF NtpInv, SwitchInv, FileInv, At
<1> QED
  BY <1>1, TypeAlways, NtpInit, NtpStep, PTL DEF Spec

(***************************************************************************)
(* The answers.  What a setDateTime has done is known at each of its calls.*)
(***************************************************************************)
DidAt(r) ==
  req[r].call # None /\ req[r].call.kind = "date" =>
    /\ req[r].pc \in {"check", "time"} => req[r].did = {}
    /\ At(r, "zone") => req[r].did = {"time"}
    /\ At(r, "ok") => req[r].did = {"time", "zone"}
    /\ At(r, "failed") => req[r].did \subseteq {"time"}

DidInv == \A r \in Request : DidAt(r)

LEMMA DidInit == Init => DidInv
  BY DEF Init, TimeInit, DidInv, DidAt, Idle

\* A step of one request leaves what the others have done.
LEMMA DidKept ==
  ASSUME DidInv, NEW r \in Request, DidAt(r)',
         \A s \in Request \ {r} : req'[s] = req[s]
  PROVE  DidInv'
  BY DEF DidInv, DidAt, At

\* The steps of setNtp, of a change of users and of a restart are not those of a setDateTime.
LEMMA KindOfStep ==
  ASSUME TypeInv, NEW r \in Request,
         req[r].pc \in {"write", "fill", "restart", "switch", "user", "reboot"}
  PROVE  req[r].call.kind # "date"
  BY DEF TypeInv, CallFits, NtpSettings, UserSettings, RebootCall

LEMMA DidStep == TypeInv /\ DidInv /\ [Next]_vars => DidInv'
<1> SUFFICES ASSUME TypeInv, DidInv, [Next]_vars PROVE DidInv'
  OBVIOUS
<1>1. CASE UNCHANGED <<zone, daemon, job, file, req, wanted, broken>>
  BY <1>1 DEF DidInv, DidAt, At
<1>2. ASSUME NEW r \in Request, NEW call \in Call, NEW t \in tokens, Pass(r, t, call)
      PROVE  DidInv'
  <2>1. /\ req'[r].pc = FirstStep(call) /\ req'[r].did = {}
        /\ \A s \in Request \ {r} : req'[s] = req[s]
    BY <1>2, ReqTyped DEF Pass
  <2>2. DidAt(r)'
    <3>1. CASE FirstStep(call) = "check"
      BY <2>1, <3>1 DEF DidAt, At
    <3>2. CASE FirstStep(call) # "check"
      BY <2>1, <3>2, FirstStepFits DEF DidAt, At
    <3> QED
      BY <3>1, <3>2
  <2> QED
    BY <2>1, <2>2, DidKept
<1>3. ASSUME NEW r \in Request,
             \/ ChangeUser(r) \/ Truncate(r) \/ WriteServer(r)
             \/ RestartUnit(r) \/ SwitchNtp(r)
      PROVE  DidInv'
  <2>1. \E pc : Goto(r, pc) \/ \E effect : Did(r, effect, pc)
    BY <1>3 DEF ChangeUser, Truncate, WriteServer, RestartUnit, SwitchNtp
  <2>2. req'[r].call = req[r].call /\ \A s \in Request \ {r} : req'[s] = req[s]
    BY <2>1, Moves
  <2>3. req[r].call.kind # "date"
    BY <1>3, KindOfStep DEF ChangeUser, Truncate, WriteServer, RestartUnit, SwitchNtp, At
  <2>4. DidAt(r)'
    BY <2>2, <2>3 DEF DidAt
  <2> QED
    BY <2>2, <2>4, DidKept
<1>4. ASSUME NEW r \in Request, CheckNtp(r) PROVE DidInv'
  <2>1. /\ req'[r].pc \in {"failed", "time"}
        /\ req'[r].call = req[r].call /\ req'[r].did = req[r].did
        /\ \A s \in Request \ {r} : req'[s] = req[s]
    BY <1>4, Moves DEF CheckNtp
  <2>2. DidAt(r)'
    BY <1>4, <2>1 DEF CheckNtp, DidInv, DidAt, At
  <2> QED
    BY <2>1, <2>2, DidKept
<1>5. ASSUME NEW r \in Request, SetTime(r) PROVE DidInv'
  <2>1. /\ req'[r].pc = "zone"
        /\ req'[r].call = req[r].call /\ req'[r].did = req[r].did \cup {"time"}
        /\ \A s \in Request \ {r} : req'[s] = req[s]
    BY <1>5, Moves DEF SetTime
  <2>2. DidAt(r)'
    BY <1>5, <2>1 DEF SetTime, DidInv, DidAt, At
  <2> QED
    BY <2>1, <2>2, DidKept
<1>6. ASSUME NEW r \in Request, SetTimezone(r) PROVE DidInv'
  <2>1. /\ req'[r].pc = "ok"
        /\ req'[r].call = req[r].call /\ req'[r].did = req[r].did \cup {"zone"}
        /\ \A s \in Request \ {r} : req'[s] = req[s]
    BY <1>6, Moves DEF SetTimezone
  <2>2. DidAt(r)'
    BY <1>6, <2>1 DEF SetTimezone, DidInv, DidAt, At
  <2> QED
    BY <2>1, <2>2, DidKept
<1>7. ASSUME NEW r \in Request, CallFails(r) PROVE DidInv'
  <2>1. /\ req'[r].pc = "failed"
        /\ req'[r].call = req[r].call /\ req'[r].did = req[r].did
        /\ \A s \in Request \ {r} : req'[s] = req[s]
    BY <1>7, Moves DEF CallFails
  <2>2. req[r].pc \in {"check", "time", "zone"} \/ req[r].call.kind # "date"
    BY <1>7, ReqTyped, KindOfStep DEF CallFails, Running, RequestState
  <2>3. DidAt(r)'
    BY <2>1, <2>2 DEF DidInv, DidAt, At
  <2> QED
    BY <2>1, <2>3, DidKept
<1>8. ASSUME TimeCrash \/ \E r \in Request : \E time : Reboot(r, time)
      PROVE  DidInv'
  BY <1>8 DEF TimeCrash, Reboot, Idle, DidInv, DidAt
<1>9. CASE RunJob
  BY <1>9 DEF RunJob, DidInv, DidAt, At
<1> QED
  BY <1>1, <1>2, <1>3, <1>4, <1>5, <1>6, <1>7, <1>8, <1>9, TimeSteps DEF Handle

\* A setDateTime that was answered success has set time and zone; one that failed has set
\* nothing or the time alone.  (setDateTime, and the refusals of timedated)
THEOREM DatesAreAnsweredTruly == Spec => []DateTimeAnswers
<1>1. DidInv => DateTimeAnswers
  BY DEF DidInv, DidAt, DateTimeAnswers
<1> QED
  BY <1>1, TypeAlways, DidInit, DidStep, PTL DEF Spec
=============================================================================
