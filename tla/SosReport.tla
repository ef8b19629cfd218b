------------------------------ MODULE SosReport -----------------------------
(***************************************************************************)
(* Generating and downloading a sos report: SosReportService against       *)
(* systemd and the directory the report is written to.                     *)
(*                                                                         *)
(* A request checks that the unit is not running, starts it, polls it      *)
(* every second until it has ended, and answers with a stream that packs   *)
(* the directory.  When the stream ends the directory is deleted.  There   *)
(* is one unit and one directory for all requests.                         *)
(*                                                                         *)
(* The unit is not part of this repository.  The service takes it for      *)
(* running when it is active and running, or deactivating: "running"       *)
(* stands for both.  It does not take it for running while systemd is      *)
(* still activating it.                                                    *)
(***************************************************************************)
CONSTANTS
  Request,   \* slots for requests in the server
  Serial,    \* TRUE: no request arrives while another is being served
  Prompt     \* TRUE: the second between two polls is enough to activate the unit

ASSUME SosAssumption == Serial \in BOOLEAN /\ Prompt \in BOOLEAN

VARIABLES
  unit,      \* systemd: "inactive", "activating" or "running"
  dir,       \* the report's directory: "none", "partial" or "complete"
  pc,        \* per request: what it does next, or its outcome
  ended,     \* history: how the last run ended since the request started it: "no", "failed",
             \* or "report"
  intact     \* history: has the directory stayed as it was since its stream was opened?

vars == <<unit, dir, pc, ended, intact>>

PC == {"idle", "check", "start", "wait", "stream", "delete", "crash",
       "ok", "conflict", "error", "aborted"}

Unit == {"inactive", "activating", "running"}

TypeOK ==
  /\ unit \in Unit
  /\ dir \in {"none", "partial", "complete"}
  /\ pc \in [Request -> PC]
  /\ ended \in [Request -> {"no", "failed", "report"}]
  /\ intact \in [Request -> BOOLEAN]

\* The unit and the directory as an earlier server may have left them.
Init ==
  /\ unit \in Unit
  /\ dir \in {"none", "partial", "complete"}
  /\ pc = [r \in Request |-> "idle"]
  /\ ended = [r \in Request |-> "no"]
  /\ intact = [r \in Request |-> FALSE]

InService(r) == pc[r] \in {"check", "start", "wait", "stream", "delete", "crash"}

Goto(r, s) == pc' = [pc EXCEPT ![r] = s]

\* The directory becomes d under the streams that read it.
Change(d) ==
  /\ dir' = d
  /\ intact' = [r \in Request |-> intact[r] /\ (pc[r] = "stream" => d = dir)]

-----------------------------------------------------------------------------
(* SosReportService                                                        *)

\* createReportStream is called; the upload directory is there, or its absence logged.
Arrive(r) ==
  /\ ~InService(r) /\ pc[r] # "aborted"
  /\ Serial => \A s \in Request : ~InService(s)
  /\ Goto(r, "check")
  /\ ended' = [ended EXCEPT ![r] = "no"]
  /\ intact' = [intact EXCEPT ![r] = FALSE]
  /\ UNCHANGED <<unit, dir>>

\* isReportServiceRunning before the start.
Check(r) ==
  /\ pc[r] = "check"
  /\ Goto(r, IF unit = "running" THEN "conflict" ELSE "start")
  /\ UNCHANGED <<unit, dir, ended, intact>>

\* StartUnit: systemd has queued the job; a unit that runs already stays as it is.
StartUnit(r) ==
  /\ pc[r] = "start"
  /\ unit' = IF unit = "inactive" THEN "activating" ELSE unit
  /\ Goto(r, "wait")
  /\ UNCHANGED <<dir, ended, intact>>

\* Mutant: the state that is polled is not looked at.
PollOnce(r) ==
  /\ pc[r] = "wait"
  /\ Goto(r, "stream")
  /\ intact' = [intact EXCEPT ![r] = TRUE]
  /\ UNCHANGED <<unit, dir, ended>>

\* Mutant: it is waited for a report, which a run that fails does not write.
PollForReport(r) ==
  /\ pc[r] = "wait"
  /\ unit = "inactive" /\ dir = "complete"
  /\ Goto(r, "stream")
  /\ intact' = [intact EXCEPT ![r] = TRUE]
  /\ UNCHANGED <<unit, dir, ended>>

\* waitForReportService: the poll that finds the unit not running; the stream is opened.
\* A poll that finds it running changes nothing, and there is another a second later.
Poll(r) ==
  /\ pc[r] = "wait"
  /\ unit # "running"
  /\ Prompt => unit # "activating"
  /\ Goto(r, "stream")
  /\ intact' = [intact EXCEPT ![r] = TRUE]
  /\ UNCHANGED <<unit, dir, ended>>

\* A D-Bus call fails or the unit has no properties: the request is answered with an
\* error, the unit and the directory stay.
CallFails(r) ==
  /\ pc[r] \in {"check", "start", "wait"}
  /\ Goto(r, "error")
  /\ UNCHANGED <<unit, dir, ended, intact>>

\* The stream has packed the directory, or fails: always when there was none all along.
StreamEnds(r) ==
  /\ pc[r] = "stream"
  /\ \/ (dir = "none" => ~intact[r]) /\ Goto(r, "delete")
     \/ Goto(r, "crash")
  /\ UNCHANGED <<unit, dir, ended, intact>>

\* The client goes away: a piped stream is not read any more and the pipeline never
\* settles.
Abort(r) ==
  /\ pc[r] = "stream"
  /\ Goto(r, "aborted")
  /\ UNCHANGED <<unit, dir, ended, intact>>

\* deleteReportDirectory, in the finally of the pipeline; a failure is logged.
Delete(r) ==
  /\ pc[r] = "delete"
  /\ Goto(r, "ok")
  /\ \/ Change("none")
     \/ UNCHANGED <<dir, intact>>
  /\ UNCHANGED <<unit, ended>>

ServerEnds ==
  /\ pc' = [r \in Request |-> "idle"]
  /\ ended' = [r \in Request |-> "no"]
  /\ intact' = [r \in Request |-> FALSE]
  /\ UNCHANGED unit

\* finally passes the error of the pipeline on and nobody handles it: the directory is
\* deleted, then the rejection ends the server and every request with it.
UnhandledRejection(r) ==
  /\ pc[r] = "crash"
  /\ dir' = "none"
  /\ ServerEnds

\* The server is stopped or the device reboots.
Crash == ServerEnds /\ UNCHANGED dir

-----------------------------------------------------------------------------
(* The unit                                                                *)

Activate ==
  /\ unit = "activating"
  /\ unit' = "running"
  /\ UNCHANGED <<dir, pc, ended, intact>>

\* The run writes some of its files.
RunWrites ==
  /\ unit = "running"
  /\ Change("partial")
  /\ UNCHANGED <<unit, pc, ended>>

\* The run ends, with a report or, having failed or not even started, with the directory
\* as it is: without one, with some files, or with what an earlier run left.
RunEnds ==
  /\ unit # "inactive"
  /\ unit' = "inactive"
  /\ \E outcome \in {"report", "failed"} :
       /\ IF outcome = "report" THEN unit = "running" /\ Change("complete")
          ELSE UNCHANGED <<dir, intact>>
       /\ ended' = [r \in Request |-> IF pc[r] = "wait" THEN outcome ELSE ended[r]]
  /\ UNCHANGED pc

Serve(r) ==
  Check(r) \/ StartUnit(r) \/ Poll(r) \/ StreamEnds(r) \/ Delete(r) \/ UnhandledRejection(r)

Next ==
  \/ \E r \in Request : Arrive(r) \/ Serve(r) \/ CallFails(r) \/ Abort(r)
  \/ Crash
  \/ Activate \/ RunWrites \/ RunEnds

Spec == Init /\ [][Next]_vars

\* D-Bus calls return unless they fail, the timer of the poll fires, clients read the
\* stream or go away, and a run of the unit ends.  Nothing has to fail: a request that
\* finds the unit running goes on waiting.
FairSpec ==
  /\ Spec
  /\ \A r \in Request : WF_vars(Serve(r))
  /\ WF_vars(RunEnds)

-----------------------------------------------------------------------------
(* Properties                                                              *)

\* The stream of a request is opened after a run that ended later than its own StartUnit
\* (waitForReportService); and unless that run failed, what is packed is a complete report
\* that was written since: not one an earlier request left, nor part of one.
FreshReport ==
  \A r \in Request :
    pc[r] \in {"stream", "delete", "ok"} =>
      /\ ended[r] # "no"
      /\ ended[r] = "report" /\ pc[r] = "stream" => dir = "complete"

\* "Generate and download a sos-report" (DeviceAdminController): what is packed was
\* generated for the request.  The service does not ask how the run ended, so the directory
\* that an aborted request left is downloaded after a run that failed.
GeneratedReport ==
  \A r \in Request : pc[r] \in {"stream", "delete", "ok"} => ended[r] = "report"

\* What was downloaded is the directory as it was when its stream was opened: neither
\* written to nor deleted while it was packed.
WholeReport ==
  \A r \in Request : pc[r] \in {"delete", "ok"} => intact[r]

\* Every request is answered, although nothing fails: the wait for the unit ends, and so
\* does the stream.
EveryRequestEnds == \A r \in Request : InService(r) ~> ~InService(r)
=============================================================================
