--------------------------- MODULE SosReportProofs --------------------------
(***************************************************************************)
(* What holds of SosReport for any number of requests.                     *)
(***************************************************************************)
EXTENDS SosReport, TLAPS

\* Every variable keeps its type, for any set of requests.
THEOREM SosTypes == Spec => []TypeOK
<1>1. Init => TypeOK
  BY DEF Init, TypeOK, PC, Unit
<1>2. TypeOK /\ [Next]_vars => TypeOK'
  <2> SUFFICES ASSUME TypeOK, [Next]_vars PROVE TypeOK'
    OBVIOUS
  <2> USE DEF TypeOK, PC, Unit, Goto, Change
  <2>1. ASSUME NEW r \in Request, Arrive(r) PROVE TypeOK'
    BY <2>1 DEF Arrive
  <2>2. ASSUME NEW r \in Request, Check(r) PROVE TypeOK'
    BY <2>2 DEF Check
  <2>3. ASSUME NEW r \in Request, StartUnit(r) PROVE TypeOK'
    BY <2>3 DEF StartUnit
  <2>4. ASSUME NEW r \in Request, Poll(r) PROVE TypeOK'
    BY <2>4 DEF Poll
  <2>5. ASSUME NEW r \in Request, CallFails(r) PROVE TypeOK'
    BY <2>5 DEF CallFails
  <2>6. ASSUME NEW r \in Request, StreamEnds(r) PROVE TypeOK'
    BY <2>6 DEF StreamEnds
  <2>7. ASSUME NEW r \in Request, Delete(r) PROVE TypeOK'
    BY <2>7 DEF Delete
  <2>8. ASSUME NEW r \in Request, UnhandledRejection(r) PROVE TypeOK'
    BY <2>8 DEF UnhandledRejection, ServerEnds
  <2>9. ASSUME NEW r \in Request, Abort(r) PROVE TypeOK'
    BY <2>9 DEF Abort
  <2>10. CASE Crash
    BY <2>10 DEF Crash, ServerEnds
  <2>11. CASE Activate
    BY <2>11 DEF Activate
  <2>12. CASE RunWrites
    BY <2>12 DEF RunWrites
  <2>13. CASE RunEnds
    BY <2>13 DEF RunEnds
  <2>14. CASE UNCHANGED vars
    BY <2>14 DEF vars
  <2> QED
    BY <2>1, <2>2, <2>3, <2>4, <2>5, <2>6, <2>7, <2>8, <2>9, <2>10, <2>11, <2>12,
       <2>13, <2>14 DEF Next, Serve
<1> QED
  BY <1>1, <1>2, PTL DEF Spec
-----------------------------------------------------------------------------
(* Fresh and whole reports.  When no request arrives while another is      *)
(* served, the one that waits, or whose stream is open, is alone: the unit *)
(* runs for it until the run has ended, is not found activating by the     *)
(* poll, and nothing is left to write to the directory or to delete it.    *)

OneAtATime ==
  \A r, s \in Request : InService(r) /\ InService(s) => r = s

\* The unit and the directory while a request waits, and while it packs.
Awaited(r) ==
  /\ pc[r] \in {"check", "start"} => ended[r] = "no"
  /\ pc[r] = "wait" => (ended[r] = "no" <=> unit # "inactive")
  /\ pc[r] = "stream" => unit = "inactive"
  /\ pc[r] \in {"wait", "stream"} /\ ended[r] = "report" => dir = "complete"

Packed(r) == pc[r] \in {"stream", "delete", "ok"} => ended[r] # "no" /\ intact[r]

ReportInv ==
  /\ TypeOK
  /\ OneAtATime
  /\ \A r \in Request : Awaited(r) /\ Packed(r)

LEMMA ReportInitOK == Init => ReportInv
  BY DEF Init, ReportInv, OneAtATime, Awaited, Packed, InService, TypeOK, PC, Unit

LEMMA ReportNextOK ==
  ASSUME Prompt, Serial, ReportInv, TypeOK', [Next]_vars
  PROVE  ReportInv'
<1>0. TypeOK /\ OneAtATime /\ \A s \in Request : Awaited(s) /\ Packed(s)
  BY DEF ReportInv
<1> DEFINE Kept == OneAtATime' /\ \A s \in Request : Awaited(s)' /\ Packed(s)'
<1> USE DEF TypeOK, PC, Unit, OneAtATime, Awaited, Packed, InService, Goto, Change
<1>1. ASSUME NEW r \in Request, Arrive(r) PROVE Kept
  BY <1>0, <1>1, Serial DEF Arrive
<1>2. ASSUME NEW r \in Request, Check(r) PROVE Kept
  BY <1>0, <1>2 DEF Check
<1>3. ASSUME NEW r \in Request, StartUnit(r) PROVE Kept
  <2>1. OneAtATime'
    BY <1>0, <1>3 DEF StartUnit
  <2>2. ASSUME NEW s \in Request PROVE Awaited(s)' /\ Packed(s)'
    BY <1>0, <1>3, <2>2 DEF StartUnit
  <2> QED
    BY <2>1, <2>2
<1>4. ASSUME NEW r \in Request, Poll(r) PROVE Kept
  <2>1. unit = "inactive"
    BY <1>0, <1>4, Prompt DEF Poll
  <2> QED
    BY <1>0, <1>4, <2>1 DEF Poll
<1>5. ASSUME NEW r \in Request, CallFails(r) PROVE Kept
  BY <1>0, <1>5 DEF CallFails
<1>6. ASSUME NEW r \in Request, StreamEnds(r) PROVE Kept
  BY <1>0, <1>6 DEF StreamEnds
<1>7. ASSUME NEW r \in Request, Delete(r) PROVE Kept
  BY <1>0, <1>7 DEF Delete
<1>8. ASSUME NEW r \in Request, UnhandledRejection(r) PROVE Kept
  BY <1>0, <1>8 DEF UnhandledRejection, ServerEnds
<1>9. ASSUME NEW r \in Request, Abort(r) PROVE Kept
  BY <1>0, <1>9 DEF Abort
<1>10. ASSUME Crash PROVE Kept
  BY <1>0, <1>10 DEF Crash, ServerEnds
<1>11. ASSUME Activate PROVE Kept
  BY <1>0, <1>11 DEF Activate
<1>12. ASSUME RunWrites PROVE Kept
  BY <1>0, <1>12 DEF RunWrites
<1>13. ASSUME RunEnds PROVE Kept
  <2>1. OneAtATime' /\ \A s \in Request : Packed(s)'
    BY <1>0, <1>13 DEF RunEnds
  <2>2. ASSUME NEW s \in Request PROVE Awaited(s)'
    <3>1. PICK outcome \in {"report", "failed"} :
            /\ outcome = "report" => dir' = "complete"
            /\ ended' = [r \in Request |-> IF pc[r] = "wait" THEN outcome ELSE ended[r]]
      BY <1>13 DEF RunEnds
    <3>2. unit # "inactive" /\ unit' = "inactive" /\ pc' = pc
      BY <1>13 DEF RunEnds
    <3> QED
      BY <1>0, <2>2, <3>1, <3>2
  <2> QED
    BY <2>1, <2>2
<1>14. ASSUME UNCHANGED vars PROVE Kept
  BY <1>0, <1>14 DEF vars
<1> QED
  BY <1>1, <1>2, <1>3, <1>4, <1>5, <1>6, <1>7, <1>8, <1>9, <1>10, <1>11, <1>12,
     <1>13, <1>14 DEF Next, Serve, ReportInv

\* Requests one at a time and a unit that is activated before the first poll: no stream is
\* opened before a run has ended that was started, or found running, by the request's own
\* StartUnit; and unless that run failed, its report is what is packed.
THEOREM ReportsAreFresh ==
  ASSUME Prompt, Serial
  PROVE  Spec => []FreshReport
<1>1. ReportInv /\ TypeOK' /\ [Next]_vars => ReportInv'
  BY Prompt, Serial, ReportNextOK
<1>2. ReportInv => FreshReport
  BY DEF ReportInv, Awaited, Packed, FreshReport
<1> QED
  BY <1>1, <1>2, ReportInitOK, SosTypes, PTL DEF Spec

\* Requests one at a time and a unit that is activated before the first poll: what was
\* downloaded is the directory as it was when its stream was opened.
THEOREM ReportsAreWhole ==
  ASSUME Prompt, Serial
  PROVE  Spec => []WholeReport
<1>1. ReportInv /\ TypeOK' /\ [Next]_vars => ReportInv'
  BY Prompt, Serial, ReportNextOK
<1>2. ReportInv => WholeReport
  BY DEF ReportInv, Packed, WholeReport
<1> QED
  BY <1>1, <1>2, ReportInitOK, SosTypes, PTL DEF Spec
=============================================================================
