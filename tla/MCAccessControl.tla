-------------------------- MODULE MCAccessControl --------------------------
(* Behaviours of two kinds: one about the lives of tokens, with users whose roles      *)
(* change and a clock that is set, one about date, time and NTP requests that overlap.  *)
EXTENDS AccessControl

CONSTANTS r1, r2, ann, berlin, troll, pool, local

MCRoles == {{"admin"}, {"user"}}

TokenCalls ==
  [kind : {"date"}, date : {0}, timeZone : {berlin}] \cup UserSettings \cup RebootCall

TimeCalls ==
  [kind : {"date"}, date : {0}, timeZone : {troll}] \cup RebootCall
    \cup {[kind |-> "ntp", isNtpEnabled |-> TRUE, ntpServer |-> pool],
          [kind |-> "ntp", isNtpEnabled |-> FALSE, ntpServer |-> local],
          [kind |-> "ntp", isNtpEnabled |-> FALSE, ntpServer |-> None]}

MCScope ==
  {[calls |-> TokenCalls, logins |-> {Admin, ann}, tokens |-> 2, days |-> 2,
    requests |-> {r1}],
   [calls |-> TimeCalls, logins |-> {Admin}, tokens |-> 1, days |-> 0,
    requests |-> {r1, r2}]}
=============================================================================
