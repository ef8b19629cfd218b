------------------------------ MODULE ShellCall ------------------------------
(***************************************************************************)
(* What the services rely on when they run a program: a call is answered   *)
(* at most once; with the output of a program that succeeded, or with a    *)
(* rejection; and, of a stream, with the stream of any program that        *)
(* starts.                                                                 *)
(***************************************************************************)
EXTENDS Sequences

CONSTANTS Child, NoProgram

VARIABLES program, promise

Init ==
  /\ program = [c \in Child |-> NoProgram]
  /\ promise = [c \in Child |-> "none"]

Ask(c) ==
  /\ promise[c] = "none"
  /\ \E p \in [kind : {"spawn", "stream"}, starts : BOOLEAN, multibyte : BOOLEAN, exit : {0, 1}] :
       program' = [program EXCEPT ![c] = p]
  /\ promise' = [promise EXCEPT ![c] = "pending"]

\* An output in which characters have several bytes may arrive garbled.
Answers(p) ==
  IF ~p.starts THEN {"rejected"}
  ELSE IF p.kind = "stream" THEN {"stream"}
  ELSE IF p.exit # 0 THEN {"rejected"}
  ELSE IF p.multibyte THEN {"whole", "garbled"} ELSE {"whole"}

Settle(c) ==
  /\ promise[c] = "pending"
  /\ \E answer \in Answers(program[c]) : promise' = [promise EXCEPT ![c] = answer]
  /\ UNCHANGED program

Next == \E c \in Child : Ask(c) \/ Settle(c)

Spec == Init /\ [][Next]_<<program, promise>>
=============================================================================
