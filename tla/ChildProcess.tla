---------------------------- MODULE ChildProcess ----------------------------
(***************************************************************************)
(* ChildProcessService: a program is spawned, its output arrives in        *)
(* chunks, it exits, and once its output has ended the child closes.       *)
(* spawn answers with the text at the close; spawnStreamable answers when  *)
(* the output first is readable, which the end of an empty output is too.  *)
(*                                                                         *)
(* Nothing limits how long a program runs.  An output is a sequence of     *)
(* bytes: whole characters, and the two halves of longer ones.             *)
(***************************************************************************)
EXTENDS Naturals, Sequences

CONSTANTS
  Child,       \* calls of the service
  Output,      \* what programs print
  NoProgram

ASSUME OutputAssumption == Output \subseteq Seq({"char", "lead", "trail"})

VARIABLE children

Program == [kind : {"spawn", "stream"}, starts : BOOLEAN, output : Output, exit : {0, 1}]

ASSUME ProgramAssumption == NoProgram \notin Program

Unborn ==
  [program |-> NoProgram, phase |-> "none", unread |-> <<>>, text |-> <<>>,
   promise |-> "none"]

ChildInit == children = [c \in Child |-> Unborn]

Phase(c, phase) == children[c].phase = phase

Set(c, new) == children' = [children EXCEPT ![c] = new]

Streams(c) == children[c].program # NoProgram /\ children[c].program.kind = "stream"

\* Every chunk is made a string by itself: what of a character is in another chunk is not
\* recognised.  Of each byte, what it adds to the string.
Decoded(chunk) ==
  LET Following(i) == IF i + 1 \in DOMAIN chunk THEN chunk[i + 1] ELSE "none"
      Previous(i) == IF i - 1 \in DOMAIN chunk THEN chunk[i - 1] ELSE "none"
  IN [i \in DOMAIN chunk |->
        CASE chunk[i] = "lead" -> IF Following(i) = "trail" THEN "long" ELSE "?"
          [] chunk[i] = "trail" -> IF Previous(i) = "lead" THEN "" ELSE "?"
          [] OTHER -> "char"]

-----------------------------------------------------------------------------
Spawn(c, program) ==
  /\ Phase(c, "none")
  /\ Set(c, [program |-> program, phase |-> IF program.starts THEN "runs" ELSE "error",
             unread |-> IF program.starts THEN program.output ELSE <<>>, text |-> <<>>,
             promise |-> "pending"])

\* 'error': the program could not be started.
Fails(c) ==
  /\ Phase(c, "error")
  /\ Set(c, [children[c] EXCEPT !.phase = "closed", !.promise = "rejected"])

\* Mutant: only output is readable, not its end.
ReadableWithOutput(c) ==
  /\ Streams(c)
  /\ children[c].promise = "pending"
  /\ children[c].unread # <<>>
  /\ Set(c, [children[c] EXCEPT !.promise = "stream"])

\* 'readable': there is output, or there will be none.
Readable(c) ==
  /\ Streams(c)
  /\ children[c].promise = "pending"
  /\ children[c].unread # <<>> \/ Phase(c, "exited")
  /\ Set(c, [children[c] EXCEPT !.promise = "stream"])

\* Mutant: the reader of a stream makes strings of the chunks.
DataOfStrings(c) ==
  /\ children[c].unread # <<>>
  /\ Streams(c) => children[c].promise = "stream"
  /\ \E n \in 1..Len(children[c].unread) :
       Set(c, [children[c] EXCEPT !.unread = SubSeq(@, n + 1, Len(@)),
                                  !.text = @ \o Decoded(SubSeq(children[c].unread, 1, n))])

\* 'data': a chunk of the output, of any length.
Data(c) ==
  /\ children[c].unread # <<>>
  /\ Streams(c) => children[c].promise = "stream"
  /\ \E n \in 1..Len(children[c].unread) :
       LET chunk == SubSeq(children[c].unread, 1, n)
           rest == SubSeq(children[c].unread, n + 1, Len(children[c].unread))
           read == IF Streams(c) THEN chunk ELSE Decoded(chunk)
       IN Set(c, [children[c] EXCEPT !.unread = rest, !.text = @ \o read])

Exit(c) ==
  /\ Phase(c, "runs")
  /\ Set(c, [children[c] EXCEPT !.phase = "exited"])

\* A promise is settled once: the exit code comes too late for a stream.
Settled(child) ==
  IF child.promise # "pending" THEN child.promise
  ELSE IF child.program.exit = 0 THEN "resolved" ELSE "rejected"

\* Mutant: spawn answers when the program exits, with what has arrived.
CloseAtExit(c) ==
  /\ Phase(c, "exited")
  /\ Streams(c) => children[c].unread = <<>> /\ children[c].promise = "stream"
  /\ Set(c, [children[c] EXCEPT !.phase = "closed", !.promise = Settled(children[c])])

\* 'close': the program has exited and its output was read to the end.
Close(c) ==
  /\ Phase(c, "exited")
  /\ children[c].unread = <<>>
  /\ Streams(c) => children[c].promise = "stream"
  /\ Set(c, [children[c] EXCEPT !.phase = "closed", !.promise = Settled(children[c])])

ChildStep(c) == Fails(c) \/ Readable(c) \/ Data(c) \/ Close(c)

ChildNext ==
  \E c \in Child : (\E program \in Program : Spawn(c, program)) \/ Exit(c) \/ ChildStep(c)
-----------------------------------------------------------------------------
(* What is right                                                           *)

\* As a service sees it.
ProgramSeen(c) ==
  LET p == children[c].program IN
  IF p = NoProgram THEN NoProgram
  ELSE [kind |-> p.kind, starts |-> p.starts, exit |-> p.exit,
        multibyte |-> \E i \in DOMAIN p.output : p.output[i] # "char"]

PromiseSeen(c) ==
  IF children[c].promise # "resolved" THEN children[c].promise
  ELSE IF children[c].text = Decoded(children[c].program.output) THEN "whole"
  ELSE "garbled"

Calls == INSTANCE ShellCall WITH
  program <- [c \in Child |-> ProgramSeen(c)], promise <- [c \in Child |-> PromiseSeen(c)]

\* A call is answered once; spawn with the whole text the program printed, if it
\* succeeded (garbled only if it has characters of several bytes), spawnStreamable for
\* every program that starts.  (spawn, spawnStreamable)
ImplementsShellCall == Calls!Spec

\* A program that has exited is answered for: at its close, or as a stream.  Of one that
\* never exits nothing is promised.
ExitIsAnswered ==
  \A c \in Child :
    children[c].phase \in {"exited", "error"} ~> children[c].promise \notin {"none", "pending"}

\* A stream that was given out is the output in its order, and all of it when the child
\* has closed, whatever its exit code.
StreamsAreOutput ==
  \A c \in Child :
    children[c].promise = "stream" =>
      /\ children[c].text \o children[c].unread = children[c].program.output
      /\ Phase(c, "closed") => children[c].text = children[c].program.output
=============================================================================
