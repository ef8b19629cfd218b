--------------------------- MODULE TrialSettings ----------------------------
(***************************************************************************)
(* What changing the network settings promises: the settings of a device   *)
(* are put on trial, and only a confirmed trial changes the settings that  *)
(* are kept, by exactly the change that was asked for.                     *)
(* NetworkUpdate is the detailed specification.                            *)
(***************************************************************************)
CONSTANTS
  Device,
  Config,        \* settings of a device
  Change,        \* what an update may ask for
  Merge(_, _),   \* settings after a change
  NoTrial

VARIABLES
  kept,    \* per device: the settings that last
  trial    \* per device: the change on trial, or NoTrial

trialVars == <<kept, trial>>

Init ==
  /\ kept \in [Device -> Config]
  /\ trial = [d \in Device |-> NoTrial]

Propose(d, c) ==
  /\ trial[d] = NoTrial
  /\ trial' = [trial EXCEPT ![d] = c]
  /\ UNCHANGED kept

Confirm(d) ==
  /\ trial[d] # NoTrial
  /\ kept' = [kept EXCEPT ![d] = Merge(@, trial[d])]
  /\ trial' = [trial EXCEPT ![d] = NoTrial]

RollBack(d) ==
  /\ trial[d] # NoTrial
  /\ trial' = [trial EXCEPT ![d] = NoTrial]
  /\ UNCHANGED kept

Next ==
  \E d \in Device : (\E c \in Change : Propose(d, c)) \/ Confirm(d) \/ RollBack(d)

Spec == Init /\ [][Next]_trialVars
=============================================================================
