----------------------------- MODULE RaspiConfig -----------------------------
(***************************************************************************)
(* DeviceConfigService on raspi-config: the features of the device are     *)
(* listed, looked up and switched by runs of one program, two of them for  *)
(* a list.  A run looks at one feature after the other, or switches one,   *)
(* and is answered after it has closed, while the runs of other requests   *)
(* go on.  Any run may fail, before or after it has done something.        *)
(***************************************************************************)
EXTENDS Naturals, Sequences, Functions

CONSTANTS
  Feature,     \* in the order of the usage message
  Unknown,     \* an id that is no feature
  Values,      \* of features that have one
  NoValue,     \* of those that have none; a value that is not given
  Client       \* requests

Features == Range(Feature)

ASSUME FeatureAssumption ==
  /\ Feature \in Seq(Features)
  /\ Unknown \notin Features
  /\ NoValue \notin Values

VARIABLES
  features,    \* their states, as raspi-config knows them
  lists,       \* the usage message lists the features
  config,      \* the requests
  seen         \* history: per request and feature, its states while the request was served

configVars == <<features, lists, config, seen>>

Id == Features \cup {Unknown}

\* What availstat prints of a feature: 0 disabled, 1 enabled, 2 not available.
AvailStat == 0..2

FeatureState == [availstat : AvailStat, value : Values \cup {NoValue}]

NoConfig ==
  [pc |-> "idle", op |-> "none", ids |-> <<>>, on |-> FALSE, value |-> NoValue,
   out |-> <<>>, shown |-> <<>>]

ConfigInit ==
  /\ features \in [Features -> FeatureState]
  /\ lists \in BOOLEAN
  /\ config = [r \in Client |-> NoConfig]
  /\ seen = [r \in Client |-> [id \in Features |-> {}]]

Doing(r, pc) == config[r].pc = pc

Serving(r) == config[r].pc \in {"usage", "states", "status", "set", "switched"}

Continue(r, new) ==
  /\ config' = [config EXCEPT ![r] = new]
  /\ UNCHANGED <<features, lists, seen>>

\* Mutant: disabled and not available are swapped.
ParseStatusSwapped(state) == [isAvailable |-> state # 0, isEnabled |-> state = 1]

ParseStatus(state) == [isAvailable |-> state # 2, isEnabled |-> state = 1]

DeviceConfigDto(id, status, value) ==
  [id |-> id, isAvailable |-> status.isAvailable, isEnabled |-> status.isEnabled,
   value |-> value]

-----------------------------------------------------------------------------
Request(r, op, pc, ids, on, value) ==
  /\ Doing(r, "idle")
  /\ config' = [config EXCEPT ![r] =
       [pc |-> pc, op |-> op, ids |-> ids, on |-> on, value |-> value,
        out |-> <<>>, shown |-> <<>>]]
  /\ seen' = [seen EXCEPT ![r] = [id \in Features |-> {features[id]}]]
  /\ UNCHANGED <<features, lists>>

GetAllConfigurations(r) == Request(r, "all", "usage", <<>>, FALSE, NoValue)
GetConfiguration(r, id) == Request(r, "one", "status", <<id>>, FALSE, NoValue)

\* The value of a request to disable is not passed on.
SetConfiguration(r, id, on, value) ==
  Request(r, "set", "set", <<id>>, on, IF on THEN value ELSE NoValue)

\* raspi-config without arguments.
GetSupportedConfigurations(r) ==
  /\ Doing(r, "usage")
  /\ Continue(r, [config[r] EXCEPT !.pc = "states", !.ids = IF lists THEN Feature ELSE <<>>])

\* availstat of several features looks at one after the other.
PrintsAvailstat(r) ==
  /\ Doing(r, "states")
  /\ Len(config[r].out) < Len(config[r].ids)
  /\ LET id == config[r].ids[Len(config[r].out) + 1] IN
     Continue(r, [config[r] EXCEPT !.out = Append(@, features[id].availstat)])

\* The ids and what was printed of them are paired by their places.  An empty list of ids
\* is an invalid one.
GetConfigurationStates(r) ==
  /\ Doing(r, "states")
  /\ Len(config[r].out) = Len(config[r].ids)
  /\ IF config[r].ids = <<>> THEN Continue(r, [config[r] EXCEPT !.pc = "bad request"])
     ELSE Continue(r, [config[r] EXCEPT !.pc = "ok", !.shown =
            [i \in DOMAIN config[r].ids |->
               DeviceConfigDto(config[r].ids[i], ParseStatus(config[r].out[i]), NoValue)]])

\* status prints the value first, if there is one.
PrintsStatus(r) ==
  /\ Doing(r, "status")
  /\ config[r].out = <<>> /\ config[r].ids[1] # Unknown
  /\ LET state == features[config[r].ids[1]] IN
     Continue(r, [config[r] EXCEPT !.out =
       IF state.value = NoValue THEN <<state.availstat>> ELSE <<state.value, state.availstat>>])

\* raspi-config answers an unknown id with its usage.
GetConfigurationStatus(r) ==
  /\ Doing(r, "status")
  /\ LET id == config[r].ids[1]
         out == config[r].out IN
     IF id = Unknown THEN Continue(r, [config[r] EXCEPT !.pc = "bad request"])
     ELSE /\ out # <<>>
          /\ Continue(r, [config[r] EXCEPT !.pc = "ok", !.shown =
               IF Len(out) = 2 THEN <<DeviceConfigDto(id, ParseStatus(out[2]), out[1])>>
               ELSE <<DeviceConfigDto(id, ParseStatus(out[1]), NoValue)>>])

\* What enable or disable makes of a feature: nothing of one that is not available.
Switched(r, state) ==
  IF state.availstat = 2 THEN state
  ELSE IF ~config[r].on THEN [state EXCEPT !.availstat = 0]
  ELSE [state EXCEPT !.availstat = 1,
                     !.value = IF config[r].value = NoValue THEN @ ELSE config[r].value]

Switches(r) ==
  /\ Doing(r, "set") /\ config[r].ids[1] # Unknown
  /\ LET id == config[r].ids[1]
         new == Switched(r, features[id])
     IN /\ features' = [features EXCEPT ![id] = new]
        /\ seen' = [q \in Client |->
             IF Serving(q) THEN [seen[q] EXCEPT ![id] = @ \cup {new}] ELSE seen[q]]
        /\ config' = [config EXCEPT ![r].pc = "switched"]
        /\ UNCHANGED lists

\* Mutant: the run is not awaited.
ExecuteSetUnawaited(r) ==
  /\ config[r].pc \in {"set", "switched"}
  /\ IF config[r].ids[1] = Unknown
     THEN Continue(r, [config[r] EXCEPT !.pc = "bad request"])
     ELSE Continue(r, [config[r] EXCEPT !.pc = "ok"])

\* The run has closed.
ExecuteSet(r) ==
  \/ /\ Doing(r, "set") /\ config[r].ids[1] = Unknown
     /\ Continue(r, [config[r] EXCEPT !.pc = "bad request"])
  \/ Doing(r, "switched") /\ Continue(r, [config[r] EXCEPT !.pc = "ok"])

\* pkexec refuses, raspi-config fails, or prints what is no state.
ConfigFails(r) == Serving(r) /\ Continue(r, [config[r] EXCEPT !.pc = "failed"])

ConfigStep(r) ==
  \/ GetSupportedConfigurations(r) \/ PrintsAvailstat(r) \/ GetConfigurationStates(r)
  \/ PrintsStatus(r) \/ GetConfigurationStatus(r)
  \/ Switches(r) \/ ExecuteSet(r) \/ ConfigFails(r)

ConfigNext ==
  \E r \in Client :
    \/ GetAllConfigurations(r)
    \/ \E id \in Id : GetConfiguration(r, id)
    \/ \E id \in Id, on \in BOOLEAN, value \in Values \cup {NoValue} :
         SetConfiguration(r, id, on, value)
    \/ ConfigStep(r)

-----------------------------------------------------------------------------
(* What is right                                                           *)

\* What is shown of a feature, the manual of raspi-config says of its state.
Means(dto, state) ==
  /\ dto.isAvailable <=> state.availstat \in {0, 1}
  /\ dto.isEnabled <=> state.availstat = 1

\* An answer shows each feature in a state it had while the request was served, under its
\* own id, whatever other requests switch between the looks of a run and between its runs:
\* a list all features in their order, though not all at one moment; a single feature with
\* the value it then had.  (getAllSupportedConfigurations, getConfiguration)
ShownAsItWas ==
  \A r \in Client :
    LET shown == config[r].shown IN
    Doing(r, "ok") /\ config[r].op # "set" =>
      /\ shown # <<>>
      /\ \A i \in DOMAIN shown :
           \E state \in seen[r][shown[i].id] :
             /\ Means(shown[i], state)
             /\ config[r].op = "one" => shown[i].value = state.value
      /\ config[r].op = "all" =>
           /\ DOMAIN shown = DOMAIN Feature
           /\ \A i \in DOMAIN shown : shown[i].id = Feature[i]

\* An enable or a disable that is answered took effect: while it was served there was a
\* moment when the feature was as asked, its value too, or was not available; at the
\* answer another request may have switched it back.  (setConfiguration, executeCommand)
SetTookEffect ==
  \A r \in Client :
    Doing(r, "ok") /\ config[r].op = "set" =>
      \E state \in seen[r][config[r].ids[1]] :
        \/ state.availstat = 2
        \/ /\ state.availstat = IF config[r].on THEN 1 ELSE 0
           /\ config[r].value \in {state.value, NoValue}
=============================================================================
