---------------------------- MODULE NetworkUpdate ---------------------------
(***************************************************************************)
(* Changing the settings of a network device: NetworkService and           *)
(* NetworkSettingsService against NetworkManager.                          *)
(*                                                                         *)
(* An update reads the saved profile, merges the requested change into it, *)
(* opens a checkpoint, saves the profile, answers with the checkpoint's id *)
(* and only then applies the profile to the device.  The client confirms   *)
(* with that id within 30 seconds, or NetworkManager rolls back.  Every    *)
(* arrow of that sentence is a D-Bus call, an await at which requests      *)
(* interleave and which may fail.                                          *)
(*                                                                         *)
(* NetworkManager is not part of this repository; its methods are modelled *)
(* from how the service uses them (CheckpointCreate with flags 0 rejects a *)
(* device that is in a checkpoint already, Reapply rejects a version       *)
(* number that is not current, a rollback restores the saved profile and,  *)
(* if it was changed since, the applied one).                              *)
(***************************************************************************)
EXTENDS ConnectionSettings

CONSTANTS
  Device,
  Stored,       \* the profiles devices have at first
  Change,       \* the requests clients make
  Request,      \* slots for update requests in the server
  Orderly,      \* TRUE: clients update a device only when its last update is settled
  Prompt,       \* TRUE: the service's calls take less than the 30 seconds
  None

Config == [ipv4 : IpSettings, ipv6 : IpSettings]

ASSUME NetworkAssumption ==
  /\ Stored \subseteq Config
  /\ \A p \in Stored : Coherent(p.ipv4) /\ Coherent(p.ipv6)
  /\ \A c \in Change : c \in UpdateNetworkConfigDto
  /\ Orderly \in BOOLEAN
  /\ Prompt \in BOOLEAN

\* A checkpoint of NetworkManager: what it restores, and whether the applied settings
\* were touched since.  A timeout of 0 means that it never expires.  change and issued
\* are history: what its owner asked for, and whether the client has been given its id.
Checkpoint ==
  [by : Request, saved : Config, applied : Config, touched : BOOLEAN, timeout : {0, 30},
   issued : BOOLEAN, change : Change]

ASSUME NoneAssumption == None \notin Config \cup Change \cup Checkpoint

Merge(old, change) ==
  [ipv4 |-> ApplyChanges(old.ipv4, change.ipv4), ipv6 |-> ApplyChanges(old.ipv6, change.ipv6)]

Accepted(change) == Accepts(change.ipv4) /\ Accepts(change.ipv6)

VARIABLES
  saved,        \* NetworkManager: the profile of each device on disk
  applied,      \* NetworkManager: the settings in effect
  checkpoint,   \* NetworkManager: the checkpoint a device is in, or None
  pc,           \* per request: idle, or what it does next
  device,       \* per request: the device it updates
  change,       \* per request: what it asks for
  settings,     \* per request: the merged profile (currentSettings)
  current,      \* per request: does currentVersion still equal the device's version?
  past          \* history: of the settings a device was ever to keep, the last ones and
                \* those it may still run

nmVars == <<saved, applied, checkpoint>>
reqVars == <<pc, device, change, settings, current>>
vars == <<saved, applied, checkpoint, pc, device, change, settings, current, past>>

TypeOK ==
  /\ saved \in [Device -> Config]
  /\ applied \in [Device -> Config]
  /\ checkpoint \in [Device -> Checkpoint \cup {None}]
  /\ pc \in [Request -> {"idle", "read", "checkpoint", "update", "version", "reapply"}]
  /\ device \in [Request -> Device]
  /\ change \in [Request -> Change \cup {None}]
  /\ settings \in [Request -> Config \cup {None}]
  /\ current \in [Request -> BOOLEAN]
  /\ past \in [Device -> SUBSET Config]

Init ==
  /\ saved \in [Device -> Stored]
  /\ applied = saved
  /\ checkpoint = [d \in Device |-> None]
  /\ pc = [r \in Request |-> "idle"]
  /\ device \in [Request -> Device]
  /\ change = [r \in Request |-> None]
  /\ settings = [r \in Request |-> None]
  /\ current = [r \in Request |-> FALSE]
  /\ past = [d \in Device |-> {saved[d]}]

InProgress(r) == pc[r] # "idle"
Goto(r, s) == pc' = [pc EXCEPT ![r] = s]

\* The request ends; it was answered, or an error is.
End(r) ==
  /\ Goto(r, "idle")
  /\ change' = [change EXCEPT ![r] = None]
  /\ settings' = [settings EXCEPT ![r] = None]
  /\ current' = [current EXCEPT ![r] = FALSE]
  /\ UNCHANGED device

-----------------------------------------------------------------------------
(* NetworkService.update and NetworkSettingsService                        *)

Settled(d) ==
  /\ checkpoint[d] = None
  /\ \A r \in Request : InProgress(r) => device[r] # d

Start(r, d, c) ==
  /\ ~InProgress(r)
  /\ Orderly => Settled(d)
  /\ Goto(r, "read")
  /\ device' = [device EXCEPT ![r] = d]
  /\ change' = [change EXCEPT ![r] = c]
  /\ UNCHANGED <<nmVars, settings, current, past>>

\* Mutant: the change is merged into the applied instead of the saved settings.
ReadAppliedSettings(r) ==
  /\ pc[r] = "read"
  /\ IF Accepted(change[r])
     THEN /\ settings' = [settings EXCEPT ![r] = Merge(applied[device[r]], change[r])]
          /\ Goto(r, "checkpoint")
          /\ UNCHANGED <<device, change, current>>
     ELSE End(r)
  /\ UNCHANGED <<nmVars, past>>

\* GetSettings, and the adapters merge the change or throw.
ReadSettings(r) ==
  /\ pc[r] = "read"
  /\ IF Accepted(change[r])
     THEN /\ settings' = [settings EXCEPT ![r] = Merge(saved[device[r]], change[r])]
          /\ Goto(r, "checkpoint")
          /\ UNCHANGED <<device, change, current>>
     ELSE End(r)
  /\ UNCHANGED <<nmVars, past>>

\* Mutant: CheckpointCreate with a timeout of 0.
CreateCheckpointForEver(r) ==
  LET d == device[r] IN
  /\ pc[r] = "checkpoint"
  /\ IF checkpoint[d] = None
     THEN /\ checkpoint' = [checkpoint EXCEPT ![d] =
               [by |-> r, saved |-> saved[d], applied |-> applied[d], touched |-> FALSE,
                timeout |-> 0, issued |-> FALSE, change |-> change[r]]]
          /\ Goto(r, "update")
          /\ UNCHANGED <<device, change, settings, current>>
     ELSE End(r) /\ UNCHANGED checkpoint
  /\ UNCHANGED <<saved, applied, past>>

\* Mutant: the profile is updated without a checkpoint.
CreateNoCheckpoint(r) ==
  /\ pc[r] = "checkpoint"
  /\ Goto(r, "update")
  /\ UNCHANGED <<nmVars, device, change, settings, current, past>>

\* CheckpointCreate([devicePath], 30, 0)
CreateCheckpoint(r) ==
  LET d == device[r] IN
  /\ pc[r] = "checkpoint"
  /\ IF checkpoint[d] = None
     THEN /\ checkpoint' = [checkpoint EXCEPT ![d] =
               [by |-> r, saved |-> saved[d], applied |-> applied[d], touched |-> FALSE,
                timeout |-> 30, issued |-> FALSE, change |-> change[r]]]
          /\ Goto(r, "update")
          /\ UNCHANGED <<device, change, settings, current>>
     ELSE End(r) /\ UNCHANGED checkpoint
  /\ UNCHANGED <<saved, applied, past>>

\* Update: the profile is saved to disk, the device is not touched.
UpdateProfile(r) ==
  /\ pc[r] = "update"
  /\ saved' = [saved EXCEPT ![device[r]] = settings[r]]
  /\ Goto(r, "version")
  /\ UNCHANGED <<applied, checkpoint, device, change, settings, current, past>>

\* GetAppliedConnection gives the version; the client gets the checkpoint's id.
ReadVersion(r) ==
  LET d == device[r] IN
  /\ pc[r] = "version"
  /\ current' = [current EXCEPT ![r] = TRUE]
  /\ checkpoint' = IF checkpoint[d] # None /\ checkpoint[d].by = r
                   THEN [checkpoint EXCEPT ![d].issued = TRUE] ELSE checkpoint
  /\ Goto(r, "reapply")
  /\ UNCHANGED <<saved, applied, device, change, settings, past>>

\* The applied settings of d are replaced: its version number changes.
NewVersion(d, r) ==
  current' = [s \in Request |-> IF s = r \/ device[s] = d THEN FALSE ELSE current[s]]

\* setImmediate: Reapply with the version read before.
Reapply(r) ==
  LET d == device[r] IN
  /\ pc[r] = "reapply"
  /\ current[r]
  /\ applied' = [applied EXCEPT ![d] = settings[r]]
  /\ checkpoint' = IF checkpoint[d] = None THEN checkpoint
                   ELSE [checkpoint EXCEPT ![d].touched = TRUE]
  /\ NewVersion(d, r)
  /\ Goto(r, "idle")
  /\ change' = [change EXCEPT ![r] = None]
  /\ settings' = [settings EXCEPT ![r] = None]
  /\ UNCHANGED <<saved, device, past>>

\* Any call may fail: the device is unknown or not active, D-Bus or NetworkManager
\* return an error, the version is not current.  A checkpoint that was created stays.
\* An error of Reapply is only logged.
CallFails(r) ==
  /\ InProgress(r)
  /\ End(r)
  /\ UNCHANGED <<nmVars, past>>

\* NetworkService.commit, with the id the client was given: CheckpointDestroy.
\* (With any other id NetworkManager returns an error, the client gets a 400.)
Commit(d) ==
  /\ checkpoint[d] # None
  /\ checkpoint[d].issued
  /\ checkpoint' = [checkpoint EXCEPT ![d] = None]
  /\ past' = [past EXCEPT ![d] = (@ \cap {applied[d]})
                 \cup {Merge(checkpoint[d].saved, checkpoint[d].change)}]
  /\ UNCHANGED <<saved, applied, reqVars>>

\* The API server ends; NetworkManager goes on.
Crash ==
  /\ pc' = [r \in Request |-> "idle"]
  /\ change' = [r \in Request |-> None]
  /\ settings' = [r \in Request |-> None]
  /\ current' = [r \in Request |-> FALSE]
  /\ UNCHANGED <<nmVars, device, past>>

-----------------------------------------------------------------------------
\* NetworkManager: 30 seconds are over, the checkpoint is rolled back.
Expire(d) ==
  LET c == checkpoint[d] IN
  /\ c # None
  /\ c.timeout # 0
  /\ Prompt => ~(pc[c.by] \in {"update", "version", "reapply"} /\ device[c.by] = d)
  /\ checkpoint' = [checkpoint EXCEPT ![d] = None]
  /\ saved' = [saved EXCEPT ![d] = c.saved]
  /\ IF c.touched
     THEN /\ applied' = [applied EXCEPT ![d] = c.applied]
          /\ current' = [s \in Request |-> IF device[s] = d THEN FALSE ELSE current[s]]
     ELSE UNCHANGED <<applied, current>>
  /\ UNCHANGED <<pc, device, change, settings, past>>

Serve(r) ==
  \/ ReadSettings(r) \/ CreateCheckpoint(r) \/ UpdateProfile(r)
  \/ ReadVersion(r) \/ Reapply(r) \/ CallFails(r)

Next ==
  \/ \E r \in Request : (\E d \in Device, c \in Change : Start(r, d, c)) \/ Serve(r)
  \/ \E d \in Device : Commit(d) \/ Expire(d)
  \/ Crash

Spec == Init /\ [][Next]_vars

\* D-Bus calls return or fail, and NetworkManager's timer runs; nobody need confirm.
FairSpec ==
  /\ Spec
  /\ \A r \in Request : WF_vars(Serve(r))
  /\ \A d \in Device : WF_vars(Expire(d))

-----------------------------------------------------------------------------
(* Properties                                                              *)

\* "The changes must be confirmed within 30 seconds or they will be rolled back"
\* (updateActiveConnectionOfDevice): a profile changes for good only by a confirmation,
\* and then by exactly the change the confirmed request asked for, whatever fails,
\* crashes or is asked for at the same time.
Trial == INSTANCE TrialSettings WITH
  NoTrial <- None,
  kept <- [d \in Device |-> IF checkpoint[d] = None THEN saved[d] ELSE checkpoint[d].saved],
  trial <- [d \in Device |-> IF checkpoint[d] = None THEN None ELSE checkpoint[d].change]

ConfirmedOrRolledBack == Trial!Spec

\* A device that is in no checkpoint runs settings that were to be kept at some time:
\* Reapply, which runs after the answer and unprotected by the try block, never leaves
\* a device with settings nobody confirmed.
AppliedWasKept ==
  \A d \in Device : checkpoint[d] = None => applied[d] \in past[d]

\* The profile a device has on trial is the stored one with exactly what the client asked
\* for: a family that is not mentioned and the properties the program does not know are
\* kept, and reading the settings back gives the request (getActiveConnection), if its
\* method is auto or manual, whatever failed, expired or crashed before.
TrialShowsTheRequest ==
  \A d \in Device : LET c == checkpoint[d] IN
    c # None /\ c.issued =>
      /\ Grants(c.change.ipv4, c.saved.ipv4, saved[d].ipv4)
      /\ Grants(c.change.ipv6, c.saved.ipv6, saved[d].ipv6)

\* "IPv6 configuration should be automatically determined via DHCPv6 only"
\* (UpdateIpv6SettingsDto, of the method dhcp): what such a request puts on trial is not a
\* static configuration.
DhcpIsAutomatic ==
  \A d \in Device : LET c == checkpoint[d] IN
    c # None /\ c.issued /\ c.change.ipv6 # Undefined /\ c.change.ipv6.method = "dhcp" =>
      saved[d].ipv6.method # "manual"

\* No sequence of updates, roll backs and lost requests leaves a profile, on disk or in
\* effect, with a manual method or a gateway but no address.
ProfilesAreCoherent ==
  \A d \in Device : \A p \in {saved[d], applied[d]} : Coherent(p.ipv4) /\ Coherent(p.ipv6)

\* However an update ends, the device can be updated again: no checkpoint stays, and no
\* request waits for ever.
DeviceIsFreed == \A d \in Device : []<>Settled(d)
=============================================================================
