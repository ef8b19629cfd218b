------------------------ MODULE NetworkUpdateProofs -------------------------
(***************************************************************************)
(* Proofs about NetworkUpdate, for every set of devices, profiles and      *)
(* requests; those that say so, when clients update a device only after    *)
(* its last update is settled and the service's calls take less than the   *)
(* 30 seconds.                                                             *)
(***************************************************************************)
EXTENDS NetworkUpdate, ConnectionSettingsProofs

-----------------------------------------------------------------------------
(* Type correctness                                                        *)

\* A request in progress has a change that was asked for; a change that has been merged
\* was accepted.
RequestInv ==
  /\ \A r \in Request :
       /\ InProgress(r) => change[r] \in Change
       /\ pc[r] \in {"checkpoint", "update", "version", "reapply"} =>
            settings[r] \in Config /\ Accepted(change[r])
  /\ \A d \in Device : checkpoint[d] # None => Accepted(checkpoint[d].change)

NInv == TypeOK /\ RequestInv

\* A change the adapters accept gives settings.
LEMMA MergeTyped ==
  ASSUME NEW old \in Config, NEW c \in Change, Accepted(c)
  PROVE  Merge(old, c) \in Config
<1>1. /\ c.ipv4 \in Optional(UpdateIpv4SettingsDto \cup UpdateIpv6SettingsDto)
      /\ c.ipv6 \in Optional(UpdateIpv4SettingsDto \cup UpdateIpv6SettingsDto)
  BY NetworkAssumption DEF UpdateNetworkConfigDto, Optional
<1>2. QED
  BY <1>1, ApplyChangesTyped DEF Config, Merge

LEMMA CheckpointMarked ==
  ASSUME NEW c \in Checkpoint
  PROVE  /\ [c EXCEPT !.issued = TRUE] \in Checkpoint
         /\ [c EXCEPT !.touched = TRUE] \in Checkpoint
  BY DEF Checkpoint

\* None is no checkpoint, and the fields of a checkpoint have their types.
LEMMA CheckpointFields ==
  ASSUME TypeOK, NEW d \in Device, checkpoint[d] # None
  PROVE  /\ checkpoint[d] \in Checkpoint
         /\ checkpoint[d].by \in Request
         /\ checkpoint[d].saved \in Config
         /\ checkpoint[d].applied \in Config
         /\ checkpoint[d].change \in Change
  BY DEF TypeOK, Checkpoint

LEMMA NTypeInit == Init => NInv
  BY NetworkAssumption DEF Init, NInv, TypeOK, RequestInv, InProgress

LEMMA EndTyped ==
  ASSUME NInv, NEW r \in Request, End(r), UNCHANGED <<nmVars, past>>
  PROVE  NInv'
  BY DEF NInv, TypeOK, RequestInv, InProgress, End, Goto, nmVars

LEMMA NTypeStep == NInv /\ [Next]_vars => NInv'
<1> SUFFICES ASSUME NInv, [Next]_vars
             PROVE  NInv'
  OBVIOUS
<1> USE DEF NInv, TypeOK, RequestInv, InProgress, Goto, nmVars
<1>1. ASSUME NEW r \in Request, NEW d \in Device, NEW c \in Change, Start(r, d, c)
      PROVE  NInv'
  BY <1>1 DEF Start
<1>2. ASSUME NEW r \in Request, ReadSettings(r)
      PROVE  NInv'
  <2>1. CASE Accepted(change[r])
    <3>1. Merge(saved[device[r]], change[r]) \in Config
      BY <1>2, <2>1, MergeTyped DEF ReadSettings
    <3>2. QED
      BY <1>2, <2>1, <3>1 DEF ReadSettings
  <2>2. CASE ~Accepted(change[r])
    BY <1>2, <2>2, EndTyped DEF ReadSettings
  <2>3. QED
    BY <2>1, <2>2
<1>3. ASSUME NEW r \in Request, CreateCheckpoint(r)
      PROVE  NInv'
  <2>1. CASE checkpoint[device[r]] = None
    <3> DEFINE d == device[r]
               k == [by |-> r, saved |-> saved[d], applied |-> applied[d], touched |-> FALSE,
                     timeout |-> 30, issued |-> FALSE, change |-> change[r]]
    <3>1. k \in Checkpoint /\ k.change = change[r] /\ Accepted(change[r])
      BY <1>3 DEF CreateCheckpoint, Checkpoint
    <3>2. checkpoint' = [checkpoint EXCEPT ![d] = k]
      BY <1>3, <2>1 DEF CreateCheckpoint
    <3> HIDE DEF k
    <3>3. /\ checkpoint' \in [Device -> Checkpoint \cup {None}]
          /\ \A e \in Device : checkpoint'[e] # None => Accepted(checkpoint'[e].change)
      BY <3>1, <3>2
    <3>4. QED
      BY <1>3, <2>1, <3>3 DEF CreateCheckpoint
  <2>2. CASE checkpoint[device[r]] # None
    BY <1>3, <2>2, EndTyped DEF CreateCheckpoint
  <2>3. QED
    BY <2>1, <2>2
<1>4. ASSUME NEW r \in Request, UpdateProfile(r)
      PROVE  NInv'
  BY <1>4 DEF UpdateProfile
<1>5. ASSUME NEW r \in Request, ReadVersion(r)
      PROVE  NInv'
  <2> DEFINE d == device[r]
  <2>1. /\ checkpoint' \in [Device -> Checkpoint \cup {None}]
        /\ \A e \in Device : checkpoint'[e] # None => Accepted(checkpoint'[e].change)
    <3>1. CASE checkpoint[d] # None /\ checkpoint[d].by = r
      <4>1. checkpoint' = [checkpoint EXCEPT ![d] = [checkpoint[d] EXCEPT !.issued = TRUE]]
        BY <1>5, <3>1 DEF ReadVersion
      <4>2. [checkpoint[d] EXCEPT !.issued = TRUE].change = checkpoint[d].change
        BY <3>1, CheckpointFields DEF Checkpoint
      <4>3. QED
        BY <3>1, <4>1, <4>2, CheckpointFields, CheckpointMarked
    <3>2. CASE ~(checkpoint[d] # None /\ checkpoint[d].by = r)
      BY <1>5, <3>2 DEF ReadVersion
    <3>3. QED
      BY <3>1, <3>2
  <2>2. QED
    BY <1>5, <2>1 DEF ReadVersion
<1>6. ASSUME NEW r \in Request, Reapply(r)
      PROVE  NInv'
  <2> DEFINE d == device[r]
  <2>1. /\ checkpoint' \in [Device -> Checkpoint \cup {None}]
        /\ \A e \in Device : checkpoint'[e] # None => Accepted(checkpoint'[e].change)
    <3>1. CASE checkpoint[d] # None
      <4>1. checkpoint' = [checkpoint EXCEPT ![d] = [checkpoint[d] EXCEPT !.touched = TRUE]]
        BY <1>6, <3>1 DEF Reapply
      <4>2. [checkpoint[d] EXCEPT !.touched = TRUE].change = checkpoint[d].change
        BY <3>1, CheckpointFields DEF Checkpoint
      <4>3. QED
        BY <3>1, <4>1, <4>2, CheckpointFields, CheckpointMarked
    <3>2. CASE checkpoint[d] = None
      BY <1>6, <3>2 DEF Reapply
    <3>3. QED
      BY <3>1, <3>2
  <2>2. QED
    BY <1>6, <2>1 DEF Reapply, NewVersion
<1>7. ASSUME NEW r \in Request, CallFails(r)
      PROVE  NInv'
  BY <1>7, EndTyped DEF CallFails
<1>8. ASSUME NEW d \in Device, Commit(d)
      PROVE  NInv'
  <2>1. Merge(checkpoint[d].saved, checkpoint[d].change) \in Config
    BY <1>8, CheckpointFields, MergeTyped DEF Commit
  <2>2. QED
    BY <1>8, <2>1 DEF Commit, reqVars
<1>9. ASSUME NEW d \in Device, Expire(d)
      PROVE  NInv'
  BY <1>9 DEF Expire, Checkpoint
<1>10. CASE Crash
  BY <1>10 DEF Crash
<1>11. CASE UNCHANGED vars
  BY <1>11 DEF vars
<1>12. QED
  BY <1>1, <1>2, <1>3, <1>4, <1>5, <1>6, <1>7, <1>8, <1>9, <1>10, <1>11 DEF Next, Serve

\* Every variable and every checkpoint keeps its type; Merge gives settings because a
\* change the adapters reject never gets as far as the merge.
THEOREM NetworkTypes == Spec => []TypeOK
<1>1. NInv => TypeOK
  BY DEF NInv
<1>2. QED
  BY <1>1, NTypeInit, NTypeStep, PTL DEF Spec

-----------------------------------------------------------------------------
(* A change is kept by confirmation only                                   *)

\* The settings a checkpoint keeps if it is confirmed.
Confirmed(c) == Merge(c.saved, c.change)

\* The request of checkpoint[d] merged the change into the profile it restores.
OwnsCheckpoint(r, d) ==
  /\ checkpoint[d] # None
  /\ checkpoint[d].by = r
  /\ checkpoint[d].change = change[r]
  /\ settings[r] = Confirmed(checkpoint[d])

\* What relates the pieces of an update: no two of them on one device, a checkpoint
\* around every write of the profile, and an id given out only after the write.
UpdateInv ==
  /\ \A r, s \in Request :
       InProgress(r) /\ InProgress(s) /\ device[r] = device[s] => r = s
  /\ \A r \in Request :
       LET d == device[r] IN
       /\ pc[r] = "read" => checkpoint[d] = None
       /\ pc[r] = "checkpoint" =>
            checkpoint[d] = None /\ settings[r] = Merge(saved[d], change[r])
       /\ pc[r] \in {"update", "version"} => OwnsCheckpoint(r, d) /\ ~checkpoint[d].issued
       /\ pc[r] = "version" => saved[d] = settings[r]
  /\ \A d \in Device :
       checkpoint[d] # None =>
         /\ checkpoint[d].timeout = 30
         /\ checkpoint[d].issued => saved[d] = Confirmed(checkpoint[d])

\* What a step means for the settings on trial.
Kept == [d \in Device |-> IF checkpoint[d] = None THEN saved[d] ELSE checkpoint[d].saved]
OnTrial == [d \in Device |-> IF checkpoint[d] = None THEN None ELSE checkpoint[d].change]

LEMMA UpdateInit == Init => UpdateInv
  BY DEF Init, UpdateInv, InProgress

\* A request that gives up leaves NetworkManager alone.
LEMMA EndUpdate ==
  ASSUME NInv, UpdateInv, NEW r \in Request, End(r), UNCHANGED <<nmVars, past>>
  PROVE  UpdateInv' /\ UNCHANGED <<Kept, OnTrial>>
  BY DEF End, Goto, nmVars, Kept, OnTrial, UpdateInv, InProgress, OwnsCheckpoint, NInv, TypeOK

\* The checkpoint of d gains a mark, the request s that had it goes on or is done.
LEMMA MarkUpdate ==
  ASSUME NInv, NEW d \in Device, checkpoint[d] # None,
         \/ checkpoint' = [checkpoint EXCEPT ![d] = [checkpoint[d] EXCEPT !.issued = TRUE]]
         \/ checkpoint' = [checkpoint EXCEPT ![d] = [checkpoint[d] EXCEPT !.touched = TRUE]]
  PROVE  /\ checkpoint'[d] # None
         /\ checkpoint'[d].by = checkpoint[d].by
         /\ checkpoint'[d].saved = checkpoint[d].saved
         /\ checkpoint'[d].applied = checkpoint[d].applied
         /\ checkpoint'[d].change = checkpoint[d].change
         /\ checkpoint'[d].timeout = checkpoint[d].timeout
         /\ \A e \in Device : e # d => checkpoint'[e] = checkpoint[e]
<1>1. checkpoint[d] \in Checkpoint /\ checkpoint \in [Device -> Checkpoint \cup {None}]
  BY CheckpointFields DEF NInv, TypeOK
<1>2. checkpoint'[d] \in Checkpoint
  BY <1>1, CheckpointMarked
<1>3. QED
  BY <1>1, <1>2, NoneAssumption DEF Checkpoint

\* With orderly clients and prompt calls every step preserves UpdateInv, and is a step
\* of the settings on trial or leaves them alone.
LEMMA UpdateStep ==
  ASSUME Orderly, Prompt
  PROVE  NInv /\ UpdateInv /\ [Next]_vars => UpdateInv' /\ [Trial!Next]_<<Kept, OnTrial>>
<1> SUFFICES ASSUME NInv, UpdateInv, [Next]_vars
             PROVE  UpdateInv' /\ [Trial!Next]_<<Kept, OnTrial>>
  OBVIOUS
<1> DEFINE Stutter == UNCHANGED <<Kept, OnTrial>>
<1>1. ASSUME NEW r \in Request, NEW d \in Device, NEW c \in Change, Start(r, d, c)
      PROVE  UpdateInv' /\ Stutter
  BY <1>1 DEF Start, Settled, Goto, nmVars, Kept, OnTrial, UpdateInv, InProgress,
     OwnsCheckpoint, NInv, TypeOK
<1>2. ASSUME NEW r \in Request, ReadSettings(r)
      PROVE  UpdateInv' /\ Stutter
  <2>1. CASE Accepted(change[r])
    BY <1>2, <2>1 DEF ReadSettings, Goto, nmVars, Kept, OnTrial, UpdateInv, InProgress,
       OwnsCheckpoint, NInv, TypeOK
  <2>2. CASE ~Accepted(change[r])
    BY <1>2, <2>2, EndUpdate DEF ReadSettings
  <2>3. QED
    BY <2>1, <2>2
<1>3. ASSUME NEW r \in Request, CreateCheckpoint(r)
      PROVE  UpdateInv' /\ (Stutter \/ Trial!Next)
  <2>1. CASE checkpoint[device[r]] = None
    <3> DEFINE d == device[r]
               k == [by |-> r, saved |-> saved[d], applied |-> applied[d], touched |-> FALSE,
                     timeout |-> 30, issued |-> FALSE, change |-> change[r]]
    <3>1. k \in Checkpoint /\ k # None /\ d \in Device /\ change[r] \in Change
      <4>1. d \in Device /\ change[r] \in Change
        BY <1>3 DEF CreateCheckpoint, NInv, TypeOK, RequestInv, InProgress
      <4>2. k \in Checkpoint
        BY <4>1 DEF Checkpoint, NInv, TypeOK
      <4>3. QED
        BY <4>1, <4>2, NoneAssumption
    <3>2. /\ k.by = r /\ k.saved = saved[d] /\ k.timeout = 30 /\ k.issued = FALSE
          /\ k.change = change[r]
      OBVIOUS
    <3>3. /\ pc[r] = "checkpoint" /\ settings[r] = Merge(saved[d], change[r])
          /\ checkpoint' = [checkpoint EXCEPT ![d] = k]
          /\ pc' = [pc EXCEPT ![r] = "update"]
          /\ UNCHANGED <<saved, device, change, settings>>
      BY <1>3, <2>1 DEF CreateCheckpoint, Goto, UpdateInv
    <3>4. /\ checkpoint'[d] = k /\ \A e \in Device : e # d => checkpoint'[e] = checkpoint[e]
          /\ pc'[r] = "update" /\ \A s \in Request : s # r => pc'[s] = pc[s]
      BY <3>1, <3>3 DEF NInv, TypeOK
    <3> HIDE DEF k
    <3>5. \A s \in Request : s # r /\ InProgress(s) => device[s] # d
      BY <3>3 DEF UpdateInv, InProgress
    <3>6. UpdateInv'
      <4>1. \A s \in Request : device[s] \in Device
        BY DEF NInv, TypeOK
      <4>2. \A s, t \in Request :
              InProgress(s)' /\ InProgress(t)' /\ device'[s] = device'[t] => s = t
        BY <3>3, <3>4 DEF UpdateInv, InProgress
      <4>3. ASSUME NEW s \in Request
            PROVE  LET e == device'[s] IN
                   /\ pc'[s] = "read" => checkpoint'[e] = None
                   /\ pc'[s] = "checkpoint" =>
                        checkpoint'[e] = None /\ settings'[s] = Merge(saved'[e], change'[s])
                   /\ pc'[s] \in {"update", "version"} =>
                        OwnsCheckpoint(s, device[s])' /\ ~checkpoint'[e].issued
                   /\ pc'[s] = "version" => saved'[e] = settings'[s]
        <5>1. CASE s = r
          BY <5>1, <3>1, <3>2, <3>3, <3>4 DEF OwnsCheckpoint, Confirmed
        <5>2. CASE s # r
          BY <5>2, <3>3, <3>4, <3>5, <4>1 DEF UpdateInv, OwnsCheckpoint, InProgress, Confirmed
        <5>3. QED
          BY <5>1, <5>2
      <4>4. \A e \in Device : checkpoint'[e] # None =>
              /\ checkpoint'[e].timeout = 30
              /\ checkpoint'[e].issued => saved'[e] = Confirmed(checkpoint'[e])
        BY <3>2, <3>3, <3>4 DEF UpdateInv
      <4>5. QED
        BY <4>2, <4>3, <4>4 DEF UpdateInv, Confirmed
    <3>7. Trial!Propose(d, change[r])
      <4>1. OnTrial[d] = None
        BY <2>1, <3>1 DEF OnTrial
      <4>2. Kept' = Kept
        BY <2>1, <3>1, <3>2, <3>3, <3>4 DEF Kept
      <4>3. OnTrial' = [OnTrial EXCEPT ![d] = change[r]]
        <5>1. \A e \in Device : OnTrial'[e] = IF e = d THEN change[r] ELSE OnTrial[e]
          BY <3>1, <3>2, <3>4 DEF OnTrial
        <5>2. QED
          BY <5>1 DEF OnTrial
      <4>4. QED
        BY <4>1, <4>2, <4>3 DEF Trial!Propose, Kept, OnTrial
    <3>8. Trial!Next
      BY <3>1, <3>7 DEF Trial!Next, Trial!Propose
    <3>9. QED
      BY <3>6, <3>8
  <2>2. CASE checkpoint[device[r]] # None
    BY <1>3, <2>2, EndUpdate DEF CreateCheckpoint, nmVars
  <2>3. QED
    BY <2>1, <2>2
<1>4. ASSUME NEW r \in Request, UpdateProfile(r)
      PROVE  UpdateInv' /\ Stutter
  <2>1. /\ checkpoint[device[r]] # None
        /\ OwnsCheckpoint(r, device[r])
        /\ ~checkpoint[device[r]].issued
    BY <1>4 DEF UpdateProfile, UpdateInv, OwnsCheckpoint
  <2>2. Stutter
    BY <1>4, <2>1 DEF UpdateProfile, Kept, OnTrial, NInv, TypeOK
  <2>3. UpdateInv'
    BY <1>4, <2>1 DEF UpdateProfile, Goto, UpdateInv, InProgress, OwnsCheckpoint, Confirmed,
       NInv, TypeOK
  <2>4. QED
    BY <2>2, <2>3
<1>5. ASSUME NEW r \in Request, ReadVersion(r)
      PROVE  UpdateInv' /\ Stutter
  <2> DEFINE d == device[r]
  <2>1. OwnsCheckpoint(r, d) /\ saved[d] = Confirmed(checkpoint[d]) /\ d \in Device
    BY <1>5 DEF ReadVersion, UpdateInv, OwnsCheckpoint, NInv, TypeOK
  <2>2. checkpoint' = [checkpoint EXCEPT ![d] = [checkpoint[d] EXCEPT !.issued = TRUE]]
    BY <1>5, <2>1 DEF ReadVersion, OwnsCheckpoint
  <2>3. /\ checkpoint'[d] # None
        /\ checkpoint'[d].saved = checkpoint[d].saved
        /\ checkpoint'[d].change = checkpoint[d].change
        /\ checkpoint'[d].timeout = checkpoint[d].timeout
        /\ \A e \in Device : e # d => checkpoint'[e] = checkpoint[e]
    BY <2>1, <2>2, MarkUpdate DEF OwnsCheckpoint
  <2>4. /\ pc[r] = "version" /\ pc'[r] = "reapply" /\ \A s \in Request : s # r => pc'[s] = pc[s]
        /\ UNCHANGED <<saved, device, change, settings>>
    BY <1>5 DEF ReadVersion, Goto, NInv, TypeOK
  <2>5. Stutter
    BY <2>1, <2>3, <2>4 DEF OwnsCheckpoint, Kept, OnTrial
  <2>6. \A s \in Request : s # r /\ InProgress(s) => device[s] # d /\ device[s] \in Device
    BY <2>4 DEF UpdateInv, InProgress, NInv, TypeOK
  <2>7. UpdateInv'
    BY <2>1, <2>3, <2>4, <2>6 DEF UpdateInv, InProgress, OwnsCheckpoint, Confirmed
  <2>8. QED
    BY <2>5, <2>7
<1>6. ASSUME NEW r \in Request, Reapply(r)
      PROVE  UpdateInv' /\ Stutter
  <2> DEFINE d == device[r]
  <2>1. /\ pc[r] = "reapply" /\ pc'[r] = "idle" /\ \A s \in Request : s # r => pc'[s] = pc[s]
        /\ \A s \in Request : s # r => change'[s] = change[s] /\ settings'[s] = settings[s]
        /\ UNCHANGED <<saved, device>>
        /\ d \in Device
    BY <1>6 DEF Reapply, Goto, NInv, TypeOK
  <2>2. \A s \in Request : s # r /\ InProgress(s) => device[s] # d /\ device[s] \in Device
    BY <2>1 DEF UpdateInv, InProgress, NInv, TypeOK
  <2>3. CASE checkpoint[d] = None
    BY <1>6, <2>1, <2>2, <2>3
    DEF Reapply, Kept, OnTrial, UpdateInv, InProgress, OwnsCheckpoint, Confirmed
  <2>4. CASE checkpoint[d] # None
    <3>1. checkpoint' = [checkpoint EXCEPT ![d] = [checkpoint[d] EXCEPT !.touched = TRUE]]
      BY <1>6, <2>4 DEF Reapply
    <3>2. checkpoint'[d].issued = checkpoint[d].issued
      BY <2>1, <2>4, <3>1, CheckpointFields DEF NInv, TypeOK, Checkpoint
    <3>3. /\ checkpoint'[d] # None
          /\ checkpoint'[d].saved = checkpoint[d].saved
          /\ checkpoint'[d].change = checkpoint[d].change
          /\ checkpoint'[d].timeout = checkpoint[d].timeout
          /\ \A e \in Device : e # d => checkpoint'[e] = checkpoint[e]
      BY <2>1, <2>4, <3>1, MarkUpdate
    <3>4. Stutter
      BY <2>1, <2>4, <3>3 DEF Kept, OnTrial
    <3>5. UpdateInv'
      BY <2>1, <2>2, <2>4, <3>2, <3>3 DEF UpdateInv, InProgress, OwnsCheckpoint, Confirmed
    <3>6. QED
      BY <3>4, <3>5
  <2>5. QED
    BY <2>3, <2>4
<1>7. ASSUME NEW r \in Request, CallFails(r)
      PROVE  UpdateInv' /\ Stutter
  BY <1>7, EndUpdate DEF CallFails
<1>8. ASSUME NEW d \in Device, Commit(d)
      PROVE  UpdateInv' /\ Trial!Next
  <2>1. /\ checkpoint[d] # None /\ checkpoint[d].issued
        /\ checkpoint'[d] = None /\ \A e \in Device : e # d => checkpoint'[e] = checkpoint[e]
        /\ UNCHANGED <<saved, pc, device, change, settings>>
        /\ saved[d] = Confirmed(checkpoint[d])
    BY <1>8 DEF Commit, reqVars, UpdateInv, NInv, TypeOK
  <2>2. UpdateInv'
    BY <2>1 DEF UpdateInv, InProgress, OwnsCheckpoint, Confirmed, NInv, TypeOK
  <2>3. checkpoint[d].change # None
    BY <2>1, CheckpointFields, NoneAssumption DEF NInv
  <2>4. Kept' = [Kept EXCEPT ![d] = Merge(@, OnTrial[d])] /\ OnTrial' = [OnTrial EXCEPT ![d] = None]
    BY <2>1 DEF Kept, OnTrial, Confirmed
  <2>5. Trial!Confirm(d)
    BY <2>1, <2>3, <2>4 DEF Trial!Confirm, Kept, OnTrial
  <2>6. QED
    BY <2>2, <2>5 DEF Trial!Next
<1>9. ASSUME NEW d \in Device, Expire(d)
      PROVE  UpdateInv' /\ Trial!Next
  <2>1. /\ checkpoint[d] # None
        /\ checkpoint'[d] = None /\ \A e \in Device : e # d => checkpoint'[e] = checkpoint[e]
        /\ saved'[d] = checkpoint[d].saved /\ \A e \in Device : e # d => saved'[e] = saved[e]
        /\ UNCHANGED <<pc, device, change, settings>>
        /\ ~(pc[checkpoint[d].by] \in {"update", "version"} /\ device[checkpoint[d].by] = d)
    BY <1>9 DEF Expire, NInv, TypeOK
  <2>2. UpdateInv'
    BY <2>1 DEF UpdateInv, InProgress, OwnsCheckpoint, Confirmed, NInv, TypeOK
  <2>3. checkpoint[d].change # None
    BY <2>1, CheckpointFields, NoneAssumption DEF NInv
  <2>4. Kept' = Kept /\ OnTrial' = [OnTrial EXCEPT ![d] = None]
    BY <2>1 DEF Kept, OnTrial
  <2>5. Trial!RollBack(d)
    BY <2>1, <2>3, <2>4 DEF Trial!RollBack, Kept, OnTrial
  <2>6. QED
    BY <2>2, <2>5 DEF Trial!Next
<1>10. CASE Crash
  BY <1>10 DEF Crash, nmVars, UpdateInv, InProgress, OwnsCheckpoint, Confirmed, Kept, OnTrial
<1>11. CASE UNCHANGED vars
  BY <1>11 DEF vars, UpdateInv, InProgress, OwnsCheckpoint, Confirmed, Kept, OnTrial
<1>12. QED
  BY <1>1, <1>2, <1>3, <1>4, <1>5, <1>6, <1>7, <1>8, <1>9, <1>10, <1>11 DEF Next, Serve

\* With orderly clients and prompt calls, a device's settings change for good only by a
\* confirmation, and by exactly the change that was asked for: the update implements
\* TrialSettings.
THEOREM UpdatesAreTrials ==
  ASSUME Orderly, Prompt
  PROVE  Spec => ConfirmedOrRolledBack
<1>1. Init => Trial!Init
  BY NetworkAssumption DEF Init, Trial!Init
<1>2. NInv /\ UpdateInv /\ [Next]_vars => UpdateInv' /\ [Trial!Next]_Trial!trialVars
  BY UpdateStep DEF Trial!trialVars, Kept, OnTrial
<1>3. QED
  BY <1>1, <1>2, NTypeInit, NTypeStep, UpdateInit, PTL
  DEF Spec, ConfirmedOrRolledBack, Trial!Spec

-----------------------------------------------------------------------------
(* The settings in effect were to be kept                                  *)

\* Where the settings in effect may come from, and those a pending Reapply will bring.
AppliedInv ==
  /\ AppliedWasKept
  /\ \A d \in Device :
       LET c == checkpoint[d] IN
       c # None =>
         /\ c.applied \in past[d]
         /\ applied[d] \in past[d] \/ (c.touched /\ applied[d] = Confirmed(c))
  /\ \A r \in Request :
       pc[r] = "reapply" =>
         LET d == device[r] IN
         \/ checkpoint[d] = None /\ settings[r] \in past[d]
         \/ OwnsCheckpoint(r, d)

LEMMA AppliedInit == Init => AppliedInv
  BY DEF Init, AppliedInv, AppliedWasKept

LEMMA EndApplied ==
  ASSUME NInv, AppliedInv, NEW r \in Request, End(r), UNCHANGED <<nmVars, past>>
  PROVE  AppliedInv'
  BY DEF End, Goto, nmVars, AppliedInv, AppliedWasKept, OwnsCheckpoint, NInv, TypeOK

LEMMA AppliedStep ==
  ASSUME Orderly, Prompt
  PROVE  NInv /\ UpdateInv /\ AppliedInv /\ [Next]_vars => AppliedInv'
<1> SUFFICES ASSUME NInv, UpdateInv, AppliedInv, [Next]_vars
             PROVE  AppliedInv'
  OBVIOUS
<1> USE DEF AppliedInv, AppliedWasKept, OwnsCheckpoint, Confirmed
<1>1. ASSUME NEW r \in Request, NEW d \in Device, NEW c \in Change, Start(r, d, c)
      PROVE  AppliedInv'
  BY <1>1 DEF Start, Goto, nmVars, InProgress, NInv, TypeOK
<1>2. ASSUME NEW r \in Request, ReadSettings(r)
      PROVE  AppliedInv'
  <2>1. CASE Accepted(change[r])
    BY <1>2, <2>1 DEF ReadSettings, Goto, nmVars, NInv, TypeOK
  <2>2. CASE ~Accepted(change[r])
    BY <1>2, <2>2, EndApplied DEF ReadSettings
  <2>3. QED
    BY <2>1, <2>2
<1>3. ASSUME NEW r \in Request, CreateCheckpoint(r)
      PROVE  AppliedInv'
  <2>1. CASE checkpoint[device[r]] = None
    <3> DEFINE d == device[r]
    <3>1. \A s \in Request : pc'[s] = "reapply" => device[s] # d /\ pc[s] = "reapply"
      BY <1>3, <2>1 DEF CreateCheckpoint, Goto, UpdateInv, InProgress, NInv, TypeOK
    <3>2. /\ checkpoint'[d].applied = applied[d]
          /\ \A e \in Device : e # d => checkpoint'[e] = checkpoint[e]
          /\ UNCHANGED <<applied, device, change, settings, past>>
          /\ d \in Device
      BY <1>3, <2>1 DEF CreateCheckpoint, NInv, TypeOK
    <3>3. \A s \in Request : device[s] \in Device
      BY DEF NInv, TypeOK
    <3>4. QED
      BY <2>1, <3>1, <3>2, <3>3
  <2>2. CASE checkpoint[device[r]] # None
    BY <1>3, <2>2, EndApplied DEF CreateCheckpoint, nmVars
  <2>3. QED
    BY <2>1, <2>2
<1>4. ASSUME NEW r \in Request, UpdateProfile(r)
      PROVE  AppliedInv'
  BY <1>4 DEF UpdateProfile, Goto, NInv, TypeOK
<1>5. ASSUME NEW r \in Request, ReadVersion(r)
      PROVE  AppliedInv'
  <2> DEFINE d == device[r]
  <2>1. OwnsCheckpoint(r, d) /\ d \in Device
    BY <1>5 DEF ReadVersion, UpdateInv, NInv, TypeOK
  <2>2. checkpoint' = [checkpoint EXCEPT ![d] = [checkpoint[d] EXCEPT !.issued = TRUE]]
    BY <1>5, <2>1 DEF ReadVersion
  <2>3. checkpoint'[d].touched = checkpoint[d].touched
    BY <2>1, <2>2, CheckpointFields DEF NInv, TypeOK, Checkpoint
  <2>4. /\ checkpoint'[d] # None
        /\ checkpoint'[d].by = checkpoint[d].by
        /\ checkpoint'[d].saved = checkpoint[d].saved
        /\ checkpoint'[d].applied = checkpoint[d].applied
        /\ checkpoint'[d].change = checkpoint[d].change
        /\ \A e \in Device : e # d => checkpoint'[e] = checkpoint[e]
    BY <2>1, <2>2, MarkUpdate
  <2>5. /\ pc[r] = "version" /\ \A s \in Request : s # r => pc'[s] = pc[s]
        /\ UNCHANGED <<applied, device, change, settings, past>>
    BY <1>5 DEF ReadVersion, Goto, NInv, TypeOK
  <2>6. \A s \in Request : device[s] \in Device
    BY DEF NInv, TypeOK
  <2>7. \A s \in Request : s # r /\ pc[s] = "reapply" => device[s] # d
    BY <2>5 DEF UpdateInv, InProgress
  <2>8. QED
    BY <2>1, <2>3, <2>4, <2>5, <2>6, <2>7
<1>6. ASSUME NEW r \in Request, Reapply(r)
      PROVE  AppliedInv'
  <2> DEFINE d == device[r]
  <2>1. /\ pc[r] = "reapply" /\ pc'[r] = "idle" /\ \A s \in Request : s # r => pc'[s] = pc[s]
        /\ \A s \in Request : s # r => change'[s] = change[s] /\ settings'[s] = settings[s]
        /\ applied'[d] = settings[r] /\ \A e \in Device : e # d => applied'[e] = applied[e]
        /\ UNCHANGED <<device, past>>
        /\ d \in Device
    BY <1>6 DEF Reapply, Goto, NInv, TypeOK
  <2>2. \A s \in Request :
          device[s] \in Device /\ (s # r /\ pc[s] = "reapply" => device[s] # d)
    BY <2>1 DEF UpdateInv, InProgress, NInv, TypeOK
  <2>3. CASE checkpoint[d] = None
    BY <1>6, <2>1, <2>2, <2>3 DEF Reapply
  <2>4. CASE checkpoint[d] # None
    <3>1. checkpoint' = [checkpoint EXCEPT ![d] = [checkpoint[d] EXCEPT !.touched = TRUE]]
      BY <1>6, <2>4 DEF Reapply
    <3>2. checkpoint'[d].touched
      BY <2>1, <2>4, <3>1, CheckpointFields DEF NInv, TypeOK, Checkpoint
    <3>3. /\ checkpoint'[d] # None
          /\ checkpoint'[d].by = checkpoint[d].by
          /\ checkpoint'[d].saved = checkpoint[d].saved
          /\ checkpoint'[d].applied = checkpoint[d].applied
          /\ checkpoint'[d].change = checkpoint[d].change
          /\ \A e \in Device : e # d => checkpoint'[e] = checkpoint[e]
      BY <2>1, <2>4, <3>1, MarkUpdate
    <3>4. QED
      BY <2>1, <2>2, <2>4, <3>2, <3>3
  <2>5. QED
    BY <2>3, <2>4
<1>7. ASSUME NEW r \in Request, CallFails(r)
      PROVE  AppliedInv'
  BY <1>7, EndApplied DEF CallFails
<1>8. ASSUME NEW d \in Device, Commit(d)
      PROVE  AppliedInv'
  <2>1. /\ checkpoint[d] # None
        /\ checkpoint'[d] = None /\ \A e \in Device : e # d => checkpoint'[e] = checkpoint[e]
        /\ UNCHANGED <<applied, pc, device, change, settings>>
        /\ past'[d] = (past[d] \cap {applied[d]}) \cup {Confirmed(checkpoint[d])}
        /\ \A e \in Device : e # d => past'[e] = past[e]
    BY <1>8 DEF Commit, reqVars, NInv, TypeOK
  <2>2. \A s \in Request : device[s] \in Device
    BY DEF NInv, TypeOK
  <2>3. QED
    BY <2>1, <2>2
<1>9. ASSUME NEW d \in Device, Expire(d)
      PROVE  AppliedInv'
  <2>1. /\ checkpoint[d] # None
        /\ checkpoint'[d] = None /\ \A e \in Device : e # d => checkpoint'[e] = checkpoint[e]
        /\ applied'[d] = IF checkpoint[d].touched THEN checkpoint[d].applied ELSE applied[d]
        /\ \A e \in Device : e # d => applied'[e] = applied[e]
        /\ UNCHANGED <<pc, device, change, settings, past>>
        /\ ~(pc[checkpoint[d].by] = "reapply" /\ device[checkpoint[d].by] = d)
    BY <1>9 DEF Expire, NInv, TypeOK
  <2>2. \A s \in Request : device[s] \in Device
    BY DEF NInv, TypeOK
  <2>3. QED
    BY <2>1, <2>2
<1>10. CASE Crash
  BY <1>10 DEF Crash, nmVars
<1>11. CASE UNCHANGED vars
  BY <1>11 DEF vars
<1>12. QED
  BY <1>1, <1>2, <1>3, <1>4, <1>5, <1>6, <1>7, <1>8, <1>9, <1>10, <1>11 DEF Next, Serve

\* A device in no checkpoint runs settings it was to keep at some time, though Reapply
\* runs after the answer, and may run after the confirmation or fail.
THEOREM AppliedSettingsWereKept ==
  ASSUME Orderly, Prompt
  PROVE  Spec => []AppliedWasKept
<1>1. AppliedInv => AppliedWasKept
  BY DEF AppliedInv
<1>2. NInv /\ UpdateInv /\ [Next]_vars => UpdateInv'
  BY UpdateStep
<1>3. NInv /\ UpdateInv /\ AppliedInv /\ [Next]_vars => AppliedInv'
  BY AppliedStep
<1>4. QED
  BY <1>1, <1>2, <1>3, NTypeInit, NTypeStep, UpdateInit, AppliedInit, PTL DEF Spec

-----------------------------------------------------------------------------
(* The profile on trial is what the client asked for                       *)

\* A merge of an accepted change grants what the change asks for, family by family.
LEMMA MergeGrants ==
  ASSUME NEW old \in Config, NEW c \in Change, Accepted(c)
  PROVE  /\ Grants(c.ipv4, old.ipv4, Merge(old, c).ipv4)
         /\ Grants(c.ipv6, old.ipv6, Merge(old, c).ipv6)
<1>1. /\ c.ipv4 \in Optional(UpdateIpv4SettingsDto \cup UpdateIpv6SettingsDto)
      /\ c.ipv6 \in Optional(UpdateIpv4SettingsDto \cup UpdateIpv6SettingsDto)
  BY NetworkAssumption DEF UpdateNetworkConfigDto, Optional
<1>2. QED
  BY <1>1, ApplyChangesGrants DEF Config, Merge, Accepted

\* A profile that is on trial, from the moment the client knows the checkpoint's id,
\* reads back as the request: every write of the profile is a merge of the accepted
\* change into the profile the checkpoint restores.
THEOREM TrialsShowRequests ==
  ASSUME Orderly, Prompt
  PROVE  Spec => []TrialShowsTheRequest
<1>1. NInv /\ UpdateInv => TrialShowsTheRequest
  <2> SUFFICES ASSUME NInv, UpdateInv, NEW d \in Device, checkpoint[d] # None,
                      checkpoint[d].issued
               PROVE  LET c == checkpoint[d] IN
                      /\ Grants(c.change.ipv4, c.saved.ipv4, saved[d].ipv4)
                      /\ Grants(c.change.ipv6, c.saved.ipv6, saved[d].ipv6)
    BY DEF TrialShowsTheRequest
  <2>1. saved[d] = Merge(checkpoint[d].saved, checkpoint[d].change)
    BY DEF UpdateInv, Confirmed
  <2>2. Accepted(checkpoint[d].change)
    BY DEF NInv, RequestInv
  <2>3. QED
    BY <2>1, <2>2, CheckpointFields, MergeGrants DEF NInv
<1>2. NInv /\ UpdateInv /\ [Next]_vars => UpdateInv'
  BY UpdateStep
<1>3. QED
  BY <1>1, <1>2, NTypeInit, NTypeStep, UpdateInit, PTL DEF Spec

-----------------------------------------------------------------------------
(* Profiles stay coherent                                                  *)

CoherentConfig(p) == Coherent(p.ipv4) /\ Coherent(p.ipv6)

\* Every profile anyone may still write is coherent: the stored ones, those of the
\* checkpoints and those requests have merged.
CoherentInv ==
  /\ \A d \in Device :
       /\ CoherentConfig(saved[d])
       /\ CoherentConfig(applied[d])
       /\ checkpoint[d] # None =>
            CoherentConfig(checkpoint[d].saved) /\ CoherentConfig(checkpoint[d].applied)
  /\ \A r \in Request :
       pc[r] \in {"checkpoint", "update", "version", "reapply"} =>
         CoherentConfig(settings[r])

LEMMA MergeCoherent ==
  ASSUME NEW old \in Config, NEW c, Accepted(c), CoherentConfig(old)
  PROVE  CoherentConfig(Merge(old, c))
  BY ApplyChangesCoherent DEF CoherentConfig, Config, Merge, Accepted

LEMMA CoherentInit == Init => CoherentInv
  BY NetworkAssumption DEF Init, CoherentInv, CoherentConfig

LEMMA EndCoherent ==
  ASSUME NInv, CoherentInv, NEW r \in Request, End(r), UNCHANGED <<nmVars, past>>
  PROVE  CoherentInv'
  BY DEF End, Goto, nmVars, CoherentInv, CoherentConfig, NInv, TypeOK

LEMMA CoherentStep == NInv /\ CoherentInv /\ [Next]_vars => CoherentInv'
<1> SUFFICES ASSUME NInv, CoherentInv, [Next]_vars
             PROVE  CoherentInv'
  OBVIOUS
<1> USE DEF CoherentInv, Goto, nmVars, NInv, TypeOK
<1>1. ASSUME NEW r \in Request, NEW d \in Device, NEW c \in Change, Start(r, d, c)
      PROVE  CoherentInv'
  BY <1>1 DEF Start, CoherentConfig
<1>2. ASSUME NEW r \in Request, ReadSettings(r)
      PROVE  CoherentInv'
  <2>1. CASE Accepted(change[r])
    <3>1. CoherentConfig(Merge(saved[device[r]], change[r]))
      BY <2>1, MergeCoherent
    <3>2. /\ settings' = [settings EXCEPT ![r] = Merge(saved[device[r]], change[r])]
          /\ pc' = [pc EXCEPT ![r] = "checkpoint"]
          /\ UNCHANGED <<saved, applied, checkpoint>>
      BY <1>2, <2>1 DEF ReadSettings
    <3>3. \A s \in Request :
            pc'[s] \in {"checkpoint", "update", "version", "reapply"} =>
              CoherentConfig(settings'[s])
      BY <3>1, <3>2
    <3>4. QED
      BY <3>2, <3>3 DEF CoherentConfig
  <2>2. CASE ~Accepted(change[r])
    BY <1>2, <2>2, EndCoherent DEF ReadSettings
  <2>3. QED
    BY <2>1, <2>2
<1>3. ASSUME NEW r \in Request, CreateCheckpoint(r)
      PROVE  CoherentInv'
  <2>1. CASE checkpoint[device[r]] = None
    <3>1. /\ checkpoint'[device[r]].saved = saved[device[r]]
          /\ checkpoint'[device[r]].applied = applied[device[r]]
          /\ \A d \in Device : d # device[r] => checkpoint'[d] = checkpoint[d]
          /\ pc' = [pc EXCEPT ![r] = "update"]
          /\ pc[r] = "checkpoint"
          /\ UNCHANGED <<saved, applied, settings>>
      BY <1>3, <2>1 DEF CreateCheckpoint
    <3>2. QED
      BY <3>1 DEF CoherentConfig
  <2>2. CASE checkpoint[device[r]] # None
    BY <1>3, <2>2, EndCoherent DEF CreateCheckpoint
  <2>3. QED
    BY <2>1, <2>2
<1>4. ASSUME NEW r \in Request, UpdateProfile(r)
      PROVE  CoherentInv'
  BY <1>4 DEF UpdateProfile, CoherentConfig
<1>5. ASSUME NEW r \in Request, ReadVersion(r)
      PROVE  CoherentInv'
  <2> DEFINE d == device[r]
  <2>1. CASE checkpoint[d] # None /\ checkpoint[d].by = r
    <3>1. checkpoint' = [checkpoint EXCEPT ![d] = [checkpoint[d] EXCEPT !.issued = TRUE]]
      BY <1>5, <2>1 DEF ReadVersion
    <3>2. /\ checkpoint'[d].saved = checkpoint[d].saved
          /\ checkpoint'[d].applied = checkpoint[d].applied
          /\ \A e \in Device : e # d => checkpoint'[e] = checkpoint[e]
      BY <2>1, <3>1, MarkUpdate
    <3>3. QED
      BY <1>5, <2>1, <3>2 DEF ReadVersion, CoherentConfig
  <2>2. CASE ~(checkpoint[d] # None /\ checkpoint[d].by = r)
    BY <1>5, <2>2 DEF ReadVersion, CoherentConfig
  <2>3. QED
    BY <2>1, <2>2
<1>6. ASSUME NEW r \in Request, Reapply(r)
      PROVE  CoherentInv'
  <2> DEFINE d == device[r]
  <2>1. \A e \in Device : checkpoint'[e] # None =>
          /\ checkpoint[e] # None
          /\ checkpoint'[e].saved = checkpoint[e].saved
          /\ checkpoint'[e].applied = checkpoint[e].applied
    <3>1. CASE checkpoint[d] = None
      BY <1>6, <3>1 DEF Reapply
    <3>2. CASE checkpoint[d] # None
      <4>1. checkpoint' = [checkpoint EXCEPT ![d] = [checkpoint[d] EXCEPT !.touched = TRUE]]
        BY <1>6, <3>2 DEF Reapply
      <4>2. QED
        BY <3>2, <4>1, MarkUpdate
    <3>3. QED
      BY <3>1, <3>2
  <2>2. /\ pc[r] = "reapply" /\ pc' = [pc EXCEPT ![r] = "idle"]
        /\ applied' = [applied EXCEPT ![d] = settings[r]]
        /\ settings' = [settings EXCEPT ![r] = None]
        /\ UNCHANGED saved
    BY <1>6 DEF Reapply
  <2>3. QED
    BY <2>1, <2>2 DEF CoherentConfig
<1>7. ASSUME NEW r \in Request, CallFails(r)
      PROVE  CoherentInv'
  BY <1>7, EndCoherent DEF CallFails
<1>8. ASSUME NEW d \in Device, Commit(d)
      PROVE  CoherentInv'
  BY <1>8 DEF Commit, reqVars, CoherentConfig
<1>9. ASSUME NEW d \in Device, Expire(d)
      PROVE  CoherentInv'
  <2>1. /\ checkpoint[d] # None
        /\ checkpoint' = [checkpoint EXCEPT ![d] = None]
        /\ saved' = [saved EXCEPT ![d] = checkpoint[d].saved]
        /\ \/ applied' = [applied EXCEPT ![d] = checkpoint[d].applied]
           \/ UNCHANGED applied
        /\ UNCHANGED <<pc, settings>>
    BY <1>9 DEF Expire
  <2>2. QED
    BY <2>1 DEF CoherentConfig
<1>10. CASE Crash
  BY <1>10 DEF Crash, CoherentConfig
<1>11. CASE UNCHANGED vars
  BY <1>11 DEF vars, CoherentConfig
<1>12. QED
  BY <1>1, <1>2, <1>3, <1>4, <1>5, <1>6, <1>7, <1>8, <1>9, <1>10, <1>11 DEF Next, Serve

\* No profile, on disk or in effect, becomes one with a manual method or a gateway but no
\* address, whatever overlaps, fails or expires.
THEOREM ProfilesStayCoherent == Spec => []ProfilesAreCoherent
<1>1. CoherentInv => ProfilesAreCoherent
  BY DEF CoherentInv, CoherentConfig, ProfilesAreCoherent
<1>2. QED
  BY <1>1, NTypeInit, NTypeStep, CoherentInit, CoherentStep, PTL DEF Spec
=============================================================================
