------------------------- MODULE DeviceReadsProofs -------------------------
(***************************************************************************)
(* What holds of DeviceReads for any programs and outputs, features,       *)
(* devices and requests, and however the device changes meanwhile.         *)
(***************************************************************************)
EXTENDS DeviceReads, SequenceTheorems, FiniteSetTheorems, TLAPS

(***************************************************************************)
(* Streams.  What was read of a stream and what there is to be read are    *)
(* the output, from the start to the end.                                  *)
(***************************************************************************)
Byte == {"char", "lead", "trail"}

\* A child whose text is of any kind: that of a spawn is made of pieces.
ChildRecord(text) ==
  [program : Program \cup {NoProgram},
   phase : {"none", "error", "runs", "exited", "closed"},
   unread : Seq(Byte), text : {text},
   promise : {"none", "pending", "resolved", "rejected", "stream"}]

StreamOK(child) ==
  child.program.kind = "stream" =>
    /\ child.text \in Seq(Byte)
    /\ child.program.starts => child.text \o child.unread = child.program.output
    /\ child.promise = "stream" => child.program.starts

ChildOK(child) ==
  /\ child \in ChildRecord(child.text)
  /\ child.phase = "none" => child = Unborn
  /\ child.phase # "none" => child.program \in Program /\ StreamOK(child)
  /\ child.promise = "stream" => child.phase # "none" /\ child.program.kind = "stream"
  /\ child.phase = "error" => ~child.program.starts
  /\ child.phase = "closed" => child.unread = <<>>
  /\ child.phase # "none" /\ ~child.program.starts =>
       child.phase \in {"error", "closed"} /\ child.unread = <<>>

ChildInv ==
  /\ children = [c \in Child |-> children[c]]
  /\ \A c \in Child : ChildOK(children[c])

LEMMA UnbornOK == ChildOK(Unborn)
BY DEF Unborn, ChildOK, ChildRecord

\* A step of a child is a step of that child alone.
LEMMA SetOK ==
  ASSUME ChildInv, NEW c \in Child, NEW new, ChildOK(new), Set(c, new)
  PROVE  ChildInv'
BY DEF ChildInv, Set

LEMMA SpawnOK ==
  ASSUME ChildInv, NEW c \in Child, NEW program \in Program, Spawn(c, program)
  PROVE  ChildInv'
<1> DEFINE new == [program |-> program, phase |-> IF program.starts THEN "runs" ELSE "error",
                   unread |-> IF program.starts THEN program.output ELSE <<>>, text |-> <<>>,
                   promise |-> "pending"]
<1>1. program.output \in Seq(Byte)
  BY OutputAssumption DEF Program, Byte
<1>2. new \in ChildRecord(new.text) /\ new.phase \in {"runs", "error"}
  BY <1>1 DEF ChildRecord
<1>3. StreamOK(new)
  BY <1>1, ConcatEmptySeq DEF StreamOK
<1>4. ChildOK(new)
  BY <1>2, <1>3 DEF ChildOK
<1> HIDE DEF new
<1> QED
  BY <1>4, SetOK DEF Spawn, new

\* A chunk goes from what is unread to what was read.
LEMMA ChunkMoves ==
  ASSUME NEW text \in Seq(Byte), NEW chunk \in Seq(Byte), NEW rest \in Seq(Byte)
  PROVE  (text \o chunk) \o rest = text \o (chunk \o rest) /\ text \o chunk \in Seq(Byte)
BY ConcatAssociative, ConcatProperties

LEMMA DataOK ==
  ASSUME ChildInv, NEW c \in Child, Data(c)
  PROVE  ChildInv'
<1> DEFINE child == children[c]
<1>1. ChildOK(child)
  BY DEF ChildInv
<1>2. child.unread \in Seq(Byte) /\ child.unread # <<>> /\ child.phase # "none"
  BY <1>1 DEF ChildOK, ChildRecord, Unborn, Data
<1>3. PICK n \in 1..Len(child.unread) :
        LET chunk == SubSeq(child.unread, 1, n)
            rest == SubSeq(child.unread, n + 1, Len(child.unread))
            read == IF Streams(c) THEN chunk ELSE Decoded(chunk)
        IN Set(c, [child EXCEPT !.unread = rest, !.text = @ \o read])
  BY DEF Data
<1> DEFINE chunk == SubSeq(child.unread, 1, n)
           rest == SubSeq(child.unread, n + 1, Len(child.unread))
           read == IF Streams(c) THEN chunk ELSE Decoded(chunk)
           new == [child EXCEPT !.unread = rest, !.text = @ \o read]
<1>4. chunk \in Seq(Byte) /\ rest \in Seq(Byte) /\ chunk \o rest = child.unread
  <2>1. chunk \in Seq(Byte) /\ rest \in Seq(Byte)
    BY <1>2
  <2>2. chunk \o rest = SubSeq(child.unread, 1, Len(child.unread))
    BY <1>2, ConcatAdjacentSubSeq
  <2> QED
    BY <1>2, <2>1, <2>2, SubSeqFull
<1>5. /\ new.program = child.program /\ new.phase = child.phase
      /\ new.promise = child.promise /\ new.unread = rest
      /\ new.text = child.text \o read
      /\ new \in ChildRecord(new.text)
  <2> HIDE DEF read, rest
  <2> QED
    BY <1>1, <1>4 DEF ChildOK, ChildRecord
<1>6. StreamOK(new)
  <2> SUFFICES ASSUME child.program.kind = "stream"
               PROVE  /\ child.text \o chunk \in Seq(Byte)
                      /\ child.program.starts =>
                           (child.text \o chunk) \o rest = child.program.output
                      /\ child.promise = "stream" => child.program.starts
    <3>1. child.program \in Program
      BY <1>1, <1>2 DEF ChildOK
    <3>2. Streams(c) <=> child.program.kind = "stream"
      BY <3>1, ProgramAssumption DEF Streams
    <3> HIDE DEF chunk, rest, new
    <3> QED
      BY <1>5, <3>2 DEF StreamOK
  <2>1. child.text \in Seq(Byte) /\ StreamOK(child)
    BY <1>1, <1>2 DEF ChildOK, StreamOK
  <2> HIDE DEF chunk, rest, child
  <2>2. chunk \in Seq(Byte) /\ rest \in Seq(Byte)
    BY <1>4
  <2>3. /\ (child.text \o chunk) \o rest = child.text \o (chunk \o rest)
        /\ child.text \o chunk \in Seq(Byte)
    BY <2>1, <2>2, ChunkMoves
  <2> QED
    BY <1>4, <2>1, <2>3 DEF StreamOK
<1>7. ChildOK(new)
  BY <1>1, <1>2, <1>5, <1>6 DEF ChildOK
<1> HIDE DEF new
<1> QED
  BY <1>3, <1>7, SetOK DEF new

\* The other steps move none of the output.
LEMMA OtherStepsOK ==
  ASSUME ChildInv, NEW c \in Child, Fails(c) \/ Readable(c) \/ Close(c) \/ Exit(c)
  PROVE  ChildInv'
<1> DEFINE child == children[c]
<1>1. ChildOK(child)
  BY DEF ChildInv
<1>2. child.phase # "none" => child.program \in Program /\ StreamOK(child)
  BY <1>1 DEF ChildOK
<1>3. CASE Fails(c)
  <2> DEFINE new == [child EXCEPT !.phase = "closed", !.promise = "rejected"]
  <2>1. /\ child.phase = "error" /\ Set(c, new)
        /\ child.unread = <<>>
    BY <1>1, <1>3 DEF Fails, Phase, ChildOK
  <2>2. /\ new.program = child.program /\ new.text = child.text
        /\ new.unread = child.unread /\ new.phase = "closed" /\ new.promise = "rejected"
        /\ new \in ChildRecord(new.text)
    BY <1>1 DEF ChildOK, ChildRecord
  <2>3. ChildOK(new)
    BY <1>1, <1>2, <2>1, <2>2 DEF ChildOK, StreamOK
  <2> QED
    BY <2>1, <2>3, SetOK
<1>4. CASE Readable(c)
  <2> DEFINE new == [child EXCEPT !.promise = "stream"]
  <2>1. /\ child.program.kind = "stream" /\ Set(c, new)
        /\ child.promise = "pending" /\ (child.unread # <<>> \/ child.phase = "exited")
    BY <1>4 DEF Readable, Streams, Phase
  <2>2. child.phase # "none" /\ child.program.starts
    BY <1>1, <2>1 DEF ChildOK, Unborn, Program
  <2>3. /\ new.program = child.program /\ new.text = child.text
        /\ new.unread = child.unread /\ new.phase = child.phase /\ new.promise = "stream"
        /\ new \in ChildRecord(new.text)
    BY <1>1 DEF ChildOK, ChildRecord
  <2>4. ChildOK(new)
    BY <1>1, <1>2, <2>1, <2>2, <2>3 DEF ChildOK, StreamOK
  <2> QED
    BY <2>1, <2>4, SetOK
<1>5. CASE Close(c)
  <2> DEFINE new == [child EXCEPT !.phase = "closed", !.promise = Settled(child)]
  <2>1. child.phase = "exited" /\ child.unread = <<>> /\ Set(c, new)
    BY <1>5 DEF Close, Phase
  <2>2. Settled(child) \in {child.promise, "resolved", "rejected"}
    BY DEF Settled
  <2>3. Settled(child) \in {"none", "resolved", "rejected", "stream"}
    BY <1>1 DEF Settled, ChildOK, ChildRecord
  <2>4. /\ new.program = child.program /\ new.text = child.text
        /\ new.unread = child.unread /\ new.phase = "closed" /\ new.promise = Settled(child)
        /\ new \in ChildRecord(new.text)
    BY <1>1, <2>3 DEF ChildOK, ChildRecord
  <2>5. ChildOK(new)
    BY <1>1, <1>2, <2>1, <2>2, <2>4 DEF ChildOK, StreamOK
  <2> QED
    BY <2>1, <2>5, SetOK
<1>6. CASE Exit(c)
  <2> DEFINE new == [child EXCEPT !.phase = "exited"]
  <2>1. child.phase = "runs" /\ Set(c, new)
    BY <1>6 DEF Exit, Phase
  <2>2. /\ new.program = child.program /\ new.text = child.text
        /\ new.unread = child.unread /\ new.phase = "exited" /\ new.promise = child.promise
        /\ new \in ChildRecord(new.text)
    BY <1>1 DEF ChildOK, ChildRecord
  <2>3. ChildOK(new)
    BY <1>1, <1>2, <2>1, <2>2 DEF ChildOK, StreamOK
  <2> QED
    BY <2>1, <2>3, SetOK
<1> QED
  BY <1>3, <1>4, <1>5, <1>6

LEMMA ChildInitOK == Init => ChildInv
BY UnbornOK DEF Init, ChildInit, ChildInv

LEMMA ChildNextOK == ChildInv /\ [Next]_vars => ChildInv'
<1> SUFFICES ASSUME ChildInv, [Next]_vars PROVE ChildInv'
  OBVIOUS
<1>1. ChildNext \/ children' = children
  BY DEF Next, Only, vars
<1>2. ASSUME NEW c \in Child, NEW program \in Program, Spawn(c, program) PROVE ChildInv'
  BY <1>2, SpawnOK
<1>3. ASSUME NEW c \in Child, ChildStep(c) \/ Exit(c) PROVE ChildInv'
  BY <1>3, DataOK, OtherStepsOK DEF ChildStep
<1>4. CASE children' = children
  BY <1>4 DEF ChildInv
<1> QED
  BY <1>1, <1>2, <1>3, <1>4 DEF ChildNext

\* A stream is the output in its order, and all of it at the close: for any number of
\* programs, with any output, in chunks of any size.  (ChildProcessService.spawnStreamable)
THEOREM StreamsAreWholeOutput == Spec => []StreamsAreOutput
<1>1. ChildInv => StreamsAreOutput
  <2> SUFFICES ASSUME ChildInv, NEW c \in Child, children[c].promise = "stream"
               PROVE  /\ children[c].text \o children[c].unread = children[c].program.output
                      /\ children[c].phase = "closed" =>
                           children[c].text = children[c].program.output
    BY DEF StreamsAreOutput, Phase
  <2>1. ChildOK(children[c]) /\ StreamOK(children[c])
    BY DEF ChildInv, ChildOK
  <2>2. /\ children[c].text \in Seq(Byte)
        /\ children[c].text \o children[c].unread = children[c].program.output
    BY <2>1 DEF ChildOK, StreamOK
  <2>3. children[c].text \o <<>> = children[c].text
    BY <2>2, ConcatEmptySeq
  <2> QED
    BY <2>1, <2>2, <2>3 DEF ChildOK
<1> QED
  BY <1>1, ChildInitOK, ChildNextOK, PTL DEF Spec

(***************************************************************************)
(* Features.  While a request is served it sees every state of every       *)
(* feature, so what its runs print, each at its own moment, it has seen.   *)
(***************************************************************************)
RequestRecord ==
  [pc : {"idle", "usage", "states", "status", "set", "switched", "ok", "bad request", "failed"},
   op : {"none", "all", "one", "set"}, ids : Seq(Id), on : BOOLEAN,
   value : Values \cup {NoValue}, out : Seq(AvailStat \cup Values),
   shown : Seq([id : Id, isAvailable : BOOLEAN, isEnabled : BOOLEAN,
                value : AvailStat \cup Values \cup {NoValue}])]

\* What status prints of a feature.
StatusOutput(state) ==
  IF state.value = NoValue THEN <<state.availstat>> ELSE <<state.value, state.availstat>>

\* What was printed so far, the request has seen.
PrintedOK(request, saw) ==
  /\ request.pc = "usage" => request.op = "all" /\ request.out = <<>>
  /\ request.pc = "states" =>
       /\ request.op = "all" /\ request.ids \in {Feature, <<>>}
       /\ Len(request.out) <= Len(request.ids)
       /\ \A i \in 1..Len(request.out) :
            /\ request.ids[i] \in Features
            /\ \E state \in saw[request.ids[i]] : request.out[i] = state.availstat
  /\ request.pc = "status" =>
       /\ request.op = "one"
       /\ \E id \in Id : request.ids = <<id>>
       /\ request.ids[1] # Unknown /\ request.out # <<>> =>
            \E state \in saw[request.ids[1]] : request.out = StatusOutput(state)

TookEffect(request, saw) ==
  /\ request.ids[1] \in Features
  /\ \E state \in saw[request.ids[1]] :
       \/ state.availstat = 2
       \/ /\ state.availstat = IF request.on THEN 1 ELSE 0
          /\ request.value \in {state.value, NoValue}

SwitchOK(request, saw) ==
  /\ request.pc \in {"set", "switched"} =>
       /\ request.op = "set" /\ \E id \in Id : request.ids = <<id>>
       /\ ~request.on => request.value = NoValue
  /\ request.pc = "switched" => TookEffect(request, saw)

ShownOK(request, saw) ==
  /\ request.shown # <<>>
  /\ \A i \in DOMAIN request.shown :
       /\ request.shown[i].id \in Features
       /\ \E state \in saw[request.shown[i].id] :
            /\ Means(request.shown[i], state)
            /\ request.op = "one" => request.shown[i].value = state.value
  /\ request.op = "all" =>
       /\ DOMAIN request.shown = DOMAIN Feature
       /\ \A i \in DOMAIN request.shown : request.shown[i].id = Feature[i]

AnsweredOK(request, saw) ==
  request.pc = "ok" =>
    /\ request.op # "set" => ShownOK(request, saw)
    /\ request.op = "set" => TookEffect(request, saw)

RequestOK(request, saw) ==
  PrintedOK(request, saw) /\ SwitchOK(request, saw) /\ AnsweredOK(request, saw)

ConfigInv ==
  /\ ConfigTypeOK
  /\ \A r \in Client : RequestOK(config[r], seen[r])
  /\ \A r \in Client : Serving(r) => \A id \in Features : features[id] \in seen[r][id]

LEMMA RequestRecords == ConfigTypeOK => config \in [Client -> RequestRecord]
BY DEF ConfigTypeOK, RequestRecord

\* What is shown of a state means what it does.
LEMMA ParsedMeans ==
  ASSUME NEW state \in FeatureState, NEW id, NEW value
  PROVE  Means(DeviceConfigDto(id, ParseStatus(state.availstat), value), state)
<1> DEFINE parsed == ParseStatus(state.availstat)
           dto == DeviceConfigDto(id, parsed, value)
<1>1. /\ parsed.isAvailable = (state.availstat # 2)
      /\ parsed.isEnabled = (state.availstat = 1)
  BY DEF ParseStatus
<1>2. dto.isAvailable = parsed.isAvailable /\ dto.isEnabled = parsed.isEnabled
  BY DEF DeviceConfigDto
<1>3. (state.availstat # 2) <=> state.availstat \in {0, 1}
  BY DEF FeatureState, AvailStat
<1> HIDE DEF parsed, dto
<1>4. Means(dto, state)
  BY <1>1, <1>2, <1>3 DEF Means
<1> QED
  BY <1>4 DEF dto, parsed

LEMMA ParsedType ==
  ASSUME NEW id \in Id, NEW availstat \in AvailStat,
         NEW value \in AvailStat \cup Values \cup {NoValue}
  PROVE  /\ DeviceConfigDto(id, ParseStatus(availstat), value) \in
              [id : Id, isAvailable : BOOLEAN, isEnabled : BOOLEAN,
               value : AvailStat \cup Values \cup {NoValue}]
         /\ DeviceConfigDto(id, ParseStatus(availstat), value).id = id
         /\ DeviceConfigDto(id, ParseStatus(availstat), value).value = value
BY DEF DeviceConfigDto, ParseStatus

\* A step of a request that switches nothing.
LEMMA ContinueOK ==
  ASSUME ConfigInv, NEW r \in Client, NEW new \in RequestRecord,
         RequestOK(new, seen[r]), Serving(r), Continue(r, new)
  PROVE  ConfigInv'
<1>1. config' = [config EXCEPT ![r] = new] /\ UNCHANGED <<features, lists, seen>>
  BY DEF Continue
<1>2. config' \in [Client -> RequestRecord]
  BY <1>1, RequestRecords DEF ConfigInv
<1>3. ConfigTypeOK'
  BY <1>1, <1>2 DEF ConfigInv, ConfigTypeOK, RequestRecord
<1>4. \A s \in Client : config'[s] = IF s = r THEN new ELSE config[s]
  BY <1>1, RequestRecords DEF ConfigInv
<1>5. ASSUME NEW s \in Client PROVE RequestOK(config'[s], seen'[s])
  BY <1>1, <1>4 DEF ConfigInv
<1>6. ASSUME NEW s \in Client, Serving(s)'
      PROVE  \A id \in Features : features'[id] \in seen'[s][id]
  BY <1>1, <1>4, <1>6 DEF ConfigInv, Serving
<1> QED
  BY <1>3, <1>5, <1>6 DEF ConfigInv

LEMMA RequestIsOK ==
  ASSUME ConfigInv, NEW r \in Client, NEW op, NEW pc, NEW ids \in Seq(Id), NEW on \in BOOLEAN,
         NEW value \in Values \cup {NoValue}, Request(r, op, pc, ids, on, value),
         \/ op = "all" /\ pc = "usage"
         \/ op = "one" /\ pc = "status"
         \/ op = "set" /\ pc = "set",
         op # "all" => \E id \in Id : ids = <<id>>,
         ~on => value = NoValue
  PROVE  ConfigInv'
<1> DEFINE new == [pc |-> pc, op |-> op, ids |-> ids, on |-> on, value |-> value,
                   out |-> <<>>, shown |-> <<>>]
           saw == [id \in Features |-> {features[id]}]
<1>1. /\ config' = [config EXCEPT ![r] = new] /\ seen' = [seen EXCEPT ![r] = saw]
      /\ UNCHANGED <<features, lists>>
  BY DEF Request
<1>2. new \in RequestRecord /\ saw \in [Features -> SUBSET FeatureState]
  <2>1. new \in RequestRecord
    <3>1. pc \in {"usage", "status", "set"} /\ op \in {"all", "one", "set"}
      OBVIOUS
    <3>2. /\ pc \in {"idle", "usage", "states", "status", "set", "switched", "ok",
                     "bad request", "failed"}
          /\ op \in {"none", "all", "one", "set"}
      BY <3>1
    <3>3. << >> \in Seq(AvailStat \cup Values)
          /\ << >> \in Seq([id : Id, isAvailable : BOOLEAN, isEnabled : BOOLEAN,
                            value : AvailStat \cup Values \cup {NoValue}])
      OBVIOUS
    <3> QED
      BY <3>2, <3>3, Zenon DEF RequestRecord
  <2>2. \A id \in Features : features[id] \in FeatureState
    BY DEF ConfigInv, ConfigTypeOK
  <2>3. saw \in [Features -> SUBSET FeatureState]
    BY <2>2
  <2> QED
    BY <2>1, <2>3
<1>3. RequestOK(new, saw)
  <2>1. /\ new.pc = pc /\ new.op = op /\ new.ids = ids /\ new.out = <<>> /\ new.shown = <<>>
        /\ new.on = on /\ new.value = value
    OBVIOUS
  <2> HIDE DEF new, saw
  <2> QED
    BY <2>1 DEF RequestOK, PrintedOK, SwitchOK, AnsweredOK
<1>4. \A id \in Features : features'[id] \in saw[id]
  BY <1>1
<1> HIDE DEF new, saw
<1>5. config' \in [Client -> RequestRecord] /\ seen' \in [Client -> [Features -> SUBSET FeatureState]]
  BY <1>1, <1>2, RequestRecords DEF ConfigInv, ConfigTypeOK
<1>6. ConfigTypeOK'
  BY <1>1, <1>5 DEF ConfigInv, ConfigTypeOK, RequestRecord
<1>7. \A s \in Client : /\ config'[s] = IF s = r THEN new ELSE config[s]
                        /\ seen'[s] = IF s = r THEN saw ELSE seen[s]
  BY <1>1, RequestRecords DEF ConfigInv, ConfigTypeOK
<1>8. ASSUME NEW s \in Client PROVE RequestOK(config'[s], seen'[s])
  BY <1>3, <1>7 DEF ConfigInv
<1>9. ASSUME NEW s \in Client, Serving(s)'
      PROVE  \A id \in Features : features'[id] \in seen'[s][id]
  <2>1. CASE s = r
    BY <1>4, <1>7, <2>1
  <2>2. CASE s # r
    BY <1>1, <1>7, <1>9, <2>2 DEF ConfigInv, Serving
  <2> QED
    BY <2>1, <2>2
<1> QED
  BY <1>6, <1>8, <1>9 DEF ConfigInv

LEMMA SupportedOK ==
  ASSUME ConfigInv, NEW r \in Client, GetSupportedConfigurations(r)
  PROVE  ConfigInv'
<1> DEFINE listed == IF lists THEN Feature ELSE <<>>
           new == [config[r] EXCEPT !.pc = "states", !.ids = listed]
<1>1. config[r] \in RequestRecord /\ config[r].pc = "usage" /\ PrintedOK(config[r], seen[r])
  BY RequestRecords DEF ConfigInv, RequestOK, GetSupportedConfigurations, Doing
<1>2. Continue(r, new) /\ Serving(r)
  BY <1>1 DEF GetSupportedConfigurations, Serving
<1>3. listed \in Seq(Id) /\ listed \in {Feature, <<>>}
  <2>1. Feature \in Seq(Id)
    BY FeatureAssumption DEF Id
  <2> QED
    BY <2>1
<1>4. /\ new \in RequestRecord /\ new.pc = "states" /\ new.op = "all" /\ new.ids = listed
      /\ new.out = <<>>
  BY <1>1, <1>3 DEF RequestRecord, PrintedOK
<1>5. Len(<<>>) = 0
  OBVIOUS
<1>6. Len(listed) \in Nat
  BY <1>3
<1> HIDE DEF new, listed
<1>7. Len(new.out) = 0
  BY <1>4, <1>5, Zenon
<1>8. PrintedOK(new, seen[r])
  BY <1>3, <1>4, <1>6, <1>7 DEF PrintedOK
<1>9. RequestOK(new, seen[r])
  BY <1>4, <1>8 DEF RequestOK, SwitchOK, AnsweredOK
<1> QED
  BY <1>2, <1>4, <1>9, ContinueOK

\* The look at one more feature is at the state it has then.
LEMMA PrintsAvailstatOK ==
  ASSUME ConfigInv, NEW r \in Client, PrintsAvailstat(r)
  PROVE  ConfigInv'
<1> DEFINE n == Len(config[r].out) + 1
           id == config[r].ids[n]
           out == Append(config[r].out, features[id].availstat)
           new == [config[r] EXCEPT !.out = out]
<1>1. /\ config[r] \in RequestRecord /\ config[r].pc = "states" /\ PrintedOK(config[r], seen[r])
      /\ Len(config[r].out) < Len(config[r].ids)
  BY RequestRecords DEF ConfigInv, RequestOK, PrintsAvailstat, Doing
<1>2. Continue(r, new) /\ Serving(r)
  BY <1>1 DEF PrintsAvailstat, Serving
<1>3. config[r].out \in Seq(AvailStat \cup Values) /\ config[r].ids \in Seq(Id)
  BY <1>1 DEF RequestRecord
<1>4. config[r].ids = Feature
  <2>1. Len(<<>>) = 0
    OBVIOUS
  <2>2. Len(config[r].ids) # 0
    BY <1>1, <1>3
  <2> QED
    BY <1>1, <2>1, <2>2, Zenon DEF PrintedOK
<1>5. n \in 1..Len(config[r].ids)
  BY <1>1, <1>3
<1>6. id \in Features
  <2>1. Feature[n] \in Features
    BY <1>4, <1>5, FeatureAssumption
  <2> QED
    BY <1>4, <2>1
<1>7. features[id] \in FeatureState /\ features[id] \in seen[r][id]
  BY <1>2, <1>6 DEF ConfigInv, ConfigTypeOK
<1>8. features[id].availstat \in AvailStat
  BY <1>7 DEF FeatureState
<1> HIDE DEF id
<1>9. /\ out \in Seq(AvailStat \cup Values) /\ Len(out) = n
      /\ \A i \in 1..n : out[i] = IF i = n THEN features[id].availstat ELSE config[r].out[i]
  BY <1>3, <1>8
<1> HIDE DEF out
<1>10. /\ new \in RequestRecord /\ new.pc = "states" /\ new.op = config[r].op
       /\ new.ids = config[r].ids /\ new.out = out
  BY <1>1, <1>9 DEF RequestRecord
<1> HIDE DEF new
<1>11. \A i \in 1..Len(out) :
         new.ids[i] \in Features /\ \E state \in seen[r][new.ids[i]] : out[i] = state.availstat
  <2> SUFFICES ASSUME NEW i \in 1..n
               PROVE  /\ config[r].ids[i] \in Features
                      /\ \E state \in seen[r][config[r].ids[i]] : out[i] = state.availstat
    BY <1>9, <1>10
  <2>1. CASE i = n
    BY <1>6, <1>7, <1>9, <2>1 DEF id
  <2>2. CASE i # n
    <3>1. i \in 1..Len(config[r].out)
      BY <1>3, <2>2
    <3> QED
      BY <1>1, <1>9, <2>2, <3>1 DEF PrintedOK
  <2> QED
    BY <2>1, <2>2
<1>12. PrintedOK(new, seen[r])
  <2>1. Len(new.out) <= Len(new.ids)
    BY <1>5, <1>9, <1>10
  <2> QED
    BY <1>1, <1>10, <1>11, <2>1 DEF PrintedOK
<1>13. RequestOK(new, seen[r])
  BY <1>10, <1>12 DEF RequestOK, SwitchOK, AnsweredOK
<1> QED
  BY <1>2, <1>10, <1>13, ContinueOK

\* A request that fails shows nothing.
LEMMA FailOK ==
  ASSUME ConfigInv, NEW r \in Client, NEW pc \in {"bad request", "failed"},
         Serving(r), Continue(r, [config[r] EXCEPT !.pc = pc])
  PROVE  ConfigInv'
<1> DEFINE new == [config[r] EXCEPT !.pc = pc]
<1>1. config[r] \in RequestRecord
  BY RequestRecords DEF ConfigInv
<1>2. new \in RequestRecord /\ new.pc = pc
  BY <1>1 DEF RequestRecord
<1> HIDE DEF new
<1>3. RequestOK(new, seen[r])
  BY <1>2 DEF RequestOK, PrintedOK, SwitchOK, AnsweredOK
<1> QED
  BY <1>2, <1>3, ContinueOK DEF new

\* An answer whose every entry is seen.
LEMMA AnswerIsOK ==
  ASSUME ConfigInv, NEW r \in Client, Serving(r),
         NEW shown \in Seq([id : Id, isAvailable : BOOLEAN, isEnabled : BOOLEAN,
                            value : AvailStat \cup Values \cup {NoValue}]),
         config[r].op # "set",
         ShownOK([config[r] EXCEPT !.pc = "ok", !.shown = shown], seen[r]),
         Continue(r, [config[r] EXCEPT !.pc = "ok", !.shown = shown])
  PROVE  ConfigInv'
<1> DEFINE new == [config[r] EXCEPT !.pc = "ok", !.shown = shown]
<1>1. config[r] \in RequestRecord
  BY RequestRecords DEF ConfigInv
<1>2. new \in RequestRecord /\ new.pc = "ok" /\ new.op = config[r].op
  BY <1>1 DEF RequestRecord
<1> HIDE DEF new
<1>3. RequestOK(new, seen[r])
  BY <1>2 DEF RequestOK, PrintedOK, SwitchOK, AnsweredOK, new
<1> QED
  BY <1>2, <1>3, ContinueOK DEF new

LEMMA StatesOK ==
  ASSUME ConfigInv, NEW r \in Client, GetConfigurationStates(r)
  PROVE  ConfigInv'
<1> DEFINE request == config[r]
           shown == [i \in DOMAIN request.ids |->
                       DeviceConfigDto(request.ids[i], ParseStatus(request.out[i]), NoValue)]
           new == [request EXCEPT !.pc = "ok", !.shown = shown]
<1>1. /\ request \in RequestRecord /\ request.pc = "states" /\ PrintedOK(request, seen[r])
      /\ Len(request.out) = Len(request.ids) /\ Serving(r)
  BY RequestRecords DEF ConfigInv, RequestOK, GetConfigurationStates, Doing, Serving
<1>2. CASE request.ids = <<>>
  BY <1>1, <1>2, FailOK DEF GetConfigurationStates
<1>3. CASE request.ids # <<>>
  <2>1. request.ids = Feature /\ request.op = "all"
    BY <1>1, <1>3 DEF PrintedOK
  <2>2. /\ request.ids \in Seq(Id) /\ request.out \in Seq(AvailStat \cup Values)
        /\ DOMAIN request.ids = 1..Len(request.ids) /\ Len(request.ids) \in Nat
    <3>1. request.ids \in Seq(Id) /\ request.out \in Seq(AvailStat \cup Values)
      BY <1>1 DEF RequestRecord
    <3> HIDE DEF request
    <3> QED
      BY <3>1
  <2>3. ASSUME NEW i \in 1..Len(request.ids)
        PROVE  /\ shown[i] \in [id : Id, isAvailable : BOOLEAN, isEnabled : BOOLEAN,
                                value : AvailStat \cup Values \cup {NoValue}]
               /\ shown[i].id = request.ids[i] /\ request.ids[i] \in Features
               /\ \E state \in seen[r][request.ids[i]] : Means(shown[i], state)
    <3>1. request.ids[i] \in Features /\ request.ids[i] \in Id
      <4>1. Feature[i] \in Features
        BY <2>1, FeatureAssumption
      <4> QED
        BY <2>1, <2>2, <4>1
    <3>2. PICK state \in seen[r][request.ids[i]] : request.out[i] = state.availstat
      BY <1>1 DEF PrintedOK
    <3>3. state \in FeatureState
      BY <3>1, <3>2 DEF ConfigInv, ConfigTypeOK
    <3>4. state.availstat \in AvailStat
      BY <3>3 DEF FeatureState
    <3>5. shown[i] = DeviceConfigDto(request.ids[i], ParseStatus(state.availstat), NoValue)
      BY <2>2, <3>2
    <3> HIDE DEF shown
    <3>6. NoValue \in AvailStat \cup Values \cup {NoValue}
      OBVIOUS
    <3>7. Means(shown[i], state)
      BY <3>3, <3>5, ParsedMeans
    <3> QED
      BY <3>1, <3>4, <3>5, <3>6, <3>7, ParsedType
  <2>4. DOMAIN shown = 1..Len(request.ids)
    BY <2>2
  <2>5. Continue(r, new)
    BY <1>3 DEF GetConfigurationStates
  <2>6. shown \in Seq([id : Id, isAvailable : BOOLEAN, isEnabled : BOOLEAN,
                       value : AvailStat \cup Values \cup {NoValue}])
    <3>1. shown = [i \in 1..Len(request.ids) |-> shown[i]]
      BY <2>2
    <3>2. Len(request.ids) \in Nat
      BY <2>2
    <3> DEFINE Dto == [id : Id, isAvailable : BOOLEAN, isEnabled : BOOLEAN,
                       value : AvailStat \cup Values \cup {NoValue}]
               n == Len(request.ids)
    <3>3. n \in Nat /\ \A i \in 1..n : shown[i] \in Dto
      BY <2>3, <3>2
    <3>4. shown = [i \in 1..n |-> shown[i]]
      BY <3>1
    <3> HIDE DEF shown, Dto, n
    <3>5. shown \in Seq(Dto)
      BY <3>3, <3>4
    <3> QED
      BY <3>5 DEF Dto
  <2>7. new.shown = shown /\ new.op = "all"
    BY <1>1, <2>1 DEF RequestRecord
  <2> HIDE DEF shown
  <2>8. shown # <<>>
    <3>1. DOMAIN request.ids # {}
      <4> DEFINE ids == request.ids
      <4>1. ids \in Seq(Id) /\ ids # <<>>
        BY <1>3, <2>2
      <4> HIDE DEF ids
      <4>2. 1 \in DOMAIN ids
        BY <4>1
      <4> QED
        BY <4>2 DEF ids
    <3>2. DOMAIN << >> = {}
      OBVIOUS
    <3> QED
      BY <2>2, <2>4, <3>1, <3>2, Zenon
  <2>9. ShownOK(new, seen[r])
    <3> HIDE DEF new, request
    <3>1. DOMAIN shown = DOMAIN Feature
      BY <2>1, <2>2, <2>4
    <3>2. \A i \in DOMAIN shown : shown[i].id = Feature[i]
      BY <2>1, <2>3, <2>4
    <3>3. \A i \in DOMAIN shown :
            shown[i].id \in Features /\ \E state \in seen[r][shown[i].id] : Means(shown[i], state)
      BY <2>3, <2>4
    <3> QED
      BY <2>7, <2>8, <3>1, <3>2, <3>3 DEF ShownOK
  <2> QED
    BY <1>1, <2>1, <2>5, <2>6, <2>9, AnswerIsOK
<1> QED
  BY <1>2, <1>3

LEMMA PrintsStatusOK ==
  ASSUME ConfigInv, NEW r \in Client, PrintsStatus(r)
  PROVE  ConfigInv'
<1> DEFINE id == config[r].ids[1]
           out == StatusOutput(features[id])
           new == [config[r] EXCEPT !.out = out]
<1>1. /\ config[r] \in RequestRecord /\ config[r].pc = "status" /\ PrintedOK(config[r], seen[r])
      /\ Serving(r) /\ id # Unknown
  BY RequestRecords DEF ConfigInv, RequestOK, PrintsStatus, Doing, Serving
<1>2. Continue(r, new)
  BY DEF PrintsStatus, StatusOutput
<1>3. id \in Features
  BY <1>1 DEF PrintedOK, Id
<1>4. features[id] \in FeatureState /\ features[id] \in seen[r][id]
  BY <1>1, <1>3 DEF ConfigInv, ConfigTypeOK
<1>5. out \in Seq(AvailStat \cup Values)
  <2> DEFINE state == features[id]
  <2>1. /\ state.availstat \in AvailStat
        /\ state.value # NoValue => state.value \in Values
    BY <1>4 DEF FeatureState
  <2> HIDE DEF state
  <2>2. CASE state.value = NoValue
    <3>1. out = <<state.availstat>>
      BY <2>2 DEF StatusOutput, state
    <3> QED
      BY <2>1, <3>1
  <2>3. CASE state.value # NoValue
    <3>1. out = <<state.value, state.availstat>>
      BY <2>3 DEF StatusOutput, state
    <3>2. state.value \in AvailStat \cup Values /\ state.availstat \in AvailStat \cup Values
      BY <2>1, <2>3
    <3> HIDE DEF out
    <3> QED
      BY <3>1, <3>2
  <2> QED
    BY <2>2, <2>3
<1> HIDE DEF out
<1>6. /\ new \in RequestRecord /\ new.pc = "status" /\ new.op = config[r].op
      /\ new.ids = config[r].ids /\ new.out = out
  BY <1>1, <1>5 DEF RequestRecord
<1> HIDE DEF new
<1>7. RequestOK(new, seen[r])
  BY <1>1, <1>4, <1>6 DEF RequestOK, PrintedOK, SwitchOK, AnsweredOK, out
<1> QED
  BY <1>1, <1>2, <1>6, <1>7, ContinueOK

LEMMA StatusIsOK ==
  ASSUME ConfigInv, NEW r \in Client, GetConfigurationStatus(r)
  PROVE  ConfigInv'
<1> DEFINE id == config[r].ids[1]
           out == config[r].out
           dto == IF Len(out) = 2 THEN DeviceConfigDto(id, ParseStatus(out[2]), out[1])
                  ELSE DeviceConfigDto(id, ParseStatus(out[1]), NoValue)
           shown == <<dto>>
           new == [config[r] EXCEPT !.pc = "ok", !.shown = shown]
<1>1. /\ config[r] \in RequestRecord /\ config[r].pc = "status" /\ PrintedOK(config[r], seen[r])
      /\ Serving(r)
  BY RequestRecords DEF ConfigInv, RequestOK, GetConfigurationStatus, Doing, Serving
<1>2. CASE id = Unknown
  BY <1>1, <1>2, FailOK DEF GetConfigurationStatus
<1>3. CASE id # Unknown
  <2>1. out # <<>> /\ Continue(r, new)
    BY <1>3 DEF GetConfigurationStatus
  <2>2. id \in Features /\ id \in Id /\ config[r].op = "one"
    BY <1>1, <1>3 DEF PrintedOK, Id
  <2>3. PICK state \in seen[r][id] : out = StatusOutput(state)
    BY <1>1, <1>3, <2>1 DEF PrintedOK
  <2>4. state \in FeatureState
    BY <2>2, <2>3 DEF ConfigInv, ConfigTypeOK
  <2>5. /\ state.availstat \in AvailStat
        /\ state.value \in AvailStat \cup Values \cup {NoValue}
    BY <2>4 DEF FeatureState
  <2>6. dto = DeviceConfigDto(id, ParseStatus(state.availstat), state.value)
    <3>1. CASE state.value = NoValue
      <4>1. out = <<state.availstat>>
        BY <2>3, <3>1 DEF StatusOutput
      <4>2. Len(out) = 1 /\ out[1] = state.availstat
        BY <4>1
      <4> HIDE DEF out, id
      <4> QED
        BY <3>1, <4>2
    <3>2. CASE state.value # NoValue
      <4>1. out = <<state.value, state.availstat>>
        BY <2>3, <3>2 DEF StatusOutput
      <4>2. Len(out) = 2 /\ out[1] = state.value /\ out[2] = state.availstat
        BY <4>1
      <4> HIDE DEF out, id
      <4> QED
        BY <4>2
    <3> QED
      BY <3>1, <3>2
  <2> HIDE DEF dto, out, id
  <2>7. /\ dto \in [id : Id, isAvailable : BOOLEAN, isEnabled : BOOLEAN,
                    value : AvailStat \cup Values \cup {NoValue}]
        /\ dto.id = id /\ dto.value = state.value /\ Means(dto, state)
    BY <2>2, <2>4, <2>5, <2>6, ParsedType, ParsedMeans
  <2>8. /\ shown \in Seq([id : Id, isAvailable : BOOLEAN, isEnabled : BOOLEAN,
                          value : AvailStat \cup Values \cup {NoValue}])
        /\ shown # <<>> /\ DOMAIN shown = {1} /\ shown[1] = dto
    BY <2>7
  <2>9. new.shown = shown /\ new.op = "one"
    BY <1>1, <2>2 DEF RequestRecord
  <2> HIDE DEF shown
  <2>10. ShownOK(new, seen[r])
    <3> HIDE DEF new
    <3> QED
      BY <2>2, <2>3, <2>7, <2>8, <2>9 DEF ShownOK
  <2> QED
    BY <1>1, <2>1, <2>2, <2>8, <2>10, AnswerIsOK
<1> QED
  BY <1>2, <1>3

LEMMA ExecuteSetOK ==
  ASSUME ConfigInv, NEW r \in Client, ExecuteSet(r)
  PROVE  ConfigInv'
<1>1. CASE Continue(r, [config[r] EXCEPT !.pc = "bad request"]) /\ Serving(r)
  BY <1>1, FailOK
<1>2. CASE Doing(r, "switched") /\ Continue(r, [config[r] EXCEPT !.pc = "ok"])
  <2> DEFINE new == [config[r] EXCEPT !.pc = "ok"]
  <2>1. /\ config[r] \in RequestRecord /\ SwitchOK(config[r], seen[r]) /\ Serving(r)
        /\ config[r].pc = "switched"
    BY <1>2, RequestRecords DEF ConfigInv, RequestOK, Doing, Serving
  <2>2. /\ new \in RequestRecord /\ new.pc = "ok" /\ new.op = config[r].op
        /\ new.ids = config[r].ids /\ new.on = config[r].on /\ new.value = config[r].value
    BY <2>1 DEF RequestRecord
  <2> HIDE DEF new
  <2>3. RequestOK(new, seen[r])
    BY <2>1, <2>2 DEF RequestOK, PrintedOK, SwitchOK, AnsweredOK, TookEffect
  <2> QED
    BY <1>2, <2>1, <2>2, <2>3, ContinueOK DEF new
<1> QED
  BY <1>1, <1>2 DEF ExecuteSet, Serving, Doing

\* What was right of an answer stays so: the states that were seen only become more.
LEMMA StillOK ==
  ASSUME NEW request, NEW saw, NEW more, RequestOK(request, saw),
         \A id \in Features : saw[id] \subseteq more[id]
  PROVE  RequestOK(request, more)
<1>1. PrintedOK(request, more)
  <2>1. request.pc = "status" /\ request.ids[1] # Unknown => request.ids[1] \in Features
    BY DEF RequestOK, PrintedOK, Id
  <2> QED
    BY <2>1 DEF RequestOK, PrintedOK
<1>2. TookEffect(request, saw) => TookEffect(request, more)
  BY DEF TookEffect
<1>3. ShownOK(request, saw) => ShownOK(request, more)
  BY DEF ShownOK
<1> QED
  BY <1>1, <1>2, <1>3 DEF RequestOK, SwitchOK, AnsweredOK

LEMMA SwitchedIsAsAsked ==
  ASSUME NEW r, NEW state \in FeatureState, config[r].on \in BOOLEAN,
         config[r].value \in Values \cup {NoValue}
  PROVE  /\ Switched(r, state) \in FeatureState
         /\ \/ Switched(r, state).availstat = 2
            \/ /\ Switched(r, state).availstat = IF config[r].on THEN 1 ELSE 0
               /\ config[r].on => config[r].value \in {Switched(r, state).value, NoValue}
<1> DEFINE new == Switched(r, state)
<1>1. /\ state.availstat \in AvailStat /\ state.value \in Values \cup {NoValue}
      /\ 0 \in AvailStat /\ 1 \in AvailStat
  BY DEF FeatureState, AvailStat
<1>2. CASE state.availstat = 2
  BY <1>2 DEF Switched
<1>3. CASE state.availstat # 2 /\ ~config[r].on
  <2>1. new = [state EXCEPT !.availstat = 0]
    BY <1>3 DEF Switched
  <2>2. new \in FeatureState /\ new.availstat = 0
    BY <1>1, <2>1 DEF FeatureState
  <2> QED
    BY <1>3, <2>2
<1>4. CASE state.availstat # 2 /\ config[r].on
  <2> DEFINE value == IF config[r].value = NoValue THEN state.value ELSE config[r].value
  <2>1. new = [state EXCEPT !.availstat = 1, !.value = value]
    BY <1>4 DEF Switched
  <2>2. value \in Values \cup {NoValue} /\ config[r].value \in {value, NoValue}
    BY <1>1
  <2> HIDE DEF value
  <2>3. new \in FeatureState /\ new.availstat = 1 /\ new.value = value
    BY <1>1, <2>1, <2>2 DEF FeatureState
  <2> QED
    BY <1>4, <2>2, <2>3
<1> QED
  BY <1>2, <1>3, <1>4

\* A switch takes effect, and every request that is served sees it.
LEMMA SwitchesOK ==
  ASSUME ConfigInv, NEW r \in Client, Switches(r)
  PROVE  ConfigInv'
<1> DEFINE id == config[r].ids[1]
           new == Switched(r, features[id])
           done == [config[r] EXCEPT !.pc = "switched"]
           More(q) == IF Serving(q) THEN [seen[q] EXCEPT ![id] = @ \cup {new}] ELSE seen[q]
<1>1. /\ config[r] \in RequestRecord /\ config[r].pc = "set" /\ SwitchOK(config[r], seen[r])
      /\ Serving(r) /\ id # Unknown
  BY RequestRecords DEF ConfigInv, RequestOK, Switches, Doing, Serving
<1>2. id \in Features
  BY <1>1 DEF SwitchOK, Id
<1>3. /\ features' = [features EXCEPT ![id] = new] /\ config' = [config EXCEPT ![r] = done]
      /\ seen' = [q \in Client |-> More(q)] /\ lists' = lists
  BY RequestRecords DEF Switches, ConfigInv
<1>4. features[id] \in FeatureState /\ config[r].on \in BOOLEAN
      /\ config[r].value \in Values \cup {NoValue}
  BY <1>1, <1>2 DEF ConfigInv, ConfigTypeOK, RequestRecord
<1> HIDE DEF id
<1>5. /\ new \in FeatureState
      /\ \/ new.availstat = 2
         \/ /\ new.availstat = IF config[r].on THEN 1 ELSE 0
            /\ config[r].on => config[r].value \in {new.value, NoValue}
  BY <1>4, SwitchedIsAsAsked
<1>6. ~config[r].on => config[r].value = NoValue
  BY <1>1 DEF SwitchOK
<1> HIDE DEF new
<1>7. done \in RequestRecord /\ done.pc = "switched" /\ done.op = "set"
      /\ done.ids = config[r].ids /\ done.on = config[r].on /\ done.value = config[r].value
  BY <1>1 DEF RequestRecord, SwitchOK
<1> HIDE DEF done
<1>8. ASSUME NEW q \in Client
      PROVE  /\ More(q) \in [Features -> SUBSET FeatureState]
             /\ \A x \in Features : seen[q][x] \subseteq More(q)[x]
             /\ Serving(q) => new \in More(q)[id]
  <2> DEFINE grown == [seen[q] EXCEPT ![id] = @ \cup {new}]
  <2>1. seen[q] \in [Features -> SUBSET FeatureState]
    BY DEF ConfigInv, ConfigTypeOK
  <2>2. \A x \in Features : grown[x] = IF x = id THEN seen[q][x] \cup {new} ELSE seen[q][x]
    BY <2>1
  <2>3. grown \in [Features -> SUBSET FeatureState]
    BY <1>2, <1>5, <2>1
  <2>4. More(q) = IF Serving(q) THEN grown ELSE seen[q]
    OBVIOUS
  <2> HIDE DEF grown, More
  <2> QED
    BY <1>2, <2>1, <2>2, <2>3, <2>4
<1> HIDE DEF More
<1>9. ConfigTypeOK'
  <2>1. config' \in [Client -> RequestRecord] /\ features' \in [Features -> FeatureState]
        /\ seen' \in [Client -> [Features -> SUBSET FeatureState]]
    BY <1>3, <1>5, <1>7, <1>8, RequestRecords DEF ConfigInv, ConfigTypeOK
  <2> QED
    BY <1>3, <2>1 DEF ConfigInv, ConfigTypeOK, RequestRecord
<1>10. ASSUME NEW q \in Client PROVE RequestOK(config[q], seen[q])'
  <2>1. RequestOK(config[q], seen[q])
    BY DEF ConfigInv
  <2>2. seen'[q] = More(q)
    BY <1>3
  <2>3. CASE q # r
    <3>1. config'[q] = config[q]
      BY <1>3, <2>3, RequestRecords DEF ConfigInv
    <3> QED
      BY <1>8, <2>1, <2>2, <3>1, StillOK
  <2>4. CASE q = r
    <3>1. config'[r] = done
      BY <1>3, RequestRecords DEF ConfigInv
    <3>2. new \in More(r)[id] /\ done.ids[1] = id
      BY <1>1, <1>7, <1>8 DEF id
    <3>3. TookEffect(done, More(r))
      BY <1>2, <1>5, <1>6, <1>7, <3>2 DEF TookEffect
    <3>4. SwitchOK(done, More(r))
      BY <1>1, <1>7, <3>3 DEF SwitchOK
    <3>5. RequestOK(done, More(r))
      BY <1>7, <3>4 DEF RequestOK, PrintedOK, AnsweredOK
    <3> QED
      BY <2>2, <2>4, <3>1, <3>5
  <2> QED
    BY <2>3, <2>4
<1>11. ASSUME NEW q \in Client, Serving(q)', NEW x \in Features
       PROVE  features'[x] \in seen'[q][x]
  <2>1. Serving(q)
    BY <1>1, <1>3, <1>11 DEF Serving, ConfigInv, ConfigTypeOK
  <2>2. features[x] \in seen[q][x]
    BY <2>1 DEF ConfigInv
  <2>3. features'[x] = IF x = id THEN new ELSE features[x]
    BY <1>3 DEF ConfigInv, ConfigTypeOK
  <2> QED
    BY <1>3, <1>8, <2>1, <2>2, <2>3
<1> QED
  BY <1>9, <1>10, <1>11 DEF ConfigInv

LEMMA ConfigInitOK == Init => ConfigInv
<1> SUFFICES ASSUME Init PROVE ConfigInv
  OBVIOUS
<1>1. ConfigInit
  BY DEF Init
<1>2. NoConfig \in RequestRecord /\ NoConfig.pc = "idle"
  BY DEF NoConfig, RequestRecord
<1>3. ConfigTypeOK
  BY <1>1, <1>2 DEF ConfigInit, ConfigTypeOK, RequestRecord
<1>4. \A r \in Client : config[r].pc = "idle"
  BY <1>1, <1>2 DEF ConfigInit
<1> QED
  BY <1>3, <1>4 DEF ConfigInv, RequestOK, PrintedOK, SwitchOK, AnsweredOK, Serving

LEMMA ConfigNextOK == ConfigInv /\ [Next]_vars => ConfigInv'
<1> SUFFICES ASSUME ConfigInv, [Next]_vars PROVE ConfigInv'
  OBVIOUS
<1>1. ConfigNext \/ UNCHANGED configVars
  BY DEF Next, Only, vars
<1>2. CASE UNCHANGED configVars
  <2>1. UNCHANGED <<features, lists, config, seen>>
    BY <1>2 DEF configVars
  <2>2. ConfigTypeOK'
    BY <2>1 DEF ConfigInv, ConfigTypeOK
  <2> QED
    BY <2>1, <2>2 DEF ConfigInv, Serving
<1>3. ASSUME NEW r \in Client, GetAllConfigurations(r) PROVE ConfigInv'
  <2> DEFINE ids == <<>>
             op == "all"
             pc == "usage"
             on == FALSE
             value == NoValue
  <2>1. /\ ids \in Seq(Id) /\ on \in BOOLEAN /\ value \in Values \cup {NoValue}
        /\ (~on => value = NoValue)
    OBVIOUS
  <2>2. /\ \/ op = "all" /\ pc = "usage"
           \/ op = "one" /\ pc = "status"
           \/ op = "set" /\ pc = "set"
        /\ (op # "all" => \E x \in Id : ids = <<x>>)
    OBVIOUS
  <2>3. Request(r, op, pc, ids, on, value)
    BY <1>3 DEF GetAllConfigurations
  <2> HIDE DEF op, pc, ids, on, value
  <2> QED
    BY <2>1, <2>2, <2>3, RequestIsOK
<1>4. ASSUME NEW r \in Client, NEW id \in Id, GetConfiguration(r, id) PROVE ConfigInv'
  <2> DEFINE ids == <<id>>
             op == "one"
             pc == "status"
             on == FALSE
             value == NoValue
  <2>1. /\ ids \in Seq(Id) /\ on \in BOOLEAN /\ value \in Values \cup {NoValue}
        /\ (~on => value = NoValue)
    OBVIOUS
  <2>2. /\ \/ op = "all" /\ pc = "usage"
           \/ op = "one" /\ pc = "status"
           \/ op = "set" /\ pc = "set"
        /\ (op # "all" => \E x \in Id : ids = <<x>>)
    OBVIOUS
  <2>3. Request(r, op, pc, ids, on, value)
    BY <1>4 DEF GetConfiguration
  <2> HIDE DEF op, pc, ids, on, value
  <2> QED
    BY <2>1, <2>2, <2>3, RequestIsOK
<1>5. ASSUME NEW r \in Client, NEW id \in Id, NEW on \in BOOLEAN,
             NEW value \in Values \cup {NoValue}, SetConfiguration(r, id, on, value)
      PROVE  ConfigInv'
  <2> DEFINE given == IF on THEN value ELSE NoValue
  <2>1. /\ <<id>> \in Seq(Id) /\ given \in Values \cup {NoValue}
        /\ ~on => given = NoValue
    OBVIOUS
  <2>2. Request(r, "set", "set", <<id>>, on, given)
    BY <1>5 DEF SetConfiguration
  <2> HIDE DEF given
  <2> QED
    BY <2>1, <2>2, RequestIsOK
<1>6. ASSUME NEW r \in Client, ConfigFails(r) PROVE ConfigInv'
  BY <1>6, FailOK DEF ConfigFails
<1>7. ASSUME NEW r \in Client, ConfigStep(r) PROVE ConfigInv'
  BY <1>6, <1>7, SupportedOK, PrintsAvailstatOK, StatesOK, PrintsStatusOK, StatusIsOK,
     SwitchesOK, ExecuteSetOK DEF ConfigStep
<1> QED
  BY <1>1, <1>2, <1>3, <1>4, <1>5, <1>7 DEF ConfigNext

\* Every answer shows each feature, under its own id, as it was at some moment of the
\* request, and a list shows all of them: for any features, values and requests, however
\* many switch the features while the runs of an answer look at them.
\* (DeviceConfigService, RpiConfigCommandService)
THEOREM FeaturesAreShownAsTheyWere == Spec => []ShownAsItWas
<1>1. ConfigInv => ShownAsItWas
  <2> SUFFICES ASSUME ConfigInv, NEW r \in Client, config[r].pc = "ok", config[r].op # "set"
               PROVE  /\ ShownOK(config[r], seen[r])
    BY DEF ShownAsItWas, ShownOK, Doing
  <2> QED
    BY DEF ConfigInv, RequestOK, AnsweredOK
<1> QED
  BY <1>1, ConfigInitOK, ConfigNextOK, PTL DEF Spec

\* An enable or disable that is answered took effect while it was served, with its value,
\* unless the feature is not available: for any features, values and requests that switch
\* the same ones.  (setConfiguration, enable, disable, executeCommand)
THEOREM AnsweredSwitchesTookEffect == Spec => []SetTookEffect
<1>1. ConfigInv => SetTookEffect
  BY DEF ConfigInv, RequestOK, AnsweredOK, TookEffect, SetTookEffect, Doing
<1> QED
  BY <1>1, ConfigInitOK, ConfigNextOK, PTL DEF Spec

(***************************************************************************)
(* Network devices.  A device that is read is one the request has seen,    *)
(* and each path of it leads, for the whole request, to objects it has     *)
(* seen: what is read at the path is one of them, or the object is gone.   *)
(***************************************************************************)
State == DeviceProperties \cup {Gone}

ReadRecord == [device : State, contents : [Field -> Nat \cup {Null}]]

ListingRecord ==
  [pc : {"idle", "paths", "devices", "ok", "failed"}, paths : SUBSET Path,
   next : [Path -> 0..ReadDone], callFailed : BOOLEAN, shown : [Path -> ReadRecord]]

\* What is shown of a field is what there was at the path of the device.
Coherent(d, f, dev, contents, saw) ==
  IF dev.at[f] = Null THEN contents = Null
  ELSE [of |-> d, field |-> f, at |-> dev.at[f], contents |-> contents] \in saw.objects

LeadsTo(d, f, path, o) == o.of = d /\ o.field = f /\ o.at = path

\* What was read of a device, when n is what is read next.
ReadOK(n, shown, saw, d) ==
  /\ n = 0 => shown = NotRead
  /\ shown.device = Gone => n \in {0, ReadDone}
  /\ shown.device = Gone /\ n = ReadDone =>
       \E old \in saw.devices[d] : old # Gone /\ ~Matches(old)
  /\ shown.device # Gone =>
       /\ shown.device \in saw.devices[d] /\ Matches(shown.device)
       /\ \A f \in Field : shown.device.at[f] # Null =>
            \E o \in saw.objects : LeadsTo(d, f, shown.device.at[f], o)
       /\ \A i \in DOMAIN ChildObjects : i < n =>
            Coherent(d, ChildObjects[i], shown.device, shown.contents[ChildObjects[i]], saw)

Lost(request, saw) ==
  \/ request.callFailed
  \/ \E d \in request.paths : Gone \in saw.devices[d]
  \/ \E o \in saw.objects : ObjectsAt(o.of, o.field, o.at) = {}

Sees(saw) == objects \subseteq saw.objects /\ \A d \in Path : manager[d] \in saw.devices[d]

ListingOK(request, saw) ==
  /\ \A d \in Path : ReadOK(request.next[d], request.shown[d], saw, d)
  /\ request.pc = "idle" => \A d \in Path : request.next[d] = 0
  /\ request.pc = "ok" => \A d \in request.paths : request.next[d] = ReadDone
  /\ request.pc = "failed" => Lost(request, saw)
  /\ request.pc \in {"paths", "devices"} => Sees(saw)
  /\ \A o \in saw.objects : o.at <= changes

\* Every path a device has leads to an object, and new paths are new.
LinksOK ==
  /\ \A o \in objects : o.at <= changes
  /\ \A d \in Path, f \in Field : manager[d].at[f] # Null =>
       \E o \in objects : LeadsTo(d, f, manager[d].at[f], o)

ListInv ==
  /\ ListTypeOK
  /\ LinksOK
  /\ \A r \in Lister : ListingOK(listing[r], was[r])

LEMMA GoneIsNone ==
  /\ Gone \notin DeviceProperties /\ ~Matches(Gone) /\ Gone.type = "none"
  /\ \A f \in Field : Gone.at[f] = Null
<1>1. Gone.type = "none" /\ \A f \in Field : Gone.at[f] = Null
  BY DEF Gone, NoPaths
<1>2. \A dev \in DeviceProperties : dev.type \in Types
  BY DEF DeviceProperties
<1> QED
  BY <1>1, <1>2, TypesAssumption DEF DeviceType, Matches

LEMMA ReadOrder ==
  /\ LastRead = 7 /\ ReadDone = 8
  /\ \A i \in DOMAIN ChildObjects : i \in 1..6 /\ ChildObjects[i] \in Field
  /\ \A f \in Field : \E i \in DOMAIN ChildObjects : f = ChildObjects[i]
<1>1. LastRead = 7 /\ ReadDone = 8
  BY DEF LastRead, ReadDone, ChildObjects
<1>2. \A i \in DOMAIN ChildObjects : i \in 1..6
  BY DEF ChildObjects
<1> QED
  BY <1>1, <1>2 DEF Field

LEMMA ListingTypes ==
  ListTypeOK =>
    /\ listing \in [Lister -> ListingRecord]
    /\ manager \in [Path -> State] /\ changes \in Nat /\ objects \subseteq NetworkObject
    /\ \A r \in Lister : /\ was[r].devices \in [Path -> SUBSET State]
                         /\ was[r].objects \subseteq NetworkObject
<1> SUFFICES ASSUME ListTypeOK, NEW r \in Lister
             PROVE  was[r].devices \in [Path -> SUBSET State] /\ was[r].objects \subseteq NetworkObject
  BY DEF ListTypeOK, ListingRecord, ReadRecord, State
<1>1. was[r] \in [devices : [Path -> SUBSET State], objects : SUBSET NetworkObject]
  BY DEF ListTypeOK, State
<1> QED
  BY <1>1

\* A step of a request while NetworkManager does nothing.
LEMMA ListingStepOK ==
  ASSUME ListInv, NEW r \in Lister, NEW new \in ListingRecord, ListingOK(new, was[r]),
         Listing(r, new)
  PROVE  ListInv'
<1>1. listing' = [listing EXCEPT ![r] = new] /\ UNCHANGED <<manager, objects, changes, was>>
  BY DEF Listing
<1>2. listing \in [Lister -> ListingRecord]
  BY ListingTypes DEF ListInv
<1>3. listing' \in [Lister -> ListingRecord]
        /\ \A q \in Lister : listing'[q] = IF q = r THEN new ELSE listing[q]
  BY <1>1, <1>2
<1>4. ListTypeOK'
  BY <1>1, <1>3 DEF ListInv, ListTypeOK, ListingRecord, ReadRecord, State
<1>5. LinksOK'
  BY <1>1 DEF ListInv, LinksOK
<1>6. ASSUME NEW q \in Lister PROVE ListingOK(listing[q], was[q])'
  <2>1. ListingOK(listing'[q], was[q])
    BY <1>3 DEF ListInv
  <2> DEFINE request == listing'[q]
  <2>2. ListingOK(request, was[q]) /\ was'[q] = was[q]
    BY <1>1, <2>1
  <2> QED
    BY <1>1, <2>2 DEF ListingOK, Lost, Sees, ObjectsAt
<1> QED
  BY <1>4, <1>5, <1>6 DEF ListInv

\* The device d goes on, and nothing else of the request.
LEMMA DeviceReadOK ==
  ASSUME ListInv, NEW r \in Lister, NEW d \in Path, listing[r].pc = "devices",
         NEW n \in 1..ReadDone, NEW shown \in ReadRecord, ReadOK(n, shown, was[r], d),
         Listing(r, [listing[r] EXCEPT !.next = [@ EXCEPT ![d] = n],
                                       !.shown = [@ EXCEPT ![d] = shown]])
  PROVE  ListInv'
<1> DEFINE request == listing[r]
           new == [request EXCEPT !.next = [@ EXCEPT ![d] = n],
                                  !.shown = [@ EXCEPT ![d] = shown]]
<1>1. request \in ListingRecord /\ ListingOK(request, was[r])
  BY ListingTypes DEF ListInv
<1>2. /\ new.pc = "devices" /\ new.paths = request.paths /\ new.callFailed = request.callFailed
      /\ new.next = [request.next EXCEPT ![d] = n]
      /\ new.shown = [request.shown EXCEPT ![d] = shown]
      /\ new \in ListingRecord
  <2>1. n \in 0..ReadDone
    BY ReadOrder
  <2>2. /\ [request.next EXCEPT ![d] = n] \in [Path -> 0..ReadDone]
        /\ [request.shown EXCEPT ![d] = shown] \in [Path -> ReadRecord]
    BY <1>1, <2>1 DEF ListingRecord
  <2> QED
    BY <1>1, <2>2 DEF ListingRecord
<1>3. request.next \in [Path -> 0..ReadDone] /\ request.shown \in [Path -> ReadRecord]
  BY <1>1 DEF ListingRecord
<1>4. \A e \in Path : /\ new.next[e] = IF e = d THEN n ELSE request.next[e]
                      /\ new.shown[e] = IF e = d THEN shown ELSE request.shown[e]
  BY <1>2, <1>3
<1>5. Listing(r, new)
  OBVIOUS
<1> HIDE DEF new
<1>6. \A e \in Path : ReadOK(new.next[e], new.shown[e], was[r], e)
  BY <1>1, <1>4 DEF ListingOK
<1>7. ListingOK(new, was[r])
  BY <1>1, <1>2, <1>6 DEF ListingOK
<1> QED
  BY <1>2, <1>5, <1>7, ListingStepOK

LEMMA ListFailsOK ==
  ASSUME ListInv, NEW r \in Lister, listing[r].pc = "devices", ListFails(r),
         Lost(listing[r], was[r])
  PROVE  ListInv'
<1> DEFINE request == listing[r]
           new == [request EXCEPT !.pc = "failed"]
<1>1. request \in ListingRecord /\ ListingOK(request, was[r])
  BY ListingTypes DEF ListInv
<1>2. /\ new.pc = "failed" /\ new.paths = request.paths /\ new.next = request.next
      /\ new.shown = request.shown /\ new.callFailed = request.callFailed
      /\ new \in ListingRecord
  BY <1>1 DEF ListingRecord
<1>3. Listing(r, new)
  BY DEF ListFails
<1> HIDE DEF new
<1>4. ListingOK(new, was[r])
  BY <1>1, <1>2 DEF ListingOK, Lost
<1> QED
  BY <1>2, <1>3, <1>4, ListingStepOK

LEMMA CallFailsOK ==
  ASSUME ListInv, NEW r \in Lister, CallFails(r)
  PROVE  ListInv'
<1> DEFINE request == listing[r]
           new == [request EXCEPT !.pc = "failed", !.callFailed = TRUE]
<1>1. request \in ListingRecord /\ ListingOK(request, was[r])
  BY ListingTypes DEF ListInv
<1>2. /\ new.pc = "failed" /\ new.paths = request.paths /\ new.next = request.next
      /\ new.shown = request.shown /\ new.callFailed = TRUE /\ new \in ListingRecord
  BY <1>1 DEF ListingRecord
<1>3. Listing(r, new)
  BY DEF CallFails
<1> HIDE DEF new
<1>4. ListingOK(new, was[r])
  BY <1>1, <1>2 DEF ListingOK, Lost
<1> QED
  BY <1>2, <1>3, <1>4, ListingStepOK

LEMMA PathsAndAnswerOK ==
  ASSUME ListInv, NEW r \in Lister, GetAllDevicePaths(r) \/ AnswerList(r)
  PROVE  ListInv'
<1> DEFINE request == listing[r]
<1>1. request \in ListingRecord /\ ListingOK(request, was[r])
  BY ListingTypes DEF ListInv
<1>2. CASE GetAllDevicePaths(r)
  <2> DEFINE paths == {d \in Path : There(d)}
             new == [request EXCEPT !.pc = "devices", !.paths = paths]
  <2>1. request.pc = "paths" /\ Listing(r, new)
    BY <1>2 DEF GetAllDevicePaths
  <2>2. paths \in SUBSET Path
    OBVIOUS
  <2> HIDE DEF paths
  <2>3. /\ new.pc = "devices" /\ new.next = request.next /\ new.shown = request.shown
        /\ new \in ListingRecord
    BY <1>1, <2>2 DEF ListingRecord
  <2> HIDE DEF new
  <2>4. ListingOK(new, was[r])
    BY <1>1, <2>1, <2>3 DEF ListingOK
  <2> QED
    BY <2>1, <2>3, <2>4, ListingStepOK
<1>3. CASE AnswerList(r)
  <2> DEFINE new == [request EXCEPT !.pc = "ok"]
  <2>1. /\ Listing(r, new) /\ \A d \in request.paths : request.next[d] = ReadDone
    BY <1>3 DEF AnswerList
  <2>2. /\ new.pc = "ok" /\ new.next = request.next /\ new.shown = request.shown
        /\ new.paths = request.paths /\ new \in ListingRecord
    BY <1>1 DEF ListingRecord
  <2> HIDE DEF new
  <2>3. ListingOK(new, was[r])
    BY <1>1, <2>1, <2>2 DEF ListingOK
  <2> QED
    BY <2>1, <2>2, <2>3, ListingStepOK
<1> QED
  BY <1>2, <1>3

LEMMA GetAllDevicesOK ==
  ASSUME ListInv, NEW r \in Lister, GetAllDevices(r)
  PROVE  ListInv'
<1> DEFINE request == listing[r]
           new == [request EXCEPT !.pc = "paths"]
           saw == [devices |-> [d \in Path |-> {manager[d]}], objects |-> objects]
<1>1. request \in ListingRecord /\ ListingOK(request, was[r]) /\ request.pc = "idle"
  BY ListingTypes DEF ListInv, GetAllDevices
<1>2. /\ listing' = [listing EXCEPT ![r] = new] /\ was' = [was EXCEPT ![r] = saw]
      /\ UNCHANGED <<manager, objects, changes>>
  BY ListingTypes DEF GetAllDevices, ListInv
<1>3. /\ new.pc = "paths" /\ new.next = request.next /\ new.shown = request.shown
      /\ new \in ListingRecord
  BY <1>1 DEF ListingRecord
<1>4. /\ saw.objects = objects /\ \A d \in Path : saw.devices[d] = {manager[d]}
      /\ saw \in [devices : [Path -> SUBSET State], objects : SUBSET NetworkObject]
  BY ListingTypes DEF ListInv
<1> HIDE DEF new, saw
<1>5. ListingOK(new, saw)
  <2>1. \A d \in Path : ReadOK(new.next[d], new.shown[d], saw, d)
    <3>1. \A d \in Path : new.next[d] = 0 /\ new.shown[d] = NotRead
      BY <1>1, <1>3 DEF ListingOK, ReadOK
    <3>2. NotRead.device = Gone /\ 0 # ReadDone
      BY ReadOrder DEF NotRead
    <3> QED
      BY <3>1, <3>2 DEF ReadOK
  <2>2. Sees(saw)
    BY <1>4 DEF Sees
  <2> QED
    BY <1>3, <1>4, <2>1, <2>2 DEF ListingOK, ListInv, LinksOK
<1>6. ListTypeOK'
  <2>1. listing' \in [Lister -> ListingRecord]
    BY <1>2, <1>3, ListingTypes DEF ListInv
  <2>2. was' \in [Lister -> [devices : [Path -> SUBSET State], objects : SUBSET NetworkObject]]
    BY <1>2, <1>4 DEF ListInv, ListTypeOK, State
  <2> QED
    BY <1>2, <2>1, <2>2 DEF ListInv, ListTypeOK, ListingRecord, ReadRecord, State
<1>7. LinksOK'
  BY <1>2 DEF ListInv, LinksOK
<1>8. ASSUME NEW q \in Lister PROVE ListingOK(listing[q], was[q])'
  <2> DEFINE after == listing'[q]
             seenBy == was'[q]
  <2>1. ListingOK(after, seenBy)
    <3>1. /\ after = IF q = r THEN new ELSE listing[q]
          /\ seenBy = IF q = r THEN saw ELSE was[q]
      BY <1>2, ListingTypes DEF ListInv, ListTypeOK
    <3> QED
      BY <1>5, <3>1 DEF ListInv
  <2> QED
    BY <1>2, <2>1 DEF ListingOK, Lost, Sees, ObjectsAt
<1> QED
  BY <1>6, <1>7, <1>8 DEF ListInv

LEMMA GetDeviceOK ==
  ASSUME ListInv, NEW r \in Lister, NEW d \in Path, GetDevice(r, d)
  PROVE  ListInv'
<1> DEFINE request == listing[r]
<1>1. request \in ListingRecord /\ ListingOK(request, was[r])
  BY ListingTypes DEF ListInv
<1>2. /\ request.pc = "devices" /\ d \in request.paths /\ request.next[d] = 0
      /\ request.shown[d] = NotRead
  BY <1>1 DEF GetDevice, Reads, ListingOK, ReadOK
<1>3. manager[d] \in State /\ manager[d] \in was[r].devices[d]
  BY <1>1, <1>2, ListingTypes DEF ListInv, ListingOK, Sees
<1>4. NotRead \in ReadRecord /\ NotRead.device = Gone /\ NotRead.contents = NoPaths
  BY DEF NotRead, ReadRecord, State, NoPaths
<1>5. CASE ~There(d)
  <2>1. Lost(request, was[r])
    BY <1>2, <1>3, <1>5 DEF Lost, There
  <2> QED
    BY <1>2, <1>5, <2>1, ListFailsOK DEF GetDevice
<1>6. CASE There(d) /\ ~Matches(manager[d])
  <2>1. ReadDone \in 1..ReadDone /\ ReadDone # 0
    BY ReadOrder
  <2>2. ReadOK(ReadDone, NotRead, was[r], d)
    BY <1>3, <1>4, <1>6, <2>1 DEF ReadOK, There
  <2>3. Listing(r, [request EXCEPT !.next = [@ EXCEPT ![d] = ReadDone],
                                   !.shown = [@ EXCEPT ![d] = NotRead]])
    <3>1. Listing(r, [request EXCEPT !.next[d] = ReadDone])
      BY <1>6 DEF GetDevice
    <3>2. [request EXCEPT !.next[d] = ReadDone]
            = [request EXCEPT !.next = [@ EXCEPT ![d] = ReadDone],
                              !.shown = [@ EXCEPT ![d] = NotRead]]
      BY <1>1, <1>2 DEF ListingRecord
    <3> QED
      BY <3>1, <3>2
  <2> QED
    BY <1>2, <1>4, <2>1, <2>2, <2>3, DeviceReadOK
<1>7. CASE There(d) /\ Matches(manager[d])
  <2> DEFINE shown == [NotRead EXCEPT !.device = manager[d]]
  <2>1. 1 \in 1..ReadDone /\ 1 # ReadDone
    BY ReadOrder
  <2>2. shown \in ReadRecord /\ shown.device = manager[d]
    BY <1>3, <1>4 DEF ReadRecord
  <2>3. Listing(r, [request EXCEPT !.next = [@ EXCEPT ![d] = 1],
                                   !.shown = [@ EXCEPT ![d] = shown]])
    <3>1. Listing(r, [request EXCEPT !.next[d] = 1, !.shown[d].device = manager[d]])
      BY <1>7 DEF GetDevice
    <3>2. [request EXCEPT !.next[d] = 1, !.shown[d].device = manager[d]]
            = [request EXCEPT !.next = [@ EXCEPT ![d] = 1],
                              !.shown = [@ EXCEPT ![d] = shown]]
      BY <1>1, <1>2 DEF ListingRecord
    <3> QED
      BY <3>1, <3>2
  <2> HIDE DEF shown
  <2>4. ReadOK(1, shown, was[r], d)
    <3>1. \A f \in Field : manager[d].at[f] # Null =>
            \E o \in was[r].objects : LeadsTo(d, f, manager[d].at[f], o)
      BY <1>1, <1>2 DEF ListInv, LinksOK, ListingOK, Sees
    <3>2. \A i \in DOMAIN ChildObjects : ~(i < 1)
      BY ReadOrder
    <3>3. manager[d] # Gone /\ 1 # 0
      BY <1>7 DEF There
    <3> QED
      BY <1>3, <1>7, <2>2, <3>1, <3>2, <3>3 DEF ReadOK
  <2> QED
    BY <1>2, <2>1, <2>2, <2>3, <2>4, DeviceReadOK
<1> QED
  BY <1>5, <1>6, <1>7

\* What is read of a field is right of the device, whatever was read before.
LEMMA ResolvedOK ==
  ASSUME ListInv, NEW r \in Lister, NEW d \in Path, NEW i \in DOMAIN ChildObjects,
         Reads(r, d, i), NEW contents \in Nat \cup {Null},
         Coherent(d, ChildObjects[i], listing[r].shown[d].device, contents, was[r]),
         Resolved(r, d, i, contents)
  PROVE  ListInv'
<1> DEFINE request == listing[r]
           old == request.shown[d]
           shown == [old EXCEPT !.contents = [@ EXCEPT ![ChildObjects[i]] = contents]]
<1>1. request \in ListingRecord /\ ListingOK(request, was[r])
  BY ListingTypes DEF ListInv
<1>2. /\ request.pc = "devices" /\ request.next[d] = i /\ i \in 1..6
      /\ ChildObjects[i] \in Field
  BY ReadOrder DEF Reads
<1>3. old \in ReadRecord /\ ReadOK(i, old, was[r], d)
  BY <1>1, <1>2 DEF ListingRecord, ListingOK
<1>4. i + 1 \in 1..ReadDone /\ i + 1 # 0 /\ i # 0 /\ i # ReadDone
      /\ (\A j \in DOMAIN ChildObjects : j < i + 1 => j < i \/ j = i)
  BY <1>2, ReadOrder
<1>5. /\ shown \in ReadRecord /\ shown.device = old.device
      /\ \A f \in Field : shown.contents[f] =
           IF f = ChildObjects[i] THEN contents ELSE old.contents[f]
  BY <1>2, <1>3 DEF ReadRecord
<1>6. Listing(r, [request EXCEPT !.next = [@ EXCEPT ![d] = i + 1],
                                 !.shown = [@ EXCEPT ![d] = shown]])
  BY DEF Resolved
<1> HIDE DEF shown
<1>7. ReadOK(i + 1, shown, was[r], d)
  <2>1. old.device # Gone
    BY <1>3, <1>4 DEF ReadOK
  <2>2. ASSUME NEW j \in DOMAIN ChildObjects, j < i + 1
        PROVE  Coherent(d, ChildObjects[j], shown.device, shown.contents[ChildObjects[j]], was[r])
    <3>1. ChildObjects[j] \in Field
      BY ReadOrder
    <3>2. CASE ChildObjects[j] = ChildObjects[i]
      <4>1. shown.contents[ChildObjects[j]] = contents
        BY <1>5, <3>1, <3>2
      <4> QED
        BY <1>5, <3>2, <4>1
    <3>3. CASE ChildObjects[j] # ChildObjects[i]
      <4>1. j < i /\ shown.contents[ChildObjects[j]] = old.contents[ChildObjects[j]]
        BY <1>4, <1>5, <2>2, <3>1, <3>3
      <4>2. Coherent(d, ChildObjects[j], old.device, old.contents[ChildObjects[j]], was[r])
        BY <1>3, <2>1, <4>1 DEF ReadOK
      <4> QED
        BY <1>5, <4>1, <4>2
    <3> QED
      BY <3>2, <3>3
  <2> QED
    BY <1>3, <1>4, <1>5, <2>1, <2>2 DEF ReadOK
<1> QED
  BY <1>2, <1>4, <1>5, <1>6, <1>7, DeviceReadOK

LEMMA ResolveObjectOK ==
  ASSUME ListInv, NEW r \in Lister, NEW d \in Path, NEW i \in DOMAIN ChildObjects,
         ResolveObject(r, d, i)
  PROVE  ListInv'
<1> DEFINE request == listing[r]
           dev == request.shown[d].device
           f == ChildObjects[i]
           found == ObjectsAt(d, f, dev.at[f])
<1>1. request \in ListingRecord /\ ListingOK(request, was[r]) /\ was[r].objects \subseteq NetworkObject
  BY ListingTypes DEF ListInv
<1>2. /\ Reads(r, d, i) /\ request.pc = "devices" /\ d \in request.paths /\ request.next[d] = i
      /\ i # 0 /\ i # ReadDone /\ f \in Field
  BY ReadOrder DEF ResolveObject, Reads
<1>3. /\ dev # Gone
      /\ dev.at[f] # Null => \E o \in was[r].objects : LeadsTo(d, f, dev.at[f], o)
  BY <1>1, <1>2 DEF ListingOK, ReadOK
<1>4. CASE dev.at[f] = Null
  <2>1. Coherent(d, f, dev, Null, was[r]) /\ Resolved(r, d, i, Null)
    BY <1>4 DEF Coherent, ResolveObject
  <2> QED
    BY <1>2, <2>1, ResolvedOK
<1>5. CASE dev.at[f] # Null /\ found = {}
  <2>1. PICK o \in was[r].objects : LeadsTo(d, f, dev.at[f], o)
    BY <1>3, <1>5
  <2>2. ObjectsAt(o.of, o.field, o.at) = {}
    BY <1>5, <2>1 DEF LeadsTo
  <2>3. Lost(request, was[r]) /\ ListFails(r)
    BY <1>5, <2>2 DEF Lost, ResolveObject
  <2> QED
    BY <1>2, <2>3, ListFailsOK
<1>6. CASE dev.at[f] # Null /\ found # {}
  <2>1. PICK o \in found : Resolved(r, d, i, o.contents)
    BY <1>6 DEF ResolveObject
  <2>2. /\ o \in objects /\ o \in NetworkObject /\ o.of = d /\ o.field = f /\ o.at = dev.at[f]
        /\ o \in was[r].objects
    BY <1>1, <1>2, <2>1, ListingTypes DEF ObjectsAt, ListInv, ListingOK, Sees
  <2> HIDE DEF dev, f
  <2>3. o = [of |-> d, field |-> f, at |-> dev.at[f], contents |-> o.contents]
        /\ o.contents \in Nat
    BY <2>2 DEF NetworkObject
  <2>4. Coherent(d, f, dev, o.contents, was[r])
    BY <1>6, <2>2, <2>3 DEF Coherent
  <2> QED
    BY <1>2, <2>1, <2>3, <2>4, ResolvedOK DEF dev, f
<1> QED
  BY <1>4, <1>5, <1>6

LEMMA ResolveTypeOK ==
  ASSUME ListInv, NEW r \in Lister, NEW d \in Path, ResolveType(r, d)
  PROVE  ListInv'
<1> DEFINE request == listing[r]
           shown == request.shown[d]
<1>1. request \in ListingRecord /\ ListingOK(request, was[r])
  BY ListingTypes DEF ListInv
<1>2. /\ request.pc = "devices" /\ d \in request.paths /\ request.next[d] = LastRead
  BY DEF ResolveType, Reads
<1>3. shown \in ReadRecord /\ ReadOK(LastRead, shown, was[r], d)
  BY <1>1, <1>2 DEF ListingRecord, ListingOK
<1>4. CASE ~There(d)
  <2>1. Lost(request, was[r])
    BY <1>1, <1>2, <1>4 DEF Lost, There, ListingOK, Sees
  <2> QED
    BY <1>2, <1>4, <2>1, ListFailsOK DEF ResolveType
<1>5. CASE There(d)
  <2>1. /\ ReadDone \in 1..ReadDone /\ ReadDone # 0 /\ LastRead # 0 /\ LastRead # ReadDone
        /\ \A i \in DOMAIN ChildObjects : i < LastRead
    BY ReadOrder
  <2>2. ReadOK(ReadDone, shown, was[r], d)
    BY <1>3, <2>1 DEF ReadOK
  <2>3. Listing(r, [request EXCEPT !.next = [@ EXCEPT ![d] = ReadDone],
                                   !.shown = [@ EXCEPT ![d] = shown]])
    <3>1. Listing(r, [request EXCEPT !.next[d] = ReadDone])
      BY <1>5 DEF ResolveType
    <3>2. [request EXCEPT !.next[d] = ReadDone]
            = [request EXCEPT !.next = [@ EXCEPT ![d] = ReadDone],
                              !.shown = [@ EXCEPT ![d] = shown]]
      BY <1>1 DEF ListingRecord
    <3> QED
      BY <3>1, <3>2
  <2> QED
    BY <1>2, <1>3, <2>1, <2>2, <2>3, DeviceReadOK
<1> QED
  BY <1>4, <1>5

SamePlace(o, p) == o.of = p.of /\ o.field = p.field /\ o.at = p.at

\* NetworkManager changes the device d and what there is at its paths: what is gone stays
\* gone, since new paths are new.
LEMMA ChangeOK ==
  ASSUME ListInv, NEW d \in Path, NEW dev \in State, NEW present \in SUBSET NetworkObject,
         Change(d, dev, present),
         \A o \in present : o.at = changes + 1 \/ \E p \in objects : SamePlace(o, p),
         \A f \in Field : dev.at[f] # Null => \E o \in present : LeadsTo(d, f, dev.at[f], o),
         \A o \in objects : o.of # d => \E p \in present : SamePlace(o, p)
  PROVE  ListInv'
<1> DEFINE Saw(r) ==
      IF listing[r].pc \in {"paths", "devices"}
      THEN [devices |-> [was[r].devices EXCEPT ![d] = @ \cup {dev}],
            objects |-> was[r].objects \cup present]
      ELSE was[r]
<1>1. /\ changes' = changes + 1 /\ manager' = [manager EXCEPT ![d] = dev]
      /\ objects' = present /\ was' = [r \in Lister |-> Saw(r)] /\ listing' = listing
  BY DEF Change
<1>2. /\ listing \in [Lister -> ListingRecord]
      /\ manager \in [Path -> State] /\ changes \in Nat /\ objects \subseteq NetworkObject
      /\ \A r \in Lister : /\ was[r].devices \in [Path -> SUBSET State]
                           /\ was[r].objects \subseteq NetworkObject
  BY ListingTypes DEF ListInv
<1>3. \A e \in Path : manager'[e] = IF e = d THEN dev ELSE manager[e]
  BY <1>1, <1>2
<1>4. ASSUME NEW r \in Lister
      PROVE  /\ Saw(r) \in [devices : [Path -> SUBSET State], objects : SUBSET NetworkObject]
             /\ \A e \in Path : was[r].devices[e] \subseteq Saw(r).devices[e]
             /\ was[r].objects \subseteq Saw(r).objects
             /\ Saw(r).objects \subseteq was[r].objects \cup present
             /\ listing[r].pc \in {"paths", "devices"} =>
                  dev \in Saw(r).devices[d] /\ present \subseteq Saw(r).objects
             /\ listing[r].pc \notin {"paths", "devices"} => Saw(r) = was[r]
  <2> DEFINE devices == [was[r].devices EXCEPT ![d] = @ \cup {dev}]
  <2>1. /\ devices \in [Path -> SUBSET State]
        /\ \A e \in Path : devices[e] = IF e = d THEN was[r].devices[d] \cup {dev}
                                        ELSE was[r].devices[e]
    BY <1>2
  <2> HIDE DEF devices
  <2>2. Saw(r) = IF listing[r].pc \in {"paths", "devices"}
                 THEN [devices |-> devices, objects |-> was[r].objects \cup present]
                 ELSE was[r]
    BY DEF devices
  <2>3. was[r] \in [devices : [Path -> SUBSET State], objects : SUBSET NetworkObject]
    BY DEF ListInv, ListTypeOK, State
  <2> HIDE DEF Saw
  <2> QED
    BY <1>2, <2>1, <2>2, <2>3
<1> HIDE DEF Saw
<1>5. ListTypeOK'
  <2>1. /\ manager' \in [Path -> State] /\ changes' \in Nat
        /\ was' \in [Lister -> [devices : [Path -> SUBSET State], objects : SUBSET NetworkObject]]
    BY <1>1, <1>2, <1>4
  <2> QED
    BY <1>1, <1>2, <2>1 DEF ListTypeOK, ListingRecord, ReadRecord, State
<1>6. \A o \in present : o.at <= changes + 1
  <2> SUFFICES ASSUME NEW o \in present PROVE o.at <= changes + 1
    OBVIOUS
  <2>1. CASE o.at = changes + 1
    BY <1>2, <2>1
  <2>2. CASE \E p \in objects : SamePlace(o, p)
    <3>1. PICK p \in objects : o.at = p.at
      BY <2>2 DEF SamePlace
    <3>2. p.at \in Nat /\ p.at <= changes
      BY <1>2, <3>1 DEF NetworkObject, ListInv, LinksOK
    <3> QED
      BY <1>2, <3>1, <3>2
  <2> QED
    BY <2>1, <2>2
<1>7. LinksOK'
  <2>1. \A o \in objects' : o.at <= changes'
    BY <1>1, <1>6
  <2>2. ASSUME NEW e \in Path, NEW f \in Field, manager'[e].at[f] # Null
        PROVE  \E o \in objects' : LeadsTo(e, f, manager'[e].at[f], o)
    <3>1. CASE e = d
      BY <1>1, <1>3, <2>2, <3>1
    <3>2. CASE e # d
      <4>1. manager'[e] = manager[e]
        BY <1>3, <3>2
      <4>2. PICK o \in objects : LeadsTo(e, f, manager[e].at[f], o)
        BY <2>2, <4>1 DEF ListInv, LinksOK
      <4>3. PICK p \in present : SamePlace(o, p)
        BY <3>2, <4>2 DEF LeadsTo
      <4> QED
        BY <1>1, <4>1, <4>2, <4>3 DEF SamePlace, LeadsTo
    <3> QED
      BY <3>1, <3>2
  <2> QED
    BY <2>1, <2>2 DEF LinksOK
<1>8. ASSUME NEW o \in NetworkObject, o.at <= changes, ObjectsAt(o.of, o.field, o.at) = {}
      PROVE  ObjectsAt(o.of, o.field, o.at)' = {}
  <2> SUFFICES ASSUME NEW p \in present, SamePlace(p, o) PROVE FALSE
    BY <1>1 DEF ObjectsAt, SamePlace
  <2>1. p.at # changes + 1
    BY <1>2, <1>8 DEF SamePlace, NetworkObject
  <2>2. PICK q \in objects : SamePlace(p, q)
    BY <2>1
  <2>3. q \in ObjectsAt(o.of, o.field, o.at)
    BY <2>2 DEF ObjectsAt, SamePlace
  <2> QED
    BY <1>8, <2>3
<1>9. ASSUME NEW r \in Lister PROVE ListingOK(listing[r], was[r])'
  <2> DEFINE request == listing[r]
             saw == was[r]
             more == Saw(r)
  <2>1. ListingOK(request, saw)
    BY DEF ListInv
  <2>2. listing'[r] = request /\ was'[r] = more
    BY <1>1
  <2>3. /\ \A e \in Path : saw.devices[e] \subseteq more.devices[e]
        /\ saw.objects \subseteq more.objects
        /\ more.objects \subseteq saw.objects \cup present
        /\ request.pc \in {"paths", "devices"} =>
             dev \in more.devices[d] /\ present \subseteq more.objects
        /\ request.pc \notin {"paths", "devices"} => more = saw
    BY <1>4
  <2>4. saw.objects \subseteq NetworkObject /\ \A o \in saw.objects : o.at <= changes
    BY <1>2, <2>1 DEF ListingOK
  <2> HIDE DEF request, saw, more
  <2>5. \A e \in Path : ReadOK(request.next[e], request.shown[e], more, e)
    BY <2>1, <2>3 DEF ListingOK, ReadOK, Coherent
  <2>6. ASSUME request.pc = "failed" PROVE Lost(listing[r], was[r])'
    <3>1. more = saw /\ Lost(request, saw)
      BY <2>1, <2>3, <2>6 DEF ListingOK
    <3>2. listing'[r] = request /\ was'[r] = saw
      BY <2>2, <3>1
    <3>3. CASE \E o \in saw.objects : ObjectsAt(o.of, o.field, o.at) = {}
      <4>1. PICK o \in saw.objects : ObjectsAt(o.of, o.field, o.at) = {}
        BY <3>3
      <4>2. ObjectsAt(o.of, o.field, o.at)' = {}
        BY <1>8, <2>4, <4>1
      <4> QED
        BY <3>2, <4>2 DEF Lost, ObjectsAt
    <3>4. CASE \/ request.callFailed
               \/ \E e \in request.paths : Gone \in saw.devices[e]
      BY <3>2, <3>4 DEF Lost
    <3> QED
      BY <3>1, <3>3, <3>4 DEF Lost
  <2>7. request.pc \in {"paths", "devices"} =>
          objects' \subseteq more.objects /\ \A e \in Path : manager'[e] \in more.devices[e]
    BY <1>1, <1>3, <2>1, <2>3 DEF ListingOK, Sees
  <2>8. \A o \in more.objects : o.at <= changes'
    <3> SUFFICES ASSUME NEW o \in more.objects PROVE o.at <= changes + 1
      BY <1>1
    <3>1. CASE o \in present
      BY <1>6, <3>1
    <3>2. CASE o \in saw.objects
      <4>1. o.at \in Nat /\ o.at <= changes
        BY <2>4, <3>2 DEF NetworkObject
      <4> QED
        BY <1>2, <4>1
    <3> QED
      BY <2>3, <3>1, <3>2
  <2> QED
    <3>1. Sees(was[r])' <=> objects' \subseteq more.objects
                            /\ \A e \in Path : manager'[e] \in more.devices[e]
      BY <2>2 DEF Sees
    <3>2. \A e \in Path : ReadOK(listing[r].next[e], listing[r].shown[e], was[r], e)'
      BY <2>2, <2>5 DEF ReadOK, Coherent
    <3>3. /\ request.pc = "idle" => \A e \in Path : request.next[e] = 0
          /\ request.pc = "ok" => \A e \in request.paths : request.next[e] = ReadDone
      BY <2>1 DEF ListingOK
    <3> QED
      BY <2>2, <2>6, <2>7, <2>8, <3>1, <3>2, <3>3 DEF ListingOK
<1> QED
  BY <1>5, <1>7, <1>9 DEF ListInv

LEMMA RenewOK ==
  ASSUME ListInv, NEW o \in objects, Renew(o)
  PROVE  ListInv'
<1> DEFINE d == o.of
           dev == manager[d]
           new == [o EXCEPT !.contents = changes + 1]
           present == (objects \ {o}) \cup {new}
<1>1. /\ o \in NetworkObject /\ manager \in [Path -> State] /\ changes \in Nat
      /\ objects \subseteq NetworkObject
  BY ListingTypes DEF ListInv
<1>2. d \in Path /\ dev \in State /\ Change(d, dev, present)
  BY <1>1 DEF NetworkObject, Renew
<1>3. new \in NetworkObject /\ SamePlace(new, o)
  BY <1>1 DEF NetworkObject, SamePlace
<1> HIDE DEF new
<1>4. \A p \in objects : \E q \in present : SamePlace(p, q)
  BY <1>3 DEF SamePlace
<1>5. \A q \in present : \E p \in objects : SamePlace(q, p)
  BY <1>3 DEF SamePlace
<1>6. present \in SUBSET NetworkObject
  BY <1>1, <1>3
<1>7. \A f \in Field : dev.at[f] # Null => \E q \in present : LeadsTo(d, f, dev.at[f], q)
  BY <1>2, <1>4 DEF ListInv, LinksOK, LeadsTo, SamePlace
<1> HIDE DEF d, dev, present
<1> QED
  BY <1>2, <1>4, <1>5, <1>6, <1>7, ChangeOK

\* A device with one path other than before, or none.
LEMMA PathChangesOK ==
  ASSUME ListInv, NEW d \in Path, NEW f \in Field, Remove(d, f) \/ \E stays \in BOOLEAN : Replace(d, f, stays)
  PROVE  ListInv'
<1> DEFINE old == ObjectsAt(d, f, manager[d].at[f])
           new == [of |-> d, field |-> f, at |-> changes + 1, contents |-> changes + 1]
<1>1. /\ manager \in [Path -> State] /\ changes \in Nat /\ objects \subseteq NetworkObject
      /\ manager[d].at[f] # Null
  BY ListingTypes DEF ListInv, Remove, Replace
<1>2. manager[d] \in DeviceProperties
  BY <1>1, GoneIsNone DEF State
<1>3. \A o \in old : o.of = d /\ o.field = f
  BY DEF ObjectsAt
<1>4. new \in NetworkObject /\ LeadsTo(d, f, changes + 1, new) /\ new.at = changes + 1
  BY <1>1 DEF NetworkObject, LeadsTo
<1>5. \A g \in Field : g # f /\ manager[d].at[g] # Null =>
        \E o \in objects \ old : LeadsTo(d, g, manager[d].at[g], o)
  BY <1>3 DEF ListInv, LinksOK, LeadsTo
<1>6. \A o \in objects : SamePlace(o, o)
  BY DEF SamePlace
<1> HIDE DEF old, new
<1>7. CASE Remove(d, f)
  <2> DEFINE dev == [manager[d] EXCEPT !.at[f] = Null]
             present == objects \ old
  <2>1. Change(d, dev, present)
    BY <1>7 DEF Remove, old
  <2>2. /\ dev \in State
        /\ \A g \in Field : dev.at[g] = IF g = f THEN Null ELSE manager[d].at[g]
    BY <1>2 DEF DeviceProperties, State
  <2> HIDE DEF dev
  <2>3. \A g \in Field : dev.at[g] # Null => \E o \in present : LeadsTo(d, g, dev.at[g], o)
    BY <1>5, <2>2
  <2>4. \A o \in objects : o.of # d => \E p \in present : SamePlace(o, p)
    BY <1>3, <1>6
  <2>5. \A o \in present : \E p \in objects : SamePlace(o, p)
    BY <1>6
  <2>6. present \in SUBSET NetworkObject
    BY <1>1
  <2> HIDE DEF present
  <2> QED
    BY <2>1, <2>2, <2>3, <2>4, <2>5, <2>6, ChangeOK
<1>8. ASSUME NEW stays \in BOOLEAN, Replace(d, f, stays) PROVE ListInv'
  <2> DEFINE dev == [manager[d] EXCEPT !.at[f] = changes + 1]
             kept == IF stays THEN objects ELSE objects \ old
             present == kept \cup {new}
  <2>1. Change(d, dev, present)
    BY <1>8 DEF Replace, old, new
  <2>2. /\ dev \in State
        /\ \A g \in Field : dev.at[g] = IF g = f THEN changes + 1 ELSE manager[d].at[g]
    BY <1>1, <1>2 DEF DeviceProperties, State
  <2> HIDE DEF dev
  <2>3. objects \ old \subseteq kept /\ kept \subseteq objects
    OBVIOUS
  <2> HIDE DEF kept
  <2>4. \A g \in Field : dev.at[g] # Null => \E o \in present : LeadsTo(d, g, dev.at[g], o)
    BY <1>4, <1>5, <2>2, <2>3
  <2>5. \A o \in objects : o.of # d => \E p \in present : SamePlace(o, p)
    BY <1>3, <1>6, <2>3
  <2>6. \A o \in present : o.at = changes + 1 \/ \E p \in objects : SamePlace(o, p)
    BY <1>4, <1>6, <2>3
  <2>7. present \in SUBSET NetworkObject
    BY <1>1, <1>4, <2>3
  <2> HIDE DEF present
  <2> QED
    BY <2>1, <2>2, <2>4, <2>5, <2>6, <2>7, ChangeOK
<1> QED
  BY <1>7, <1>8

LEMMA GoesDownOK ==
  ASSUME ListInv, NEW d \in Path, Disconnect(d) \/ Unplug(d)
  PROVE  ListInv'
<1> DEFINE present == Without(d)
<1>1. /\ manager \in [Path -> State] /\ changes \in Nat /\ objects \subseteq NetworkObject
      /\ manager[d] # Gone
  BY ListingTypes DEF ListInv, Disconnect, Unplug, There
<1>2. manager[d] \in DeviceProperties
  BY <1>1 DEF State
<1>3. /\ present \subseteq objects
      /\ \A o \in objects : o.of # d \/ o.field = "AvailableConnections" => o \in present
  BY DEF Without
<1>4. \A o \in objects : SamePlace(o, o)
  BY DEF SamePlace
<1>5. \A o \in objects : o.of # d => \E p \in present : SamePlace(o, p)
  BY <1>3, <1>4
<1>6. \A o \in present : \E p \in objects : SamePlace(o, p)
  BY <1>3, <1>4
<1>7. present \in SUBSET NetworkObject
  BY <1>1, <1>3
<1>8. CASE Disconnect(d)
  <2> DEFINE at == [f \in Field |-> IF f = "AvailableConnections" THEN manager[d].at[f] ELSE Null]
             dev == [manager[d] EXCEPT !.at = at]
  <2>1. Change(d, dev, present)
    BY <1>8 DEF Disconnect
  <2>2. at \in [Field -> Nat \cup {Null}]
    BY <1>2 DEF DeviceProperties
  <2>3. \A f \in Field : at[f] # Null => f = "AvailableConnections" /\ at[f] = manager[d].at[f]
    OBVIOUS
  <2> HIDE DEF at
  <2>4. dev \in State /\ dev.at = at
    BY <1>2, <2>2 DEF DeviceProperties, State
  <2> HIDE DEF dev
  <2>5. ASSUME NEW f \in Field, dev.at[f] # Null
        PROVE  \E o \in present : LeadsTo(d, f, dev.at[f], o)
    <3>1. f = "AvailableConnections" /\ dev.at[f] = manager[d].at[f]
      BY <2>3, <2>4, <2>5
    <3>2. PICK o \in objects : LeadsTo(d, f, manager[d].at[f], o)
      BY <2>5, <3>1 DEF ListInv, LinksOK
    <3>3. o \in present
      BY <1>3, <3>1, <3>2 DEF LeadsTo
    <3> QED
      BY <3>1, <3>2, <3>3
  <2> HIDE DEF present
  <2> QED
    BY <1>5, <1>6, <1>7, <2>1, <2>4, <2>5, ChangeOK
<1>9. CASE Unplug(d)
  <2>1. Change(d, Gone, present) /\ Gone \in State
    BY <1>9 DEF Unplug, State
  <2>2. \A f \in Field : Gone.at[f] # Null => \E o \in present : LeadsTo(d, f, Gone.at[f], o)
    BY GoneIsNone
  <2> HIDE DEF present
  <2> QED
    BY <1>5, <1>6, <1>7, <2>1, <2>2, ChangeOK
<1> QED
  BY <1>8, <1>9

LEMMA ListInitOK == Init => ListInv
<1> SUFFICES ASSUME Init PROVE ListInv
  OBVIOUS
<1>1. /\ manager \in Managers /\ changes = 0 /\ listing = [r \in Lister |-> NoListing]
      /\ objects = {o \in [of : Path, field : Field, at : {0}, contents : {0}] :
                      manager[o.of].at[o.field] = 0}
      /\ was = [r \in Lister |-> [devices |-> [d \in Path |-> {}], objects |-> {}]]
  BY DEF Init, ListInit
<1>2. /\ manager \in [Path -> State]
      /\ \A d \in Path, f \in Field : manager[d].at[f] \in {0, Null}
  <2>1. PICK types \in [Path -> Types] :
          manager = [d \in Path |-> [type |-> types[d],
            at |-> IF types[d] = "loopback" THEN NoPaths ELSE [f \in Field |-> 0]]]
    BY <1>1 DEF Managers
  <2> SUFFICES ASSUME NEW d \in Path
               PROVE  /\ manager[d] \in DeviceProperties
                      /\ \A f \in Field : manager[d].at[f] \in {0, Null}
    BY <2>1 DEF State
  <2> DEFINE at == IF types[d] = "loopback" THEN NoPaths ELSE [f \in Field |-> 0]
  <2>2. /\ at \in [Field -> Nat \cup {Null}]
        /\ \A f \in Field : at[f] \in {0, Null}
    BY DEF NoPaths
  <2>3. manager[d] = [type |-> types[d], at |-> at]
    BY <2>1
  <2> HIDE DEF at
  <2> QED
    BY <2>2, <2>3 DEF DeviceProperties
<1>3. /\ NoListing \in ListingRecord /\ NoListing.pc = "idle"
      /\ \A d \in Path : NoListing.next[d] = 0 /\ NoListing.shown[d] = NotRead
  <2>1. NotRead \in ReadRecord /\ 0 \in 0..ReadDone
    BY ReadOrder DEF NotRead, ReadRecord, State, NoPaths
  <2> QED
    BY <2>1 DEF NoListing, ListingRecord
<1>4. ListTypeOK
  <2>1. objects \subseteq NetworkObject
    BY <1>1 DEF NetworkObject
  <2>2. was \in [Lister -> [devices : [Path -> SUBSET State], objects : SUBSET NetworkObject]]
    BY <1>1
  <2> QED
    BY <1>1, <1>2, <1>3, <2>1, <2>2 DEF ListTypeOK, ListingRecord, ReadRecord, State
<1>5. LinksOK
  <2>1. \A o \in objects : o.at <= changes
    BY <1>1
  <2>2. ASSUME NEW d \in Path, NEW f \in Field, manager[d].at[f] # Null
        PROVE  \E o \in objects : LeadsTo(d, f, manager[d].at[f], o)
    <3> DEFINE o == [of |-> d, field |-> f, at |-> 0, contents |-> 0]
    <3>1. manager[d].at[f] = 0
      BY <1>2, <2>2
    <3>2. o \in objects
      BY <1>1, <3>1
    <3> QED
      BY <3>1, <3>2 DEF LeadsTo
  <2> QED
    BY <2>1, <2>2 DEF LinksOK
<1>6. ASSUME NEW r \in Lister PROVE ListingOK(listing[r], was[r])
  <2>1. listing[r] = NoListing /\ was[r].objects = {}
    BY <1>1
  <2>2. NotRead.device = Gone /\ 0 # ReadDone
    BY ReadOrder DEF NotRead
  <2>3. \A d \in Path : ReadOK(NoListing.next[d], NoListing.shown[d], was[r], d)
    BY <1>3, <2>2 DEF ReadOK
  <2> QED
    BY <1>3, <2>1, <2>3 DEF ListingOK
<1> QED
  BY <1>4, <1>5, <1>6 DEF ListInv

LEMMA ListNextOK == ListInv /\ [Next]_vars => ListInv'
<1> SUFFICES ASSUME ListInv, [Next]_vars PROVE ListInv'
  OBVIOUS
<1>1. ListNext \/ UNCHANGED networkVars
  BY DEF Next, Only, vars
<1>2. CASE UNCHANGED networkVars
  <2>1. UNCHANGED <<manager, objects, changes, listing, was>>
    BY <1>2 DEF networkVars
  <2> QED
    BY <2>1 DEF ListInv, ListTypeOK, LinksOK, ListingOK, Lost, Sees, ObjectsAt
<1>3. ASSUME NEW r \in Lister, GetAllDevices(r) \/ ListStep(r) PROVE ListInv'
  BY <1>3, GetAllDevicesOK, PathsAndAnswerOK, CallFailsOK, GetDeviceOK, ResolveObjectOK,
     ResolveTypeOK DEF ListStep
<1> QED
  BY <1>1, <1>2, <1>3, RenewOK, PathChangesOK, GoesDownOK DEF ListNext

\* A list shows each interface as it was at a moment of the request, and at each of its
\* paths an object that was there, none missing and none of another path, though they are
\* read one by one: for any devices, requests and changes of NetworkManager.
\* (NetworkDeviceService.getAllDevices, resolveDeviceProperties)
THEOREM ListsShowTheirObjects == Spec => []ListsAreCoherent
<1>1. ListInv => ListsAreCoherent
  <2> SUFFICES ASSUME ListInv, NEW r \in Lister, NEW d \in Path,
                      listing[r].pc = "ok", d \in listing[r].paths
               PROVE  LET dev == listing[r].shown[d].device IN
                      IF dev = Gone THEN \E old \in was[r].devices[d] : old # Gone /\ ~Matches(old)
                      ELSE /\ dev \in was[r].devices[d] /\ Matches(dev)
                           /\ \A f \in Field :
                                Coherent(d, f, dev, listing[r].shown[d].contents[f], was[r])
    BY DEF ListsAreCoherent, Coherent
  <2>1. ReadOK(ReadDone, listing[r].shown[d], was[r], d)
    BY DEF ListInv, ListingOK
  <2>2. ReadDone # 0 /\ \A i \in DOMAIN ChildObjects : i < ReadDone
    BY ReadOrder
  <2>3. \A f \in Field : \E i \in DOMAIN ChildObjects : f = ChildObjects[i]
    BY ReadOrder
  <2> QED
    BY <2>1, <2>2, <2>3 DEF ReadOK
<1> QED
  BY <1>1, ListInitOK, ListNextOK, PTL DEF Spec

\* A list fails only if a call of it failed or something it was to read is gone.
\* (NetworkDeviceService.getProperties)
THEOREM ListsFailByLoss == Spec => []FailsByLossOnly
<1>1. ListInv => FailsByLossOnly
  BY DEF ListInv, ListingOK, Lost, FailsByLossOnly
<1> QED
  BY <1>1, ListInitOK, ListNextOK, PTL DEF Spec

(***************************************************************************)
(* Status and metrics.  Of each program that has succeeded, the request    *)
(* shows what it has seen of the device; and between uptime and the time   *)
(* that is taken after it only a set clock comes between the two.          *)
(***************************************************************************)
Disk == {<<>>} \cup (Sizes \X Sizes)

DeviceRecord ==
  [rules : Rules, now : Measures, clock : Nat, up : Nat, offset : Offsets,
   serverOffset : Offsets]

ShownRecord ==
  [uptime : Number, printed : Number, upThen : Nat, fs : Disk, temperature : Number]

Parts == Commands \cup {"parse"}

StatusRecord ==
  [pc : {"idle", "status", "metrics", "ok", "failed"}, waits : SUBSET Parts,
   done : SUBSET Parts, shown : ShownRecord, disturbed : BOOLEAN,
   cause : {"none", "failed", "refused", "unparsable"}, seen : SUBSET Measures]

UptimeOK(request) ==
  /\ "uptime" \in request.waits => "parse" \in request.waits
  /\ "uptime" \notin request.waits /\ "parse" \in request.waits /\ ~request.disturbed =>
       \/ request.shown.printed = NaN
       \/ request.shown.printed = (device.clock - device.up) + device.serverOffset
  /\ "parse" \notin request.waits /\ ~request.disturbed =>
       request.shown.printed = NaN \/ request.shown.uptime = request.shown.upThen

DiskOK(request) ==
  "df" \notin request.waits =>
    \E now \in request.seen : request.shown.fs = <<now.used, now.available>>

TemperatureOK(request) ==
  "temperature" \notin request.waits =>
    \E now \in request.seen : request.shown.temperature = ParseTemperature(now.temperature)

DoneOK(request) ==
  \A command \in Commands \ request.waits : command \in request.done /\ MayRun(command)

ServedOK(request) ==
  UptimeOK(request) /\ DiskOK(request) /\ TemperatureOK(request) /\ DoneOK(request)

StatusOK(request) ==
  /\ request \in StatusRecord
  /\ request.pc \in {"status", "metrics", "ok"} => ServedOK(request)
  /\ request.pc \in {"status", "metrics"} => device.now \in request.seen
  /\ request.pc = "ok" => request.waits = {}

GaugesOK ==
  gauges # <<>> =>
    /\ gauges.fs \in Sizes \X Sizes
    /\ gauges.temperature \in Int /\ gauges.uptime \in Number

StatusInv ==
  /\ device \in DeviceRecord
  /\ status = [r \in Reader |-> status[r]]
  /\ \A r \in Reader : StatusOK(status[r])
  /\ GaugesOK

\* A number has as many blanks before it as it lacks digits: none from 10000 on.
LEMMA CellsOf ==
  ASSUME NEW n \in Nat
  PROVE  /\ Cells(n) \in Seq(Int \cup {NaN}) /\ Len(Cells(n)) > 0
         /\ n >= 10000 => Cells(n) = <<n>>
         /\ n < 10000 => Cells(n)[1] = NaN
<1> DEFINE k == 5 - Digits(n)
           blanks == [i \in 1..k |-> NaN]
<1>1. k \in 0..4 /\ (k = 0 <=> n >= 10000)
  BY DEF Digits
<1> HIDE DEF k
<1>2. blanks \in Seq(Int \cup {NaN}) /\ Len(blanks) = k
  BY <1>1
<1>3. <<n>> \in Seq(Int \cup {NaN}) /\ Len(<<n>>) = 1
  OBVIOUS
<1>4. Cells(n) = blanks \o <<n>>
  BY DEF Cells, k
<1>5. CASE k = 0
  <2>1. blanks = <<>>
    BY <1>2, <1>5
  <2>2. Cells(n) = <<n>>
    BY <1>3, <1>4, <2>1, ConcatEmptySeq
  <2> QED
    BY <1>1, <1>3, <1>5, <2>2
<1>6. CASE k # 0
  <2> HIDE DEF blanks
  <2>1. Cells(n) \in Seq(Int \cup {NaN}) /\ Len(Cells(n)) = k + 1 /\ Cells(n)[1] = blanks[1]
    BY <1>1, <1>2, <1>3, <1>4, <1>6, ConcatProperties
  <2>2. blanks[1] = NaN
    BY <1>1, <1>6 DEF blanks
  <2> QED
    BY <1>1, <1>6, <2>1, <2>2
<1> QED
  BY <1>5, <1>6

\* parseDf takes two numbers for what df printed only if both fill their columns.
LEMMA ParseDfTells ==
  ASSUME NEW used \in Nat, NEW available \in Nat,
         NaN \notin {ParseDf(used, available)[1], ParseDf(used, available)[2]}
  PROVE  /\ used >= 10000 /\ available >= 10000
         /\ ParseDf(used, available) = <<used, available>>
<1> DEFINE c == Cells(used)
           d == Cells(available)
<1>1. /\ c \in Seq(Int \cup {NaN}) /\ Len(c) > 0 /\ d \in Seq(Int \cup {NaN}) /\ Len(d) > 0
      /\ used >= 10000 => c = <<used>>
      /\ used < 10000 => c[1] = NaN
      /\ available >= 10000 => d = <<available>>
      /\ available < 10000 => d[1] = NaN
  <2>1. /\ Cells(used) \in Seq(Int \cup {NaN}) /\ Len(Cells(used)) > 0
        /\ used >= 10000 => Cells(used) = <<used>>
        /\ used < 10000 => Cells(used)[1] = NaN
    BY CellsOf
  <2>2. /\ Cells(available) \in Seq(Int \cup {NaN}) /\ Len(Cells(available)) > 0
        /\ available >= 10000 => Cells(available) = <<available>>
        /\ available < 10000 => Cells(available)[1] = NaN
    BY CellsOf
  <2> QED
    BY <2>1, <2>2
<1>2. ParseDf(used, available) = SubSeq(c \o d, 1, 2)
  BY DEF ParseDf
<1> HIDE DEF c, d
<1>3. /\ c \o d \in Seq(Int \cup {NaN}) /\ Len(c \o d) >= 2
      /\ (c \o d)[1] = c[1]
      /\ Len(c) = 1 => (c \o d)[2] = d[1]
  BY <1>1, ConcatProperties
<1>4. SubSeq(c \o d, 1, 2)[1] = (c \o d)[1] /\ SubSeq(c \o d, 1, 2)[2] = (c \o d)[2]
  BY <1>3
<1>5. used >= 10000
  BY <1>1, <1>2, <1>3, <1>4
<1>6. c = <<used>> /\ Len(c) = 1
  BY <1>1, <1>5
<1>7. available >= 10000
  BY <1>1, <1>2, <1>3, <1>4, <1>6
<1>8. SubSeq(c \o d, 1, 2) = <<used, available>>
  <2> DEFINE fs == SubSeq(c \o d, 1, 2)
             both == <<used, available>>
  <2>1. fs \in Seq(Int \cup {NaN}) /\ Len(fs) = 2
    BY <1>3
  <2>2. both \in Seq(Int \cup {NaN}) /\ Len(both) = 2 /\ both[1] = used /\ both[2] = available
    OBVIOUS
  <2>3. fs[1] = used /\ fs[2] = available
    BY <1>1, <1>3, <1>4, <1>5, <1>6, <1>7
  <2> HIDE DEF fs, both
  <2>4. \A i \in 1..Len(fs) : fs[i] = both[i]
    BY <2>1, <2>2, <2>3
  <2> QED
    BY <2>1, <2>2, <2>4, SeqEqual DEF fs, both
<1> QED
  BY <1>2, <1>5, <1>7, <1>8


LEMMA ParsedTemperatureIsInt ==
  ASSUME NEW now \in Measures
  PROVE  ParseTemperature(now.temperature) \in Int
<1>1. now.temperature \in Int
  BY StatusAssumption DEF Measures
<1> QED
  BY <1>1 DEF ParseTemperature

\* A step of a request that leaves the device and the gauges alone.
LEMMA StatusStepOK ==
  ASSUME StatusInv, NEW r \in Reader, NEW new, StatusOK(new), GaugesOK',
         status' = [status EXCEPT ![r] = new], device' = device
  PROVE  StatusInv'
<1>1. \A s \in Reader : StatusOK(status'[s])
  BY DEF StatusInv
<1>2. status' = [s \in Reader |-> status'[s]]
  BY DEF StatusInv
<1>3. \A s \in Reader : StatusOK(status[s])'
  BY <1>1 DEF StatusOK, ServedOK, UptimeOK, DiskOK, TemperatureOK, DoneOK, MayRun,
              IsAllowedToExecuteProgram
<1> QED
  BY <1>2, <1>3 DEF StatusInv

\* The request once a result has arrived.
Arrived(r, command, shown) ==
  [status[r] EXCEPT !.waits = @ \ {command}, !.done = @ \cup {command}, !.shown = shown]

LEMMA ServedFields ==
  ASSUME StatusInv, NEW r \in Reader, NEW command \in Parts, NEW shown \in ShownRecord,
         Waits(r, command)
  PROVE  /\ ServedOK(status[r]) /\ status[r] \in StatusRecord
         /\ device.now \in status[r].seen /\ status[r].pc \in {"status", "metrics"}
         /\ Arrived(r, command, shown) \in StatusRecord
         /\ Arrived(r, command, shown).pc = status[r].pc
         /\ Arrived(r, command, shown).waits = status[r].waits \ {command}
         /\ Arrived(r, command, shown).done = status[r].done \cup {command}
         /\ Arrived(r, command, shown).shown = shown
         /\ Arrived(r, command, shown).disturbed = status[r].disturbed
         /\ Arrived(r, command, shown).cause = status[r].cause
         /\ Arrived(r, command, shown).seen = status[r].seen
<1>1. /\ ServedOK(status[r]) /\ status[r] \in StatusRecord
      /\ device.now \in status[r].seen /\ status[r].pc \in {"status", "metrics"}
  BY DEF StatusInv, StatusOK, Waits, Serves
<1>2. status[r].waits \ {command} \in SUBSET Parts /\ status[r].done \cup {command} \in SUBSET Parts
  BY <1>1 DEF StatusRecord
<1> QED
  BY <1>1, <1>2 DEF StatusRecord, Arrived

\* What is served is true of the request whatever its pc is.
LEMMA ArrivesOK ==
  ASSUME StatusInv, NEW r \in Reader, NEW command \in Parts, NEW shown \in ShownRecord,
         Waits(r, command), Arrives(r, command, shown), ServedOK(Arrived(r, command, shown))
  PROVE  StatusInv'
<1> DEFINE served == Arrived(r, command, shown)
           waits == status[r].waits \ {command}
           done == status[r].done \cup {command}
           pc == IF waits = {} THEN "ok" ELSE status[r].pc
           new == [status[r] EXCEPT !.waits = waits, !.done = done, !.shown = shown, !.pc = pc]
<1>1. /\ served \in StatusRecord /\ served.pc = status[r].pc
      /\ served.waits = waits /\ served.done = done /\ served.shown = shown
      /\ served.disturbed = status[r].disturbed /\ served.seen = status[r].seen
      /\ device.now \in status[r].seen /\ status[r].pc \in {"status", "metrics"}
      /\ status[r] \in StatusRecord
  BY ServedFields
<1>2. status' = [status EXCEPT ![r] = new] /\ device' = device
  BY DEF StatusInv, Arrives
<1>3. gauges' = IF served.waits = {} /\ status[r].pc = "metrics" THEN shown ELSE gauges
  BY <1>1 DEF Arrives
<1> HIDE DEF served
<1>4. /\ new.waits = served.waits /\ new.shown = shown /\ new.pc = pc
      /\ new.done = served.done /\ new.disturbed = served.disturbed /\ new.seen = served.seen
      /\ new \in StatusRecord
  <2>1. waits \in SUBSET Parts /\ done \in SUBSET Parts
    BY <1>1 DEF StatusRecord
  <2> HIDE DEF waits, done
  <2>2. pc \in {"status", "metrics", "ok"}
    BY <1>1
  <2> HIDE DEF pc
  <2> QED
    BY <1>1, <2>1, <2>2 DEF StatusRecord
<1> HIDE DEF new
<1>5. ServedOK(new)
  BY <1>1, <1>4 DEF ServedOK, UptimeOK, DiskOK, TemperatureOK, DoneOK, served
<1>6. StatusOK(new)
  BY <1>1, <1>4, <1>5 DEF StatusOK
<1>7. GaugesOK'
  <2>1. CASE gauges' = gauges
    BY <2>1 DEF StatusInv, GaugesOK
  <2>2. CASE gauges' = shown /\ served.waits = {}
    <3>1. /\ DiskOK(new) /\ TemperatureOK(new) /\ new.waits = {} /\ new.shown = shown
          /\ new.seen \subseteq Measures
      BY <1>4, <1>5, <2>2 DEF ServedOK, StatusRecord
    <3>2. PICK now \in Measures : shown.fs = <<now.used, now.available>>
      BY <3>1 DEF DiskOK
    <3>3. now.used \in Sizes /\ now.available \in Sizes
      BY DEF Measures
    <3>4. shown.temperature \in Int
      BY <3>1, ParsedTemperatureIsInt DEF TemperatureOK
    <3>5. shown.uptime \in Number
      BY DEF ShownRecord
    <3> QED
      BY <2>2, <3>2, <3>3, <3>4, <3>5 DEF GaugesOK
  <2> QED
    BY <1>3, <2>1, <2>2
<1> QED
  BY <1>2, <1>6, <1>7, StatusStepOK

LEMMA GetSerialOK ==
  ASSUME StatusInv, NEW r \in Reader, NEW command \in {"serial", "voltage"},
         GetSerial(r, command)
  PROVE  StatusInv'
<1> DEFINE shown == status[r].shown
           served == Arrived(r, command, shown)
<1>1. /\ Waits(r, command) /\ MayRun(command) /\ Arrives(r, command, shown)
      /\ command \in Commands /\ command \in Parts
  BY DEF GetSerial, Commands, Parts
<1>2. shown \in ShownRecord
  BY DEF StatusInv, StatusOK, StatusRecord
<1>3. /\ ServedOK(status[r]) /\ served.waits = status[r].waits \ {command}
      /\ served.done = status[r].done \cup {command} /\ served.seen = status[r].seen
      /\ served.shown = shown /\ served.disturbed = status[r].disturbed
  BY <1>1, <1>2, ServedFields
<1> HIDE DEF served
<1>4. UptimeOK(served)
  BY <1>3 DEF ServedOK, UptimeOK
<1>5. DiskOK(served) /\ TemperatureOK(served)
  BY <1>3 DEF ServedOK, DiskOK, TemperatureOK
<1>6. DoneOK(served)
  BY <1>1, <1>3 DEF ServedOK, DoneOK
<1>7. ServedOK(served)
  BY <1>4, <1>5, <1>6 DEF ServedOK
<1> QED
  BY <1>1, <1>2, <1>7, ArrivesOK DEF served

LEMMA GetTemperatureOK ==
  ASSUME StatusInv, NEW r \in Reader, GetTemperature(r)
  PROVE  StatusInv'
<1> DEFINE shown == [status[r].shown EXCEPT
                       !.temperature = ParseTemperature(device.now.temperature)]
           served == Arrived(r, "temperature", shown)
<1>1. /\ Waits(r, "temperature") /\ MayRun("temperature") /\ Arrives(r, "temperature", shown)
      /\ "temperature" \in Commands /\ "temperature" \in Parts
  BY DEF GetTemperature, Commands, Parts
<1>2. ParseTemperature(device.now.temperature) \in Int
  BY ParsedTemperatureIsInt DEF StatusInv, DeviceRecord
<1>3. status[r].shown \in ShownRecord
  BY DEF StatusInv, StatusOK, StatusRecord
<1>4. /\ shown.fs = status[r].shown.fs /\ shown.printed = status[r].shown.printed
      /\ shown.uptime = status[r].shown.uptime /\ shown.upThen = status[r].shown.upThen
      /\ shown.temperature = ParseTemperature(device.now.temperature)
      /\ shown \in ShownRecord
  BY <1>2, <1>3 DEF ShownRecord, Number
<1> HIDE DEF shown
<1>5. /\ ServedOK(status[r]) /\ served.waits = status[r].waits \ {"temperature"}
      /\ served.done = status[r].done \cup {"temperature"} /\ served.seen = status[r].seen
      /\ served.shown = shown /\ served.disturbed = status[r].disturbed
      /\ device.now \in status[r].seen
  BY <1>1, <1>4, ServedFields
<1> HIDE DEF served
<1>6. UptimeOK(served) /\ DiskOK(served)
  BY <1>4, <1>5 DEF ServedOK, UptimeOK, DiskOK
<1>7. TemperatureOK(served)
  BY <1>4, <1>5 DEF TemperatureOK
<1>8. DoneOK(served)
  BY <1>1, <1>5 DEF ServedOK, DoneOK
<1>9. ServedOK(served)
  BY <1>6, <1>7, <1>8 DEF ServedOK
<1> QED
  BY <1>1, <1>4, <1>9, ArrivesOK DEF served

\* A rejected program fails the request.
LEMMA RejectedOK ==
  ASSUME StatusInv, NEW r \in Reader, NEW cause \in {"failed", "refused", "unparsable"},
         Rejected(r, cause)
  PROVE  StatusInv'
<1> DEFINE new == [status[r] EXCEPT !.pc = "failed", !.waits = {}, !.cause = cause]
<1>1. StatusOK(status[r])
  BY DEF StatusInv
<1>2. status' = [status EXCEPT ![r] = new] /\ UNCHANGED <<device, gauges>>
  BY DEF StatusInv, Rejected
<1>3. new.pc = "failed" /\ new \in StatusRecord
  BY <1>1 DEF StatusOK, StatusRecord
<1> HIDE DEF new
<1>4. StatusOK(new)
  BY <1>3 DEF StatusOK
<1>5. GaugesOK'
  BY <1>2 DEF StatusInv, GaugesOK
<1> QED
  BY <1>2, <1>4, <1>5, StatusStepOK

LEMMA GetDiskSpaceInformationOK ==
  ASSUME StatusInv, NEW r \in Reader, GetDiskSpaceInformation(r)
  PROVE  StatusInv'
<1> DEFINE fs == ParseDf(device.now.used, device.now.available)
           shown == [status[r].shown EXCEPT !.fs = fs]
           served == Arrived(r, "df", shown)
<1>1. CASE NaN \in {fs[1], fs[2]}
  BY <1>1, RejectedOK DEF GetDiskSpaceInformation
<1>2. CASE NaN \notin {fs[1], fs[2]}
  <2>1. /\ Waits(r, "df") /\ Arrives(r, "df", shown)
        /\ "df" \in Commands /\ "df" \in Parts
    BY <1>2 DEF GetDiskSpaceInformation, Commands, Parts
  <2>2. device.now.used \in Sizes /\ device.now.available \in Sizes
    BY DEF StatusInv, DeviceRecord, Measures
  <2>3. fs = <<device.now.used, device.now.available>>
    <3> DEFINE used == device.now.used
               available == device.now.available
    <3>1. used \in Nat /\ available \in Nat /\ fs = ParseDf(used, available)
      BY <2>2, StatusAssumption
    <3>2. NaN \notin {ParseDf(used, available)[1], ParseDf(used, available)[2]}
      BY <1>2
    <3> HIDE DEF used, available, fs
    <3>3. fs = <<used, available>>
      BY <3>1, <3>2, ParseDfTells
    <3> QED
      BY <3>3 DEF used, available
  <2>4. fs \in Disk
    BY <2>2, <2>3 DEF Disk
  <2> HIDE DEF fs
  <2>5. status[r].shown \in ShownRecord
    BY DEF StatusInv, StatusOK, StatusRecord
  <2>6. /\ shown.fs = fs /\ shown.printed = status[r].shown.printed
        /\ shown.uptime = status[r].shown.uptime /\ shown.upThen = status[r].shown.upThen
        /\ shown.temperature = status[r].shown.temperature
        /\ shown \in ShownRecord
    BY <2>4, <2>5 DEF ShownRecord
  <2> HIDE DEF shown
  <2>7. /\ ServedOK(status[r]) /\ served.waits = status[r].waits \ {"df"}
        /\ served.done = status[r].done \cup {"df"} /\ served.seen = status[r].seen
        /\ served.shown = shown /\ served.disturbed = status[r].disturbed
        /\ device.now \in status[r].seen
    BY <2>1, <2>6, ServedFields
  <2> HIDE DEF served
  <2>8. UptimeOK(served) /\ TemperatureOK(served)
    BY <2>6, <2>7 DEF ServedOK, UptimeOK, TemperatureOK
  <2>9. DiskOK(served)
    BY <2>3, <2>6, <2>7 DEF DiskOK
  <2>10. DoneOK(served)
    BY <2>1, <2>7 DEF ServedOK, DoneOK, MayRun, Executable
  <2>11. ServedOK(served)
    BY <2>8, <2>9, <2>10 DEF ServedOK
  <2> QED
    BY <2>1, <2>6, <2>11, ArrivesOK DEF served
<1> QED
  BY <1>1, <1>2

\* uptime has printed the time of the boot, or nothing that is a time.
LEMMA UptimePrintsOK ==
  ASSUME StatusInv, NEW r \in Reader, NEW printed \in {BootPrinted, NaN}, UptimePrints(r, printed)
  PROVE  StatusInv'
<1> DEFINE old == status[r]
           shown == [old.shown EXCEPT !.printed = printed]
           waits == old.waits \ {"uptime"}
           done == old.done \cup {"uptime"}
           disturbed == device.offset # device.serverOffset
           new == [old EXCEPT !.waits = waits, !.done = done, !.shown = shown,
                              !.disturbed = disturbed]
<1>1. /\ old \in StatusRecord /\ Waits(r, "uptime") /\ ServedOK(old)
      /\ "uptime" \in old.waits /\ old.pc \in {"status", "metrics"} /\ device.now \in old.seen
  BY DEF StatusInv, UptimePrints, Waits, Serves, StatusOK
<1>2. /\ device.clock \in Int /\ device.up \in Int /\ device.offset \in Int
      /\ device.serverOffset \in Int /\ BootPrinted = device.clock - device.up + device.offset
  BY StatusAssumption DEF StatusInv, DeviceRecord, BootPrinted
<1>3. printed \in Number
  BY <1>2 DEF Number
<1>4. /\ shown.fs = old.shown.fs /\ shown.printed = printed
      /\ shown.uptime = old.shown.uptime /\ shown.upThen = old.shown.upThen
      /\ shown.temperature = old.shown.temperature
      /\ shown \in ShownRecord
  BY <1>1, <1>3 DEF StatusRecord, ShownRecord
<1>5. status' = [status EXCEPT ![r] = new] /\ UNCHANGED <<device, gauges>>
  BY DEF StatusInv, UptimePrints
<1> HIDE DEF shown
<1>6. /\ new.pc = old.pc /\ new.shown = shown /\ new.waits = waits /\ new.done = done
      /\ new.disturbed = disturbed /\ new.seen = old.seen /\ new \in StatusRecord
  <2>1. waits \in SUBSET Parts /\ done \in SUBSET Parts /\ disturbed \in BOOLEAN
    BY <1>1 DEF StatusRecord, Parts, Commands
  <2> HIDE DEF waits, done, disturbed
  <2> QED
    BY <1>1, <1>4, <2>1 DEF StatusRecord
<1> HIDE DEF new
<1>7. UptimeOK(new)
  <2>1. "parse" \in new.waits /\ "uptime" \notin new.waits
    BY <1>1, <1>6 DEF ServedOK, UptimeOK
  <2>2. ~new.disturbed => printed = NaN \/ printed = (device.clock - device.up) + device.serverOffset
    BY <1>2, <1>6
  <2> QED
    BY <1>4, <1>6, <2>1, <2>2 DEF UptimeOK
<1>8. DiskOK(new) /\ TemperatureOK(new) /\ MayRun("uptime")
  BY <1>1, <1>4, <1>6 DEF ServedOK, DiskOK, TemperatureOK, MayRun, Executable
<1>9. DoneOK(new)
  BY <1>1, <1>6, <1>8 DEF ServedOK, DoneOK
<1>10. StatusOK(new)
  BY <1>1, <1>5, <1>6, <1>7, <1>8, <1>9 DEF StatusOK, ServedOK
<1>11. GaugesOK'
  BY <1>5 DEF StatusInv, GaugesOK
<1> QED
  BY <1>5, <1>10, <1>11, StatusStepOK

LEMMA GetUpTimeOK ==
  ASSUME StatusInv, NEW r \in Reader, GetUpTime(r)
  PROVE  StatusInv'
<1> DEFINE printed == status[r].shown.printed
           parsed == IF printed = NaN THEN NaN ELSE ParseUptime(printed)
           shown == [status[r].shown EXCEPT !.uptime = parsed, !.upThen = device.up]
           served == Arrived(r, "parse", shown)
<1>1. /\ Waits(r, "parse") /\ "uptime" \notin status[r].waits /\ Arrives(r, "parse", shown)
      /\ "parse" \in Parts /\ "parse" \in status[r].waits
  BY DEF GetUpTime, Waits, Parts
<1>2. status[r].shown \in ShownRecord /\ ServedOK(status[r])
  BY <1>1 DEF StatusInv, StatusOK, StatusRecord, Waits, Serves
<1>3. /\ device.clock \in Int /\ device.up \in Nat /\ device.serverOffset \in Int
      /\ printed \in Number
  BY <1>2, StatusAssumption DEF StatusInv, DeviceRecord, ShownRecord
<1>4. /\ parsed \in Number
      /\ printed = (device.clock - device.up) + device.serverOffset =>
           printed = NaN \/ parsed = device.up
  BY <1>3 DEF ParseUptime, Number
<1>5. /\ shown.fs = status[r].shown.fs /\ shown.printed = printed
      /\ shown.uptime = parsed /\ shown.upThen = device.up
      /\ shown.temperature = status[r].shown.temperature
      /\ shown \in ShownRecord
  <2> HIDE DEF parsed
  <2> QED
    BY <1>2, <1>3, <1>4 DEF ShownRecord
<1> HIDE DEF shown, parsed
<1>6. /\ served.waits = status[r].waits \ {"parse"}
      /\ served.done = status[r].done \cup {"parse"} /\ served.seen = status[r].seen
      /\ served.shown = shown /\ served.disturbed = status[r].disturbed
  BY <1>1, <1>5, ServedFields
<1> HIDE DEF served
<1>7. UptimeOK(served)
  BY <1>1, <1>2, <1>4, <1>5, <1>6 DEF ServedOK, UptimeOK
<1>8. DiskOK(served) /\ TemperatureOK(served)
  BY <1>2, <1>5, <1>6 DEF ServedOK, DiskOK, TemperatureOK
<1>9. DoneOK(served) /\ "parse" \notin Commands
  BY <1>2, <1>6 DEF ServedOK, DoneOK, Commands
<1>10. ServedOK(served)
  BY <1>7, <1>8, <1>9 DEF ServedOK
<1> QED
  BY <1>1, <1>5, <1>10, ArrivesOK DEF served

LEMMA GetCurrentStatusOK ==
  ASSUME StatusInv, NEW r \in Reader, NEW metrics, GetCurrentStatus(r, metrics)
  PROVE  StatusInv'
<1> DEFINE pc == IF metrics THEN "metrics" ELSE "status"
           new == [NoStatus EXCEPT !.pc = pc, !.waits = Commands \cup {"parse"},
                                   !.seen = {device.now}]
<1>1. DeviceStatusDto \in ShownRecord
  BY DEF DeviceStatusDto, ShownRecord, Disk, Number
<1>2. device.now \in Measures /\ pc \in {"status", "metrics"}
  BY DEF StatusInv, DeviceRecord
<1>3. status' = [status EXCEPT ![r] = new] /\ UNCHANGED <<device, gauges>>
  BY DEF GetCurrentStatus
<1> HIDE DEF pc
<1>4. /\ new.pc = pc /\ new.waits = Parts /\ new.seen = {device.now} /\ new \in StatusRecord
  BY <1>1, <1>2 DEF NoStatus, StatusRecord, Parts
<1> HIDE DEF new
<1>5. ServedOK(new)
  BY <1>4 DEF ServedOK, UptimeOK, DiskOK, TemperatureOK, DoneOK, Commands, Parts
<1>6. StatusOK(new)
  BY <1>2, <1>4, <1>5 DEF StatusOK
<1>7. GaugesOK'
  BY <1>3 DEF StatusInv, GaugesOK
<1> QED
  BY <1>3, <1>6, <1>7, StatusStepOK

\* Time passes for clock and boot alike, and who is between uptime and its parse is told of
\* a clock that is set; who is served sees what there is to measure.
DeviceGoesOn(clock, up, offset, now) ==
  /\ device' = [device EXCEPT !.clock = clock, !.up = up, !.offset = offset, !.now = now]
  /\ status' = [r \in Reader |-> status'[r]]
  /\ gauges' = gauges
  /\ \A r \in Reader :
       /\ status'[r] \in StatusRecord
       /\ status'[r].pc = status[r].pc /\ status'[r].waits = status[r].waits
       /\ status'[r].done = status[r].done /\ status'[r].shown = status[r].shown
       /\ status[r].seen \subseteq status'[r].seen
       /\ Serves(r) => now \in status'[r].seen
       /\ \/ status'[r].disturbed
          \/ /\ status'[r].disturbed = status[r].disturbed
             /\ \/ clock - up = device.clock - device.up
                \/ Waits(r, "parse") => Waits(r, "uptime")

LEMMA DeviceStepOK ==
  ASSUME StatusInv, NEW clock \in Nat, NEW up \in Nat, NEW offset \in Offsets, NEW now \in Measures,
         DeviceGoesOn(clock, up, offset, now)
  PROVE  StatusInv'
<1>1. /\ device' \in DeviceRecord
      /\ device'.rules = device.rules /\ device'.now = now
      /\ device'.serverOffset = device.serverOffset
      /\ device'.clock = clock /\ device'.up = up
  BY DEF StatusInv, DeviceRecord, DeviceGoesOn
<1>2. \A command : MayRun(command)' <=> MayRun(command)
  BY <1>1 DEF MayRun, IsAllowedToExecuteProgram
<1>3. ASSUME NEW r \in Reader PROVE StatusOK(status[r])'
  <2> DEFINE old == status[r]
             new == status'[r]
  <2>1. StatusOK(old)
    BY DEF StatusInv
  <2>2. /\ new.pc = old.pc /\ new.waits = old.waits /\ new.done = old.done
        /\ new.shown = old.shown /\ new \in StatusRecord /\ old.seen \subseteq new.seen
    BY DEF DeviceGoesOn
  <2>3. \/ new.disturbed
        \/ /\ new.disturbed = old.disturbed
           /\ \/ clock - up = device.clock - device.up
              \/ Waits(r, "parse") => Waits(r, "uptime")
    BY DEF DeviceGoesOn
  <2>4. ASSUME old.pc \in {"status", "metrics", "ok"} PROVE ServedOK(status[r])'
    <3>1. UptimeOK(old) /\ DiskOK(old) /\ TemperatureOK(old) /\ DoneOK(old)
      BY <2>1, <2>4 DEF StatusOK, ServedOK
    <3>2. UptimeOK(status[r])'
      <4>1. CASE old.pc = "ok"
        <5>1. old.waits = {}
          BY <2>1, <4>1 DEF StatusOK
        <5> QED
          BY <2>2, <2>3, <3>1, <5>1 DEF UptimeOK
      <4>2. CASE Serves(r)
        <5>1. Waits(r, "parse") <=> "parse" \in old.waits
          BY <4>2 DEF Waits
        <5>2. Waits(r, "uptime") <=> "uptime" \in old.waits
          BY <4>2 DEF Waits
        <5>3. CASE new.disturbed
          BY <2>2, <3>1, <5>3 DEF UptimeOK
        <5>4. CASE new.disturbed = old.disturbed /\ clock - up = device.clock - device.up
          BY <1>1, <2>2, <3>1, <5>4 DEF UptimeOK
        <5>5. CASE new.disturbed = old.disturbed /\ ("parse" \in old.waits => "uptime" \in old.waits)
          BY <2>2, <3>1, <5>5 DEF UptimeOK
        <5> QED
          BY <2>3, <5>1, <5>2, <5>3, <5>4, <5>5
      <4> QED
        BY <2>4, <4>1, <4>2 DEF Serves
    <3>3. DiskOK(status[r])'
      BY <2>2, <3>1 DEF DiskOK
    <3>4. TemperatureOK(status[r])'
      BY <2>2, <3>1 DEF TemperatureOK
    <3>5. DoneOK(status[r])'
      BY <1>2, <2>2, <3>1 DEF DoneOK
    <3> QED
      BY <3>2, <3>3, <3>4, <3>5 DEF ServedOK
  <2>5. old.pc \in {"status", "metrics"} => now \in new.seen
    BY DEF Serves, DeviceGoesOn
  <2> QED
    BY <1>1, <2>1, <2>2, <2>4, <2>5 DEF StatusOK
<1>4. GaugesOK'
  BY DEF StatusInv, GaugesOK, DeviceGoesOn
<1>5. status' = [r \in Reader |-> status'[r]]
  BY DEF DeviceGoesOn
<1> QED
  BY <1>1, <1>3, <1>4, <1>5 DEF StatusInv

LEMMA PassesOK ==
  ASSUME StatusInv, NEW now \in Measures, Passes(now)
  PROVE  StatusInv'
<1>1. /\ device.clock \in Nat /\ device.up \in Nat /\ device.offset \in Offsets
      /\ device \in DeviceRecord
  BY DEF StatusInv, DeviceRecord
<1>2. /\ device.clock + 1 \in Nat /\ device.up + 1 \in Nat
      /\ (device.clock + 1) - (device.up + 1) = device.clock - device.up
  BY <1>1
<1>3. device' = [device EXCEPT !.clock = device.clock + 1, !.up = device.up + 1,
                               !.offset = device.offset, !.now = now]
  BY <1>1 DEF Passes, DeviceRecord
<1>4. status' = [r \in Reader |-> status'[r]] /\ UNCHANGED gauges
  BY DEF Passes
<1>5. ASSUME NEW r \in Reader
      PROVE  /\ status'[r] \in StatusRecord
             /\ status'[r].pc = status[r].pc /\ status'[r].waits = status[r].waits
             /\ status'[r].done = status[r].done /\ status'[r].shown = status[r].shown
             /\ status[r].seen \subseteq status'[r].seen
             /\ Serves(r) => now \in status'[r].seen
             /\ status'[r].disturbed = status[r].disturbed
  <2> DEFINE more == [status[r] EXCEPT !.seen = @ \cup {now}]
  <2>1. status[r] \in StatusRecord
    BY DEF StatusInv, StatusOK
  <2>2. /\ more.pc = status[r].pc /\ more.waits = status[r].waits /\ more.done = status[r].done
        /\ more.shown = status[r].shown /\ more.disturbed = status[r].disturbed
        /\ more.seen = status[r].seen \cup {now} /\ more \in StatusRecord
    BY <2>1 DEF StatusRecord
  <2>3. status'[r] = IF Serves(r) THEN more ELSE status[r]
    BY DEF Passes
  <2> HIDE DEF more
  <2> QED
    BY <2>1, <2>2, <2>3
<1>6. PICK clock \in Nat, up \in Nat, offset \in Offsets :
        clock = device.clock + 1 /\ up = device.up + 1 /\ offset = device.offset
  BY <1>1, <1>2
<1>7. \A r \in Reader :
           /\ status'[r] \in StatusRecord
           /\ status'[r].pc = status[r].pc /\ status'[r].waits = status[r].waits
           /\ status'[r].done = status[r].done /\ status'[r].shown = status[r].shown
           /\ status[r].seen \subseteq status'[r].seen
           /\ Serves(r) => now \in status'[r].seen
           /\ \/ status'[r].disturbed
              \/ /\ status'[r].disturbed = status[r].disturbed
                 /\ \/ clock - up = device.clock - device.up
                    \/ Waits(r, "parse") => Waits(r, "uptime")
  BY <1>2, <1>5, <1>6
<1>8. device' = [device EXCEPT !.clock = clock, !.up = up, !.offset = offset, !.now = now]
  BY <1>3, <1>6
<1>9. DeviceGoesOn(clock, up, offset, now)
  BY <1>4, <1>7, <1>8 DEF DeviceGoesOn
<1> QED
  BY <1>9, DeviceStepOK

LEMMA SetsOK ==
  ASSUME StatusInv, NEW clock \in Nat, NEW zone \in Offsets, Sets(clock, zone)
  PROVE  StatusInv'
<1>1. device.up \in Nat /\ device.clock \in Nat /\ device \in DeviceRecord /\ device.now \in Measures
  BY DEF StatusInv, DeviceRecord
<1>2. device' = [device EXCEPT !.clock = clock, !.up = device.up, !.offset = zone,
                               !.now = device.now]
  BY <1>1 DEF Sets, DeviceRecord
<1>3. status' = [r \in Reader |-> status'[r]] /\ UNCHANGED gauges
  BY DEF Sets
<1>4. ASSUME NEW r \in Reader
      PROVE  /\ status'[r] \in StatusRecord
             /\ status'[r].pc = status[r].pc /\ status'[r].waits = status[r].waits
             /\ status'[r].done = status[r].done /\ status'[r].shown = status[r].shown
             /\ status[r].seen \subseteq status'[r].seen
             /\ Serves(r) => device.now \in status'[r].seen
             /\ \/ status'[r].disturbed
                \/ /\ status'[r].disturbed = status[r].disturbed
                   /\ \/ clock - device.up = device.clock - device.up
                      \/ Waits(r, "parse") => Waits(r, "uptime")
  <2> DEFINE told == [status[r] EXCEPT !.disturbed = TRUE]
  <2>1. status[r] \in StatusRecord /\ (Serves(r) => device.now \in status[r].seen)
    BY DEF StatusInv, StatusOK, Serves
  <2>2. /\ told.pc = status[r].pc /\ told.waits = status[r].waits /\ told.done = status[r].done
        /\ told.shown = status[r].shown /\ told.disturbed /\ told.seen = status[r].seen
        /\ told \in StatusRecord
    BY <2>1 DEF StatusRecord
  <2>3. status'[r] = IF Waits(r, "parse") /\ ~Waits(r, "uptime") /\ clock # device.clock
                     THEN told ELSE status[r]
    BY DEF Sets
  <2> HIDE DEF told
  <2>4. CASE Waits(r, "parse") /\ ~Waits(r, "uptime") /\ clock # device.clock
    BY <2>1, <2>2, <2>3, <2>4
  <2>5. CASE ~(Waits(r, "parse") /\ ~Waits(r, "uptime") /\ clock # device.clock)
    <3>1. status'[r] = status[r]
      BY <2>3, <2>5
    <3> QED
      BY <2>1, <2>5, <3>1
  <2> QED
    BY <2>4, <2>5
<1>5. PICK up \in Nat, now \in Measures : up = device.up /\ now = device.now
  BY <1>1
<1>6. \A r \in Reader :
           /\ status'[r] \in StatusRecord
           /\ status'[r].pc = status[r].pc /\ status'[r].waits = status[r].waits
           /\ status'[r].done = status[r].done /\ status'[r].shown = status[r].shown
           /\ status[r].seen \subseteq status'[r].seen
           /\ Serves(r) => now \in status'[r].seen
           /\ \/ status'[r].disturbed
              \/ /\ status'[r].disturbed = status[r].disturbed
                 /\ \/ clock - up = device.clock - device.up
                    \/ Waits(r, "parse") => Waits(r, "uptime")
  BY <1>4, <1>5
<1>7. device' = [device EXCEPT !.clock = clock, !.up = up, !.offset = zone, !.now = now]
  BY <1>2, <1>5
<1>8. DeviceGoesOn(clock, up, zone, now)
  BY <1>3, <1>6, <1>7 DEF DeviceGoesOn
<1> QED
  BY <1>8, DeviceStepOK

LEMMA StatusInitOK == Init => StatusInv
<1> SUFFICES ASSUME Init PROVE StatusInv
  OBVIOUS
<1>1. /\ device \in Devices /\ gauges = <<>> /\ status = [r \in Reader |-> NoStatus]
  BY DEF Init, StatusInit
<1>2. device \in DeviceRecord
  BY <1>1 DEF Devices, DeviceRecord
<1>3. DeviceStatusDto \in ShownRecord
  BY DEF DeviceStatusDto, ShownRecord, Disk, Number
<1>4. StatusOK(NoStatus)
  BY <1>3 DEF NoStatus, StatusOK, StatusRecord
<1> QED
  BY <1>1, <1>2, <1>4 DEF StatusInv, GaugesOK

LEMMA StatusNextOK == StatusInv /\ [Next]_vars => StatusInv'
<1> SUFFICES ASSUME StatusInv, [Next]_vars PROVE StatusInv'
  OBVIOUS
<1>1. StatusNext \/ UNCHANGED statusVars
  BY DEF Next, Only, vars
<1>2. CASE UNCHANGED statusVars
  BY <1>2 DEF statusVars, StatusInv, StatusOK, ServedOK, UptimeOK, DiskOK, TemperatureOK,
              DoneOK, MayRun, IsAllowedToExecuteProgram, GaugesOK
<1>3. ASSUME NEW r \in Reader, NEW metrics \in BOOLEAN, GetCurrentStatus(r, metrics)
      PROVE  StatusInv'
  BY <1>3, GetCurrentStatusOK
<1>4. ASSUME NEW r \in Reader, NEW command \in Commands, CommandFails(r, command)
      PROVE  StatusInv'
  BY <1>4, RejectedOK DEF CommandFails
<1>5. ASSUME NEW r \in Reader, StatusStep(r) PROVE StatusInv'
  BY <1>4, <1>5, GetSerialOK, GetTemperatureOK, GetDiskSpaceInformationOK, UptimePrintsOK,
     GetUpTimeOK DEF StatusStep
<1>6. ASSUME NEW now \in Measures, Passes(now) PROVE StatusInv'
  BY <1>6, PassesOK
<1>7. ASSUME NEW clock \in 0..LastTime, NEW zone \in Offsets, Sets(clock, zone)
      PROVE  StatusInv'
  BY <1>7, SetsOK, StatusAssumption
<1> QED
  BY <1>1, <1>2, <1>3, <1>5, <1>6, <1>7 DEF StatusNext

\* What an answered status shows of the disk and the temperature was so at a moment of its
\* request, and the time since the boot at the answer of uptime, as far as the parsers go:
\* for any values, and however requests, the clock and the device interleave.
\* (getCurrentStatus, parseDf, parseTemperature, parseUptime)
THEOREM StatusesAreCurrent == Spec => []StatusIsCurrent
<1>1. StatusInv => StatusIsCurrent
  <2> SUFFICES ASSUME StatusInv, NEW r \in Reader, status[r].pc = "ok"
               PROVE  LET shown == status[r].shown IN
                      /\ \E now \in status[r].seen : shown.fs = <<now.used, now.available>>
                      /\ \E now \in status[r].seen :
                           now.temperature < 0 \/ shown.temperature = now.temperature
                      /\ ~status[r].disturbed /\ shown.printed # NaN =>
                           shown.uptime = shown.upThen
    BY DEF StatusIsCurrent, Answered
  <2>1. ServedOK(status[r]) /\ status[r].waits = {} /\ status[r].seen \subseteq Measures
    BY DEF StatusInv, StatusOK, StatusRecord
  <2>2. \E now \in status[r].seen : status[r].shown.fs = <<now.used, now.available>>
    BY <2>1 DEF ServedOK, DiskOK
  <2>3. PICK now \in status[r].seen :
          status[r].shown.temperature = ParseTemperature(now.temperature)
    BY <2>1 DEF ServedOK, TemperatureOK
  <2>4. now.temperature < 0 \/ status[r].shown.temperature = now.temperature
    BY <2>3 DEF ParseTemperature
  <2>5. ~status[r].disturbed /\ status[r].shown.printed # NaN =>
          status[r].shown.uptime = status[r].shown.upThen
    BY <2>1 DEF ServedOK, UptimeOK
  <2> QED
    BY <2>2, <2>4, <2>5
<1> QED
  BY <1>1, StatusInitOK, StatusNextOK, PTL DEF Spec

\* No status and no metrics unless each of their programs succeeded, and none under a rule
\* that does not let one of them run as root, as the repository's rule does not the one
\* that reads the serial number.  (the rule for pkexec, getCurrentStatus)
THEOREM StatusesNeedEveryProgram == Spec => []StatusNeedsEveryProgram
<1>1. StatusInv => StatusNeedsEveryProgram
  <2> SUFFICES ASSUME StatusInv, NEW r \in Reader, status[r].pc = "ok",
                      NEW command \in Commands
               PROVE  command \in status[r].done /\ MayRun(command)
    BY DEF StatusNeedsEveryProgram, Answered
  <2>1. ServedOK(status[r]) /\ status[r].waits = {}
    BY DEF StatusInv, StatusOK
  <2> QED
    BY <2>1 DEF ServedOK, DoneOK
<1> QED
  BY <1>1, StatusInitOK, StatusNextOK, PTL DEF Spec

(***************************************************************************)
(* Logs.  The day of a time begins at most a day before it, and never      *)
(* after it.                                                               *)
(***************************************************************************)
LEMMA DayBegins ==
  ASSUME NEW since \in Nat
  PROVE  /\ SinceArgument(since) \in Int
         /\ SinceArgument(since) <= since /\ since < SinceArgument(since) + Day
<1>1. Day \in Nat \ {0}
  BY DayAssumption
<1>2. \A a \in Nat, b \in Nat \ {0} :
        b * (a \div b) \in Int /\ b * (a \div b) <= a /\ a < b * (a \div b) + b
  OBVIOUS
<1> QED
  BY <1>1, <1>2 DEF SinceArgument

West == IF shift < 0 THEN -shift ELSE 0

QueryRecord ==
  [pc : {"idle", "opens", "ok", "bad request", "failed"},
   name : DOMAIN SYSLOG_SERVICES \cup {Undefined}, format : SyslogFormats \cup {Undefined},
   since : Time \cup {Undefined, Unparsable}, shown : SUBSET Time]

\* What a request asked for, and was answered.
QueryOK(query) ==
  /\ query \in QueryRecord
  /\ query.pc = "opens" =>
       /\ query.name \in DOMAIN SYSLOG_SERVICES
       /\ SYSLOG_SERVICES[query.name].isJournal => query.since # Unparsable
  /\ query.pc = "ok" =>
       IF query.since = Undefined \/ ~SYSLOG_SERVICES[query.name].isJournal
       THEN query.shown = logs[query.name]
       ELSE /\ {entry \in logs[query.name] : entry >= query.since + West} \subseteq query.shown
            /\ \A entry \in query.shown : entry > query.since - Day - shift

SyslogInv ==
  /\ logs \in [DOMAIN SYSLOG_SERVICES -> SUBSET Time]
  /\ shift \in Shifts
  /\ syslog = [r \in Watcher |-> syslog[r]]
  /\ \A r \in Watcher : QueryOK(syslog[r])

LEMMA TimesAreNumbers == Time \subseteq Int
  BY DEF Time

LEMMA LogOK ==
  ASSUME SyslogInv, NEW r \in Watcher, NEW new, QueryOK(new), Log(r, new)
  PROVE  SyslogInv'
<1>1. syslog' = [syslog EXCEPT ![r] = new] /\ UNCHANGED <<logs, shift>>
  BY DEF Log
<1>2. \A s \in Watcher : QueryOK(syslog'[s])
  BY <1>1 DEF SyslogInv
<1>3. syslog' = [s \in Watcher |-> syslog'[s]]
  BY <1>1 DEF SyslogInv
<1>4. \A s \in Watcher : QueryOK(syslog[s])'
  BY <1>1, <1>2 DEF QueryOK, West
<1> QED
  BY <1>1, <1>3, <1>4 DEF SyslogInv

\* What journalctl prints from midnight of the day on.
LEMMA JournalSinceBounds ==
  ASSUME SyslogInv, NEW log \in SUBSET Time, NEW since \in Time
  PROVE  LET entries == {entry \in log : entry >= SinceArgument(since) - shift} IN
         /\ {entry \in log : entry >= since + West} \subseteq entries
         /\ \A entry \in entries : entry > since - Day - shift
<1>1. /\ shift \in Int /\ since \in Nat /\ Day \in Int /\ log \subseteq Int
      /\ SinceArgument(since) \in Int
      /\ SinceArgument(since) <= since /\ since < SinceArgument(since) + Day
  BY DayBegins, DayAssumption, TimesAreNumbers DEF SyslogInv, Time
<1>2. West \in Int /\ West >= -shift
  BY <1>1 DEF West
<1>3. ASSUME NEW entry \in log, entry >= since + West
      PROVE  entry >= SinceArgument(since) - shift
  BY <1>1, <1>2, <1>3
<1>4. ASSUME NEW entry \in log, entry >= SinceArgument(since) - shift
      PROVE  entry > since - Day - shift
  BY <1>1, <1>4
<1> QED
  BY <1>3, <1>4

LEMMA GetServiceLogOK ==
  ASSUME SyslogInv, NEW r \in Watcher, NEW dto \in SyslogDto, GetServiceLog(r, dto)
  PROVE  SyslogInv'
<1> DEFINE pc == IF SYSLOG_SERVICES[dto.name].isJournal
                 THEN IF dto.since = Unparsable THEN "failed" ELSE "opens"
                 ELSE IF dto.format \in {Undefined, "short"} THEN "opens"
                 ELSE "bad request"
           new == [name |-> dto.name, format |-> dto.format, since |-> dto.since, shown |-> {},
                   pc |-> pc]
<1>1. Log(r, new)
  BY DEF GetServiceLog
<1>2. /\ pc \in {"opens", "failed", "bad request"}
      /\ pc = "opens" /\ SYSLOG_SERVICES[dto.name].isJournal => dto.since # Unparsable
  OBVIOUS
<1>3. /\ dto.name \in DOMAIN SYSLOG_SERVICES /\ dto.format \in SyslogFormats \cup {Undefined}
      /\ dto.since \in Time \cup {Undefined, Unparsable}
  BY DEF SyslogDto
<1> HIDE DEF pc
<1>4. new.pc = pc /\ new.name = dto.name /\ new.since = dto.since /\ new \in QueryRecord
  BY <1>2, <1>3 DEF QueryRecord
<1> HIDE DEF new
<1>5. QueryOK(new)
  BY <1>2, <1>3, <1>4 DEF QueryOK
<1> QED
  BY <1>1, <1>5, LogOK

LEMMA StreamsLogOK ==
  ASSUME SyslogInv, NEW r \in Watcher, StreamsLog(r)
  PROVE  SyslogInv'
<1> DEFINE query == syslog[r]
           log == logs[query.name]
           shown == IF SYSLOG_SERVICES[query.name].isJournal THEN JournalSince(log, query.since)
                    ELSE log
           new == [query EXCEPT !.pc = "ok", !.shown = shown]
<1>1. /\ query \in QueryRecord /\ query.name \in DOMAIN SYSLOG_SERVICES
      /\ SYSLOG_SERVICES[query.name].isJournal => query.since \in Time \cup {Undefined}
  BY DEF SyslogInv, QueryOK, QueryRecord, StreamsLog
<1>2. log \in SUBSET Time
  BY <1>1 DEF SyslogInv
<1>3. shown \in SUBSET Time
  BY <1>2 DEF JournalSince
<1>4. Log(r, new)
  BY DEF StreamsLog
<1>5. /\ new.pc = "ok" /\ new.name = query.name /\ new.since = query.since /\ new.shown = shown
      /\ new \in QueryRecord
  <2> HIDE DEF shown
  <2> QED
    BY <1>1, <1>3 DEF QueryRecord
<1>6. CASE SYSLOG_SERVICES[query.name].isJournal /\ query.since # Undefined
  <2>1. shown = {entry \in log : entry >= SinceArgument(query.since) - shift}
    BY <1>6 DEF JournalSince
  <2>2. query.since \in Time
    BY <1>1, <1>6
  <2>3. /\ {entry \in log : entry >= query.since + West} \subseteq shown
        /\ \A entry \in shown : entry > query.since - Day - shift
    BY <1>2, <2>1, <2>2, JournalSinceBounds
  <2> HIDE DEF new, shown
  <2>4. QueryOK(new)
    BY <1>5, <1>6, <2>3 DEF QueryOK
  <2> QED
    BY <1>4, <2>4, LogOK
<1>7. CASE ~(SYSLOG_SERVICES[query.name].isJournal /\ query.since # Undefined)
  <2>1. shown = log
    BY <1>7 DEF JournalSince
  <2> HIDE DEF new, shown
  <2>2. QueryOK(new)
    BY <1>5, <1>7, <2>1 DEF QueryOK
  <2> QED
    BY <1>4, <2>2, LogOK
<1> QED
  BY <1>6, <1>7

LEMMA OpenFailsOK ==
  ASSUME SyslogInv, NEW r \in Watcher, OpenFails(r)
  PROVE  SyslogInv'
<1> DEFINE new == [syslog[r] EXCEPT !.pc = "failed"]
<1>1. syslog[r] \in QueryRecord
  BY DEF SyslogInv, QueryOK
<1>2. new.pc = "failed" /\ new \in QueryRecord
  BY <1>1 DEF QueryRecord
<1>3. Log(r, new)
  BY DEF OpenFails
<1> HIDE DEF new
<1>4. QueryOK(new)
  BY <1>2 DEF QueryOK
<1> QED
  BY <1>3, <1>4, LogOK

LEMMA SyslogInitOK == Init => SyslogInv
<1> SUFFICES ASSUME Init PROVE SyslogInv
  OBVIOUS
<1>1. /\ logs \in [DOMAIN SYSLOG_SERVICES -> {Time}] /\ shift \in Shifts
      /\ syslog = [r \in Watcher |-> NoQuery]
  BY DEF Init, SyslogInit
<1>2. QueryOK(NoQuery)
  BY DEF QueryOK, QueryRecord, NoQuery
<1>3. logs \in [DOMAIN SYSLOG_SERVICES -> SUBSET Time]
  BY <1>1
<1> QED
  BY <1>1, <1>2, <1>3 DEF SyslogInv

LEMMA SyslogNextOK == SyslogInv /\ [Next]_vars => SyslogInv'
<1> SUFFICES ASSUME SyslogInv, [Next]_vars PROVE SyslogInv'
  OBVIOUS
<1>1. SyslogNext \/ UNCHANGED syslogVars
  BY DEF Next, Only, vars
<1>2. CASE UNCHANGED syslogVars
  BY <1>2 DEF syslogVars, SyslogInv, QueryOK, West
<1> QED
  BY <1>1, <1>2, GetServiceLogOK, StreamsLogOK, OpenFailsOK DEF SyslogNext

\* How far the journal is from the documented filter, at most: nothing newer than what was
\* asked for is missing but for the first hours in a zone west of UTC, and nothing is older
\* than a day and the zone's offset before it: for any length of a day, any zone and any
\* time.  (JournalctlService.getArgs)
THEOREM LogsBeginAtTheirDay == Spec => []SinceBounds
<1>1. SyslogInv => SinceBounds
  BY DEF SyslogInv, QueryOK, West, SinceBounds
<1> QED
  BY <1>1, SyslogInitOK, SyslogNextOK, PTL DEF Spec

(* Calls.  A call of ChildProcessService is one of ShellCall: it is        *)
(* settled once.  A string made of chunks of whole characters is what was  *)
(* printed, as no character is cut.                                        *)
(***************************************************************************)
Char == {"char", "lead", "trail", "long", "?", ""}

CallOK(child) ==
  /\ child.text \in Seq(Char)
  /\ child.phase = "error" => child.promise = "pending"
  /\ child.phase \in {"runs", "exited"} /\ child.program.kind = "spawn" =>
       child.promise = "pending"
  /\ child.promise = "resolved" => child.phase = "closed"
  /\ child.phase # "none" /\ child.program.starts /\ child.program.output \in Seq({"char"}) =>
       child.text \o child.unread = child.program.output

CallInv == ChildInv /\ \A c \in Child : CallOK(children[c])

LEMMA BytesAreChars ==
  ASSUME NEW chunk \in Seq(Byte)
  PROVE  chunk \in Seq(Char)
<1>1. Byte \subseteq Char
  BY DEF Byte, Char
<1>2. /\ chunk = [i \in 1..Len(chunk) |-> chunk[i]] /\ Len(chunk) \in Nat
      /\ \A i \in 1..Len(chunk) : chunk[i] \in Byte
  OBVIOUS
<1>3. chunk \in [1..Len(chunk) -> Char]
  BY <1>1, <1>2
<1> QED
  BY <1>2, <1>3

LEMMA DecodedType ==
  ASSUME NEW chunk \in Seq(Byte)
  PROVE  Decoded(chunk) \in Seq(Char)
<1>1. ASSUME NEW i \in 1..Len(chunk) PROVE Decoded(chunk)[i] \in Char
  <2>1. i \in DOMAIN chunk
    OBVIOUS
  <2>2. CASE chunk[i] = "lead"
    BY <2>1, <2>2 DEF Decoded, Char
  <2>3. CASE chunk[i] = "trail"
    BY <2>1, <2>3 DEF Decoded, Char
  <2>4. CASE chunk[i] \notin {"lead", "trail"}
    BY <2>1, <2>4 DEF Decoded, Char
  <2> QED
    BY <2>2, <2>3, <2>4
<1>2. DOMAIN Decoded(chunk) = 1..Len(chunk) /\ Len(chunk) \in Nat
  BY DEF Decoded
<1>3. Decoded(chunk) = [i \in 1..Len(chunk) |-> Decoded(chunk)[i]]
  BY DEF Decoded
<1> HIDE DEF Byte
<1>4. Decoded(chunk) \in [1..Len(chunk) -> Char]
  BY <1>1, <1>3
<1> QED
  BY <1>2, <1>4

LEMMA DecodedPlain ==
  ASSUME NEW chunk \in Seq({"char"})
  PROVE  Decoded(chunk) = chunk
<1>1. /\ DOMAIN chunk = 1..Len(chunk)
      /\ \A i \in 1..Len(chunk) : chunk[i] = "char"
      /\ chunk = [i \in 1..Len(chunk) |-> chunk[i]]
  OBVIOUS
<1>2. Decoded(chunk) = [i \in 1..Len(chunk) |-> "char"]
  BY <1>1 DEF Decoded
<1> QED
  BY <1>1, <1>2

\* What is left of whole characters is whole characters.
LEMMA PlainParts ==
  ASSUME NEW text \in Seq(Char), NEW chunk \in Seq(Byte), NEW rest \in Seq(Byte),
         text \o (chunk \o rest) \in Seq({"char"})
  PROVE  chunk \in Seq({"char"})
<1> DEFINE all == text \o (chunk \o rest)
           k == Len(text)
<1>1. chunk \o rest \in Seq(Byte) /\ Len(chunk \o rest) = Len(chunk) + Len(rest)
  BY ConcatProperties
<1>2. \A i \in 1..Len(chunk) : chunk[i] = (chunk \o rest)[i] /\ i \in 1..Len(chunk \o rest)
  BY <1>1, ConcatProperties
<1>3. /\ Len(all) = k + Len(chunk \o rest) /\ k \in Nat
      /\ \A i \in 1..Len(chunk \o rest) : all[k + i] = (chunk \o rest)[i]
  <2> DEFINE tail == chunk \o rest
  <2>1. text \in Seq(Char \cup Byte) /\ tail \in Seq(Char \cup Byte)
    BY <1>1
  <2> HIDE DEF tail
  <2>2. Len(text \o tail) = k + Len(tail) /\ k \in Nat /\ Len(tail) \in Nat
    BY <2>1, ConcatProperties
  <2>3. \A i \in 1..Len(tail) : (text \o tail)[k + i] = tail[i]
    BY <2>1, <2>2
  <2> QED
    BY <2>2, <2>3 DEF tail
<1>4. all \in Seq({"char"})
  OBVIOUS
<1> HIDE DEF all, k
<1>5. \A i \in 1..Len(chunk) : chunk[i] = "char"
  <2> SUFFICES ASSUME NEW i \in 1..Len(chunk) PROVE chunk[i] = "char"
    OBVIOUS
  <2>1. k + i \in 1..Len(all) /\ all[k + i] = chunk[i]
    BY <1>1, <1>2, <1>3
  <2> QED
    BY <1>4, <2>1
<1> QED
  BY <1>5

LEMMA TextMoves ==
  ASSUME NEW text \in Seq(Char), NEW chunk \in Seq(Char), NEW rest \in Seq(Char)
  PROVE  (text \o chunk) \o rest = text \o (chunk \o rest)
BY ConcatAssociative

LEMMA CallSetOK ==
  ASSUME CallInv, NEW c \in Child, NEW new, Set(c, new), ChildInv', CallOK(new)
  PROVE  CallInv'
  BY DEF CallInv, ChildInv, Set

LEMMA CallSpawnOK ==
  ASSUME CallInv, NEW c \in Child, NEW program \in Program, Spawn(c, program)
  PROVE  CallInv'
<1> DEFINE new == [program |-> program, phase |-> IF program.starts THEN "runs" ELSE "error",
                   unread |-> IF program.starts THEN program.output ELSE <<>>, text |-> <<>>,
                   promise |-> "pending"]
<1>1. Set(c, new) /\ ChildInv'
  BY SpawnOK DEF Spawn, CallInv
<1>2. program.output \in Seq(Byte)
  BY OutputAssumption DEF Program, Byte
<1>3. /\ new.text = <<>> /\ new.promise = "pending" /\ new.program = program
      /\ program.starts => new.unread = program.output
  OBVIOUS
<1> HIDE DEF new
<1>4. <<>> \in Seq(Char) /\ <<>> \o program.output = program.output
  BY <1>2, ConcatEmptySeq
<1>5. CallOK(new)
  BY <1>3, <1>4 DEF CallOK
<1> QED
  BY <1>1, <1>5, CallSetOK

LEMMA CallDataOK ==
  ASSUME CallInv, NEW c \in Child, Data(c)
  PROVE  CallInv'
<1> DEFINE child == children[c]
<1>1. ChildOK(child) /\ CallOK(child) /\ ChildInv /\ ChildInv'
  BY DataOK DEF CallInv, ChildInv
<1>2. child.unread \in Seq(Byte) /\ child.unread # <<>> /\ child.phase # "none"
  BY <1>1 DEF ChildOK, ChildRecord, Unborn, Data
<1>3. PICK n \in 1..Len(child.unread) :
        LET chunk == SubSeq(child.unread, 1, n)
            rest == SubSeq(child.unread, n + 1, Len(child.unread))
            read == IF Streams(c) THEN chunk ELSE Decoded(chunk)
        IN Set(c, [child EXCEPT !.unread = rest, !.text = @ \o read])
  BY DEF Data
<1> DEFINE chunk == SubSeq(child.unread, 1, n)
           rest == SubSeq(child.unread, n + 1, Len(child.unread))
           read == IF Streams(c) THEN chunk ELSE Decoded(chunk)
           new == [child EXCEPT !.unread = rest, !.text = @ \o read]
<1>4. chunk \in Seq(Byte) /\ rest \in Seq(Byte) /\ chunk \o rest = child.unread
  <2>1. chunk \in Seq(Byte) /\ rest \in Seq(Byte)
    BY <1>2
  <2>2. chunk \o rest = SubSeq(child.unread, 1, Len(child.unread))
    BY <1>2, ConcatAdjacentSubSeq
  <2> QED
    BY <1>2, <2>1, <2>2, SubSeqFull
<1>5. read \in Seq(Char)
  <2>1. chunk \in Seq(Char)
    BY <1>4, BytesAreChars
  <2> QED
    BY <1>4, <2>1, DecodedType
<1>6. /\ new.program = child.program /\ new.phase = child.phase
      /\ new.promise = child.promise /\ new.unread = rest
      /\ new.text = child.text \o read
  <2> HIDE DEF read, rest
  <2> QED
    BY <1>1 DEF ChildOK, ChildRecord
<1>7. child.text \in Seq(Char) /\ child.text \o read \in Seq(Char)
  <2>1. child.text \in Seq(Char)
    BY <1>1 DEF CallOK
  <2> HIDE DEF read
  <2> QED
    BY <1>5, <2>1, ConcatProperties
<1>8. ASSUME child.program.starts, child.program.output \in Seq({"char"})
      PROVE  (child.text \o read) \o rest = child.program.output
  <2> HIDE DEF chunk, rest
  <2>1. child.text \o (chunk \o rest) = child.program.output
    BY <1>1, <1>2, <1>4, <1>8 DEF CallOK
  <2>2. chunk \in Seq({"char"})
    BY <1>4, <1>7, <1>8, <2>1, PlainParts
  <2>3. read = chunk
    BY <2>2, DecodedPlain
  <2>4. chunk \in Seq(Char) /\ rest \in Seq(Char)
    BY <1>4, BytesAreChars
  <2>5. (child.text \o chunk) \o rest = child.text \o (chunk \o rest)
    <3>1. child.text \in Seq(Char)
      BY <1>7
    <3> HIDE DEF child
    <3> QED
      BY <2>4, <3>1, TextMoves
  <2> QED
    BY <2>1, <2>3, <2>5
<1> HIDE DEF new, read, rest
<1>9. CallOK(new)
  BY <1>1, <1>2, <1>6, <1>7, <1>8 DEF CallOK
<1> QED
  BY <1>1, <1>3, <1>9, CallSetOK DEF new, read, rest

LEMMA CallOthersOK ==
  ASSUME CallInv, NEW c \in Child, Fails(c) \/ Readable(c) \/ Close(c) \/ Exit(c)
  PROVE  CallInv'
<1> DEFINE child == children[c]
<1>1. ChildInv' /\ ChildOK(child) /\ CallOK(child)
  BY OtherStepsOK DEF CallInv, ChildInv
<1>2. ASSUME NEW phase, NEW promise,
             Set(c, [child EXCEPT !.phase = phase, !.promise = promise]),
             phase \notin {"none", "error"},
             phase \in {"runs", "exited"} /\ child.program.kind = "spawn" => promise = "pending",
             promise = "resolved" => phase = "closed", child.phase # "none"
      PROVE  CallInv'
  <2> DEFINE new == [child EXCEPT !.phase = phase, !.promise = promise]
  <2>1. /\ new.program = child.program /\ new.text = child.text /\ new.unread = child.unread
        /\ new.phase = phase /\ new.promise = promise
    BY <1>1 DEF ChildOK, ChildRecord
  <2> HIDE DEF new
  <2>2. CallOK(new)
    BY <1>1, <1>2, <2>1 DEF CallOK
  <2> QED
    BY <1>1, <1>2, <2>2, CallSetOK DEF new
<1>3. child = [program |-> child.program, phase |-> child.phase, unread |-> child.unread,
               text |-> child.text, promise |-> child.promise]
  BY <1>1 DEF ChildOK, ChildRecord
<1>4. CASE Fails(c)
  <2> DEFINE phase == "closed"
             promise == "rejected"
  <2>1. child.phase = "error" /\ Set(c, [child EXCEPT !.phase = phase, !.promise = promise])
    BY <1>4 DEF Fails, Phase
  <2>2. /\ phase \notin {"none", "error"} /\ phase \notin {"runs", "exited"}
        /\ promise # "resolved" /\ child.phase # "none"
    BY <2>1
  <2> HIDE DEF child, phase, promise
  <2> QED
    BY <1>2, <2>1, <2>2, Zenon
<1>5. CASE Readable(c)
  <2>1. /\ child.program.kind = "stream" /\ child.phase # "none"
        /\ child.promise = "pending" /\ child.phase \notin {"error"}
    BY <1>1, <1>5 DEF Readable, Streams, Phase, ChildOK, Unborn, Program
  <2>2. Set(c, [child EXCEPT !.phase = child.phase, !.promise = "stream"])
    BY <1>3, <1>5 DEF Readable
  <2> HIDE DEF child
  <2> QED
    BY <1>2, <2>1, <2>2
<1>6. CASE Close(c)
  <2> DEFINE phase == "closed"
             promise == Settled(child)
  <2>1. child.phase = "exited" /\ Set(c, [child EXCEPT !.phase = phase, !.promise = promise])
    BY <1>6 DEF Close, Phase
  <2>2. /\ phase \notin {"none", "error"} /\ phase \notin {"runs", "exited"}
        /\ phase = "closed" /\ child.phase # "none"
    BY <2>1
  <2> HIDE DEF child, phase, promise
  <2> QED
    BY <1>2, <2>1, <2>2, Zenon
<1>7. CASE Exit(c)
  <2>1. child.phase = "runs" /\ child.promise # "resolved"
    BY <1>1, <1>7 DEF Exit, Phase, CallOK
  <2> DEFINE phase == "exited"
             promise == child.promise
  <2>2. Set(c, [child EXCEPT !.phase = phase, !.promise = promise]) /\ phase = "exited"
    BY <1>3, <1>7 DEF Exit
  <2>3. child.program.kind = "spawn" => promise = "pending"
    BY <1>1, <2>1 DEF CallOK
  <2>4. phase \notin {"none", "error"} /\ promise # "resolved" /\ child.phase # "none"
    BY <2>1
  <2> HIDE DEF child, phase, promise
  <2> QED
    BY <1>2, <2>1, <2>2, <2>3, <2>4, Zenon
<1> QED
  BY <1>4, <1>5, <1>6, <1>7

LEMMA CallInitOK == Init => CallInv
<1>1. CallOK(Unborn)
  BY DEF CallOK, Unborn
<1> QED
  BY <1>1, ChildInitOK DEF Init, ChildInit, CallInv

LEMMA CallNextOK == CallInv /\ [Next]_vars => CallInv'
<1> SUFFICES ASSUME CallInv, [Next]_vars PROVE CallInv'
  OBVIOUS
<1>1. ChildNext \/ children' = children
  BY DEF Next, Only, vars
<1>2. CASE children' = children
  BY <1>2 DEF CallInv, ChildInv
<1> QED
  BY <1>1, <1>2, CallSpawnOK, CallDataOK, CallOthersOK DEF ChildNext, ChildStep

\* The calls as ShellCall has them.
Programs == [c \in Child |-> ProgramSeen(c)]
Promises == [c \in Child |-> PromiseSeen(c)]

\* A step of a child is seen of that child alone.
LEMMA SeenAfter ==
  ASSUME ChildInv, NEW c \in Child, NEW new, Set(c, new)
  PROVE  /\ children'[c] = new
         /\ Programs' = [Programs EXCEPT ![c] = ProgramSeen(c)']
         /\ Promises' = [Promises EXCEPT ![c] = PromiseSeen(c)']
<1>1. children'[c] = new /\ \A d \in Child \ {c} : children'[d] = children[d]
  BY DEF ChildInv, Set
<1>2. \A d \in Child \ {c} :
        ProgramSeen(d)' = ProgramSeen(d) /\ PromiseSeen(d)' = PromiseSeen(d)
  BY <1>1 DEF ProgramSeen, PromiseSeen
<1> QED
  BY <1>1, <1>2 DEF Programs, Promises

\* A step that keeps what is seen of its child.
LEMMA Unseen ==
  ASSUME ChildInv, NEW c \in Child, NEW new, Set(c, new),
         ProgramSeen(c)' = ProgramSeen(c), PromiseSeen(c)' = PromiseSeen(c)
  PROVE  UNCHANGED <<Programs, Promises>>
<1>1. /\ Programs' = [Programs EXCEPT ![c] = ProgramSeen(c)]
      /\ Promises' = [Promises EXCEPT ![c] = PromiseSeen(c)]
  BY SeenAfter
<1> QED
  BY <1>1 DEF Programs, Promises

\* A step that settles its child.
LEMMA Settles ==
  ASSUME ChildInv, NEW c \in Child, NEW new, Set(c, new),
         ProgramSeen(c)' = ProgramSeen(c), PromiseSeen(c) = "pending",
         PromiseSeen(c)' \in Calls!Answers(ProgramSeen(c))
  PROVE  Calls!Next
<1>1. /\ Programs' = [Programs EXCEPT ![c] = ProgramSeen(c)]
      /\ Promises' = [Promises EXCEPT ![c] = PromiseSeen(c)']
  BY SeenAfter
<1>2. Programs' = Programs /\ Programs[c] = ProgramSeen(c) /\ Promises[c] = PromiseSeen(c)
  BY <1>1 DEF Programs, Promises
<1>3. Calls!Settle(c)
  BY <1>1, <1>2 DEF Calls!Settle, Programs, Promises
<1> QED
  BY <1>3 DEF Calls!Next

\* What is seen of a program that was started.
LEMMA ProgramSeenOf ==
  ASSUME NEW c \in Child, children[c].program \in Program
  PROVE  /\ ProgramSeen(c) \in
              [kind : {"spawn", "stream"}, starts : BOOLEAN, multibyte : BOOLEAN, exit : {0, 1}]
         /\ ProgramSeen(c).kind = children[c].program.kind
         /\ ProgramSeen(c).starts = children[c].program.starts
         /\ ProgramSeen(c).exit = children[c].program.exit
         /\ ~ProgramSeen(c).multibyte => children[c].program.output \in Seq({"char"})
<1> DEFINE p == children[c].program
           multibyte == \E i \in DOMAIN p.output : p.output[i] # "char"
<1>1. p # NoProgram
  BY ProgramAssumption
<1>2. ProgramSeen(c) = [kind |-> p.kind, starts |-> p.starts, exit |-> p.exit,
                        multibyte |-> multibyte]
  BY <1>1 DEF ProgramSeen
<1>3. /\ p.kind \in {"spawn", "stream"} /\ p.starts \in BOOLEAN /\ p.exit \in {0, 1}
      /\ p.output \in Seq(Byte)
  BY OutputAssumption DEF Program, Byte
<1>4. ~multibyte => p.output \in Seq({"char"})
  BY <1>3
<1>5. multibyte \in BOOLEAN
  OBVIOUS
<1> HIDE DEF p, multibyte
<1> QED
  BY <1>2, <1>3, <1>4, <1>5 DEF p

LEMMA SpawnAsks ==
  ASSUME CallInv, NEW c \in Child, NEW program \in Program, Spawn(c, program)
  PROVE  Calls!Next
<1> DEFINE new == [program |-> program, phase |-> IF program.starts THEN "runs" ELSE "error",
                   unread |-> IF program.starts THEN program.output ELSE <<>>, text |-> <<>>,
                   promise |-> "pending"]
<1>1. Set(c, new) /\ new.program = program /\ new.promise = "pending" /\ ChildInv
  BY DEF Spawn, CallInv
<1>2. children[c] = Unborn
  BY DEF Spawn, Phase, CallInv, ChildInv, ChildOK
<1> HIDE DEF new
<1>3. /\ children'[c] = new
      /\ Programs' = [Programs EXCEPT ![c] = ProgramSeen(c)']
      /\ Promises' = [Promises EXCEPT ![c] = PromiseSeen(c)']
  BY <1>1, SeenAfter
<1>4. PromiseSeen(c)' = "pending"
  BY <1>1, <1>3 DEF PromiseSeen
<1>5. ProgramSeen(c)' \in
        [kind : {"spawn", "stream"}, starts : BOOLEAN, multibyte : BOOLEAN, exit : {0, 1}]
  <2> DEFINE multibyte == \E i \in DOMAIN program.output : program.output[i] # "char"
  <2>1. ProgramSeen(c)' = [kind |-> program.kind, starts |-> program.starts,
                           exit |-> program.exit, multibyte |-> multibyte]
    BY <1>1, <1>3, ProgramAssumption DEF ProgramSeen
  <2>2. program.kind \in {"spawn", "stream"} /\ program.starts \in BOOLEAN
        /\ program.exit \in {0, 1}
    BY DEF Program
  <2>3. multibyte \in BOOLEAN
    OBVIOUS
  <2> HIDE DEF multibyte
  <2> QED
    BY <2>1, <2>2, <2>3
<1>6. Promises[c] = "none"
  BY <1>2 DEF Promises, PromiseSeen, Unborn
<1>7. Calls!Ask(c)
  BY <1>3, <1>4, <1>5, <1>6 DEF Calls!Ask, Programs, Promises
<1> QED
  BY <1>7 DEF Calls!Next

\* A chunk is seen only in the text, which nobody is given before the close.
LEMMA DataUnseen ==
  ASSUME CallInv, NEW c \in Child, Data(c)
  PROVE  UNCHANGED <<Programs, Promises>>
<1> DEFINE child == children[c]
<1>1. ChildOK(child) /\ CallOK(child) /\ ChildInv
  BY DEF CallInv, ChildInv
<1>2. PICK unread, text : Set(c, [child EXCEPT !.unread = unread, !.text = text])
  BY DEF Data
<1> DEFINE new == [child EXCEPT !.unread = unread, !.text = text]
<1>3. new.program = child.program /\ new.promise = child.promise
  BY <1>1 DEF ChildOK, ChildRecord
<1>4. child.promise # "resolved"
  BY <1>1 DEF Data, ChildOK, CallOK
<1> HIDE DEF new
<1>5. children'[c] = new
  BY <1>1, <1>2, SeenAfter DEF new
<1>6. ProgramSeen(c)' = ProgramSeen(c) /\ PromiseSeen(c)' = PromiseSeen(c)
  BY <1>3, <1>4, <1>5 DEF ProgramSeen, PromiseSeen
<1> QED
  BY <1>1, <1>2, <1>6, Unseen DEF new

\* The end of a program, and of a call: at its error, at its stream, at its close.
LEMMA EndsSettle ==
  ASSUME CallInv, NEW c \in Child, Fails(c) \/ Readable(c) \/ Close(c) \/ Exit(c)
  PROVE  Calls!Next \/ UNCHANGED <<Programs, Promises>>
<1> DEFINE child == children[c]
<1>1. ChildOK(child) /\ CallOK(child) /\ ChildInv
  BY DEF CallInv, ChildInv
<1>2. PICK new : /\ Set(c, new) /\ new.program = child.program /\ new.text = child.text
                 /\ \/ Fails(c) /\ new.promise = "rejected"
                    \/ Readable(c) /\ new.promise = "stream"
                    \/ Close(c) /\ new.promise = Settled(child)
                    \/ Exit(c) /\ new.promise = child.promise
  <2>1. \A phase, promise :
          LET w == [child EXCEPT !.phase = phase, !.promise = promise] IN
          w.program = child.program /\ w.text = child.text /\ w.promise = promise
    BY <1>1 DEF ChildOK, ChildRecord
  <2>2. child = [program |-> child.program, phase |-> child.phase, unread |-> child.unread,
                 text |-> child.text, promise |-> child.promise]
    BY <1>1 DEF ChildOK, ChildRecord
  <2>3. \E phase, promise :
          /\ Set(c, [child EXCEPT !.phase = phase, !.promise = promise])
          /\ \/ Fails(c) /\ promise = "rejected"
             \/ Readable(c) /\ promise = "stream"
             \/ Close(c) /\ promise = Settled(child)
             \/ Exit(c) /\ promise = child.promise
    <3>1. CASE Fails(c)
      BY <3>1 DEF Fails
    <3>2. CASE Readable(c)
      <4>1. Set(c, [child EXCEPT !.phase = child.phase, !.promise = "stream"])
        BY <2>2, <3>2 DEF Readable
      <4> QED
        BY <3>2, <4>1
    <3>3. CASE Close(c)
      BY <3>3 DEF Close
    <3>4. CASE Exit(c)
      <4>1. Set(c, [child EXCEPT !.phase = "exited", !.promise = child.promise])
        BY <2>2, <3>4 DEF Exit
      <4> QED
        BY <3>4, <4>1
    <3> QED
      BY <3>1, <3>2, <3>3, <3>4
  <2>4. PICK phase, promise :
          /\ Set(c, [child EXCEPT !.phase = phase, !.promise = promise])
          /\ \/ Fails(c) /\ promise = "rejected"
             \/ Readable(c) /\ promise = "stream"
             \/ Close(c) /\ promise = Settled(child)
             \/ Exit(c) /\ promise = child.promise
    BY <2>3
  <2> DEFINE w == [child EXCEPT !.phase = phase, !.promise = promise]
  <2>5. w.program = child.program /\ w.text = child.text /\ w.promise = promise
    BY <2>1
  <2>6. Set(c, w)
    BY <2>4
  <2> HIDE DEF w
  <2> QED
    BY <2>4, <2>5, <2>6
<1>3. children'[c] = new
  BY <1>1, <1>2, SeenAfter
<1>4. ProgramSeen(c)' = ProgramSeen(c)
  BY <1>2, <1>3 DEF ProgramSeen
<1>5. child.phase # "none" /\ child.program \in Program
  BY <1>1, <1>2 DEF Fails, Readable, Close, Exit, Phase, Streams, ChildOK, Unborn
<1>6. /\ ProgramSeen(c).kind = child.program.kind /\ ProgramSeen(c).starts = child.program.starts
      /\ ProgramSeen(c).exit = child.program.exit
      /\ ~ProgramSeen(c).multibyte => child.program.output \in Seq({"char"})
      /\ child.program.kind \in {"spawn", "stream"}
  BY <1>5, ProgramSeenOf DEF Program
<1>7. ASSUME child.promise = "pending", new.promise # "resolved",
             new.promise \in Calls!Answers(ProgramSeen(c))
      PROVE  Calls!Next
  <2>1. PromiseSeen(c) = "pending" /\ PromiseSeen(c)' = new.promise
    BY <1>3, <1>7 DEF PromiseSeen
  <2> QED
    BY <1>1, <1>2, <1>4, <1>7, <2>1, Settles
<1>8. ASSUME new.promise = child.promise, child.promise # "resolved"
      PROVE  UNCHANGED <<Programs, Promises>>
  <2>1. PromiseSeen(c)' = PromiseSeen(c)
    BY <1>3, <1>8 DEF PromiseSeen
  <2> QED
    BY <1>1, <1>2, <1>4, <2>1, Unseen
<1>9. CASE Fails(c) /\ new.promise = "rejected"
  <2>1. child.promise = "pending" /\ ~child.program.starts
    BY <1>1, <1>9 DEF Fails, Phase, ChildOK, CallOK
  <2> QED
    BY <1>6, <1>7, <1>9, <2>1 DEF Calls!Answers
<1>10. CASE Readable(c) /\ new.promise = "stream"
  <2>1. child.promise = "pending" /\ child.program.kind = "stream" /\ child.program.starts
    BY <1>1, <1>5, <1>10 DEF Readable, Streams, Phase, ChildOK, Program
  <2> QED
    BY <1>6, <1>7, <1>10, <2>1 DEF Calls!Answers
<1>11. CASE Close(c) /\ new.promise = Settled(child)
  <2>1. /\ child.phase = "exited" /\ child.unread = <<>> /\ child.program.starts
        /\ child.program.kind = "stream" => child.promise = "stream"
    BY <1>1, <1>5, <1>11, ProgramAssumption DEF Close, Phase, Streams, ChildOK, Program
  <2>2. CASE child.program.kind = "stream"
    BY <1>8, <1>11, <2>1, <2>2 DEF Settled
  <2>3. CASE child.program.kind = "spawn" /\ child.program.exit # 0
    <3>1. child.promise = "pending" /\ new.promise = "rejected"
      BY <1>1, <1>11, <2>1, <2>3 DEF CallOK, Settled
    <3> QED
      BY <1>6, <1>7, <2>1, <2>3, <3>1 DEF Calls!Answers
  <2>4. CASE child.program.kind = "spawn" /\ child.program.exit = 0
    <3>1. child.promise = "pending" /\ new.promise = "resolved"
      BY <1>1, <1>11, <2>1, <2>4 DEF CallOK, Settled
    <3>2. PromiseSeen(c) = "pending"
      BY <3>1 DEF PromiseSeen
    <3>3. PromiseSeen(c)' = IF child.text = Decoded(child.program.output) THEN "whole"
                            ELSE "garbled"
      BY <1>2, <1>3, <3>1 DEF PromiseSeen
    <3>4. child.program.output \in Seq({"char"}) => child.text = Decoded(child.program.output)
      <4> SUFFICES ASSUME child.program.output \in Seq({"char"})
                   PROVE  child.text = child.program.output
        BY DecodedPlain
      <4>1. child.text \o <<>> = child.program.output /\ child.text \in Seq(Char)
        BY <1>1, <1>5, <2>1 DEF CallOK
      <4> HIDE DEF child
      <4> QED
        BY <4>1, ConcatEmptySeq
    <3>5. PromiseSeen(c)' \in Calls!Answers(ProgramSeen(c))
      BY <1>6, <2>1, <2>4, <3>3, <3>4 DEF Calls!Answers
    <3> QED
      BY <1>1, <1>2, <1>4, <3>2, <3>5, Settles
  <2> QED
    BY <1>6, <2>2, <2>3, <2>4
<1>12. CASE Exit(c) /\ new.promise = child.promise
  <2>1. child.promise # "resolved"
    BY <1>1, <1>12 DEF Exit, Phase, CallOK
  <2> QED
    BY <1>8, <1>12, <2>1
<1> QED
  BY <1>2, <1>9, <1>10, <1>11, <1>12

\* The calls of ChildProcessService are those of ShellCall.  A spawn is answered at most once:
\* resolved only after the program ended with exit code 0, with the text of its whole output,
\* or, if the output has characters of several bytes, perhaps with a garbled text; rejected if
\* it does not start or ends otherwise.  A stream is given out for every program that starts,
\* whatever its exit code will be.  (ChildProcessService.spawn, spawnStreamable)
THEOREM CallsAreShellCalls == Spec => ImplementsShellCall
<1>1. Init => Calls!Init
  BY DEF Init, ChildInit, Unborn, ProgramSeen, PromiseSeen, Calls!Init
<1>2. CallInv /\ [Next]_vars => [Calls!Next]_<<Programs, Promises>>
  <2> SUFFICES ASSUME CallInv, [Next]_vars
               PROVE  Calls!Next \/ UNCHANGED <<Programs, Promises>>
    OBVIOUS
  <2>1. ChildNext \/ children' = children
    BY DEF Next, Only, vars
  <2>2. CASE children' = children
    BY <2>2 DEF Programs, Promises, ProgramSeen, PromiseSeen
  <2> QED
    BY <2>1, <2>2, SpawnAsks, DataUnseen, EndsSettle DEF ChildNext, ChildStep
<1>3. CallInv /\ [Next]_vars =>
        [Calls!Next]_<<[c \in Child |-> ProgramSeen(c)], [c \in Child |-> PromiseSeen(c)]>>
  BY <1>2 DEF Programs, Promises
<1> QED
  BY <1>1, <1>3, CallInitOK, CallNextOK, PTL DEF Spec, ImplementsShellCall, Calls!Spec

(***************************************************************************)
(* Types, of all that a behaviour may show.                                *)
(***************************************************************************)
ReadsInv ==
  scene \in Scenes /\ CallInv /\ StatusInv /\ ConfigInv /\ SyslogInv /\ ListInv

LEMMA SceneStays == [Next]_vars => scene' = scene
  BY DEF Next, Only, Shows, vars

LEMMA ChildTypes == CallInv => ChildTypeOK
<1> SUFFICES ASSUME CallInv, NEW c \in Child
             PROVE  children[c] \in
                      [program : Program \cup {NoProgram},
                       phase : {"none", "error", "runs", "exited", "closed"},
                       unread : Seq(Byte), text : Seq(Char),
                       promise : {"none", "pending", "resolved", "rejected", "stream"}]
  BY DEF CallInv, ChildInv, ChildTypeOK, Byte, Char
<1>1. children[c] \in ChildRecord(children[c].text) /\ children[c].text \in Seq(Char)
  BY DEF CallInv, ChildInv, ChildOK, CallOK
<1> QED
  BY <1>1 DEF ChildRecord

LEMMA StatusTypes == StatusInv => StatusTypeOK
<1> SUFFICES ASSUME StatusInv PROVE StatusTypeOK
  OBVIOUS
<1>1. device \in DeviceRecord /\ GaugesOK
  BY DEF StatusInv
<1>2. ASSUME NEW r \in Reader
      PROVE  /\ status[r].pc \in {"idle", "status", "metrics", "ok", "failed"}
             /\ status[r].waits \subseteq Parts /\ status[r].done \subseteq Parts
             /\ status[r].shown \in ShownRecord
             /\ status[r].disturbed \in BOOLEAN
             /\ status[r].cause \in {"none", "failed", "refused", "unparsable"}
             /\ status[r].seen \subseteq Measures
  <2>1. status[r] \in StatusRecord
    BY DEF StatusInv, StatusOK
  <2> QED
    BY <2>1 DEF StatusRecord
<1> QED
  BY <1>1, <1>2 DEF StatusTypeOK, DeviceRecord, GaugesOK, ShownRecord, Disk, Parts

LEMMA SyslogTypes == SyslogInv => SyslogTypeOK
<1> SUFFICES ASSUME SyslogInv PROVE SyslogTypeOK
  OBVIOUS
<1>1. ASSUME NEW r \in Watcher
      PROVE  syslog[r] \in QueryRecord
  BY DEF SyslogInv, QueryOK
<1> QED
  BY <1>1 DEF SyslogTypeOK, SyslogInv, QueryRecord

\* Every variable keeps its type: of all that the gauges hold, only the uptime may be no
\* number.  (The services of device, and what they read.)
THEOREM ReadTypes == Spec => []TypeOK
<1>1. Init => ReadsInv
  BY CallInitOK, StatusInitOK, ConfigInitOK, SyslogInitOK, ListInitOK DEF ReadsInv, Init
<1>2. ReadsInv /\ [Next]_vars => ReadsInv'
  BY CallNextOK, StatusNextOK, ConfigNextOK, SyslogNextOK, ListNextOK, SceneStays DEF ReadsInv
<1>3. ReadsInv => TypeOK
  BY ChildTypes, StatusTypes, SyslogTypes DEF ReadsInv, ConfigInv, ListInv, TypeOK
<1> QED
  BY <1>1, <1>2, <1>3, PTL DEF Spec
=============================================================================
