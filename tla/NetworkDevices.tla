--------------------------- MODULE NetworkDevices ---------------------------
(***************************************************************************)
(* NetworkDeviceService.getAllDevices: the paths of the devices, then for  *)
(* all devices at once their properties and, one after the other, the      *)
(* objects these point to, each by a call of its own, while NetworkManager *)
(* goes on: devices vanish, point to other objects, and objects change in  *)
(* place.  A call may fail at any time, and does for what is gone.         *)
(*                                                                         *)
(* AvailableConnections, a list of paths, is one object here, or none.     *)
(***************************************************************************)
EXTENDS Naturals, Sequences

CONSTANTS
  Path,        \* devices
  Types,       \* of devices
  Changes,     \* bound: how often NetworkManager changes something
  Lister,      \* requests
  Null         \* no object: the path "/"

\* Those that are told apart.
DeviceType == {"ethernet", "wifi", "loopback", "generic"}

ASSUME TypesAssumption == Types \subseteq DeviceType /\ Null \notin Nat

\* The objects a device points to, in the order they are read.
ChildObjects ==
  <<"ActiveConnection", "Ip4Config", "Dhcp4Config", "Ip6Config", "Dhcp6Config",
    "AvailableConnections">>

Field == {ChildObjects[i] : i \in DOMAIN ChildObjects}

VARIABLES
  manager,     \* the devices NetworkManager has: their type and the paths of their objects
  objects,     \* the objects NetworkManager has
  changes,
  listing,     \* the requests
  was          \* history: per request, the devices and objects there were while it was served

networkVars == <<manager, objects, changes, listing, was>>

\* A path is a number, as the contents of an object are.
DeviceProperties == [type : Types, at : [Field -> Nat \cup {Null}]]
NetworkObject == [of : Path, field : Field, at : Nat, contents : Nat]

NoPaths == [f \in Field |-> Null]
Gone == [type |-> "none", at |-> NoPaths]

\* What a request has read: a device, and what its objects contain.
NotRead == [device |-> Gone, contents |-> NoPaths]

\* next: what is read next of a device: 0 itself; i the i-th object; then Device.Wired or
\* Device.Wireless; then ReadDone, or it is filtered out.
LastRead == Len(ChildObjects) + 1
ReadDone == LastRead + 1

NoListing ==
  [pc |-> "idle", paths |-> {}, next |-> [d \in Path |-> 0],
   shown |-> [d \in Path |-> NotRead], callFailed |-> FALSE]

\* A device that is no loopback starts with one object of every kind.
Managers ==
  {[d \in Path |-> [type |-> types[d],
                    at |-> IF types[d] = "loopback" THEN NoPaths ELSE [f \in Field |-> 0]]] :
     types \in [Path -> Types]}

ListInit ==
  /\ manager \in Managers
  /\ objects = {o \in [of : Path, field : Field, at : {0}, contents : {0}] :
                  manager[o.of].at[o.field] = 0}
  /\ changes = 0
  /\ listing = [r \in Lister |-> NoListing]
  /\ was = [r \in Lister |-> [devices |-> [d \in Path |-> {}], objects |-> {}]]

There(d) == manager[d] # Gone

Listing(r, new) ==
  /\ listing' = [listing EXCEPT ![r] = new]
  /\ UNCHANGED <<manager, objects, changes, was>>

\* A rejected call rejects the list.
ListFails(r) == Listing(r, [listing[r] EXCEPT !.pc = "failed"])

CallFails(r) ==
  /\ listing[r].pc \in {"paths", "devices"}
  /\ Listing(r, [listing[r] EXCEPT !.pc = "failed", !.callFailed = TRUE])

-----------------------------------------------------------------------------
GetAllDevices(r) ==
  /\ listing[r].pc = "idle"
  /\ listing' = [listing EXCEPT ![r].pc = "paths"]
  /\ was' = [was EXCEPT ![r] = [devices |-> [d \in Path |-> {manager[d]}], objects |-> objects]]
  /\ UNCHANGED <<manager, objects, changes>>

GetAllDevicePaths(r) ==
  /\ listing[r].pc = "paths"
  /\ Listing(r, [listing[r] EXCEPT !.pc = "devices", !.paths = {d \in Path : There(d)}])

Reads(r, d, i) == listing[r].pc = "devices" /\ d \in listing[r].paths /\ listing[r].next[d] = i

\* NetworkService.getNetworkInterfaces asks for these two.
Matches(dev) == dev.type \in {"ethernet", "wifi"}

GetDevice(r, d) ==
  /\ Reads(r, d, 0)
  /\ IF ~There(d) THEN ListFails(r)
     ELSE IF ~Matches(manager[d]) THEN Listing(r, [listing[r] EXCEPT !.next[d] = ReadDone])
     ELSE Listing(r, [listing[r] EXCEPT !.next[d] = 1, !.shown[d].device = manager[d]])

\* The object at the path of a field.
ObjectsAt(d, f, path) == {o \in objects : o.of = d /\ o.field = f /\ o.at = path}

Resolved(r, d, i, contents) ==
  Listing(r, [listing[r] EXCEPT !.next[d] = i + 1, !.shown[d].contents[ChildObjects[i]] = contents])

\* Mutant: an object that is gone is shown as none.
ResolveObjectOrNull(r, d, i) ==
  LET path == listing[r].shown[d].device.at[ChildObjects[i]]
      found == ObjectsAt(d, ChildObjects[i], path) IN
  /\ Reads(r, d, i)
  /\ IF path = Null \/ found = {} THEN Resolved(r, d, i, Null)
     ELSE \E o \in found : Resolved(r, d, i, o.contents)

\* Mutant: the path "/" is asked for too, and there is no such object.
ResolveObjectAlways(r, d, i) ==
  LET path == listing[r].shown[d].device.at[ChildObjects[i]]
      found == ObjectsAt(d, ChildObjects[i], path) IN
  /\ Reads(r, d, i)
  /\ IF found = {} THEN ListFails(r)
     ELSE \E o \in found : Resolved(r, d, i, o.contents)

\* The path "/" is none, and not asked for.
ResolveObject(r, d, i) ==
  LET path == listing[r].shown[d].device.at[ChildObjects[i]]
      found == ObjectsAt(d, ChildObjects[i], path) IN
  /\ Reads(r, d, i)
  /\ IF path = Null THEN Resolved(r, d, i, Null)
     ELSE IF found = {} THEN ListFails(r)
     ELSE \E o \in found : Resolved(r, d, i, o.contents)

\* Device.Wired or Device.Wireless.
ResolveType(r, d) ==
  /\ Reads(r, d, LastRead)
  /\ IF There(d) THEN Listing(r, [listing[r] EXCEPT !.next[d] = ReadDone]) ELSE ListFails(r)

AnswerList(r) ==
  /\ listing[r].pc = "devices"
  /\ \A d \in listing[r].paths : listing[r].next[d] = ReadDone
  /\ Listing(r, [listing[r] EXCEPT !.pc = "ok"])

ListStep(r) ==
  \/ GetAllDevicePaths(r) \/ CallFails(r) \/ AnswerList(r)
  \/ \E d \in Path : GetDevice(r, d) \/ ResolveType(r, d)
                     \/ \E i \in DOMAIN ChildObjects : ResolveObject(r, d, i)

-----------------------------------------------------------------------------
(* NetworkManager                                                          *)

\* Everyone who is being served sees what there is.
Change(d, device, present) ==
  /\ changes < Changes
  /\ changes' = changes + 1
  /\ manager' = [manager EXCEPT ![d] = device]
  /\ objects' = present
  /\ was' = [r \in Lister |->
       IF listing[r].pc \in {"paths", "devices"}
       THEN [devices |-> [was[r].devices EXCEPT ![d] = @ \cup {device}],
             objects |-> was[r].objects \cup present]
       ELSE was[r]]
  /\ UNCHANGED listing

\* An object changes in place: a lease is renewed, a connection is edited.
Renew(o) ==
  Change(o.of, manager[o.of], (objects \ {o}) \cup {[o EXCEPT !.contents = changes + 1]})

\* A device points to a new object: the old one is removed, or there is still (a connection
\* that is not available any more).
Replace(d, f, stays) ==
  LET old == ObjectsAt(d, f, manager[d].at[f])
      new == [of |-> d, field |-> f, at |-> changes + 1, contents |-> changes + 1] IN
  /\ manager[d].at[f] # Null
  /\ Change(d, [manager[d] EXCEPT !.at[f] = changes + 1],
            (IF stays THEN objects ELSE objects \ old) \cup {new})

\* An object is removed: a lease runs out, a connection is deleted.
Remove(d, f) ==
  /\ manager[d].at[f] # Null
  /\ Change(d, [manager[d] EXCEPT !.at[f] = Null], objects \ ObjectsAt(d, f, manager[d].at[f]))

\* A connection goes down, or its device is unplugged: that it is available, it stays.
Without(d) == {o \in objects : o.of # d \/ o.field = "AvailableConnections"}

Disconnect(d) ==
  /\ There(d)
  /\ Change(d, [manager[d] EXCEPT !.at =
                  [f \in Field |-> IF f = "AvailableConnections" THEN @[f] ELSE Null]],
            Without(d))

Unplug(d) == There(d) /\ Change(d, Gone, Without(d))

ListNext ==
  \/ \E r \in Lister : GetAllDevices(r) \/ ListStep(r)
  \/ \E o \in objects : Renew(o)
  \/ \E d \in Path :
       \/ \E f \in Field : Remove(d, f) \/ \E stays \in BOOLEAN : Replace(d, f, stays)
       \/ Disconnect(d) \/ Unplug(d)

-----------------------------------------------------------------------------
(* What is right                                                           *)

\* A list that is answered shows every device there was at the call of GetAllDevices that
\* is wired or wireless, and no other.  Each is as it was at a moment of the request, and for each
\* path it then had, and for no other, there is the object at this path, as that was at a
\* moment of the request: not all at one moment, but no object is missing or of another
\* path, though they are read one by one.  (getAllDevices, resolveDeviceProperties)
ListsAreCoherent ==
  \A r \in Lister, d \in Path :
    listing[r].pc = "ok" /\ d \in listing[r].paths =>
      LET dev == listing[r].shown[d].device IN
      IF dev = Gone THEN \E old \in was[r].devices[d] : old # Gone /\ ~Matches(old)
      ELSE /\ dev \in was[r].devices[d] /\ Matches(dev)
           /\ \A f \in Field :
                LET contents == listing[r].shown[d].contents[f] IN
                IF dev.at[f] = Null THEN contents = Null
                ELSE [of |-> d, field |-> f, at |-> dev.at[f], contents |-> contents]
                       \in was[r].objects

\* A list fails if a call of it failed, or if a device or an object of it that there was
\* during the request is gone: neither a device without objects, nor one that is no
\* interface, nor an object that changes fails it.  (getProperties of "/")
FailsByLossOnly ==
  \A r \in Lister :
    listing[r].pc = "failed" =>
      \/ listing[r].callFailed
      \/ \E d \in listing[r].paths : Gone \in was[r].devices[d]
      \/ \E o \in was[r].objects : ObjectsAt(o.of, o.field, o.at) = {}
=============================================================================
