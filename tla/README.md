# A verification of rpi-nest-api

rpi-nest-api is a NestJS server that administers a Raspberry Pi: its users, its network, its
clock, its settings, its logs and reports, the state it is in. A command line runs some of the same services in
processes of their own. This directory holds TLA+ modules that model the server's
concurrent, failing parts, TLC configurations that check them, and theorems about them that
TLAPS checks. Paths below are relative to `src/src/`.

    tlc -workers 2 -config MCUserAccounts_concurrent.cfg MCUserAccounts.tla
    tlapm UserAccountsProofs.tla

`PROJECT.json` lists the components, the runs, the mutants (for every property a plausible bug
that must break it), the theorems, the findings, the hazards, and for every definition the
lines of code it models.

## 1. Inventory

Everything runs in one Node.js process (`main.ts`) on one thread; a command of the command line
(`cli.ts`) is another process on the same databases. Requests interleave exactly at the awaits
that give the event loop back. NetworkManager, systemd, timedated and logind are reached by
D-Bus, LMDB and bcrypt by thread pools, everything else by child processes. They all go on when the
server ends.

| Component | State | Operations | Interacts with | Hard behaviour | Correct when |
|---|---|---|---|---|---|
| User accounts (`authentication/`, `datastore/user-repository/`) | users in LMDB (`cache: false`) | login, updatePassword, resetAdminPassword, create, update, remove, createAdmin, list | LMDB, bcrypt, settings, serial number; server and command line | check-then-write over a delayed commit, hashes read before an await, two processes, crashes | no answer before its commit; only rightful passwords get in and authenticate; the admin stays; serially, a plain directory |
| LMDB storage (`datastore/storage/`) | committed data, queued writes, caches | get, put, remove, doesExist | the file both processes open | commits 100 ms late, failing commits, caches of other processes | what is answered is committed |
| Settings (`datastore/settings-repository/`, `datastore/maintenance/`, `device/device.service.ts`) | settings in LMDB (`cache: true`) | get, update metadata; reset all, reset defaults | LMDB; server and command line | partial resets, stale caches, checks overtaken by commits | updates build on each other, unforced resets change nothing, answered resets are complete |
| Network settings (`device/network/`, `dbus/interfaces/network-manager/`) | saved and applied profiles, checkpoints (in NetworkManager) | show, update, confirm | NetworkManager over D-Bus | seven calls each of which may fail, 30 s timer, application after the answer, overlapping updates | a change lasts only if confirmed; no device stays blocked |
| IP settings (`connection-settings.adapter.ts`, `network.service.ts`, `dto/`) | none | request to profile and back | network settings | partial requests, both IP families, methods one side does not know | a trial shows what was asked for; no manual profile lacks an address |
| Sos report (`device/device-admin/sos-report.service.ts`) | one unit and one directory for all requests | createReportStream | systemd, file system, the client's connection | polling, leftovers, failed runs, aborted downloads, unhandled rejections | every report is of the run just asked for, and whole; every request ends |
| Access control (`authentication/authentication.guard.ts`, the controllers' decorators) | tokens with roles (held by the clients) | canActivate, signAsync | user accounts, the clock of the device, all controllers | tokens outlive users and roles, the clock is set by the same API | a withdrawn role opens no route for longer than a token lives; only admins administer |
| Date and time, reboot (`device/date-time/`, `dbus/interfaces/timedate1/`, `device-admin/`) | clock, zone, NTP switch (timedated), a configuration file, the NTP daemon | setDateTime, setNtp, reboot | timedated, systemd, logind | several calls, one in the middle failing, a restart that is a job, an emptied file, reboots | the daemon ends up as configured; a date is set whole or a reported half |
| Child processes (`shell-command/child-process.service.ts`) | one child per call | spawn, spawnAuthorized, spawnStreamable | operating system, pkexec | order of data, end, close and error events; chunks | every promise settles once, and by the exit code |
| Device configuration (`device/device-config/`) | the features (of raspi-config) | list, show, enable, disable | two programs per list | other requests between the two and during each, runs that fail half-way | a feature is shown as it was during the request, under its own id; an answered switch took effect |
| Logs (`device/device-admin/syslog/`) | none | stream a log | journalctl, files | dates and zones, logs that do not open | only newer entries are returned, and none of them is missing |
| Device status and metrics (`device/status/`) | gauges | status, metrics | five programs at once, polkit | partial failure, output that parses wrongly, a clock that is set | what is answered was measured, in the unit it is said to be in |
| Network devices (`network-device.service.ts`) | none | list interfaces | NetworkManager, object by object | devices and objects vanish and change meanwhile, calls fail | a device is shown with the objects it points to; only a loss fails the list |
| D-Bus access, polkit rules, configuration, OpenAPI | none, or read once | – | – | – | – |

## 2. Modules

| Module | Models | State and actions |
|---|---|---|
| `LmdbStore` | LMDB as the repositories see it | `db` is what is committed, `queue[p]` what process p has put and LMDB has not committed. Operators only, used by the two modules with a store |
| `UserDirectory` | abstract: what the user administration promises | `users`; every call takes effect in one step on the users as they are then |
| `UserAccounts` | UserRepository, UserService, AuthenticationService | `pc`, `call` and `user` of a request are its continuation, its parameters and the user it read before an await. One action per piece of code between two awaits: `ReadUser`, `Compared`, `ResetAdmin`, `StorePassword`, `DefaultPasswordFails`, `StartCreate`, `StoreUser`, `UpdateUser`, `RemoveUser`; `Commit`, `CommitFails`, `Crash` of a process. `held` is history |
| `TrialSettings` | abstract: what a network update promises | `kept` settings and a `trial`; only `Confirm` changes what is kept, by the change on trial |
| `ConnectionSettings` | the DTOs, NetworkService's toInternal and toSimple, IpSettingsVariantAdapter | pure operators on the settings of one IP family: what passes validation, `ToInternal`, `Accepts`, `ApplyChanges`, `ToSimple`; `Coherent` and `Grants` say what they are to achieve |
| `NetworkUpdate` | NetworkService and NetworkSettingsService against NetworkManager, over `ConnectionSettings` | `saved`, `applied`, `checkpoint` are NetworkManager's; one action per D-Bus call (`ReadSettings`, `CreateCheckpoint`, `UpdateProfile`, `ReadVersion`, `Reapply`), any of which may fail (`CallFails`); `Commit`, `Expire`, `Crash` |
| `SosReport` | SosReportService against the unit and the directory | `unit`, `dir`; `Check`, `StartUnit`, `Poll`, `StreamEnds`, `Abort`, `Delete`, `UnhandledRejection`, `CallFails`, `Crash`; the unit's `Activate`, `RunWrites`, `RunEnds` |
| `Settings` | SettingsRepository, MaintenanceService, the reset commands, DeviceService | `db`, `queue`, and per process a `cache`; `Get`, `Update`, `Reset` (one key each), `Commit`, `CommitFails`, `Evict`, `Crash` |
| `DateTime` | DateTimeService, the timedated, systemd and logind services | `clock`, `zone`, `file`, `daemon`, `job` are the device's; one action per call (`CheckNtp`, `SetTime`, `SetTimezone`, `Truncate`, `WriteServer`, `RestartUnit`, `SwitchNtp`), any may fail; `RunJob`, `Synchronise`, `Reboot`. `broken` is history: a setNtp was left half-way |
| `AccessControl` | AuthenticationGuard, AuthorizedRoles and Public on every controller, the issue of tokens; extends `DateTime` | `tokens`, `signing` (logins between the read of the user and the signature), `users`; `LoginRead`, `LoginSign`, `Pass` (the guard), `ChangeUser`, `Tick`, `Crash`, `Restart`, and every step of `DateTime`. `lost` and `right` are history: how long a login has been without a role, whether a request was let in by right |
| `ShellCall` | abstract: what services rely on when they run a program | a call is answered once; a spawn by the exit code, with the whole output (which long characters may garble); a stream for any program that starts |
| `ChildProcess` | ChildProcessService | of each child the program, what it printed and was not read, its phase and the promise: `Spawn`, `Readable`, `Data`, `Exit`, `Close`, `Fails` |
| `DeviceStatus` | DeviceStatusService, DeviceMetricsService, the df, uptime, vcgencmd and serial services, the pkexec rule | `device` is what the programs look at; one action per program (`GetSerial`, `GetTemperature`, `GetDiskSpaceInformation`, `UptimePrints` and, after its close, `GetUpTime`), in any order, any may fail (`CommandFails`); `Passes` and `Sets` move time, clock and measures under them. `seen`, `done`, `cause`, `disturbed`, `upThen` are history |
| `RaspiConfig` | DeviceConfigService, RpiConfigCommandService | `features` is what raspi-config knows. A run is several steps: it looks at one feature after the other (`PrintsAvailstat`, `PrintsStatus`) or switches one (`Switches`), then closes and is parsed (`GetConfigurationStates`, `GetConfigurationStatus`, `ExecuteSet`); `ConfigFails` at any of them. `seen` is history |
| `Syslog` | SyslogService, JournalctlService | `GetServiceLog` checks and makes the arguments, `StreamsLog` opens the log, `OpenFails`; which entries a request is shown |
| `NetworkDevices` | NetworkDeviceService | `manager` and `objects` are what NetworkManager has; one action per D-Bus call of a listing (`GetAllDevicePaths`, `GetDevice`, `ResolveObject`, `ResolveType`), any may fail (`CallFails`); `Renew` (in place), `Replace`, `Remove`, `Disconnect`, `Unplug`. `was` is history |
| `DeviceReads` | composes the five modules above: the requests that run programs or read the device | `scene` says which of them a behaviour shows |
| `MC…` | the instances TLC checks | model values, symmetry, bounds |
| `…Proofs` | theorems and their proofs; `DateTimeProofs` extends `AccessControlProofs`, whose type invariant it needs | |

An operator whose comment begins with "Mutant" is not part of a model: it is a definition changed
as a bug would change it, and shows that a property can fail.

**How a request is cut into steps.** A repository call reads and queues its write in one step:
the promises it awaits in between (`getByLogin`) are settled already, and such an await runs only
microtasks, no other request. A bcrypt call, a commit, a D-Bus call, a stream and a timer each
end a step. The guard and the validation pipe lie before the first step. Parameters are those
the DTOs let through; the command line has no DTO, so its commands offer the reserved login too.

**Composition.** `AccessControl` puts the guard in front of DateTime's handlers because each acts on
the other: the guard judges by a clock that setDateTime, NTP and a reboot move. Users and their
roles change in one step there; `UserAccounts` has the steps of it. The services of
`DeviceReads` share no state, so a behaviour is a behaviour of one of them: their state spaces add up and
do not multiply. In `AccessControl`, `scope` chooses in the same way between the lives of tokens and the
overlap of requests; nothing in the module depends on what is in a scope, and the
theorems hold for any.

**Abstractions.** A password stands for its hash. A user's description and time stamps, the
settings' wording and formats, logs and HTTP codes are left out. D-Bus variants are left out; the properties of a profile that no
code touches are one value. A token is the record the guard reads, and only issued tokens
verify; `modified` in the token is left out, as no code reads it. What a program prints is modelled as far
as parsing it can go wrong: bytes of long characters, the blanks and blocks of df, the sign of a temperature, the zone of uptime and an output that is no date. What raspi-config prints is a list of its cells.
The unit's "deactivating" counts as running, as the code counts it; that systemd queues a start
of such a unit until it is inactive is left out. LMDB commits in batches; committing writes
one by one allows every grouping. `Evict` lets a cache forget whatever is committed at any time,
which is more than LMDB's cache does. The external definitions (NetworkManager's
methods, the unit, commits) are modelled from how the services use them.

## 3. Runs

| Run | Shows | Bounds |
|---|---|---|
| `users_concurrent` | Whatever two requests of the server do, fail or crash: exactly the requests that await a commit have a write queued (`EveryWriteAwaited`); stored passwords and successful logins are rightful (`PasswordsRightful`, `AnswersRightful`); the admin is neither removed nor demoted (`AdminKept`) | the admin and one other login, two passwords, two role sets, two slots (symmetric) |
| `users_serial` | Requests one at a time, of the server or a command, implement `UserDirectory` (`ServesDirectory`), through crashes and failing commits; each is answered (`EveryRequestEnds`) | one slot of each process, `Serial` |
| `users_merge` (violation) | overlapping updates of one user lose one of them | as concurrent |
| `users_create` (violation) | two creations of one login both succeed | as concurrent |
| `network` | Updates implement `TrialSettings` (`ConfirmedOrRolledBack`); a device out of checkpoints runs settings it was to keep (`AppliedWasKept`); a trial shows what its request asked for, and the rest unchanged (`TrialShowsTheRequest`); no profile is ever manual without an address, or has a gateway without one (`ProfilesAreCoherent`); a device can always be updated again (`DeviceIsFreed`) | one device, two stored profiles, four requests (one that is to be rejected), two slots, `Orderly`, `Prompt` |
| `network_overlap` (violation) | with overlapping updates of a device an unconfirmed change can be kept | `Orderly` off |
| `sos` | A report is streamed only after a run that ended after the request's own start, and unless that run failed what is packed is its report (`FreshReport`); nobody touches the directory meanwhile (`WholeReport`); each request ends, without any call having to fail (`EveryRequestEnds`) | two slots, `Serial`, `Prompt` |
| `sos_overlap` (violation) | overlapping requests rewrite or delete each other's report | `Serial` off |
| `settings` | The server reads what it put last (`ServerReadsItsWrites`); no unforced reset changes what is there (`UnforcedKeeps`); an answered reset has itself reset every key of it (`ResetIsComplete`); each request ends | two settings, one field, one datum, two slots and one command |
| `settings_merge` (violation) | a partial update erases the fields not sent | two fields, one slot |
| `access` | A role that was withdrawn opens no route for longer than a token lives (`StaleRolesExpire`); users, zone, NTP server and switch change only by requests let in by right (`AdministeredByAdmins`); the NTP daemon runs as configured once all is quiet (`NtpAsConfigured`); what a date request answers is what it did (`DateTimeAnswers`); each request ends | the admin and one user, two role sets, a lifetime of two ticks; one slot, two tokens and two days, or two slots, one token and overlapping date, NTP and reboot requests |
| `reads` | Child processes implement `ShellCall` (`ImplementsShellCall`), exits are answered (`ExitIsAnswered`), streams are the output (`StreamsAreOutput`). An answered status was measured during the request, as far as its parsers go (`StatusIsCurrent`), by programs that all succeeded (`StatusNeedsEveryProgram`). Features are shown as they were during the request (`ShownAsItWas`); answered switches took effect (`SetTookEffect`). What is shown of a network device are the objects it pointed to (`ListsAreCoherent`); only a loss fails a list (`FailsByLossOnly`) | five scenes. Two children, outputs of up to three bytes; one status request, two rules, the sizes 9999 and 10000, one temperature, a zone other than UTC, one tick; two features, one value, two clients; two network devices, one change, one list; one log request, three zones |

**Demonstrations.** Twelve more configurations each show that the code does not do what its
documentation, a test or a name says of one request, or what a switch of a run is needed for. They are not
among the runs of `PROJECT.json`; TLC stops at a counterexample under each.

| Configuration | TLC finds violated | Quoted from |
|---|---|---|
| `MCUserAccounts_null.cfg` | `UsersKeepRoles` | `user.dto.ts:43`: an array, `minItems: 1` |
| `MCNetworkUpdate_dhcp.cfg` | `DhcpIsAutomatic` | `update-network-config.dto.ts:81`: "should be automatically determined via DHCPv6 only" |
| `MCNetworkUpdate_slow.cfg` (`Prompt` off) | `ConfirmedOrRolledBack` | `network-settings.service.ts:101`: "must be confirmed within 30 seconds or they will be rolled back" |
| `MCSosReport_stale.cfg` | `GeneratedReport` | `device-admin.controller.ts:24`: "Generate and download a sos-report" |
| `MCSosReport_activating.cfg` (`Prompt` off) | `FreshReport` | `sos-report.service.ts:61`: "Generating report finished" |
| `MCDeviceReads_bytes.cfg` | `DiskSpaceIsInBytes` | `device-status.dto.ts:40`, `:44`: "space in bytes" |
| `MCDeviceReads_columns.cfg` | `DiskSpaceIsParsed` | `df-command.service.spec.ts:26`: "return parsed result", of 1337 and 42 |
| `MCDeviceReads_sign.cfg` | `TemperatureIsSigned` | `device-status.dto.ts:26`: "in degree celsius" |
| `MCDeviceReads_nan.cfg` | `UptimeIsANumber` | `uptime-command.service.ts:31`: "uptime returned unparsable result" |
| `MCDeviceReads_zone.cfg` | `UptimeIsTrue` | `uptime-command.service.ts:23`: "Get seconds since the system is up" |
| `MCDeviceReads_pkexec.cfg` | `ProgramsAreListed` | `00-pkexec.ts:14`: "executables that may be invoked with `pkexec`" |
| `MCDeviceReads_since.cfg` | `OnlyNewerLogs` | `syslog-filter.dto.ts:34`: "only logs that are newer than this date will be returned" |

**Why the bounds are enough.** The interference the properties speak of is between two requests
that share one login, one device, one unit, one key, the clock or the configuration file: two slots show each of them, and slots are used
again and again, so sequences of any length occur. The admin and one other login are the two
kinds the code distinguishes; two passwords and two role sets tell old from new. Devices
share nothing, so one is enough for updates; of two in a list one fails or changes while the other is read. The requests of `network` are one for each path
through the adapter. A lifetime of two ticks tells a token that
is fresh, halfway and expired; the clock can be set to any of the days. An output of three bytes can be cut
before, after and within its long character. The clock and NetworkManager's changes are the only counters
that are bounded (`days`, `LastTime`, `Changes`); a queue holds at most one write per request.

**Fairness.** `FairSpec` asks that a request that can go on does, for each request alone
(`WF_vars(Serve(r))`): the event loop runs every ready callback, the thread pool finishes its
jobs, D-Bus calls return, the poll's timer fires and a client reads its stream or goes
away. A failing call is an action of its own (`CallFails`), without fairness: nothing has to fail for a request to end. `AccessControl` asks the same of requests that were let in, whose calls are answered or fail;
the reboot's caller too is answered if the device does not restart. `DeviceReads` asks it of the
events of a child: Node delivers what there is to read and the end of a child, and whoever reads a stream reads on. That a program
exits is not assumed: nothing in the service limits how long one runs, so nothing is promised of a
program that does not. LMDB commits after its delay (`WF_vars(Commit(p))`), NetworkManager's timer runs
(`WF_vars(Expire(d))`), the report's unit ends (`WF_vars(RunEnds)`). Nothing is assumed of
arrivals, confirmations, failures or crashes. The runs that check only safety use `Spec`, where
the counterexample of a step property needs no fairness.

**Assumptions that are switches.** `Serial`: requests come one at a time; the code
enforces it nowhere, the violation runs show what depends on it. `Orderly`: clients update a device
only when its last update has been confirmed or rolled back. `Prompt` in `NetworkUpdate`: from
the checkpoint to the application takes less than its 30 seconds. `Prompt` in `SosReport`:
the second before the first poll is enough to activate the unit. With either `Prompt` off TLC finds
`ConfirmedOrRolledBack` (`MCNetworkUpdate_slow.cfg`), respectively `FreshReport` (`MCSosReport_activating.cfg`), violated: the code
has no guard against a slow system.

## 4. What the code does differently from what it says

- **Updates of users get lost** (`users_merge`). `UserRepository.update` merges into the committed user
  and its put is committed 100 ms later. A password change within this time puts back roles that
  were just changed, and both answer success.
- **A user can be created twice** (`users_create`). `create` checks the committed users only; a second creation
  of the same login within the commit delay replaces the first.
- **Unconfirmed network settings can be kept** (`network_overlap`). `GetSettings` comes before
  `CheckpointCreate`: an update that reads while another is on trial, and creates its checkpoint
  after that was rolled back, has the other's change confirmed with its own.
- **Sos reports overlap** (`sos_overlap`). The service looks only at the unit: requests between
  check and start, or streaming the directory, are not seen, and two share and delete one directory.
- **A partial update of the metadata erases the rest** (`settings_merge`). The DTO is a class compiled
  with target ESNext, so its instances have all the declared fields, and the spread in
  `SettingsRepository.update` writes the undefined ones over the stored values.
- **Roles may be null** (`MCUserAccounts_null.cfg`). The DTO of an update is a partial one, whose optional fields may be null;
  `roles: null` passes and is stored.
- **The IPv6 method 'dhcp' is taken for a manual one** (`MCNetworkUpdate_dhcp.cfg`): it is rejected without an address and saved as
  `manual` with one, while the DTO documents it as automatic. `TrialShowsTheRequest` and its theorem
  say what the code does with it (`Grants`); `DhcpIsAutomatic` says what the documentation does.
- **A slow update outlives its checkpoint** (`MCNetworkUpdate_slow.cfg`). Nothing bounds the time between the checkpoint and the save:
  after a rollback in between, the save lasts.
- **An old sos report is answered** (`MCSosReport_stale.cfg`). How the run ended is not looked at: after one that failed, the
  directory of an aborted request is packed. **Or an unfinished one** (`MCSosReport_activating.cfg`), if the unit
  is still activating at the first poll.
- **Disk space is in blocks, not bytes** (`MCDeviceReads_bytes.cfg`), in the status and in the gauges, whose help says bytes too.
- **Fewer than five digits fail the status** (`MCDeviceReads_columns.cfg`). df pads such a number and `split(' ')` makes cells of the
  blanks. The unit test parses 1337 and 42 from a line without padding.
- **A temperature below zero loses its sign** (`MCDeviceReads_sign.cfg`).
- **An unparsable uptime is answered as NaN** (`MCDeviceReads_nan.cfg`): `getTime` throws nothing the `catch` could catch.
- **The uptime is wrong after a change of the time zone** (`MCDeviceReads_zone.cfg`), until the server is restarted, and when the clock
  is set while uptime runs.
- **The status cannot be answered under the repository's own rule** (`MCDeviceReads_pkexec.cfg`). The serial number is read by
  `pkexec cat`, and `00-pkexec.ts` lists raspi-config and vcgencmd only; no other program's result
  reaches the client then, as `Promise.all` rejects.
- **`since` is a day** (`MCDeviceReads_since.cfg`). The filter promises "only logs that are newer than this date"; up to a day more is
  returned, and west of UTC the first hours may be missing (`SinceBounds`, a theorem). For dpkg and Node-RED it is ignored.

Others show in what the passing properties have to leave out:

- **A stream is given out whatever the exit code**: an empty output ends before the child's close, so a journalctl that
  fails at once is answered with an empty log (`ShellCall` allows it).
- **Characters of several bytes may arrive garbled**, as `spawn` makes a string of each chunk (`ShellCall` allows it).
- **A request without DNS server erases the stored ones**, although its field is optional: `toInternal` makes it an
  empty list, and the adapter writes that.
- **Tokens live on.** Roles in a token count until it expires, whatever becomes of the user; a clock that is
  set back prolongs it. The `modified` a token carries is never compared.
- **Roles are not ordered.** A user with the role `user` only does not pass a route for `read-only`, as the
  status is.
- **A lost NTP write.** writeFile empties the file first: after a crash in between the daemon runs with an empty
  configuration, and the API shows none (`broken` in `DateTime`). Enabling NTP without a server keeps the old one.

## 5. Theorems

TLAPS proves these for every number of logins, passwords, roles, devices, settings, keys, fields, requests
and commands. The assumptions on constants are the named `ASSUME`s (special values differ
from ordinary ones, sets of slots are disjoint), and the switches where a theorem names them.

| Theorem | Statement |
|---|---|
| `TypeCorrect` | `UserAccounts`: `Spec => []TypeOK` |
| `AdminIsKept` | `Spec => AdminKept` |
| `WritesAreAwaited` | `Spec => []EveryWriteAwaited` |
| `StoredPasswordsAreRightful`, `AnswersAreRightful` | `Spec => []PasswordsRightful`, `Spec => []AnswersRightful` |
| `RequestsServeTheDirectory` | `Serial`: `Spec => ServesDirectory`, that is, `UserAccounts` implements `UserDirectory` |
| `SerialUpdatesMerge`, `SerialCreatesAreNew` | `Serial`: `Spec => UpdateMergesExisting`, `Spec => CreateNeverOverwrites`, which concurrent requests violate |
| `NetworkTypes` | `NetworkUpdate`: `Spec => []TypeOK` |
| `UpdatesAreTrials` | `Orderly`, `Prompt`: `Spec => ConfirmedOrRolledBack`, that is, `NetworkUpdate` implements `TrialSettings` |
| `AppliedSettingsWereKept` | `Orderly`, `Prompt`: `Spec => []AppliedWasKept` |
| `TrialsShowRequests` | `Orderly`, `Prompt`: `Spec => []TrialShowsTheRequest` |
| `ProfilesStayCoherent` | `Spec => []ProfilesAreCoherent`, with neither |
| `SosTypes` | `SosReport`: `Spec => []TypeOK` |
| `ReportsAreFresh`, `ReportsAreWhole` | `Prompt`, `Serial`: `Spec => []FreshReport`, `Spec => []WholeReport` |
| `SettingsTypes` | `Settings`: `Spec => []TypeOK` |
| `UnforcedResets` | `OneCommand`: `Spec => UnforcedKeeps` |
| `ServerReadsItsOwnWrites` | `Spec => []ServerReadsItsWrites` |
| `ResetsAreComplete` | `Spec => []ResetIsComplete`, any number of commands at once |
| `AccessTypes` | `AccessControl`: `Spec => []TypeOK` |
| `StaleRolesLapse` | `Spec => []StaleRolesExpire` |
| `OnlyAdminsAdminister` | `Spec => AdministeredByAdmins` |
| `NtpRunsAsConfigured` | `Spec => []NtpAsConfigured`, requests overlapping, failing, cut off by crashes and restarts |
| `DatesAreAnsweredTruly` | `Spec => []DateTimeAnswers` |
| `ReadTypes` | `DeviceReads`: `Spec => []TypeOK` |
| `CallsAreShellCalls` | `Spec => ImplementsShellCall`: `ChildProcess` implements `ShellCall` |
| `StatusesAreCurrent`, `StatusesNeedEveryProgram` | `Spec => []StatusIsCurrent`, `Spec => []StatusNeedsEveryProgram` |
| `LogsBeginAtTheirDay` | `Spec => []SinceBounds`, for any day, zone and time: how far from its documentation `since` is |
| `StreamsAreWholeOutput` | `Spec => []StreamsAreOutput` |
| `FeaturesAreShownAsTheyWere`, `AnsweredSwitchesTookEffect` | `Spec => []ShownAsItWas`, `Spec => []SetTookEffect` |
| `ListsShowTheirObjects`, `ListsFailByLoss` | `Spec => []ListsAreCoherent`, `Spec => []FailsByLossOnly` |

**Users.** `TypeOK` is not inductive: `StorePassword` is well typed only because a request that
hashes has a call with a new password. `TInv` adds what a request in service carries. For the
admin, a queued write must be known not to be a removal of the admin and to hold the admin's roles, although
it is committed long after it was queued (`AdminInv`). For the passwords, what is queued and what
has been compared must be rightful already (`RightfulInv`), and since `held` only grows, it is
still so at the commit, whatever was committed in between.

That one request at a time is served as `UserDirectory` promises is a step simulation: the commit of a write is the
directory's `Store`, the end of a process its `Forget`, and all steps before an answer stutter. `Store` checks
the users at the moment of the commit, the code checked them two awaits earlier. So `SerialInv` says
that what was found still holds: the user read before the comparison is the one stored, a request that hashes
has passed its check, and the one queued write (`QueuedAlone`, from `EveryWriteAwaited`) is what the directory
would store now. It is preserved because nobody else is in service to commit in between (`Alone`), and
a process that ends takes its queue along. The same invariant gives the two properties that `users_merge` and
`users_create` refute: what goes wrong there goes wrong by concurrency alone.

**Network.** `UpdateInv` follows an update along its calls: while it is between checkpoint and
answer it owns the device's checkpoint and nobody else is in progress (`Orderly`), so the profile
it merged is still the one the checkpoint restores and the checkpoint's confirmation keeps exactly that
merge. `Prompt` rules out that the checkpoint ends before the profile is saved. `AppliedInv` adds that what a late
`Reapply` applies is either protected by the request's own checkpoint or confirmed. A profile on trial is the merge
of an accepted change (`UpdateInv`), and such a merge grants what the change asks for (`MergeGrants`, from the
lemmas on the adapter in `ConnectionSettingsProofs`). Coherence needs no order and no promptness: every
profile there is, stored, applied, read by a request or kept by a checkpoint, is one
NetworkManager had or a merge into a coherent one (`CoherentInv`).

**Sos report.** `ReportInv`: a request waiting for the unit sees it running or activating, or a run
has ended since its start. With one request at a time, the unit is then inactive while the
report is streamed, so nobody writes, and the directory is the one the last run left.

**Settings.** What the server put last is the last thing it has queued, or is committed if nothing is queued
(`LatestInv`); the cache has it, and may have evicted it only once it is committed. A command's commit leaves this
alone unless it resets the metadata, which ends the promise. For `ResetIsComplete`, what a
reset has still to do is the end of its keys, and every key before it is one whose default it has itself committed (`resets`, history)
and that has settings (`Progress`): nothing in the program removes settings, so any number of commands may run.

`TInv` adds to `TypeOK` that a queued write has the type of its key and is awaited by one request of
its own process. `UnforcedKeeps` needs `KInv`: a command has one write at a time; while that
of an unforced reset waits, its key stays absent. The server could spoil it only by putting settings it
has never found, and it puts only what it has read (`FoundInv`: what it caches or has queued is
there). Two commands at once could spoil it: both find a key absent and the second commits its
defaults over the first's. So the theorem assumes one command (`OneCommand`), as the run has.

**Access.** `TypeInv` adds to `TypeOK` that a request is at a step of its own call. `LagInv` bounds how
long a token outlasts its roles: unless the clock was set back since its issue, its expiry and the time its login has been
without a role of it add up to at most the clock and one lifetime (`TokensLag`). It holds at
the signature because the roles a login read may have been withdrawn meanwhile, but no time has passed since
(`SigningFresh`), and a role that is given back starts anew (`HeldNotLost`). A route that a live token opens is
therefore open by a role the login lost less than a lifetime ago. `RightInv` adds that a request keeps the
right it was let in by while it runs, so whoever changes the device had it.

**Date and time.** `SwitchInv`: unless a setNtp was left before its SetNTP or is at it, the daemon, or the restart
that waits for it, is what was last asked. `FileInv`: a daemon that is on, while nobody is about to write the
file or to restart it, has read the file as it is. Both must hold with several setNtp overlapping: one empties the file while another
restarts the daemon, and it is the last restart that counts. `DidInv` records what
a setDateTime has done at each of its calls.

**Device reads.** A call of `ChildProcess` is one of `ShellCall` step by step (`CallInv`): a child that runs is pending,
only a closed one is resolved, and a text of characters of one byte each, decoded chunk by chunk, is the output however
it was cut. `StatusInv` knows of each program that has succeeded which moment its result is of, and that
df's first two cells are numbers only if both numbers have five digits (`CellsOf`). `SyslogInv` is arithmetic on days, zones and times.
`StatusAssumption` says that the sizes, temperatures and offsets are numbers, and NaN is none.

`ChildInv`: what was read of a child and what was not, one after the other, is its output; `closed`
comes only when nothing is unread. `ConfigInv`: while a request is served, the present state of every feature
is among those it has seen, so what a run prints of one, at its own look, is one of these, and its place in the output
is that of its id. `ListInv`: each path of a device that was read leads, for the whole request, to objects the request has seen
(`ReadOK`), because paths are never used again (`changes` numbers them): an object found there is the device's, and if none is there,
one is lost.

**Model-checked only.** Everything under fairness: `EveryRequestEnds` of each component, `DeviceIsFreed` and
`ExitIsAnswered`; TLAPS has no rule for `ENABLED` here, which fairness is defined by. What TLC refutes has nothing to be proved. Every other property of a run is a theorem.

## 6. Plan

All modules of the plan are written, and every safety property, step property and refinement that a passing
run checks is proved. What could be added is the part of the liveness arguments that needs no `ENABLED`: for each kind of
request a measure that every step of it lowers and no other step raises, so that under the fairness stated it
is answered. And what overlapping network updates, without `Orderly`, still promise beyond `ProfilesAreCoherent`.

## 7. Not modelled, and why

- *Pure reads*: the list of users, the package list of dpkg, the list of time zones, the operating system's
  properties. Each is a call or a program whose output is split into fields; as processes they are
  covered by `ChildProcess`. (The package list ends with an empty package, as the output ends with a newline.)
- *D-Bus access*: `DBusAccessService` and the generated proxies hold no state; a call is a step that may
  fail, in every module. Their signals have no listener in this program. The list of actions for polkit is a constant file;
  whether it names every action used is a comparison of constants, not behaviour.
- *Configuration, OpenAPI, modules and bootstrap*: read or built once at the start.
- *External parts*: bcrypt, LMDB's transactions, NetworkManager, timedated and systemd are modelled only as far as
  the services use them. A power loss during a commit is LMDB's concern.
- *Details*: of a network request, optional fields that are null are not told apart from those left out. The available
  connections of a device, a list, are one object in `NetworkDevices`, as they are read alike. Of raspi-config's shell
  (`shell: true`) the arguments are taken for words.
- *Limits*: no client that stops reading a stream for ever, and no program that never exits, is promised an answer.
  NetworkManager's own changes of a profile (another administrator's) are left out of `NetworkUpdate`, and
  vanishing devices out of it too: they belong to `NetworkDevices`, whose listing copes with them. Unlike
  that listing, `getProperties` of the network settings does not look for the path `/` of a device
  without connection: such an update fails as a D-Bus call does (`CallFails`).
