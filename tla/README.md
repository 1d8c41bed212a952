# DoodleRay in TLA+

DoodleRay is a desktop VPN client: a Tauri application (Rust, with a TypeScript
and React frontend), a Windows service that owns the tunnel, and a macOS packet
tunnel extension. This directory holds the TLA+ specifications of its logic, the
TLC instances that check them and the TLAPS proofs about them. Paths below are
relative to the repository; `service.rs` is `src-tauri/src/service.rs`.

## Inventory

| Component | State it keeps | Operations | What must hold |
|---|---|---|---|
| Tunnel service (`service.rs`, `tunnel_service.rs`) | `TunnelRuntime` under one mutex, `OP_GENERATION`, `STOP_REQUESTED`, two child processes and a job object, the session marker file | pipe commands StartTunnel, StopTunnel, GetStatus, RepairRuntime, ReportProxyCompatibility, PrepareForUpdate; service control events; background threads for bring-up and reassert | no engine outlives its owner; Protected means the engines run; every start and stop ends; a crash is noticed at the next start |
| IPC client (`ipc.rs`) | none | one request per connection, 6 s timeout, up to 15 attempts | a repeated command does no harm |
| Orchestrator (`lib.rs`) | `CONNECTION_STATE`, `ACTIVE_ENGINE`, `RUNTIME_OP_LOCK`, `WINDOWS_CONNECT_CANCELLED`, proxy ownership | connect, disconnect, verify the data plane, status, prepare for update, cleanup at exit | a cancelled connect does not connect; a disconnect tears down what it was meant for; the reported status is the service's |
| System proxy (`sysproxy.rs`) | registry values, snapshot file, owner marker, guardian process | apply, restore, repair, recover at startup, guardian | the user's own settings come back, whatever crashes |
| Control plane client (`control_plane/mod.rs`) | session tokens, device key, encrypted profile cache, tombstones | login, refresh, fetch profile, connect with a lease | one refresh at a time, no stale profile after a logout |
| Secure storage (`storage/mod.rs`) | values split over several keyring entries | get, set, delete | a value reads back whole or not at all |
| Process managers (`xray.rs`, `singbox.rs`, `tun.rs`) | one child process each | start, stop, is_running | at most one child, none after stop |
| macOS tunnel (`app_store_tunnel.rs`, Swift) | Network Extension manager | configure, start, stop, status | asynchronous status is matched to the request |
| Dashboard and frontend helpers (`src/pages`, `src/lib`) | zustand store, timers | connect click, health monitor, fallback, ping runner, updater | a late answer never overwrites a newer choice |
| Configuration building (`lib.rs`, `service.rs`, `vpn/config.rs`) | none: profiles and user rules in, configurations out | build the xray, sing-box and bridge configurations | a packet takes the exit the policy and the user's rules give it, and leaves |
| Rest (installer, ACLs, link parsing, network helpers, UI, vendored crates) | none of their own, or the operating system's | | not modelled: no protocol state |

How they meet: the frontend invokes the orchestrator; on Windows the orchestrator
sends commands over a named pipe to the service, polls GetStatus, and sets the
system proxy; the service spawns xray and sing-box and answers; a detached
guardian process restores the proxy if the application dies. Windows adds service
control events (stop, network, power). What is hard is that these run at once:
sixteen pipe workers, one thread per start and per network event, retries of
commands that are still running, engines that exit by themselves, and crashes.

## Modules

| Module | Models | Lines |
|---|---|---|
| `TunnelService` | the service process, its threads, engines, jobs and marker | core |
| `MCTunnelService` | the instances TLC checks | |
| `TunnelServiceProofs` | type correctness, for every value of the constants | |
| `TunnelServiceSafety` | six safety theorems and one about steps on top of it | |
| `SystemProxy` | the owner of the Windows proxy setting: application, guardians, user | core |
| `ProxyCustody` | what that owner promises, as a state machine over the value in force, the user's value and the user's last choice | abstract |
| `MCSystemProxy` | the instances TLC checks | |
| `SystemProxyProofs` | type correctness of `SystemProxy`; the user's settings are never lost and come back; `SystemProxy` implements `ProxyCustody` | |
| `Orchestrator` | the connection commands of the application on its three platforms, with the engines, the service, the network extension and the proxy as they see them | core |
| `MCOrchestrator` | the instances TLC checks | |
| `OrchestratorProofs` | type correctness of `Orchestrator` and its four safety properties | |
| `SecretStore` | one key of the secure storage, entry by entry | core |
| `MCSecretStore` | the instance TLC checks | |
| `SecretStoreProofs` | type correctness of `SecretStore`; a migration loses nothing; what is deleted stays deleted, what is set is read, what is read is whole | |
| `Session` | account session, token refresh, leases and their cache | core |
| `MCSession` | the instance TLC checks | |
| `SessionProofs` | type correctness of `Session` and its five safety and action properties | |
| `Routing` | the configurations of xray, sing-box and the bridge, and a packet's way through them | core |
| `MCRouting` | the instance TLC checks | |
| `RoutingProofs` | type correctness of `Routing` and its five safety properties | |
| `Lists` | `Vec::retain` and the members of a list, as `Session` and `Routing` use them | |
| `ListProofs` | what they do to concatenated and to extended lists | |

### TunnelService

State: `runtime` is `TunnelRuntime` without its process handles, which are `child`
and `job`; `opGen` is `OP_GENERATION`; `stopRequested` merges the flag
`STOP_REQUESTED` with the stop control of the service manager, which the main loop
treats alike; `wedged` says that a thread waits for the STATE mutex it already
holds; `marker` is the session marker file (the generation in it), `unclean` what
the service found at startup; `alive` and `jobOf` are the operating system's
processes and their jobs; `pc` and `loc` are the threads.

A slot of `Threads` is a pipe worker or a background thread busy with one
operation. A command enters an idle slot. StartTunnel's handler spawns a thread and
returns; the model goes on in the same slot, because what the handler still does (a
snapshot of a runtime in Connecting) changes nothing. `Main` is the thread of
`run_service`.

The unit of atomicity is a critical section of the STATE mutex, or a step outside
it: reading the generation, spawning, killing, writing the marker. A generation
check that directly follows a critical section is part of its action, since
nothing that another thread could see lies between. All other checks are steps of
their own, because the gap behind them is where the code can go wrong.

| Code | Actions |
|---|---|
| `status_snapshot` | `GetStatus`, `Snapshot` |
| `handle_command` StartTunnel, `try_warm_reassert_start` | `StartTunnel`, `WarmMark`, `BusyCheck`, `NewGeneration`, `Queue` |
| `start_tunnel` | `StartCheck`, `Replace`, `CleanedCheck`, `WriteMarker`, `BringUpError`, `Publish`, `StartFailed`, `FailedCheck`, `SetFailed` |
| `bring_up_tun_runtime` | `CreateJob`, `JobError`, `Spawn`, `Assign`, `Store`, `WaitAdapter`, `AdapterError`, `AdapterReady`, `AliveCheck`, `WaitRoutes`, `RouteReady`, `DnsReady`, `FinalCheck` |
| `stop_owned_processes` | `Take`, `Kill`, `Settle`, `ClearMarker`, `Linger` |
| StopTunnel, PrepareForUpdate | `StopTunnel`, `StopDelay`, `PrepareForUpdate`, `Prepared` |
| `repair_connected_runtime` | `RepairRuntime`, `RepairEnter`, `RepairProbe`, `RepairAdapter`, `RepairReady`, `RepairProxy`, `RepairPublish`, `SelfDeadlock` |
| network events, reassert, rotation | `NetworkEvent`, `RepairError`, `Rotate` |
| `run_service` | `ServiceStart`, `ScmStop`, `MainStops`, `ServiceExit`, `ProcessEnds` |
| the operating system | `Crash`, `EngineExit` |

Abstractions. Phases, messages, timings and logs are left out. Ports and the
adapter's alias and index are present or absent, hence Booleans. The outcome of a
wait (ports, adapter, routes) is nondeterministic: success, an error that
`is_repairable_tun_bringup_error` matches, or another one. The check names in
`fatal_checks` and `degraded_checks` are one name per source. The proxy state
`disabled_for_direct_app_exclusions` is treated as `ready`; no test in the code
tells them apart except one that leaves both alone. The ghost-device scan changes
only a warning, and is left out; so are the non-fatal policy checks (planned).
A failure to create the runtime directory and a failure to create the job are one
action, `JobError`. Windows refusing to assign a live process to a job is not
modelled; a process that has already exited is not assigned. Dropping the tokio
runtime waits for command handlers and not for plain threads: `ServiceExit` waits
for slots whose origin is a command, and the others die with the process.

### SystemProxy

State: `settings` are the registry values of Internet Settings: the switch
`ProxyEnable`, the server `ProxyServer`, and the others taken together as `rest`
(no decision of the code reads them but one, whether `ProxyOverride` is an old
version's). `file` is `state.json`, `marker` the registry key, `up` and `pid` the
application, `listening` the ports that answer, `guardian[t]` the iterations left to
the guardian of owner token `t`. `job` is the holder of the named mutex: every entry
point takes it, reads and decides in one action, and then writes value by value, one
action per write that matters. A process that dies releases the mutex and leaves what
it has written (`WAIT_ABANDONED` is taken as success). `torn` collects the kinds of
operations cut short, and `chosen` is what the user set last; no action of the code
reads either.

| Code | Actions |
|---|---|
| `apply_doodleray_proxy` | `CheckPort` (before the mutex), `Apply`, `WriteFile`, `SetEnable`, `SetServer`, `SetRest`, `MarkToken`, `MarkServer`, the three `Set` actions again, `SpawnGuardian` |
| `restore_previous_proxy_state` | `Restore`, then `RestoreEnable`, `RestoreServer`, `RestoreRest`, `RemoveFile`, `UnmarkToken`, `UnmarkServer`, and the first three again |
| `repair_stale_doodleray_proxy_only` | `Repair`, then the same, or `Disable`, `DeleteServer`, `DeleteOverride` |
| `recover_orphaned_proxy_on_startup` | `Recover`, then the same |
| `run_proxy_guardian` | `GuardianLeaves`, `GuardianActs`, `GuardianWaits`, then the same |
| errors, crashes, the rest of the world | `WriteFails`, `StartApp`, `StopApp`, `Reboot`, `PortChanges`, `UserChooses` |

Abstractions. A server is DoodleRay's (then it is its port), an old version's protocol
map, none, or another. The callers in `lib.rs` may call any operation at any time; the
flag `SYSTEM_PROXY_MANAGED`, which only suppresses restores, is left out. The file is
renamed into place, so it is there whole or not at all; deleting it or the marker is
taken to succeed, as the code assumes when it ignores the result. Process ids are not
reused. The user changes all values at once. The wait for a port (three seconds in
all) is one test of `listening`; what may change during it is what `UserRaces` allows.

### Orchestrator

State: `mem` are the statics `CONNECTION_STATE`, `ACTIVE_ENGINE`,
`SYSTEM_PROXY_MANAGED` and the platform's `*_CONNECT_CANCELLED`; `os` is what outlives
a function: engines the application spawned (`local`), those a fresh process no longer
knows (`orphans`), the helper of the macOS tunnel (`bridge`), the state the Windows
service answers (`svc`, with `transient` while a start replaces a runtime and `late` for
a request it takes up after its client gave up), the Network Extension (`ne`), whose
proxy is in force and whether its guardian lives. `queue` is `RUNTIME_OP_LOCK`, a fair
tokio mutex, hence a sequence; `guard` is the thread that keeps the two std mutexes
locked across calls. `wish` is what the user asked for last, which no action reads.

| Code | Actions |
|---|---|
| `vpn_connect` and its engine branches | `Connect`, `ConnectBegin`, `StopPrevious`, `RestorePrevious`, `FreePorts`, `Start...`, `Wait...`, `CommitLocal`, `Apply...Proxy`, `...AppRules`, `...AppBridge`, `XrayTunBridge`, `SingboxTun`, `Commit...` |
| requests to the service, polling until connected | `ServiceStart`, `ServicePoll` |
| proxy after a tunnel, `vpn_repair_system_proxy` | `CompatAfterTun`, `RepairProxy`, `RepairProxyApply`, `RepairProxyManaged` |
| dataplane probe after a connect | `Verify` |
| `vpn_disconnect`, cancellation, the detached sweep | `Disconnect`, `QueueDisconnect`, `StopAll`, `ReturnProxy`, `CommitDown`, `RunSweep` |
| App Store build | `ExtensionBegin`, `ExtensionStart`, `ExtensionWait`, `ExtensionVerify`, `ExtensionStop`, `ExtensionStopped` |
| `vpn_status`, runtime repair, update preparation | `Status...`, `RepairRuntime...`, `PrepareUpdate...` |
| quit, end and start of the process | `Quit`, `Exit`, `Crash`, `Start` |
| engines, service, extension, guardian | `EngineExit`, `ServiceStep`, `ServiceFails`, `ExtensionStep`, `ExtensionDrops`, `GuardianHeals` |

Abstractions. The service is its four answers; that they are the ones of
`TunnelService` is a matter of reading, no refinement joins the two modules. A
guardian is present or absent, and heals as `SystemProxy` describes. Requests carry
what the branches test: engine, tunnel or not, the proxy mode and whether application
rules are given. `os.faulted` remembers that a stop was refused by the operating
system, by the user at the administrator prompt or by the service, or that a request
the application gave up on was started later.

### SecretStore

State: `store` holds the entries of one key (0 is the key itself, the others its
chunks) in the keyring, in the DPAPI files and in the older keychain, and the plaintext
file of an older version; `job` is the operation that takes the next step, and `paused`
are those that have begun and wait between two of their steps. No lock keeps operations
on a key apart: the renderer queues its own writes (`pendingSecureWrites`) and not its
reads, and the keys of owner `app`, the session and the profile cache, are read and
written by whatever command or task needs them. `turns` counts how often one operation
has waited for another (`Overlapped`). A get, set or delete is taken alone only in the
properties that say so.

| Code | Actions |
|---|---|
| `secure_store_keyring_set` | `StartSet`, `ReadOld`, `UnlinkChunks`, `WriteChunk`, `WriteMain` |
| `app_api_native_secret_set`, `secure_store_set` | the same, then `Mirror` or `Forget` |
| `secure_store_keyring_get`, `secure_store_get`, `app_api_native_secret_get` | `StartGet`, `ConsumeLegacy`, `Consumed`, `ReadMain`, `ReadPart`, `ReadDone`, `ReadMirror`, `Restored` |
| the three deletes | `StartDelete`, `FindOld`, `DropChunk`, `DropMain`, `DropMirror` |
| operations of other commands and tasks in between | `Switch` |
| a kill | `Crash` |

`NativeSet`, `NativeGet` and `NativeDelete` are the platform's calls: each returns the
outcomes a call may have, as a result and the store afterwards. A value is a number of
chunks; which bytes go where is left out, that the reader puts them together in order
is not (`Text`).

### Session

State: `memory` is `APP_API_MEMORY_SESSION`, `disk` the stored session in the keyring and
in its DPAPI mirror, `cache` the profile cache with the scope it was written for, `calls`
the slots of concurrently running commands and spawned tasks, `server` the token pairs
the service still honours. The code takes no lock around any of it.

| Code | Actions |
|---|---|
| commands | `Begin` |
| `app_api_load_session` | `Load`, `LoadDisk`, `LoadSet` |
| sign-in, `app_api_refresh_session`, `app_api_store_session` | `Exchange`, `SendRefresh`, `StoreDisk`, `StoreMemory` |
| `app_api_invalidate_session` | `InvalidateMemory`, `InvalidateKeyring`, `InvalidateDpapi` |
| logout | `DeleteMemory`, `DeleteSession`, `DeleteCache` |
| `app_api_authorized_json_http` | `SendRequest`, `SendProfile`, `Rejected` |
| `app_connect_location`, cached lease first, then the network | `Location`, `BringUpCached`, `BringUp`, `Probe`, `CacheWrite` |
| time, the service, the process | `Tick`, `Revoke`, `Restart` |

A token pair is its number; the service exchanges a refresh token once, and may lose
the answer or refuse a pair that is still good, which the code takes for the end of the
session as it does any 401 or 403. A lease is its location, the account it was issued to
and its expiry. A store of the session is done as `app_api_native_secret_set` does it:
it succeeds if one backend takes it, so the keyring may be left with an older pair
(`hist.behind`), with which the program may also start. An invalidation finds each
backend ready to delete, to take a tombstone only, or neither. Reads of the session and
all calls on the profile cache are taken to succeed; what a failing read does is the
concern of `SecretStore`.

### Routing

State: a request, the configurations built from it (`graph`), and one packet with the
engine it is at. A configuration is the ordered rules, outbounds, balancers and the
names its DNS module resolves directly. `Sanitize`, `Constrain`, `EnsureOutbounds`,
`ApplyPolicy`, `Inject`, `Build`, `Prepare`, `BoxRules`, `BridgeRules`, `AppRules` and
`DnsRules` are the functions of `vpn/config.rs` and `lib.rs` as operators on that data;
`BuildGraph` chooses among them as the code does. A packet then goes from rule to rule:
`AppRoute`, `BoxRoute`, `BoxResolve`, `XrayRoute`, `XrayResolve`, where an engine takes
the first rule that matches (external, as the engines document it), and what xray sends
behind a bridge comes back to the bridge as a packet of the xray process.

There are two bridges. That of TUN mode (`BridgeRules`) hands xray whatever no rule sends
elsewhere. That of system-proxy mode (`AppRules`) exists where the user has rules for
programs, beside xray or sing-box; it captures what does not use the proxy, does not sniff
and hijacks no DNS, and of what no rule is about it lets TCP out directly and hands UDP
on: packets have no transport in the model, so either may happen. An engine sees what a
bridge hands it as a packet of the bridge's program; `"xray"` stands for the programs of
both engines (`SYSTEM_BYPASS_PROCESS_NAMES`). On systems other than Windows a bridge that
still runs from an earlier connection is kept with its old rules (lib.rs:7462); the model
takes each bridge to have been built for the request.

A domain or address selector is a member of a small set that stands for a class of
them; that two selectors overlap is expressed by a packet's domain being in both. The
transport `ws` stands for the two that only xray has, `ws` and `xhttp`: a server with one
of them goes to xray whatever its protocol (`uses_xray_engine`). The App Store build is
given `vless` only.
Packets carry no port but 53. Domains of rules and of the DNS module are one set,
`Selectors`; `Names` are the tags, of which `Entries` are those that begin with
`entry-`. In a profile a tag names one outbound (xray refuses another), and a profile of
the service is balanced or has a proxy, as `Inject` demands.

What a profile says beyond that is the service's business, and nothing in the client
checks it. Four predicates at the end of the module say what the promises below ask of
it: `TagsMeanIt` (the outbounds `direct` and `dns-out` are what their tags say),
`OnlyDnsToDns` (no rule hands anything but DNS to `dns-out`), `OwnRulesLead` and
`ApiLeads` (the rules for the statistics interface and for DNS come first, where a
profile has them), and `RulesAreClosed` (a rule of a subscription names something that is
there, or that the client adds). The profiles of `MCRouting` satisfy them, which TLC
evaluates. They are needed; with one profile that breaks one of them TLC finds
- `PolicyHolds` violated by an outbound `dns-out` that is `freedom`, since
  `EnsureOutbounds` adds none where the tag is taken;
- `PolicyHolds` violated by a domain rule to `dns-out` ahead of the policy's own rules,
  where the policy resolves other names than it sends out directly;
- `SplitIsSymmetric` violated by a rule for everything with a rule for port 53 behind it:
  the client finds the latter and does not add its own at the front;
- `StatsReachApi` violated by a rule for everything ahead of the statistics rule, and
  `RulesNameOutbounds` by a subscription that names an outbound it does not have.

## Runs

### TunnelService

All these runs use two thread slots, one operation id, three process ids and four job ids.
Two slots are enough for every race found here: each needs one operation and one that
overtakes it, while status polls, network events, engine exits and the service's main
thread act beside the slots. Three process ids hold both engines of one runtime and an
engine left behind by another; when none is free, spawning fails, which the code also
handles. Every job in use is held by the runtime or by one of three threads, so with four
there is always a fresh one. `MaxGeneration` bounds the commands that take a generation in
one service run, `MaxEvents` the network events; `Inputs` selects what the environment
sends, so that each run spends its states on one question. Slots are interchangeable, so
safety runs use their symmetry; liveness runs do not. Deadlock is not checked: the bounds
stop the environment, and a wedged service really stops. The input `overlap` lets a client
send StartTunnel while another one is in progress, as a retry of `ipc.rs` may. The
application itself holds a lock around its connects, so only `lifecycle` allows it.

| Run | Checks | States |
|---|---|---|
| `lifecycle` | `TypeOK`, `EnginesAreContained`, `ProtectedIsReal`, `FailedOwnsNothing` under starts (overlapping ones too), stops, update preparation, polls, engine exits; both engines | about 800 000 |
| `restart` | `EngineIsMarked`, `OneRuntime` under crashes and restarts, two configurations of different engine kinds | about 90 000 |
| `events` | `ComesToRest`, `ProxyFailureSticks` under a network event, repairs, proxy reports, a service stop, polls and engine exits | about 820 000 |
| `termination` | `StopEndsServiceUnlessWedged`, `TransitionsEnd` with fairness | about 175 000 |

Fairness: weak fairness of `Continue(t)` for each thread and of the steps of the
main thread. A thread of the code that can run is run by the operating system, all
its waits have timeouts, and the mutex is held only for finite sections (except
when wedged, which the properties name). Nothing is assumed of clients, events,
engine exits or crashes.

### SystemProxy

Two starts of the application and two applications of the proxy, so that a later one
meets what an earlier one left, with its guardian still alive; one operation cut short,
by a crash or by a failed write, between any two writes; two iterations of a guardian,
where the code has 3600: one to see that all is well, one to act after a failure. The
users' settings are no proxy, a company's server switched off, and the same switched on
with a PAC file: the second has a value to lose that is not in force. Deadlock is not
checked: the bounds stop the system.

| Run | Checks | States |
|---|---|---|
| `proxy` | `TypeOK`, `ServerIsSafe`, `ReturnedExactly`, `RecoveryHeals` and the refinement `KeepsCustody`, with two ports | about 2 000 000 |
| `guardian` | `GuardianHeals` with fairness, one port | about 325 000 |

`ReturnedExactly` is about histories in which nothing was cut short. It is false
otherwise, and `ServerIsSafe` is what is left: `ProxyEnable` is written before
`ProxyServer`, so that a crash in between switches the user's server on, and recovery
then takes it for the user's choice and drops the snapshot. Both are checked for users
who change nothing in the middle of an operation (`UserRaces = FALSE`);
`restored_over` shows what happens otherwise.

Fairness: the holder of the mutex goes on (`WF`), since nothing in an operation waits
for anybody, and a guardian gets the mutex and its turn (`SF`): it waits for the mutex
without a timeout, and Windows serves waiters in order. Nothing is assumed of the
application, the user or the ports. `GuardianHeals` asks for a guardian with more
iterations left than writes may still fail.

### Orchestrator

Two threads are enough for a command and one that overtakes it; probes, sweeps, the
service, the extension and the guardian act beside them. Two connects, so that the
second finds what the first one left. The two runs take different request kinds and
events so that together they fire every action: status polls and engines that exit are
in `answered` only, and the theorems cover the properties of `connect` with both. Deadlock
is not checked: the bounds end the commands, and a thread that has locked itself out
stays so.

| Run | Checks | States |
|---|---|---|
| `connect` | `TypeOK`, `EnginesAreNamed`, `OneLocalEngine`, `DisconnectWins`, `ProxyIsTracked`; tunnel and proxy mode with application rules, both engines, three platforms, faults | about 1 670 000 |
| `answered` | `CallsAreAnsweredUnlessWedged` with fairness; the remaining kinds of requests, status polls, engines that exit, proxy settings that cannot be applied | about 123 000 |

Fairness: weak fairness of `Progress(t)` for each thread. All waits of the code have
timeouts, and the lock is a fair queue; nothing is assumed of the user, the service or
the operating system. The condition of `DisconnectWins` is `~os.faulted`, that of
`ProxyIsTracked` is `~os.dropped`: in three ways the code itself lets go of a proxy in
force. A start of the application that preserves an active service (lib.rs:12317) kills
the guardian and leaves the recovery out; `restore_system_proxy_if_owned` and the two
other callers of a restore ignore that it failed and clear `SYSTEM_PROXY_MANAGED` all
the same (lib.rs:1774); and an apply that fails after its value is in force
(sysproxy.rs:257) has sent the guardian away and sets no flag. In each case the proxy
stays until something repairs it without asking who owns it (a connect in tunnel or
clear mode, a repair of an idle runtime, the next start). Engines exit
by themselves only in `answered`: with their exit, the names in `ACTIVE_ENGINE` say
less than `EnginesAreNamed` asks, in the harmless direction only.

### SecretStore, Session, Routing

| Run | Checks | States |
|---|---|---|
| `store` | `TypeOK`, `ReadsAreWhole`, `SetIsRead`, `DeleteIsFinal`, `LegacySurvives` | about 4 500 000 |
| `session` | `TypeOK`, `DiskFollowsMemory`, `SignedOutStaysOut`, `CacheIsOwners`, `OnlyRefusedIsDropped`, `ServedLeaseIsUsable` | about 1 460 000 |
| `routing` | `TypeOK`, `PolicyHolds`, `SplitIsSymmetric`, `FailsClosed`, `RulesNameOutbounds`, `StatsReachApi`, `PacketsLeave` | about 358 000 |

`store` has values of one entry, of two chunks and of three, so that each kind of change
and a mixture show, both owners of keys and both platforms, one failure of the mirror, a
kill anywhere, and one operation that is overtaken by another between any two of its steps
(`Slots` and `MaxTurns`). `session` has two accounts, three locations, two slots, two
commands, two token pairs of which the second may be issued to a blocked device, a cache
of two entries where the code has more, one tick of the clock, which is the lifetime of a
lease, and one piece of trouble: a lost answer, a revocation, a restart, or a call of the
storage in which any of the backends fail. It starts with no session, with one, or with
a keyring that refused the newer of two; `Early` would add sessions of an early release.
`MCInit` narrows these starts to keep the run short: the pairs issued so far are good (the
service may refuse a good one at any step, and a revocation is trouble), and a cache of an
earlier run exists only beside a session and off Windows, because nothing that reads or
writes the cache depends on either.
Threads, accounts and locations are symmetric. `routing` takes every combination of three
profiles (one is that of the repository's test
`managed_full_tunnel_removes_raw_alternate_bypasses`), no policy or one of four, five sets
of user rules, four builds, three protocols and two transports, and sends every packet,
through the proxy and past it. `store` and `session`
do not check deadlock because the bounds stop them, `routing` because a packet ends at
its exit. Only `routing` states fairness: an engine goes on with a packet it has.

What the conditions in these properties leave out was checked by dropping them.
- `Overlapped` in `SecretStore`: two sets of a key leave chunks of both under one manifest
  (`OnlyCutsMix` below), a get beside a set or a delete finds half of either value, and a
  delete removes the chunks it has counted before another set adds its own. Only
  `LegacySurvives` holds for operations that overlap.
- `ReadsAreWhole` except after `cut`: a set of more chunks than before that is cut short,
  or one that did not see the old manifest, leaves a mixture under it (storage/mod.rs:321).
  It also needs that no more than one call of the DPAPI store fails: when the mirror of a
  chunk is not written, an old chunk of a set that was cut short stays in the mirror; when a
  later removal of chunks fails there too and is killed after that, the next get finds the
  entry of the keyring gone, takes the old chunk from the mirror and puts it between
  those of the present value (storage/mod.rs:95).
- The keyring of `store` works always or never. One that fails for a single write lets
  the older value in it win over the newer mirror at the next get (storage/mod.rs:146
  and 449), and a delete that fails there and succeeds in the mirror reports success
  (storage/mod.rs:498).
- `raced` in `Session`: two overlapping refreshes send the same token, and the 401 of the
  later one deletes the newer session (control_plane/mod.rs:1232); a refresh that is
  answered after a logout stores a session again. `hist.mixed`: a lease may be asked for
  under the account that has signed in since.
- `OnlyRefusedIsDropped` speaks of the refusal where it is decided and of the removal
  where it is done. The pair refused is then the one stored last. That every pair removed
  was a refused one is false: a backend that took neither the newer pair nor an earlier
  sign-out keeps an older pair, which the invalidation of the next session removes with
  it, still good at the service or not (control_plane/mod.rs:717).
- `DiskFollowsMemory` speaks of the session stored last (`Newest`). Where the Windows
  keyring refused it and the mirror took it the code reports success (storage/mod.rs:485),
  and a restart loads the older pair of the keyring: `DiskIsMemory` below.
- `SignedOutStaysOut` asks that every backend took the sign-out, by a deletion or a
  tombstone. Where one refused both, the code writes a log line (control_plane/mod.rs:818),
  and a restart may find the session again.
- `SplitIsSymmetric` leaves out four asymmetries of the code: a user's direct rule for
  2ip.ru suppresses the whole default split while its DNS stays direct (config.rs:87);
  geosite selectors reach xray and are dropped for sing-box (lib.rs:2085); a profile
  with rules of its own keeps them; a policy may name other domains for DNS.
- `PolicyHolds` asks nothing of what the bridge of system-proxy mode captures from a program
  that the user does not send to the proxy: its last rule is the direct exit, with a policy
  too (`PolicyHoldsInBridge` below). Nor does it where a rule of the user lets the engines'
  own program out, as which the bridge's packets come.
- `FailsClosed` speaks of sing-box. A probe of an unknown protocol over ws or xhttp is given
  to xray with a proxy outbound of that protocol (`FailsClosedEverywhere` below).
- `PolicyHolds` speaks of the direct exit. That DNS queries to a private server go out
  directly is the result of geoip:private standing before the port 53 rule.

### Disagreements between code and documents

The run `self_deadlock` checks one statement of the documents, and TLC finds it
violated: a network event while disconnected makes `repair_connected_runtime` call
`status_snapshot` with the guard held, and the service blocks for good. `PROJECT.json`
quotes the statement.

Twelve more statements stand in the modules as properties that the code violates. No
run lists them, to keep the time for the properties that hold; adding the property to
the configuration named here reproduces each, in some seconds if `Inputs` or `Ops` are
cut to what the row names. `ComesToRest` is listed by a run too, whose inputs leave the
violating cases out.

| Property, added to | What happens, and what it contradicts |
|---|---|
| `NoOrphanedEngine`, `Lifecycle.cfg`, starts and stops | a stop takes the job between spawn and assignment; the engine is left in no job, and its handle is dropped without a kill (service.rs:1525). docs/transport-diagnostic-report.md:697: "leave no orphaned child processes after cancel/failure" |
| `StaleWorkerCannotConnect`, the same | a stop between the last generation check and the last write is overwritten with Connected (service.rs:1447). docs/transport-diagnostic-report.md:638: "so stale workers cannot mark a newer tunnel as connected or failed" |
| `ComesToRest`, `Events.cfg` with `Inputs = {"start", "overlap"}` or `{"start", "event"}`, and `MaxGeneration = 2` | a start that another has made stale publishes Connecting before it looks at the generation (service.rs:813; 1503 for a rotation), and ends in silence because it is stale (843; 467); when the newer start has ended by then, the service rests in Connecting and answers every later start as busy, until a StopTunnel. docs/transport-diagnostic-report.md:637: "Backend polls `GetStatus` until `connected` or `failed`" |
| `CrashIsHealed`, `Guardian.cfg` with `MaxFaults = 0` | a guardian ends after 3600 iterations, about an hour; a later crash leaves the proxy in place (sysproxy.rs:1001). docs/proxy-win.md:706 |
| `NeverStranded`, `Proxy.cfg` | an apply to another port saves the new port first; after a crash the old port in force is no longer recognised, and recovery drops the saved settings (sysproxy.rs:256). docs/proxy-win.md:706 |
| `NeverRestoredOver`, `Proxy.cfg` with `UserRaces = TRUE` | what another program sets between the ownership check and the restore is overwritten (sysproxy.rs:1043). docs/proxy-win.md:709 |
| `SweepSparesTracked`, `Connect.cfg` with `Inputs = {}` | the sweep of a disconnect runs detached and kills the engine the next connect has started and tracks (lib.rs:7967). The comment at lib.rs:7960: "processes the app spawned directly and lost track of" |
| `LoadRewritesLegacy`, `Session.cfg` with `Early = TRUE`, `Ops = {"status", "refresh"}` and no symmetry | a session that an early release stored with its access token decodes as a stored session, the token is ignored, and the condition to rewrite the entry never holds (control_plane/mod.rs:634, 837). The comment at control_plane/mod.rs:638: loading "rewrites the disk entry without" it |
| `DiskIsMemory`, `Session.cfg` | the Windows keyring refuses a session that the mirror takes, which counts as stored; the keyring is preferred at load, so a restart loads the older pair, whose refresh token is void (storage/mod.rs:485). No document speaks of it; the comment at control_plane/mod.rs:1002 counts on DPAPI "when Credential Manager is unavailable" |
| `OnlyCutsMix`, `Store.cfg` | two connects store the profile cache at once, with no lock between them, and their chunks end up under one manifest; the next load of the cache fails (control_plane/mod.rs:697). No document speaks of it |
| `PolicyHoldsInBridge`, `Routing.cfg` without `PacketsLeave` | in system-proxy mode with a rule for a program the bridge captures all programs, and its final rule is the direct exit although a signed policy names nothing of the kind (lib.rs:7453). The test `server_full_tunnel_keeps_only_required_steam_bypass` (lib.rs:3916) has it otherwise in TUN mode |
| `FailsClosedEverywhere`, `Routing.cfg` without `PacketsLeave` | a probe of a server with an unknown protocol over ws or xhttp builds a proxy outbound of that protocol in xray (config.rs:1003). The comment at config.rs:541: a request outside the supported protocols "must be rejected before it reaches" an outbound builder, as `vpn_connect` does and the probe does not |

The scope of a passing run is in its `Inputs`, and it matters. `ComesToRest` is checked
for clients that wait for one start to end, and for one start beside a network event. With
`overlap` two starts pass the busy check together. With an event and a second start, the
second passes it while a rotation of the first has reset the status between `Settle` and
`CreateJob`. Either way the start that is stale by then can have the last word, and the
word is Connecting. `ProtectedIsReal` is checked without network events: with two of them,
two rotations run under one generation, and one can publish Protected over engines the
other has stopped. With `overlap` it is checked for two operations only. Three starts that
overlap violate it: two find the runtime connected and repair it, a third with another
configuration under the same operation id replaces it, and the first repair, past its last
look at the generation, compares operation ids alone (service.rs:1700) and publishes
Connected over the job the third has just created; the second then enters its repair there
and sets the flags of adapter, routes and DNS before any engine runs. `OneRuntime` and
`EngineIsMarked` are checked without stops: a start that a stop overtakes still spawns
what it was about to spawn. Four more behaviours are in the model and no property speaks
of them yet. A status poll during a repair plants a fatal check (service.rs:1038) that the
finished repair does not remove. A repair that ends after its engine died, and after a
poll has noticed, writes Connected over the failure (service.rs:1703). A cancelled start
that finds sing-box taken away is repaired as if the engine had died (service.rs:1565). An
orderly service stop may race a start that rewrites the marker, so that the next start
reports a crash (service.rs:314).

## Proofs

`TunnelServiceProofs` proves `TypeCorrect == Spec => []TypeOK`, and
`TunnelServiceSafety` proves seven theorems on top of it, for any sets of threads,
operations, configurations, process and job ids and any bounds. Three hold for any
subset of the inputs: `FailedIsDown` (`Spec => []FailedOwnsNothing`),
`EnginesStayContained` (`Spec => []EnginesAreContained`) and `ProxyFailureStays`
(`Spec => ProxyFailureSticks`). `ProtectedStaysReal` (`Spec => []ProtectedIsReal`) is
for the inputs where clients wait for a start to end (`OneStart`: no `overlap`, `event`
or `repair`), `EnginesStayMarked` and `OneRuntimeRuns` (`EngineIsMarked`, `OneRuntime`)
for those where no stop runs beside it either (`Undisturbed`), and `ServiceComesToRest`
(`Spec => []ComesToRest`) for those where starts come in turn and, with network events,
only one of them (`InTurn`: no `overlap`, and `MaxGeneration <= 1` if there is `event`;
stops, repairs, crashes and any number of reasserts and rotations are free): outside them
the properties are false, as said above. The assumptions are `ConstantsAssumption`, that
sentinels lie outside the sets they extend and the bounds are naturals, and
`RequestsAssumption`, that the absent request is not a request.

`TypeOK` is not inductive: a start reads its request through `loc[t].request`,
which is typed only if the thread really has one. `TypeInv` adds `HasRequest`: a
thread at a label of the start path holds a request. `FailedOwnsNothing` follows
from one fact about each step (`FailedStep`): a step that leaves the state Failed
unchanged does not install a job, and every step that sets Failed drops it.
`EnginesAreContained` needs the strengthening `Contained`: an engine's job is the
runtime's job or one held by a stop in progress (`InJobs`); a stored engine is in
a job (`StoredAreAssigned`); a job is held only between `Take` and `Kill`
(`Held`); a process about to be stored has been assigned (`Assigned`); and a dead
process is in no job (`DeadHaveNoJob`). The proofs go action by action: most
actions touch none of the process variables and are dispatched by one lemma
(`Harmless`), the others (`CreateJob`, `Spawn`, `Assign`, `Store`, `Take`, `Kill`,
`MarkFailed`, engine exits and the end of the process) have a lemma each.

`ProxyFailureSticks` is a property of steps and needs `TypeInv` alone: each step leaves
the degraded checks of a connected runtime, or what replaces them keeps the proxy check
(`Sticks`). `ProtectedIsReal` speaks of a state that the last step of a start declares,
on the ground of what earlier steps found, so its invariant follows the start. `Lone`
says that one thread at most works for a request, and `Whole` how far it has come
(`Progress`): the status is not Connected before the end, the runtime's request is its
own, and after each spawn the slots of the engines begun so far are filled unless a stop
has emptied them and withdrawn the ports, which is what `Filled` relates. `Marking` adds
for the last two theorems that nothing but a start empties the slots (`Unstopped`), that
no job is created until the old one is closed (`Jobless`), and that the marker stands
from before a job is created until it is taken (`Marked`). By `Contained` an engine is
in the runtime's job or in one that the lone start is closing, and while it is closing
one the runtime has none, so two engines in jobs are in the same.

`ComesToRest` is about a state with no thread at work, and what it forbids is done by the
last thread that was. Its invariant `Rest` says that as long as no stop is on its way, a
status of Connecting or Disconnecting has a thread that will leave it, and that every such
thread has the current generation (`Tended`): only a stale start may end in silence. Once
a stop is on its way (`Cancelled`) nothing need be said of the status, because the
thread of that stop, or the exit it has asked for, is still there (`StopsEnd`): a thread
that carries the reason of a stop command does nothing but stop until it has asked for the
exit. That a start finds nobody at work when it takes a new generation (`NobodyWorks`) is
where the hypothesis enters: the busy check alone does not give it. `Placed` keeps the
rest, as that before the first generation no thread can be past the entry of a repair.

`SystemProxyProofs` proves `ProxyTypeCorrect == Spec => []TypeOK`, and
four theorems for the case `UserRaces = FALSE`:
`UsersServerIsSafe` (`Spec => []ServerIsSafe`), `ImplementsCustody`
(`Spec => KeepsCustody`), `UsersSettingReturns` (`Spec => []ReturnedExactly`) and
`RecoveryGivesBack` (`Spec => RecoveryHeals`), for any ports, servers, user settings
and bounds, from `ConstantsAssumption`: DoodleRay's values are not the user's, and the
bounds are naturals. `ServerIsSafe` says nothing about an operation in progress and is not
inductive. `CustodyInv` adds what each operation is about to write: DoodleRay's port in
force is the port of the file, except while an apply moves to another port
(`LentSaved`); any other server in force is the user's (`InForce`, and `LegacySaved` for
an old version's); an apply and a restore carry a snapshot with the user's server
(`ApplyCarries`, `RestoreCarries`, `FileGoes`); values are deleted only where an old
version left them (`CleansLegacy`). A step that begins an operation preserves it because
with the mutex free a port of DoodleRay's is always recognised (`FreeOwnership`); a step
that ends one, because only the apply to another port leaves file and registry apart, and
that one sets `torn`. The refinement maps the abstract `choice` to what `UserChooses`
alone writes, so that `Choose` can stand for no step but the user's. By the invariant the
user's value, in force or saved, equals that choice in every state
(`UsersValueIsChosen`); what is left to show is who puts DoodleRay's value in force:
only an apply (a restore carries the user's server), an apply belongs to the application
and not to a guardian, and its operation ends with it (`Appliers`, `LendsWhileUp`).

`ReturnedExactly` is about all values, so it needs an invariant of its own: `ExactInv`
says what of the user's values is in force, in the file and in the snapshot an operation
carries, after each of its writes, as long as `torn` is empty. `RecoveryHeals` is an
action property: only three steps end a start that runs on (`StartEnds`), the decision
that nothing is to be done and the last write of each way to give the settings back, and
`CustodyInv` says at each of them that no port of DoodleRay's is left in force without
its owner.

`OrchestratorProofs` proves type correctness and all four safety properties of
`Orchestrator` for any number of threads, requests, builds, inputs and connects, from
`ConstantsAssumption` alone. Each step of a thread is shown once to be `Lawful`: it moves
one thread in accordance with the lock (`Turn`), leaves a sound state of the system
(`Sound`), and says what it may do to what the theorems are about (`Calm`, `Tracks`).
The theorems are then inductions over lawful steps.
- `TypeInv` adds to `TypeOK` that `RUNTIME_OP_LOCK` works (`LockOK`: only the head of the
  queue is past its first step, and no command queues twice), and which label belongs to
  which build and branch (`LabelOK`).
- `ProxyStaysTracked`: `ProxyIsTracked` speaks of states at rest; `Tracked` speaks of all:
  a proxy in force is managed, was let go of in one of the three ways above, or a repair
  is about to say so.
- `DisconnectAlwaysWins`: `WishInv` says that after a disconnect a disconnect is still
  flagged or queued, with every connect that could start something ahead of it, or
  nothing runs and no command is on its way to start anything.
- `EnginesStayNamed` and `OneEngineAtATime`: `EngineInv` says what the holder of the lock
  knows to run at each step (`LaunchOK`), and that an engine without a name runs only
  while a connect is between its start and its commit (`Launching`).

`SecretStoreProofs` proves `SecretTypeCorrect == Spec => []TypeOK` for any set of
values with any numbers of chunks (the smallest assumption is that there is a largest
value), any failing stores and any bound on failures. `TypeOK` is not inductive: what
`WriteMain` writes is an entry only if the set knows its value, so `TypeInv` adds what
the step under way carries (`Carries`, `Ends`) and that the loops over the chunks stay
within them (`Counted`). Below it lie lemmas about the platform's calls (`SetKeeps`,
`GetKeeps`, `DeleteKeeps`): whatever their outcome they leave the plaintext file and the
stores the platform does not use alone (`Keeps`). What holds of the operation whose turn
it is holds of those in `paused` too (`OthersOK`). The four properties of the run follow
from these, for any values and sizes:
- `MigrationKeepsState` (`Spec => LegacySurvives`), for operations that overlap in any
  number and order: by `Keeps`, only `Forget`, `Consumed`, a get that shows a value, and
  the last part of a delete touch the plaintext file.

The other three are about operations on the key one after another. Their invariants are
proved as `Overlapped \/ ...`: a step before which none has overlapped is one of the lone
operation, a crash, or the step that makes them overlap (`AloneNext`).
- `DeletedStaysDeleted` (`Spec => []DeleteIsFinal`) for `Faulty \subseteq {"dpapi"}`, that
  is, a keyring that works always or never. The inductive invariant `Quiet` says that
  after a delete with success the key is gone from all three stores and the plaintext
  file, and that until something is stored again only a search can be under way
  (`Deleted`); that a delete which has removed the key without an error has removed it
  everywhere (`Deleting`); and that stores the platform does not use are empty
  (`Unused`). A search of a key that is gone finds nothing and puts nothing back
  (`GetGone`). The assumption is needed: `app_api_native_secret_delete` is satisfied
  with the DPAPI file alone (storage/mod.rs:498).
- `WhatIsSetIsRead` (`Spec => []SetIsRead`), for such a keyring too and any number of DPAPI
  failures. `SetIsRead` only speaks of the end of a get. `Fresh` relates every entry to the
  value under way: `Primary` is the store that a get trusts, the keyring or, where it cannot
  be used, the DPAPI files; what was stored last is held there whole or as a manifest with
  its chunks, of which a DPAPI file may be missing (`Holds`), until something else is being
  stored (`Lasting`); a set has written the chunks before its index (`Written`), a get has
  read those before its own (`Reads`), and a restore puts back what it took from the DPAPI
  files (`Restores`). Its lemmas say what a call does to `Primary` (`SetPrimary`,
  `DeletePrimary`, `GetPrimary`), and that the chunks of a value make that value
  (`TextWhole`).
- `ReadsStayWhole` (`Spec => []ReadsAreWhole`) where no call fails (`Faulty = {}`), whatever
  is killed between two entries. `Solid` says that, but for a set of more chunks than
  before (`Growing`) and what one leaves when it is killed (`cut`), every manifest counts
  the chunks of one value or one of them is missing (`Good`); that the chunks a set or
  delete has passed are gone and those still to come are gone or replaced (`Cleared`); that
  what a get has read is still there (`Reading`); and that the stores agree, so that
  looking up a chunk never puts another one back (`Agree`, `GetAgrees`). A set of no more
  chunks than before is whole at every step because the last old chunk stays missing until
  the last new one is written. One failing DPAPI call is model-checked, for two the
  property is false (see Runs).

`SessionProofs` proves the type invariant of `Session` and the five other properties of
its run, for any accounts, locations, requests, calls and bounds, from
`ConstantsAssumption` (`None`, `Blank` and the tombstone are none of the data, the
bounds are naturals). There are two inductive invariants.
- `Jobs` is about each call by itself: the type of its job, what it waits for and where
  its answer returns to (`Returns`), and what it carries (`Carries`): a job at a step that
  needs a session, a lease or an account has one, the lease is its account's, the cache it
  is about to write is sound (`CacheSound`). A step changes one job or spawns one more, so
  each action has a lemma saying that the job it leaves is right (`...Goes`).
  `CacheSound` does not depend on what other calls do to the stored cache in between, which
  is why reading, probing and writing it in three steps is harmless. `SessionTypes`,
  `CacheStaysItsOwners` and `LeasesAreUsable` follow.
- `Quiet` is about the session in memory, on disk and in the hands of the calls. As long
  as nothing has raced, no two calls overlap on it, memory is the session stored last,
  which is in the mirror where the keyring refused it, unless a call is about to store
  there (`Agrees`, `Kept`), after a sign-out that every backend took memory and both
  backends are empty or hold a tombstone (`SignedOut`), and each call knows what it needs
  for its next step (`Fits`): what it has stored is the newest, what it has found is what
  a restart would load, the pair it refreshes is the newest, the pair it invalidates was
  refused. Most steps take no call to a point where `Fits` says something (`CallsCalm`,
  one lemma for all of them); a call that changes the session is alone with it (`Alone`,
  `AloneStep`), and one that reads it meets nobody that changes it (`Reader`); `HistKept`
  are the histories such a step leaves as they are. `MemoryIsOnDisk`, `SignOutIsFinal` and
  `OnlyRefusalsDrop` follow.

`RoutingProofs` proves type correctness and the five safety properties of `Routing`, for
any profiles, policies, user rules, selectors, tags and packets, from
`ConstantsAssumption` (the tags the client gives are none of `Entries`, no program of a
user or of Steam is called `xray`, no rule names the resolver or a name that is not seen)
and `ProfilesAssumption`. The theorems carry what they ask of the profiles as hypotheses,
in the predicates above:

| Theorem | States | For |
|---|---|---|
| `RoutingTypeCorrect` | `Spec => []TypeOK` | any profiles |
| `RoutingFailsClosed` | `Spec => []FailsClosed` | any profiles |
| `RoutingPolicyHolds` | `Spec => []PolicyHolds` | `TagsMeanIt`, `OnlyDnsToDns` |
| `RoutingSplitIsSymmetric` | `Spec => []SplitIsSymmetric` | these and `OwnRulesLead` |
| `RoutingStatsReachApi` | `Spec => []StatsReachApi` | `ApiLeads`, of subscriptions too |
| `RoutingRulesNameOutbounds` | `Spec => []RulesNameOutbounds` | `RulesAreClosed` |

The proofs have two halves. The first is about the builders, as functions of a request:
each is shown to preserve a form of the configuration.
- `Held`: every rule that sends packets out directly is one the policy, the user or the
  client put there (`DirectForm`), only DNS goes to the DNS module, and no other outbound
  leads to either.
- `Splits`: the rules are three parts, the resolvers of the DNS module (`Sorts`), what the
  split sends to DNS or out directly (`Parts`), and the rest, which a packet of the split
  never reaches. `Prepare` strips selectors rule by rule and keeps this order.
- `ApiLed` and `OwnLed`: the rules of the statistics interface and of DNS are at the head
  or not there at all, after every builder.
- `Reachable`: each rule names an outbound or balancer that is there, and not only the one
  for statistics, which `Prepare` takes away (`Leadable`).

The second half is about the packet. `TypeInv` adds to `TypeOK` that the configurations
are those of the request, and `Travels` what each place says about how the packet came
there: at `direct` it is allowed to be (`Allowed`), or the bridge of system-proxy mode
lets it out by a rule about it or for want of one that hands it on (`Free`), and xray has
it as it was sent, or handed on by that bridge (`Seen`), or as a query that a resolver
made of it (`XrayLeg`). What the bridge's rules do with a packet is `AppSends`.
`SplitTravels` and `QueryTravels` say it for packets of the split and for statistics
queries, which each have one way to go, and `Closed` for sing-box with a protocol it does
not know: such a packet never reaches the proxy.

The rule lists are sequences filtered and folded. `Vec::retain` is a recursive function in
`Lists`. `ListProofs` shows what it computes by induction in the form of a set of numbers
that holds 0 and is closed under successor (`Inductive`), from the well-foundedness of the
naturals; the same for sequences built by `Append` (`SeqInductive`) gives the laws that
are used everywhere else: `Retain` of a concatenation is the concatenation of the two
(`RetainCat`), and its members are the members that are kept (`RetainElems`).

Only model-checked: `ProtectedIsReal` of `TunnelService` for two operations that overlap;
`ReadsAreWhole` of `SecretStore` with a failing DPAPI call; and liveness under fairness
(`PacketsLeave` and those of the `termination`, `answered` and `guardian` runs), which the
prover does not reach.

## Not modelled

- The named pipe itself (`ipc.rs`), the installer, ACLs and signature checks: their
  effect on the protocol is that a command is lost, repeated or refused, which
  `Orchestrator` and `TunnelService` have as steps; the rest is calls of the system.
- The engines. A process runs, exits or is killed; what it does with packets is only
  modelled as far as its configuration says (`Routing`), and whether a connection passes
  data is a nondeterministic answer of the probe in `Orchestrator`.
- The Swift side of the packet tunnel: `Orchestrator` has the network extension as an
  external machine that follows requests late or not at all.
- The pages and components, the ping runner, latency ranking and the updater: state of
  one renderer thread. `Orchestrator`, `Session` and `SecretStore` let its commands
  come in any order.
- Parsing of share links and subscriptions, and the vendored crates: pure functions of
  strings, whose correctness is a matter of their grammar.
- `spawn_nonfatal_policy_checks` in `TunnelService`: its threads write degraded checks
  without comparing generations. Adding one more writer to `MCTunnelService` multiplies
  a state space that is large already; the hazard is listed without a property.

## Plan

Done: `TunnelService` and `SystemProxy` with their proofs, the latter against
`ProxyCustody`; `Orchestrator`, `SecretStore`, `Session` and `Routing` with their proofs.

Next, in this order:
1. An abstract service (down, coming up, up, failed, with the answer to each command)
   that `TunnelService` implements and `Orchestrator` uses in place of its own.
2. The background policy checks in a `TunnelService` instance without repairs.
3. `ReadsAreWhole` with one failing DPAPI call as a theorem: `Agree` then has to allow one
   entry in which the mirror is behind the keyring.
4. The dashboard's connection flow, with its late answers and health monitor, and server
   selection as a function checked against a reference.
