# TLA+ models of the actors registry

This directory holds TLA+ models of the cross-node name service in
`src/python/actors/`:

- the registry process, `run_registry` in `registry.py`, with its
  heartbeat-monitor thread;
- the `RegistryClient` that every manager embeds (`registry_client.py`);
- the request and reply records (`registry_messages.py`);
- the two example processes `src/registry/examples/registry_pong.py` and
  `registry_ping.py`, which play ping-pong across the registry.

Each module is translated from the source. `PROJECT.json` maps every definition to
the lines it models, lists the TLC runs, the mutants that show each property can
fail, the findings and the hazards.

## The system

**Registry process** (`run_registry`, registry.py 326-449). It has two threads
that share three dicts of a `GlobalRegistry`:

- `_registry`: actor name -> (endpoint, manager);
- `_manager_actors`: manager -> set of names;
- `_heartbeats`: manager -> monotonic time of its last heartbeat.

The **main thread** loops on a ZMQ REP socket. It answers `RegisterActor`,
`UnregisterActor`, `LookupActor` and `Heartbeat` (lines 367-440). Only
`zmq.ZMQError` is caught (line 442); any other exception ends the process.

The **monitor thread** (`_heartbeat_monitor`, lines 127-131) wakes every second.
`_check_heartbeats` collects the managers whose heartbeat is older than 6 s.
For each of them, `_unregister_manager` does three things in order:

1. pops the manager's actor set;
2. deletes each of those names;
3. pops its heartbeat.

No lock protects the dicts, although spec §4.7 requires one.

**RegistryClient** (one per manager). It has one REQ socket with
`RCVTIMEO = 5 s` (line 96), guarded by `_socket_lock`. Two threads use it:

- a heartbeat thread that sends `Heartbeat` every 2 s and swallows every
  exception (lines 127-137);
- the application's `register`, `lookup` and `lookup_allow_offline` calls, which
  turn `zmq.Again` into `TimeoutError` and classify the reply.

A REQ socket refuses a send (EFSM) until the previous reply has been received,
even after a timeout.

**Interaction.** Managers register their actors and heartbeat. Other managers
look names up and get an `online` bit. A manager that falls silent has all its
rows removed ("decay").

**Examples.** `registry_pong` starts its heartbeat, registers "pong" and starts
its manager; `registry_ping` starts its manager, whose `Start` message makes
`PingActor.on_start` look "pong" up and send `Ping(1)`. Pong answers each Ping
with a Pong to the remote sender. Ping answers `Pong(k)` with `Ping(k+1)` and
terminates on `Pong(5)`. Neither side has a timeout on the exchange.

**Not in this source tree.** The actor runtime (`Actor`, `Manager`, mailboxes,
the remote transport and serialization) is described by spec §4.1-4.6, but its
code is not part of this source tree.

## Modules

| Module | Models | State | Actions |
|---|---|---|---|
| `RegistryState` | shared state and properties of the registry | `registry`, `managerActors`, `heartbeats`, `reply` (the last reply sent), `fresh` (history: names acknowledged with RegistrationOk since the last tick) | helpers `IsOnline` (160-165), `IsStale` (139), `Elapse` (time) |
| `RegistryAtomic` | the registry as spec §4.7 intends: each handler and each whole sweep is one atomic step | as above | `Register`, `Unregister`, `Lookup`, `Heartbeat`, `Sweep`, `Tick` |
| `RegistryServer` | the registry as the code runs: two unsynchronised threads | adds `srv` (main thread's program counter and locals), `mon` (monitor's pc, the size of `_heartbeats` at the start of the iteration, visited and stale managers, the popped set), `up` | one action per stretch of code between two thread-switch points: `RegRow`, `RegSet`, `RegHb`, `UnregPop`, `UnregDiscard`, `LookGet`, `LookCheck`, `LookRead`, `HbStore`, `MonScanStart`, `MonScanStep`, `MonPop`, `MonDel`, `MonHb`, `Tick` |
| `RegistryClient` | each manager's client (both threads and the REQ socket) talking to `RegistryAtomic`, which may crash and restart | adds `req`/`rep` (the one request and reply in flight per socket), `sock` (none/ready/wait), `lock`, `hbPc` (send/recv/sleep/stopped), `appPc` (idle, in a call, closing, closed), `appCall`, `appGot`, `appRes`, `up`, `crashes` | `HbSend`, `HbRecv`, `HbTimeout`, `HbWake` (the `while self._running` test, `HbRunning`), `AppCall`, `AppSend`, `AppRecv`, `AppTimeout`, `AppClose` (`stop_heartbeat`), `AppCloseSocket` (the rest of `close`), `Serve`, `ServerTimeStep`, `Crash`, `Restart` |

| `NameService` | the abstract name service (spec I2, I4, §4.7): name -> owner, first come first served | `names`, `answer` | `Bind`, `Refuse`, `Release`, `Resolve`, `Ack`, `Decay`, `Shutdown` |
| `RegistryActor` | `GlobalRegistry` as an actor hosted by a Manager (its docstring's usage), with callers that `fast_send` requests to it | `running`, `monitor` (the monitor thread's life), `mailbox`, `callPc` (each caller's call) | `RegistryInit`, `RegistryEnd`, `FastSend`, `Dispatch`, `CallTimeout` |
| `PingPong` | the two example processes, each with its `RegistryClient`, beside the crashing registry of `RegistryClient` | adds `pongPc`, `pingPc`, `toPong`/`toPing` (the Ping or Pong in flight, by its count), `pings`, `pongs` | `PongRegister`, `PongStarted`, `PongOnPing`, `PongShutdown`, `PingLaunch`, `PingOnStart`, `PingLookedUp`, `PingOnPong`, and every client and registry action for the processes still alive |

`MCRegistryAtomic`, `MCRegistryServer`, `MCRegistryClient`, `MCRegistryActor`
and `MCPingPong` fix the model values.

### Dispatch in `RegistryActor`

The runtime sends a message of class `C` to the method `on_<c in lower case>`
(test_actor.py 88-105). A message with no such method is dropped (spec §4.3).
`DispatchName` gives that name for each registry request class. `HandlerNames`
gives the method `GlobalRegistry` defines for it (`_on_register`, …). The two
tables never agree, so `Dispatch` only drops. The handler bodies are therefore
abstracted to their names: no execution reaches them. `RequestsAnswered` is an
action property about the dispatch itself: a request dispatched while its caller
still waits is answered. A `fast_send` that has already timed out is excused, so
the violation shows the name mismatch and not the timeout race; with matching
names the property holds.

### Refinement

`RegistryAtomic` instantiates `NameService` with `names <- registry` and
`answer <- reply` and checks `NameServiceRefined == NS!NSSpec` as a PROPERTY.
Each handler maps to one abstract step: a register to `Bind` or `Refuse`, an
unregister to `Release`, a lookup to `Resolve`, a heartbeat to `Ack`, a sweep to
`Decay` of the stale managers, and a tick to a stutter. The heartbeat dicts and
the clock are hidden. `RegistryServer` is not checked against it: its
mid-handler states and the findings below are exactly where it does not refine.

### The actor runtime in `PingPong`

The runtime's code is not in this tree, so `PingPong` follows the spec for it
alone: `Start` is dispatched first; an exception escaping a `Start` handler marks
the actor dead and the manager runs on (§4.3); `run()` returns only after
`terminate()`; a reply to a remote sender travels back over the wire (§4.2,
§4.5). Message loss by the push transport is not modelled.

### Abstractions

- **Endpoints.** An endpoint is identified with its owning manager, so a row is
  just name -> manager.
- **Time.** Time is the age of each heartbeat in ticks, capped at
  `HeartbeatTimeout + 1`. The code only compares `now - last` with the timeout:
  `>` when deciding staleness (line 139), `<` when reporting online (line 165).
  Every age above the timeout therefore behaves alike.
- **Thread switches.** In `RegistryServer` a tick falls only while the main thread
  is between requests and the monitor is asleep or dead. Each handler reads
  `time.monotonic()` once, so every race it finds happens within one instant.
- **Thread-switch granularity.** CPython 3.10+ switches threads only at calls,
  function entry and loop back-edges. Each server action spans one such stretch.
  Older interpreters switch more often, so every race shown here is also
  possible there.
- **Messages.** They are records with the fields the handlers and the client
  read. JSON, `timestamp_ms` and reason strings are dropped.

## Runs

| Run | Module / cfg | Expect | What it shows |
|---|---|---|---|
| `registry_atomic` | MCRegistryAtomic / RegistryAtomic.cfg | pass | If the handlers and the sweep are atomic (the single lock of §4.7), three things hold: an immediate lookup after RegistrationOk sees the row online (law 4, `FreshRegistrationVisible`); every row stays reachable by decay (`RowsReachableByDecay`); every offline row is eventually removed or comes back online (`DecayCompletes`). |
| `registry_atomic` (cont.) | | | The handlers and sweep implement `NameService` (`NameServiceRefined`). |
| `registry_client` | MCRegistryClient / RegistryClient.cfg | pass | Two threads on one REQ socket never return each other's reply (`ReplyMatchesRequest`). Every call returns, even when the registry crashes holding the request (`CallsReturn`). `close()` always gets the socket lock from a heartbeat thread blocked on a lost reply and finishes (`ClientCloses`). |
| `server_stays_up` | MCRegistryServer / Server_RegistryStaysUp.cfg | violation | A lookup's KeyError kills the registry (see Findings). |
| `server_fresh_registration` | … / Server_FreshRegistrationVisible.cfg | violation | An acknowledged registration is deleted by a stale decision. |
| `server_decay` | … / Server_DecayCompletes.cfg | violation | The monitor thread dies of "dict changed size during iteration". |
| `server_rows_reachable` | … / Server_QuiescentRowsReachable.cfg | violation | A row is left with no heartbeat entry and is never swept. |
| `client_errors` | MCRegistryClient / Client_ErrorsAsSpecified.cfg | violation | After one timeout, calls raise a raw ZMQError instead of Timeout. |
| `client_heartbeats` | MCRegistryClient / Client_HeartbeatsKeepArriving.cfg | violation | After one timeout, heartbeats silently never reach the registry again, although the client is never closed. |
| `pingpong` | MCPingPong / PingPong.cfg | pass | A completed game has sent exactly `Rounds` Pings and Pongs (`ExactlyRoundsExchanged`). Once ping has found a running pong, the game completes (`GameCompletesWithPong`). |
| `pingpong_game` | … / PingPong_GameCompletes.cfg | violation | `GameCompletes` excuses only pong being stopped by its operator (`PongShutdown` leads to `"stopped"`, main's `return 0`). A pong whose register timed out but was applied exits (`"exited"`, `return 1`), and the game hangs: see finding 7. |
| `actor_registry` | MCRegistryActor / RegistryActor_RequestsAnswered.cfg | violation | A hosted `GlobalRegistry` answers no request even when it dispatches one whose caller still waits: see finding 9. Deadlock is not checked, because every caller makes one call and the system then stops. |
| `pingpong_onstart` | … / PingPong_OnStartConcludes.cfg | violation | A ZMQError in `on_start` leaves ping hanging: see finding 8. |

### Bounds

**`RegistryAtomic`** uses 2 managers, 2 names and a timeout of 2 ticks (about
2.7k states). That is enough for both managers to own rows, for a name to be
refused, and for one manager to decay while the other stays online.

**`RegistryServer`** uses 2 managers, 2 names and a timeout of 1 tick. Every
violation needs at most two managers and one name. A timeout of 1 reaches
staleness in two ticks.

**`RegistryClient`** uses one manager with both threads, 2 names, a timeout of 1
and one registry crash (131k states, about 70 s):

- The client-side hazards all live inside one client.
- The registry's handling of several managers is checked by `RegistryAtomic`.
- With two managers the state space grows past 4 million states without
  finishing.
- Two names let a reply answer the wrong name, which `ReplyMatchesRequest` must
  be able to see.

**`PingPong`** uses the two managers of the examples, one name, a timeout of
1, one registry crash and `Rounds = 2` (169k states, about 100 s). Two rounds
exercise both branches of `on_pong`. Each process has both client threads, so
the timeout and wedge of findings 5 and 6 can strike either process.

### Fairness

**`RegistryAtomic`**: weak fairness on `Sweep` and `Tick`. The monitor wakes every
second and the clock runs. No request is ever forced to arrive.

**`RegistryClient`**:

- Weak fairness:
  - `Serve`: the registry loop polls continuously;
  - receive-or-timeout: `recv` returns within RCVTIMEO;
  - `HbWake`: the heartbeat thread's sleep ends;
  - the server's time step;
  - `Restart`: a crashed registry is restarted;
  - `AppCloseSocket`: `close()` waits on a plain `with self._socket_lock`, and
    once the lock is free it takes it (after `stop_heartbeat` the heartbeat
    thread takes the lock at most once more and then stops, so the lock stays
    free).
- Strong fairness on the two lock acquisitions (`HbSend`, `AppSend`). Each thread
  holds the lock for one round trip, and the heartbeat thread then sleeps 2 s, so
  the lock is free again and again even though Python's lock is not FIFO.
- Crashes are bounded by `MaxCrashes`, so the registry is eventually up for good.

**`PingPong`**: the `RegistryClient` fairness, for the client threads of live
processes only. It adds weak fairness on the example steps: a worker pops its
mailbox, a pushed message is delivered, and the operator launches ping. Pong's
Ctrl+C (`PongShutdown`) is not fair: it may never come. `GameCompletesWithPong`
therefore promises completion only while pong is not shut down.

**`RegistryActor`**: weak fairness on the worker's `Dispatch` and on each
`fast_send` timeout.

**`RegistryServer`**: weak fairness on the monitor, on ticks and on the steps of
a request in progress.

## Mutants

Every property of a passing run is broken by a plausible slip in a mapped action
(`PROJECT.json` "mutants"):

| Mutant | Slip | Property broken |
|---|---|---|
| `RegisterNoHeartbeat` | no implicit heartbeat on register | `FreshRegistrationVisible` |
| `RegisterNoOwnerSet` | name not added to its manager's set | `RowsReachableByDecay` |
| `SweepKeepRows` | sweep forgets the rows | `DecayCompletes` |
| `UnregisterToNone` | entry set to None instead of popped | `TypeOK` |
| `HbSendNoManager` | heartbeat without manager_id | `ClientTypeOK` |
| `AppSendRelaxed` | `REQ_RELAXED` without correlation: a later call reads the previous call's late reply | `ReplyMatchesRequest` |
| `AppTimeoutNever` | no RCVTIMEO | `CallsReturn` |
| `HbTimeoutNever` | no RCVTIMEO on the heartbeat's recv: a lost heartbeat reply holds `_socket_lock` for ever | `ClientCloses` |
| `UnregisterKeepSet` | unregister leaves the name in its manager's set (lines 404-405) | `NameServiceRefined` |
| `PingOnPongLate` | `> 5` for `>= 5` in `on_pong` | `PingPongTypeOK`, `ExactlyRoundsExchanged` |
| `PongOnPingNoReply` | `on_ping` forgets `self.reply` | `GameCompletesWithPong` |

## Findings (details in PROJECT.json)

1. **Lookup KeyError** (registry.py:162-164). Lookup tests for the heartbeat,
   calls `time.monotonic()`, then reads the heartbeat. The monitor can pop it in
   between. The KeyError escapes the `except zmq.ZMQError` and the registry exits.
2. **Acknowledged registration deleted.** The monitor decides manager M is stale.
   M registers `n` (heartbeat refreshed, RegistrationOk sent). The monitor then
   pops M's set, which now contains `n`, and deletes it.
3. **Monitor thread death.** A heartbeat or registration from a new manager during
   `for ... in self._heartbeats.items()` raises RuntimeError, which nothing
   catches. The thread dies and decay stops for good.
4. **Unreachable row.** A re-registration between the set pop (line 149) and the
   heartbeat pop (line 158) leaves a row whose heartbeat is removed. The row is
   reported offline forever and never swept.
5. **Wedged client: raw ZMQError.** After one receive timeout, the REQ socket
   raises EFSM on every send. `register`/`lookup` then raise a raw ZMQError
   instead of Timeout.
6. **Wedged client: heartbeats stop.** On the same wedged socket every heartbeat
   fails silently, so a live manager decays.

7. **Pong gone, ping hangs** (registry_pong.py:88). Pong's register times out
   although the registry applied it. Pong returns 1 without unregistering, so
   "pong" stays registered and online until decay. Ping finds it, sends
   `Ping(1)` to a dead process and waits for ever.
8. **ZMQError escapes `on_start`** (registry_ping.py:76). Only `RegistryError`
   is caught. On a wedged client the lookup raises ZMQError, the ping actor dies
   (§4.3), nothing calls `terminate()` and the process never exits.

9. **Hosted registry answers nothing** (registry.py:184). `GlobalRegistry`'s
   handlers are named `_on_*`. The runtime dispatches to `on_<class name>`, so
   a registry hosted by a Manager drops every request silently. Every
   `fast_send` ends in Timeout. Only `run_registry` serves the protocol.

Pong's clean shutdown (Ctrl+C, lines 93-113) does not unregister "pong" either.
A ping started within the decay window after it hangs the same way as in
finding 7. No run shows this: `GameCompletes` must excuse an operator stop, and
telling a stop before ping's lookup from one during the game would need a
history variable in a model that already takes about 90 s.

`QuiescentRowsReachable` applies `RowsReachableByDecay` only when both threads
are between operations, since mid-handler states are legitimately incomplete.

## Not modelled

- **`start_heartbeat` as an action.** Its only callers (registry_client.py:62,
  registry_ping.py:115, registry_pong.py:78) call it once, right after building
  the client, and `close()` once at the end; the model starts with the heartbeat
  thread running, and a client is never restarted after `close()`.
- **A socket leaked by `close()`.** A heartbeat thread that passed
  `while self._running` before `stop_heartbeat` and takes the lock only after
  `close()` opens a fresh socket through `_get_socket` that nothing closes. The
  model reaches this (`HbSend` after `AppCloseSocket`), but only by a thread
  stalled longer than the 3 s join in front of a free lock; it is a hazard
  without a run, since every run slot is used by a more serious question.
- **Re-registration after a registry restart.** `Crash`/`Restart` are modelled,
  but spec §3 says entries are destroyed on shutdown and nothing promises they
  come back, so there is no property to check.
- **Malformed requests** (registry.py:372). A request that is not JSON, or lacks
  a field a handler indexes, raises outside `except zmq.ZMQError` and ends
  `run_registry`, against spec §7 ("never crashes"). The system's own clients
  send only records of registry_messages.py, which the models' request sets
  cover; a foreign sender is outside the modelled system.
- **The bodies of the actor-form handlers `_on_*` (registry.py 184-263).**
  Neither `run_registry` nor the runtime's dispatch calls them (finding 9).
- **SSH process control and config loading.** These are pure I/O.
- **JSON encoding.**
- **The actor runtime beyond what the examples need.** Mailboxes, worker
  threads, `fast_send` and the wire codec are not modelled.
- **Process restarts of the examples.** A pong restarted within the decay
  window is refused its own still-registered name. This is listed as a hazard
  only: restarting a process would mean re-creating its client's state, and
  `PingPong` already takes about 100 s; a version with ping's exit after the
  game exceeded five minutes. Ping's own signal handler is not modelled either.
- **Loss by the push transport.** Its code is not in this tree.

## Status

Done: `RegistryState`, `RegistryAtomic`, `RegistryServer`, `RegistryClient`
(with `close`/`stop_heartbeat`), `NameService` with the refinement of
`RegistryAtomic`, `PingPong` (with pong's shutdown), `RegistryActor`. What is
left is listed above with the reason; a refinement mapping from
`RegistryServer` to `RegistryAtomic` would only restate findings 1-4, since the
unlocked server does not implement the atomic one.
