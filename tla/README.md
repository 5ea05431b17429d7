# Redis Watcher: TLA+ models, model checking and proofs

Redis Watcher connects to a Redis server, issues `MONITOR`, parses the stream of
commands and fans every event out to audit outputs and to an alert engine. On a
Sentinel deployment it streams only while its server is the master. This
directory models that program from its configuration to its exit: the bytes it
reads, the goroutines it runs, the sinks and channels it writes to.

## 1. Inventory

| Component | Source | State | Operations | Interacts with |
|---|---|---|---|---|
| Role checker | `internal/role/role.go` | `isMaster`, `current`, `probeErr`, `waiters` | `Run`/`probeOnce`, `Subscribe`/cancel, `notify`, `Wait` | Redis (INFO), metrics registry, MONITOR client (as its `Gate`) |
| MONITOR client | `internal/monitor/client.go` | backoff, session (connection, reader), gauge | `Run`, `runOnce`, `readLoop`, closer and gate watcher goroutines | role checker, events channel, registry |
| RESP helpers | `internal/resp/resp.go` | the caller's `bufio.Reader` | `ReadSimpleString`, `ReadBulkString`, `WriteCommand` | client, role checker |
| MONITOR parser, event | `internal/monitor/parser.go`, `internal/event/event.go` | none (pure) | `Parse`, `CommandLine` | client, outputs, alerts |
| Dispatcher | `internal/app/app.go` | events channel | `dispatcher.run` | client, outputs, alert engine |
| Outputs | `internal/output/output.go` | per-consumer queue, `failing`, counters | `Submit`, `Run`, `writeOne`, `drainAfterShutdown`, `Manager.Dispatch`, `encode` | dispatcher, sinks, registry |
| Sinks | `internal/output/{network,file,stdout}.go` | connection | `Write`, `dial`, `Close` | consumers |
| Alert engine | `internal/alert/alert.go` | queue, rate buckets, retry state | `Submit`, `Run`, `handle`, `sendOne`, `rateLimitAllow`, `nextBackoff` | dispatcher, channels, registry |
| Alert channels | `internal/alert/{telegram,webhook,pushgateway}.go` | none between two `Send` | `Send` | alert engine |
| Registry health, `/readyz` | `internal/metrics/metrics.go`, `server.go` | `roleKnown`, `monitorConnected`, `failingOutputs`, `failingAlertChannels` | setters, `Readiness` | written by all the above |
| Collectors, HTTP server | `internal/metrics/{collectors,server}.go` | listener | `Collect`, `NewServer`, `Run` | app |
| Configuration | `internal/config/config.go` | the settings | `Default`, `Load`, `applyEnv`, `Validate` | app |
| App, command | `internal/app/app.go`, `cmd/redis-watcher/main.go` | `runCtx`, the wait group, what awaits a deferred call | `Run`, `build*`, `wireMetrics`, `installSignalHandlers` | all |
| Logging, Sentry | `internal/logging`, `internal/sentryx` | log file, client | `Build`, `Init`, deferred `Close` and flush | app |

What is hard here: five to ten goroutines that share a context, bounded channels
and a capacity-one notification protocol; a gate that is read, and subscribed to,
at different moments; watchers of ended sessions that are still running when the
next session starts; streams that arrive in pieces and break off anywhere; writes
that stop in the middle; a shutdown in which readers may leave before writers;
sinks, channels and gateways that fail, hang or recover; a rate limiter with fixed
windows; a startup that can fail at seven places. `PROJECT.json` lists these
hazards line by line with the properties aimed at them.

What makes each component correct:

* role checker: no wake-up is lost, coalesced tokens hide no transition, the list
  of waiters is exact;
* client: sessions on a replica are closed, paused clients resume, nothing stays
  open or advertised after a session, shutdown releases every blocking point;
* wire: the complete lines of a connection, and nothing else, become events; what
  is printed of an event can be read back, as far as it is quoted where it has to
  be; the role is the one Redis reports;
* pipeline: every event is accounted for, in order, on every output; a slow sink
  blocks nobody in drop mode; shutdown completes; health is exact;
* network sink: records do not merge, "written" means sent, `Write` returns;
* alert engine: the limiter's bound, independence of channels, bounded retries,
  a push counted as sent is at every gateway;
* configuration and app: what `Validate` accepts can be run, `Run` releases what
  it acquired, the process ends.

## 2. Modules

```
RoleChecker  <--EXTENDS--  MonitorClient  <--EXTENDS--  MCMonitorClient
     ^                          ^
RoleCheckerProofs  <--EXTENDS-- MonitorClientProofs

OutputConsumer <--EXTENDS-- Pipeline --INSTANCE--> AuditLog
                             ^  ^  ^
            PipelineProofs --'  |  '-- MCPipeline
                 ^           NetSink <-- MCNetSink
                 |              ^
                 '------- NetSinkProofs

AlertEngine <-- Pushgateway <-- MCAlertEngine
     ^               ^
AlertEngineProofs <- PushgatewayProofs

MonitorParser <-- MonitorStream <-- MCMonitorStream, MonitorStreamProofs
Config <-- App <-- MCApp, AppProofs
```

**RoleChecker** models `role.go`. A subscription channel of capacity one is the
Boolean `signal[s]`. `probeOnce` is cut where another goroutine can look:
dial, reply, `isMaster.Store`, `current.Store` with `SetRedisRole`, `notify`.
`Wait` is cut at each read of the gate and at each critical section. `seen` is a
history variable: the published role when a subscriber registered or last
received. `RCSpec` is open: anybody may subscribe, cancel and receive at any time.

**MonitorClient** extends it with `client.go`. `clientPc` is where `Client.Run`
is; `cur` is the session of `runOnce`, `watcher[s]` the gate watcher of session
`s`. Session identities are recycled once their watcher has gone, so that an
unbounded number of reconnects is covered with two of them. `connOpen` is the
connection as seen from this side: the closer goroutine (`CtxClose`), the watcher
and the deferred functions of `runOnce` (`EndSession`) close it. A line is an
event, something to skip or a server error; `buf` counts the complete lines in
the `bufio.Reader`, which are still served after the connection was closed. The
dialer's timeout is an outcome of its own (`DialTimeout`), since `Run` takes it
for a context error. The dispatcher is reduced to a reader that may stop.

**MonitorParser** models `parser.go`: the head as operators, the loop of
`parseQuotedArgs` as a state machine with one action per branch. Lines are
sequences of symbols; `RedisLine` is a model of what Redis prints (external). The
alphabet holds every byte that Redis or the parser treats specially, and of the
bytes that are written in hexadecimal those that the digits `0` and `a` can write;
two of these are no UTF-8 by themselves, and `strings.ToUpper` replaces them in a
command by U+FFFD. Numbers are taken to fit their types: `ParseInt` and `Atoi` refuse
larger ones, which Redis does not print.
**MonitorStream** puts it at the end of a connection: AUTH, the reply to MONITOR or
INFO, the lines, each read through one `bufio.Reader` from a stream that arrives in
pieces of any size (`Arrive`) and ends between any two symbols (`Break`). It also
holds what is printed of an event: `quoteText`, `CommandLine` (the text of alerts,
before `Renderer` cuts it at 512 bytes), the text format of `encode` from `cmd=` on, and
`sourceIP`, with a reader of the printed text (`ReadArgs`) as their specification. A
role in INFO has no blanks around it, and is not empty. What is known of a Redis server is stated as
`RedisAssumption`: replies and lines end in a newline and contain no other; a session
that asked for MONITOR gets `+OK` or an error, then lines that are either what Redis
prints of an entry (`EntryOk`: digits where there are numbers, no closing bracket in
an address, no colon in a port, any words) or anything else; one that asked for INFO
gets a bulk string, with a role or without, or a line that is none.

**OutputConsumer** and **Pipeline** model the way of an event, a number, from the
monitor goroutine through the events channel, the dispatcher and each consumer's
channel to a sink that succeeds, fails or never returns, and the shutdown up to
the `wg.Wait` of `app.Run`. `drop_on_full` is chosen initially. `written`,
`errored` and `dropped` hold the events in place of the counters, `monDropped` those
that the client counts as dropped; `abandoned` holds the event, if any, that it gives
up in its blocking send when the context ends, which no counter sees.
`Consumer.failing` is read by its own goroutine only, so the swap and the update
of the registry are one step. **AuditLog** is the abstract promise: for each
output, a log that only grows and is always an increasing subsequence of what
MONITOR delivered. `Pipeline!AuditSpec` states the refinement, with `written` as
the log.

**NetSink** opens the sinks of the pipeline. Those of stdout and files write or fail in
one step (`PlainWrite`). For `network.go` there are the lazy dial, a TCP write
that goes on symbol by symbol while the peer reads, a datagram, the deadline or
reset that closes and forgets the connection, and the deferred `Close` of the
consumer. A record is a body and its newline; the text format also writes the newlines
of an argument, between quotes, so that only a peer that knows about quotes can split
text records. Each way out of `Write` is the `WriteOk` or `WriteFail` of
`OutputConsumer`, so `TimeoutsBoundWrite` says that the network sink is one of those the
pipeline's liveness assumes; stdout and files have no timeout.

**AlertEngine** models `alert.go`. An event is the verdict of `match` and of the
ignored-IP list, or its rate-limit key. Time is a counter that may advance
anywhere. `fired` and `outcome` are histories; a send that `outcome` calls failed is one
that Sentry captures (`Captured`). **Pushgateway** opens the `Send` of
the last channel: a goroutine per URL, `wg.Wait`, and the collected errors. A push
that fails may have been accepted all the same (a lost answer).

**Config** models `config.go`: `Default`, a file as a partial record that `Decoded`
fills in over the defaults (`Typed` are the values the decoder lets through),
`ApplyEnv` with overrides that do or do not parse, `Invalid` and `Normal` for the two halves
of `Validate`, and `Usable`, what the parts behind it need: `PartsUsable` for the
constructors and loops, `CanDial` for the dialer of the MONITOR client. **App** models
`app.Run` with what it builds and starts, its signals, the HTTP server and its
deferred calls; each long-running part is one member of `running`. It includes the
errors and panics of the constructors, which is how a setting that `Validate`
should have caught would show. (`wireMetrics` registers one collector on a fresh
registry, which cannot refuse it.)

Definitions called "Variant with a bug" are not used by any specification: each is
the form a plausible mistake in the code would take, and is listed under
`mutants` with the property that detects it.

## 3. Runs

| Run | Question | Result |
|---|---|---|
| `monitor_drop` | Safety of client and checker over two sessions and the roles master, slave, sentinel; and `RCSpec`: the client is a legal user of the checker | holds, 1.6 M states |
| `monitor_live` | Shutdown, promotion and demotion lead where they should, in blocking mode | holds |
| `wire` | The complete lines of a connection become exactly their events, INFO exactly its role; what is printed can be read back, given plain commands; the parser's loop advances | holds, 0.2 M states |
| `pipeline` | Accounting, order, health and the refinement of `AuditLog`, dropping and blocking, with a file and a TCP or UDP output; records never merge at a peer, and "written" is what was sent | holds, 1.3 M states |
| `pipeline_live` | Hung sinks stop nobody; in blocking mode everything is delivered unless shut down; shutdown completes but for one stranded dispatcher; timeouts bound the `Write` of a network sink | holds, 0.1 M states |
| `alert` | Rate limiter, retries, backoff, channels, parallel pushes, shutdown | holds, 1.3 M states |
| `app` | Valid configurations run, unless the dialer's timeout is negative; nothing is left behind; the process ends | holds, 0.15 M states |
| `demotion_while_dialing` | README: on a demotion the connection is dropped immediately | violated |
| `dial_timeout_stops` | `Client.Run` blocks until the context is cancelled | violated |
| `ready_during_outage` | `/readyz` fails closed while probes fail | violated |
| `shutdown_blocked` | `app.Run` returns after a shutdown, also in blocking mode | violated |
| `abort_captured` | Sentry captures a failed send only after all its attempts | violated |

### Disagreements found

1. *Demotion while dialing.* `Client.Run` reads the gate, then dials, then
   subscribes; a demotion published in between is notified to nobody. The session
   streams from a replica until the role changes again. `DemotionCloses` shows the
   rest of the promise: a session that subscribed while the role was master is
   closed. `Checker.Wait` re-checks after subscribing; `runOnce` does not.
2. *Dial timeout.* `errors.Is(err, context.DeadlineExceeded)` is true of the
   error a `net.Dialer` gives when its own `Timeout` expires (unless the poller
   reports it first), so `Run` returns instead of retrying, and `app.Run` shuts
   the daemon down.
3. *Readiness during an outage.* A failed probe changes neither the role nor
   anything `/readyz` reads; `LastError` has no caller.
4. *Shutdown in blocking mode.* `Consumer.Submit` and `Engine.Submit` are plain
   sends; once the reader has drained and left, a dispatcher in the middle of its
   fan-out waits for ever and `wg.Wait` with it, until a second signal.
   `ShutdownCompletes` shows that this is the only way not to return.
5. *Aborted retries reach Sentry.* A shutdown during a backoff makes `sendOne` leave
   its loop with "retry aborted" and capture that, after however few attempts; the
   comment of `sendOne`, the README and `config.example.yaml` say that Sentry
   captures only after all attempts. `GivenUpOnlyWhenExhausted` shows that a shutdown is
   the only way to give up early.
6. *Two outputs of one type* (no run of its own: everything about it is decided before
   the first step). `Validate` accepts them, and the collector of queue depths labels a
   consumer's queue with the type of its sink, so it sends one series twice and every
   scrape of `/metrics` is an error. The README promises the depth of "each internal
   channel on every scrape".

### What else a reader of the code should know

* *Two outputs of one type*, again. Sinks are named by their
  type, so the registry's failing set does not tell them apart (a healthy one
  removes the entry of the failing one; `FailingOutputsExact` is checked,
  and proved, for distinct names; without them `RegistryRaisesNoFalseAlarm` is what
  remains).
* A negative `redis.dial_timeout` passes `Validate` and `monitor.New`. The dialer
  then times out before it starts and, by disagreement 2, the daemon ends.
  `ValidConfigRuns` names it as the only number with such an effect.
* An event that the client holds in a blocking send when the context ends is in no
  counter. `EveryEventAccounted` shows that it is the only one, and the last.
* The text of an event is ambiguous when a command has blanks or quotes in it, since
  commands and subcommands are printed without quotes: `A B` alone and `A` with the
  argument `B` look alike. The names of Redis' own commands have none;
  `RenderedFaithfully` has this as its premise.
* `metrics.path` is not validated: a path without a leading slash, `/healthz` or
  `/readyz` panics in `NewServer`, after the role checker was started.
  `ValidConfigRuns` names this, the DSN and the patterns as the only settings that
  pass `Validate` and fail later.
* With `role_check.enabled: false` nobody sets `roleKnown`, and `/readyz` is 503.
* `written` on a TCP or UDP output means accepted by the kernel
  (`WireMatchesLog`): a reset loses what the peer has not read.
* The limiter's windows are fixed, so "at most `max_alerts` alerts per `window`"
  (`config.example.yaml`) holds of each of them; for any stretch of one window's length
  `RateBound` is the real bound, almost twice `max_alerts`.
* A request to a gateway that timed out may still arrive after `Send` has returned;
  `NoPushOutlivesSend` is about the goroutines.

### Bounds

* Sessions: two identities, recycled, so a new session overlaps with the watcher
  of the previous one. Three overlapping watchers add no new interaction, since
  watchers meet only through the waiter list and their own connection; the proofs
  cover any number. `MaxBuf` bounds the lines of one socket read; channels have
  capacity one, so that full and empty are both one step away.
* `BackoffMax` is small but above `BackoffMin`, so doubling and the cap both occur.
* Pipeline: three events and capacity-one channels fill a consumer (one in hand,
  one queued, one refused) and the events channel while the dispatcher is busy.
  Two outputs, one of them a network sink, for safety; one network output and the
  alert engine for liveness.
* Network sink: a record has two symbols, the least that can be cut, and a socket
  holds one, so that every write can stall inside a record; three events allow a
  reconnect after a complete record and one after half of one.
* Alert: four events, two ticks of time, a window of one tick, two keys, two
  channels, three attempts, two gateways: windows expire, limits are met, retries
  are exhausted, and a gateway that took the alert is pushed to again.
* Wire: all command lines of one word up to three symbols and of two words (up
  to one and two symbols) over nine symbols chosen to collide: `a` and `0` are hex
  digits, `a` and `x` are escape letters, quote, backslash, blank, bracket, and two
  bytes that are printed as escapes; every kind of head; 785 tails that Redis would
  not print; two lines with a stray or error line before, between or after them.
* App: each number is one of -1, 0, 1 and 5, below, at and above every threshold
  and on both sides of the defaults; settings vary one at a time, or together where
  `Validate` relates them; one or two outputs; three environments.

`CHECK_DEADLOCK FALSE` is set where the system may really stop: a client that has
returned, an engine that has closed, or a bound on time or events reached.

### Fairness

Weak fairness stands for the Go scheduler, for timers and for operations with a
timeout or on a closed connection. `select` picks evenly among ready cases, so a
ticker or a busy queue cannot hide a done context for ever: strong fairness of
the context cases. Nothing is assumed of Redis (replies, lines, failovers), of
signals, or, in `MonitorClient`, of the dispatcher. In `Pipeline`, `FairSpec`
assumes nothing of sinks and alert channels; the premise `DownstreamReturns` of
`ShutdownCompletes` and `DeliveredUnlessShutdown` adds that calls return. For the
network sink `TimeoutsBoundWrite` derives it from the dial timeout and the write
deadline, with nothing assumed of the peer. In `App`, that a part stops once it is
cancelled is what the models of the parts show (`ShutdownStopsClient`,
`ShutdownStopsHelpers`, `ShutdownCompletes`, `ShutdownStopsEngine`); because of
disagreement 4 it is assumed only while queues drop.

## 4. Proofs

TLAPS checks, for every value of the constants that satisfies the named assumptions:

* `RoleCheckerProofs`: `RCSpec => []RCInv`, hence `NoLostWakeup` and
  `NoMissedTransition`. `NoLostWakeup` is not inductive: a probe between
  `isMaster.Store` and `current.Store` has flipped the gate without a token being
  sent. `RCInv` adds that outside this window `isMaster` agrees with `current`
  (`StoredRolesAgree`), so that a flip of the gate is always a change of role and
  is notified, and that `Wait` is registered from its subscription to its return
  from the select (`WaiterRegistered`), so that it is among those notified.
* `MonitorClientProofs`: `Spec => []ClientInv` and `Spec => RCSpec`.
  `StepImplementsChecker` shows each step of the composition to be a step of the
  open role checker or a stutter; the theorems about the checker then hold of the
  composition. `ClientInv` adds `SessionShape`, which says what is open in which
  part of `runOnce`; it carries `NoLeakedSubscription`, `OpenSessionIsGuarded`
  and, together with `RCInv`, `SessionWakeup`.

* `PipelineProofs`: `Spec => []PipelineInv`, hence `TypeOK`, `EveryEventAccounted`
  and `InOrder`, and `Spec => AuditSpec`. None of them is inductive alone: that an
  event goes to a free place needs to know which place it comes from. `PipelineInv`
  describes the way to an output as a row of six sequences (`Stages`) that is sorted
  inside and from one to the next, and the eleven places of an event as a partition of
  all that was produced; the event that the client abandons is the last one it produces. Every action moves one event from one stage to the next
  (`Advances`), takes it out (`Leaves`) or produces it; the lemmas show once for each
  of these that order and partition survive. The step simulation of `AuditLog` needs
  from it that the event in hand is newer than all that is written.
  `FailingOutputsExact` is proved from a second invariant under `DistinctNames`, a
  hypothesis of the theorem and not an assumption, since `Validate` does not enforce
  it; `NoFalseAlarm` holds for any names.
* `NetSinkProofs`: `NetSpec => Spec` by step simulation (a dial and a write in parts
  are, for the pipeline, a `Write` that has not returned), which gives the pipeline's
  theorems to the network sinks, then `RecordsNeverMerge` and `WireMatchesLog`. `Wired`
  relates the streams of a sink, its connection, how much of the record in hand is
  sent, and the log: only the last stream may end in half a record, and only while
  its connection is in use. It relates sets of events; that the log and the
  concatenation of the streams are the same sequence follows because both are
  increasing (`FlattenInOrder`) and a set can be put in order in one way (`OneOrder`).
* `AlertEngineProofs`: `BucketCountsFired` and `RateBound` from `LimiterInv`. A bucket
  counts the alerts since its window began, the first of them at that very moment;
  before it, a stretch of one window's length that reaches into it holds at most
  `max_alerts - 1`, because the window before began earlier than the stretch. Both
  parts of a stretch are bounded so. `EveryChannelTried` from `DispatchInv`: the
  channels before the current one are settled, the others untried, and between two
  alerts it is all or none. `GivenUpOnlyWhenExhausted` is inductive over the types;
  `BackoffGrowsToCap` needs `BackoffInv` for the first attempt, and `2^n` by a count
  of subsets.
* `PushgatewayProofs`: `PushSpec => Spec` of the engine, so that its theorems hold
  with parallel pushes as well, then `SentMeansEveryGateway` and `NoPushOutlivesSend`.
* `AppProofs`: `ValidConfigRuns` from `ConfigInv`, which rests on three lemmas about
  `Validate`: what it normalises is normal (`NormalIdempotent`), still valid
  (`NormalStaysValid`) and usable by all parts but the dialer (`NormalIsUsable`);
  `NothingLeftBehind` from `ResourceInv`, what is held at which point of `Run`.
* `MonitorStreamProofs`: the bytes of a connection, whatever the pieces in which they
  arrive, for words of any number and length over the symbols of the model.
  - *Framing*, for any server. `StreamInv` says that the client stands at the
    beginning of a line of all that was sent: consumed, buffered and in flight, put
    together, give exactly that. Hence `WholeLines` (what is parsed is one whole line
    of the stream), `LineByLine` (the loop takes nothing or the next line, so none is
    lost or read twice) and `LoopAdvances`.
  - *The parser*. `ParserUndoesRepr`: `WordsInv` follows the loop through the text of
    the words. `FlattenLaid` says where each part of a text put together from parts
    begins, `ReprAllSpelled` applies that to words and symbols, and the
    loop is always between two words (`BetweenStep`) or between two symbols of one
    (`WithinStep`), with what it has collected a prefix of the words. `ParseIsExact` adds
    the head: `HeadExact` finds the blank, the closing bracket (the first that is
    followed by a quote, whatever quotes and brackets the words contain) and the colon
    of the address, and `NanosSum` computes the padded fraction. `HeadKept` carries the
    head to the end of the loop.
  - *`DeliveredExactly`* from `DeliveryInv` with `SessionInv`, `StreamInv` and the
    theorem before: the loop has passed the first `m` lines, none of them an error,
    what is still to come is the text of the others, and the results are one for each
    line passed that begins with `+`, exact for an entry (`Covered`). When
    the session closes, the lines heard are the lines passed (`HeardIs`), since of
    the next one the end has not arrived.
  - *`RoleIsExact`* from `RoleInv`: before the body is read, the stream to come is the
    rest of the reply and a bulk header was its length. `RoleRead` computes the
    role in a body, `BulkSplits` the header, and a body that broke off is never read,
    because `ReadBody` waits for all of it.
  - *`RenderedFaithfully`* from `EventInv` (an event is made of head and words),
    `ArgsInv` and the earlier invariants. `ArgsRead` follows the reader of the
    printed text through words printed as they are (`PlainRead`) and between quotes
    (`QuotedRead`); a word that needs no quotes is printed as an argument would be, so
    that a command line (`CommandLineReadBack`) and a line of the text format
    (`TextLineReadBack`) are two texts of arguments one after the other
    (`ArgsReadBack`); `PortIsPlain` gives the one fact that `sourceIP` needs.

The library's induction theorems cannot be instantiated. Where an argument needs
induction over numbers or sequences, it is made as the absence of a least
counterexample (`WFMin` for the order of the natural numbers: `LeastOfNat`,
`MinOfNat`); that the recursive functions inside `FlattenSeq`, `Number`, `Nanos` and
`ReadArgs` exist is proved so too (`JoinExists`, `HornerExists`, `PaddedExists`,
`ReadExists`).

Assumptions, all named in the module that declares the constants: the waiter is one
of the subscribers and no session; no rate-limit key is a verdict; capacities are natural numbers; `BackoffMin` is
positive and at most `BackoffMax`, and there is at least one attempt, which
`config.Validate` enforces; an engine has a channel (`buildAlertEngine` returns none
otherwise), and the pushgateway channel a URL (`Validate`); a socket holds something; files and
environments have values of the types of `config.go`; a server sends sequences
of symbols (`SessionsAssumption`, enough for framing and `LoopAdvances`) of the form that
Redis gives them (`RedisAssumption`, section 2). Without the latter the three results
about content are false: Redis does not print a port with a colon, which `sourceIP` would
cut, and the expected event is defined by the entry. TLC evaluates all of
them on the sessions of `wire`.

Only model-checked: the liveness properties and `TimeoutsBoundWrite`, since fairness and
ENABLED are beyond the prover. Every invariant and every other action property that a
passing run checks is stated by a theorem.

## 5. Not modelled

* Prometheus series and collectors, Sentry spans, log messages and the
  statistics ticker of the dispatcher: they influence nothing that is modelled.
* The text of Telegram and webhook requests and of the JSON format, and file
  rotation: formatting, or the work of a library. Their results are the success or
  failure of a `Send` or a `Write`.
* The conjunction of `/readyz` over all four health sources at once: they belong to
  components that do not interact otherwise, so each is checked with its writer
  (`Ready`, `QuiescentOutsideSession`, `FailingOutputsExact`, `EveryChannelTried`)
  and the product of their state spaces would show nothing more.
* Credentials, label sets and texts of the configuration that are passed through.
* Numbers with a sign, or too large for their type, in the head of a line, and
  hexadecimal escapes outside the alphabet of section 2.
* `PUSHGATEWAY_URL` in the project's README is `PUSHGATEWAY_URLS` in the code; the
  model follows the code.

## 6. Plan

1. Done: every component of the inventory modelled and model-checked; every safety
   property of client, checker, wire, pipeline, network sink, alert engine, pushes,
   configuration and app proved, with the refinements between them.
2. What remains: the liveness properties stay with TLC. When the code changes, the
   `map` of `PROJECT.json` says which definitions to compare with which lines; the
   disagreements of section 3 are the runs that should turn into passing ones when
   they are settled.
