# A verification project for webapp-wago

webapp-wago serves a REST API over WhatsApp accounts ("instances"): each one is
a whatsmeow client inside one Go process, with a row in a database; what happens
on it is sent to webhooks, RabbitMQ, NATS and websockets. A second program, the
MCP server, turns the REST API into tools and buffers the events.

The TLA+ modules here model the Go code of both programs, except for what
section 7 lists. TLC checks them on small instances, and TLAPS proves the main
safety properties for every value of the constants. Line numbers refer to files
under `src/`; `whatsmeow.go` is `pkg/whatsmeow/service/whatsmeow.go`, and
`PROJECT.json` maps every definition to its lines.

## 1. Inventory

| part | state it keeps | operations | what is hard about it | correct means |
|---|---|---|---|---|
| instance lifecycle (`whatsmeow.go`) | the maps `clientPointer`, `myClientPointer`, `killChannel` (no lock), one goroutine of `StartClient` for each client, a QR counter, presence goroutines | `StartClient`, `StartInstance`, `ReconnectClient`, `ConnectOnStartup`, `ClearInstanceCache`, the connection events of `myEventHandler` | goroutines race on the maps; kills go over an unbuffered channel that several goroutines receive from, and some close; crash and restart | a reachable connected client has a goroutine that can be told to stop; no two goroutines own one client; a client that is logged out or past its QR limit stays down; a dropped connection is made again |
| instance API (`instance_service.go`) and rows | the row the middleware loaded for the request; the copies of it that clients and supervisors keep | Create, Connect, Reconnect, Disconnect, Logout, Status, GetQr, Pair, ForceReconnect, Delete, proxy and settings | acts on the maps above beside the goroutines; saves whole rows it has read earlier; keeps settings in four places | the row says what is true, the client works with the row's settings, nothing is lost to an older copy |
| webhooks (`pkg/webhook`) | a table, a cache of its rows, a cache of names | Create, Update, Delete, Reload, Dispatch, InvalidateNames | both caches are filled in two steps; count and insert are two steps; errors dropped | the caches follow what they are made from; the cap holds; a filter uses current names |
| websocket producer (`pkg/events/websocket`) | one connection for each instance, a slice of broadcast connections, an RWMutex | ServeWs, Add, Remove, Produce | connections replace each other; writes have no deadline; two writers | live connections are served, dead ones forgotten |
| RabbitMQ, NATS and webhook producers (`pkg/events`) | one connection and channel; nothing; retry goroutines | Produce, reconnect | connection shared without a lock; retries reorder; a failure reported as success | what is reported as published was published |
| event handler and routing (`myEventHandler`, `CallWebhook`, `sendToQueueOrWebhook`, `SendToGlobalQueues`) | the rows of messages, votes and labels; a set of receipts already handled | by subscription, to each transport | one failing transport cuts off the others; tables of event names in four places; receipts repeated and late | each subscribed transport gets each event, and nobody one he ignores |
| sending (`pkg/sendMessage`) | retry counters of a call | each kind of message, album | reconnects the instance from within a send; looks the client up again for each call | one message for each request, and an honest answer |
| polls, storage (`pkg/poll`, `pkg/storage`) | a table of votes; files | upsert, results; store | votes arrive under two names | the last vote wins |
| REST interface (handlers, routes, middlewares, the other services) | none of its own | one request in, some calls out | each layer reads the body in its own way; clients go away between two steps of a service; errors dropped on the way | a complete request is served, an answer is true, an address is normalised once |
| MCP server (`cmd/mcp`, `internal`) | a bounded event buffer, a websocket client with a backoff, one active instance | push, poll, clear; reconnect; select an instance; tools | buffer full between polls; calls share one selection; cancellation | events of a type come in order and once; a call goes to the instance it selected; a stop ends everything; a tool given what it asks for works |
| the rest: logging, configuration, core gate, API documents, the manager (TypeScript) | none | - | - | - |

How they interact: a request passes the middlewares, which load the instance's
row and rewrite addresses in the body, and runs a service method; the instance
service calls the lifecycle functions and reads the three maps directly. The
other services look the client up in `clientPointer` and start it when it is
missing. The event handler of a client runs on the goroutines of whatsmeow,
writes rows, sends on the kill channel, and starts a goroutine with
`CallWebhook` for each event. `CallWebhook` dispatches to the webhooks (through
their caches) and to the producers. The MCP server is a client of the API and of
`/ws` or of a webhook. `PROJECT.json` lists each component with its status, and
under `hazards` what can go wrong in each, at the line where it bites.

## 2. Plan

All rows are done. What the order was for: what may hang or lose a whole
instance first, what may lose an event or a message next, then what answers
wrongly.

| order | modules | models | abstract view and theorems |
|---|---|---|---|
| 1 | `InstanceLifecycle`, `InstanceLifecycle_proofs` | the lifecycle and the instance API | typing; five safety theorems |
| 2 | `WebhookStore`, `WebhookStore_proofs` | table, cache and the requests on them | typing; the cache; the cap |
| 3 | `WebsocketHub`, `WebsocketHub_proofs` | the websocket producer | typing; three safety theorems |
| 4 | `SendService`, `SendContract`, `SendService_proofs` | all that sends a message | the contract of `POST /send/...`, implemented by the service |
| 5 | `RabbitProducer`, `EventRouting`, `EventDelivery`, `EventDelivery_proofs` | an event from the handler to every transport | `RabbitProducer` is the specification of its part of the composition, which implements it; typing of both, seven safety properties |
| 6 | `PhoneNumber`, `JidValidation`, `RestHandlers`, `RestServices`, `RestRoutes`, `RestApi`, `McpTools`, `RestApi_proofs` | one request from its key to its answer, and the tools that make requests | typing; five safety theorems |
| 7 | `EventFeed`, `EventFeed_proofs` | buffer, socket, active instance and transports of the MCP server | typing; three safety theorems |
| 8 | `InstanceSettings`, `InstanceSettings_proofs` | the row, its copies and the settings in use | typing; lost updates; answers in force; the settings in use |

What would come next: a composition of `InstanceSettings` with
`InstanceLifecycle`, whose races for the maps are abstracted there; the
operations on webhooks composed with the dispatch of `EventDelivery`, which has
a fixed table; and the manager. Modules with a prefix `MC` are the instances
that TLC checks.

## 3. The modules and the code

### InstanceLifecycle

One instance (the maps are keyed by instance and share nothing else that
matters here) and every goroutine that can touch it.

| variable | code |
|---|---|
| `row` | the columns `connected` and `jid` of the instance's row, or that there is none |
| `session` | whatsmeow's device store still holds the device linked last |
| `clientPointer`, `myClientPointer`, `killChannel` | the entries of the three maps |
| `thread` | the goroutines in `StartClient` (285-797): where they are, their client, channel and `cd.Instance.Jid` |
| `client` | each whatsmeow client: its socket, whether it is logged in and paired, its event handler, the event that waits for it, `qrcodeCount` |
| `presence` | the goroutines of `schedulePresenceUpdates` |
| `reconnector` | the goroutine the Disconnected event starts (1852) |
| `request` | the requests in progress, with the copy of the row each was given |
| `process` | starting, running, or ended by a panic |

`StartClientStep` splits `StartClient` where another goroutine can see the
difference: `Enter` (292-385), `NewClient` (387-396, writes `clientPointer`),
`AddEventHandler` (398-482, writes `myClientPointer`), `ConnectClient` (484-549),
the QR loop (`QrCode`, `QrLimit`, `QrTimeout`, `QrEnd`, 550-733; it goes on with the codes
already received when its client has been disconnected, and then clears the entries
of a newer client), and the supervisor's polling loop (`PollKill`, `Teardown`, 737-797), which ends by calling
`StartClient` again. `EventHandler` has an action for each connection event of
`myEventHandler`; `RequestStep` has one to four actions for each API operation,
cut at the waits, sends and sleeps of the code; a save that fails ends it where the
code returns. `ReconnectClient` (155-211) has six: it disconnects, removes the
handler, sends the kill, deletes the entries, marks the row and starts the instance,
and others act in between. `WhatsApp` is external: what the
library and the phone do to a client. A goroutine that sends on the kill channel
blocks until a receiver takes it; the supervisor's `select` has a default branch
and so never waits, which is why the non-blocking sends of `ReconnectClient`
(`TryKill`) can only be taken by a presence goroutine.

Abstractions: adjacent statements nobody can observe between are one step
(closing a channel and deleting its entry; deletes that follow each other); the
`qrcode` column is left out, and the message events are in `EventDelivery`;
presence goroutines beyond the pool are not followed; the device linked last is
followed, older ones only as "old"; the Go data races on the maps themselves are
not modelled (each map access is one step). External assumptions: removing an
event handler waits for the handler that runs; `IsLoggedIn` of a client that is
down may say either; a logout of an unpaired client may be refused; gin and
whatsmeow recover panics in their goroutines, the goroutine of `StartClient` does
not.

### InstanceSettings

The row of one instance and everyone who keeps a copy of it: the requests
(`copy`, loaded by the middleware and saved whole by `Save`), the supervisors
(`watching`, whose copy a killed client is started with again), the goroutines
about to start (`pending`), and the running client (`running`, the `MyClient`
with its `Instance` and the fields beside it). A setting is the number of the
write that gave it its value, so that an older value can be told from a newer
one. `SaveRow` is gorm's `Save`, which inserts a row that was deleted;
`UpdateAdvancedSettings` and `Event` are updates of single columns; `DeleteRow`
ends a deletion. `StartInstance` fills in a missing proxy from the configuration
(2230-2251) before it starts the client; its read and its write of the row are one
step. `Apply` and `ReadBack` are the two functions that carry settings
to a running client (2573-2653). `Kill`, `Clean`, `Restart`, `Signal` and `Forget`
are what the operations do to the client, without the races for the maps, which
are `InstanceLifecycle`'s. `last`, `since`, `overtaken`, `deleted` and `raced` are
history variables; `Stamp` and `UpdateColumns` keep them.

### WebhookStore

The rows of one instance, the cache entry that `Dispatch` reads, and requests and
dispatches that are between two calls of the repository. `Create`, `Insert`;
`Update`, `Save`; `Delete`; `Reload`, `Store` follow
`webhook_service.go:321-383`; `Miss`, `LazyReload`, `LazyStore` are `getCached`.
`Refused` and the second branch of `Reload` are database errors. A webhook is
reduced to a switch, the flag of ADR-0049 and a field with a default, enough to
tell what `toModel` does with an absent field. `overtaken` is a history variable.
Not here: `SetTransports`, called once before the first request;
`DeleteByInstance`, which nothing calls, so that the webhooks of a deleted
instance stay.

### WebsocketHub

The connection of one instance (`clients`), the broadcast connections, the
goroutine that `ServeWs` starts for each, and the `Produce` calls that hold the read
lock. `LockWaits` is Go's rule that a waiting writer lets no further reader in.
`Peer` is external. The dispatch of webhooks calls `Produce` with a url for the
instance id (`webhook_service.go:549`), so `Produce` may start with no connection
of its own. The slice is a set: its order only orders the writes. `latest` is a
history variable. What is sent is left out.

### SendService and SendContract

The requests that send (`pkg/sendMessage/service`), and the client they look for:
`conn` is its entry in `clientPointer` as they see it. `ensureClientConnected`,
`Recheck`, `ReconnectClient` and `Restart` are the nested retries of
`ensureClientConnectedWithRetry`; `Build` has every reason to refuse a body, by
kind; `Validate`, `CheckClient`, `CheckStarted` are the question whether a number
exists, which looks the client up again; `Composing`, `Paused`, `Address`, `Send`,
`Report` are `SendMessage`; `AlbumPart` is `SendAlbum`. Kinds that keep the client
they found (`HeldKind`) may keep one that has been replaced. `InstanceStep` stands
for `InstanceLifecycle`: the client registers, fails to, loses its connection or
is replaced at any moment. WhatsApp may refuse a message, or accept it and the
answer be lost. `SendContract` is what a caller may rely on; `KeepsContract` says
that the service implements it, under the mapping of each request to its number of
messages and events.

### RabbitProducer, EventRouting and EventDelivery

`RabbitProducer` is the RabbitMQ producer alone: any number of goroutines in
`Produce`, which test and replace the shared `p.conn` without a lock, and a broker
that closes connections, stops and starts. The producer learns of a lost connection
only later (`dying`, `Notices`): a publish on it may still be answered nil, since
confirmations are never awaited (194). `chan` of a publisher is the
connection of its channel, or the nil channel after a failed reopening.

`EventRouting` has the tables: which types of event are in which group of the
AMQP queues, of the NATS subjects, of the queues made at the start and of the
subscriptions, and what an event of each kind is posted as.

`EventDelivery` composes both with the rest of an event's way. The handler makes
of each event of a stream at most two posts and some rows (`Handler`, one
disjunct for each kind of event); each post has two lanes, the goroutine of
`CallWebhook` (webhooks with their filter and names cache, then the settings of
the instance through `sendToQueueOrWebhook`) and that of `SendToGlobalQueues`. A
lane that publishes to RabbitMQ is a `Publisher` of `RabbitProducer` and takes that
module's steps. `http` holds the goroutines of the webhook producer with their
retries, `cache` the names of groups and contacts, `pending` the goroutines about
to write a row, `seen` the receipts already handled. `result` is what became of a
post at each sink: published, dropped by a producer that returns nil all the same
(`Honoured` has the settings it publishes for), or failed. A receiver may never
answer its POST, and a listener may stop reading: the write to it then keeps the
lock of the hub, and the next ones wait (`PostHangs`, `WriteHangs`, `WaitsForLock`).
What fails outside is bounded by `faults` and by the pool of
connections.

### RestApi, its tables, and McpTools

A request is an operation, a key and a body; a body is which fields it has, which
are empty, which are lists, and one number or address that stands in every field
for one. `RestApi` takes it through `Authenticate`, the middleware of its route,
the handler's checks and the steps of its service, while `Environment` changes the
client. The routes, middlewares and handlers are tables (`RestRoutes`,
`RestHandlers`, `RestServices`): a row names what a handler wants, how it answers,
and the steps of a service in their order, each of a kind that `RestApi` interprets
(find the client, parse the address, call WhatsApp for a change or a question,
dereference a field...). `JidValidation` is the middleware's rewriting of the body,
`PhoneNumber` the arithmetic on numbers, digit by digit, since how many digits
survive is what matters, and what follows a ":" is cut (`rest`). `McpTools` has for each tool the request it makes from
the arguments its schema requires.

### EventFeed

The MCP server. `q` is the buffer; `Handler` (the receiver of webhooks) and `Frame`
(a message on the websocket) push to it; `Dial`, `ReadFails`, `Wait` and
`CloseOnDone` are `RunWS` with the goroutine each connection starts; the polls read
and then count again after the lock (`EventsRemaining`); `UseInstance` and `KeyFor`
share `active`; a `reply` makes three requests. `transport` decides whether calls
come one at a time (stdio) or together (http), what a signal cancels, and when
`main` returns. `mix` chooses which of the inputs meet in a behaviour.

## 4. The runs

| run | question | instance, and why it is enough |
|---|---|---|
| `Lifecycle_events` | Do drops, logouts from the phone, replaced streams, failures and undecryptable messages, with the reconnections they start, leave a connected client unsupervised, or connect one that was logged out? | two goroutines, clients and channels, status requests one at a time, a reconnector, and a presence goroutine that takes kills: two of each is the smallest race for the maps; 2.4 million states |
| `Lifecycle_qr` | Does anything reach a client that has used up its QR codes? | limit 2, so that the counter passes 0, 1 and 2; pairing, GetQr, Delete and Create beside it, a QR loop left without its client, and the panic of a deletion while a supervisor is blocked on its own channel; 5.4 million states |
| `Lifecycle_maps` | Do the operations that kill supervisors and start others, each clearing its own part of the maps, leave a connection nobody ends, or a half-registered client? | Logout (with a save that fails), Reconnect, Delete and ForceReconnect against two goroutines; 2.6 million states |
| `Lifecycle_fair` | Is a dropped connection started again? | drops, logouts from the phone and connects under `FairSpec` |
| `Lifecycle_kill` | Is a Disconnect released by a goroutine that polls its channel? | connects and disconnects, with saves that fail and crashes, under `FairSpec`; the second goroutine takes the kill, or replaces the channel first |
| `Webhooks_store` | How far can the cache fall behind and the cap be passed? | four ids, two requests, one dispatch, cap 1: two requests are enough for every race of the code, one more id than they can use |
| `Hub_sockets` | Does the hub keep live connections, drop dead ones, and write only to open ones? | three connections of either kind, two events produced: a replaced, a replacing and a broadcast connection |
| `Send_requests` | Is a request that sends answered, and truly? | every kind of message with what decides its way, one request for it and a status that shares the client; the retries are 3 and 2, as in the code |
| `Delivery_events` | Does an event reach what asked for it, and nobody else, whatever fails? | some two hundred settings, each with one to three events made for a question: every kind of event against all tables, a broker that fails up to three times during a publish, sinks and receivers that fail or never answer, a listener that stops reading, names that change while they are fetched, receipts in each order; up to three posts, six goroutines |
| `Api_requests` | Is every answer true, and every complete request served? | each of the routes with a complete body; with each field it looks at missing, empty or of another type; with broken, `null` and multipart bodies; with fourteen kinds of numbers; with each key; and the requests of the tools |
| `Mcp_events` | Are events handed out once and in order, calls made for the right instance, and does a stop end everything? | a buffer of 2 and three events, so that it overflows; two connections, so that one is replaced; backoffs 1, 2, 3, the last cut by the maximum; two tokens and three calls under both transports |
| `Settings_rows` | What can overlapping requests lose, and what does a running client work with? | three requests or events, two at a time: the third sees what the race has left; a proxy that is removed comes back from the configuration at the next start; 5.3 million states, with symmetry |

The pools of goroutines, clients, channels, requests, connections and ids are
bounds on what is alive at one time, not on how long the system runs: in the
lifecycle, webhook and hub modules a member nothing refers to is used again.
The operations of the lifecycle are divided among the runs, since all of them at
once are out of reach; the theorems are about all of them. `MaxCodes` bounds the QR
codes of one client; whatsmeow itself offers a handful.
Bounds on how long a behaviour is: the streams and `faults` of the settings of
`EventDelivery` (`MaxPosts` = 3), `Request` of `SendService` and
`InstanceSettings`, `MaxArrivals`, `MaxConns` and `Call` of `EventFeed`.

`CHECK_DEADLOCK` is off for the lifecycle, where with a pool used up, or nothing
left for the environment to do, an instance may rest; for the requests and the
deliveries, which end; for the settings, when all requests are served; and for the
MCP server, which ends. The webhook, websocket and API runs check it.

Type correctness is a theorem for every module (section 5); `Delivery_events`,
`Api_requests` and `Mcp_events` check it as well, over their larger tables. What the properties say, and why they may be doubted, is in
the comment at each. Each property has a mutant in `PROJECT.json`: a faulty variant
of one definition, named `<Definition>_<Fault>`, under which TLC finds it violated.

### Fairness

`InstanceLifecycle!Fairness` asks that a goroutine which can take a step takes one
in the end: the Go scheduler runs every runnable goroutine. It is given to
`ConnectOnStartup`, `StartClient`, event handlers, reconnectors and requests that
have begun; not to users, WhatsApp, the presence timer or crashes. It is weak: the
supervisor's loop comes round to its `select` every second, so a send on its
channel is enabled continuously from the sender's side. `WebsocketHub!FairSpec`
does the same for readers and producers; a write to a stalled connection is not
enabled, so nothing is promised of it. `DropIsRetried` and `KillIsHeard` exempt a
used-up pool, which is a bound of the model and not of the code. `KillIsHeard` is
about the requests; the send of the handler after a logout (1768) waits in the same
way and has no liveness property of its own.

`SendService!FairSpec` is weak fairness of each request, whose calls have time
limits, and of the goroutine that registers a client or gives up; not of the
connection. `EventDelivery!FairSpec` is that of the program as a whole: some
goroutine goes on while one can. That suffices because every goroutine's work is
finite. Nothing that hangs has fairness: the POST has no timeout
(`webhook_producer.go:75`) and the write to a listener no deadline
(`websocket_producer.go:111-116`), so either may last for ever, and `EventIsSettled`
says how much they hold up: a POST itself alone, a write its own post and those that
wait for the lock behind it (`HeldOutside`). A call to RabbitMQ ends with its
heartbeat; that the database, the media storage, NATS and WhatsApp answer is
assumed. `EventFeed` has it for the calls,
for `RunWS` (whose timers fire, and whose dial ends), for the goroutine that closes
a connection, and for the one that shuts the servers down; not for events, for the
loss of a connection or for signals.

## 5. What is proved

All safety properties that the runs check, and the type invariants, are theorems:
they hold for arbitrary constants that meet the assumptions named in the modules.
The pools are sets and the values that mean "none" are in no pool
(`InstanceLifecycle!PoolsAssumption`, `WebhookStore!PoolsAssumption`,
`NoneAssumption`, `ConnAssumption`); caps, limits and backoffs are numbers
(`ConfigAssumption`, `CapAssumption`, `StartingAssumption`, `FeedAssumption`,
`PostsAssumption`); the operations, inputs, events and bodies are among those of
the code (`EnvironmentAssumption`, `InputAssumption`, `BodiesAssumption`,
`CheckAssumption`, `OpAssumption`, `SettingsAssumption`, `AskedAssumption`); the
requests of `InstanceSettings` are finitely many (`RequestAssumption`), and each
lane of a post is one caller of the RabbitMQ producer (`LanesArePublishers`). TLC
evaluates them all. `AskedAssumption` says that no address of a request is
normalised before the middleware has run, and `SettingsAssumption` that every
event of a stream is about at least one message and that the names are known for
every change of them: both say what the handlers of the code receive.

*InstanceLifecycle_proofs.* `TypeCorrect` first, one lemma for each group of
actions. Then the five safety properties together, for none is inductive alone:
`IInv` adds that a client whose goroutine has not connected it yet is down, off
and has no codes (`ConnectsDormant`), that a client handler that waits to kill, or
past its limit, is quiet (`AllQuiet`), and that the client in `clientPointer` is
either owned by a goroutine or down (`PointerIsOwned`). `NoneLeftConnected`, that a
connected client has a goroutine even where the maps have lost it, is kept because a
goroutine that is killed disconnects the client it holds itself and not that of the
map. Both this and
`ConnectedIsSupervised` need that no two goroutines have one client
(`SoleSupervisor`, a part of `IInv` only). Nearly every step only takes things away (`Kept`), and preserves all parts by
one lemma; four steps do more (`NewClient`, `AddEventHandler`, `ConnectClient`,
`QrLimit`) and have lemmas of their own.

*WebhookStore_proofs.* `TypeCorrect`, `StaleOnlyByRaceHolds` (inductive with
typing), and `CapOvershootHolds`. The last needs a count: the rows, together with
the webhooks an update has read and may bring back, are fewer than the cap, plus
the number of requests, less the creates that have passed the test. So each
request in flight can add at most one row over the cap, however they interleave.

*WebsocketHub_proofs.* `TypeCorrect`, `EntriesAreReadHolds`,
`BroadcastIsServedHolds`, `WritesAreOpenHolds`. The invariant adds that every
connection is in the place of its kind only, and that whatever a `Produce` has still
to write to is read from; the lock keeps the latter while connections are removed.

*SendService_proofs.* `ImplementsContract`: the service implements `SendContract`,
each of its steps being one of the contract or a stutter; the invariant relates
where a request is to how much it has delivered: nothing before `send`, everything
in `report`, and no answer before the end. `ContractTruthful`: the contract sends
nothing twice and says "ok" only of what was sent and told; `NothingIsSentTwice`
joins the two. `PanicIsKnownHolds` is inductive with typing, once a lemma has found
the two calls a panic comes from (`PanicComesFrom`).

*EventDelivery_proofs.* First the RabbitMQ producer alone, for any number of calls:
`RabbitTypeCorrect`, `AnswersAreTruthful`, `ConnectionsAreKept`. The invariant says
what a call knows at each place (`CallKept`), and that a call which finds no
connection after it has ensured one, or is about to replace an open one, has been
overlapped by the dial of another (`SharedKept`). `ProducerIsImplemented`: every
step of the composition is one of the producer's or leaves the producer alone, so
that its theorems hold there (`DeliveryAnswersAreTruthful`,
`DeliveryKeepsConnections`).

Then the composition, all from `DeliveryTypeCorrect`, which ties the numbers of
posts, events and rows together (`Shape`):

- `SinksAreServedHolds`: what the outcomes of a post are at each place of its lanes
  (`SinksInOrder`): only an error keeps it from a later sink, what counts as sent was
  published, and what was dropped is one of the cases the property names;
- `NothingUnwantedHolds`: a post is one that its event gives, and each POST to a
  webhook was let through by its filter (`PostsAreTrue`, `HttpIsWanted`);
- `TablesAgreeHolds`: how far the global lane of a post has come says which tables
  have its type (`Routed`), with facts about the tables themselves;
- `NamesStaleOnlyByRaceHolds`: the names a lane has fetched, or is about to store,
  are those of now or will be invalidated by an event that is on its way, but for
  the races the property names (`NamesAreAccounted`);
- `OlderRowOnlyByRaceHolds`: each first receipt of a message has written its row or
  is about to, in order (`RowsInOrder`).

*RestApi_proofs.* `TypeCorrect`, `AnswerIsTrueHolds`, `PanicIsKnownHolds`,
`CompleteIsServedHolds`, `AddressIsSettledHolds` and `ToolsAreServedHolds`, for
every body that the types allow and every number, of any length. The tables of
routes, handlers, services and tools are constant, and the properties hold because
of what is in them: each row is proved to be `Tame` (no step that may fail comes
after a change, but in `PartOf`; no panic but where one is known) and to `Fit` (what
its middleware leaves is what its handler binds), and the steps are then proved of
any row that does. `IInv` is: how far the request has come and what is settled
there (`Shape`), that the changes made or failed are those its steps so far ask for
(`Tally`), that the address it uses is the one its body parses to (`Reached`), that
nothing but trouble fails a complete request (`Smooth`), that a body of the wrong
type gets no further than its handler (`Turned`), and `PanicIsKnown`. The
arithmetic of `PhoneNumber` is proved by cases on the length and the first digits.

*EventFeed_proofs.* `TypeCorrect`, `HandedOnceInOrderHolds`, `LostOnlyToNewerHolds`,
`UsesSelectedHolds`, for any capacity, poll and number of calls. The buffer is in
the order of arrival (`FeedShape`), shares nothing with what was handed out or
cleared (`Apart`), and holds no event older than one of its type that was handed out
(`InTurn`). For the tokens: the active one was found by every call in progress
(`ActiveIsFound`), and under stdio there is one such call (`OneByOne`).

*InstanceSettings_proofs.* `TypeCorrect`; `LostOnlyToOverlapping`, for which the
invariant says that a copy is current in every column not written since it was
loaded; and `AnswersAreInForce`, which needs the same of what is read again for the
client. These are for any number of requests at any time. `RunningFollowsRowHolds`:
while requests come one at a time, where that request is says which settings the
client has yet to get (`Behind`, `OneAtATime`), and nothing else differs from the row.

What the attempts taught. The connection of an account without a name posts nothing,
so that the names of before a disconnection may stay after it, without a race; what
RabbitMQ may get is comparable with NATS only when its global queues are on; a
receipt that is neither of delivery nor of reading tells nothing of either:
`NamesStaleOnlyByRace`, `TablesAgree` and `OlderRowOnlyByRace` say so now.
`Complete` of `RestApi` had a CASE whose arms overlapped, and is a disjunction.
Polls count positions in order (`InOrder`), and the tables of `RestRoutes` and
`McpTools` are chosen from a set, where the models had recursive operators, which the
provers cannot expand.

Only model-checked: the liveness properties (`DropIsRetried`, `KillIsHeard`,
`DeadIsForgotten`, `RequestAnswered`, `EventIsSettled`, `StopEndsSocket`,
`CallIsAnswered`). They rest on fairness and on when actions are enabled, which the
prover does not treat.

## 6. Known misbehaviours

Found while modelling. The models have them; the properties above name them as
exceptions, or they were seen in traces. No run is kept for them: they are traces of
a few steps, and the runs ask what holds besides.

Instance lifecycle:

- a killed supervisor starts `StartClient` again (`whatsmeow.go:791`): a disconnect
  is undone by it, and QR codes are generated after a disconnection or a logout,
  which CHANGELOG.md:242 says is fixed;
- whether a client runs is read from maps that are filled only later
  (`whatsmeow.go:292`): two connects connect two clients, against
  `instance_service.go:249`;
- the goroutine of a QR timeout sends on the channel that only it receives from,
  before it reports the timeout (`whatsmeow.go:692-699`);
- a disconnect is acknowledged when a presence goroutine took the kill
  (`whatsmeow.go:819`), and blocks for ever when ForceReconnect has deleted the
  channel (`instance_service.go:301`);
- ForceReconnect starts StartClient with no kill channel in the map
  (`instance_service.go:692`): the handler of a later logout then sends on a nil
  channel for ever, and a reconnection that waits for this handler never comes;
  this is why `Lifecycle_fair` has no ForceReconnect;
- a reconnection loses its kill in the supervisor's sleep and leaves the old
  supervisor beside the new one (`whatsmeow.go:182`);
- closing the kill channel panics a supervisor blocked on it, and with it the
  process (`instance_service.go:544`, `whatsmeow.go:695`);
- the QR limit leaves the client connected when its logout is refused
  (`whatsmeow.go:573`);
- a QR loop whose client was disconnected goes on with the codes it has, and clears
  the entries of the client that came after it (`whatsmeow.go:550-700`);
- the handler of an undecryptable message connects its client again, though the
  goroutine of that client may have ended (`whatsmeow.go:1921`);
- two supervisors leave the two pointer maps with different clients
  (`whatsmeow.go:396`, `482`), and settings go to the wrong one.

Rows and settings:

- a stale full-row save erases the connected mark (`instance_service.go:230`), the
  jid of a device paired meanwhile (`instance_service.go:305`) or a setting, and
  brings a deleted row back (`instance_repository.go:96`);
- a killed supervisor restarts with its old copy of the row: settings that were
  changed at run time go back;
- Disconnect empties the events in the row only, and its save puts `connected` back
  to the value loaded before the kill;
- SetProxy drops the error of its Reconnect; after RemoveProxy, with a proxy
  configured for the server, Connect and ForceReconnect fail on the empty column,
  having replaced the kill channel;
- Create ignores `ignoreFromMe`, whose column is true by default, and its check of
  the name does not make names unique;
- a PairSuccess for a row that is missing dereferences nil.

Webhooks and websocket:

- a PUT resets absent flags (`webhook_service.go:133`, `348`);
- two creates at the cap pass together, against MANUAL.md:267
  (`webhook_service.go:325`); `CapOvershoot` says by how much;
- the reader of an old connection removes the entry of the new one
  (`websocket_producer.go:63`), against MANUAL.md:325;
- two `Produce` calls write to one connection at once, which gorilla answers with a
  panic that ends the process (`websocket_producer.go:116`);
- a failed write to the instance's connection returns before the broadcast
  (`websocket_producer.go:120`);
- one stalled websocket client stops every add, remove and further event
  (`websocket_producer.go:111`).

Events:

- an instance whose RabbitMQ or NATS setting is "true" has its events logged as
  published, and they are not (`rabbitmq_producer.go:204`);
- `Dispatch` passes the address of the webhook as the enabling value, so RabbitMQ
  and NATS never publish for a webhook, and as the instance id, so the websocket
  only broadcasts (`webhook_service.go:549`);
- a reopening after the last attempt is taken for a success
  (`rabbitmq_producer.go:154`); a failed one leaves a nil channel whose use panics
  and ends the process (158); confirmations are never awaited, so that a publish on a connection that is
  already lost is reported as published; reopened channels
  are never closed; two dials at once leave a connection nobody closes, or panic on
  a nil one (102);
- the first sink that fails keeps an event from the later ones (`whatsmeow.go:2190`);
  a type without a group ends `SendToGlobalQueues` before NATS;
- the global webhook address gets one post more than there are webhooks;
- the queue name of SendStatus has no dot, so that the producer for webhooks drops
  it; SendStatus and OfflineSyncCompleted reach only subscribers of "ALL";
- an instance with no events set gets nothing: the default is never applied;
- webhooks filter by names of groups but compare them with types, so that only ALL,
  MESSAGE, PRESENCE, CONTACT and QRCODE do anything; a filter by the type of chat
  never matches events such as GroupInfo; the click of a button has no chat, no
  sender and no owner;
- "ignore from me" is not applied to the global queues, nor to receipts;
- LoggedOut is posted twice and Archive never; a message that is viewed once is
  posted even from ignored groups; ignored messages are marked as read first;
- the receipt of a delivery records only its first id; a late "Delivered" row takes
  the place of "Read"; the record that a receipt was handled expires;
- the names in the cache stay as they were before a disconnection when the account
  has no name, since its connection is not posted (`whatsmeow.go:868`);
- a voter known by a hidden id without the phone number gets a second row;
- a retried post arrives after later ones (`webhook_producer.go:47`), and one whose
  receiver never answers is held for ever, without a timeout (75).

REST interface:

- the middleware of `POST /group/participant` wants a string where the handler, and
  MANUAL.md:211, have a list (`routes.go:211`), so that no change of participants is
  ever made (`CompleteIsServed`);
- a coordinate of 0 is refused as missing;
- Mexican numbers of 13 digits lose two digits, and the Argentine rule is not the
  one the comment in `utils.go` claims; a number given as an address is not
  normalised, but asked about without its 9; a word of 18 letters passes the
  middleware as a group;
- GetMyGroups compares an address with a number, so its list is always empty, and
  panics when the instance is logged out;
- React sends under the id of the message it reacts to, ignores a participant it
  cannot parse, and panics after it has sent when logged out;
- CreateGroup answers an error although the group exists; SetPrivacy may stop
  half-way; CommunityAdd and Remove report the failed groups, and the last one, as
  successes; CheckUser answers 200 without data on an error;
- HistorySync without a message, and bodies that are `null`, panic (gin answers 500);
- middlewares that look at a field the body does not have do nothing; the status of
  a picture that is fetched is not looked at; three operations of groups have no
  route.

Sending:

- the loops of retries reconnect an instance that others use;
- a status or a button message keeps a client that was replaced;
- a handler panics when the client has gone after the message was sent, or when
  mentions are added to a document with a caption (`send_service.go:2238`, `2347`).

MCP server:

- `wago_labels_list` asks for a route there is none of; `wago_send_link`,
  `wago_send_location`, `wago_react`, `wago_privacy_set` and `wago_label_edit` are
  refused with only what their schemas require, and `wago_group_participant` always;
- frames of the websocket have no type, so that polls for a type never return them;
  with both the socket and the webhook configured every event comes twice;
- events of a poll are lost when its answer is (`tools_events.go:27`), and
  `remaining` is counted after the lock is given up;
- under stdio a signal does not end the server, and every request fails from then on;
  under http `main` returns as soon as Shutdown begins, and calls in progress are cut;
- each websocket connection leaves a goroutine until the end;
- the three requests of `wago_human_reply` may be made for different instances under
  http;
- the documents name tools that do not exist.

## 7. Not modelled

- *The manager*, a client of the REST API in TypeScript; the *API documents*, which
  are generated and a third of the lines counted.
- *Configuration*, *logging and telemetry*, the *core gate* (a stub): input or output
  only. Of *start-up*, the wiring, the migrations and the servers.
- The fetch of the version of WhatsApp Web; the contents of history and of
  messages; what a message that is sent looks like.
- `SetTransports` and the reads of webhooks; the results of polls (a read);
  deletion and listing in the media storage, which nothing calls; the functions of
  `utils` on proxies, user agents and message types.
- The optional arguments of the MCP tools and the methods of its protocol that keep
  no state; the routes for files and `/server/ok`; the three operations of groups
  without a route.
- Within `EventDelivery` the table of webhooks is fixed, and within
  `InstanceSettings` the races for the maps are left out: `WebhookStore` and
  `InstanceLifecycle` have them alone.

Five hazards of `PROJECT.json` have no property, since the code has nothing that
would prevent them and a property could only deny it: a presence goroutine that
takes the only kill, what a start after a crash restores, the reader of a replaced
connection that removes the new entry, two writers on one websocket connection, and
events lost with the answer of a poll. The models have all of them.

Other properties name a hazard as their exception, and say that nothing else does
what it does; the hazard's note in `PROJECT.json` says so too. They are
`NoneLeftConnected` (two starts at once; the client left at the QR limit),
`LoggedOutStaysDown` (the restart of a killed supervisor), `KillIsHeard` (a send on
nil or on a channel that was replaced), `StaleOnlyByRace` and `NamesStaleOnlyByRace`
(the reload and the fetch that are overtaken), `EventIsSettled` and
`DeadIsForgotten` (the stalled listener), `PanicIsKnown` (the mentions of a captioned
document), `CompleteIsServed` (the coordinate 0), `AnswerIsTrue` (operations of
several parts), `UsesSelected` (calls under http), and `RunningFollowsRow` (a
supervisor that starts again with an old row; a proxy filled in while a client
already starts).
