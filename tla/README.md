# A verification project for Kiss-Light Hub

The hub is one C process between command line clients (TCP, plain text), an
MQTT broker (the devices) and a SQLite file (the list of devices). This
directory holds TLA+ modules of its own logic, the TLC configurations that
check them on small instances, and proofs that TLAPS checks for every value of
the constants. Paths below are relative to the repository; `server.c` and
friends are under `src/`.

## Inventory

| part | state it keeps | operations | hard behaviour |
|---|---|---|---|
| device table and its requests (`server.c`) | `memory[]`, `to_change[]`, the subscriptions | ADD, DELETE, UPDATE NAME/TOPIC/STATE, SET, TOGGLE, LIST, STATUS, the MQTT callback | a change is staged and written later; two changes to one slot must be joined; names are matched by prefix |
| database thread and SQLite (`database.c`, `resources/server-db.sql`) | rows keyed by `dev_name`, `db_len` | one pass over the slots every few seconds, reload at start-up | each statement commits alone; the process may end between two of them; results are ignored |
| threads, locks, exit (`main.c`, `server.c`) | semaphore `mutex`, `lock`, `client->mutex`, SQLite's mutex, `closeSocket` | three threads, SIGINT, cancel, join, close | lock order, a callback under a lock, cancellation while holding locks |
| server loop (`server.c`) | `clientfds[]`, `maxi` | poll, accept, read, close, exit time | slots reused, array full, clients that hang up |
| MQTT client (`mqttc/mqtt.c`) | queue, packet ids, receive buffer, sticky error | subscribe, unsubscribe, publish, sync | acknowledgements after cleaning, resending, full buffers, a stream cut anywhere, a connection that ends |
| request parser and answers (`server.c`) | none | one line to one handler and one answer | argument counts, names and commands matched by prefix or not, results that are not looked at |
| device state (`statejson.c`) | none | looks a property up, merges a RESULT message into `dev_state` | partial messages, other orders, values that look like properties |
| daemon, pid file, start-up (`daemon.c`, `main.c`) | pid file and its lock, the port | fork, lock, initialise, clean up | failure at each step; a second start while the first hub ends; files left behind |
| configuration, arguments (`config.c`, `args.c`) | `config` | one pass at start-up | none |

How they interact: the server thread runs the loop and the requests; a request
enters the *section* (`sem_wait(mutex)`, `pthread_mutex_lock(lock)`), changes
the table, calls the MQTT client, stages a change and leaves the section. The
refresher thread runs `mqtt_sync` every 100 ms; a message from the broker calls
`publish_kl_callback`, which enters the section too. The updater thread enters
it for one whole pass over the table and runs the SQL statements in it.

What makes each part correct:

- table and database: once nothing is staged, memory and rows agree, and a
  restart lists the same devices; staging never loses the key a statement needs;
  subscriptions are those of the listed devices;
- locks: one user of the table at a time, no wait without an end, an exit that
  completes;
- requests: a line reaches the device its words name, what is answered has been
  queued, the version word is never an argument, STATUS shows what the messages
  left;
- start-up and exit: a serving hub knows the rows of the database, whatever ran
  before it or beside it, and a stale pid file is no obstacle;
- server loop: indices inside the array, no blocking read, every request read;
- MQTT client: every acknowledgement finds its message, the broker's
  subscriptions become those the hub wants; no byte of the stream is lost or
  handled twice, and the end of the connection is noticed.

## Modules

| module | models | extended by |
|---|---|---|
| `DeviceTable` | table, requests, callback, database thread, restart | `DeviceTable_MC`, `DeviceTableProofs`, `DisciplineProofs` |
| `HubLocks` | the three threads, their locks, SIGINT and exit | `HubLocks_MC`, `HubLocksProofs` |
| `ServerLoop` | `server_loop`, `server_connection_handler`, the clients | `ServerLoop_MC`, `ServerLoopProofs` |
| `MqttClient` | the queue of `mqtt.c` as the hub uses it, and a broker | `MqttClient_MC`, `MqttClientProofs` |
| `MqttStream` | the connection to the broker: receive buffer, `recvall`, `sendall`, how it ends | `MqttStream_MC`, `MqttStreamProofs` |
| `Requests` | `parse_server_request`, its handlers and their answers, the callback | `Requests_MC`, `RequestsProofs` |
| `StateJson` | `find_jsmn_str` and `replace_jsmn_property`, as operators | `Requests` |
| `Lifecycle` | several hubs on one machine: pid file, start-up, port, exit, database | `Lifecycle_MC`, `LifecycleProofs` |
| `WriteBehind` | what `DeviceTable` promises: a list with a copy written behind it | instantiated in `DeviceTable` |

These are views of one system at different grain, and each one names what
it takes from the others. `DeviceTable` makes a request one atomic step because
the section excludes the others; that is what `HubLocks` proves
(`TableExclusive`). `HubLocks` abstracts what a request does to the table to
the slots it stages and the MQTT calls it makes. `ServerLoop` abstracts a request to one
read. `MqttClient` takes calls at any moment `client->mutex` is free; its
variable `wanted` is `DeviceTable`'s `subs`. `MqttStream` is what lies below it: whole
messages out of bytes; what they mean is left to `MqttClient`. `Requests` takes a request as one
step for the same reason as `DeviceTable`, and knows of the MQTT client only that
it may have failed, for good, at any call. `Lifecycle` takes from the
threads that an updater cancelled in a statement keeps SQLite's mutex.

A definition marked *Slip* in a comment is a plausible mistake in the
definition after it. Nothing uses it; put in its neighbour's place it makes the
property named beside it fail, which shows that the property depends on that
code.

### DeviceTable

One variable per field of `db_data` (`dev_name`, `mqtt_topic`, `dev_type`,
`dev_state`, `valid_cmnds`, `odev_name`, `omqtt_topic`), `to_change`, `db_len`,
the subscriptions `subs`, the rows `db`, and the database thread's place in its
pass (`cur`, `stmt`). Each request is one action named after its function; each
SQL statement of a pass is one action, because each commits on its own; requests
are disabled during a pass because the thread holds the section throughout.
`Restart` may happen between any two steps and reloads what the rows say in any
order (the SELECT has no ORDER BY).

Details of the C code kept because they matter: `strncpy` with `strlen` of the
source leaves the tail of a longer old string (`Overwrite`, `Mixed`); names
match by `strncasecmp` over the argument's length (`Abbrev`); a powerstrip's
commands are appended to what the slot holds; the four `switch` statements on
`to_change` (`Stage`); a full update is three statements with the keys as saved.

`Env` names six disciplines of clients. Without them the hub's promise fails,
each in a way TLC shows when the discipline is taken out of `Env` in
`table_disciplined.cfg` (`NotSettled`, ... in `DeviceTable_MC`). What the code
does wrong there is excluded from that run, and not shown to be right:

| discipline | without it |
|---|---|
| `settled`: one kind of UPDATE per device and cycle, and no DELETE after it | `SyncedRow` fails: after UPDATE NAME and UPDATE TOPIC together the full update's statements match no row (run `table_mixed_changes`: ADD, a pass, UPDATE NAME, UPDATE TOPIC, a pass). `ImplementsWriteBehind` fails too |
| `written`: leave a slot alone until its insertion or deletion is written | `SyncedRow` fails: ADD into a slot whose deletion is staged overwrites the deletion, and the row stays (`ImplementsWriteBehind` fails). `CommandsWellFormed` fails: a powerstrip added there keeps the old commands in front of its own |
| `fresh`: never take a name in use | `SyncedRow` fails: UPDATE NAME has no duplicate scan, and two devices share one row |
| `exact`: write names in full | `SyncedRow` fails: the abbreviation is saved as the old key |
| `spare`: leave the last slot unused | `SyncedRow` fails: the device that fills the table is not inserted (with `MaxDev = 2`) |
| `own`: one topic per device | `SubscribedWhileListed` fails: deleting one device unsubscribes the other |

`WriteBehind` is the abstract specification: `listed` (what is in memory),
`stored` (its copy), `pending` (names that may differ). A step changes one
device in memory, or copies a pending name whole or in part, or moves a copy to
a new name in one piece, or restarts from the copy; and whenever a name is not
pending the two agree. `ImplementsWriteBehind` says that `DeviceTable`, with
`listed` read off the slots, `stored` the rows and `pending` the new and old
names of staged slots, is such a table when its clients keep the disciplines.

### Requests and StateJson

A line is the sequence of its words, which strtok never finds empty (`Word`).
What the code can tell of a word is a constant: `Begins` (strncasecmp over the shorter word), `Number` (atoi),
`VersionWords` (get_protocol_version), `Upper` (convert_to_upper). `Accepted`
is the chain of tests every command goes through: the verb, the count of words,
the version. There is one action per handler, and each one sets `answer`, what
it lists (`shown`), the MQTT calls queued (`sent`) and the slots. `Queue` lets
every call fail and nothing be queued after it, as MQTT_CLIENT_TRY_PACK does.

`StateJson` has the lookup and the merge over pairs of property and value, with
the loop of the code (`Sought` counts the message's pairs met so far) and the
token limit; `InOrder` and `Override` are the reference the merge is compared
with in `MessageMerged`. A message in the state's order overrides the state if neither
has a property twice (`NoneTwice`) and both fit the tokens (`Parsed`), which what a
device sends does.

### Lifecycle

`pc[h]` is how far `main` of hub h is, `file` the file at PIDFILE, `fd[h]` the
one h has open and `owner[f]` who holds the lock of f: the handler unlinks the
file, so a hub may hold the lock of a file that is no longer there. The handler
runs in two steps, between which another hub may lock, and main stands still
meanwhile. `Kill` is any end without a handler. `db` counts the statements that
have changed the database, `known[h]` those h has in memory; a statement takes
the database for itself, and another hub's statement fails meanwhile.

The updater sleeps five seconds before its first pass, so it writes only once
main has the port; `listen` is taken not to fail.

### HubLocks

`pc[t]` is where each thread is: outside the section, waiting for `mutex`,
between `mutex` and `lock`, inside, in an MQTT call, in a SQL statement. A
request is the sequence of MQTT calls its handler makes (`Outcomes`) and
whether it stages a change. `Receive` is the callback, entered with
`client->mutex` held. SIGINT may come at any time; after the loop main cancels
the helpers, which end at a cancellation point (`usleep`, `sem_wait`, `recv`,
`send`, SQLite's file accesses) and give nothing back, as no cleanup handler is
installed.

`Blocked`, `WaitsFor` and `Runs` say who cannot go on and whom it waits for, and
`WaitsEnd` that a wait leads to a thread that runs, unless the state is one of two
named deadlocks. They speak of labels and locks, not of `ENABLED`, so that they can
be proved about; `RunsExactly` in `HubLocks_MC` is the invariant that the two are
the same, for whoever changes the module.

### ServerLoop

`fds`, `revents`, `maxi`, `nready` and `count` are the C variables; the backlog
and the clients' bytes are the kernel's. After a client is refused, `maxi` lies
outside the array and the next poll reads memory that is not `clientfds`; the
model stops there (`pc = "undefined"`).

`clientfds` comes from `malloc` (`main.c:83`) and `server_loop` sets no `revents`, so
`Init` lets every slot start with any; `poll` writes those of the slots up to
`maxi`. `polled`, the one variable the code does not have, is the last slot a poll
has been given. A first client in a slot above it, accepted while another socket was
ready too, is read for what malloc left there: if the client has sent nothing, the
thread stays in `read` (`WaitsForSilent`) until it does, and SIGINT does not
interrupt it, as `signal` restarts calls. `ReadsOnlyReady` is about the other slots,
and `RequestRead` and `LoopEnds` name this wait as their exception.

### MqttClient

`mq` is the queue with each message's type, packet id, state and send time;
`sync` says which half of `mqtt_sync` holds `client->mutex`; `error` is sticky,
as in the code. Packet ids run through a cycle, as the LFSR does, skipping those
still in the queue; the id of a CONNECT or PINGREQ is not set by the code and
may be any left-over value (`Leftover`). All messages take one unit of the
buffer. The broker answers in order, at its own pace, and may refuse; the
connection may be reset. Left out: QoS 1 and 2, reconnecting and disconnecting
(never used by the hub), the packet id that `mqtt_unsubscribe` takes before the
mutex (that race is `HubLocks`' `QueueExclusive`).

### MqttStream

Every byte the broker sends carries its place, so that losing, repeating or
joining bytes shows. `net` is what the hub has not read, of which the first
`arrived` bytes are in its kernel: `Recvall` takes as many of those as there is
room for, wherever the network has cut the stream. `mem` is the receive buffer;
a message is handled when it is there whole (`Whole`), and the memmove keeps the
`Rest`. An error ends one call of `__mqtt_recv`; the refresher calls it again all the
same, while `__mqtt_send` does nothing from then on. How the connection ends is
Linux's: after a FIN `recv` returns 0, which `recvall` takes for nothing yet; what
is then sent is answered by a reset, and the send after it raises SIGPIPE, which the
hub does not handle (`BrokenPipe`). After a reset out of the blue `recv` and `send`
fail once with an error. A message that is malformed is left out, and so is a peer
that disappears without a FIN. `unsent` stands for everything due to be sent, a
late acknowledgement's resend included.

## Runs

| run | shows | bounds |
|---|---|---|
| `table_any` | unrestricted clients, failing statements, restart anywhere: types, `CountMatches`, `StageLegal`, `FreeSlotPristine`, `NoOrphanSubscription` | 2 slots, 2 names one of which abbreviates the other, 2 topics |
| `table_disciplined` | with all disciplines memory and rows agree once nothing is staged, restarts included, every staged change is handed to SQLite, and the table implements `WriteBehind` | 3 slots (one spare), 3 names, 2 topics, 2 states, 2 types (one the powerstrip) |
| `table_mixed_changes` | the counterexample to `SyncedRow` without `settled`: UPDATE NAME and UPDATE TOPIC of one device in one cycle | 3 slots, 2 names, 3 topics |
| `hub_any` | one user of the table at a time; the crosswise wait and a SQL statement cut off at exit are the only deadlocks; helpers can be joined; only the crosswise wait keeps a request from its answer and a change from being written; only that or a cut SQL statement keeps the process from ending | 2 slots to stage in, 2 requests per poll, all ten commands |
| `hub_deadlock` | the crosswise wait: a request in its section waits for `client->mutex`, the refresher's callback waits for the section | same |
| `server_any` | connections are polled, only ready ones read in slots a poll has covered, every request read and the loop ended by SIGINT unless the hub stays in `read` of a silent client in a slot not covered yet, indices in bounds until a client is refused | 3 clients, 2 slots with any `revents` at the start, backlog 2 |
| `mqtt_any` | acknowledgements find their messages, subscriptions match, wanted topics get subscribed, until a resend or a failure | queue of 3, 1 topic, a clock with one tick, after which what was sent before it is late |
| `mqtt_startup` | more loaded devices than the send buffer holds: the client fails for good before it starts | queue of 2, 2 loaded |
| `stream_any` | messages are handled whole and in turn however the stream is cut, all of them unless one is too long; a connection closed by the broker ends the process | 3 messages of 2 to 5 bytes, a buffer of 4; messages out of 2 bytes; one byte of the hub's own on the wire |
| `requests_any` | an added device is the one its name reaches, the version word is no argument, nor in a list of commands (UPDATE aside), answers 2xx have their calls queued, a message is merged, STATUS shows each command its own value | 2 slots; 36 lines of every command, complete, cut short, respelled, with the version in an argument's place; 8 messages, one with a property twice, one with more tokens than there is room for; types 0, 1, 7 |
| `life_any` | a serving hub knows the rows unless it loaded beside another, and a stale pid file keeps nobody out | 3 daemons and one hub in the foreground, each started once; 1 statement |
| `life_count` | a hub serves with `db_len` -1, as it could not count its rows | 3 daemons |

Why the bounds are enough: two slots let one be staged while another is being
written, let a name move between slots and let two devices share a topic; the
third slot of `table_disciplined` is the spare one; two topics let a device move to
one that another gave up. Two requests per poll let
the server hold its section while the other two threads wait for it, and go on
to another. Two client slots are the fewest in which a slot below another one
in use is closed and taken again. A queue of three holds a CONNECT, a
SUBSCRIBE and an UNSUBSCRIBE of the same topic and is full with one call more;
with one tick a SUBSCRIBE can be late when its UNSUBSCRIBE is not, the order
in which a resend does harm. A buffer of four bytes holds two short messages, or
a whole one and the start of the next, or is exactly full. In `Requests` the second slot takes a device whose
name begins with the first one's; states and messages fit the tokens jsmn has
(TOK_LEN 64 holds 31 pairs; a device sends about 20). Three daemons are the
fewest in which the handler of one unlinks the file of a second and a third
starts on a new file; one statement tells a stale memory from a current one.

Two runs tell states apart by a VIEW. `requests_any` goes by the table and the
client, as no handler looks at what the last one answered; its properties but for
`TypeOK` are about steps, and TLC checks them on every step it takes, to a known state
too. `life_any` leaves out `counted`, which no step reads, and of its
properties only the type.

In a pass run the bounded quantity is always reached: the table fills, the
backlog fills, a client is refused, the queue fills and the client fails.

`CHECK_DEADLOCK FALSE` is used where the hub really stops: it exits (`HubLocks`,
`ServerLoop`), is killed by SIGPIPE (`MqttStream`), waits crosswise (`HubLocks`), or the clock has reached its bound
and everything is done (`MqttClient`).

## Fairness

- `DeviceTable`: weak fairness of `Wake` and of `Flush`. The thread sleeps for a
  bounded time and nothing disables a step of a pass. That it gets the section
  at all is an assumption here and the subject of `HubLocks`, where the
  crosswise wait shows when it fails.
- `HubLocks`: weak fairness of every thread's own steps; strong fairness of
  taking a semaphore or mutex, since Linux hands them on and the holders leave
  them for 50 ms (poll), 100 ms (refresher) and longer (updater) between two
  sections. Strong fairness of `ClientUnlock`: the broker does not send without
  a pause for ever, or `__mqtt_recv` would never return. Clients, broker, SIGINT
  have none.
- `ServerLoop`: weak fairness of the loop. Clients have none.
- `MqttClient`: weak fairness of main's start-up, of the refresher and of the
  broker's reading. Calls, the clock, the reset have none.
- `MqttStream`: weak fairness of the refresher, of bytes arriving, of the broker
  reading what it is sent and of the reset that answers data to a closed socket;
  strong fairness of `Ping`, as the clock goes on until one is due. Where
  requests keep the connection busy no ping is due, but then they are sent in its
  place. That the broker sends or ends the connection is not assumed.

## What is proved

TLAPS checks every proof to the last leaf. The only assumptions are the named
`ASSUME`s of the modules, which the runs evaluate: the table has a slot, names
and topics are not the empty string and a name abbreviates itself
(`DeviceTable`); the requests are some of the ten commands and a poll may find
one ready (`HubLocks`); there is a slot, a backlog and a descriptor that is not
a client's (`ServerLoop`); `None` is no hub and daemons are hubs (`Lifecycle`);
there are more packet ids than messages in a full queue, and loaded topics are
topics (`MqttClient`); a message has at least the two bytes of its header and the
buffers have a byte (`MqttStream`); there is a slot, a line has words, none of them
empty, a message and the template are lists with a property, lists of commands are
lists, a device is not taken for a free slot, every outlet has a name, and the hub's
own words are no versions, which begin with KL (`Requests`); words that differ in case only are as good as
equal, both ways and through others (`StateJson`). Bounds on clocks and counters are any natural number.

- `DeviceTableProofs`, for every table size, every set of names and topics,
  any clients (`Env` is not restricted), failing statements and restarts
  anywhere: the five invariants of `table_any`. None of `CountMatches`,
  `StageLegal` and `NoOrphanSubscription` is inductive alone; `IInv` is all
  five together. ADD keeps a slot complete only because a free slot is pristine;
  the count is right only because a slot without a name is never found; a
  statement writes a complete row only because what is staged has its old keys.
  There is one lemma per request and per statement, and lemmas about `Stage`
  (what a change staged on top of another becomes, and which key is saved).
  `PassEnds` and `StagedUntilPassed` are the steps under the liveness property
  `StagedEventuallyFlushed`: a pass has fewer statements left after each of its steps
  (`PassLeft`), nothing staged is forgotten before the pass comes to its slot, and the
  pass leaves no slot before it is written. What fairness adds is that the thread goes on.
- `DisciplineProofs`, for every table size and set of names, topics and states,
  under `Disciplined`: `Env` has all six disciplines and statements do not fail.
  `RowsSynced`, `ListedSubscribed` and `TableImplementsList`. `SyncedRow` speaks
  of slots at rest only, so the invariant `DInv` has to say for every kind of staged
  change under which key the slot's row is (`RowKey`, for a full update also before
  and after its rename) and which of its fields are already right (`SlotInv`). With it
  go: every row belongs to a slot (`RowsOwned`), no two slots have names or keys that
  one statement could confuse (`NamesApart`, `KeysApart`, `TopicsApart`), a device
  waiting to be inserted is in the first slot that was free (`NewInFront`), and a pass
  has nothing left where it has been (`PassInv`). The refinement is proved step by step:
  a request, a statement and a restart each map to a step of `WriteBehind` or to
  none. `CommandsCorrect` needs less: only that a slot is left alone until its
  insertion or deletion is written (`written`), and lets statements fail. `table_disciplined` is the same statement on three
  slots, and each row of the table of disciplines is a counterexample to it without
  that hypothesis.
- `RequestsProofs`, for every table size, whatever lines and messages arrive and
  whenever the client fails: `TypeOK`, and the action properties `QueuedOrTold`,
  `AddedIsReached` and `VersionIsNoArgument`. `AddedIsReached` rests on two facts about the searches: the slot
  `FirstFree` gives is free, and no name in front of it or behind it matches the one
  added, as `CanAdd` looks at every slot with the same comparison. For
  `VersionIsNoArgument` each handler's words are followed to where they come from
  (`Drawn`): the words in front of the version, the table, the hub's own words, one
  of these in upper case, or a part of one between commas; proving it showed that the
  property has to allow for a command `kl/0.3` that `convert_to_upper` turns into a
  version. The table's words are names, topics and commands; the numbers ADD reads are
  followed by their places (`AddedCounted`).
  `MessageMerged` and `StatusShowsOwn` are about every state, message and list of
  commands. The walk of `replace_jsmn_property` is a recursive function; an invariant of
  it (`SoughtInOrder`: at each pair of the state, exactly the message's pairs that lie
  below it have been met) is proved for all its steps as a fact about the set of
  numbers it holds at, since a set without a least counterexample is whole (`Reaches`).
  `PlainMerge` says where the conditions on states go: as long as no message and not the
  template has a property twice or too many tokens, no state ever has.
- `MqttClientProofs`, for every set of topics, size of the queue, number of packet
  ids and timeout: `TypeOK`, `NoUnknownAck`, `BrokerMatches`. `Distinct` says that
  no two messages that need one share a packet id; a free id is found because there
  are more ids than messages (a pigeonhole argument on finite sets). `Acked`: as long as nothing
  was sent twice, what the broker has still to answer or has answered are different
  messages of the queue that await it, so `mqtt_mq_clean` drops none of them and
  every acknowledgement finds its own. `Worded`: for each topic the last word, subscribe
  or unsubscribe, is what the hub wants, and lies in the queue, else on the
  wire, else in the broker's subscriptions; with an empty queue and wire it is
  `BrokerMatches`. `InOrder` says that the send loop leaves nothing unsent behind it.
- `MqttStreamProofs`, for all messages, their sizes and that of the buffer, and
  every cut of the stream: `TypeOK` and `NothingLost`. The invariant lays buffer and
  network end to end (`Left`): each byte's neighbours are the other bytes of its
  message or the first of the next (`Laid`), the first byte starts the first message
  not handled (`Starts`), the last one ends the last message sent unless a reset has cut it
  (`Ends`). That a message is handled when `Whole` and the rest is moved to the front
  keeps all three.
- `HubLocksProofs`, for every set of requests, slots and polls, with SIGINT and
  cancellation anywhere: `TableExclusive`, `NobodyWaitsForLock` (whoever has passed the
  semaphore finds `lock` free) and `WaitsEnd`. The
  inductive invariant adds to the types that a thread past `sem_wait` holds the
  semaphore at 0 and is the only one (`SectionInv`), also when it has been
  cancelled there. For `WaitsEnd` it has to say who holds what is taken (`HoldersInv`): a semaphore
  at 0 has a thread inside, the server holds `client->mutex` only in a call, the
  refresher only within `mqtt_sync`; and what cancellation leaves behind (`CancelInv`): a
  helper ends only after main has left its loop, the refresher never with `lock`, and main joins
  only when both are cancelled, so that an updater that ended with the section in its
  hands leaves nobody waiting for it who cannot be cancelled. `CrosswiseForEver` is about the deadlock of `hub_deadlock`: once server
  and refresher wait for each other's lock, no step of any thread, no message and no
  SIGINT changes that, and nothing staged is written any more; so the alternative
  that `AnsweredOrCrosswise`, `WrittenOrCrosswise` and `ExitOrHang` name is the end
  of the hub. It needs that nobody is cancelled while the server is in a request
  (`CancelInv`) and that the updater is not inside (`SectionInv`).
- `ServerLoopProofs`, for every POLL_SIZE, backlog and set of clients:
  `InBoundsUntilFull` and `PolledWhileOpen`, which need that the kernel queues a
  client once and not while it has a slot (`BacklogInv`); and `ReadsWhatPollFound`:
  whatever `malloc` left in `clientfds`, `ReadsOnlyReady` holds. Its invariant
  (`ReadyInv`) says that the marks `poll` left are true of every slot it has been
  given that the handler has still to visit, which is the step from what `poll` saw
  to what `read` meets. Of the other slots nothing can be said.
- `LifecycleProofs`, for any number of hubs and statements: `TypeOK`,
  `KnowsTheRows`, `StaleFileNoObstacle`. `IInv` adds to the types that SIGINT has
  its default action until main has installed the handler (`SignalInv`), that
  only daemons come to the pid file (`DaemonInv`), that the locked files are
  exactly those of the daemons past `lockf` and not told to stop (`LockInv`), and
  that of two hubs with the table in memory both are exposed (`LoadInv`), which,
  as a commit reaches the memory of its own hub only, gives `KnowsTheRows`. A
  file at PIDFILE that its owner has lost is why `LockInv` speaks of files and not
  of the path.

Only model-checked: liveness, that is the properties with `~>` and the fairness under
them (TLAPS has no support for `ENABLED`). Every invariant and every action property
of a passing run is proved.
`RequestAnswered`, `LoadedSubscribed`, `CountedWhenServing` are what the violation
runs refute.

## What the models found

The first four are runs of their own; the others TLC shows with the change of a
configuration named. Each counterexample is a schedule of the C program:

- UPDATE NAME and UPDATE TOPIC of one device within one cycle lose the row
  (`table_mixed_changes`);
- a request and the MQTT callback wait for each other's locks (`hub_deadlock`);
- more loaded devices than fit the send buffer disable MQTT for good
  (`mqtt_startup`);
- a hub started while another ends may fail to count its rows: `get_db_len` returns
  the 1 of `execute_db_query` and not -1, `initialize_db` takes only a negative
  result for a failure, and the hub serves with the `db_len` of -1 it started with
  (`life_count`);
- the client after the last slot is answered 505 and sends `maxi` out of the array,
  as `count` is incremented twice (`server_any` with `INVARIANT InBounds` in place of
  its properties; `server.c:1648`);
- the device that fills the last slot is never inserted (`table_mixed_changes`
  with `Env <- NotSpare` and `MaxDev = 2`);
- `mqtt_unsubscribe` reads the queue without the mutex (`hub_deadlock` with
  `INVARIANT QueueExclusive` in place of its property);
- `revents` of a new slot is uninitialised, and the hub may stay in `read` of a
  silent client while the others wait and SIGINT with them (`server_any` fails
  `RequestRead` and `LoopEnds` when `[]WaitsForSilent` is taken out of them).

And these were met on the way, as reasons why a property carries a condition:

- what is staged when SIGINT comes is not written, as the updater is cancelled
  without a last pass (`main.c:619`);
- a helper cancelled inside a SQL statement keeps SQLite's mutex, and
  `sqlite3_close` waits for it (the second case of `ExitOrHang`);
- renaming to a name in use, abbreviating a name, sharing a topic and adding to
  a slot whose deletion is staged each break a promise (the table of
  disciplines);
- a SUBSCRIBE sent again after a later UNSUBSCRIBE leaves the broker subscribed
  or brings an acknowledgement for which there is no message, an error that stays
  (the condition `timed_out` in the properties of `MqttClient`);
- UPDATE NAME and UPDATE TOPIC take the version word for their value when the
  value is missing, as four words are enough (`server.c:619`;
  `VersionIsNoArgument` leaves UPDATE out);
- STATUS shows the previous command's value for a command the state has no
  property for or when the state has too many tokens, and takes a value that equals a
  command's name for the property (the conditions of `StatusShowsOwn`);
- a message whose properties are in another order than the state's is merged up
  to the first one out of order, and one with too many tokens in its first match at
  most (`MessageMerged`);
- a listed device may lose its name: after ADD c, ADD a, DELETE c, ADD ab the
  name a reaches ab in the first slot, and DELETE a removes ab;
- a device with an empty list of commands accepts every command
  (`verify_command`);
- a broker that closes its connection in order is noticed by nobody until a ping or
  a request meets the reset, and then SIGPIPE ends the hub (`ClosedIsNoticed`);
- a message longer than `recv_buff` stops the receiving for good, as the full buffer
  is never emptied (`TooLong` in `HandledOrTooLong`);
- 408 is never answered (`server.c:549` catches a duplicate as 403), nor 401
  or 407;
- only TRANSMIT looks at `client->error`; every other command answers 2xx after
  the client has failed (`QueuedOrTold`);
- the handler gives the lock up and unlinks PIDFILE before the updater has ended,
  so the next hub may load rows that the first one still changes (`exposed` in
  `KnowsTheRows`), and it unlinks by name, so it may remove the file of a third.

## Not modelled, and why

- `config.c`, `args.c`: one pass over a file and the arguments; what comes of it
  is the constants of the modules.
- `mqtt_pack_*`, `mqtt_unpack_*`, but for telling a whole message from a part:
  encodings of bytes without state. QoS 1 and 2,
  reconnect and disconnect: the hub does not use them.
- SQLite, inih, jsmn, log: vendored. SQLite is taken to be atomic and durable per
  statement.
- The Go client: a separate program; what it can do to the hub is in
  `ServerLoop`.
- Start-up: a `fork`, `malloc`, `sem_init` or `listen` that fails. Each one ends
  the process where it stands, as `Kill` does.
- Texts of answers and the buffer of `buffer_size` bytes they are written to; names
  and topics as long as their arrays; objects as values in a state, which the
  template has and STATUS never shows.

## Plan

Done: the table, the locks, the server loop, the MQTT client and its stream, the
requests, the state, the lifecycle, the abstract table; all safety and action properties
of the passing runs proved, and the refinement. What is left: the steps under the
other liveness properties, as `PassEnds` and `StagedUntilPassed` are for
`StagedEventuallyFlushed` and `WaitsEnd`, which names the thread that runs whenever
another one waits, is for those of `HubLocks`.

## How to run

In this directory:

    tlc -workers 2 -config table_any.cfg DeviceTable_MC.tla
    tlapm DeviceTableProofs.tla

The configurations are named after the runs; `table_*` belong to
`DeviceTable_MC`, `hub_*` to `HubLocks_MC`, `server_*` to `ServerLoop_MC`,
`mqtt_*` to `MqttClient_MC`, `stream_any` to `MqttStream_MC`, `requests_*` to `Requests_MC`, `life_*` to
`Lifecycle_MC`. The proofs of a module take up to two minutes each, and no run more than two with two workers.
