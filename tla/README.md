# Verification of TIN4

TLA+ modules, TLC configurations and TLAPS proofs for the services of this
repository. TIN4 is a demonstration of a dating application: an HTTP API, a
match processor that consumes a work queue, a TCP presence server, and
WebSockets that push matches and chat messages. Paths below are relative to
the repository; `processor.py` is `match-processor/processor.py`, `server.py`
is `tcp-server/server.py`, `swipe.py` and `matches.py` are in `api/routers/`.

## 1. The system

| Component | State it keeps | Operations | Talks to |
|---|---|---|---|
| Swipe endpoint (`swipe.py`, `rabbitmq_client.py`) | table `swipes` | `POST /api/swipe`; task `_safe_publish`; task `_safe_produce` | PostgreSQL, RabbitMQ `swipe_events`, Kafka `swipe_stream` |
| Match processor (`processor.py`) | table `matches` | `on_message` / `process_swipe` for up to 10 deliveries at a time | RabbitMQ, PostgreSQL, Redis channel `ws_events`, Kafka `match_events` |
| TCP presence server (`server.py`) | set `_active_users`; Redis keys `presence:<id>` with a TTL | `handle_client`: heartbeat, errors, timeout, end | clients over TCP, Redis |
| WebSocket manager (`api/ws_manager.py`, `/ws` in `api/main.py`) | dictionary `_connections` of each API process | `connect`, `disconnect`, `send_to_user`, `redis_pubsub_listener` | browsers, Redis channel `ws_events` |
| Chat messages (`matches.py`) | table `messages` | `POST` and `GET` of a match's messages | PostgreSQL, WebSocket manager, Redis |
| Kafka client (`api/kafka_client.py`) | one lazily made producer per process | `get_producer`, `produce`, from the tasks `_safe_produce` | Kafka |
| Redis and RabbitMQ clients (`api/*_client.py`) | one lazily made connection per process | `get_redis`, `get_channel`, `publish` | the brokers |
| Accounts (`routers/auth.py`, `auth.py`, `api/seed.py`) | table `users` | register, login, the seeding script | PostgreSQL, Kafka `user_activity` |
| Profiles (`routers/profiles.py`) | none | profiles not yet swiped, with presence | PostgreSQL, Redis |
| Statistics (`graphql_schema.py`) | none | three counts over the tables, one after the other | PostgreSQL |
| Activity logger (`activity-logger/logger.py`) | the consumer group's offset, at the broker | one task per Kafka topic prints what it reads | Kafka |
| Browser: card deck (`frontend/static/app.js`) | list, index, cards | swipe by click or drag, load the list | API |
| Browser: session and socket | token, `ws`, timers, intervals | login, logout, reload, reconnect | API, `/ws` |
| Browser: list of matches and chat panel | list, open chat, bubbles | load, open a chat, write, receive | API, `/ws` |
| Scripts, tests, deployment | none | smoke tests, compose file | all |

A swipe travels so: the API commits a row of `swipes`, answers 202 and
publishes an event in a task of its own; the processor reads the event, looks
for the opposite like, inserts a row of `matches`, publishes one notice per
member on `ws_events`, and one event to Kafka; every API process hears
`ws_events` and relays a notice when it holds the user's socket. A chat message
is committed, sent directly when the addressee has a socket on this process,
and published on the same channel. A registration or a login is answered and
then told to Kafka by a task of its own, which shares the producer of its
process with all others; the activity logger prints it. In the browser the
socket, the chat panel and the deck are driven by events, timers and answers
that meet in a few global variables.

What is hard here: every service is an asyncio program, so handlers interleave
at each `await` with state read before it and used after it; the same pair is
handled by two deliveries at once; events are delivered again when the
processor dies, and are not delivered at all when the publish after a commit
fails; the first tasks of a process make one producer between them, and are
given it before it has started; two connections of one user share the user's presence and the user's
registration; a send can fail after the socket it was meant for was replaced;
Redis pub/sub keeps nothing for those who are not subscribed; the page awaits
answers for a chat, a list or a user that is no longer the current one.

What makes each component correct:

- Swipe endpoint: one row per ordered pair; 202 only for a stored swipe, once;
  every committed swipe is announced, unless a failure took the event.
- Match processor: rows only for two likes; of two likes at least one handler
  finds the other; each member is told once; redelivery makes up for a crash.
- Presence: nobody is counted without a connection, everybody with one is; a
  heartbeat keeps the user online for the TTL; silence and crashes end that.
- WebSocket manager: a registered socket is one that is being served, of that
  user, on that process.
- Chat: only the other member of the match gets a message, only when it is
  stored, a bounded number of times, and when nothing fails he gets it.
- Accounts: one row per e-mail, and answers that are true of the rows, also while
  the script seeds them; events only of what happened, and lost only by failures.
- Statistics: counts that do not contradict each other.
- Activity logger: what was told is printed in the end.
- Browser session: one live socket, of the current user; a page that is logged in
  never stops trying; reconnecting does not multiply sockets and timers.
- Browser list and panel: no message falls between history and pushes, no bubble of
  another chat but for named reasons, no stale list but for an answer that came late.
- Browser deck: whatever gestures overlap, the page ends up with the cards of
  the profiles that come next; the card on top is the one that is swiped.

`PROJECT.json` lists every hazard at its line, with the properties about it.

## 2. The modules

| Module | Models | State |
|---|---|---|
| `Store` | the tables `swipes` and `matches` and the queue, shared by two services | `swipes matches queue`, and the history `dropped`, `faults` |
| `SwipeApi` | `swipe()` await by await, `_safe_publish` | `requests outbox streamTasks` |
| `MatchProcessor` | `on_message`, `process_swipe` await by await, redelivery | `tasks sent matchEvents`, and the history `silenced` |
| `Matchmaking` | abstract: what users are promised of likes and matches | `likes matched` |
| `MatchPipeline` | `SwipeApi` and `MatchProcessor` over `Store`; the properties | (union) |
| `Statistics` | `Query.stats` over the running pipeline | `query` |
| `Presence` | `handle_client` and `main` of `server.py`, with time | `conns active key faults`, and the history `switched` |
| `WsManager` | `ws_manager.py`, `/ws`, Redis pub/sub, several processes | `sockets registry listener inbox notices got faults` |
| `Chat` | `send_message` over `WsManager` | `posts messages` |
| `Delivery` | abstract: what users are promised of everything that is pushed to them | `allowed recorded arrived` |
| `SpaDeck` | the card deck of `app.js`: lists, cards, gestures | `profiles idx cards buttons swipes loads swiped`, and the history `asked`, `orderly` |
| `KafkaClient` | `get_producer` and `produce` under concurrent tasks | `producer objects tasks topic faults`, and the histories `early`, `resent` |
| `Accounts` | `register`, `login` and the seeding script, over `KafkaClient` | `users calls seed` |
| `ActivityLogger` | the consumer of the topic, its offset, its restarts | `logger position offset logged` |
| `Activity` | `Accounts`, `KafkaClient` and `ActivityLogger` over one topic; the properties | (union) |
| `SpaSocket` | logins, `connectWebSocket`, its events and timers | `token asked entering ws socks timers ping leaked pollers`, and the history `entries`, `bounds` |
| `SpaChat` | `loadMatches`, `openChat`, `sendMessage`, incoming messages | `current bubbles opens lists listed matched stored pushes sending`, and the history `failed heard known late` |
| `MC...` | instances for TLC: users, sockets, symmetry | none |
| `...Proofs` | theorems and their proofs | none |

### Swipe endpoint

`Receive` is the request with its checks (`swipe.py:39-53`), `ReceiveRefused`
the refusals. `CheckDuplicate` is the query of lines 55-60; `CommitSwipe` is the
insert and commit of 62-64, where a row stored since the query raises an
`IntegrityError` that nothing catches: status 500. `Respond` (66-80) creates both
tasks and answers 202. `Publish` and `PublishFails` are `_safe_publish`, which
logs an error and returns. `ApiCrash` loses the handlers and the tasks;
`RequestFails` is a database call that raises, the commit included when its
answer is lost. The variable `dropped` is history: the events that a failure
took out of the pipeline. It changes nothing; `NoMatchForgotten` needs it to
say whose fault a missing match is.

### Match processor

One step of a handler is what it does from one `await` to the next:
`Deliver` (with the prefetch, `processor.py:203`), `FindReverse` (117-127),
`FindExisting` (129-140), `Insert` (142-147), `NotifySwiper` and `NotifyTarget`
(the loop of 149-173), `Stream` (175-183) and `Ack` (`message.process()`,
208-215). `Raise` is any call that raises: `on_message` catches it, so the
delivery is acknowledged and the event is gone. `ProcessorCrash` and
`ConnectionLost` make unacknowledged deliveries ready again; after a lost
connection a handler may be cancelled or go on with its delivery no longer
acknowledgeable (`live`), next to the second handler of the same event.
`silenced` is history: the rows whose handler one of these failures ended after
the commit and before the second notice (`CutOff`), and no others.

### Presence server

A connection is `reading`, or suspended at `setex`, `drain` or `delete`, or at
the `drain` before the end (`bye`). `Heartbeat` is the line read, the token
checked and the set updated (74-84); `Answer` is the completed `setex` and the
answer. Every answer ends in `await writer.drain()` (lines 69, 80, 94, 99, 104),
outside the timeout of `readline`: it returns at once while the socket's buffer
has room, and otherwise waits until the client reads (`Drained`) or the
connection is gone, so each answer goes to either stage of `AfterAnswer`. `Disconnect` is
the client's farewell as far as that wait. `Leave`, `TimeOut`, `SetexFails` reach
the `finally` block, whose operator `LeaveLoop` takes the user out of
`_active_users` before the `delete` is awaited; `Delete` and `DeleteFails` end
it. `Refuse` is a line that is answered with an error: bad JSON, another type,
a bad token. `Tick` is 15 seconds: keys and reads come nearer to their limits,
and no tick passes a read whose timeout is due (`Due`). `promised` is history:
the ticks for which the last heartbeat of the connection promises its user
to be online; so is `switched`: the users whose connection went on with a token
of somebody else (`Tokens` says whose tokens a client has), whom the `finally`
block does not know (line 82).

### WebSockets and chat

A socket is `accepting`, `reading` or `ended`; `up` says whether the client
still holds it, which the process learns later. `Register` is `connect` after
the handshake, `Leave` the exception of `receive_text` and the `finally` block.
`send_to_user` is two steps: the lookup (in `Take` or `LookUp`) and `Sent`,
between which the socket may be replaced or go; a send to a socket that is
gone is lost or raises, and then disconnects the user *whatever his socket is
by then*. `Broadcast` is Redis `PUBLISH`: to those subscribed now. `Take` and
`Relay` are the listener's loop, one message at a time. `SubscriptionBreaks`
loses what was not handed over and may end the listener's task.
`ProcessCrash` is the death of an API process with its sockets, its listener
and the requests it handles. `FindMatch`, `CommitMessage`, `LookUp`,
`DirectSend`, `PublishMessage`, `PublishFails` and `PostFails` are
`send_message` in order. The match processor appears as `Announce`, which
publishes each notice once: that is `NotifiedOnce` of the pipeline, proved
there. `Delivery` knows neither processes nor Redis: an item is recorded, and
then arrives at connections, at each as often as is allowed for ever.
`ImplementsDelivery` maps the tables and notices to what is recorded, and allows
an item to a socket once for each of its ways (`Reach`): never for a chat message
and a socket that is not its addressee's.

### The browser's deck

Every gesture is an async function of its own: `Click` and `Drag` run to the
animation's `await` (`app.js:300-304`, `272-281`), `AnimationEnds` is the timer,
which removes the card, counts the index and sends the request (290-318),
`Answered` renders (325), and so do the lists that `loadProfiles` gets
(`AskProfiles`, `ServeProfiles`, `ApplyProfiles`, `LoadFails`). `ClickOnNothing` is the
click of a user who was faster than all answers: no card is left, and the
function goes on without an animation. A card is known by its z-index, which is
unique in a rendering; a function whose card was removed by a rendering holds
`Detached`. `Serve` and `ServeProfiles` are the API, reduced to the user's own
rows of `swipes`. `asked` and `orderly` are history: the profiles of the requests
sent, and whether the user clicked once at a time since the list was rendered.

### Statistics

`CountSwipes`, `CountLikes` and `CountMatches` are the three awaited counts of
`Query.stats` (`graphql_schema.py:123-160`), each of the rows committed when it
runs. The other steps are those of the pipeline, unchanged.

### Accounts, Kafka client, activity logger

`LookForEmail` and `CommitUser` are the query and the insert of `register`
(`auth.py:57-70`), between which another request, or the script, may store the
e-mail: status 500. `Registered` and `Login` answer and spawn the task. The
script (`api/seed.py:61-83`) is one transaction: `SeedRow` looks one e-mail up,
which flushes the row added before, and `SeedCommits` ends it; a key that it has
flushed makes an insert of the API wait (the guard of `CommitUser`), a key that
it meets undoes all its rows (`RollBack`).

`GetProducer` returns the global or makes one (`Start`); `Started`,
`StartFails` and `Retry` are its loop (`kafka_client.py:14-32`), which never
looks at the global again after its first test. A task that was given a producer
that has not started waits for it (`Send` goes on once it has), or raises
(`SendsTooEarly`); `early` is the history of such tasks. The producer is made
without `enable_idempotence` (19-22), so the library sends an event again
whose acknowledgement was lost, and the broker appends it again: `AckLost`,
with the history `resent`. `SendFails` is the `except` of `produce`, with or
without an append of its own. `Connect`, `Consume` and `IteratorRaises` are the
logger's loop (`logger.py:48-86`); `AutoCommit` is the client library.

### The browser's session

A WebSocket object is `connecting`, `open`, `closing` (its `onclose` is due) or
`closed`, and has the user of the token in its URL. `LoginOk` is the answer of a
login as far as the await of `enterApp`; `Enter` what follows it, with whatever
token there is by then. `ConnectWebSocket` closes the socket in `ws` and makes
another (`app.js:150-153`); `OnClose` sets a timer also when another socket has
taken its place, and `Reconnect` is that timer. The interval of pings is kept
in a field of the global `ws`, so that a socket that was replaced takes its
interval along (`leaked`). A closed object that nothing holds is used again.

### The list of matches and the chat panel

Calls of `loadMatches` and `openChat` are numbered and go from `asked` to
`answered` and `done`: the call (`LoadMatches`, `OpenChat`), the statement in
the API (`ServeMatches`, `ServeMessages`) and what the page does with the answer
(`RenderMatches`, `ShowHistory`). The other party appears as `Written`, which
stores a message and pushes it up to `MaxPushes` times, or not at all: what
`OncePerWay` allows in `Chat`. `late` is history: openings that were answered
after another began, and lists that were answered after a later one.

## 3. The runs

| Run | Question | Bounds |
|---|---|---|
| `PipelineSafety` | do the pipeline's invariants hold under every kind of failure; is each step one of `Matchmaking`; do the statistics add up? | 2 users, 3 requests, 3 handlers, prefetch 2, 1 failure of 5 kinds, statistics asked at any time |
| `PipelineCrash` | is a mutual like matched in the end although the processor dies or loses its connection twice? | 2 users, 2 requests, 3 handlers, prefetch 2, 2 failures |
| `PipelineTwoRows` | is a pair stored once? **No** | 2 users, no failure |
| `Presence` | do the count and the keys follow the connections? | 3 users, 3 connections, one of which has tokens of two users, TTL 2, timeout 4, 1 failure |
| `PresenceTwoDevices` | does each heartbeat keep its user online? **No** | 2 users, one of them on two connections, no failure |
| `Chat` | are registrations, addressees and repetitions right; is each step one of `Delivery`; are messages delivered and dead sockets forgotten? | 3 users, 1 match, 2 processes, 2 sockets, 1 notice, 1 message, 1 failure of 4 kinds |
| `ChatUnreachable` | can every connected user be reached? **No** | 1 process, no failure |
| `Deck` | does the page settle on the right cards; does a patient user miss none? | 4 profiles, 4 gestures, 2 lists, any request may fail |
| `DeckTop` | is the card on top the one that is swiped? **No** | 4 profiles, 1 list |
| `Socket` | is there one live socket, of the current user, and in the end an open one? | 2 users, 3 socket objects, 2 logins, 3 drops, 2 reloads |
| `Panel` | do history, pushes and own messages make one panel; is the list fresh? | 2 matches, 3 messages (one of the user), up to 2 pushes of each, 2 openings, 2 lists |
| `Activity` | are accounts unique, answers and events true; is who is welcomed logged? | 2 requests, 2 e-mails, both seeded, 2 attempts to start, 2 failures of 7 kinds |

Why the bounds are enough: a match concerns one pair, so two users and the two
opposite requests hold every race between its likes; a third request adds the
duplicate swipe, a third handler the redelivery next to a handler that goes
on. `PipelineSafety` has one failure, for its state also holds the statistics;
a failure during the recovery from another one is the question of
`PipelineCrash`. What holds for more users and failures is proved (section 4).
In `Presence` one user has two connections, and the third connection goes on
with another user's token: the shared, the undisturbed and the switched case
occur, and the TTL is shorter than the timeout as in the code. It has one
failure: a `setex` or `delete` that fails leaves a handler and a key as the end of
a connection does, and a crash leaves all closed, so that a second one starts
where others do (with two the run passes as well, and takes twice as long). In `Chat` the
sockets may belong to either member and be opened on either process, so a
user's old and new socket and a pair that is served by two processes occur,
and the message may be sent by a stranger to the match. In `Deck` a list of
four fills the stack of three and leaves one for later, four gestures outrun
it (`ClickOnNothing` needs all four), and the second list meets them at every
stage. In `Socket` two logins make two chains, which need the three objects:
the one in `ws`, the one that is closing and the next. In `Panel` two openings
of the same or of different chats overlap, and a message can be pushed before,
within and after the query of the history, twice or never. In `Activity` two
tasks share the producer, each may fail and try again, and both e-mails are
in the script's transaction. The counters (`faults`, `idle`, `promised`, `key`,
`bounds`) are bounded by the constants; `got`, `sent`, `pushes` and the topic are
bounded because nothing is sent for ever. Deadlock is not checked where a
behaviour may end: each request, notice, call and socket is used once.
`Presence` never stops and is checked for deadlock.

Symmetry: `PipelineSafety`, `PipelineTwoRows` and `Deck` permute users,
requests and handlers, or profiles; their properties are invariants and
`[][A]_v`, which no permutation changes. Runs with liveness use no symmetry
set. In `Chat` the symmetry is broken at the start instead: `CanonicalInit`
chooses, of the initial states that differ only by the names of the processes,
the members and the sockets, one each, and lets the stranger have no socket,
for a stranger's socket gets nothing (`OnlyTheOtherMember` is proved for every
start).

### Fairness

Fairness is given only to what an event loop, a broker, a clock or a browser
does by itself: a coroutine whose `await` is over is resumed, a ready message is
delivered when a handler is free, time passes, a socket whose client is gone
raises, a closed WebSocket tells its close, a timer runs. No client is obliged
to do anything, and no failure to happen: in `Presence` neither to send, nor to
hang up, nor to read, so `Drained` has no fairness. A send on a WebSocket does not
wait for ever: uvicorn, which runs with its defaults (`api/Dockerfile:13`),
closes a socket that does not answer its pings. It is weak but in one place: in
`SpaSocket` the opening of a socket is strongly fair, for the chains of two logins
can close each other's socket again and again while it connects. The timer
takes 3 seconds (`app.js:178`) and a handshake less, so an attempt in the end
opens before the next timer; nothing is assumed of how long it stays open.
`SendsTooEarly` of `KafkaClient` has no fairness: a send on a producer that was
never started may wait for ever.

### What the violations show

1. **Two rows of one pair** (`OneMatchPerPair`, `processor.py:138`). The comment
   of line 129 says duplicates are prevented in both orientations, but the
   query and the insert are two statements and `uq_match` is on the ordered
   pair: two overlapping handlers store (a, b) and (b, a). Each row is
   announced to both members, and afterwards `scalar_one_or_none` raises.
2. **Offline inside the TTL** (`HeartbeatResetsTTL`, `server.py:115`). The key
   is per user: a connection that ends deletes what another one has set.
3. **A connected user whom nobody reaches** (`ConnectedIsReachable`,
   `ws_manager.py:30`). The handler of the old socket of a user who reloads
   the page unregisters the new one.
4. **The wrong card on top** (`TopCardIsLast`, `app.js:218`). The list is
   reversed, and `remaining.length - ri` gives the highest z-index to the first
   element, the card of the last profile of the three; the comment of line 215
   means the last element. The buttons swipe `profiles[currentProfileIdx]`, the
   card at the bottom, while the one on top flies off; a drag swipes the one on
   top, after which the index skips the first and shows the dragged one again.

### Seen while modelling

What the properties allow by name, because the code does it:

- A publish that fails after the commit loses the like (`swipe.py:24`,
  fire-and-forget by design; `NoMatchForgotten` names it next to raising calls
  and crashes of the API). A handler that a failure ends between the row and its
  notices never sends them, for the redelivered event finds the row and is done
  (`NotifiedUnlessFailure` names these rows, `silenced`, and excuses no other failure).
- Two equal swipes that overlap are answered 202 and 500 (`CommitSwipe`), not
  409; two equal registrations 201 and 500 (`CommitUser`), not 400.
- A message posted on the process that holds the addressee's socket reaches it
  twice, directly and through Redis (`OncePerWay` counts both ways;
  `matches.py:128-132`), and the page shows two bubbles.
- A connection that goes on with another user's token leaves the first user in
  `_active_users` until the server restarts (`NoGhostUser` and `SilenceIsNoticed`
  name it by `switched`).
- A client that does not read its answers keeps its handler in `drain`, which has no
  timeout (`server.py:94`): if it then falls silent and does not hang up, its user
  is counted for ever (`SilenceIsNoticed` names such connections, `Unread`).
- An event whose acknowledgement was lost is in the topic, and in the log, more than
  once (`kafka_client.py:19`; `EventsAreTrue` names it by `resent`).
- Two documents say what no run is about: the docstring of the processor names a
  RabbitMQ queue `match_notifications` (`processor.py:7`), to which nothing
  publishes; and `PLAN.md:337` speaks of exactly-once processing of swipe events,
  but an event is processed again after a crash or a lost connection, and never when its publish failed.
- A listener whose subscription breaks is not started again before its process
  is (`ws_manager.py:63`), nor is a consumer task of the logger whose iterator
  raises (`logger.py:79`).
- The producer is handed out before `start()` has ended (`kafka_client.py:16`): events
  of the first seconds may be lost although nothing fails (`early`). A failed
  start forgets the producer that another task made meanwhile, which stays
  open (`ProducersBounded`).
- The three counts of the statistics are of three moments: when the user swipes
  between them, `passes_sent` can be negative; two rows of one pair make a
  `match_rate` of up to 200.
- A second login on one page, without a reload, starts a second chain of socket
  and timer: each closes the socket of the other, for ever (`SettlesDown` asks for
  `entries = 1`), and intervals of the first are never cleared.
- A chat that is left before its history comes shows that history under the
  next chat (`BubblesBelong` names it by `late`); an own message whose POST is
  under way can be missing after its chat is opened again; a bubble of a failed
  POST stays.
- A second click during an animation swipes one profile twice and skips the
  next (`NoneIsSkipped` asks for `orderly`).

## 4. The proofs

All theorems are of `Spec` (of `StatSpec` for the statistics), for every value of
the constants that satisfies the named assumptions: `StoreAssumption`,
`ProcessorAssumption` (the handlers are finitely many, the prefetch is positive),
`StatisticsAssumption`, `PresenceAssumption`, `WsAssumption`, `ChatAssumption`,
`DeckAssumption`, `KafkaAssumption`, `AccountsAssumption`, `SocketAssumption` (the
socket objects of a page are finitely many) and `PanelAssumption`; TLC evaluates
them in the runs.

| Module | Theorem | Property |
|---|---|---|
| `MatchPipelineProofs` | `TypeCorrect` | `TypeOK` of the pipeline |
| | `RowsAreMutual` | `MatchesAreMutual` |
| | `NoMatchIsForgotten` | `NoMatchForgotten` |
| | `NoticesAreSentOnce` | `NotifiedOnce` |
| | `RowsAreAnnouncedLast` | `AnnouncedAfterNotices` |
| | `NobodyIsLeftOut` | `RowsAreTold`, the safety part of `NotifiedUnlessFailure` |
| | `AnswersAreTrue` | `ResponsesTruthful` |
| | `OnePlace` | `EventInOnePlace` |
| | `PipelineImplements` | `ImplementsMatchmaking`, the refinement |
| `StatisticsProofs` | `StatisticsAddUp` | `StatsAddUp` |
| `PresenceProofs` | `PresenceTypes` | `TypeOK` of the presence server |
| | `NoGhosts` | `NoGhostUser` |
| | `EveryoneIsCounted` | `EveryoneCounted` |
| | `HeartbeatsKeepOnline` | `OnlineAsPromised` |
| `ChatProofs` | `ChatTypes` | `TypeOK` of WebSockets and chat |
| | `RegistrationsAreServed` | `RegisteredIsServed` |
| | `OnlyMembersRead` | `OnlyTheOtherMember` |
| | `NothingIsRepeated` | `OncePerWay` |
| | `FlightIsRight` | `FlightInv`, the inductive invariant |
| | `ChatImplementsDelivery` | `ImplementsDelivery`, the refinement |
| | `NoMessageIsDropped` | `[][NoneIsDropped]_vars`, the safety part of `MessageIsDelivered` |
| `ActivityProofs` | `ActivityTypes` | `TypeOK` of accounts, client and logger |
| | `OneAccount` | `OneAccountEach` |
| | `EventsTellTheTruth` | `EventsAreTrue` |
| | `OnlyFailuresLoseEvents` | `EventsLostByFailureOnly` |
| | `ProducersAreBounded` | `ProducersBounded` |
| | `AccountsOnlyAdded` | `[][AccountsAreAdded]_vars`: how the table `users` grows |
| | `LogFollowsTopic` | `NothingIsSkipped` and `LogIsTrue` |
| | `WelcomeIsInTheLog` | `ReadToTheEnd`, the safety part of `WelcomeIsLogged` |
| `SpaDeckProofs` | `DeckIsTyped` | `TypeOK` of the deck |
| | `PageSettles` | `DeckShown` |
| | `PatienceMissesNobody` | `NoneIsSkipped` |
| `SpaSocketProofs` | `SocketTypes` | `TypeOK` of the session |
| | `OneLiveSocket` | `LiveSocketIsCurrent` |
| | `SomethingGoesOn` | `NeverGivesUp` |
| | `ChainsAreBounded` | `ChainsBounded` |
| | `SettledUsersStay` | `[][StaysSettled]_vars`, the safety part of `SettlesDown` |
| `SpaChatProofs` | `PanelTypes` | `TypeOK` of list and panel |
| | `NothingIsMissing` | `NothingMissing` |
| | `BubblesAreOfTheChat` | `BubblesBelong` |
| | `TheListIsFresh` | `ListIsFresh` |

Each proof has lemmas of the form "what this action does to the handlers"
(`...Moves`), one lemma per service or invariant that says its steps preserve
it, and a theorem that puts them together.

- `RowsAreMutual` needs `HandlersSawLikes`: a handler that is past the query
  holds a like that is returned; likes are never taken back, so it stays true
  while other handlers run.
- `NoMatchIsForgotten` is inductive with the types: when a handler reads that
  the opposite like is missing, the later commit of that like leaves its own
  event open. The case that matters is the step that acknowledges an event: it
  either found no opposite like, or found a row, or failed.
- `NoticesAreSentOnce` needs `OneAnnouncer` (two handlers never announce one
  row, because only one insert of it succeeds) and `AnnouncerCounts` (the
  count of each notice follows from the place in the loop). `RowsAreAnnouncedLast`
  is a conjunct of the same induction.
- `NobodyIsLeftOut` says, whatever fails, that a row has its announcer, or both
  members have been told, or it is `silenced`. A handler leaves the loop only by
  `Stream`, when `AnnouncerCounts` says that both notices are sent, or by a failure,
  which silences its row (`AnnouncerGoesOn`); notices are never taken back
  (`SentGrows`), nor is the history (`SilencedGrows`).
- `AnswersAreTrue` needs `ResponseInv`: of the requests for a pair at most one
  `Keeps` its swipe, between its commit and its answer too. `OnePlace` needs
  `PlaceInv`: what is committed but not answered is nowhere yet, and the outbox,
  the queue and the live deliveries share no event.
- `PipelineImplements` maps likes to rows of `swipes` and matches to pairs with a
  row. A step adds at most one like and then no match (`SwipesBecomeLikes`), or
  at most one pair, whose likes are there by `RowsAreMutual` (`RowsBecomePairs`);
  `StepsAreAllowed` puts both under the next-state relation of `Matchmaking`.
- `StatisticsAddUp` needs `CountedInv`: a count can only become too low while the
  pipeline runs, and if the first one is still right, nothing was stored since
  and the second one is right too (`CountsGrowOld`). The rows of a user inject
  into his likes, once for each orientation (`MatchesHaveLikes`).
- `HeartbeatsKeepOnline` needs `KeyCovers`: the key of an undisturbed user
  lives at least as long as the history variable promises.
- `RegistrationsAreServed` needs `Fixed`: no step changes whose a socket is.
- `OnlyMembersRead` and `NothingIsRepeated` need `FlightInv`, which says what is
  under way: a request past its first query is a member's (`PostsRight`), what
  queues and listeners hold is a stored message for its addressee
  (`RelaysRight`), and an item is in at most one of the queue and the hands of a
  listener of each process, not yet published while its request has not
  published it, and has not arrived by the way it can still take
  (`UnderWayOnce`). `PostsRight` needs `RegisteredIsServed`: a socket that is
  looked up is its user's. `ItemKept` is the case of all the steps that do not
  touch an item; publish, take, relay and direct send have a lemma each.
- `ChatImplementsDelivery` follows from the same invariant. What is allowed never
  changes (`ReachFixed`); a step records at most one item (`RecordsOne`), or adds
  one arrival of an item that was recorded, to a socket that it is meant for, by
  a way that was still open (`ArrivedWithinReach`, `ArrivesOne`).
- `NoMessageIsDropped` follows one message: from its request to the queue, from
  the queue to the listener with the addressee's registered socket
  (`TakenGoesOn` needs `RelaysRight`: the payload names him), and from there to the
  socket (`RelayedArrives`), unless its client is gone for good (`GoneStaysGone`).
- `OneAccount` needs `RowsFollowCalls` (what a handler knows of the rows at each
  stage) and `ScriptInv` (what the script has looked up is stored or its own,
  and what it has flushed nobody else can store).
- `EventsTellTheTruth` and `OnlyFailuresLoseEvents` follow a task: it is spawned
  only by a welcome, and its event is in the topic before its last send only if it is
  `resent` (`EventsInv`); while nothing has failed, the
  global is set from the first start on (`LossesInv`).
- `AccountsOnlyAdded` uses `ScriptInv` before and after a step: what the script has
  flushed is free, and after its commit all its e-mails are taken.
- `LogFollowsTopic` is inductive with the types (`LogInv`): what is before the
  position or before the committed offset is printed, so a consumer that
  connects at the offset skips nothing. With `EventsInv` each printed line is
  true, and with `EventsLostByFailureOnly` the log that is read to its end is
  complete (`WelcomeIsInTheLog`).
- `ProducersAreBounded` counts more than the property: `Busy` also holds the
  producers whose task sleeps, and is `Allowed` one for the global and one for
  each failure (`ProducerInv`), for whenever the global forgets a producer a
  failure is spent. In the run `Activity` two requests cannot break the first conjunct
  of `ProducersBounded` once something has failed; the theorem is about any number.
- The theorems of `SpaSocketProofs` are one induction: `IInv` adds to the three
  properties that a running interval belongs to the socket in `ws`
  (`PingHasSocket`). `Chains` is a cardinality, and each action moves it by one
  or not at all. `SettledUsersStay` uses the same invariant: with one entry there
  is one chain, so beside the open socket no timer, no call of `enterApp` and no
  other socket is left that could do anything (`NothingElseRuns`).
- The theorems of `SpaChatProofs` need `RepliesInv` (calls begin in order, answers
  are stored rows) and `OpenedLast`: the chat opened last is the current one, and
  what has arrived for it is shown or in the answer that is still to be shown.
  `LastIsFresh` is the same for the list.
- `DeckIsTyped` needs that a rendering makes a stack of at most three cards
  (`RenderedType`), that removing one keeps a sequence of cards (`RemoveAtKeeps`),
  and that a gesture under way refers to a profile of its list (`GestureRight`).
- `PageSettles` rests on two facts: a rendering makes `DeckShown` true whatever
  was there, and whoever changes the index or a card has a request open until
  his own rendering. `PatienceMissesNobody` needs `OneAtATime`: the one open click
  is about the profile at the index until it counts it.

Every invariant and both refinements that the runs check are proved, with the
exceptions of the runs that show a violation, whose properties are false.

Only model-checked: liveness (`KeepsPromise`, `NotifiedUnlessFailure`,
`OfflineInTheEnd`, `SilenceIsNoticed`, `MessageIsDelivered`, `GoneIsForgotten`,
`ConnectedInTheEnd`, `SettlesDown`, `WelcomeIsLogged`). Fairness speaks of
`ENABLED`, which the prover does not expand, so what follows from it stays with
TLC. What these properties need of single steps is proved where it says more
than a guard does: a row without its notices has its announcer or lost it to a
failure (`NobodyIsLeftOut`), two likes without a row have an event on its way
(`NoMatchIsForgotten`), a message stays on its way (`NoMessageIsDropped`), an
event that is read is in the log (`LogFollowsTopic`), a settled user stays
connected (`SettledUsersStay`), a page that is logged in has something that goes
on (`SomethingGoesOn`), a registered socket is one whose handler runs
(`RegistrationsAreServed`). `NobodyIsLeftOut`, `NoMessageIsDropped`,
`AccountsOnlyAdded`, `LogFollowsTopic`, `WelcomeIsInTheLog` and `SettledUsersStay`
are theorems only: their formulas are defined next to their proofs, and the runs
check the temporal properties that they are part of.

## 5. Not modelled

- The contents of messages, tokens, names and rows beyond what the properties
  tell apart; token checks appear as "a valid token" (`Heartbeat`, `Open`,
  `Refused`) or as a refusal, a password as right or wrong. Tokens expire after
  a day (`config.py`), which no behaviour of these models lasts.
- A database call is atomic and READ COMMITTED (no isolation level is set
  in `api/database.py:6` or `processor.py:76`). PostgreSQL, Redis, RabbitMQ and
  Kafka themselves do not fail, only the calls to them and the connections; what
  Kafka has taken it keeps, and it may take one event twice (`AckLost`).
- `rabbitmq_client.py`: a publish is one step that succeeds or fails. Every
  publish opens a channel that nobody closes, and two first callers open two
  connections of which one is forgotten; there is no bound to state, and
  nothing reads that state again.
- `redis_client.py`: a pool that is created once without an `await`.
- The order of messages: two posts of one sender can be committed, sent and
  relayed in different orders, and no document promises one.
- `broadcast()` of `ws_manager.py`, which nothing calls, and `close_kafka`, which
  runs when the process ends (`main.py:111`) and is part of its end.
- `profiles.py`, `list_matches` and the queries `profiles` and `myMatches` of
  GraphQL read only; the first two appear as `ServeProfiles` and `ServeMatches`.
  Presence in the answers of `profiles.py` is the key of `Presence`. `/me` reads a row.
- In the browser: badges, the log, the popup, presence polling beyond its
  interval, the GraphQL buttons: no state that is read again. A short drag snaps
  back. `SpaDeck` leaves out a login as another user while requests are open.
- Configuration, deployment files, photos, smoke and scenario scripts, tests:
  run once, or no state of their own. `scripts/seed.py` is `api/seed.py` again.

## 6. Plan

The pipeline came first, since it holds the application's promise, then
presence, WebSockets and chat, the deck of cards, then accounts with the Kafka
client and the logger, the statistics, and the browser's session and panel.
What is left:

1. Larger parameters where a run is near its limit: `Chat` with a second message,
   `PipelineSafety` with a second failure, each without the other's state.
2. The match processor's copy of `get_producer` under ten handlers
   (`processor.py:89-106`), which `Stream` takes as one call.
3. The safety parts of `OfflineInTheEnd` and `SilenceIsNoticed`, with a bound on
   the ticks that either takes; so far they follow from `Tick` and `TimeOut` by
   TLC's fairness alone.
