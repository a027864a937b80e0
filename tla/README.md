# A TLA+ model of opencode-free-proxy

opencode-free-proxy relays OpenAI-compatible requests (`/v1/chat/completions`,
`/v1/responses`) to one upstream through several *egresses* (direct, HTTP
CONNECT or SOCKS5 proxies). This directory models its control flow in TLA+,
checks it with TLC on small instances and proves the central properties with
TLAPS for every value of the constants.

## 1. The system

| Part | State it keeps | Operations | What is hard about it |
|---|---|---|---|
| Configuration store (`config/store.go`) | the published snapshot, generation counter, hash of the last adopted bytes, process log level | `NewStore`, `Get`, `poll`/`tick`, `Stop` | the operator rewrites the file during a cycle; bootstrap and poller both set the log level; `Stop` waits for a poller that may be in a cycle |
| Scheduler (`routing/routing.go`) | a rotation state per route: fingerprint, writer generation, cursor, current weights | `Plan`, `stateFor`, `PruneRoutes` | requests of several generations plan at once; eligibility changes between turns |
| Health registry (`health/health.go`) | failure streak and cooldown per identity, reference counts | `Pin`/release, `Observe`, `Healthy`, `Reclaim` | each call brings the policy of its own generation; reclamation races requests in flight |
| Limiter (`upstream/limits.go`) | a count per egress id | `Peek`, `Acquire`, `Release` | the cap belongs to a generation, the count does not; the slot lives as long as a response body |
| Executor (`upstream/fallback.go`) and client (`upstream/client.go`, `failure.go`) | per request: place in the plan, attempts, retry draws, evidence rows | skip, dial, classify, retry, fall back, stop | cancellation at any moment, mixed failures on one retry counter, slots on every exit |
| Evidence (`upstream/evidence.go`) | rows of one request, capped | `Append`, `Annotate`, `AnnotateAt` | decisions are stamped on rows after the fact, by index |
| Request pipeline (`router/server.go`, `handler.go`) | the transport cache, the last serviced generation, the drain flag | `relay`, `onGeneration`, `routeHeads`, `clientForEgress` | one snapshot per request, maintenance once per generation, everything shared between requests |
| One attempt (`client.go` `attempt`, `transport.go`, `connect.go`, `socks5.go`, `hello.go`) | the redirect chain (target, method, two sticky flags), the connection being dialed with its deadline and its context watcher | walk redirects, pick a transport per hop, SOCKS5, CONNECT and TLS handshakes, drain | silent or refusing peers at every step, cancellation during a handshake, redirects that cross schemes and domains |
| Streams (`router/stream.go`, `relay/passthrough.go`, `ScanLines`) | per stream: scanner channels, stall timer, flags of the relay | relay lines, detect the end, flush | two goroutines per stream, stall against progress, one terminal event |
| Translators (`translate/stream_*`, `relay/translate.go`) | per stream: open items, buffers, think state, call indexes, finish state | one upstream message to client events, flush | items of several choices interleave; marks and calls are split over chunks; several ways to end |
| Forced answers (`router/forced.go`, `relay/nonstream.go`) | a read buffer, a goroutine and its channel, a timer | collect a stream under a cap, fold it into one answer | the goroutine against timer, cap and cancellation; a second implementation of the translation |
| Identity (`identity/useragent.go`) | the cached triple of versions, the single-flight flag | `Warm`, the sync loop | two callers fetching over the network while releases appear |
| Lifecycle (`cmd/server/main.go`) | listener, drain flag, tracked connections | drain, stop, shutdown with a grace, force close | connection states change in net/http while the grace runs out |

A request reads the store once, when it arrives. It matches a route, pins the
route's health identities under `clientMu`, runs the maintenance of its
generation if it is the newest seen, filters the members that are eligible
(health, slots), lets the scheduler order them, and walks that plan with the
executor, which acquires slots, reports outcomes to the health registry and
records evidence. A live response takes its slot along until its body is
closed; the pins are released when the handler returns. Each dial of the walk is
one `attempt`: a chain of hops, each on a connection handshaken for it. A live
response is relayed as it is when client and upstream speak one format and
streams, is translated message by message when they differ, and is read to its
end and folded into one document when the client asked for no stream. `main`
starts the store's poller and the user agent sync, serves, and on a signal drains,
stops both, and shuts the server down within a grace.

What makes each part correct, in short: the store only ever publishes valid
configurations and its hash describes them; the scheduler orders exactly the
eligible members and neither loses nor invents credit; the registry forgets
nothing a request is using and lets every identity return; the limiter's count
is the number of slots held; the executor answers each request within its
budget with the last real verdict; the pipeline gives everything back; an attempt
never sends credentials out of the domain or a hop around its proxy, and no
silence of a handshake holds it; a relay tells everything once and in order and marks the
end once; the forced answer says what the stream would have said; the identity
is that of one release and never goes back; a shutdown ends and cuts no admitted
request before its grace.

## 2. Modules

| Module | Models | Notes |
|---|---|---|
| `HealthRegistry` | `health.go` | one action per critical section; time as the remainder of a cooldown |
| `Filtering` | the filters of `Plan` | what is left of a sequence, as a recursive function; also how `Stream` says which frames carry data |
| `Scheduler` | `routing.go` | operators and updates of the rotation state, no behaviour of its own |
| `SchedulerReload` | the scheduler's callers | requests of overlapping generations, once-per-generation pruning |
| `ConfigStore` | `store.go`, the bootstrap in `main.go` | the poll cycle in its steps (read, parse and swap, set level), the operator, main |
| `ConfigRegister` | what the store promises | abstract: a register of valid configurations with consecutive generations |
| `Limiter` | `limits.go`, `slotReleaseBody` | counts per egress, slots per request |
| `Evidence` | `evidence.go`, `annotateDecision` | pure operators on a recorder value |
| `Executor` | `fallback.go`, the retry loop of `client.go`, `failure.go` | one request, the network and the client as environment |
| `Dispatch` | what the executor promises | abstract: distinct egresses, a budget, the last verdict |
| `Proxy` | `handler.go`, `server.go` | composes `HealthRegistry` and `Limiter` for concurrent requests |
| `LineScanner` | `ScanLines` in `client.go` | reader goroutine and consumer as separate actions, the four channels, the stall timer in ticks; the callbacks are the caller's |
| `PassthroughRelay` | `passthrough.go`, line classes of `sse.go` | pure operators: the frames a call writes and the flags it keeps |
| `Stream` | `router/stream.go` | composes the two with the client, from the headers to the return of the handler |
| `ChatToResp` | `stream_chat2resp.go` | pure operators: a chunk and a state to events and a state |
| `RespToChat` | `stream_resp2chat.go` | the same, the other way |
| `Pieces` | texts that arrive in pieces | how all folds and translators put them together |
| `Forced` | `nonstream.go`, the folds of `forced.go` | pure operators: a body to one answer, per pair of formats |
| `ForcedRead` | `readBoundedSSE` in `forced.go` | goroutine and handler as separate actions, a channel of one place, timer in ticks, context, cap |
| `Translate` | `relay/translate.go`, `forced.go` | composes the four: an upstream that says anything its format allows, on the stream route or the forced one |
| `Dial` | `transport.go`, `connect.go`, `socks5.go`, `hello.go` | a dial is the list of steps it has left; deadline, watcher and context come and go; a refusal of our credentials is remembered with where it was made |
| `Attempt` | `attempt`, `transportFor`, `drainAndClose` in `client.go` | the redirect walk over `Dial`, and the client that vanishes |
| `UserAgent` | `useragent.go` | `Warm` in its fetches, the sync loop, releases that appear |
| `Process` | `main.go`, the drain gate | the shutdown sequence over the connections of net/http (external), beside `UserAgent` |
| `MC*` | instances | the constants of the runs |
| `SequenceFacts` | | lemmas on naturals, finite sets, filtered sequences, folds and texts the proofs share |
| `*Proofs` | theorems | see section 5 |

Definitions whose name ends in a suffix after an underscore (for example
`Release_DropsEntry`) are slips a change to the code could make. None is used
by a specification: each shows, put in place of the definition it is named
after, which property would notice.

State corresponds to code as follows. `Scheduler.rot` is `Scheduler.state`;
the round-robin cursor is kept modulo a common multiple of the possible head
counts, which is all `Plan` reads. `HealthRegistry.states` and `refs` are the
two maps of the registry; `pins` are the keys captured by the release
closures. `ConfigStore.cur`, `gen` and `lastHash` are the fields and the
poller's local of the same name; `poller` is where that goroutine is.
`Limiter.cur` is the map of counts; `slot` is what the executor's frame or the
response body knows of a request's slot. In `Executor`, `next`, `attempts`,
`last`, `startRow` and `terminalRow` are the locals of `ExecuteObserved`, `used`
and `class` those of `DoClassifiedObserved`, `slots` and `failures` what the
request did to the limiter and to the registry. In `Proxy`, `published` is the
store's current generation, `clients` the transport cache, `prunedGen` the field of
that name, `req` where each handler is, its snapshot and its plan.
In `LineScanner`, `lines`, `tails`, `readErr` and `progress` are the channels
(a reader that is `done` has closed the first two), `idle` the timer;
in `Stream`, `relay` holds the relay's flags, `outbox` what the running
callback has still to write, `wire` what it wrote. Lines are their class
(`LineKind`), because that is all the control flow tells apart.
In `ChatToResp` and `RespToChat` the state `tr` has the fields of
`ChatToRespState` and `RespToChatState`; a text is a sequence of fragments, each
stamped with the message it came in, so that a lost, doubled or moved fragment
shows. `ForcedRead.out` is `readBoundedSSE`'s local, `chunks` its channel, `rd`
where its goroutine is and what it holds. In `Attempt`, `current`, `method`,
`stripSensitive`, `droppedBody` and `hops` are the locals of `attempt`; in `Dial`,
`deadline` is the connection's (or the dialer's own), `watcher` the
`context.AfterFunc`. In `Process`, `st` is net/http's state of a connection and
`hook` the `ConnState` call that has still to report it, `tracked` is
`connTracker.conns`; in `UserAgent`, `warm` is where each caller of `Warm` is and
what it has fetched.
Variables named as history (`dials`, `lateDials`, `lateMarks`, `dialedGen`, `LineScanner.sent`,
`silence`, `held`, `heard`, `body`, `visited`, `switched`, `refusal`)
are read by properties only.

## 3. Runs

Sizes are distinct states. Nine runs pass; three show a disagreement between the code
and its own documentation (section 6).

| Run | Shows | Bounds, and why they are enough |
|---|---|---|
| `health` | a history survives the requests using it, cooldowns are never extended and end | 2 identities, 3 requests, 4 policies: thresholds 3 and 2 (counting below, at and across a threshold), two cooldown lengths (an extension would show), health off, a threshold of 0. About 2,300 states |
| `scheduler` | plans order the heads, credit is conserved and bounded, weight 0 is never first | 1 route (routes share nothing but the map), 3 members, 3 shapes (round robin, two weightings, one with a weight-0 member first), 2 requests, `MaxGen` = 3 generations: the least in which a shape can be left and restored. 809,028 states, requests symmetric |
| `scheduler_stale` | finding | as above |
| `store` | the store implements `ConfigRegister`; the hash describes the snapshot; edits that stay are adopted; `Stop` is final | 3 valid contents, a torn one, an unreadable file, `MaxWrites` = 4 writes: enough to change, break, and restore the file within one cycle. 6,024 states |
| `executor` | cancellation, evidence, termination, refinement of `Dispatch` | plans of 0, 2 and 3 egresses, budgets 1 to 3, fallback on and off, every retry rule, `MaxRows` = 7, so full and overflowing recorders occur. 144,654 states |
| `proxy` | slots and pins are exact and given back, history and transports survive, no request waits for another | 2 requests, 2 egresses, caps of 1, 3 generations (swap of a transport, fallback off, route removed), a drain. 294,655 states |
| `limiter_reload` | finding | 1 egress, 3 requests, caps 0 and 1 |
| `stream` | data lines in order and without a gap, the end marked once, stalls justified, handler and reader end but for three named waits | both formats, all six classes of line, a channel of one line (the reader blocks on the next one), a window of 2 ticks (progress can come in the middle), `MaxReads` = 3 reads of at most `LinesPerRead` = 1 line, `MaxLines` = 2: enough for a terminal event, a sentinel, a rest and an end in any order; reads that complete nothing (`Trickle`) are not counted, so an endless trickle occurs. A read of several lines differs from several reads in nothing the consumer sees. 1,115,477 states |
| `stream_failure` | finding | `MaxReads` = 2 |
| `translate` | a client of the other format gets everything once and in order, items and streams end once, calls keep their arguments; the forced answer is read exactly, says the same and always comes | `MaxEvents`: 4 messages of a chat upstream, of which the first `VariedEvents` = 3 are any of the kinds of `MCChatKinds` (marks alone, paired or split, vendor reasoning, calls in one piece, in two, interleaved, nameless or beside text, a custom tool's input whole and in pieces, a second choice, messages that are no chunks) and the last a text, an argument piece or a finish, and 5 of a Responses upstream, which needs an announcement, deltas, a done and a terminal event for two calls, of functions or of custom tools. The first ending of a Responses stream (a completion or an error) may come at any place and `LateEvents` = 2 messages of any kind may follow it: two make another ending and a text in either order. One varied message on the forced route, whose folds are also compared on every complete stream of the other route. `ChoiceIds` and `CallSlots` of two: interleaving takes two. `MaxOutputIndex` = 4. `MaxBytes` = 2 messages and `Window` = 1 tick: the read that crosses the cap and a timer beside progress both occur. 1,696,329 states |
| `process` | a shutdown keeps its word and ends, the identity moves forward | 2 connections in every state of net/http, a second signal, a failing listener; `MaxRelease` = 1 release published between any two fetches, enough for a mixed triple and a step back. 1,396,924 states |
| `attempt` | credentials and bodies, the egress of every hop, nothing left open or armed, the attribution of 407 and of garbled replies, the end of an attempt | every kind of egress with and without credentials, `MaxRedirects` = 2 hops and a third that is refused: a chain can leave the domain and come back, and a switch to GET can be redirected again. Three names (home, its subdomain, another). 152,520 states |

Deadlock is checked in `health`, whose system never stops. The other systems
do stop: generations, writes, messages and requests are bounded, a request or an
attempt ends, a process exits.

### Fairness

* `store`: the ticker keeps firing and the goroutine is scheduled, so a cycle
  that can run does (weak). A `select` that finds `stopCh` closed again and
  again takes it in the end although a tick may be ready too (strong fairness
  of `PollExits`: Go's `select` picks at random among ready cases). Nothing
  makes the operator write.
* `health`: time passes.
* `executor`: weak fairness of the request's own steps outside its waits (`Waits`), and
  of every step once its context is done, which cuts each of them. The waits are a
  dial, which may be one of those `Attempt` cannot end, the drain of a response that is
  retried (`client.go:227`) and the body of a final error (`client.go:242`): both have
  a byte cap and no deadline. Retry delays are constants. Nothing makes the client
  leave. So `ExecTerminates` promises an answer or a walk that stays in one wait
  under a client that stays.
* `proxy`: weak fairness of each arrived request outside its `Waits`: the upload of its
  body (`handler.go:114`), a dial, a stream and the answer to its client. The server
  has no read and no write timeout, by intent (`main.go:169`), and a trickle never
  stalls (`main.go:128`), so each of them can take for ever. What `EveryRequestEnds`
  then says is that nothing else does: a request that its own peers let go ends even
  if the other is kept for ever with a slot, a pin or an old generation. No fairness of
  reload, drain or arrivals.
* `stream`: the goroutines run and time passes (weak fairness of `Scan` and
  `Handler`), a connection that is gone is noticed, its writes return and its reads
  fail. Nothing makes a connected client read (no write timeout, `main.go:169`),
  an upstream end the body of a rejected answer (`stream.go:65`, a byte cap only) or
  stop sending bytes that complete no line, each of which rearms the timer
  (`main.go:128`): `StreamAndReaderEnd` names these three and allows no other.
  Ticks pass only when no goroutine can run, since the window is six minutes
  (`config.go:109`).
* `translate`: the handler and its read goroutine run and time passes (weak
  fairness of `Reading \/ ForcedAnswers`). The upstream owes nothing, not even
  an end of its body: the timer answers for it, and the byte cap for a trickle. What ends
  in `ForcedEnds` is the collection and the goroutine; writing the answer is the last step of the
  handler, and a client that does not read may hold that one (`main.go:169`).
* `process`: each of `main`'s steps and the end of the grace (weak). Handlers,
  connections and GitHub owe nothing: a stream may never end.
* `attempt`: the goroutines run and armed timers fire; the response header timeout
  bounds the wait for headers, but starts only when the request is written. Proxies and
  origins owe nothing: neither reading a request (`Sent` is not fair; behind the
  handshake the connection has no deadline, `hello.go:233`, `connect.go:127`, and a
  request may be 8 MiB) nor ending a redirect's body. The resolver, which minds the context
  but not the connection's deadline, gives up by itself.

## 4. Properties

Each is stated with a comment above its definition. Those that take several
steps of several actors to break are: `InFlightHistorySurvives` (pin, reload,
maintenance by another request, observation), `NewestTransportsSurvive`,
`CreditStaysInBounds`, `EditsAreAdopted`,
`ImplementsDispatch`, `EvidenceTellsTheStory`, the
bounds after cancellation (`CanceledRequestStops`), `DialsWithinCap`,
`QuietIsClean`, `RelayIsFaithful`, `StallNamesTheCulprit`,
`CleanEndIsMarkedOnce`, `ReadIsExact`, `ShutdownKeepsItsWord`,
`IdentityMovesForward`, `NothingIsLeftBehind` and `AttemptEnds`.

Those of `Translate` compare what the client can put together from its events
with an independent reading of what the upstream said. `Said` and `Thought` sort the
text of a whole stream by `Thinking`, which asks whether some mark was opened and none
closed since, where the translator keeps a flag and an item; `ArgumentsSaid` adds up the
entries of a call; `FirstStarts` and `UpstreamArguments` read the calls off the
upstream's indexes. Where the translator promises nothing for a disorderly
upstream the property says so by a named premise: `MarksPair` (every mark is
opened before it is closed), `NamedFirst` (a call has its id and its one name
before its arguments), `ThoughtEnds` (thinking has ended before a call), together
`Coherent`; with `FinishIsLast` they are `Orderly`, and with no thought after a mark
that closed the thinking and no text of a choice after its call they are
`Sequenced`. `ItemsRepeatTheirDeltas` is about
coherent streams, which may finish early or twice; its last part, that nothing of an item
follows its end, is about sequenced ones, because `emitTextContent` and
`emitReasoningDelta` do send deltas of items that are closed (section 6).
`NothingIsLost` is about orderly streams, and counts what is told so as told: the
client has every fragment, some of it in an item that is over. No
premise on the marks suffices without `ThoughtEnds`: a call beside a thinking text
is never looked at, and one that comes while a thought is open ends its item, so that the
thought after it has none. `ItemsEnd`, `ArgumentsReachTheirCall`
and `OneFinish` hold for every stream the model can produce. That a chunk has text after
a mark only when the mark closes is how the model writes chunks down
(`ChatKindsAssumption`): what follows an opening mark is its `head`. A Responses upstream
of the model keeps to the protocol of its items: a call is announced, told in
pieces and finished, every item has an output index of its own, and a call
without a key runs alone; a call is of a function or of a custom tool; it may repeat an
announcement, leave calls and text unfinished, fail, complete or stop anywhere, and go on,
complete or fail again after that. `OneFinish` therefore asks which ending was the first
(`FirstEnding`): the finish is that one's, and last only while nothing follows it, for
text after a finish is sent on; a clean end without a single message has no finish.
`ArgumentsReachTheirCall` promises the final arguments of functions only
(`Repeated`): the input of a custom tool reaches a chat client by its pieces or not at all.
`ForcedTellsTheSame` sets the two implementations of
the conversion side by side, up to the differences listed in section 6.

`AttemptEnds` names the two silences that do hold an attempt under a client that stays: a
peer that does not read the request, which nothing times before its last byte is written
(`client.go:355`), and a redirect's body that neither ends nor grows, drained under
a byte cap and no deadline (`client.go:261`). No handshake is one of them.

`ProxyAuthIsTheProxysWord` separates where a proxy can turn credentials down. In its
handshake, by SOCKS5 or CONNECT, that is the error `proxy_auth`; so is a garbled RFC
1929 reply, which cannot be told from a rejection (`socks5.go:112-121`). A 407 that answers a
plain request through a forward proxy may be the proxy's or the origin's
(`failure.go:161-168`); it stays a status, and `refusal` remembers the case in which it
was the proxy's. The direct egress and the standard library's own CONNECT, which no
transport of the code uses, never make the error.

The type invariants of the modules (`TypeOK`, `HealthTypeOK`, `ExecTypeOK`, ...)
and `RefsCountHolders`, `SlotFollowsResponse`, `DialsWithinBudget`
and `ProxyAuthIsTerminal` are stated in the modules and proved, where section 5 says
so, rather than run.

## 5. Proofs

All theorems hold for every value of the constants under the named ASSUMEs of
the modules. Every safety property that a passing run checks,
`ForcedTellsTheSame` apart, is the statement of one.

* `ProxyProofs` holds the two registries and their composition.
  - Health: `RefsCorrect`, the count of an identity is the number of requests that
    hold it, by the cardinality of a set that gains or loses one request;
    `PinnedSurvives` follows, since `Reclaim` spares a positive count;
    `CooldownBounded` from the case split of `Observe`.
  - Limiter: `NoSlotLeaks` says for any caps that a count is never ahead of the
    slots held. That it is not behind either (`CountCorrect`), and hence
    `CapIsUpperBound`, assumes that no generation leaves the egress uncapped
    (`0 \notin Caps`): without it they are false, as `limiter_reload` shows.
  - Composition: `ProxyInv` adds to the types that a request walks the plan of its own
    generation (`PlanInv`), that what it holds is told by where it is
    (`HoldInv`: its pins are those of its route from the pin to the end, its slot is
    that of the dial or of the response), and that whoever looks up a transport has passed the
    maintenance of its generation (`ServiceInv`). `CallersKeepTheDiscipline`
    is the step from parts to whole: every behaviour of the server is one of
    `HealthSpec` and one of `LimiterSpec`, so what is proved of the registries under any
    caller holds of it. `QuietCorrect` needs no caps: by `NoSlotLeaks`
    the count is at most the slots held, and nobody holds one.
    `HistoryCorrect` and `TransportsCorrect` follow from the pins and from the gate on
    generations.
* `SchedulerProofs`. `SchedulerInv` says that each rotation state has the members of
  its fingerprint and credit that is `Balanced`, and each plan is sound for the
  snapshot of its request. Balanced is stronger than the bound it gives: the totals sum to
  zero, and any k of the n members together are owed at most m * k * (n - k), m being
  the largest weight. A weighted turn keeps it because the member chosen
  is one with the most credit among the eligible; for k = 1 it is the bound of
  `CreditStaysInBounds`. The sum of the weights, which suggests itself as a bound, holds
  on the instance of the run and is false in general: weights 10, 1, 1, 1 with
  changing eligibility drive a member to 15.
  `PlansCorrect` follows from what each strategy does with the heads; the filters and
  the sums need induction over sequences and over finite sets
  (`SequenceFacts`, `Sums`).
* `ExecutorProofs`. `WalkTyped` are the types; `LateInv` relates the counts of
  late dials and marks to where the walk is; `SlotInv` says the slot is that of the
  current attempt or of the response; `BudgetInv` counts the plan entries
  reached, which the injectivity of the plan keeps distinct; `AnswerInv`
  relates the remembered verdict to the answer. From them
  `CancelStopsTheWalk`, `SlotsFollowResponses`, `BudgetHolds`,
  `ProxyAuthOneDial`, and the refinement `WalkIsDispatch`, in which the end of an
  attempt is a `Try`, the exhausted plan a `GiveUp` and all else a stutter.
  `StoryInv` tells the rows while they are still being stamped: those up to the current
  attempt are settled (`Told`), those after it are its retried dials, and between
  attempts the last dial's row is the terminal one. `EvidenceCorrect` follows.
* `StreamProofs`. `TimerInv` says the timer never runs ahead of both clocks:
  what it counted was silence, or was spent in the last callback, or a ping is
  waiting that will rearm it (a tick in the select needs that ping consumed).
  It gives `StallIsJustified`. `EndInv` says what is still to be written
  fits the flags (`Fits`) and the flags know what was written (`Knows`); each
  operator of the relay produces frames that fit, a write keeps them fitting,
  and `EndMarksCorrect` follows. `StreamTypeCorrect` are the types.
  `FlowInv` follows the data: while the scan goes on, what is on the wire, what
  the callback has still to write, what waits in the channel and what the reader
  holds, one after the other, are what the upstream sent (`Through`); once it
  is over nothing more is data. It needs to know where each goroutine can be
  (`ReaderInv`, `ScanInv`), for instance that a scan which ended cleanly for a
  client that is there found the reader done and its hand empty. `RelayCorrect` follows.
  `MarkInv` says, of a stream that is not cut, what is owed: what the current call has still to
  write is one of five shapes the flags allow (`Owed`), the flags are set by what is
  on the wire and by nothing else (`FlagsOf`), a mark has what it ends ahead of it and
  a failure right before it (`EndsOf`), and after the flush the mark is written or
  last in line. `CleanEndCorrect` follows.
* `TranslateProofs`.
  - The forced read: the module restates `readBoundedSSE` on its own
    (`ReadSpec`: pieces of any content and size). `ReadInv` says that as long as nobody has
    given up nothing is on the floor: what was read is what the handler holds, then
    what waits in the channel, then what the goroutine holds (`Whole`). It
    needs to know that a piece that ends the body is the goroutine's last
    (`EndWaits`). `ReadCorrect` follows, and with the messages of an
    upstream as pieces `ForcedReadCorrect` for `Translate` itself.
  - A chat client: `FinishInv` ties the translator's finish flag to the place of the
    finish among the chunks and to the first ending of the upstream, however much comes
    after it; `ConvertRespEffect` says what any one event may come to (no chunk, a chunk
    without a finish, or the finish, which sets the flag and needs it clear). `FinishCorrect`
    follows.
  - The calls of a chat client: `Agrees` says that the calls the upstream has started, the
    keys the translator keeps and the indices the client was told are one list; that the
    client has of each call what was said of it; and that `argsEmitted` holds an index
    exactly when something of its arguments was told. It needs what the upstream's
    protocol keeps (`CallsKnown`: calls have their own ids and indices, a call without
    either is the last one while it is open, only announced calls are told or
    finished), proved of every message of `ResponsesMessages`. `ArgumentsCorrect`
    follows: a fragment that falls back to the newest call finds the right one.
  - A Responses client: the translator's state is a ledger of the items it opened and
    closed. `Ledger` says the events sent so far agree with it, and that before
    the end an item's start comes ahead of its close. Each operator of `ChatToResp` is
    shown to keep ledger and events in step (`Good`), whatever the chunk holds; the end
    closes what is open (`CloseAllKeeps`), for which the loops over the choices and
    the calls must reach each of them (`AscendingIs`). That calls are closed by the end
    only (`Fresh`) is what keeps a closed call from being announced. A stream
    cut inside a line has a prefix of what the line would have said, and what is
    claimed of streams holds of their prefixes (`ProperCut`). `ItemsCorrect`
    follows from `ItemsInv`, for any chunks over finitely many choices and calls
    (`IndicesAssumption`, `ChatKindsAssumption`).
  - What those items say: `Records` sets the translator's buffers beside what the client
    has. For each open item the deltas told so far add up to the buffer (`Kept`), the
    deltas of all messages to what was said, those of all thoughts to what was thought,
    and a closed call was told with all of its arguments. `Knows` says the
    translator's table of calls holds what their entries add up to; both are kept by each
    operator of `ChatToResp` (`Tells`). `Recounts` ties them to the chunks of the
    stream: the flag of thinking is `Thinking`, and a response that is
    complete has no call left open. It is inductive only with `FinishedBy`, without which
    a chunk after the end of the response could bring arguments to a closed call. From `Retold`,
    which is `Recounts` of the stream, the first two parts of `RepeatsCorrect` follow at once, and
    `LossCorrect` with one more step: an item that is closed once and in full was told once and in
    full (`ToldOnce`, `InFull`). The last part of `RepeatsCorrect` is `Settled`: nothing of an
    item follows its end. That needs the reason of every end (`EndsExplained`): before the
    response is complete a reasoning item ends only by a mark that closed the thinking and a message
    only by a call of its choice. A sequenced stream says nothing of the one after the
    other, so a chunk adds nothing to an item that is over, and within a chunk the operators
    come in the order that closes last (`Composed`).
* `ProcessProofs`. `UaInv` is the single flight: at most one caller of `Warm`
  fetches, what it fetched is of one release, and that release is no older
  than the published one, since nobody else can publish meanwhile.
  `ConnInv` relates the three views of a connection (net/http's state, the
  hook still to be made, the tracker): a handler past the gate runs on an active
  connection whose hook was made, so the tracker holds it when the forced
  phase comes. From them `IdentityCorrect` and `ShutdownCorrect`.
  The store's theorems are here too, `main` being what starts and stops it. `StoreInv`
  adds to the types that the hash and the counter describe the snapshot, and that
  a returned `Stop` has seen the poller exit. From it: `TypeCorrect`, `StampCorrect`,
  `StopIsFinal` and the refinement `StoreIsRegister` (every step publishes the next
  generation or is invisible).
* `AttemptProofs`. `ChainInv` says the sticky flags are what the chain's history
  says and the request on the wire was built from them; `DialInv` that a dial
  goes where the egress's kind allows. From them `RequestsCorrect` and `EgressCorrect`,
  for any `MaxRedirects`. `TodoInv` gives the shape of what a dial has left:
  it connects first, and every deadline armed or watcher started in those steps
  is followed by its removal (`Paired`); `ConnectionInv` says what is
  switched on has its removal still ahead. With `RefusalInv` (a dial ends in
  `proxy_auth` exactly when its handshake was answered so), `BodiesInv` and
  `VerdictInv`, for the answers and bodies around a dial, they give
  `HandoverCorrect` and `ProxyAuthCorrect`.
* `SequenceFacts`. The library's induction theorems take a predicate, which the
  installed provers cannot instantiate. Here induction is stated over sets: a set of
  naturals that is not empty has a least element, from the well-foundedness of <, and
  so a set with 0 and the successors of its elements is `Nat`, a family of
  subsets closed under one more element has the whole finite set, and a set of
  sequences closed under appending has them all. From these come the facts on
  `Only`, a recursive function: what it keeps, that it goes over a
  concatenation piece by piece, and that two sets which agree on a sequence keep the same of it.
  Likewise for `FoldLeft`, which reads its result from a
  table over sets of places: the table exists (`FoldTableExists`), and what holds of
  the accumulators along the initial segments holds at the end (`FoldAlongSegments`).
  A section is about texts put together from pieces (`Pieces`): one piece more, none at
  all, a concatenation. The last lists a finite set of integers in ascending order.

Only model-checked: liveness (`EditsAreAdopted`, `CooldownEnds`,
`ExecTerminates`, `EveryRequestEnds`, `StreamAndReaderEnd`, `ForcedEnds`,
`ProcessEnds`, `AttemptEnds`), which needs fairness and is out of the prover's
reach; and `ForcedTellsTheSame`, which compares the stream with a fold over a whole body.
The fold orders a body by output index or by slot, the stream goes by arrival, and a
proof would need what sorting makes of one more event; the property also holds only of bodies
whose output indexes stay within `MaxOutputIndex`, which the bounds of the run ensure.

## 6. Where the code and its comments disagree

* `scheduler_stale`. A rotation state keeps the generation of its first writer.
  When generation 1 has shape A, 2 has shape B and 3 has A again, requests of
  generation 3 continue the state of generation 1; a request of generation 2
  is not older than that stamp and replaces the live rotation
  (`routing.go:234`, against the comment at 222).
* `limiter_reload`. `Release` has no cap to look at. After a reload that caps a
  formerly uncapped egress, the end of an old request frees a slot it never
  took (`limits.go:45`).
* `stream_failure`. When a Responses stream is aborted (a stall, a read error)
  after its terminal event was relayed, the client gets `response.failed` and a
  second `[DONE]` all the same (`stream.go:92`, against the comment at 40). An
  upstream that sends `response.completed` and then keeps the connection open
  for the stall window is enough.

More was seen while modelling and has no run of its own:

* A Responses upstream may finish a custom tool's call with its input and no deltas before.
  The translator takes such items (`stream_resp2chat.go:198`) but reads `item.arguments`
  only (223), so the chat client gets the call without its input, where a test says that
  they "take the same path" (`stream_resp2chat_test.go:134`).
* The chat to Responses translator closes a message when its choice calls
  (`stream_chat2resp.go:512`) and goes on telling its text if more comes (155-188): deltas of an
  item that is done, missing from the text it was done with. Likewise reasoning after its
  mark. The premise `Sequenced` of section 4 is there for this.
* A clean end of a Responses upstream that said nothing leaves a chat client without a finish
  (`stream_resp2chat.go:87`: the state machine was never started), and a text after the finish
  is still sent.
* A refusal of our credentials by a forward proxy, on a plain http target, is a client
  error without fallback (`failure.go:161-168`), and a malformed RFC 1929 reply a refusal
  (`socks5.go:112-121`). Both are documented there; `Attempt` has both.
* Three reads have a byte cap and no deadline, so an upstream that sends headers and no
  body holds the request until its client leaves: the drain before a retry
  (`client.go:227`), the body of an error (242) and of an answer that is no stream
  (`stream.go:65`). The same holds of writing a request.
* The poller runs before `main` sets the first level, so a reload between `main`'s
  read of the level and its write is overwritten (`main.go:72-74`); `ConfigStore`
  reaches it.
* With the row cap reached inside an attempt, the disposition of the attempt is
  stamped on the retried row before it (`fallback.go:275-278`); `Executor`
  reaches it with a smaller `MaxRows`, and `EvidenceTellsTheStory` is stated around it.
* A request of an older generation that plans after a prune stores the removed
  route's rotation again, against the comment at `routing.go:322`;
  `SchedulerReload` reaches it.
* A context that ends while the reader passes a line makes the reader close its
  channels without an error, so a cut stream can look like a clean end and leave
  no evidence row (`client.go:637`, against `stream.go:45`); `Stream` reaches it.
* A chat stream whose body ends in the middle of a line has its `[DONE]` glued to
  that line (`passthrough.go:373`).
* The comment above `TranslateRelay.Flush` (`translate.go:197-200`) promises a Responses
  client `response.failed` and `[DONE]` when the upstream never reached a
  terminal event; the flush of the state machine sends `response.completed` and no
  `[DONE]`. An upstream that sends nothing at all yields a lone
  `response.completed`.
* `connect.go:81` says deadline values survive `WithoutCancel`; the standard
  library's `context.WithoutCancel` drops them, so a dial detached by net/http has
  the fixed timeout only. It is bounded either way.
* The two ways to answer differ where `ForcedTellsTheSame` does not look: the
  stream reports empty arguments as `{}`, the fold as they are; the fold
  leaves think marks in the text, and items whose output index is beyond
  `MaxOutputIndex` out of the answer; it joins the pieces of a name that comes
  repeatedly; a forced chat answer may carry the upstream's `status`
  (`in_progress`, `failed`) as its finish reason; the fold to chat leaves
  custom tool calls out (`nonstream.go:598`), and the one to Responses does not unwrap their
  input; the property is about calls of functions. In the stream, a chunk with text inside a
  thinking block hides calls and a finish beside it, a delta of reasoning after its end has no
  item, and a call that never got a name closes without having been opened. These lie
  outside the premises of section 4.

## 7. Not modelled

* The request side of the translators (`req_resp2chat`, `prenorm`, `modality`, `schema`),
  cloaking, synthetic answers: pure reshaping of one document, one input to one output,
  no state and no interleaving to explore.
* `usage`, `caps`, `jsonx`, `logging`, `redact`, the rendering of evidence: tables,
  arithmetic and text.
* Parsing and validation of the configuration document and `MatchRoute`: pure;
  what validation promises is assumed by name where it is used
  (`ValidShape`, the plans of `Executor`).
* The session cache and the choice of a client tool.
* In the modelled parts: pooled connections (every hop dials), the
  direct client that leaves redirects to the standard library, ports, the bytes
  of the handshakes; 302 is as 301 and 308 as 307; the age gate of `Warm`,
  which both of its callers bypass; flags, the healthcheck
  subcommand and the wiring of handlers in `main`; ids, timestamps and the arithmetic of
  counts in the translators. net/http's connection handling in `Process` and
  the standard library's proxying in `Dial` are modelled from how the code
  relies on them.

What would come next: a proof of `ForcedTellsTheSame`, for bodies within
`MaxOutputIndex`; `MatchRoute` against a reference definition; the session cache.
