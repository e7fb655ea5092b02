# Verification of the Copilot Teams Bridge

TLA+ models of `copilot-teams-bridge`, checked with TLC, and theorems about them
checked with TLAPS.  The bridge gives every Copilot session a Teams thread: it posts
notifications there, reads what the user answers, and brings each answer to a waiting
tool call or into the chat that started the work.

## The system

| Component | State | Operations | Talks to |
|---|---|---|---|
| `Bridge` (`application/bridge.ts`) | sessions, waiters, the polling flag, lifecycle of threads | `notify`, `poll`, `waitForReply`, `takeUndelivered`, `extendSession`, `recordActivity`, `postTurnSummary`, `closeSession`, `renameSession`, `dispose` | transport, store, claim files, host's handlers |
| Hand-over (`hosts/vscode/extension.ts`) | delivered claims, consent offered | `onReply`, `handOver`, expiry notice, `resetLocalState`, rebuild on configuration change | Bridge, harness adapters, claim file |
| Chat injector (`chatInjector.ts`, `chatReveal.ts`) | a queue, consented and unverifiable replies, the focused chat | `inject`, `deliverHere` | VS Code chat |
| Agent reply relay (`agentReplyRelay.ts`, `sessionMerge.ts`) | the shared `sessions.json` | timer tick, collect, deliver, expire, `reactivate` | hand-over, transport, the MCP server through the file |
| MCP server (`hosts/mcp/*`) | bindings, calls in progress | `teams_notify`, `teams_check_replies`, cancellation | its own Bridge with a file store |
| Agency transport | child process, request table, own posts | `createThread`, `postToThread`, `fetchReplies`, restart | Teams |
| Claim files | `threads.json`, `delivered.json`, `posted.json` | lookup, record, claim, release | every process |
| Watchers | which requests and turns were announced | scan, announce, touch, report a turn | Bridge |
| Harness routing (`services/harness.ts`, `adapters/*`) and chat resolution (`chatSessionResolver.ts`) | the identity kept with each session, the resolver's cache | ranking of identities, adapter for an identity, reachability, search for a chat | Bridge, hand-over, relay |

One process is a single JavaScript thread.  Its hard behaviours come from the awaits:
every call to Teams, to a chat or to a waiting tool suspends one activity while the
timer, other calls and other passes go on.  Beyond that there are two processes (the
extension and the MCP server) over shared files, a child process that may be
restarted, windows that reload, and a user who answers at any time.

What makes the parts correct:

- Bridge: a reply that was read is never lost; it is acted on once; one pass reads at a
  time; every message in an active thread is read; what the user was told about a
  thread matches what the bridge does.
- Hand-over and claims: an instruction is put into a chat once, whatever retries and
  however many paths; an attempt that failed leaves no claim.
- Injector: a reply is written to the chat it belongs to and to no other.
- Relay and server: the merge of the shared file loses no reply and revives none.
- Transport: an own post is never read back as an instruction; requests are answered
  or rejected.
- Claim files: concurrent processes agree on one owner of a reply, a thread, a post.

`PROJECT.json` lists every component with its source files, and the hazards with the
lines where they bite.

## Modules

| Module | Models |
|---|---|
| `Bridge` | one process: `bridge.ts` and the hand-over of `extension.ts` |
| `MCBridge` | symmetry for TLC; one `.cfg` per question |
| `BridgeProofs` | theorems about `Bridge`: types, hand-overs and claims, passes, waits and watermarks, held and lost replies |
| `Injector` | `chatInjector.ts`, `chatReveal.ts` and the consent prompt of `extension.ts` |
| `MCInjector` | symmetry for TLC; one `.cfg` per question |
| `InjectorProofs` | theorems about `Injector` |
| `Relay`, `MCRelay` | `agentReplyRelay.ts`, `sessionMerge.ts` and the server's writes to the shared file |
| `RelayProofs` | theorems about `Relay` |
| `SharedFiles`, `MCSharedFiles` | `deliveredReplies.ts`, `postedMessages.ts`, `threadRegistry.ts`, and the processes that share them |
| `AtomicClaim` | what `delivered.json` promises: the abstract specification of a claim |
| `SharedFilesProofs` | theorems about `SharedFiles`, among them that it implements `AtomicClaim` |
| `McpServer`, `MCMcpServer` | `hosts/mcp/server.ts`: the tool calls of one client |
| `McpServerProofs` | theorems about `McpServer` |
| `Transport`, `MCTransport` | `agencyTeamsTransport.ts` and its subprocess |
| `TeamsPort` | what the application is promised by a transport: the abstract specification of a call |
| `TransportProofs` | theorems about `Transport`, among them that it implements `TeamsPort` |
| `Watch`, `MCWatch` | `chatSessionWatcher.ts`, `agentHostWatcher.ts`, `sessionStarter.ts` and turn summaries |
| `WatchProofs` | theorems about `Watch` |
| `Routing`, `MCRouting` | `harness.ts`, the adapters, the callers that name identities, chat resolution |
| `RoutingProofs` | theorems about `Routing` |

How the modules meet: `Relay` composes the relay with the server's bridge and with the
file between them; `SharedFiles` composes the processes that share the three small files
and is itself tied to `AtomicClaim` by refinement.  `Bridge`, `Injector` and `Relay` use a
claim and a record as one step each: that is `AtomicClaim`, which `SharedFiles` shows to be
what the file does until an update is lost.  `Injector` is the inside of the step by which
`Bridge` and `Relay` learn the outcome of a hand-over, and `Routing` the inside of the
choice whether there is a chat for it (`unroutable`, `unreachable`).  `McpServer` has, of
the bridge, what its calls use.

### Bridge

**State.** `mem` is `this.sessions`, `disk` the store, `waiters` the map of waiters,
`polling` and `listening` the flag and the timer, `claims` and `registry` the claim
files, `lifecycle` is `threadLifecycle`.  What a suspended activity remembers is state
too: `pass` (a pass of `poll()`: what it has left to read, the replies it will dispatch,
the copy `redeliverRetained` walks), `call` (a wait), `post` (a notify or a turn
summary awaiting Teams), `handing` (hand-overs awaiting an adapter) and `notes`
(pause and resume notices being posted).  `chat`, `returned`, `dropped`, `ignored`,
`shown`, `cut` and `stranded` are history: no action reads them.

**Steps.** An action is the code between two awaits.  `Settled` makes JavaScript run to
completion: while a pass can go on without waiting for anything outside the process,
only such steps are taken (`Continues`), and timers, answers and calls come between
them only when every pass is idle, reading or awaiting.  This matters: without it the
model would show a reload between a read and its dispatch that cannot happen.

**Messages and time.** `log` holds what users wrote, over all threads, in the order of
`createdAt`; a position is a reply id and a timestamp at once and `Len(log)` is now.
Replies posted in the same instant as a watermark are therefore not distinguished.
A fetch may answer with what the thread held at any time since it was sent (`asked`), and
so may say less than the thread holds when its answer is handled.
The idle window is a flag, `quiet`, that a step of the environment raises and activity
takes down.

**Abstractions.** The list of held replies is a set, so which reply a full list gives
up is open, as is the order in which one list is dispatched again; replies of different
sessions in one batch are dispatched in any order, those of one session in order.
Sessions are matched by key only (the match by chat, a second way to the same record, is
folded into the key).  The acknowledgement that follows a delivery is part of its end.
The posts of the bridge are not in `log`, because the transport keeps them out of what
it returns once they have ended well and are recorded (`TeamsPort`); a message of a failed
post, or of one whose id was not recorded, that is read as a user's is left out, and so is
the thread id that `createThread` invents when the answer has none.  The caps of 200 seen ids, 100 sessions and 1000 claims are not reached.
The dedup fields of the unroutable notice and of turn summaries only decide whether
another message is posted in Teams and are left out here (`Watch` has those of turns), as
are the poll backoff and titles; identities are in `Routing`.  `Reload` is a reload of the
window or a restart of the server.  What it cuts off is remembered: `cut` has the replies
that were under way and in no stored list, `stranded` those that are in the stored list but
whose hand-over was running, so that their claim outlives it.
A hand-over returns an outcome or does not end: an adapter that throws
(`extension.ts:834` has no `finally`) would leave its claim, and is left out; what `handOver`
awaits after the outcome, the acknowledgement and the notice, is part of its end.
`dispose()` takes only the reply handlers away; the expiry handler stays, but it posts through
the bridge that is current then, which is none or a new one, so `Handlers` is false for both.  With a grace period a pass reads all expired sessions or
none (the code: those that expired within the period).  `stop()` followed by `start()` during
a pass leaves two chains of timers in the code; here there is one, and the second would only
start passes that the polling flag turns away or lets in, as it does those of waits.

**Constants.** `HasHandler` makes the instance the extension (replies go to `handOver`)
or the bridge inside the MCP server (replies are held until asked for).  `Calls`,
`Outcomes`, `Kinds` and `Faults` select what an instance exercises.

### Injector

In `Bridge` a hand-over is one step with an outcome; `Injector` is what happens inside.
VS Code writes a request to the chat that has the focus, and nothing says which that is.
So a delivery reveals the reply's chat and then writes, with an await in each, and the
user or another delivery may move the focus between the two.

**State.** `line` is the promise chain of `inject`: the deliveries whose barrier has not
been released, in order.  `pc` says where each attempt stands; those in `InFront` are
between the start of `deliverOnce` and the release.  `focus` is VS Code's last focused
chat and `transcript` what each chat recorded.  `consented`, `unverifiable` and
`consentOffered` (`offered`) are the code's sets; `noticing`, `prompts` and `consenting`
are what a suspended `handOver` or `offerConsent` remembers.  `consumed` stands for the
claim and the release of a reply in `handOver`, which keep one attempt at a time and none
after a delivery.  `auto` and `disturbed` are history.

**Steps.** `Decides` runs `decide` up to its first await, `RevealEnds` and `WriteEnds`
answer the two commands, `Confirmed` the search of the transcript.  `Settle` is the rest
of `handOver`.  `Leave` is the `finally` of `inject`.  The user may move the focus at any
time and answer a prompt at any time, even when a retry has delivered the reply since.

**Abstractions.** The settings are read at every decision, so `Steering` and `Holding`
are the sets of values they take over time.  A marker is the session (here its chat) and
the sender, as `deliveryMarker` builds it.  The confirmation ends with yes only when it
finds a marker, and may end with no at any time, which stands for its windows and its
ceiling.  The two commands of `openChat` are one; the code's second one drops
`isPartialQuery`, so a reply that was to be held in the box is submitted: what is written
where is the same.  The confirmation of agent-host chats by tab title is left out, and so is the
reload of the window, which empties the sets.

### Relay

The MCP server of an agent and the relay in the editor read the same threads and write
the same `sessions.json`.  The server writes synchronously, a merge of its memory and the
file; the relay reads and writes with an await in each, so what it writes may be old.

**State.** `disk` is the file, `mem` the memory of the server, which runs or not
(`serving`).  `at` is where `drain()` awaits, `copy` and `edit` what it has read and is
about to write, and `left`, `found`, `told`, `cur`, `chat`, `rest`, `reply` and `taken` are
its local variables.  `tries` and `parked` are the relay's maps, `react` what a running
`reactivate()` is about to write.  `claims` is `delivered.json`, `elsewhere` the replies
another path has claimed.  `inChat`, `settled`, `rewound` are history.

**Steps.** A step of `drain()` is the code up to its next await: expiry, notices, collect,
the write of what was collected, resolution of a chat, the hand-over, the clearing of the
queue.  `reactivate()` runs beside it.  `ServerPolls`, `ServerNotifies` and `ServerTakes`
are the server's synchronous steps, each ending in `mergeForWrite`.

**Abstractions.** One thread per session; a reply is a position in `log` and a time.
Closed sessions, the limits of the lists (the relay keeps 100 seen ids and the
bridge 200, the merge 50 delivered ids and 100 sessions), the
log-once sets and a second relay are left out.  A read finds a whole file: the server
writes it in place, and a relay or server that reads it half written would take it for empty
(`stdio.ts:30-43`), which is not modelled.

### SharedFiles and AtomicClaim

**State.** `delivered`, `posted` and `threads` are the files; `job` is what each process
has read and is about to write; `held` and `recorded` are what callers were told;
`forgotten` and `broken` are history: claims a full file dropped, files that lost an
update.

**Steps.** A call reads in one step and renames in another, and other processes act
between the two.  A write may fail, which the code swallows.  `AtomicClaim` has the
registry as its interface reads: a claim is refused when the reply is in the book, and a
full book forgets.  It promises this as long as it is `reliable`; the refinement maps
`reliable` to: no update of `delivered.json` was lost or failed.  The code has no lock, so
the first overlap of two calls ends the promise, which is what the refinement says and
what the hazard is about.

### McpServer

**State.** `bound` and `delegated` are the modes of the process; `call` is where each
request stands (posting, waiting, polling, acknowledging), with what it has taken;
`waiters`, `queue` and `sessions` are the bridge's.  `given`, `answers`, `missed` and `cut`
are history.

**Steps.** `Request` is `dispatch()` up to the first await of the tool; `Posted`, `TimesOut`,
`Awakes`, `Polled` and `Acked` go on after each await; `Cancel` may come at any of them;
`Exit` ends the process.  A pass of the bridge that reads a reply is one step (`Reads`):
what happens inside it is `Bridge`.

**Abstractions.** A session is found by its key; the id that an unbound call may pass to
`teams_notify` (`server.ts:343`) is left out.  Results are the sets of replies they contain.  The list of sessions and
the answer in delegated mode are an answer that takes nothing.

### Transport

**State.** `child`, `starting`, `buffer` and `self` are the fields of the transport, `proc`
the subprocesses that were launched, `call` where each call awaits, `inbox` and `pipe` the
two directions of the pipe.  `made` and `posted` are what is in Teams and in
`posted.json`; `unrecorded` is history: the posts whose `record()` came to nothing, because
the answer had no id and one was invented, or because the file could not be written.

**Steps.** `Begin` is `callTool` up to the launch, `Started` writes the request, `Consume`
takes a line from the pipe, `Answered` is the continuation: success, restart and second
attempt, or failure.  A request times out at any time.  A subprocess answers in any order,
dies, loses its session upstream, or leaves half a line behind; its exit is reported late.

**Abstractions.** Tools are posts and fetches; the mention lookup is a stage of a post.
Payloads are left out.  A record is one step; what other processes do to `posted.json` in
between is `SharedFiles`.

`TeamsPort` states the interface `ThreadedTransport` for such calls, with the outcomes a
caller sees and nothing of subprocesses, lookups, attempts and restarts: a post that ends
well has made its message exactly once; one that ends badly may have made it or may make it
late, never twice; a fetch returns no message of a post that has ended well and whose id
could be recorded.  A message that could not be is read back as a user's, which
`postedMessages.ts:71-73` accepts: the port says so instead of promising more.
`ImplementsPort` maps each call to whether it has begun, lasts, or ended well or badly.

### Watch

**State.** `turns`, `whole`, `terse` are what the transcripts hold, `listed` what the index
lists.  `seen`, `pending`, `scans`, `latest` belong to the watchers, `announced` to
`announceSession`, `threads`, `notified` and `ids` to the bridge.  `runs` are the
activations that await something: a handle, a scan of turns, a poll of the index.

**Steps.** A change event, the two debounce timers, the read of a transcript, the
announcement and its answer, each turn that is posted and its answer; a configuration
change, which forgets the announcements and rebuilds the bridge but not the watchers, and a
reset, which replaces the watchers.  Seeding ticks off every file of the folder, also one
without a turn, which is then never announced (`Seedings`).

**Abstractions.** A transcript is how many turns it has and how many are finished.  When
the watchers seed, all can be read or nothing: the code fails file by file, and the folder
apart from the index.  In a reset the code disposes
the transcript watcher at once and the agent-host watcher only when it starts new ones,
after it has awaited the deletion of the files; here both go in one step.

### Routing

**State.** `record` has, per session of one store, its key, its chat resource and its
identity; `posting` the sessions with a post in flight; `known` is the resolver's cache.
`named` and `first` are history: the chat that was last named for the session, and the
harness that the first post with an identity named.

**Steps.** One action per caller of `notify`: the tool, the two watchers, the test command,
the MCP server.  They are the only places that make identities, so what they may pass is
read off their code.  `Resolve` is the relay's search for a chat, whose sources may each
return any chat or none.  `PreferIdentity`, `IdentityOf`, `ReplyReachability`, `CanDeliver`
and `WorthKeeping` are pure operators.  `Destination` is where `handOver` takes a reply: the
sidebar adapter's chat, or what the hold adapter does, which is nothing or, when the user set
`unroutableReplies` to `focusedChat`, an injection into the chat on record or the focused one.

**Abstractions.** A chat is one of two kinds, because the code tells them apart.  A store
is the extension's or the server's.  `Launchers` are the values that servers were started
with, any of those that `harnessFromEnv` lets through: the extension starts one server in
VS Code and registers one with the CLI, as `cli-runtime`, and both write to one store.  The
diagnostic command that posts under any identity the user picks (`harnessProbe.ts`) is left
out.

## Runs

Deadlock is not checked because every system here may stop (no message, no call, process
ended).  `relay` and `watch` take two to four minutes, the others about one.

| Run | Instance | Properties |
|---|---|---|
| `replies` | 3 messages, a list of one held reply, deliveries that end every way but by failing, a wait that may be abandoned, failing fetches, reloads, a reset | `InjectedOnce`, `HandedByOne`, `ClaimsCovered`, `HeldOnDisk`, `NoReplyLost` |
| `server` | no handler, 2 waits that may be abandoned, 3 messages, take and stop | `NoReplyLost`, `WaitersRunning`, `OneReader` |
| `lifecycle` | 2 records of one key on one thread: expiry, grace period, extend, activity, turns, close, rename, failing posts | `NoReplyLost`, `MarkForward` |
| `retried` | one message, a wait, failing fetches, an idle session, deliveries that succeed or find no chat; fairness of the listener | `EveryReplyRead`, `HeldIsDelivered` |
| `failed` | deliveries may fail (a violation is expected) | `NoReplyLost` |
| `injector` | 2 replies, 2 chats, both values of both settings, reveals that fail or stray, chats that do not open, a user who moves the focus and answers prompts | `OneInFront`, `AimedAtOwnChat`, `WrittenOnce`, `QueueFlows` |
| `relay` | one session, 2 replies, a server that boots, exits, notifies and reads, and two events out of: quiet periods, turns, failing fetches, notices and writes, reloads, claims by another path | `TypeOK`, `ReadIsKept`, `OneDelivery`, `DeliveredStays` |
| `claims` | 2 processes, 2 replies, 2 messages, 2 keys, a claim file of one entry | `OwnPostsKnown`, `ClaimsAreAtomic`, `ThreadsKept` |
| `calls` | 2 requests of any tool, 2 keys, 2 sessions, 2 replies, bound or not, delegated or not, cancellations, exit | `EachReplyInOnePlace`, `OneAnswer`, `OwnReplies`, `CallsEnd` |
| `transport` | a post and a fetch, 3 subprocesses, one fault, time-outs at any time, dispose | `TypeOK`, `PostedOnce`, `OneSubprocess`, `ImplementsPort`, `CallsEnd` |
| `watch` | a transcript, an agent-host chat, 2 activations, 2 turns, 2 events (failing reads, posts and seeding, archiving, configuration changes, resets) | `TypeOK`, `SeenIsAnnounced`, `TurnPostedOnce`, `TouchIsTurn` |
| `routing` | 2 sessions, 2 local chats, one Copilot-mode chat, a name; either store; servers in VS Code, in the CLI and of an unknown kind | `RepliesGoHome`, `InvitationsAreKept`, `DenialsAreKept`, `GivenUpOnlyOutside` |

`replies` shows that no order of passes, retries, waits and reloads puts an instruction
into a chat twice, that no failed attempt leaves a claim behind, and, with `server`, that a
reply which was read is always in a list, on its way, delivered or given up on purpose, but
for the two kinds that a reload cuts off (`cut`, `stranded`).
`lifecycle` shows that the ways a session ends and comes back do
not undo this, even while a read or a post of the same session is in flight, and that no
answer, however late, moves a watermark back.  `retried` shows that the listener falls
silent only while its own pass waits for a hand-over that never ends, and that successive
retries reach the chat if one of them can.

`injector` shows that a delivery is never redirected by another one, only by the user or
by VS Code, that a reply is not written a second time by a retry, and that no
confirmation, however long, holds up the queue.

`relay` shows that it does not matter which stale copy of a record is written last, as
long as none moves a watermark back: every copy still owes each reply that nobody has dealt
with; that the claim keeps a reply out of a second chat even when the file has lost the
record of its delivery; and that the merge keeps what the relay delivered.  `claims` shows
how far the three files can be trusted when two processes update them.

`calls` shows that a reply is with one call, in one answer or with the undelivered ones,
through cancellation at any await, that a request is answered once or not at all, that
agents do not get each other's replies, and that every call ends.  `transport` shows that
retries do not post a message twice, that concurrent calls and restarts leave one
subprocess, that the bridge's own messages are not read back, that every call ends, and
that its outcome is one the port allows.
`watch` shows that a chat is announced once although two sets have to be kept in step
over failures, that overlapping scans do not post a turn twice, and that rewriting a
transcript does not pass for activity.  `routing` shows that no caller, however little it
knows of a session, diverts its replies to another chat; that only a session which a server
outside VS Code was the first to claim may lose its way to its chat, and then only for a user
who holds such replies; that only such a session's replies are given up; and what a
thread's invitation or denial of replies is worth.

**Bounds.** One session and one thread suffice for every interleaving of passes, waits,
hand-overs and calls on one record; two sessions are used where two records meet on one
thread.  Two messages are enough for one to be in flight while another is read, held or
evicted, and three for a list of one to overflow while a third is in flight.  Two waits
give two passes beside the timer's.  `MaxPending` is 1 so that overflow happens.
In `Injector` two deliveries are enough for one to reveal between another's reveal and
write, and for one to confirm while another is in front; a second chat gives a wrong one
to write to.  Attempts are not counted: a reply may be offered again for ever.
In `Relay` records of different sessions meet only in the file, which each side writes as
a whole but session by session, so one session shows every order of two writers; two
replies put one in the queue while the other is fetched or delivered; `MaxEvents` is two,
one event for each writer's trouble.  In `SharedFiles` two processes give every overlap of
two calls, and a file of one entry (`MaxDelivered`) overflows with the second claim.  In
`McpServer` two requests race for one reply; a second session and key are what the wrong
one would belong to.  In `Transport` three subprocesses allow two restarts, the second
while the first is still exiting; `CallsEnd` says that a call ends or the bound was
reached.  In `Watch` two activations overlap on one transcript or across both watchers;
`MaxPosted` equals the number of turns.  `Routing` has no history: two sessions and two
chats of a kind tell whose is whose.

**Fairness.** `TickFires`: the timer is armed again after every pass.  A pass goes on
and its fetch is answered or fails, since the transport times every request out.
`SF` on a successful fetch assumes that Teams does not fail every read for ever.  Nothing is
assumed of the user, of the host's calls, of a wait's timer or of a hand-over: the commands of
VS Code have no timeout, a delivery may stand behind another one, and the injector's last
resort waits until the user closes its warning.  A pass that dispatches awaits its
hand-overs, and the timer is armed again only after it; hence `ListenerStuck` in
`EveryReplyRead`, which excepts a hand-over of the listener's own pass that never ends, and no
other.  `HeldIsDelivered` states what it needs itself (`Reaching`): hand-overs end, which
includes that the user closes that warning, and not every one fails.
`QueueFlows` assumes that VS Code's commands end, and that the user closes the warning
which `fallback` awaits before the barrier falls: while it stays open, deliveries wait.
Nothing is assumed of a confirmation or of a prompt.
`CallsEnd` of `McpServer` assumes that a call goes on after its awaits, each of which ends:
a wait by its timer, a post or a pass because the transport answers or times out.
`CallsEnd` of `Transport` assumes only that the process runs its own code and that its
timers fire; the subprocess may be silent for ever.

### Divergences

One run checks a sentence of the repository and finds a behaviour of the code against it
(`findings` in `PROJECT.json` quotes the sentences): in `failed`, `NoReplyLost` does not
hold, because a delivery that fails leaves the reply in no list.  `failed` is why the other
runs of `Bridge` leave that outcome out of `Outcomes`.

The modules state further sentences that do not hold.  They are no runs of their own; to
see the behaviour, put the property into a configuration as given.

| Module | Property | Instance | Behaviour |
|---|---|---|---|
| `Bridge` | `SurvivesRestart` | `failed` with `Outcomes = {"delivered"}`, `Faults = {"reload"}` | replies are stored as seen before they are handed over |
| `Bridge` | `HeldSurvivesReload` | `failed` with `Outcomes = {"delivered", "unroutable"}`, `Faults = {"reload"}` | a reload during the hand-over of a held reply leaves its claim in the file; the hand-over of the stored backlog (`bridge.ts:224-229`) then finds the reply claimed and releases it as delivered (`extension.ts:825-831`) |
| `Bridge` | `ConsumedOnce` | `failed` with `Outcomes = {"delivered", "unroutable"}` | a wait takes a held reply that is being handed over |
| `Bridge` | `PausedStayIgnored` | `lifecycle` | notify revives a session without moving its watermark |
| `Bridge` | `OneOwner` | `lifecycle` | a post in flight reopens a session whose thread has a new owner |
| `Injector` | `DeliveredIsProved` | `injector` | the marker of an earlier reply confirms one that went to another chat |
| `Relay` | `NothingLost` | `relay` with `Faults = {}` | the relay and the server write over each other, and a watermark passes a reply nobody has |
| `Relay` | `QueuedForAgent` | `relay` with `MaxReplies = 1`, `MaxEvents = 0`, `Outcomes = {"unroutable"}`, `Faults = {}` | the footer of a CLI session says a reply "is queued for the Copilot CLI session" (`messageFormat.ts:110`) and the design says it "sits in `sessions.json` until the session expires" (`docs/design/cli-session-reply-delivery.md`); the relay finds it not worth retrying and consumes it (`agentReplyRelay.ts:245-264`) |
| `McpServer` | `HandedBack` | `calls` | a call that was cancelled while it polls or acknowledges keeps what it took |

Other behaviours met while modelling, each in the model:

- `Relay`: only the relay clears `expiryNoticeAt`, so a session that the server revives and
  that pauses again may pause without a notice.  `has()` counts a hand-over another path is
  making as a delivery, so the relay consumes a reply that path may give back.  The
  server's memory never learns of a delivery.  A whole-file write erases a session that was
  created since the file was read.  `reactivate()` interleaves with `drain()`.
- `SharedFiles`: no file is locked; two claims of one reply may both be granted.
- `Transport`: the exit listener of a subprocess that timed out at launch stays, and forgets
  its successor; the same after `dispose()`, which does not stop later calls.  When the
  answer of a post is lost, its message is not in `posted.json` and reads as a user's.
- `Watch`: a transcript with more turns than `MAX_POSTED_TURNS` falls out of the guard, and
  is posted again.  A configuration change clears the announced set while a handler is
  awaiting, so a chat may be announced twice (`crossed`).  A failed announcement is retried
  only at a later write.
- `Routing`: a thread whose footer says that replies are not delivered may deliver them when
  the session's key is `chat-<id>` (`KeyChat` in `DenialsAreKept`), and delivers every one,
  into the chat on record or the focused one, when the user set `unroutableReplies` to
  `focusedChat`.  A server session's footer invites replies before a chat has been found,
  hence `store = "extension"` in `InvitationsAreKept`.  The CLI's server diverts a session
  whose chat is known: one that was resolved while its harness was unknown, or has a key
  `chat-<id>`, and is then posted to by that server, becomes `cli-runtime`, and its replies
  are no longer taken to that chat (`first \in Outside` in `RepliesGoHome`); the relay gives
  them up.  The notify tool takes an explicit session id, which may put two sessions on one
  chat.

## Proofs

Every theorem is about `Spec` for every value of the constants that satisfies
the module's assumption: any number of sessions, threads, keys, waits, posts, messages,
replies, chats, subprocesses and processes, any choice of calls, outcomes, settings and
faults, with and without a handler.  The assumptions say that bounds are natural numbers,
that the sets of chats, or of calls, that the code tells apart are disjoint, that a value
which stands for none is none of the others (`NoneAssumption`, `FocusAssumption`), that
launchers name what `harnessFromEnv` lets through (`LauncherAssumption`), and in `Watch` that there are finitely many
chats, without which the bound on their turns would bound nothing.  The type invariant of
every module is proved; those of `Relay`, `Transport` and `Watch` are run as well, because
they say more than a type.

| Theorem | Module | Property |
|---|---|---|
| `TypeCorrect` | `BridgeProofs` | `TypeOK` |
| `InjectedAtMostOnce` | `BridgeProofs` | `InjectedOnce` |
| `HandedByOneAtATime` | `BridgeProofs` | `HandedByOne` |
| `ClaimsAreCovered` | `BridgeProofs` | `ClaimsCovered`, which allows for a claim that a reload cut off |
| `OneReaderAtATime` | `BridgeProofs` | `OneReader` |
| `WaitersAlwaysRunning` | `BridgeProofs` | `WaitersRunning` |
| `MarksMoveForward` | `BridgeProofs` | `MarkForward`, when the process is not reloaded |
| `HeldRepliesAreStored` | `BridgeProofs` | `HeldOnDisk` |
| `NoReadReplyIsLost` | `BridgeProofs` | `NoReplyLost`, when no delivery fails for good; a reload may lose a reply that is in no stored list, and one whose hand-over is running |
| `InjectorTypeCorrect` | `InjectorProofs` | `TypeOK` of `Injector` |
| `OneDeliveryInFront` | `InjectorProofs` | `OneInFront` |
| `WritesAreAimed` | `InjectorProofs` | `AimedAtOwnChat` |
| `WrittenAtMostOnce` | `InjectorProofs` | `WrittenOnce` |
| `FilesTypeCorrect` | `SharedFilesProofs` | `TypeOK` of `SharedFiles` |
| `OwnPostsAreKnown` | `SharedFilesProofs` | `OwnPostsKnown` |
| `ThreadsAreKept` | `SharedFilesProofs` | `ThreadsKept` |
| `ClaimsRefineRegistry` | `SharedFilesProofs` | `ClaimsAreAtomic`: `SharedFiles` implements `AtomicClaim` |
| `RoutingTypeCorrect` | `RoutingProofs` | `TypeOK` of `Routing` |
| `RepliesAlwaysGoHome` | `RoutingProofs` | `RepliesGoHome` |
| `InvitationsAreAlwaysKept` | `RoutingProofs` | `InvitationsAreKept` |
| `DenialsAreAlwaysKept` | `RoutingProofs` | `DenialsAreKept` |
| `OnlyOutsideIsGivenUp` | `RoutingProofs` | `GivenUpOnlyOutside` |
| `HostsNameTheirChat` | `RoutingProofs` | `HostNamesItsChat` |
| `McpTypeCorrect` | `McpServerProofs` | `TypeOK` of `McpServer` |
| `RepliesInOnePlace` | `McpServerProofs` | `EachReplyInOnePlace` |
| `RequestsAnsweredOnce` | `McpServerProofs` | `OneAnswer` |
| `CallsTakeTheirOwn` | `McpServerProofs` | `OwnReplies` |
| `RelayInvariant` | `RelayProofs` | the inductive invariant `IInv` of `Relay` |
| `RelayTypeOK` | `RelayProofs` | `TypeOK` of `Relay` |
| `RelayOneDelivery` | `RelayProofs` | `OneDelivery` |
| `RelayReadIsKept` | `RelayProofs` | `ReadIsKept` |
| `RelayDeliveredStays` | `RelayProofs` | `DeliveredStays` |
| `TransportInvariant` | `TransportProofs` | the inductive invariant `IInv` of `Transport` |
| `TransportTypeOK` | `TransportProofs` | `TypeOK` of `Transport` |
| `MessagesPostedOnce` | `TransportProofs` | `PostedOnce` |
| `AtMostOneSubprocess` | `TransportProofs` | `OneSubprocess` |
| `PostsAreFiltered` | `TransportProofs` | `OwnMessagesFiltered`, for the posts whose id could be recorded; `ImplementsPort` contains it |
| `TransportImplementsPort` | `TransportProofs` | `ImplementsPort`: `Transport` implements `TeamsPort` |
| `WatchTypeCorrect` | `WatchProofs` | `TypeOK` of `Watch` |
| `TurnsPostedOnce` | `WatchProofs` | `TurnPostedOnce` |
| `SeenChatsAreAnnounced` | `WatchProofs` | `SeenIsAnnounced` |
| `TouchesAreTurns` | `WatchProofs` | `TouchIsTurn` |

`TypeCorrect` has one lemma per action.  The type invariant also says that a pass which is
reading has a session, without which a fetch would not have a record to write to.

`InjectedOnce` is not inductive.  A step that puts a reply into a chat must know that no
earlier one did, and the code knows it only through the claim.  `OnceInv` therefore joins
it with: a running hand-over is claimed and is not in a chat yet (`ClaimedWhenHanded`,
`HandedNotInChat`), no two hand-overs share a reply, and a claim stands for a delivery
made, running or cut off.  `HandOver` starts an attempt only for an unclaimed reply, which
by the last part is in no chat; `HandOverEnds` either adds the reply to a chat and keeps
the claim, or gives back the claim and touches no chat, and since nobody else hands over
the same reply, nobody relies on that claim.  A reset deletes the claims: the bridge has
no handler afterwards, but hand-overs still run, which is why `OnceInv` is stated up to
`disposed` where it speaks of claims.

`OneReader` and `WaitersRunning` are inductive given the types.  For the flag, the cases
are the three steps that begin, continue and end reading, which all go through
`NextFetch`.  For the waits, a call enters one list when it begins to wait and leaves
every list in the step that ends it.

`MarkForward` follows step by step: every assignment to a watermark goes through
`advanceWatermark`, or sets it for the first time, or belongs to a new record.  A reload is
excluded because the store is written at the end of a pass: a process that stops between a
fetch and that write starts again from the older watermark.

For the held replies, `RefsInv` relates the process to its store: both hold the same lists
and the store knows no more of what was seen (`ListsGood`); a record that is gone holds
nothing; what a pass, a hand-over or an abandoned wait has in its hands belongs to a record
that exists (`LiveRefs`), so that holding it writes to both; and a pass that is not
dispatching has an empty batch.  `HeldOnDisk` is its first part.  `LostInv` says the same of
what was seen and of what was sent as `NoReplyLost` says of what is held.  A reply that is
dispatched leaves the batch for a chat, a wait, a list or a hand-over; the one case in which
it goes nowhere, because it is already claimed, is covered by `ClaimsCovered`: the claim
means that it is in a chat, under way, or was cut off by a reload.  A wait that is handed a reply is registered, so by
`WaitersRunning` its call is there to return it.  The theorem excludes a delivery that fails
for good, as the run `failed` shows it must.

For the injector, `FrontIsHead` says that a delivery in front is the first of the line.
A turn begins only for the first of the line, and the first leaves the line in the step in
which it leaves the front, so two deliveries never stand there (`OneInFront`) and the focus
which a write finds is the one its own reveal set (`AimedAtOwnChat`).  `Routed`, that only
a reply with a recorded chat is steered, gives the focus its type.  `WrittenOnce` needs to
know what became of a write: `Spent` says that a reply which was written is being
confirmed, was given up or is reported, and that a reply in front was not written; a turn
finds none of the three, so the one write it may lead to is the first.

For the shared files the invariant adds to the types what a call relies on between its
read and its write (`Started`): a claim or a record adds an entry that was not in what it
read, and a release removes one that was.  Three lemmas say what the edits make of a list:
an added entry is in it, another one leaves only a full list, and in a list without
duplicates the length is the number of entries.  With them `OwnPostsKnown` is inductive:
either the file is what was read, and grows by the new message, or an update is lost.  For
the refinement, a rename of a claim or a release whose file is what was read is the step
`Claim` or `Release` of `AtomicClaim`, a failed or overlapping update is `Lapse`, and every
other step changes nothing the registry knows.

For the routing, `IInv` says of each record that its identity is one its store's callers can
make (`Sound`, `OfStore`) and that the chat last named for it is in the identity or, when
that has none, in the chat resource (`Homed`).  `PreferIdentity` chooses one of two, follows a
caller that is certain of a chat, and takes nothing for a caller that knows nothing; so a
post keeps the invariant whatever it names.  `Firsts` says that an identity of the CLI or of
an external host stands only where such a server was the first to give one: an identity that
is certain gives way only to one that is as certain and names a chat, and no server names one.  Reachability and delivery are then compared
identity by identity.

For the MCP server, `OnePlace` says where each reply is, reply by reply, and one lemma per
kind of move (taken, answered, given back, queued, handed to a wait, lost) says that the
move keeps it.  A move needs that the call which receives a reply has none: `Sane` says
that a call has something in hand only after its awaits, and one reply after a wait, and
`WaitsSane` that a registered wait belongs to a call which is waiting, is under its scope
and is there once, so that the head of a list is a call with empty hands and leaves no
trace.  `Placed` and `Owned` carry the key of a call along: what it takes comes from a
session of that key, and sessions keep their keys while they are closed and reopened.  A
reply is dispatched when a pass reads it and when an abandoned wait gives it back;
`DispatchKeeps` is stated once for both.

For the relay, every copy of the record, in the file, in the server's memory and in the
local variables of the two suspended activities, has to keep the promise of `ReadIsKept`,
because any of them may be written next (`FilesGood`).  That holds of a merge when it holds
of what is merged, and of an edit when the reply it drops has been dealt with: `QueueGood`
and `Control` say what the local variables of `drain()` mean at each await, `Behind` that
what it has read is no newer than the file, and `Closed` that a fetch leaves no gap above
the watermark it started from.  `OneDelivery` rests on `ClaimsHeld`: a claim stands for a
delivery that is under way or dealt with.  `DeliveredStays` is a property of the merge.

For the transport, `PostsOnce` follows one request of a post: it is written to a subprocess
once, and then waits for one subprocess or is answered; a second attempt is made only when
the first was answered as lapsed, and such an answer means that nothing was posted and
nothing will be.  `OneChild` says that the transport's
subprocess is the only one that is up and was not told to go, or whose exit is listened to,
and `Recorded` that a post which ended well is in `posted.json` or its record came to nothing.  For the refinement,
`Truth` is added: what is in the pipe and what a call has taken from it is true of Teams,
and stays true, because messages stay.  A message is made in the step `Make` of the port,
possibly after its call has failed; the end of a call is `PostSucceeds`, `FetchSucceeds` or
`Fail`, and the port sees nothing of the other steps.

For the watchers, `Consistent` says that what an activation read is no newer than the chat:
turns are only added.  `PostedInv` says of a transcript that has no more turns than the list
of posted turns can hold that the list has each posted turn, and none twice; then a list
with room for all turns is never cut, by the pigeonhole principle (`RoomToRecord`), and so
nothing is forgotten.  It holds because a turn is recorded in the step which decides to
post it.  `OnceInv` says of a chat that no clearing of the announced set has crossed: it is
handled by today's watchers only, one activation announces it, and it is in both sets while
that one does; after the announcement it stays seen, and stays in the announced set as long
as a handler reads it that might still call `announceSession()`.  `TouchInv` says that the
key which is remembered is no newer than the chat and no older than what the one scan, or
the one poll, that will compare with it has read, so that a touch always moves it on by a
turn.  Two scans of a transcript may read in the other order, which `overlapped` excepts.

Model-checked only: liveness (`EveryReplyRead`, `HeldIsDelivered`, `QueueFlows`, and `CallsEnd`
of `McpServer` and of `Transport`), which the proof system does not reach.  Every other
property of a run is a theorem.

## Plan

1. `Injector`: the reload of the window, agent-host confirmation, and a refinement that
   shows the injector gives `Bridge` the outcomes it assumes.
2. Two bridges over one memento after a configuration change.

## Not modelled

Text (rendering, parsing beyond closing commands, titles, transcripts beyond their turns),
settings and setup, the CLI runtime adapter (not registered in this build), the demo, and
the file transport, which is file access behind the same port.
