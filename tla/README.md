# Shore daemon: specifications

TLA+ modules of the shore daemon (`src/`, a Rust workspace that lets clients
talk to characters through language models), TLC configurations that check
them on small instances, and theorems that TLAPS proves for all instances.
Every definition is taken from the code; `PROJECT.json` maps each to its lines.

## The system

| Component | State | Operations | Properties that make it correct | Module |
|---|---|---|---|---|
| Conversation engine (`daemon/src/engine`) | messages in memory, `active.jsonl`, segments, manifest, revision | append, edit, delete, replace tail, reload, broadcast | memory and file agree; nothing acknowledged is lost | Conversation, Sync |
| Generation task (`handler/task.rs`, `persistence.rs`) | request, stream, result | append user turn, build request, stream, persist | replies land after their turn; an end means saved | Conversation, Calls, Sessions |
| Compaction (`memory/compaction*`) | run guard, tool loop, files | run, archive, roll back | what is archived was sent and written up, nothing lost between files | Conversation, Upkeep |
| Autonomy manager (`autonomy/manager.rs`) | cached request, counts, triggers, clocks, saved state | tick, notify, save, load | covered means covered; a trigger is released by whoever set it; quiet conversations get archived | Conversation, Autonomy, Upkeep |
| Heartbeat clock, cache keepalive | deadlines, counters | tick, schedule, user message, ping results | bounded talk to itself; pings only while useful | Autonomy |
| Deferred prompt edits (`memory/deferred_edits.rs`) | workspace and active copies, queue | write, queue, seed, refresh | no edit is missed by the next refresh | PromptFiles |
| Dreaming (`memory/dreaming.rs`) | schedule, back-off | gate, compact, sweep | only while the user is away | Upkeep |
| Message handler (`handler/mod.rs`) | a task per session, the lease | start, supersede, cancel, fan out | one task per session; requests are handled; a request's frames keep their order | Sessions |
| Character registry (`characters.rs`) | engine and merged configuration per character | get or create, merge, reload | one engine per file; configurations of one load | Sync, HotReload |
| SWP server (`swp-server`) | connections, routes, broadcast | connect, route, push, disconnect | a lagging client is resynchronised or dropped | Sync, Sessions |
| SWP client (`core/swp-client`) | watermarks, view, stream reader | observe, reconnect, feed | shows what is saved; follows a stream | Sync, Calls |
| Usage ledger, LLM client, tool loop | rows, budgets, keys, attempts | admit, call, retry, record | bounded overspending, one row per stream, every call ends | Calls |
| Hot reload (`hot_reload.rs`, `handler/mod.rs`) | noted paths, debounce, control channel, copies of the configuration | note, debounce, check, replace | the daemon runs with what valid files say | HotReload |
| Supervisors (`supervisor.rs`) | a child, a failure counter | spawn, check health, back off, give up, end | one child; gives up on failures in a row only | Supervisor |
| Daemon (`main.rs`) | tasks, the shutdown channel | start, serve, end | ends, and leaves nothing running | Daemon |
| Sidecar, MCP, tools, preferences, cache tracker, command line, configuration | formats, processes | conversions, I/O | data rather than control | none |

How they interact. Clients send commands and messages over a socket; a loop per
connection routes them to one handler. Commands run inside the handler, holding
the character's engine mutex from beginning to end. A message or a regeneration
becomes a task that takes that mutex briefly, several times, and streams from
the model in between; after it, the task may spawn an inline compaction.
Independently, one autonomy tick per character runs a heartbeat, a ping, idle
compaction, the deep-idle archive and the dream, in that order. Compaction
passes exclude each other by a run guard that is tried and never awaited; only
the `compact` command holds the engine mutex meanwhile. Everything below the
mutex is a file rewritten whole. Each change broadcasts the transcript to all
clients, who decide by revision whether to show it.

What is hard: background passes rewrite a file from what they read minutes
before; three files change one after the other; what a tick decided is old when
it acts; counts notified by one pass are compared by a later one; bounded
channels in a ring; any write may fail and the daemon may stop between two.
`PROJECT.json` lists the main hazards at their lines; "Other traces" below has more.

## Modules

Definitions whose comment begins "Mutant of" are not part of a specification:
each is a plausible mistake in the definition it names, and the property listed
with it in `PROJECT.json` fails when the mistake is put in. The `MC` modules
give the constants of the runs.

**Transcript** - a conversation as a sequence of lines, each with an identity
(a message at one content) and a role, and the pure functions over it: turn
count, regeneration cut, compaction split, trailing heartbeat messages, the
alternative a regeneration keeps.

**Conversation** (uses Transcript) - what one character's files hold: engine,
generation tasks, commands, heartbeat, the three compaction entry points, crash
and restart.

| Variable | Code |
|---|---|
| `mem`, `disk` | `MessageStore.messages`, `active.jsonl` |
| `files`, `listed`, `torn` | `segments/NNNN.jsonl`, entries of `compaction.json`, whether that was cut short |
| `memory` | which lines the memory files consolidate |
| `lock`, `guard` | the engine mutex, the `CompactionRunGuard` |
| `gen[s]` | session `s`'s generation task: between its looks at the transcript |
| `pass[p]` | the pass of entry point `p`: `manual` (command), `inline` (after a generation), `tick` (idle, deep-idle, pre-dream) |
| `lastRequest`, `covered`, `savedCovered` | `AutonomyState.last_request`, `covered_turn_count`, the latter in the saved state |
| `accepted`, `dropped`, `exposed`, `overtaken`, `unread` | history variables, not in the code |

One action is what happens between two points where other tasks can run: an
await, an unlock, a file write whose failure or interruption matters. Commands
and saves are one action, under the mutex; a save replaces memory first and the
file next, and if the file write fails memory stays changed (`PersistFails`).
A pass goes `asked` (a background caller has taken the cached request out of the
manager's state), `loop` (guard taken, file read, model asked), `segment`,
`manifest`, `active` (the three writes of `archive_and_retain`), `reload`,
`notify`; or `rollback` when one of the writes fails. `seen` is what the model is
sent: the cached request if there was one when the pass was asked for, else the
transcript; it is not the file the pass archives from. `rebuild` is a heartbeat or ping between
reading the file and caching the request. The history variables say which losses
are explained. `accepted` are the lines some save or reload succeeded with, hence
in a History sent to clients; `dropped` those a client's own request removed;
`exposed` those that came or went while a pass was working on an older copy of
the file. `exposed` exists because the code does lose such lines (run LostTurn);
`NoSilentLoss` exempts those lines and what clients removed. `unread` are user turns
of the file that the request of a pass which wrote memory files lacked (run
UnsentTurn). `overtaken` says that a pass
replaced the file by one with fewer turns than another pass, whose replacement
came before, has yet to note as its count.

**Chronicle** - what those files promise, without passes, locks, stages or memory:
the lines ever saved, those the transcript still holds the one copy of, the
archive, those clients removed and those that went astray behind a pass. Its steps
are a save, the listing of a segment, and a pass beginning or ending. Conversation
instantiates it (`ChronicleSpec`): `accepted` are the saved lines, the listed
files the archive, `exposed` those astray.

**Feed** and **Sync** - how clients follow the conversations. Feed says what is
promised: of each character a client knows some transcript there was, moves on
to later ones only, and forgets only by losing its connection. Sync is the
machinery: `engine` (revision, transcript, saved transcript, how often made),
`queue`, `lagged`, `lags` (the broadcast channel's receivers), `direct`,
`snapshot` (what a handshake or a switch has taken and not yet sent), `todo`
(Histories a reload still pushes), `sync` (the client's two watermarks), `view`.
A transcript is the number of the change that made it.

**Sessions** - from a request to the end of its answer: `route` (the channel to
the handler), `held` (the request with which a connection's loop waits for room in
it, inside an arm of its select, doing nothing else), the handler's `clearing` and
`outgoing`, `handle` and `lease`
(`SessionState`, `last_user_session`), each request's `task`, `fan` and `mirror`
(the forwarder of `build_fanout_tx`), `direct` channels. All channels are
bounded and every send waits, as in the code. After its end a task may announce an
inline compaction through the same forwarder (`AnnouncePhase`). A cancel sends a
final frame of its own past that forwarder; it has no request id on the wire, and
the model labels it with the request it cancels, to speak of its order.

**Autonomy** - the clocks: `wake`, `anchor`, `ticks`, `lastUser` (HeartbeatClock),
`target`, `nextPing`, `lastActive`, `failures` (CacheKeepalive), `request`,
`saved` (the state file), `phase` (where the tick is). `now` is the time.

**Calls** - callers of a model: `key`, `try` (attempt), `turn` (tool round),
`spent` (rows of the budget's period), `reader` (the client's `StreamHandler`).

**PromptFiles** - the copies the tools write (`workspace`), those prompts are
made of (`active`), the `queue`, and each pass's `refresh`, file by file. Seeding
and the sentinel of MEMORY.md look for a copy first and write it later (`seeding`,
`blanking`), with anything in between.

**Upkeep** (uses PromptFiles) - when a conversation is compacted, archived and
dreamt about: `triggered`, `archived`, `count`, `covered` (`compaction_triggered`,
`deep_archive_done`, `active_turn_count`, `covered_turn_count`), `idle`, `away`,
`backoff` (time since or until; each counts to the threshold it is compared
with), `jobs` (what the running tick has still to do), `pass`, `guard`. The
transcript is its number of turns and whether an autonomous message trails.

**HotReload** - how configuration files are followed: `main`, `overlay`, `defined`
(the files, each as the number of the edit that wrote it), `noticed`, `armed`,
`sending` (the watcher's event channel, `pending`, and the `.await` of its send),
`controls` (the handler's control channel), `applying` (where
`apply_reloaded_config` is), and the copies: `command` (`cmd_ctx.config`),
`autonomy` (`AutonomyManager.loaded_config`), `global`, `available`, `merged`
(`global_config`, `available`, `char_configs` of the registry). `looked` and
`missed` are history. An edit may raise no event (a file `config.toml` includes from
elsewhere, a workspace, or while nobody watches), the event may be lost to a watch
error, and the watcher may fail to start. **Supervisor** - `pc`, `failures`, `child` of each supervised
service; `recent` is the history of its failures. **Daemon** composes the two with
the phases of `main`.

**ConversationProofs**, **SyncProofs**, **SyncSafetyProofs**, **SessionsProofs**,
**AutonomyProofs**, **CallsProofs**, **UpkeepProofs**, **DaemonProofs** - the theorems.

## Properties

Conversation:
- `NoSilentLoss` - a line clients were told of is in `active.jsonl` or in a
  listed segment, unless a client took it out or it is exposed. Rests on the
  order segment, manifest, file; on the guard; on the rollback leaving the
  segment; on whole-file saves.
- `ChronicleSpec` - Conversation implements Chronicle. So each saved line stays the
  transcript's until a segment holds it or a client removes it, segments are only
  added at the end and hold nothing that was not saved, and a line goes astray only
  while a pass works, when it is saved or else because a client removed it.
  `SegmentsImmutable` (a listed segment never changes, the manifest never shrinks)
  is part of it; it is proved apart and no longer checked by a run.
- `ArchivedTurnsRemembered` - a user turn only leaves the file for the archive
  when some pass was sent it and kept its memory writes, including archives made
  without a model. Exempt: turns the request of a pass lacked (`unread`; run
  UnsentTurn checks it without this exemption), and everything once a count was
  noted late (`overtaken`).
- `NoResurrection`, `MemoryMatchesDisk` - while no write fails: what was edited
  away, deleted or regenerated does not come back, and memory differs from the
  file only until the reload of the pass that replaced the file.
- `PassesEnd` - every pass ends, though manual pass and tick take guard and
  engine lock in different orders.

Sync:
- `ShowsWhatIsSaved` - a client with nothing on its way to it shows at least what
  is saved of its character. Exempt: a last History lost to lag, an engine whose
  revisions are below a watermark another one raised, and a client that last took
  a History of an engine since dropped (`shown`).
- `MessagesNotShadowed` - a new message is announced if and only if the handshake
  did not show it, while messages come from one engine of one character.
- `FeedSpec` - Sync implements Feed.

Sessions:
- `EndIsFinal` - the final frame of an answer is on its way only when the answer
  is saved, and on every channel the frames of a request keep the order `MayFollow`
  allows: after the end comes at most the notice of the inline compaction, as
  `PROTOCOL.md:319` describes, and the frame of a cancel that came too late; an error
  or an output is the last. The final frame of a cancel overtakes what the aborted
  task has sent, and anything of that may follow it (see below).
- `RunningIsReachable` - a running task is the one its session's handle names.
- `RequestsHandled`, `AnswerArrives` - a request that is read is handled, and a
  saved answer reaches the client that asked, slow mirrors or not: handler, loops
  and forwarders wait in a circle only where `Jammed` says. That circle exists (see
  below); the run reaches it, and the properties say that it is the only one.
- `NobodyLeftNothingRuns` - when the last client is gone nothing goes on.

Autonomy:
- `BeatsBounded` - at most `MaxTicks` heartbeats before somebody answers, across crashes.
- `LatencyKept` - none sooner after a known message than the minimum latency.
- `PingsStop`, `PingIsNeeded` - pings end `MaxIdle` after the last real call, and
  are decided on only when the cadence has run out or to repeat a failed one.

Calls:
- `SpendBounded` - concurrent gated calls exceed a budget by less than one call each.
- `EveryStreamHasARow` - a stream has one row, whether it ended, failed or was dropped.
- `CleanStreamsFollowed` - a generation is a sequence the repository's reader
  accepts and ends in an end or an error, unless a stream tore after its start.
- `CallEnds` - keys, retries and tool rounds come to an end.

Upkeep and PromptFiles:
- `FlagIsOwned` - the trigger flag is set only while somebody is there to clear it;
  left set it would switch idle compaction and archive off.
- `QuietEnds` - a conversation in which nothing more is said ends up archived.
- `EditsActivate` - when a refresh ends, each file's snapshot is what the workspace
  holds, queued or not, whatever seeds and sentinels wrote meanwhile; only a file
  written, or blanked by a late sentinel, after the refresh copied it waits for the
  next one (`late`).

Daemon:
- `CopiesAgree` - between reloads all copies of the configuration come from one
  load, though they are replaced one by one and handshakes cache merged ones.
- `SettledIsCurrent` - when no change is on its way and the files are valid, the
  daemon runs with them, whenever the edits came. Exempt: edits that raised no event
  or whose event was lost, until a later reload reads them (`missed`).
- `ConfigConverges` - and it comes to that.
- `NoChildLeftBehind` - a child process runs only while a task waits for it or ends
  it, and none when the daemon is gone.
- `GivesUpInARow` - a service is given up on `MaxFailures` failures in a row and on
  no fewer, of whatever kind.
- `ServiceReturns` - a failed service runs again unless given up or stopped.

Each module has a `TypeOK`; parts of it are not shallow (splits lie inside the
transcript, attempts within their limit, watermarks within what was sent).

## Runs

| Run | Instance | Shows |
|---|---|---|
| Crashes | 2 sessions, manual + tick, 2 lines, 2 segments, 1 failure, 1 crash | `TypeOK`, `NoSilentLoss`, `ChronicleSpec` |
| Memory | 1 session, inline + tick, 3 lines, 2 segments, 1 failure | `ArchivedTurnsRemembered` |
| Rewrites | 1 session, inline, rewriting commands, replies of 2 lines, 3 lines, 1 segment, 1 failure | `NoResurrection`, `MemoryMatchesDisk` |
| Liveness | 1 session, manual + tick, 2 lines, 2 segments, 1 failure | `PassesEnd` under `FairSpec` |
| Sync | 1 client, 2 characters, broadcast ring of 3, direct channel of 1, 2 lags, 3 changes, 1 fault | `TypeOK`, `ShowsWhatIsSaved`, `MessagesNotShadowed`, `FeedSpec` |
| Sessions | 2 sessions, 3 requests, requests, tasks and chunks together 4, route of 1, other channels of 2 | `TypeOK`, `EndIsFinal`, `RunningIsReachable`; under `FairSpec` `RequestsHandled`, `AnswerArrives`, `NobodyLeftNothingRuns` |
| Autonomy | 2 models, one kept warm; time to 4, 3 events, 1 fault | `TypeOK`, `BeatsBounded`, `LatencyKept`, `PingsStop`, `PingIsNeeded` |
| Calls | a generation, a keepalive, a compaction that no budget stops; 3 keys, one unset; 1 retry, 1 tool round | `TypeOK`, `SpendBounded`, `EveryStreamHasARow`, `CleanStreamsFollowed`; `CallEnds` under `FairSpec` |
| Upkeep | one inline pass, keep 1, min and max 2 turns, 2 messages, idle after 1, archive after 2, 1 fault; MEMORY.md, 2 edits | `TypeOK`, `FlagIsOwned`, `EditsActivate`; `QuietEnds` under `Fairness` |
| Daemon | 1 character, 2 edits, control channel of 1; 2 services, one health-checked, limit of 2 failures | `DaemonTypeOK`, `CopiesAgree`, `SettledIsCurrent`, `NoChildLeftBehind`, `GivesUpInARow`; `ConfigConverges`, `ServiceReturns` under `FairSpec` |
| LostTurn | inline, 5 lines | violates `NoLossDuringPass` |
| UnsentTurn | inline, 3 lines, keep 0 | violates `NothingForgotten` |

Bounds of Conversation. `MaxLines` bounds the lines ever created,
`MaxReplyLines` those of one generation, `MaxSegments` the segment files (a pass
does not start when they are used up), `MaxFailures` failing reads and writes,
`MaxCrashes` crashes. `KeepTurns` is 1, its smallest value that keeps anything (0 in UnsentTurn, where
three lines must do).
Two lines are enough for two passes with a write between them and, with one
failure and one crash, for each interruption of the three writes; three add a
turn with its reply that is split from a later turn. The proofs cover the rest:
`NoSilentLoss` under rewriting commands too.

Bounds of the others. Sync: an announced change is two events, a History and a
message, so three changes over two characters are up to twice what the ring
holds, and a receiver can lag having read some, and one character can get ahead
of the other by two; a fault is an unsaved change or an engine made anew; clients never
look at each other's state, so one is enough. Sessions: two of each give
superseding, mirrors, and a client that leaves or comes while the other is
served. A route of 1 is full with one request (256 in the code): with three, one is
with the handler, one in the route and one held by a loop, which is what a jam
needs. `MaxWork` bounds requests, tasks and chunks together, so that their mix
decides what a behaviour spends it on: three requests and a task, or one request,
its task and two chunks that fill a channel of 2. Autonomy: time 4 lets a cadence
of 1 pass twice within `MaxIdle` 3 and outlast it; the proofs cover all values.
Calls: a limit of 2 and prices up to 2 let two calls pass the check together.
Upkeep: two messages reach both thresholds and leave turns behind a split; the
fault is a pass without writes, a failed pass, reload, read, dream, copy or queue
write. Every clock counts to the threshold it is compared with, so time itself
has no bound. Two edits make MEMORY.md and write it again before or during a
refresh. The run has two scopes (`Scope` of MCUpkeep): all messages and dreams while
the prompt files are left alone, and edits with one message less and no dream due.
It holds back only messages, edits and the schedule of dreams, which have no
fairness, so it cuts no behaviour short that is obliged to go on. Daemon: two edits are one that is being loaded and one that comes meanwhile; a
config command can hold the handler up before either, so that a channel of one
fills. Two failures are the last and the one before, which may have ended a stable
run. The run's `CONSTRAINT Apart` has edits or services, not both: they share only
the phase and the signal, and the steps it leaves out have no fairness, so that it
cuts no behaviour short that is obliged to go on. The proofs have no such limit.

Deadlock is not checked: with bounds used up, or with clients gone and nobody
asking, the system may stop.

Views. States that differ only in what no later step and no property of the run
looks at count as one. In Crashes, Rewrites and Liveness (`TranscriptView`) that is
what is in model requests, beyond whether there is one, and a saved covered count
that no restart can read any more. In Memory and UnsentTurn (`MemoryView`) it is also
the history variables beyond the user turns the property exempts, and what a pass
has read once it has replaced the file; when `overtaken` holds it stays so, nothing is
claimed, and all such states are one. In Sessions (`SessionsView`) it is what is left
of requests that nothing will happen to, and a lease no task will be mirrored to. In
Upkeep (`QueueView`) it is the queue of edits: it is written and deleted, and a
refresh copies every file whatever it names; the mutant that copies only the queued
ones is found under the view too. Sessions are interchangeable in Crashes, clients
and characters in Sync.

Fairness.
- Conversation: weak for a pass asked for (it starts or is refused), a lock section
  that has begun, the end of a model loop
  (the HTTP client has timeouts) and the writes of a pass; strong for the reload,
  because tokio's mutex is fair and a waiting task gets it however often others
  take it. Nothing is assumed of users, triggers, saves of state, or restarts.
- Sessions: weak for the handler, a loop that passes on, delivers or tells, the forwarders, and the end of a task
  that has saved its answer or was aborted. A client that stays connected reads
  (`Deliver`). Nothing is assumed of models.
- Calls: the provider answers or the connection breaks (timeouts in the client).
- Upkeep: time passes, the tick task ticks, a pass that has begun goes on.
  `QuietEnds` needs a bound on faults, which every failing run has.
- Daemon: weak for the watcher, the handler, each supervisor (sleeps end, a killed
  child is reaped) and main's waits, which have deadlines. Nothing is assumed of
  users, children or MCP servers.

### What the violated properties say

- **LostTurn.** `archive_and_retain` writes what the pass read before its model
  loop, minus the archived part. A turn saved during the loop vanishes from the
  file, then from memory with the reload. The comments at
  `compaction_impls.rs:343` and `types.rs:109` call this avoiding the race.
- **UnsentTurn.** `build_initial_request` (`compaction_impls.rs:274`) extends the
  messages of the cached request, taken before the pass (`background.rs:201`), and
  `archive_and_retain` archives from the file. A user turn whose generation failed or
  was cancelled is in the file and not in that request: it is archived, and no model
  has seen it. `CONFIGURATION.md:856` says "The compaction LLM always sees the full
  conversation", and `ARCHITECTURE.md:299` says the same.

### Other traces met while modelling

These were found by TLC or by reading, and have no run of their own. Properties
that would fail because of one name it in an exemption or a bound.

- `SyncState::observe` (`sync.rs:49`) has one watermark for the Histories of all
  characters, each of which counts its own revisions; after a switch to one with
  fewer, its fresh History is dropped as stale, against `PROTOCOL.md:291`
  ("per-character revision counter"). `ShowsWhatIsSaved` exempts this.
- `CONFIGURATION.md:57` says the previous configuration is kept when changed files
  do not parse. Overlays are merged when first asked for after a reload
  (`characters.rs:155`); if one is broken by then, its character gets the global
  configuration. The test asks for the configuration first and does not see it.
- Connecting an MCP server has no timeout, so one that never answers keeps the
  daemon from starting, with signals unanswered, or holds the handler in a reload,
  against the comment at `mcp_registry.rs:57`. `ConfigConverges` exempts
  this.
- A character made by writing `workspace/SOUL.md` is not noticed until the next
  reload: the watcher ignores workspaces. Edits between loading the configuration
  and starting the watcher raise no event either (`missed`).
- Setting a value for one character hands that character's merged configuration to
  the manager all characters share, and any later edit of a file drops what was set.
- `ensure_state_with_config` looks and inserts without a lock
  (`manager.rs:498`): two sessions' first messages to a character can start two
  tick loops, of which one never hears of the user.
- A cancel sends its final `stream_end` straight to the session
  (`command_dispatch.rs:45`), past the forwarder, which may still hold chunks of the
  aborted task; they arrive after it, against `PROTOCOL.md:145` (only the frame with
  `is_final = true` closes the request). The frame has no request id, and
  `swp-client`'s stream reader stops at the first final one. `MayFollow` allows this.
- The handler waits for room in a session's direct channel when it answers; that
  session's loop, in the arm of its select that received a request, waits for room in
  the route (`swp-server/src/lib.rs:611`, `755`) and drains nothing meanwhile. With
  the route full (256 requests) both wait for good, against `handler/mod.rs:289`
  (the loop never blocks). `Jammed` is this state.
- The sentinel looks for a snapshot of MEMORY.md and writes an empty one
  (`deferred_edits.rs:180`); a refresh that copies the file in between has its copy
  blanked until the next refresh. A seed likewise looks and then copies, and may
  overwrite a snapshot made meanwhile, against the comment at `deferred_edits.rs:319`
  (an existing snapshot is left intact).
- The deep-idle archive looks a second time whether the conversation is quiet
  (`manager.rs:1190`), and then reads the file and takes the guard; a message saved
  right after that look is archived with the rest, if the counts agree.
- A file that `config.toml` includes from outside the configuration directory, or
  without the extension `.toml`, raises no event (`hot_reload.rs:125`); watch errors
  and overflows drop events (`hot_reload.rs:82`).
- `ArchivedTurnsRemembered` fails with a manual pass beside the tick (four lines,
  three segments): a background pass frees the guard before it reloads and
  notifies, a manual pass in between makes its count stale, and when that equals
  the turns on disk the deep-idle archive skips the model. It fails likewise with
  one crash (three lines, three segments): the saved count is from before. And
  editing a covered turn leaves the count, so the edited text is archived
  without a model pass.
- The same without any manual pass: an inline pass replaces the file, frees the
  guard, and before it notes its count (`task.rs:647`) the tick archives the turns
  it kept and notes zero. The inline pass's count then stands beside an empty
  file, and as many new turns, never consolidated, are archived without a model
  (three lines, three segments). `ArchivedTurnsRemembered` exempts this.
- Between a background pass's replacement of the file and its reload, any save
  writes the memory of before back: the archived lines are in the file again, and
  the next pass archives them a second time. The reload keeps them. Nothing is
  lost; `active` of Chronicle leaves such copies out.
- An engine that a reload of the configuration dropped may have sent what is still
  in the channels. With room for three in the direct channel, an old engine's
  History with the same revision replaces a newer view; and its messages are
  announced again though the handshake, of the new engine, showed them. The
  Sync properties exempt frames of dropped engines.
- `replace_after_last_user_turn` drops a reply and a heartbeat message after it;
  only the latter was captured as the alternative (`messages.rs:269`). A
  regeneration that ends without text drops the reply with no message to hang
  the alternative on.
- A stream that fails after its start is retried with a second `stream_start`, in
  `generation.rs:84` and for continuations; the repository's `StreamHandler`
  rejects it. `CleanStreamsFollowed` exempts such generations.
- After a compaction dropped the cached request, a returning user's message has
  no model and does not restart the keepalive (`manager.rs:623`), against
  `core/config/src/app.rs:347`. A ping that fails after the cadence was switched
  off arms the next one all the same. A ping may warm a cold cache: after a
  compaction the request is rebuilt and pinged.
- A background pass that writes no memory returns 0 retained turns, which its
  caller records as its turn count: the idle trigger does not retry in that quiet
  period, against `background.rs:273` and `CONFIGURATION.md:850`.
- The delete command does not tell the autonomy manager. A recorded count above
  the file's keeps the idle trigger firing into "insufficient messages", and each
  failure pushes the clock the archive waits for: `QuietEnds` has
  `<>[](count <= turns)` as its premise.
- Idle compaction, unlike the archive and the dream, does not look again whether
  the user came back during the heartbeat.
- A prompt file that did not exist (other than `MEMORY.md`, which has a sentinel)
  is shown to the model at once, not after the next compaction
  (`deferred_edits.rs:11`). A queue entry written during a refresh is removed
  with the queue; the next refresh copies everything anyway (`EditsActivate`).
- A superseded generation never sends its final `stream_end`. A handshake whose
  last write fails leaves an entry in the client table, so that the last client's
  leaving is not noticed. The `compact` command runs its model pass inside the
  handler, which serves nobody meanwhile, against the comments of `handler/mod.rs`.
- Rows of cancelled and incomplete streams carry no cost, so budgets undercount;
  a budget query that fails admits the call.

## Proofs

Every invariant and action property of the passing runs is proved, and so are the
two refinements (`ChronicleSpec`, `FeedSpec`). Only model-checked are the liveness properties (`PassesEnd`,
`RequestsHandled`, `AnswerArrives`, `NobodyLeftNothingRuns`, `CallEnds`,
`QuietEnds`, `ConfigConverges`, `ServiceReturns`): liveness and ENABLED are out of
the prover's reach, as is induction over data.

**ConversationProofs**, from the assumptions of Conversation (session names
differ from the entry points'; bounds are numbers): `TypeCorrect`,
`NothingLostSilently`, `ListedSegmentsStay`. `TypeOK` is not inductive alone:
cutting a transcript is typed only when the position lies inside it, so it is
proved with `SplitInRange`. The other two rest on `LossInv`, which says where a
line may be at each step of a pass. Call a line safe when it is archived,
dropped or exposed. `AcceptedKept`: an accepted line is safe or on disk.
`MemoryHoldsDisk`: lines on disk are in memory or safe, so a save that rewrites
the file loses none. `PassKnowsDisk` and `DiskHoldsSnap`: while a pass has not
replaced the file, its copy and the file agree up to safe lines, so writing back
the retained half loses only the archived half. `ArchiveInOrder`: once the file
may be replaced, the archived half is in a listed segment. `GuardHeld`: the
steps that use the manifest own the guard, so `listed` did not move since the
segment was numbered. `MemoryFollowsDisk` is inductive with the types alone:
every step that writes the file either takes its lines from memory, is a pass
that will reload, or is a write that failed.

`FollowsChronicle` needs beside `LossInv` only `AllRecorded`: what is on disk,
archived or held by a pass was saved. `LossInv` decides which concrete step is which
abstract one. The manifest's write is the listing: the segment before it is in no
one's archive, and the replacement of the file after it changes nothing Chronicle
sees, because the archived half is already safe (`ArchiveInOrder`) and the rest of
the file agrees with the pass's copy (`PassKnowsDisk`, `DiskHoldsSnap`). A reload
too changes nothing, and neither does a crash, except that no pass is working
after it.

`LocksNeverCross` states `NoCircularWait`, the safety half of `PassesEnd`: who holds
the engine lock or the guard is a task with lines left to append or a pass that
still runs, and a pass that holds the guard while it waits for the lock waits for
a task, which waits for nothing. That the manual pass takes the lock first and the
others the guard first is harmless only because the manual pass tries the guard
and gives both back together; `LocksOwned` says so, and needs `GuardHeld` to know
that a guard that ends is the pass's own.

`NothingComesBack` rests on `ReturnInv`. A line is a new identity, so it can only
come back from a copy: memory, the file, the transcript a pass will write back, or
the lines of a reply that wait under the engine lock. `Created` and `RepliesWait`
say that lines are numbered when made and that waiting ones are in no transcript
yet; `NoneReturns` that no line taken out is in any of the copies, unless it is
exposed. A failed write leaves a taken-out line on disk, hence the premise.

`ArchivedIsRemembered` assumes that passes are inline or the tick's, that clients
do not rewrite and that the daemon does not crash: with any of the three the code
does archive unseen turns without one of the exempted reasons (see above), so the
theorem says exactly where the count can be trusted. `RememberInv` is the argument. The code compares numbers of
turns, the property is about lines; `Within(k, s, K)` connects them: transcript `s`
has at least `k` turns, and if it has no more, they are all in `K`. Transcripts
only grow at the end while nobody rewrites, so a count once true stays true, until
a pass replaces the file. `CountIsTrue` says it of the covered count, `WillNote` of
the counts that passes have yet to note, `ReadStays` of what a pass read against
memory and file now. `Settled` lines are those in the memory files whatever a
running pass rolls back, and those exempt: a pass consolidates what it was sent, and
the turns it read and was not sent become `unread` with its first write; `PurgesSettled` then says that an archive without a model
takes only such lines. `LeavesFew` bounds what a pass leaves by `KeepTurns`, so
that two counts of full passes never contradict each other. The lemmas on
`TurnCount` of a longer, cut or split transcript (`TurnsOfAppend`, `TurnsOfSuffix`,
`TrailingAreNoTurns`, `SplitLeaves`) are stated apart.

**SyncProofs**, from sizes being numbers and `NoFrame` being no frame:
`FollowsFeed`, that every behaviour of Sync is one of Feed. `FeedInv` says why.
`Known`: what a client, a channel or the ring holds of a character is a version
the daemon had. `Blank`: a client that is not registered has nothing, and a
character without an engine has sent nothing. `Ahead` and `Ordered` speak of
characters whose changes are all saved and that had one engine in this run: no
frame is ahead of the engine, and the revision, by which `SyncState` decides,
orders the versions of what is shown and what is on its way. That is what makes
an accepted History a step forward; with a second engine it fails, which is
why Feed asks no order of such characters.

**SyncSafetyProofs** extends it: `SyncTypeCorrect`, `ClientsShowWhatIsSaved`,
`NoMessageShadowed`. Of `SafeInv`, `Engines` and `Frames` let a frame tell its age
from its revision: one that holds what is saved has at least the engine's
revision, and two frames of an engine are ordered alike by revision and by
version. `Coming` is the heart: what is saved of the character a client follows is
shown, on its way (in the handshake, the direct channel, the ring, or still to be
pushed), lost to lag, or behind a watermark another engine raised. `Raised` says
that the message watermark separates what the handshake has shown from what it
has not. `ViewsOf` and `RaisedOf` state two of the parts for one client, since a
step that concerns one leaves the others' as they are.

**SessionsProofs**, from sizes being numbers: `TypesHold`,
`RunningStaysReachable`, `EndStaysFinal`. The last two need `SessionsInv`: a
request waits in one place, a loop or the route (`Once`), and has no task while it
waits (`Asked`); a request without a task has sent nothing, and a handle names a task
of its session (`Started`); what the handler sends itself is for a request without a
task, or the frame of a cancel that took the handle for good (`Answers`). `Spent(r, a)`
says that neither task nor handler will make a frame of request r that may not follow
one of kind a. `FanOrder`: the frames in a forwarder's channel are in order and
spent. `DirectOrder`: for each frame in a session's channel, whatever of its request
can still reach that session may follow it, in the forwarder or with the handler
(`Past`). A cancel takes the handle, which no later launch gives back to that task:
so there is only one such frame, and none while a second could be made.

**AutonomyProofs**, from the clocks' settings being numbers and the cadence a
function of the model: `TypesHold`, `BeatsStayBounded`, `PingsAlwaysStop`,
`PingsAreNeeded`, `LatencyAlwaysKept`. Besides types: `Counted` (heartbeats since
the user was last there exceed neither the clock's counter, nor its copy on
file, nor the limit: the copy too, because a tick is saved before it runs),
`Windowed` (a ping is decided on and sent within the idle window after the last
real call), `Armed` (a ping deadline is an interval after the last call that
warmed the cache, unless a ping failed), and `Patient` (every wake time, the one
on file included, is late enough for the last message the daemon, or its file,
knows of).
`LatencyAlwaysKept` assumes what the code's defaults have and its validation
does not ask: the clamp's lower bound and the default interval are not below
the minimum latency.

**CallsProofs**, from limits being numbers: `TypesHold`, `StreamsAreRecorded`,
`SpendIsBounded`, `CleanStreamsAreFollowed`. `Reserved` is the argument for the
budget: what is spent by gated callers plus a call's maximal price for each call
admitted and not yet charged stays below the bound, because a call is admitted
only under the limit. `InStep` relates the stage of a generation to what the
reader has seen.

**UpkeepProofs**, from what `CompactionConfig::validate` checks:
`TypesHold`, with `Counted` (counts stay within the messages there were, and a
pass that keeps turns has read more than it keeps: this is where the validated
thresholds and the split's check are needed); `FlagStaysOwned`, which is
inductive under the types: one case per way out of a pass; `EditsAreActivated`, from
`Copied` (what a running refresh has copied is what the workspace holds, or was
written or blanked since; a seed copies what the workspace holds, whenever it looked).

**DaemonProofs**, from sizes and limits being numbers: `TypesHold`,
`CopiesStayInStep`, `SettledStaysCurrent`, `NoChildIsLeftBehind`,
`GivesUpOnlyInARow`. Settled is not inductive: `Noted` says that an edit the
watcher saw and nobody has read waits in some stage between the event and the
handler, and `Applied` that copies made since the last edit are of it; together
they leave nothing stale once all stages are empty. `Unwatched` carries the edits
missed before the watcher ran; an edit without an event, or whose event is lost
(`LossKeeps`), counts as missed. For the supervisors, `Count` ties the counter to
the history of failures: so many since a stable run, which ended with the first.

## Not modelled

- Contents of messages and memory files: a line is its identity and role, an edit
  makes another line. Prompt texts, dry runs, path filters, the librarian's and
  the heartbeat's tool loops. Selecting stored alternatives.
- Conversation lets a pass start whenever its own conditions hold; when it does is
  Upkeep's. A manifest that does not parse stops the character from loading:
  `torn` disables restarts from then on.
- Sync: two engine instances for one file at a time; the wire between a server
  loop and its client (`read_message` may be dropped half-way through a line by
  the select around it); address resolution and back-off; registry and engine
  locks are taken together.
- Sessions: a generation's effects on the transcript are Conversation's.
- PromptFiles: copying or writing a file is one step.
- Autonomy: the tool loop's time budget; failing writes of the state file.
- Calls: retry loops of background callers that ask for more than one answer;
  warnings, spikes and prices; a `max_tool_iterations` of zero (no limit).
- Upkeep: a restart (Autonomy has it), dreams on command (which nothing keeps
  apart from a scheduled one), the growth of the retry delay, a tick without its
  dependencies (tests only), `archive_after` of zero.
- HotReload: the many files are read in one step, discovery apart; running ticks
  keep the configuration they began with (as documented); the Histories a reload
  pushes are Sync's. Supervisor: how long a back-off or a grace period is.
- The activity tracker, the cache tracker, the call store, the
  sidecar, MCP, tools, preferences, the provider catalogue, the command line,
  configuration and protocol types: conversions, queries or I/O, see
  `PROJECT.json`.

## Plan

1. Conversation, Sync with Feed, Sessions, Autonomy, Calls, Upkeep with
   PromptFiles, Daemon with HotReload and Supervisor, and the proofs above. Done.
2. Chronicle, an abstract conversation that Conversation implements, proved from
   `LossInv`. Done.
3. Two instances of Autonomy's tick over one state file, for the race of
   `ensure_state_with_config`.
4. Selecting alternatives, composed with Transcript.
