# Superserve in TLA+

Superserve runs sandboxes: small virtual machines that execute commands, are
paused when idle and resumed on demand. This repository holds what stands in
front of that platform: the TypeScript and Python SDKs, a CLI, an MCP server and
a web console. The platform itself (control plane, data plane, image builder)
is not here; the clients only meet it through HTTP, event streams and
WebSockets.

This directory models the parts of the repository where concurrency, lost
answers and timeouts meet state: the SDKs, and of the console its web terminal,
its query cache and the making of teams. Every definition is translated from the
code and `PROJECT.json` (`map`) names its lines; what the platform, the database
and the browser do is read off the code that uses them and marked external.

Contents: [inventory](#1-inventory) ·
[modules and code](#2-modules-and-the-code-they-stand-for) ·
[runs](#3-runs) · [fairness](#4-fairness) · [proofs](#5-proofs) ·
[disagreements](#6-where-the-code-and-its-documentation-disagree) ·
[limits](#7-what-is-not-modelled) · [plan](#8-plan)

## 1. Inventory

Paths are relative to `src/`. Components are those of `PROJECT.json`.

### Sandbox instance, TypeScript (`packages/sdk/src/Sandbox.ts`, `tokenRetry.ts`)

- *State.* `_accessToken`, the only credential of the data plane, and
  `_refreshInFlight`, the promise of the `POST /activate` that is out.
- *Operations.* Commands and file operations run through `withTokenRetry`: send
  with the cached token; on 401/403 or 503, activate and send once more.
  `resume()` posts `/resume`; `pause()` and `kill()` send one request.
- *Interactions.* All calls on one instance share the token and the promise. The
  platform rotates the token on every activate and resume, whoever asks for it,
  and gives a paused sandbox to one claimant (the others get 409).
- *Hard.* Calls refused together; a refusal that arrives after the refresh it
  calls for; answers that overtake each other; other clients that rotate the
  token; requests that time out after they were carried out.
- *Correct when* one activate is out at a time and no call loses a claim to
  another of the same instance; every call that waits gets the result of the
  activate it joined; an operation is carried out at most once; the cached token
  does not go back; every call settles.

### Sandbox instance, Python (`packages/python-sdk/src/superserve/sandbox.py`, `_token_retry.py`, `async_sandbox.py`)

- *State.* `_access_token`, `_refresh_lock`, `_closed` and the shared HTTP client.
- *Operations.* As above, but refreshes are serialised by a lock, not coalesced,
  and `kill()` closes the client that other threads are using.
- *Hard.* The lock under exceptions; a client closed under a request; two kills;
  a kill that fails.
- *Correct when* the lock is held exactly while an activate is out; no thread
  loses a claim to another; no thread waits for ever; a kill that succeeds has
  deleted the sandbox, and none fails of its being gone.

### HTTP client (`packages/sdk/src/http.ts`, `packages/python-sdk/src/superserve/_http.py`)

- *State.* Per call: the attempt, its deadline, the caller's signal.
- *Operations.* Attempts with backoff for GET and DELETE on 429/502/503/504 and
  on network errors; one attempt for POST and PATCH; reading the body.
- *Hard.* A request whose answer is lost was perhaps carried out; a deadline or
  a signal can fire in any stage (fetch, drain, backoff, body), and each stage
  treats it differently; TypeScript reads the body after the attempt, Python
  within it.
- *Correct when* a POST is carried out at most once; a repeated DELETE that finds
  nothing is a success; retries are neither too few nor too many; nothing is
  sent under a fired signal; every call ends.

### Streamed commands (`packages/sdk/src/commands.ts`, `packages/python-sdk/src/superserve/commands.py`)

- *State.* Per request: the output so far, `sawFinished`, the idle timer.
- *Operations.* `run()` with callbacks: an event stream under the token retry.
- *Hard.* A stream that breaks in the middle; a callback that throws; a retry of
  something that has produced output already; a silent server.
- *Correct when* a result is complete and of a command that finished; no piece of
  output is delivered twice; every run ends.

### Command sessions (`packages/sdk/src/commandSession.ts`, `packages/python-sdk/src/superserve/command_session.py`)

- *State.* A WebSocket, one decoder per channel, the text so far, the result
  promise or future; in Python a reader task and the stdin lock.
- *Operations.* Dial (with one resume), `stdin.write`, `stdin.close`, `kill`,
  `close`, `wait`, the signal.
- *Hard.* Characters cut by frame boundaries; concurrent writes of several
  frames; a signal during the dial; `close()` against a reader in any state; a
  cancelled `wait()`; a lost connection; a callback that raises.
- *Correct when* the result holds all the output; stdin arrives in order and
  whole; whoever ends a session has signalled its process; nothing leaks; `wait()`
  is always settled.

### Template builds (`packages/sdk/src/Template.ts`, `packages/python-sdk/src/superserve/template.py`, `async_template.py`)

- *State.* `latestBuildId`, captured at construction; per wait: the build it
  waits for, its log stream, its signal.
- *Operations.* `rebuild`, `cancelBuild`, `delete`, `waitUntilReady`: look up the
  build, poll its row, stream its log beside the poll (before it in synchronous
  Python).
- *Hard.* The builder is ahead of the database; the build is rebuilt, cancelled
  or deleted during the wait; the log stream outlives the poll.
- *Correct when* a wait reports what the database says of its build; it waits for
  the current build; no log event follows its return; it ends when its build does.

### Web terminal (`apps/console/src/components/sandboxes/terminal.tsx`, `lib/terminal-tabs-storage.ts`, `hooks/use-terminal-tabs.ts`)

- *State.* Refs that outlive the component's effect (the socket, the reconnect
  timer, the attempts, whether it is mounted), the status the user sees, what is
  on the screen. In localStorage a pool of saved screens under an index; in
  memory the tombstones of the tabs closed in this page.
- *Operations.* Connect, reconnect after an abnormal close, hang up, restore the
  screen and save it; close a tab with its button or with the keyboard, leave the
  page, reload it; save under a bound and a quota, evict, remove.
- *Interactions.* A new access token runs the effect again: closures of the old
  run (socket handlers, the timer, the restore's callback) meet the refs of the
  new one. All tabs share the pool.
- *Hard.* Events of superseded sockets; a timer or a restore of an earlier run; a
  screen saved while it is being restored; the save of a tab that was just
  removed; a write over quota between two writes.
- *Correct when* a tab has one line at most, of its current token; the status
  tells the truth; a closed screen is gone and a kept one comes back; the pool
  keeps its bound; reconnects come to an end.

### Query cache and optimistic updates (`apps/console/src/hooks/use-sandboxes.ts`, `use-templates.ts`, `use-secrets.ts`, `use-api-keys.ts`)

- *State.* A list in TanStack Query's cache (data, invalidated, failed), the
  fetch in flight, and each mutation's snapshot.
- *Operations.* Create, delete, bulk delete, pause, resume: patch the list, send,
  on failure restore the snapshot, at the end have the list fetched again. Polls
  and the window's focus fetch it too.
- *Hard.* Mutations overlap: a rollback restores a snapshot that is older than
  another's patch; a fetch is answered before a change and arrives after it; a
  created row is put on a list that may have it already; a bulk delete fails with
  deletes still out; answers are lost.
- *Correct when* the list agrees with the database once nothing is under way, each
  row once, and a polled one always gets there.

### Team provisioning (`apps/console/src/lib/api/team-provisioning.ts`, `team-directory.ts`, `lib/auth/google-signup-proof.ts`)

- *State.* Rows of four tables in the databases of all cells; per server process
  a cache of the user's directory with the promise of the read under way; in the
  browser the cookies of a Google sign-up.
- *Operations.* Three ways in (`createTeamAction`, `getTeamForUser`,
  `getOrCreateTeamForUser`): look for a team, check the proof, write four rows,
  unwind them if a write fails, consume the proof, forget the cached directory.
- *Interactions.* Requests of one user join each other's reads of the directory;
  each makes a team of its own.
- *Hard.* Nothing makes the writes atomic, and the unwinding can fail; a read that
  began before a team was made ends after it was returned; a degraded cell looks
  like one without teams; a proof expires or is consumed between two steps.
- *Correct when* a team that was returned is whole and any other is unwound but
  for what an accident left; a Google user gets his first team for a proof only;
  no cached directory misses a team that was returned.

### Not modelled

| component | state and behaviour | why not |
|---|---|---|
| MCP server (`packages/mcp/src`) | none between calls; every tool call activates its sandbox and uses the token it gets | its calls are those of the SDK: `SandboxHandle` has them as the other client that rotates the token |
| CLI (`packages/cli/src`) | a credentials file; the polling of the device flow | one process and one request at a time; a loop that ends at a deadline |
| API proxy, impersonation, administration (`apps/console/src/app/api`, `lib/admin`) | checks within one request | decisions; the team `proxy-auth.ts` remembers for a minute is in the plan |
| The rest (secrets, providers, preview URLs, configuration, billing, dashboards, UI, examples) | single requests, conversions, presentation | - |

## 2. Modules and the code they stand for

| module | models | state ↔ code |
|---|---|---|
| `SandboxServer` | external: pause, resume claim, token rotation, delete of one sandbox | `gen` is the generation of the only valid token |
| `SandboxHandle` | the TypeScript instance and `withTokenRetry` | `accessToken`, `refreshInFlight` (the call whose promise it is), `join` (the promise a call awaits) |
| `SingleFlight` | abstract: what coalescing promises | a flight, who is aboard, what each got |
| `PySandboxHandle` | the Python instance | `refreshLock`, `closed` |
| `HttpRetry` | `retryableFetch`, `request`; `_do_request_with_retry`, `download_bytes` | `pc` is the stage of a call, `net` the requests still on their way |
| `ExecStream` | `streamSSE` under `_consumeStream` under `withTokenRetry`, both SDKs | `sent` is what the server wrote, `out`/`err`/`finished` the locals of `_consumeStream` |
| `ExecWire` | external: process, WebSocket, frames; the decoders' arithmetic | every rune is two bytes, every frame one |
| `SessionText` | decoders, text and result of a session of either SDK | `text`, `held` (the half rune in a decoder), `heard` (what the callbacks got), `result` |
| `CommandSession` | `spawn()` in TypeScript: dial and `Session` | `dial`, `readyState`, `listening`; `written` counts the bytes given to `stdin.write()` |
| `PyCommandSession` | `AsyncCommandSession` | `reader` (the task), `lock`, `pc` of the tasks that call it |
| `TemplateBuild` | `waitUntilReady` of all three clients | `builder` and `row` are what vmd and the database know of each build |
| `TerminalBuffers` | the pool of saved screens | `index`, `store` (localStorage), `tombstonedKeys` |
| `WebTerminal` | one tab of the terminal, beside others that save | the refs under their names; `run` numbers the runs of the effect, and sockets, timer and restores remember theirs; `socket` is what the browser knows of each |
| `QueryCache` | one list and its mutations | `data` (what the list says of each row, `twice` if it has it twice), `invalid`, `failed` are the query's state, `fetch`/`answer` its request, `server` the database |
| `TeamDirectory` | the cached directory of a user's teams | `entry` and `promise` are `directoryCache`, `fetch` the fan-out over the cells |
| `TeamProvisioning` | the requests that make a team | `rows` are the four tables, `jar` the browser's cookies, `pc` the await a request is at |

`SandboxHandle` and `PySandboxHandle` compose a client with `SandboxServer`;
`CommandSession` and `PyCommandSession` compose one with `ExecWire` and `SessionText`;
`WebTerminal` composes tabs with `TerminalBuffers` and `TeamProvisioning` requests
with `TeamDirectory`.
`MC<module>` instantiates a module for TLC, `<module>Proofs` holds its theorems;
`HttpProofs` those of `HttpRetry` and `ExecStream`, `CommandSessionProofs` those of
both sessions. Where two modules are proved about together, the names of one carry
a prefix (`Stream...`, `Py...`).

*Granularity.* JavaScript and asyncio code runs undisturbed from one await to
the next, so such a stretch is one action. Threads (`PySandboxHandle`) only meet
in the lock, the token and `closed`; a step ends at each of them and at each
request. A request is the sending, the server's step and the receipt, so that
answers overtake each other and arrive after the caller gave up. In the console
a React effect with its cleanup, a socket's handler and a handler of a mutation
are such stretches, and in the server the code between two calls of a database.

*Abstractions.* Tokens are generations; statuses that the code treats alike are
one value (`busy` is 429 and 503, `gateway` 502 and 504); texts, URLs, headers
and the lengths of delays are left out; text is a sequence of runes, each with
its channel and number, what is on a terminal a set of things written, a row of a
list its status. A data-plane 403 is treated as the 401 it is handled
with. kill() is the `DELETE` of `HttpRetry`; the instance's own state does not
change with it in TypeScript.

Operators commented as `Mutant:` are plausible mistakes (a lock that is not
taken, a retry too many). No specification uses them: each is put in the place
of the definition after it to see that a property notices.

## 3. Runs

Each passing run explores its whole state space; bounds are constants of the
module, never state constraints. Sizes are distinct states.

| run | states | what it asks |
|---|---|---|
| `handle` | 434 574 | Two operations against `resume()` of one instance. `NoSelfConflict`: no call loses a claim to another. `AtMostOnce`: no operation runs twice. `SomeoneGetsThrough`: calls can refuse each other by rotating the token, but never all of them. `TokenNeverRegresses`. `Coalesces`: the instance implements `SingleFlight`. `CallsSettle`. |
| `py_handle` | 184 616 | Any three of two operations, a `resume()` and two `kill()`. `NoSelfConflict`, `KillMeansGone`, `ThreadsEnd`. |
| `http_retry` | 257 736 | Any two of a command and a `kill()` in TypeScript and a read in Python. `PostOnce`, `KillReportsGone`, `RetriesExhausted`, `NothingSentAfterAbort`, `CallSettles`. |
| `exec_stream` | 19 950 | One streamed command of either SDK. `OutputComplete`, `NoDoubleEmit`, `RunEnds`. |
| `session` | 686 107 | One TypeScript session with a write and `stdin.close()`. `SessionHonest`: a result is complete, and only a session that was broken off goes without one. `StdinExact`, `AbortKills`, `Settles`. |
| `py_session` | 1 056 132 | Any three of two writes of two chunks each, a `stdin.close()` or a `kill()`, a `wait()` and a `close()`. `ResultHonest`, `CloseCleans`, `ChunksContiguous`, `NeverHangs`. |
| `template_wait` | 76 728 | A wait of a TypeScript or synchronous Python handle. `ReportsItsRow`, `NoLogAfterReturn`, `WaitEnds`. |
| `terminal` | 482 874 | One tab whose line breaks, whose token changes, which is closed, left and reloaded, beside another. `OneLine`, `CurrentLine`, `StatusHonest`, `ClosedIsGone`, `UncutContextKept`, `PoolBounded`, `RetriesEnd`. |
| `query_cache` | 474 036 | Two overlapping mutations of any of the four lists. `CacheAgrees`, `PolledConverges`. |
| `provisioning` | 976 409 | Two requests of one user over two cells. `OwnedOrNothing`, `FirstTeamForProof`, `DirectoryHasTeam`. |
| `handle_auto_resume`, `template_current` | - | What the documentation says and the code does not do: section 6. |

`CHECK_DEADLOCK FALSE` throughout: calls, mutations and requests are finite in
number and tabs are closed, so every system stops. That nobody stops earlier is
what the liveness properties say.

*The bounds, and why they are enough.*

- Callers. Two operations are the fewest in which one leads an activate and the
  other joins it or arrives late with an activate of its own; a `resume()` beside
  them is a third that rotates. Two upsets (pauses, foreign rotations or faults)
  are as many as such calls have requests to be upset twice: a call makes at most
  two on the data plane. Where a run says "any three of" (`MaxThreads`,
  `MaxTasks`) or "any two of" (`MaxCalls`), TLC chooses which callers act: pairs
  and triples of different operations are all covered, in one state space. In
  `HttpRetry` calls only share the sandbox a kill() removes, so two are one more
  than a property relates.
- Attempts of the HTTP client are the code's own three.
- Two builds: the one a handle knows and a newer one. One wait per run, as waits
  share nothing but the platform.
- Four bytes of output in TypeScript (two in Python, with three tasks beside it)
  make two runes on one channel or one on each, cut at every place. A write of
  five bytes in chunks of two has a last chunk that is not full, one of four is a
  multiple of the chunk, and `stdin.close()` comes before or after either; two
  chunks in Python are what a second writer, or the end of stdin, can come between.
  There one task ends stdin or kills, so that with two writers it does either.
- Three events of a streamed command, each any set of output, error output and
  end: every pair of fields in one event and in two.
- Two tabs in a pool of one entry: each save of one evicts the other. Two tokens
  in one life of the component, so that a closure of the first meets the refs of
  the second; one retry in a row is the limit of retries and one below; one
  write refused for quota. The line may break any number of times.
- Two mutations over two rows and one that is created: one may roll back over the
  other, on the same row or another. One trouble (a failure, a lost answer, a
  change made elsewhere) is what a rollback needs.
- Two requests and two cells: a directory read by one is joined by the other, and
  one cell can be degraded while the other answers. Two troubles: a write fails
  and so does its unwinding. Requests are symmetric, and so are the invariants;
  the run has no liveness property.

## 4. Fairness

Fairness is given to the client's own steps: its event loop or threads run what
is ready, and its timers fire. Of the platform the specifications assume as
little as their liveness needs:

- `SandboxHandle`, `PySandboxHandle` (`FairSpec`): every request is answered. In
  the code it has a timeout, and a fault has the effect of one. Nobody has to
  make a call, pause or fail. The Python lock is weakly fair only: every thread
  takes it once, so none can be overtaken for ever.
- `HttpRetry`: `ClientSpec` assumes nothing of the server; deadlines end what it
  does not answer. `ServedSpec` adds that bodies which TypeScript has begun to
  read end: no timer covers them (section 6), and without the assumption a call
  whose body stalls does not settle. For Python it is the client's timer that
  ends them; httpx times each silence, so the body that trickles without end is
  left out.
- `ExecStream` (`ClientSpec`): client and idle timer only. The command may write
  no more and the server may never answer. A stream has at most `MaxEvents`
  events: a command that writes for ever keeps its run going, as it should.
- `CommandSession`, `PyCommandSession`: dials end, tasks and events run, and a
  close handshake is answered or given up (both WebSocket libraries have a timer
  for it). No process has to end, and in Python no writer has to go on.
- `TemplateBuild`: requests are answered or fail; an aborted stream settles; a
  stream whose build is over ends (its server ends it, or its idle timer does).
  No build has to end.
- `WebTerminal`: a dial ends, open or closed; the close of a socket that was
  given up, or that failed, is delivered; the reconnect timer fires; xterm parses
  what it was given. No line has to break, and the user has to do nothing.
- `QueryCache`: requests are answered or fail, handlers of promises run, and a
  polled list is polled (`refetchInterval`). Nobody has to focus the window.
- `TeamProvisioning`: none. What it promises is safety; a server may stop.

## 5. Proofs

`tlapm` checks eight modules, for any sets of callers and any bounds:
`SandboxHandleProofs` (996 obligations), `PySandboxHandleProofs` (394),
`HttpProofs` (645), `TemplateBuildProofs` (181), `CommandSessionProofs`
(3337), `WebTerminalProofs` (1012), `QueryCacheProofs` (464) and
`TeamProvisioningProofs` (979). Every safety invariant and every action property
that a passing run checks is stated by a theorem. Their assumptions are the
modules' own (the sets of callers are disjoint, bounds are naturals, names for
nothing are different from something), and one theorem, `AlwaysNoDoubleEmit`, has
a hypothesis of its own. Most of the properties are not inductive as they
stand; what has to be added is what a state says of the past that led to it.

**SandboxHandleProofs.** The invariants are stacked, each proved from those
below it:

1. `TypeInv`: types, and a call in state `refresh` has joined a call.
2. `FlightInv`: `SingleActivation`; a call that is idle or in its first attempt
   has posted nothing, so that its post cannot be one that is already out; and
   `resume()` has no other states than its own.
3. `ClaimInv`, as long as there is no `resume()`, no other client and no fault:
   a resume under way is claimed by an operation whose post is `claimed`, and no
   post was answered 409. With 2 nobody else can post: `NoSelfConflict`.
4. `RunInv`: an operation runs at most once, and one that ran is over or about
   to be told so by an answer that is not retried: `AtMostOnce`.
5. `TokenInv`: no token is newer than the server's; without `resume()`, the token
   an answered activate brings is at least as new as the cached one:
   `TokenNeverRegresses`.
6. `PromiseInv`, for an undisturbed sandbox: once the token has been rotated, some
   operation is promised the newest generation: it awaits the activate that
   brings it, retries with it, or has succeeded (`Promised`). Whoever rotates the
   token again is promised the one it gets, because the leader of a flight awaits
   it itself (`LeaderAwaits`), and what a calm server answers to it is no failure
   (`CalmAnswers`): `SomeoneGetsThrough`.
7. `BoardInv`: a call joins only after it was refused, and what it joined is
   `_refreshInFlight` or has landed. With it, initial states map to initial
   states of `SingleFlight` and every step to a step of it or a stutter:
   `ImplementsSingleFlight`, which is `Spec => Coalesces`.

**PySandboxHandleProofs.** `LockedWhileRotating` is inductive over the types.
`ClaimInv`, for threads of operations only, with no fault and no closed client,
says that a resume under way is the claim of a thread that waits for its answer,
and so, with the lock, of the only one that rotates: `NoSelfConflict`. `KillInv`
says that a `DELETE` answered `ok` or `404` has left no sandbox, which
`DeletedForGood` keeps so (nothing revives one). `ClosedInv` says why the client
is closed: a kill() was answered or met a fault, and the sandbox is gone or a
kill() has failed. `CauseInv` says of every answer a kill() has, and of how it
ended, what it comes of; the causes last (`CausesLast`), as faults are counted,
calls stay made and a thread that ended has ended: `KillMeansGone`.

**HttpProofs, the client.** The inductive invariant is `TypeOK` and, per call,
`Attempts` (how many requests a stage implies), `Answered` (in the body an answer
is in), `Posted` (a POST is on its way or has been carried out, never both),
`Deleted` (a `DELETE` that was answered `ok` or `404` has left no sandbox) and
`Exhausted` (results that only the last attempt gives). A step of one call leaves
the others' parts alone (`Frame`) and keeps its own (`OwnStep`), except that the
server may take the sandbox away, which `Deleted` survives. From it: `PostOnce`,
`KillReportsGone`, `RetriesExhausted`, and the action property
`NothingSentAfterAbort`.

**HttpProofs, the streams.** `Kept(kept, field, evs, n, bad)` says that `kept` is
what has been kept of one field of the first `n` events: all but those in `bad`,
in order. `KeptGrows` says what handling one event more makes of it, be it kept,
without the field, or one upon which a callback threw; `KeptOfMore` that what is
written meanwhile changes nothing.
`StreamInv` holds it of `out` and `err`, with the read so far no longer than what
was sent: `OutputComplete`, which is the same in both SDKs and needs no
hypothesis. `NoDoubleEmit` needs to know that while a request may yet be repeated
no command has been started and no callback called (`EmitInv`): true as long as no
Python callback throws an error that the token retry takes for a refusal of the
request. Without the hypothesis the theorem is false, and TLC finds the
execution: section 6. TypeScript callbacks may throw anything.

**TemplateBuildProofs.** The platform only adds builds and never changes a
terminal row (`ServerStep`: `Grows`). `WaitOK` says of one wait that its outcome
is set only on its way out, that a wait which fetches the template after its
build was ready has a ready row, and that a wait which returned has a settled
stream. What a wait has read of a terminal row stays true whatever others do
(`Undisturbed`). From it: `ReportsItsRow` and the action property
`NoLogAfterReturn`.

**CommandSessionProofs, the wire.** Both SDKs stand on what is on its way.
`OnItsWay`: the start frame is the first or has been served, a close frame means
that the socket is no longer open, a finished frame that the process has exited.
`Dying`: the process is killed or has exited, or a SIGTERM is on its way with no
close frame before it (`KillAhead`). Each way a client sends a frame keeps these
(`ClientSends`, `FramesSent`, `SocketClosed`), and so does the server that takes
one (`WireStep`).

**CommandSessionProofs, the text.** `Listening`, while the result is pending: the
text so far is the runes of the bytes heard, with the half rune of an odd one in
the decoder, and the frames on their way carry the bytes that follow, one after
the other whatever the frames of the other channel do (`Coming`); all of them up
to the last one written unless the connection was lost (`AllComing`). A finished
event is the last frame (`FinishIsLast`), so a result is complete. `NextByte`,
`ByteDecoded` and `TextFlushed` are the arithmetic of the decoders. The same
`TextInv` serves both SDKs. That a result is not withheld either: as long as
nobody has broken the session off, the socket is open or the process has exited,
and then its finished event is in front of the end of the socket
(`FinishAwaited`), so neither SDK mistakes that end for a lost connection:
`SessionHonest`, `ResultHonest`.

**CommandSessionProofs, TypeScript.** `ClosedBehindKill`: a socket that is not
open and was not lost leaves a process that is `Dying`, the signal is only
listened to on an open session, and during the dial nothing is sent: `AbortKills`.
`StdinExact` is proved with `GivenInv`, which says of what was given and what is
on its way, as one sequence, that each stdin frame ends at most a chunk behind the
one before it, that an end of stdin is where the last one ended, and that while
the socket is open the last one ends where the writes end (`WriteSent`: one write
appends frames that go from its first byte to its last).

**CommandSessionProofs, Python.** `EndingKills`: once anybody has begun to end the
session, the process is `Dying`. `NothingLeft`: a reader that leaves the loop has
closed the socket, one that was cancelled has a closer that will: `CloseCleans`.
For `ChunksContiguous`, `Continues` says that each chunk on its way follows the
chunk before it, be that on its way too or the last one served, and
`OneWriteAtATime` that who is about to send one holds the lock and has sent the
last.

**WebTerminalProofs.** `OneLine` and `StatusHonest` are proved together from the
types: `ConnectLine` says once what connecting does to the line, for all the
actions that connect. `CurrentInv` extends `CurrentLine` to sockets in any state,
for the close of one sets the timer. `ClosedInv`: as long as a save of the closed
tab may still come, its key is among the tombstones. `ContextInv` says where what
the user has seen is while the terminal restores (on the screen or given to it)
and while there is none (in the store): `UncutContextKept`. `PoolInv`: no key is
twice in the index, and the screens without an entry, as the entries without a
screen, are finitely many and no more than the refused writes. `Removed`,
`Renewed` and `WithoutOne` say what the operations on the index do to its length
and its set of keys, and a refused write leaves one of either kind at most
(`OneEvicted`: it makes room for one entry, and for none when its key has one):
`PoolBounded`, for infinitely many keys too.

**QueryCacheProofs.** `Agreement`: while no mutation is under way that will have
the list fetched, a settled list, and any answer on its way, know every row that
is not `unseen` and that nobody is creating; of a list of API keys, a row the
database has may be there twice (`KeyListedTwice`). A rollback or a patch can only
happen while such a mutation is under way, and its end drops the answers that
are older than it (`InvalidateQueries`). `Order` and `Loaded` say which request
may still be answered and which snapshots exist. From it: `CacheAgrees`.

**TeamProvisioningProofs.** `Progress` says what is written of a team at each
point of its request, and what is left at each point of the unwinding:
`OwnedOrNothing`. `Cached` says that a directory in the cache, and every fan-out
that will become one, tells of each team that was returned, or still has to read
its cell, or is degraded (`Tells`): `DirectoryHasTeam`. `Entitled` follows the
right to a team through the reads: a cookie that is valid, a member, or a lookup
that has found a team: `FirstTeamForProof`.

*Only model-checked:* the liveness properties (`CallsSettle`, `ThreadsEnd`,
`CallSettles`, `RunEnds`, `Settles`, `NeverHangs`, `WaitEnds`, `RetriesEnd`,
`PolledConverges`), as fairness and `ENABLED` are out of the prover's reach, and
the two properties that TLC refutes (section 6). Type invariants are theorems
(`TypeCorrect` and the like) where they say something; they are not among the
properties the runs list.

## 6. Where the code and its documentation disagree

Two disagreements have a run that exhibits them (`findings`):

- `handle_auto_resume`: "a command/file op auto-resumes a paused sandbox"
  (`tokenRetry.ts:8-9`). Two operations on a paused sandbox are refused; the
  first activates; the refusal of the second arrives after that activate has
  settled, so it activates again and rotates away the token that the first one's
  only retry carries. The first fails with an authentication error although the
  sandbox runs.
- `template_current`: "Block until the current build reaches a terminal status"
  (`docs/sdk-reference/template.mdx:157`), but a handle that has rebuilt its
  template waits for the build it was created with.

Others were met while modelling. They are modelled as the code behaves, and the
properties say where they make an exception.

*SDKs*

- `Sandbox.ts:127`: an activate that settles after a later `resume()` caches the
  older token. `TokenNeverRegresses` is about executions without `resume()`.
- `_token_retry.py`, `sandbox.py:102`: Python has the race of
  `handle_auto_resume` more often, as every refused call rotates the token.
- `sandbox.py:440`: kill() is "Idempotent" (line 427), but one whose `DELETE`
  failed marks the handle closed all the same, and the next returns at once
  without deleting anything; and of two at once, the first to be answered closes
  the client that both share, and the `DELETE` of the other is broken off: it
  raises although the sandbox is gone. `KillMeansGone` names both exceptions
  (`KillLeavesNone`, `KillFailsOf`): a kill() that sent its request and returned
  has left no sandbox, and none fails of a 404.
- `http.ts:207`: the deadline is cleared when the headers are in, and a body that
  stalls is read for ever, although `TimeoutError` is "Request or command timed
  out" (`docs/errors.mdx:19`).
- `http.ts:281` and `:34`: `docs/errors.mdx:95-99` counts connection resets and
  500 among what GET and DELETE retry; in TypeScript a reset in the body is not
  retried, and 500 is in neither SDK. `RetriesExhausted` asks for resets in
  Python only.
- `Template.ts:274`: a lookup that fails is swallowed and the wait falls back to
  the template's own status, which an older ready build satisfies.
- `Template.ts:330`: the signal is not passed to the polls: an abort takes effect
  when the request in flight has been answered
  (`docs/sdk-reference/template.mdx:183`).
- `commandSession.ts:176`: the promise that removes the abort listener is
  derived from the result and rejects with it; nobody handles that one.
- `command_session.py:184`: a `wait()` that is cancelled (`asyncio.wait_for`)
  cancels the shared future. Other waits end as cancelled, and `kill()` and
  `close()` take the session for settled and send no SIGTERM; hence the
  condition in `CloseCleans`.
- `command_session.py:217`: an exception of a callback ends the session as if the
  connection had dropped; hence `raised` in `ResultHonest` and `CloseCleans`.
- `command_session.py:131`: a write to a socket that has closed raises the
  library's error, where a write to a settled session is a no-op.
- `http.ts:567`: an exception of a callback is taken for a malformed event, and
  the rest of the event is dropped, its `finished` flag included. `commands.py`
  lets it through, and if it is an authentication error or a 503 the command is
  run again (`Throws` leaves that one out of the run).
- `http.ts:544`: a stream that breaks after its finished event fails the run,
  although the result was complete.

*Terminal*

- `terminal.tsx:414`, `:500-512`: a reload or a new token that comes while the
  saved screen is still being restored saves what has been parsed so far, perhaps
  nothing, over it; "users keep their context across reloads"
  (`terminal-tabs-storage.ts:102-103`). Hence `cut` in `UncutContextKept`.
- `use-terminal-tabs.ts:185-188`: a tab closed with the keyboard leaves its screen
  in the pool, where nothing will ask for it again; the button removes it
  (`terminal-tabs-storage.ts:216-221`). `sidebar-user-menu.tsx:68-69`: signing out
  leaves all of them.
- `terminal-tabs-storage.ts:194-195`: a write refused for quota leaves the index
  entries of what was evicted for it or a screen without an entry; `:167`: a
  screen over the size cap leaves the older one in its place.
- `terminal-tabs-storage.ts:116-117` takes tab ids for unique; two windows restore
  the same ones, and a tombstone is of one window.
- A restore that calls back after its run has ended takes the line (`stray`).

*Query cache*

- `use-sandboxes.ts:150-152`: a bulk delete that fails is fetched again before the
  other deletes have ended; a polled list catches up, that of the API keys does
  not. `use-api-keys.ts:32-34`: a created key is prepended and nothing is fetched,
  so a fetch that began before takes it off again. Both are exceptions of
  `CacheAgrees` (`unseen`).
- `use-api-keys.ts:32-34`: the key is prepended whether or not the list has it. If
  the window's focus had the list fetched after the key was made and before its
  `POST` was answered, it is listed twice, until something fetches the list again.
  `CacheAgrees` excepts that one case by name (`KeyListedTwice`); without the
  exception TLC finds it. The list of secrets is prepended to in the same way, but
  then fetched.
- `use-sandboxes.ts:185-193`, `:227-235`, `:242-250`: the details of a row are
  patched under a key without the scope they are cached under (line 81, and the
  comment at 239-241): the patch is not seen.
- The invalidation of a create joins the first load instead of replacing it.

*Teams*

- `team-directory.ts:234-239`, `proxy-auth.ts:123-163`, `api-keys-actions.ts:98-106`:
  a user who did not sign up with Google and whose only team is in a cell that
  is degraded gets a second one, where the comment at `team-directory.ts:58-61`
  means to prevent it. Two first requests at once make two teams.
- `team-directory.ts:113-125`: `lastResult` may be of a read long past, not of a
  concurrent one.
- A team that is half made is listed by the rule for legacy rows, and after it was
  unwound stays in a cached directory for up to a minute; a team whose proof
  could not be consumed is complete, but reported as a failure; an insert of a
  team whose answer was lost leaves its row. `OwnedOrNothing` says which rows may
  be left. All caches are of one process: another's is stale for up to a minute.

*Not modelled, but seen:* `login.ts:40-46` stores an API key before it is
validated, and a failure removes the credentials that were there before;
`packages/mcp/src/client.ts:11-14` says that file operations do not retry on a
stale token, which they do.

## 7. What is not modelled

Inside the modelled components: the wording of errors, `Retry-After` and the
lengths of delays, byte caps, the parsing of event lines and JSON, the checks of
arguments, the forms of file contents, preview URLs. Operations that are one
request and change no state of the client (list, getInfo, update, secrets,
files) are the calls of `HttpRetry` under the operations of the handle modules.
`AsyncSandbox` is the Python instance with an asyncio lock: its interleavings are
among those of threads. The Python dial of a session is the TypeScript one.

Of a request that makes a team, the failure of `auth.getUser`
(`team-provisioning.ts:60-61`): it ends the request before any write, as the
failure of the first write does, which is modelled.

Of the terminal: keystrokes, resizing, fonts, search, clipboard, the order and
names of tabs. Of the query cache: the queries of a single row, preview ports,
rebuild and cancel of a build, mutations that only invalidate, pages and filters
(one stands for all). Of provisioning: the team `proxy-auth.ts` remembers for a
minute, the rest of a profile, several sign-ups at once, proofs without an
attempt, memberships that were revoked, and which team is the active one.

Outside: the components of the last table of section 1, with reasons in
`PROJECT.json`. Most of the repository's lines are presentation (pages, dialogs,
charts), types, generated data, examples and conversions without state; there is
nothing in them that a state machine would say better than the code does, which
is why the mapped lines, the control of the stateful parts, are a small share.

The platform is external. If it behaves otherwise than its clients expect (a
sandbox that answers 503 after it ran a command, an activate that does not
rotate), the properties say nothing.

## 8. Plan

Done: the modules of section 2, first those every operation of a user goes
through (handle, HTTP, streams, sessions, templates), then the three parts of the
console that keep state over several requests; theorems for all safety properties.

Left, in this order:

1. Abstract specifications beside `SingleFlight`, with proofs that the modules
   implement them: a session as a process whose output is delivered once and whose
   input is a queue; the pool as a cache with eviction.
2. `McpTools`: several handles, one per tool call, on one `SandboxServer`.
3. `DeviceLogin`: the polling of `login.ts` against the device page, and the
   credentials file under two logins at once.
4. The cached team of `proxy-auth.ts` and the preview ports (`use-preview-ports.ts`).
