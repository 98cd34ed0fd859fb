# robo-journey: a verification development

robo-journey is an Arduino circuit simulator: a browser studio that simulates boards
and parts, and a service that compiles sketches, keeps accounts, rations seats and meters an AI
assistant. This directory holds TLA+ models of it, TLC configurations that check them on small
instances, and TLAPS proofs for all instances. Paths below are relative to the repository (`src/`).

## 1. Inventory

For each part: its state, its operations, how it interacts, what is hard, what makes it correct.

### Service side

| part | state | operations | what is hard | what makes it correct |
|---|---|---|---|---|
| **Seats and queue** `packages/accounts/src/access.ts` | table `access`, a row per user; sequence `access_queue_seq` | status / isActive, request, heartbeat, release; each one transaction under an advisory lock that reconciles the whole table first | a transaction's `now()` is older than the lock it waited for; four statements whose order decides who is seated; three windows (session, idle, grace) that overlap | capacity; no empty seat while someone waits; first come first seated; the hour is an hour |
| **Credits** `credits.ts`, spent by `compile-service/src/assistant-route.ts` | `credit_accounts` (balance, held), `credit_ledger` | grant, hold, settle, release | READ COMMITTED interleaving of statements; failed statements, unheard commits, crashes between hold and settle | balance = ledger; never overdrawn; a reference honoured once; charged once, at most the hold |
| **Transactions and pool** `db.ts` | pool of 10 connections, statement and connection timeouts | withTransaction, waitForDatabase | a nested transaction needs a second connection | every transaction ends |
| **Invites** `invites.ts` | `invite_codes`, `invite_redemptions` | codeFor, redeem, rewardFor | the reward's grant runs on another connection than the claim of it | paid exactly once per confirmed invitee |
| **Email tokens** `email-tokens.ts`, `compile-service/src/auth-routes.ts` | `email_tokens` | issue, consume (verify, reset) | issue is two statements; several effects follow one single-use token | single use; at most one live link; everything due on confirmation happens |
| **Users, sessions, projects** `store.ts`, `session-guard.ts` | `users`, `sessions`, `projects` | register, authenticate, createSession, resolveSession (renews), setPassword, project CRUD | check-then-act pairs; sessions created around a reset | no session survives a reset; the project cap |
| **Migrations** `migrations.ts` | `schema_migrations` | migrate | several instances start at once | each migration once, in order |
| **Compile service** `server.ts`, `compiler.ts`, `redis.ts`, `main.ts` | job directories, Redis cache and counters | /compile, rate limits, shutdown | cache and limiter shared by instances; shutdown against requests in flight | a cached result is the result; close happens once, in order |
| **Installer** `deploy/bootstrap.sh`, `deploy/install.sh`, `config.ts` | `.env`, the data directory, what compose runs | install packages, fetch, dry run, install, edit of the settings | every command can be the last; the settings survive the run that made them and meet a database that has its own password | a run that got to the end started the service with its answers, on the database that is there |
| **Datasheets** `datasheet/src/extract.ts`, `datasheet-route.ts` | one timestamp per process | extract: repair loop around a retry loop | two budgets that nest | bounded attempts; transient errors cost no repair |

### Studio side

| part | state | operations | what is hard | what makes it correct |
|---|---|---|---|---|
| **Seat client** `apps/studio/src/useAccess.ts`, `usePresence.ts` | phase, access status, generation counter, heartbeat timer | refresh, join, adopt, sign out, beat | answers out of order; a failed beat | a live, present tab keeps its seat; a stale answer is ignored |
| **Project store** `store.ts`, `persistence.ts`, `Studio.tsx` | project, past, future, autosave timer | edits, undo, redo, load, autosave | sketch edits bypass the history | undo restores what it says; nothing edited is lost on leaving |
| **Agent plans** `agent/plan.ts`, `agent/run.ts` | a checked plan, a position in it | checkPlan, runPlan | the project changes while the plan runs | every applied step was valid when applied |
| **Worker** `sim/worker.ts`, `sim/useSimulation.ts` | board, run timer, blown fuses, one snapshot in flight | load, run, stop, setPartProp, snapshot | commands, ticks and snapshots interleave | one timer; nothing blown is forgotten |
| **Board** `sim-core/src/sched/board.ts` | CPU cycles, circuit time, breakpoints | runFor, solveAnalog | two clocks advance each other | neither overruns; a breakpoint stops |
| **Buses** `bus/spi.ts`, `bus/i2c.ts`, `bus/registers.ts`, `mcu/usart-tx.ts` | selected chips, addressed device, register files, frames | transfers, chip select, writes, reads | hysteresis, auto-increment, bounded queues | one device answers; read-only registers stay |
| **Recorder** `instruments/recorder.ts`, `decode.ts` | rings of samples | record, window, decode | overwriting while a window is open | a window is the signal it shows |
| **Scope panel** `panels/Scope.tsx`, `useSimulation.ts` | channels offered, traces plotted, questions under way | refresh, select | three answers a refresh, many refreshes, a circuit that changes between | at rest it plots what is selected, of the circuit that runs |
| **Netlist** `netlist/netlist.ts`, `breadboard.ts` | union-find | union, find | order of unions; ground is every ground pin | one node iff metal all the way |
| **Analog solver** `analog/circuit.ts`, `mna.ts`, `lu.ts`, `devices.ts` | matrix, factors, each device's memory | stamp, solve, gmin and source stepping, commit | three methods leave state behind for one another | the answer solves the circuit that was drawn |
| **Meters** `instruments/meters.ts` | dial, fuse | measure | a meter is a part of what it measures | reads the circuit; the fuse goes only on a solved step |
| **Manifests, part library** `packages/parts/src`, `studio/src/library.ts` | two registries, the stored library | validate, extract, add, restore, build | two registries in two threads and a model that misreads | what is placed was validated and is what the worker builds |
| **Timed parts** `manifest-runtime.ts` | echo, servo position, comparator | advance with each solve | own clocks inside the board's schedule | an echo is as long as the distance |
| **World** `stimulus.ts`, `environment.ts`, `sensing.tsx` | stimuli, fields, driven sensors | edits, ticks, rebuilds | page and worker compute the same field from different copies | a driven sensor reads what the canvas shows |
| **HEX loader** `mcu/hex.ts` | flash image | load | address records, 32-bit shifts | the image is the file, or an error |
| **Canvas** `canvas/Workspace.tsx` | selection, band, drag, pan | pointer and key events | gestures of several events, a click after every release | no gesture outlives the button |

Interactions: the studio's seat client polls the access routes; every route that uses the tool asks
`isActive` first; verification calls into tokens, users, credits and invites in one request; the chat
route brackets a model call between two credit transactions; the worker drives the board, which
drives the buses. `PROJECT.json` lists every part with its status, and the hazards with their lines.

## 2. Plan

All modules of the plan exist. A later stage composes or proves what an earlier one introduced.

1. **Seats**: `Access` (table, operations), `AccessHistory` (what the properties need to remember),
   `SeatService` (the abstract service), `MCAccess`; `AccessClient` (the page against it).
2. **Credits**: `Credits`, `MCCredits`; `MCSeatsAndCredits` runs them with the seats, one at a time. **Accounts**: `Accounts`, `AccountsHistory`, `MCAccounts`.
3. **The document**: `Timeline` (what an undo stack promises), `Editor`, `Workspace` (EXTENDS `Editor`),
   `MCWorkspace`.
4. **The simulator**: `Simulation`, `BoardPins`, `SerialLine`, `Capture`, `ScopePanel`, `Buses`, `Netlist`,
   `Solver`, `Mna`, `Analog` (EXTENDS `Mna`), `Meters`, `PartBehavior`, `Surroundings`, `CanvasGestures`.
5. **What comes from outside**: `HexLoader`, `Manifest`, `PartLibrary` (EXTENDS `Manifest`), `Inputs` (both). **The service
   process**: `Service`, `Limiter`, `Compiler`, `Installer`. `MCComponents` runs the modules of
   4 and 5, which share no state, one at a time.
6. **Proofs**: `AccessProofs`, `CreditsProofs`, `AccountsProofs`, `WorkspaceProofs`, `SimulationProofs`,
   `CanvasProofs`, `ServiceProofs`, `AccessClientProofs` (section 6).

Left to model: the connection pool at its limit (`rewardFor` holds one connection and waits for another).

## 3. What is modelled

### Access: seats and the line

`Access.tla` keeps the table and the sequence in one variable `db`, because the operations are
functions of the table: `ExpireSeats`, `BumpUnused`, `DropAbsent` and `AdmitWaiting` are the four
statements of `reconcile()`, and `Reconciled(s, now)` is their composition, a set because SQL leaves
open in which order one UPDATE hands out numbers of the sequence. Every operation (`Status`,
`Request`, `Heartbeat`, `Release`) is one action, as it is one transaction under one advisory lock:
it reconciles, does its own statement and, except for `Status`, reconciles again, with one `now`. That
`now` is Postgres' `now()`, the start of the transaction, which may be older than the lock by as much
as the transaction waited (`LockWaitMs`; the statement timeout bounds it in the code), so operations
may run with clocks that go backwards. A transaction that fails changes nothing and is no step.

Left out: `queued_at`, written and never read; the `waiting` count and `carriedMs` that `read()` reports.

`AccessHistory.tla` adds history variables no action reads: the clock of the latest operation, when
each user was last heard, and how much of a turn earlier sittings took.

`SeatService.tla` is the promise without clock or table: a set of people seated and one line, in which
people leave, seated people go to the back, one newcomer joins behind them, and seats are filled from the
front until seats or people run out. The line is a set and the relation of who is ahead of whom; `Access` maps
its rows to it by their queue numbers (`Ahead`), and `ImplementsSeatService` is that every operation is a turn.

### Credits: the account, the ledger and the chat route

`Credits.tla` models one account (every statement names one user, so accounts share nothing) and the
calls on it, one SQL statement a step. `books` is what is committed; `lock` is the call whose transaction
has written the account row, and `draft` is the database as that call sees it. A statement that writes
waits until the row is free; `ensureAccount`'s INSERT waits for another transaction's uncommitted INSERT
of the same row and takes no lock when the row is there; the conditional UPDATE of `hold()` refuses at
once when the committed balance is short. Any statement may fail (`Throw`), a COMMIT may take effect
unheard (`CommitUnheard`), a process may die (`Crash`). The chat route's control is in `OnThrow` and
`OnReturn`: a hold that returns leads to the model call, a model call or a settle that throws leads to a
release, and a release that throws is swallowed. The model call is an external step: it answers at a cost
or fails.

### Accounts: links, sessions and confirmation

`Accounts.tla` models one account from its registration on: the `users` row (`user`), what became of each
`email_tokens` row (`links`), which links reached the mailbox, the `sessions` rows, and what
confirmation sets off elsewhere (`allowance`, the seat asked for in `asked`, the invite and its reward).
A request is an instance of a route: `kind` says which, `at` is the statement it runs next, and `typed`,
`cookie`, `link` are what it carries. The requests that make a link or a session give it its name.
Statements that several routes share (`EndEverySession` of a reset and of signing out everywhere,
`MarkVerified` of a verification and of a reset) are one action, and `Go` says where the route goes on.
`Authenticate` and `StartSession` are apart because the hash of the typed password is computed between
them; `SelectLink` and `ClaimLink`, `Supersede` and `InsertLink` because the code runs two statements
on the pool. `Renewal` is the UPDATE of `resolveSession()` nobody waits for. The reward is the one
transaction: `ClaimReward` locks the row until `CommitReward`, while `PayReward` commits on
another connection. Faults are an exception or a crash anywhere (`Fail`), and the two failures the
routes swallow (`MailFails`, `RewardFails`).

Left out: rate limits, profile fields, the choice of an invite code, and the address, which nothing
changes (so the check for a changed one never fires). `pruneSessions()` and `pruneEmailTokens()` are
called by nothing in the repository: expired rows stay, as they do in the model.

`AccountsHistory.tla` adds who spent each link, which issues overlapped, and which sign-ins a
change of password did not reach.

### AccessClient: the page and its seat

`AccessClient.tla` composes the page (`phase`, the heartbeat timer, the idle countdown, the generation
counter, calls under way with the generation they carry) with the seat of one account; everybody else is
`room`, whether a seat is free for it. `Serve` is the service's half of a call and `Answered` the page's, so
answers come late, out of order or never. A call and the answer to it are apart wherever the code
awaits. Time is ticks.

### The document: Editor, Workspace, Timeline

`Editor.tla` is the store's project and history: `work` is `[past, project, future]` with every
gesture an action (place, remove, wire, drag, set, paste, undo, redo, load), and an assistant's plan
that is checked when it is proposed, carried out a step at a time beside the user's own edits, dropped and
undone. A part is its id, a wire the set of one or two parts, the sketch a version; ids come from the
counter as in `nextId`, and a document read back from outside may hold an id twice (`twins`).
`Workspace.tla` adds where the document goes: the debounced autosave, reloads and crashes, a second tab
over the same storage, a seat lost while editing, and the account's projects with calls answered late, out
of order, or to a page that is gone. `Timeline.tla` is the promise of an undo stack: a tape of versions
and a cursor; `Workspace` refines it with `tape <- past \o <<project>> \o future`.

### The simulator

- `Simulation.tla`: page and worker. Messages in order, one snapshot in flight, compiles that end after
  the next edit (`late`), firmware that cannot be read and makes a rebuild throw, ticks as a timer, fuses remembered
  over rebuilds. A circuit is its fingerprint. `setPartProp` is left out: the worker offers it (worker.ts:216) and
  `useSimulation` hands it on (useSimulation.ts:180), but nothing in the page calls that; a property that is changed
  arrives as an edit.
- `BoardPins.tla`: the exchange of chip and circuit in `runFor`: when the circuit is solved, what the chip
  reads meanwhile, breakpoints, faults. `SerialLine.tla`: a byte from the USART over checkpoints and the
  ring to the decoder. `Capture.tla`: what is recorded and what screen, pitch and plot make of it.
  `ScopePanel.tla`: the panel's three questions a refresh and its list of channels, both asked when it opens.
- `Buses.tla`: both buses, chip select by voltage with hysteresis (one device of each polarity), addressing,
  framing, auto-increment, repeated starts, register files.
- `Netlist.tla`: union-find against reachability. `Solver.tla`: the three methods and what they
  leave behind. `Mna.tla`: elimination with exact fractions and cached factors. `Analog.tla`: what each
  device stamps, damps, remembers and reports, in small integers. `Meters.tla`: dial, shunt and fuse.
- `Manifest.tla`: what a manifest may say, what is refused, what is built of it. `PartLibrary.tla`: from
  a datasheet to the canvas and the worker, also of a project made with a library this browser does not have
  (`foreign` remembers what the canvas did not know when it sent a circuit). `PartBehavior.tla`: rangefinder, servo, comparator and sensor on the board's
  schedule.
- `Surroundings.tla`: stimuli, what reaches a sensor, when page and worker say so to each other.
  `HexLoader.tla`: records to flash. `CanvasGestures.tla`: pointer and key events in Konva's order.

### The service process and its server

- `Service.tla`: instances of different releases start, wait for the database, migrate under the advisory
  lock, serve the compile route with the shared cache, and shut down around requests.
- `Limiter.tla`: the fixed-window counters shared through Redis, as the login route asks them.
- `Compiler.tla`: requests that overlap, each with its work directory, toolchain failures, a disk that
  fails, the cache.
- `Installer.tla`: `bootstrap.sh` and `install.sh` command by command: the packages that are missing, the source, the
  look at what listens (or `--behind-proxy`), `.env`, compose, and what `config.ts` accepts; a run may be interrupted
  at any command and started again.

## 4. What is checked

| run | instance | shows |
|---|---|---|
| `seats_and_credits` | 3 users, 1 seat, session 4, idle 1, grace 2, lock wait 1 | capacity, no idle seat, ordered line, seated users are entitled, the hour is never extended, a place never worsens, first come first seated; every operation is one turn of `SeatService` |
| the same run | 2 signup grants, 2 chats on a new account; estimate 3, cost 1 or 5 | balance = ledger, never overdrawn, reference honoured once, a hold takes what its call cost and counts as held until it is resolved, every call ends |
| `access_gone` | 2 users, 1 seat | **violated**: a closed tab keeps its seat past the grace |
| `credits_grant_race` | the account opened by another grant first | **violated**: two concurrent grants with one reference both pay |
| `credits_refund` | 1 grant, 1 chat | **violated**: a settle whose commit is unheard, then a release: the hold comes back twice |
| `accounts` | eight combinations of four requests, each beginning with a registration | nothing before confirmation, no reward recorded unpaid, a link spent once, two live links only from overlapping issues, only a racing sign-in outlives a reset, a signed-out session stays out |
| `accounts_reset` | registration, forgotten password, reset, sign-in | **violated**: a session of the old password outlives a reset in which nothing failed |
| `client` | one page, 2 calls, 1 fault, grace 3 heartbeats | signing out stays signed out whatever comes back; a tab in use keeps its seat although a beat is refused; nobody watches the line for ever |
| `workspace` | ids to 3, 2 steps of history, 2 documents, 3 calls, 1 reload, 4 plans | documents stay sound through undo; work is saved or on its way; the link is the document's own; the undo stack is a `Timeline` |
| `workspace_overwrite` | the same | **violated**: the answer to a first save links another document, whose save overwrites the first |
| `components` | each simulator module on its own instance | worker and fuses, decoded bytes, traces and panel, solver and devices, nodes, timed parts, sensors, pins, gestures, both buses |
| `components_pchannel` | one P-channel MOSFET | **violated**: what is stamped carries another current than the device reports |
| `services` | each service module on its own instance, and what comes from outside | schema, requests and compiles, quota, installation; what is extracted, added, restored and loaded |

`components` and `services` run `MCComponents`: `machine` says which component a behaviour is of; it starts from
that component's own initial states and takes that component's steps, while every other stands still. That is
a sum and not a product of state spaces, so nothing is lost by checking them together. `MCSeatsAndCredits` has a
`table` in the same way, for the seats and the credits.
`MCWorkspace` has a `focus` in the same way: `history`, `wires`, `plans`, `account` and `autosave` explore
one concern each deeper than all of them together could be; only `focus` cuts actions away.

**Bounds.** Of the seats only differences of instants and the order of numbers matter, so the view
`Rolling` identifies states whose rows have the same ages (cut off where every comparison has settled)
and the same places in line, whoever the users are (they are interchangeable, so no SYMMETRY is
declared beside the view); the runs therefore cover runs of any length, and `MaxTime` and `MaxSeq`
are only there to be out of reach. Three users on one seat is the least where one is seated and
two wait, where two are bumped at once, and where someone is admitted while others keep their places. The
windows keep the order of the code's constants (idle < grace < session) with room for two bumps in
an hour. Of the credits each call runs once, so no counter needs a bound; two calls of each kind are the
least that race with their own kind, with the other kind and with a crash of either. A cost above the
estimate exercises the clamp. Grant amount 4 and estimates of 3 make the second chat affordable or not
depending on how the first one ended.

In `accounts` each request runs once and makes at most one link and one session. Four requests are the
least for two links of a kind and two clicks (`register`, `resend`, `verify`, `verify`) and for a reset
against a sign-in; the combinations are those in which requests can meet at one row. Its view forgets what
ended requests carried and how they ended, and a link nobody will follow: no action reads them.

In `client` two calls are the least that can be answered out of order; the windows keep their order
(heartbeat < warning < idle, grace of three beats) and one fault is a lost call, a refused one or a repaint.
In `workspace` three calls are the least for a late answer, an update in flight behind it and an open of the same
row; two documents for one to be linked by the other's answer; a history of two for its far end to be
pushed off. In `components` each instance is the smallest in which its component's hazard happens: a ring
of six samples forgets, a frame of 8 cycles a bit is crossed by instructions of up to 4 and by
checkpoints 20 apart, two rails of two pieces each are joined by two wires, four rungs of leak and of ramp are
enough to fail on one that is not the last, every kind of device is stamped, both MOSFETs among them (a P-channel that
conducts is the violated run, and `Misstamped` excepts it from `CurrentsAreReported` alone, not from the balance of its
currents); an ohmmeter probes sources on both sides of its test source. In `services` every behaviour of a manifest is
misread in every pin, page 2 of a HEX file has the sign bit; an old release with one
migration starts beside a new one with two; each of two instances may restart once; two attempts race for a
counter of one; a compile of each outcome runs beside another; the installer is run twice, with any packages there, and the server
changed once between. Every bound is a named CONSTANT marked "bound" in its module.

**Fairness.** `Access`, `Accounts`, `Workspace` and the components have none: nothing obliges a user to act,
and their properties are safety. In `Credits`
every call that has begun takes its next step (weak fairness per call): a statement ends by itself or by
`statement_timeout`, and the model call by an answer or an error, which is an assumption on the HTTP
client and the model service (the code sets no timeout of its own). In `AccessClient` the clock ticks and the heartbeat
timer fires (strong fairness: other steps disable them for a moment, a timer does not stay late for ever), the
service serves a call and the page takes its answer (weak fairness of `Serve` and `Answered`: fetch settles one way or the other), and somebody in a seat
leaves in the end (`MakeRoom`: the hour of access.ts ends every sitting). `CHECK_DEADLOCK FALSE` is set where the system may
stop: all calls have ended, a program was loaded, or a bound is reached.

## 5. What the violated runs say

- **A ghost keeps its seat** (`access_gone`). The idle window (2 min) is shorter than the grace (3 min),
  so a closed tab is bumped for idleness first; with nobody else waiting the same reconcile admits it
  again and stamps `last_seen_at` with now (access.ts:343), which restarts the grace. It repeats as long
  as any other traffic polls between the two windows, until the hour ends. The test at
  access.test.ts:487 does not see it because nothing runs between the two windows.
- **A reference honoured twice** (`credits_grant_race`). On a new account the INSERT of the account row makes
  the second grant wait and then find the first; run `seats_and_credits` shows that this serialisation is
  enough. Once the row exists nothing makes it wait.
- **A hold refunded twice** (`credits_refund`). `settle()` does not check that the hold is open.
- **A session outlives a reset** (`accounts_reset`). `setPassword()` deletes the sessions there are; a
  sign-in that has read the old hash inserts its session afterwards. Run `accounts` shows that this race and
  a reset that dies between its two statements are the only ways.
- **A save overwrites another document** (`workspace_overwrite`). `saveToAccount` awaits the creation and then links
  whatever is open (MenuBar.tsx:273).
- **A P-channel is stamped with its transconductance negated** (`components_pchannel`), devices.ts:1131 against :1064 "the same
  device with every voltage inverted". Current and control voltage both change sign, so what is between them does not: at the
  voltages it was linearised at, the system has another drain current than the one the device computed and reports.

Seen while modelling, where the code differs from what it says of itself or from what one would expect. None is
counted as a violation; the models do what the code does.

*Accounts and seats.* A reset refuses a weak password only after the link has been spent, and it verifies the
address without the signup grant a verification link would have made; a reward that fails is never
retried. A colliding invite code raises an error instead of being retried. The page for an unverified
address says "this page will notice on its own" (AccessGate.tsx:422) and nothing polls. One failed heartbeat
ends the heartbeats (useAccess.ts:199), nothing retries by itself.

*Studio.* Undo restores an older sketch although typing bypasses the history (agent-actions.ts:38 says "one undo
restores the previous version either way"); the assistant's undo wipes later edits and the link to the account;
a half-drawn wire survives the removal of its part (store.ts:312); a plan is checked when it is sent and run
on whatever is open then; two tabs overwrite each other's autosave. A band that ends without a click leaves
`bandJustEnded` set, so the next click on the empty canvas does not clear the selection (Workspace.tsx:137);
Escape during a band clears the selection too; dragging a board in a group leaves what is plugged into it.

*Simulation.* A running simulation goes past every breakpoint after one tick (worker.ts:743 against protocol.ts:54).
Blown fuses are recorded only in a snapshot and persist across documents; a compile that answers after the next edit puts
the circuit it was asked for back, until another edit (MenuBar.tsx:222); firmware that cannot be read leaves the board there was,
under the new project, and no later edit gets through to it (worker.ts:168-179); polling stops for ever if a snapshot throws. A latched fault keeps its first current although
board.ts:222 promises the peak. A chip select that is asserted high and left between the two thresholds toggles at every solve, although spi.ts:146 has hysteresis
"so a line sitting mid-rail does not chatter": the threshold goes by whether the device is selected, not by the level.
A sensor keeps the last driven value after its last source is gone
(worker.ts:254-281), and the worker measures from a sensor's corner where the canvas measures from its middle
(worker.ts:291, sensing.tsx:124). The scope's channel list is not refreshed when a running simulation is
rebuilt between two snapshots (Scope.tsx:56); a line without an edge in the window draws nothing before its
first one; the last byte on an idle line is decoded only when the line moves again.

*Circuit.* Source stepping
resets every device: capacitors lose their charge and a blown fuse is mended. An ohmmeter says LIVE only of a circuit that drives it beyond its own test source; one
within that range gets a number, against meters.ts:22 "the meter says so". A part whose build throws half way leaves its devices; `devices` of a manifest keeps
the first device only (build.ts). A HEX file's zero-byte record counts as written, and a page from 0x8000
on throws a RangeError instead of a HexParseError. Built-in manifests are silently replaced by extracted ones with
the same id (registry.ts:407); restored manifests are not validated again. `restoreLibrary`
is to be called "once, before the first project is loaded" (library.ts:80) and runs after it (Studio.tsx:124), and neither it nor
`addManifest` builds anew (worker.ts:154): a part that was placed before its manifest arrived stays unknown until the
next build, although library.ts:7 is there to prevent that report. The echo of a rangefinder
appears one solve late, so a very short one may not be seen.

*Service and server.* A sketch that does not link gives no diagnostics and answers 500, although compiler.ts:195
says "A failed build is a normal outcome, not an exception"; an ended process leaves its work directories; a
compile has no timeout. `CREATE TABLE IF NOT EXISTS schema_migrations` runs outside the lock and may collide. The
project cap is check-then-insert. "It is safe to run twice" (install.sh:23): the second run takes the ports of
its own stack for somebody else's and moves the app. An install that is run again asks whether to turn
verification back on once SMTP is set (install.sh:441 says it does). A database password brought along, or a kill between two
commands of bootstrap.sh:129, leaves a settings file the database does not accept (`excused` in `Installer`).
`--dry-run` promises to "change nothing" (bootstrap.sh:82, and again at :205), but git and Docker are installed before it is
looked at (bootstrap.sh:157-188): `DryRunIsDry` is of the stack and lets missing packages be installed. "Anything in front is a
proxy, so the app must read the forwarded headers" (install.sh:387), but whether one is believed goes by the domain: a run with
a domain starts Caddy, a later one for localhost leaves it up (it is behind a profile, docker-compose.yml:133, and install.sh:250
chooses the other shape) and sets RJ_TRUST_PROXY to false. `EndsWithAService` excepts exactly that Caddy.

## 6. What is proved

TLAPS checks the theorems for every value of the constants, from the named ASSUMEs of the modules, which TLC evaluates in
every run that extends them. `PROJECT.json` lists them under "theorems"; the lemmas they rest on are
named beside them. One lemma says of every action what it preserves; the inductive invariants are these.

`AccessProofs` (any finite set of users, any capacity and windows): `TypeCorrect`, `CapacityIsRespected`,
`SeatsAreFilled`, `LineStaysOrdered`, `NobodyIsOvertaken`, `SeatsAreEarned`, `NoHourIsExtended`, `PlacesOnlyImprove`,
`SeatsAreAService`.
One lemma per SQL statement says what it does to the seated set, the line and the order; `LineIsOrdered` is
the strengthening behind first come first seated (without distinct numbers below the sequence, "the first n of
the line" is not determined), and `NobodyIsOvertaken` composes a relation `Overtakes` over the statements.
`HourInv` adds that somebody bumped in this turn has a carry and that somebody at the start of a turn has
spent nothing. `PlacesOnlyImprove` compares cardinalities of the line before and after each statement. `SeatsAreAService` splits a
reconcile into what it sweeps (`Swept`) and what it fills (`Filled`). What one reconcile leaves, a second at the same clock
would leave again (`Fresh`), also after the operation's own statement, so the second only fills; filling twice is filling once
(`FilledChain`); and leaving or joining commutes with filling (`GivenUpFilled`, `EnqueuedFilled`), the newcomer being behind
everybody. So an operation comes to a rearrangement and one filling (`OperationIsATurn`), which is a turn (`TurnOfTables`).

`AccessClientProofs` (any number of calls, any intervals and faults): `SignedOutIsKept`. `ClientInv` adds that once signed out no
live refresh or heartbeat is in flight: `Hushed` is kept by everything but a join that answers late, which it excepts.

`CreditsProofs` (any calls, amounts and failures): `TypeCorrect`, `BalanceNeverDiverges`, `NobodyOverdraws` and,
for grants that all carry one reference on an account that does not exist yet, `SignupHonouredOnce`.
`BalanceIsTheLedger` is not inductive: a commit publishes a draft, so `LedgerInv` says of the draft
that it is one movement ahead of its ledger between the UPDATE and the INSERT and level with it otherwise,
and that only the holder of the row's lock is between the two. `OnceInv` follows the first grant through its lock.
`HoldsStayHonoured` rests on two more: `LockInv` says what the holder of the row's lock has drafted at each statement, and
`HoldsInv` that every chat owns one hold, resolved as far as its phase says, and that `held` is level with the
holds that are open. Its sums are unfolded by a theory of totals: no induction theorem of the library applies, as they take an operator,
but a set of numbers, or of finite sets, that is not empty has a smallest member (`LeastOfNats`, `SmallestOfSets`), so
a total that went wrong would go wrong at a smallest set.

`AccountsProofs` (any requests of any kinds): `TypeCorrect`, `ConfirmationComesFirst`, `NoRewardUnpaid`,
`NoSessionComesBack`, `LinksAreSpentOnce`, `ResetsEndSessions`. All rest on `OnRoute`: which kinds of request come to a
statement that several share. `NothingBeforeConfirmation` is not inductive, because a request asks for a seat on
what it read some steps before: `ConfirmInv` adds that what was read stays true, as only an INSERT of the
user could take `verified` back and it finds the row there once anyone holds a link or a session. `LinksInv`
says who may still spend a link, `MissedInv` which sign-ins a change of password has not reached.

`WorkspaceProofs` (any plans, ids, history limit, documents, calls and reloads): `DocumentsAreSound`,
`WorkIsSaved`, `LinksAreOwn`, `UndoIsATimeline`. `WorkspaceTypeOK` carries that every state in the history is a
version of the open document and fits it, and that what a plan has left to do was vetted; `LinkInv`
that the link, and every call that will claim a row, holds the document it was made for. `UndoIsATimeline`
maps every action to a step of `Timeline` or a stutter, one lemma per shape of change (an edit, a burst of
edits, a retyped state, back and forth, a fresh document). `WorkIsSaved` is an invariant by itself over
`Ours`. Proving these corrected the model: `late` is a set of rows and stays, since a row linked by a late
answer may be opened again with an update of it still in flight; `WorkIsOnItsWay` compares what is read
back, with ids made unique, on both sides.

`SimulationProofs` (any circuits, firmware, messages, pins, wirings, breakpoints, data sheets, currents and
gmin ladders): `WorkerIsObedient`, `FusesStayBlown`, `PinsStayTheCircuits`, `PartsKeepTime`, `SolverLeavesNoTrace`,
`FusesGoOnceOverloaded`, `CircuitIsAsWired`, `HostIsAlwaysUnderstood`. `SimInv` has four parts: the board is the project's unless a rebuild is owed or could not read the firmware, what the
page gave is under way or there, and is what is on the canvas unless a compile answered late, a fuse shown as blown is remembered by the worker or on its
board. `PinsInv` says of a run that what the last solve found still stands (`SolveStands`: drives, levels, overloads) and
that the next is nearer than an interval; `OverloadsAreSteady` is why a fault noted then is the fault of now.
`PartInv` follows an echo through its stages (`EchoStands`: to come, raised but not yet solved, heard, over but still on the wire)
and the servo since its last order; `TowardComposes` is why it does not matter how many solves the turning took. As in the
model, readings and the time-out are longer than a solve interval and two instructions (`Measured`).
`SolverInv` says at which stage the leak and the supply may differ from the circuit's; `ShuntReadsTheCurrent` is why the fuse
goes by the current that flows, though the code computes it from a drop.

`CircuitIsAsWired` is about the nodes a drawing is made into (any breadboard, parts and number of wires). `NetInv` says that the
forest is `Glued` by the contacts gone through so far: a set of terminals that no contact leaves is one no tree
straddles. That is kept by adding terminals and by joining two of them, whatever the sizes are and wherever find has pointed things, as
compression and union by size change no root (`RootedBy`, with a rank that falls on the way up, since the recursive
`Root` and `way` are equations until every way is known to end). The loops of `connectAll` and `addBreadboard` are recursive functions over
a range; `LoopRuns` is why there is one that satisfies its equation, `LoopIsGlued` what it comes to. On the other
side, the pieces of metal are grown terminal by terminal: `GrowthEnds`, two rounds of growth use a wire up, because
strips are transitive, so that `2 * MaxWires + 1` rounds are enough. The proof made two assumptions on the constants
explicit: no piece of rail is a single hole, and nothing on the desk is taken for the ground of the circuit.

`HostIsAlwaysUnderstood` is about both buses (any devices, register maps, sizes and events). The property reads the whole record of what
was said to a device; `BusInv` says that each device holds what that reading comes to: `SpiInv` that it is selected exactly if the
record has it asserted, and then has the frame on record with its command and pointer, `I2cInv` that its pointer is the address
meant. No induction over the record is needed: `FrameAppend`, `AssertedAppend` and `MeantAppend` say what one
more event does to each reading, where `EveryRankIsTaken` is why the k-th byte of a frame is somewhere in the
record. The attempt found that only devices selected by a low level keep their selection between the rails
(section 5); the others are remembered in `chattered`, and excepted while they are in it.

`CanvasProofs` (any parts, terminals, sensors, sources, fields and recorded circuits): `GesturesAreObeyed` (`GesturesInv` ties band, drag and
group to the button) and `SensorsAreDriven` (`WorldIsUnderWay`: the worker's world, with the letters under way
applied, is the page's; `FeltIsApplied`: what devices hold is what that world says), `PanelsSettle`. The panel's answers and
questions are taken as one queue: `ChoiceIsOnItsWay` says that the last choice is drawn or that some step in the queue will
be the last to draw and carries it, `ListIsOnItsWay` the same of the list of channels. The second is what the
number given to every question is for.

It also has what comes from outside (any manifests, drafts, budgets, records and size of the flash): `ProgramsAreLoadedWhole`,
`LibraryStaysSound` and both together, `InputsStayVetted`. `HexInv` says the loader's base is that of the last address record
above, or is negative, where nothing is ever written. `LibraryInv` has three parts. `BudgetInv`: an attempt is one answer more, and
the calls are what those answers and their retries allow. `UnderWayInv`: what is on its way to the worker ends with what the studio has,
and whatever a circuit on its way asks for is registered there by then, or came with a foreign project, or has no firmware to run
on yet. `BoardInv`: what is on the board is sound. The lemmas are about
manifests: the validator asks for every reference that the runtime will follow, and legs moved as a whole onto the grid
still reach the holes (`LeastOfMany`: one of them is leftmost, and the shift is its distance); and about the letters of a
circuit, which are a set sent in some order (`SetsInOrder`). The attempt found a conjunct that held only within the bound of the
run: a part placed before its manifest arrives stays unknown until the next circuit, which is why `foreign` is remembered.

`ServiceProofs` (any instances, releases, requests, sketches, limits): `QuotasHold`, `SchemasAreWhole`, `RequestsDrain`,
`CompilesStayHonest`, and the two halves together as `ServiceStaysReliable`. `LimiterInv` counts what passed since a key was
created; `ServiceInv` says the lock is exclusive, what an instance still has to apply follows what is applied, and
whoever serves has applied all it knows; `CompilerInv` that a compile with a directory works in its own and finds there
what it put there, and that what the cache holds was built from the sketch it is kept under.
Of the installer (any passwords, seeds, domains and number of runs) it has `InstallsAreSafe`. `InstallerInv` relates the run under way
to the file it writes and to the server it began with: dropped keys were written, the password is there from bootstrap on, what runs runs on
the password it was started with, the answers are in the file before compose is called, and a Caddy that is up is this
run's or was up when it began (`CaddyIsKnown`).

Only model-checked, and why:
- liveness, beyond the prover: `EveryCallEnds`, `TheLineMovesOn`;
- modules that reach a recursive operator, or a module that does: `DecodedIsSent` (`SerialLine`),
  `AnswerSolvesTheEquations` (`Mna`), `DevicesAreHonest` (`Analog`);
- integer arithmetic that is exact only for the values the run takes: `ReadingIsOfTheCircuit`, what a meter shows (the code
  divides floating-point numbers), the rest of `MetersAreHonest`;
- real time against the sizes of the windows and the number of calls in flight: `SteadyTabKeepsSeat`.

## 7. What is not modelled

`PROJECT.json` lists every part with its status and the reason. Not modelled: prompts and prices (text and arithmetic
around the model call that `Credits` has), mail delivery, rendering and layout, the catalogue of shipped parts, the
instruction set (avr8js, outside the repository), the SQL of the schema beyond the shape of the rows it gives. Partly: the pool of
connections running out; projects' CRUD (single statements of one owner); rounding in the solver, which has exact fractions and small
integers instead; the decoders other than the UART's; zooming, snapping and hit areas.
