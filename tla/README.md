# tw2002-aiclient: a verification project

TLA+ models of `tw2002-aiclient`, a trainer for the BBS
game TradeWars 2002: a daemon (`twd`) holds the one telnet connection to the
game, and a curses cockpit, one-shot commands, taught macros and a reconnecting
guardian all send through it. The models take in the concurrent core and the
loops, searches, stores and screens around it. They are checked with TLC and proved about
with TLAPS. Every definition is translated from the Python source;
`PROJECT.json` (`map`) names the lines each one stands for.

    tlasany M.tla                          parse a module
    tlc -workers 2 -config X.cfg MCM.tla   run one of the configurations
    tlapm M.tla                            check the proofs of a module

## 1. Inventory

The package has 61,000 lines of Python. The part with threads and failures is
the session daemon (`tw2002_aiclient/session/`); the larger part is the drivers,
stores, parsers and decisions it works with, and a single-threaded cockpit.

| Component | State | Operations | Interacts with |
|---|---|---|---|
| Control lock `session/control_lock.py` | mode, hold and its generation, driving slot, fence of the dispatch, set of fenced generations | take and release human, acquire and release driver, enter and leave auto-loop, set mode | every thread that drives |
| Background runners `autoloop.py`, `trade_chain.py`, `sector_explore.py`, `stardock_hold.py` | one thread, stop event, in-flight flag, report each | start, stop, the run itself | the lock, `Session.send`, `send_lock` |
| One-shot dispatch `protocol.py` | none of its own | `do`, `send`, `ensure`, `state`, `status`, `disconnect`, rule and runner verbs | lock, session, guardian, runners |
| Attach, spectate, socket server `daemon.py` | one thread per client, pidfile, socket node | start, claim, serve, attach, subscribe, stop, clean up | lock, `send_raw`, watch hub |
| Session `session.py` | the connection object, `send_lock`, sector memory (epoch, reading, carry), armed profile | `send`, `send_raw`, `note_sector`, `reconnect`, `mark_profile` | connection, lock (fence), terminal |
| Telnet connection `connection.py`, `iac.py` | socket, reader thread, `connected`, reader generation, redaction window | connect, close, send, `force_unblock_sends` | terminal, transcript |
| Guardian `guardian.py` | poll thread, in-flight and exhausted flags, idle clock | tick: keepalive or reconnect burst | session, login; not the lock |
| Login and credentials `login.py`, `credentials.py` | profile and secrets files, state of one login run | `run_login`, save and read secrets | session, settle, guardian, ensure |
| Settle detection `settle.py` | RX counter and clock of the session | `wait_for_settle`, `send_and_confirm` | every driver |
| Watch hub `watch.py`, `watchfeed.py` | subscribers, last emitted hash | subscribe, emit, reconnect of the client | daemon, cockpit |
| Clients `cli.py`, `adapters.py`, `attach_client.py` | none (read pidfile and socket) | `daemon_alive`, `ensure_raw`, `ensure_session`, `attach` | daemon process |
| Macro loops `loops/` | recorded macros on disk, one replay | record, validate, replay with rails | runners, ledger |
| Trade execution `trade_driver.py`, `bounded_repeat_*` ... | one pass over a chain | hop, haggle, rails | runners |
| Chain search, explore planning `chains.py`, `chain_search.py`, `explore.py` | none | bounded search over ports and warps | trade, explore runner |
| World model, captures `world_model.py` ... | JSON store | note a sector, union landmarks, parse reports | explore runner, cockpit |
| Reflex rules `rule_engine.py`, `rules/` | rule files | one screen to one macro or one stop, approval of a rule | cockpit, dispatch |
| Menu map `menu/` | map of menus | read-only crawl, walk | session |
| Classification, terminal `classify.py`, `terminal.py` ... | emulator screen | render, classify | everything that reads a screen |
| Advice `focus_status.py`, `ship_upgrade_decision.py` ... | prices captured from the yard | rank, decide, plan a purchase | cockpit, hold runner |
| Ledger `ledger.py` | append-only rows | write a row per key and action, read | session, cockpit |
| Teaching, catalogue, players | files | display, report | cockpit |
| Play shell `app.py`, `cockpit/` ... | one curses loop | keys, confirm gates, composed panels | daemon, over its socket |

`PROJECT.json` lists all of them under `components` with what is and is not
modelled.

**How they interact.** Requests arrive over a Unix socket, one thread each.
Whoever wants to drive asks the control lock: a one-shot dispatch holds it for
one `with` block, a run for as long as its thread lives, a human for as long as
the attach lasts. A human never waits for the seat: the attach *fences* whoever
drives, and `send_raw` waits, for a bounded time, for the fence to fall. Bytes
go out under `send_lock`, and a `sendall` may block for ever; the only way out
is to shut the socket down under it. The reader thread feeds the terminal and
owns the `connected` flag. The guardian polls that flag and reconnects, and the
readers of `state` and `status` look at everything, neither with any lock.

**What is hard.** The grants, preemptions, detaches and late releases of
threads that outlive their hold; the gap between a check of the lock and the
send it allows; a stop against a thread that cannot be interrupted; a memory
whose one wrong write is permanent, with readers that take no lock; a daemon
that may be killed between any two file operations and started twice at once;
recovery from a drop while someone else repairs the same connection.

**What makes each component correct**

- lock: one seat; nobody preempted is forgotten; a hold is lost to its owner's
  release or to an attach and to nothing else.
- runners and dispatches: legal callers of the lock, on every exit; no byte
  of theirs beside a human's; a stop ends the run.
- session: the remembered sector is where the ship is; a landmark is never
  recorded in the wrong sector; a keystroke gets to the socket.
- daemon and ensure: one connection per profile directory, found by the next
  caller; what a dead process left never blocks the next.
- guardian, ensure, login: one socket; the password and the keepalive reach the
  prompt they were meant for; a drop is answered or declared.
- settle: an answer is taken for an answer only when bytes arrived after the
  send; quiet means nothing is on its way.
- watch hub: the last thing a subscriber sees is the settled screen.
- macro, trade and explore rails: nothing is pressed past a floor, a reserve or
  a budget the game has told of; a report says what was sent.
- stores: what a finished write recorded stays, whoever else writes or dies.
- several windows: a password goes to the server its profile names.
- cockpit: what a `y` starts is what the screen names; whoever runs is watched.
- searches, readings, advice: what the documented rule allows, on what is on
  record; `exhausted` only when nothing reachable is left.

## 2. Modules

| Module | Models | Composes |
|---|---|---|
| `DrivingSeat` | what the lock promises, without its flags: one seat, and the preempted remembered until they wind down | |
| `ControlLock` | `session/control_lock.py`, one operator per method, each the one critical section it is | |
| `LockContract` | the lock under every legal caller, and its refinement of the seat | `ControlLock`, `DrivingSeat` |
| `AppDrivers` | the four runners, one-shot dispatches and attached humans, `send_lock`, the fence wait, the socket that may block or die | `ControlLock`, `LockContract` |
| `SectorMemory` | `note_sector`, epochs and carry of the Session; the explore run's landmark; the readers of `state`; keystrokes beside a preempted run; reconnect | |
| `DaemonLifecycle` | any number of starts, by ensure and by hand: `daemon.main`, `_claim_pidfile`, `_preflight_afunix_socket`, `_shutdown`, `_cleanup` against `cli.ensure_raw` | |
| `Reconnection` | the guardian's tick, burst and caught exceptions, ensure's repair, `Session.reconnect`, `run_login` of a known character, the shutdown | |
| `LoopPlayer` | `replay_loop` and its runner: rails over snapshots that grow stale, stop, report | |
| `Settle` | `send_and_confirm` and the two waits, against chunks of this send and of an earlier one | |
| `WireLog` | transcript, tail and `last_sent` against the reader thread's echo flag | |
| `WatchHub` | hub, subscribe handler, `WatchFeed` client | |
| `CredentialStore` | `secrets.json` and `profiles.toml`, call by call | |
| `Login` | `run_login` with registration, game letter and its three budgets, in a game that shows anything | |
| `TradeRun` | `run_chain` and its bounded repetition, with its own turn budget, in a ship of any turns per warp | |
| `ExploreRun` | the explore loop and `explore.py`'s planner, on a galaxy of one- and two-way warps | |
| `WorldStore` | sector, price and menu documents: flock, merge, temporary file, rename | |
| `MenuMap` | crawl, map, route and walk | |
| `TaughtStore` | macros and rules on disk: draft, record, promote, migrate | |
| `Arming` | from rule to proposal to running macro, pause and relaunch | |
| `PlayShell` | the cockpit's keys, gates, confirms, polls and runs | |
| `CockpitLayout`, `CockpitFrame` | where the panels go; what each frame shows of what a key would do | `CockpitLayout` |
| `ChainSearch` | hops, caps, closed cycles, ranking, and the search repeated for an approved chain | |
| `ScreenReading` | classes and values read off a screen in every state of repaint; what the status keeps | |
| `SharedSession` | several windows, profiles and servers behind one daemon | |
| `Outfitting` | the yard's listings captured row by row; ship, hold and focus advice; the hold purchase | |
| `AttachKeys` | the keys of `tw attach`: client, thread, wire, ledger | |
| `MCParts` | eighteen of the above, each alone, in one run; the instances | all but the next two rows |
| `MCSeat` | `SectorMemory`, `PlayShell` and `Arming`, each alone, in one run | those three |
| `MCAppDrivers`, `MCDaemonLifecycle`, `MCReconnection` | symmetry of one component | |
| `*Proofs` | theorems and proofs, section 4 | |

How state and actions correspond to the code:

**ControlLock.** Its variables are the fields of `ControlLock.__init__`. Every
method runs under the lock's own mutex from its first line to its last, so each
is one operator: `TakeHuman`, `ReleaseHuman`, `AcquireDriver`, `ReleaseDriver`,
`EnterAutoLoop`, `LeaveAutoLoop`, `SetMode`. `AcquireRefusal` and `EnterRefusal`
are the conditions of the early returns. `MaxGeneration` bounds the counter of
granted runs, which in the code only grows.

**LockContract.** `runs` is what no field of the lock says: the generations that
owe a release. The actions are the calls its callers make, in any order, with
the one thing every caller promises, to return its token once. `PanelToggles`
is `set_mode`; no caller in the daemon uses it today.

**AppDrivers.** A run is a record: its runner, where its thread is, its stop
event. The phases follow one boundary of the run: look at the hold
(`boundary`, `cleared`), `sending` inside `send_lock`, `settling`, then the way
out. The way out is four different orders of clearing flags and releasing the
hold, one per runner, taken from each `_run`; `ChecksOutstanding`,
`WatchesHold`, `Sends` and `UnblocksOnStop` name the other differences of the
four files. A bounded wait (the join of a stop, the fence wait of a keystroke)
is an action that may fire whenever the condition it waits for is still false.
`broken` is a thread whose `sendall` will raise.

**SectorMemory.** The game is a queue of commands and a ship; a reaction moves
the ship, or shows a screen, some time after the send. `BumpSectorEpoch` is the
one invalidation, first thing in every send and in reconnect; `ExploreLooks`,
`ExploreNotes`, `ExploreHops`, `ExploreAttributes` are the points of the
explore run that read the screen, note, send and record; `PollRenders` and
`PollNotes` are the two halves of a `state` request. The drivers of
`AppDrivers` appear as one variable `driver`; a human types whenever a human has
the seat or a preempted explore run is still at work. `astray` is a history: a
reader of `state` has noted a screen that was no longer shown or had an answer
due, or a key was typed while a preempted run held a screen it had not yet acted
on.

**DaemonLifecycle.** `pc` walks through `main` call by call; every file
operation is an action, because a kill may come between any two. The pidfile is
who made it and whether its pid is written; the socket node is who bound it.
An unlink is by name, whoever made the file. Starts and stops may overlap in any
way. `past` is a history: it has "start" once a start has begun amid another,
"stop" once one has begun amid a stop, and "hand" once `twd` was launched by hand.

**Reconnection.** A socket has a number, a prompt at the game's end, and the
inputs on their way. `conn` is `Session.conn`: the socket of the current
connection object (0 before its `connect`), its flag, and `stillborn`: a close
that arrives before the `connect` sets only `_stop`, so the connection comes up
with a reader that ends at once and a terminal that stays blank. Each of the two
threads walks `closing`, `replacing`, `connecting` (the lines of
`Session.reconnect`) and `reading`, `naming`, `typing`, `settling` (one round
of `run_login`: classify, decide, send, settle). `Shown` is what the terminal
shows: it stays when the socket goes, and is blank between the replacement and
the first bytes. `Fails` is the `except` of the burst (`OSError`, `LoginError`),
`Escapes` everything it does not catch: an unreadable `secrets.json` at the
password prompt (`credentials.py:191` by way of `login.py:743` and `779`), or a
`profiles.toml` that is no TOML. It ends in `_loop`'s `guardian_tick_error`
(`tickError`). `ShutsDown` is the end of the process in any state. Nothing keeps the two threads apart
or makes the game answer in time; two histories say when it has mattered: `raced`,
both have been in `Session.reconnect()` at once; `blind`, a screen was read with
an input unanswered, or the wire used between another thread's read and its send.

**TradeRun and ExploreRun.** A warp takes `PerWarp` and `HopTurns` turns from the
ship (`ship_upgrade_decision.py:68-69` has ships of 3 and 6); the trade driver's
budget and the explore run's order lose one for it. A way between two ports has
up to `Longest` warps, and a dock's report, if the game gives one, sets the
driver's budget right (`Reconciled`).

**The parts.** Each has its own header, which says what a state stands for and
what is left out. What they share: a thread's position is a string named for the
line it is about to execute; the game is `\E` over what it may answer; a file is
an inode that may hold less than a whole document; a kill is an action enabled
between any two calls; a data value is a member of a small set. `MCParts` and
`MCSeat` put parts together that have no state in common: `part` is chosen at
the start, the others keep one initial state, so that one run explores each
part's behaviours in turn, at the sum of their costs. `PartsAreParts` and
`SeatPartsAreParts` say that nothing is added by this.

Names bundle what is checked together: `ExploreSound` is the conjunction of
`TurnsWithinBudget` and `ChainWellFormed`, `DecisionsRight` of the properties of
the six parts that compute, and so on. Each conjunct has its own definition, its
own comment and a mutated form, an operator with a plausible bug (`... Mutated
form: ...` in the modules, `mutants` in `PROJECT.json`) under which it fails.

## 3. Runs

| Run | Instance | What it shows |
|---|---|---|
| `drivers_macro` | one human, macro and trade runner, 2 runs | types; no App byte beside a human's; a preempted macro yields; a stop ends a run whose `sendall` never returns; a keystroke behind a wedged run gets to the socket |
| `drivers_mixed` | one human, one dispatch, 3 runners, 2 runs | every thread is a legal caller of the lock (`LockContract` as a property); no run loses its stop handle |
| `drivers_unyielding` | the explore runner (violation) | a preempted explore run goes on sending |
| `sector_seat` | 3 sectors, 1 reader, 5 bumps, 2 in flight; 2 offers; 2 passes | memory and landmark right until a reading is overtaken; the shell watches what it starts; what is armed was promised |
| `sector_polled` | 2 sectors, 1 reader (violation) | one reader of `state` makes an explore run record a wrong landmark |
| `daemon_life` | 4 processes, 2 clients, any overlap, by hand as well | the pid in the pidfile is its maker's; one connection until a start begins amid a start; reached and unblocked as long as ensure starts daemons one at a time |
| `daemon_raced` | 3 processes, 2 clients (violation) | two daemons connect |
| `reconnect_serial` | 2 attempts, 2 sockets up at once, 2 unanswered inputs | one socket until two repair at once; password and keepalive at their prompts until a screen is overtaken; every drop answered or declared, every burst decided |
| `parts_safe` | eighteen parts, two actors each | what each part must never do, and what the computing parts conclude |
| `parts_live` | nine parts, smaller | a run, send, login, exploration, crawl, ensure ends; a writer is served; a seat comes back; a watcher converges |
| `ensured_other_player` | two windows (violation) | a window explores under a profile that is not in the game |
| `trade_budget` | one pass, two turns a warp (violation) | after a warp the driver's budget promises turns the ship has not got |

`parts_safe` checks, part by part:

| Part | Safety | In `parts_live` |
|---|---|---|
| lock | `SeatSafe`, `HoldsAndFencesKept`, `ImplementsSeat` | |
| player | `RunAccounted`, `RailHonoured` | a replay ends |
| settle | `ConfirmedIsAnswered`; in `NothingTypedBlind`: a confirmed prompt is still there | a send is decided |
| wire | `SecretsRedacted` | |
| watch | types | `ClientConverges` |
| credentials | `CredentialsKept` | |
| login | `PasswordsKept`; in `NothingTypedBlind`: the letter is not repeated | a login ends |
| trade | `RailsKept` | |
| explore | `ExploreSound`; in `DecisionsRight`: exhausted means mapped | a run ends |
| world | `NothingForgotten`; in `NothingErased`: landmarks stay | a writer is served |
| menu | `MapSound`; in `NothingTypedBlind`: a walk stops astray | a crawl ends |
| taught | `TaughtSound`; in `NothingErased`: no neighbour overwritten | |
| shared | `PlayersApart` | an ensure ends |
| chains, screen, outfit, frame | their conjuncts of `DecisionsRight` | |
| keys | its conjunct of `DecisionsRight`: in order, accounted, once, rows kept | the seat comes back |

**Bounds, and why they are enough.** Two runs let one be wedged in its send,
or wind down after an attach, while the next is refused or granted, by the same
runner or by the other; four generations in the lock's part let three preempted
runs be outstanding while a fourth holds. Five bumps of the epoch hold a reading,
two sends, a two-command paste and a reconnect in any order, with a reader in
between. Four processes are two starts at once, one of which loses, beside
a daemon that stops and the leftover of a kill; past that the theorems take over. Two attempts
have a failing first, a last, and a burst after one that succeeded. Two sockets
may be up at once, the session's and one that a race leaves behind; a closed one's
number is used again, so that there may be any number of reconnects.
Two unanswered inputs are one more than a correct login ever has on its way; an
input past them is not kept. What the game does with a socket the session has left
is not followed. When both sockets are up, `connect` can only fail, which is also
what a server that is down does.

In the parts, two writers, windows or logins are what it takes for one to act
between two steps of another; a macro of two steps and two cycles has a first
step, a last step and a pass after a pass; a chain of two hops has a buy, warps
and a sale in both roles, ways of one warp and of two, and a ship of two turns a
warp, whose tank of ten empties on the way. The galaxy has a row of ports, a one-way ring and a dealer;
an order of two turns is a hop and a dock, so that both are the last. Two attachments are
a key said to be lost and the same key pressed again; two mishaps are a kill and
a lost connection. Cockpits stand on terminals on both sides of every threshold
of `frame_layout`. What the bounds leave open is what section 4 is for.

`CHECK_DEADLOCK FALSE` stands in the daemon configurations, where a process is
spawned once and all may have lived and died, and in those of the parts, most of
which come to an end.

**Fairness.** `AppDrivers.FairSpec` gives weak fairness to each thread's own
steps, which is what a preemptive scheduler and bounded waits give it; nothing
to humans, who need not type, and nothing to the return of a `sendall`, which
may block for ever. Strong fairness is used for the acquisition of
`send_lock`, which others take in between, and `TimelyNext` says that a new
connection does not come up before the threads that failed on the dead one have
noticed, which a reconnect with its close, connect and login gives them time
for. Without it, a thread that meets one reconnect after another that wedges
again may wait for ever. `Reconnection.FairSpec` gives weak fairness to both
threads, to the reader thread and to the game, and strong fairness to
`TickDropped`, since the poll comes round while no ensure is under way; nobody
is obliged to ask for an ensure, nothing has to escape, and the daemon need not
be shut down. `FairPartsSpec` gives weak fairness to the
steps of the part at work that are a thread's, the game's answer to a send, or
the passing of a timeout; never to a human, an operator, a kill or a fault.

## 4. Proofs

TLC checks small instances; the theorems hold for every value of the constants
that satisfies the named assumptions of the modules. Each component's proof is
built the same way: an inductive strengthening, `Init => Inv`, one lemma that
every step keeps it with one step per action, and a closing temporal step.

| Module | What is proved | The strengthening, and why it is needed |
|---|---|---|
| `ConsoleProofs`, the lock | types, `SeatSafe`, `HoldsAndFencesKept`, and that the lock implements `DrivingSeat` | the standing hold and the fenced generations *together* are exactly the runs that owe a release, disjoint and in the past: a late `leave_auto_loop` could otherwise free a hold not its own |
| `AppDriversProofs` | types, `QuietWire`, `EveryRunStoppable`, `CallersKeepContract`, `MacroYields` | the lock's books agree with where each thread stands (`Books`, `OneDispatch`, `OneHuman`), a run not yet published is the registered one, and who types saw the fence down and nothing can raise it (`FenceDown`) |
| `DaemonLifecycleProofs` | `ConnectionInv`, `PidfileInv`, `ServingIsReachable`, `LeftoversNeverBlock` | as long as the histories say so, starts are serial, whoever is past the claim owns the pidfile with its pid in it, and nobody is past it while a pidfile is stepped over |
| `ReconnectionProofs` | `WireInv`, `InputsAtTheirPrompts` | until the threads have raced, one repairs at a time and the old socket is down before its object is dropped; a dead socket has nothing on its way; until one was blind, what a thread read is still true when it sends |
| `SeatProofs` | `LandmarkStands`, `MemoryInv`; `ArmInv`, `NoRuleOverridden`; `RunsAccountedFor`, `HandsOffWhileAttached`; `NothingUnapproved` of the run | until a reading goes astray, what the terminal shows and what a run has read and not yet used are where the ship is, and the carry survives one command; a macro on its way belongs to a promise; a shell that is left has no connection and an attach has one |
| `StoreProofs` | `CredentialsKept`, `NothingForgotten`, `LandmarksKept`, `TaughtSound`, `NeighbourKept` | who is between its calls holds the inode it made, and it is of no other name; who holds the flock has merged what is in the document; a draft stays until its successor is in place, and what a migration has passed has its file |
| `RunProofs` | `ConfirmedIsAnswered`, `PasswordsKept`, `RailsKept`, `RunAccounted`, `RailHonoured`, `MapSound`, `SecretsRedacted`, `PlayersApart`, `ExploreSound` | below |
| `ConsoleProofs`, the console's parts | types of all of them; `AttachSound`, `HereOrNothing`, `HudLatest`, `StatusAnswers`, `StartedAsApproved`, `OutfitSound`, `FrameSound`, with `Tiled` for every terminal | below |
| `PartsProofs` | of the composition `PartsTypeOK`, `NothingErased`, `NothingTypedBlind`, and of `DecisionsRight` the conjuncts above | the parts' own theorems |

The strengthenings of `RunProofs`:

- *A confirmed send*: with nothing of an earlier send under way every chunk is
  an answer, and so is every count past the one read before the send.
- *A login*: a returning account's password is marked as used when it is
  decided, before it is typed; one that is sent for a new account is stored
  already. Past the game menu the session knows that its letter was answered.
- *A trade run*: the driver's budget exceeds the ship's turns by no more than
  what the warps since the last dock cost beyond one each (`Uncounted`), there are
  at most `Longest` of them, and a warp that is asked about has already been taken
  off the budget; where it means to pay, the
  credits stand above floor and offer. The theorem holds as long as the game
  hides nothing from the driver (`mute`, `strayed`), as the property says.
- *A macro run*: a run that has pressed late is not about to press again; the
  finished passes and the steps of this one are what the wire has seen; gauges
  the game has shown since they moved are known as they are.
- *The menu map*: replayed, the steps kept for a node lead to it, and each falls
  on the menu it was read on; `Shortest` returns a way of the map.
- *The log*: the echo of a secret that is under way is announced by the flag, or
  its send has not returned yet, or another send or echo came between, which is
  what the property excepts.
- *Several windows*: past the first gate a window's player belongs to the
  daemon's server; a daemon that is not up plays nobody and serves nobody.
- *An explore run*: the hops and docks of a run, each at the turns of a warp, with
  the one it is about to make, stay within its order; the chain hunt's anchors, with the one a plan carries, are known
  ports, each once, no deeper than `Depth`, and a visit is to no anchor.

The strengthenings of `ConsoleProofs`, beside the lock's:

- *An attach* (`AttachInv`): one handler has the seat; of client, handler, ack
  and request only the pairs of places occur that the protocol allows
  (`Together`), which is what excludes an ack of an earlier key being taken for
  a later one's; one client follows the other; what is still to be sent comes
  after what was sent; a key that was read is on the wire or named NOT SENT; a
  client that has gone left a key behind only if it gave up on it. The ledger's
  books count what a kill may lose (a row) and spoil (the line glued to a torn
  one), which gives the bound of two lines for a kill.
- *The screen* (`ScreenInv`): of each kind of statement the lowest one on the
  screen is the one the game made last (`LowestIs`), though the screen scrolls
  and lines are painted in halves: what is due speaks of the ship as it is, what
  is on the screen of one with no more holds. A half line is the first of those
  due and the last on the screen.
- *The chains* (`SearchInv`): stack and path of the search grow and shrink
  together, the caps hold in every step, and nothing is armed while it searches.
- *The yard* (`OutfitInv`): what a finished listing says is on file or some
  window has yet to store it, itself or in the listing it is working through
  (`ListedOrOwed`); a capture under way holds rows of one listing; the file
  names each good once.
- *Advice* needs no state but that what is quoted is typed: it is proved by
  ranks. In a finite list under a strict weak order the places of the elements
  are 1 to n (`RankedPlaces`), the first of what is picked out of a ranked list
  is one that none of the picked ones precedes (`PickedPlaces`), and the
  lexicographic orders of the code are such orders (`PreferenceOrders`,
  `AheadOrders`).
- *The frame* (`FrameInv`): one gate is up, or the arm confirm over the rule
  form, and the cursor of an open list stands on a row. A frame is then proved
  right of any such cockpit: the window of a list follows its cursor to a place
  where its row is drawn whatever notes stand above it (`CursorInWindow`), and
  the pieces of the strip, six at most, are each at least one column and add up
  to the row (`StripFilled`).
- *The layout*: from 20 lines on every reserve is granted in full, and the
  panels lie in three bands and three columns.

**Assumptions.** `StoreProofs`, `RunProofs`, `PidfileKept` and, but for the
yard, `ConsoleProofs` assume nothing but the constants' types: lists are lists,
sets that are counted are finite, bounds are numbers, a terminal has a line, a
ship's warp and a loop's turns are not 0 (`int(... or 1)`,
`ship_upgrade_decision.py:733-788`), a screen starts without a gate and with its
list closed, and the signs of life - two glyphs and a count - leave the strip
of the smallest terminal a column (`life`, `cockpit/liveness.py`). Of the yard `ListedOnce` assumes
that a listing of the game names a good once, as a file of one row to a name
can tell only then what the listing says. `AppDriversProofs`, `DaemonLifecycleProofs`,
`ReconnectionProofs` and `SeatProofs` assume nothing of how the threads interleave.

**Where an invariant holds only until something happened.** Some promises
the code keeps as long as one interleaving stays away that it does nothing to
prevent. They are not proved under an assumption that it stays away: the models
let it happen, a history variable remembers that it did, the property is stated
of every history, and all that the exception covers is what comes after.

| Promise | Stated until | and then |
|---|---|---|
| one connection, named by the pidfile (`ConnectionInv`) | a start begins amid another (`past`) | run `daemon_raced` |
| reached, and not blocked (`ServingIsReachable`, `LeftoversNeverBlock`) | a start overlaps a start or stop, or `twd` is launched by hand (`past`) | section 5 |
| memory and landmark (`MemoryInv`, `LandmarkStands`) | a reading is overtaken before it is used (`astray`) | run `sector_polled` |
| one socket (`WireInv`) | both threads were in `Session.reconnect()` at once (`raced`) | section 5 |
| secret and keepalive at their prompts (`InputsAtTheirPrompts`) | a screen was read or acted on while the wire moved (`blind`) | section 5 |
| a preempted macro begins one send at most (`MacroYields`) | a run of another runner was granted after it (`Overtaken`) | section 5 |

The exceptions are as narrow as they could be made: a start may overlap a stop
under `ConnectionInv`, a reader of `state` may note whatever is still shown, and
guardian and ensure may overlap as long as they are not both between close and
connect. The proofs carry a strengthening `Inv` as `disturbed \/ Inv`: histories
never fall, so a step from a disturbed state leads to one, and a step that
disturbs nothing keeps `Inv`.

**From the parts to the run.** A part's theorem is about its own specification.
`PartsAreParts` and `SeatPartsAreParts` show that every behaviour of the
composition is a behaviour of each of its parts (eighteen and three), so that
every invariant above holds in the runs that check it; `NothingIsErased`,
`NothingIsTypedBlind` and `NothingStartsUnapproved` conclude the action
properties that span parts, `PartsTyped` the types of all, `DecisionsHold` what
is proved of `DecisionsRight`.
`ThreadsKeepContract` joins the threads to the lock in the same way: what is
proved of the lock under every legal caller holds in the daemon.

**What a proof changed.** The property that a login does not repeat the game's
letter at one stale repaint was, in an earlier form, true of a login of two
rounds only; the attempt to prove it showed why, and it now says what the code
ensures (section 5). A choice among equals in the planner is now a set of
plans, as the order of a Python set is not part of what is promised. Sorted and
filtered lists (`HopsOf`, `RankedCandidates`, `Picked`) are said by the place of
each element, a function, where the library's operators recurse; the band that
fits (`FittedBand`) is the first by its number, and the columns of a strip
(`Length`) are a sum of six terms, as it never has more pieces. The constants'
types are assumptions by name in every module that is proved about.

**Only model-checked.**

- every liveness property (`NobodyStuck`, `DropsResolved`, `ClientConverges`,
  `PartsEnd`): the prover has neither fairness nor ENABLED;
- of `DecisionsRight` what recursive searches and folds over a screen, a market
  or a list compute, which needs induction over data, out of the installed
  provers' reach: that the search finds every ring (`AllOrNoted`), that a report
  or a display is read as a whole from what was painted over many polls
  (`PromptNamed`, `ReportWhole`, `OneDisplay`), that an exhausted run has mapped
  the galaxy (`ExhaustedMeansMapped`, over the recursive `Ball`), and the ranks of
  the found chains (`LastingFirst`, `PairsCoverChains`).

## 5. Assumed, and not ensured by the code

What the repository says and the models refute. Where no run is named, put the
property after `INVARIANT` (or `PROPERTY`) in the configuration to see TLC's trace.

| Statement of the repository | Refuted as | By |
|---|---|---|
| a human attached, so the trainer yields unconditionally (`canon/architecture/control-and-escalation.md:109`) | `PreemptedRunSendsAtMostOnce` | run `drivers_unyielding`: the explore loop asks the Session for `is_driver_fenced` and `should_abort`, which it does not have (`sector_explore.py:1153`) |
| one wrong write is permanent, so the memory fails closed (`session/session.py:163-167`) | `LandmarkIsDock` | run `sector_polled`: a `state` request renders, the ship warps, the request notes the old sector with the new epoch |
| `O_EXCL` makes create and claim one atomic operation (`session/daemon.py:541`) | `OneConnection` | run `daemon_raced`: the pid is written by a second call, and an empty pidfile counts as stale |
| some hold standing and my hold standing never come apart (`session/autoloop.py:115`) | `late <= 1` of every macro run, without `Overtaken` | `drivers_macro`: the trade runner reads the outstanding generations before the attach and enters the hold after the detach; the macro run of before takes that hold for its own |
| the keystroke is always eventually sent (`session/session.py:1025`) | `KeyOutlivesFenceBound` | one attacher, one dispatcher, the macro runner: the socket is shut down under the keystroke's own send |
| exactly one thread drives at any instant (`README.md:79`) | `OneDriverOnTheWire` | the same: `acquire_driver` does not look at fenced generations |
| true when attach fenced this dispatch (`session/protocol.py:1274`) | `InterruptedMeansThisDispatch` | the same: the signal is shared with every preempted run |
| attribution follows App-driven navigation only (`sector_explore.py:738`) | `LandmarkIsDock` | `sector_seat` with `Pollers = {}`: a preempted explore run notes what it read before the human's key |
| the unlink is safe because the pidfile was claimed above (`session/daemon.py:625`) | `SocketIsItsOwn` | `daemon_life`: after a launch by hand or an overlap, the socket probe runs before the claim and removes a live daemon's node |
| the stale-socket unlink protects a restart (`session/daemon.py:617`) | `LeftoversNeverBlock` without `past = {}` | `daemon_life`: started by hand, the probe's own `bind` meets the leftover first |
| single connection through recovery (`canon/architecture/resilience-and-reconnect.md`) | `OneSocket` | `reconnect_serial`: the guardian takes no control lock, so its burst and an ensure may both replace the connection and both log in. The cockpit's connect toggle after a disconnect makes the two meet |
| the saved password is sent at its prompt only (`login.py`) | `SecretAtItsPrompt`, `NudgeAtCommand` | `reconnect_serial`: the same two; or a name sent again, because the first was not confirmed in time, is the late game's next input |
| the exhausted flag holds until a successful reconnect (`guardian.py:14`) | `ExhaustedUntilLoggedIn` | `reconnect_serial`: the last failed attempt may leave the socket up, and the next tick clears the flag |
| one turn a warp is a conservative estimate (`trade_driver.py:94-96`) | `BudgetIsConservative` | run `trade_budget`: `_navigate` takes one turn off for a warp in any ship (`trade_driver.py:803`); in one that burns two, the budget promises turns the ship has not got, until a dock's report sets it right. The reserve may be missed by what the warps of one way cost beyond one each |
| two characters of one server are two worlds (`world_identity.py:10`) | `NoGalaxyBleed` | run `ensured_other_player`: ensuring a second character of the server is answered `already_there` (`protocol.py:2111`), the first stays in the game, and what it explores is filed under the second |

**Other observations made while modelling**, by component.

*Session, guardian, ensure.* `resilience-and-reconnect.md:39` says that a later
poll retries after exhaustion, the code does not; a failed `ensure` leaves the
session connected on an unknown screen, and the guardian does not act on it; the
disconnect verb is undone by the guardian's next poll when a profile is armed; an
exception of the burst other than `OSError` and `LoginError` ends it with a
`guardian_tick_error` and neither flag: from an unreadable `secrets.json` the
socket stays up at the password prompt and no later poll retries, as it looks at
`connected` alone; from a `profiles.toml` that is no TOML
(`protocol.py:1724-1725`; the docstring says it never raises) the connection is
as the last attempt left it, and every poll that finds it down begins again. `_control_lock_error` reads three fields of the lock in three critical
sections; a start within `_cleanup` of the old daemon may lose its socket node.
Another profile of the same server is answered `already_there`; a retarget stops
whatever daemon answers at that moment; `stop` asks nobody, even with a human
attached.

*Drivers.* With the explore runner beside a human `NobodyStuck` is false as well:
a preempted explore run goes on sending, may wedge in its `sendall` on a
reconnected socket, and then holds `send_lock` against the human's key.

*Login* (`session/login.py:430-458`). The comment says that the door is opened
again only when the game menu is persistently classified. `stagnant_rounds`
counts rounds of any screen: after two unconfirmed answers at another prompt one
repaint of the menu gets the letter again. TLC finds it from `MaxSteps = 3` on
with the stronger `LetterNotRepeated`.

*Attach.* The client waits 5 s for an ack (`attach_client.py:32`), the daemon up
to 11 s for the fence, and then sends anyway: the client prints that keystrokes
are not reaching the game and exits 1 although the key is delivered seconds
later; pressed again it is sent twice. A row's text is read from `last_sent` after
`send_lock` was released, so a login of the guardian in between puts its text
under the human's name. A kill in the middle of an append leaves a torn line that
the next row is glued to; `read_entries` drops both.

*Macros and rules.* An exception in pass two or later leaves a report that says
"completed", with the sends undercounted (`autoloop.py:1225-1279`). A relaunch
drops the profit target (`protocol.py:1108-1113` against 1077-1081); its refusal
comes back as `internal_error`; a pause of a run that stands down relabels it.
`propose_macro` reads the rule store without the world's id. A rule's temporary
file ends in `.json` (`rules/writer.py:113`), and the store reads it: partly
unreadable during each write, and for good after a kill, which the comment at
122-124 excludes; a killed promotion leaves an approved rule to be read. A macro
of the same stem is overwritten (`recorder.py:646-648`); approving `X` may approve
the draft of a `Y` of its stem (`writer.py:214-225`); a crash in a migration
leaves the rest of the old store behind.

*Trade and chains.* The quantity prompt of the sell leg also matches a buy prompt,
and the sell branch has no cash floor (`trade_driver.py:182-188`); only chains of
two hops and more are planned. `compatible_but_unrouted` is also said when a
route exists and crosses a hazard; a chain's identity takes in its margins, so a
port observed again makes an approved chain stale.

*Explore.* The order of a run counts hops and docks, not turns: in a ship of
three turns a warp it costs three times what was asked, and retreats from fighters
are not counted at all. An operator's stop at the loop's head is reported as a crash
(`sector_explore.py:1148`); `find_stardock` with StarDock on record but no known
way gives up without a frontier (`explore.py:476-501`); the recovery of an
exhausted run with a known StarDock goes to and fro until its turns are gone
(358-387); `denied` filters unmapped sectors only; a sector display with a hop
pending is waited on without a bound. A sector out of the catalogue keeps its
"dead-end" tag for ever, and one-way hops into the main map make it a sink.

*Screens.* After a purchase of holds a port line with more empty holds than the
remembered total makes every `status` fail until the ship's sheet is shown; a
holographic scan left on the screen is attributed to the ship's own sector;
another ship's destruction in the scrollback classifies as `ship_destroyed` over
a live prompt; ages restart at every poll while old text is still on the screen.

*Cockpit.* With `arm` and `identity` both up the form is painted over the confirm
that takes the key (`screens.py:2315-2317` says it cannot be); on a terminal too
small to draw, a gate can be raised and answered. The list of chains does not
count one line of its own and can scroll its selected row off; taught rows and
rules are not windowed. `F` off is shown as on whenever the band is refitted.
A status line hides the newest log when logs are three rows. Pressing `E` over a
running exploration clears its poll flag; the genesis confirm can never be
answered with a send; "panic", "assign_trigger" and "loop" are dead.

*Menu crawl.* After an unconfirmed press it presses sibling options on a screen
it never read (`crawler.py:845-849` against 680-683), and stamps "complete"
although nodes were given up.

*Outfitting.* The cash floor is compared with the credits before a purchase only;
the driver refuses every purchase with `unknown_qty_range`, because it looks for
the screen under names Session does not have; the App's own hold purchase can
never fire, against the docstring at `app.py:979-1025`; a capture that fails
between two rows leaves half a listing and remembers it as captured.

## 6. Not modelled

Within the modelled components: the screens of the hold purchase; haggling,
which no caller turns on; validation of documents beyond one predicate; the IAC
byte machine; a reused pid; Ctrl-C on a `twd` in the foreground; keystrokes of a
human during a guardian's burst or nudge; two macro writers sharing one
temporary file; the record session, the rules library and the create form of the
cockpit; `find_formations`. In `SectorMemory` a settle that ends "idle" means
that nothing is in flight, an App send is one command, and the guardian's own
sends are left out. `Outfitting` leaves out the `defense_floor` gate of an upgrade
(`ship_upgrade_decision.py:172-183`), its turn reserve and the trade-in credit (61-62, 116-118), as the
daemon's `status` supplies none of the three inputs. In `PlayShell` the trade run's
stop condition is left out, and the explore key's stop and start are two steps, between
which other things may happen. In `ExploreRun` a retreat costs no turns of `spent`. A rendered screen is atomic everywhere but in
`ScreenReading`, where a line may be seen half painted.

The components not modelled, with the reason for each, are in `PROJECT.json`:
the terminal emulator, the player bank, and command-line readers of local files.

## 7. Plan

Done: every component with state that several actors share, and the decisions
made from it; theorems for every safety property of the runs but those named in
section 4. Next, in this order:

1. **The ranks of the chains** (`LastingFirst`), with `RankedPlaces` and
   `PreferenceOrders`.
2. **Formations** (`formations.py`): the catalogue, its tags in the sector
   records and the guards that read them, whose staleness section 5 notes.
3. **Density and CIM captures** as writers of `WorldStore` with their own merge.
