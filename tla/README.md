# Tensies in TLA+

Tensies is a multiplayer dice game: a FastAPI server with a WebSocket per
client, game state in Redis, several server instances side by side, and a
browser client. This directory models the parts of it whose correctness depends
on the order in which connections, background tasks, instances, crashes, frames,
timers and taps act, checks the models with TLC on small instances, and proves
the central invariants with TLAPS for every number of connections, players and
instances.

All paths below are relative to the repository (`server/ws.py` is
`src/server/ws.py`, `static/js/net.js` is `src/static/js/net.js`, and a bare file
name of the client is one of `static/js/` or `static/js/components/`).

## Inventory

| Component | State it keeps | Operations | Talks to |
|---|---|---|---|
| Game store (`server/gamestore.py`) | one Redis hash per game (meta, `order`, `p:{pid}:*`), `games:index`, GEO index, counters | Lua scripts create, join, drop, claim a connection, mark disconnected, restamp, end a pause, finish a round; plain HSET and pipelines for the rest | every handler, every task, the reaper |
| WebSocket handlers (`server/ws.py`) | a `Session` per socket (pid, code, `conn_seq`), `state.connections`, `state.sessions` | `ACTIONS`: auth, create, join, start, checkin, reconnect, roll, pause, end_game, leave, roll_done, pong; the disconnect cleanup in `finally` | store, fan-out, tasks, telemetry |
| Background tasks (`server/broadcast.py`, `server/state.py`) | `drop_tasks`, `pause_tasks`, `ack_events` of an instance | `drop_player` (grace), `pause_timeout`, `delayed_broadcast` (reveal, win delay), `do_drop`, `advance_round` | store, fan-out |
| Reaper (`server/reaper.py`) | none of its own | `_sweep` every `REAP_INTERVAL`: drop, hand over, end pauses, prune | `do_drop`, `end_if_paused_over`, store |
| Fan-out (`server/fanout.py`) | one Redis subscription per instance | `publish`, `_run`, `_deliver` | sockets of the instance |
| Rounds (`server/game.py`, `handle_roll`) | dice, locks, `round_over`, `round_num`, `round_advance_pending` | roll, win, pause, defer, advance, deal | store, tasks |
| Discovery (`gamestore.py`, `handle_checkin`, `db_places.py`) | place fields, GEO index, Postgres row | check in, check out, nearby, prune | places service, store |
| Limits (`rate_allow`, `conn_incr`, `conn_decr`) | Redis counters with a TTL | count, reset, refuse | every intake |
| Roll client (`roll-phase.js`, `roll.js`, `animations.js`, `game-render.js`, `overlays.js`) | phase, held and stashed frames, timers, two modal overlays | `transition`, pump, reveal, pop, `showFor`, `updateDiceInPlace` | `net.js` |
| Client connection (`net.js`, `session.js`) | the saved session (pid, code, token), the socket, the reconnect loop | connect, attempt, retry, fatal error, leave | server, localStorage |
| Screens (`router.js`, `transitions.js`, `sheet.js`, `landing-screen.js`) | active screen, history entry, deferred swaps, join sheet | `navigate`, `popstate`, `showFor`, `showScreen`, open and close the sheet | `net.js`, fetches |
| Lobby and nearby screens (`nearby-screen.js`, `geo.js`, `lobby-screen.js`) | polls, compass, the place search and its cache, list rows and their exits | enter, leave, poll, search, render | server, geolocation |
| Account in the page (`auth.js`, `account-sync.js`, `nav-menu.js`, `signin-screen.js`) | token, cached profile, back-off, headers | sign in, sign out, expire, `loadProfile` | `/api` |
| Accounts (`server/auth.py`, `db.py`) | users, credentials, challenges, `player_stats` | register, login, me | Postgres, Redis |
| Randomness (`drand.py`, `rolltrust.py`) | cached beacon, audit fields | generate, verify | drand, store |
| Telemetry (`server/telemetry/*`) | bounded queues, batches, live tables | emit, subscribe, flush, roll up | Postgres |
| Discord cards (`server/discord.py`) | message id per game | process, render, edit | Discord |
| Audio codec (`static/js/audio-share.js`) | none | encode and decode a game code | Web Audio |
| Places proxy, HTTP routes, widget, QR, assets, configuration, migrations, tools | caches and read-only pages | | |

What is hard about it, and what makes each part correct:

* **Seats.** A player's seat outlives its socket: a closing socket, its
  reconnect on another instance, the grace task of a third, every reaper and
  the host's pause all write the same hash. Correct when at most one connection
  can speak for a seat, a seat is taken away only from one who left or whose
  grace has run out in a running game, a removed player is eventually removed
  although an instance died, and a paused game is not stuck with an absent host.
* **Rounds.** A win is claimed by compare-and-set, announced after the reveal
  and advanced three seconds later by a task; a pause in between defers the
  advance to the resume. Correct when each round is won once and followed by
  the next, and never left closed.
* **Fan-out.** Snapshots are taken and published at different times, and the
  roller's acknowledgement is an event keyed by player. Correct when a client
  ends on the newest state.
* **Discovery.** Three stores written one after the other, with an HTTP call
  between the guard and the write. Correct when a started or deleted game ends
  up off the radar.
* **Limits.** Counters whose window is set by a second call. Correct when a
  counter cannot outlive its window and the cap is given back.
* **Clients.** A reveal holds frames back while the server moves on; screens are
  swapped a frame, a wait or a request after they were asked for; a lost session
  is resumed by sockets that come and go. Correct when no frame is lost for good,
  no phase is left without an exit, what is in view is what the address bar, the
  session and the last frame say, and a saved session is one seat's.
* **Sign-ups.** Several requests claim one player's history while the telemetry
  writer adds to it. Correct when what someone played stays theirs.
* **Audio.** A decoder in a noisy room. Correct when a clean repetition is
  enough and a code it reports is the code that was played.

PROJECT.json lists every component with its status and every hazard at its line.

## Plan

| Module | Composes | What it says |
|---|---|---|
| `SeatStore`, `Seats`, `SeatLedger` | | who holds a seat; implements the ledger |
| `Rounds`, `RoundClock` | | roll, win, defer, advance, deal; implements a clock that counts rounds one at a time |
| `RollPhase`, `RollTab`, `RollClient` | | one player's page during a game, against the frames a server sends and loses |
| `Sessions`, `Screens` | | the saved session over lost sockets; routes, history and deferred screen changes |
| `Radar`, `Places`, `Roster`, `Account`, `AudioShare` | | the stateful pieces of the other screens |
| `Discovery`, `Fanout`, `Signup`, `ConnectionCap` | | the server's other races: check-in, frames across instances, claims of a history, the cap of an address |
| `MCParts` | the eleven modules of the last three rows | one of them at a time, in one run |
| `SeatsProofs`, `RoundsProofs`, `RollClientProofs`, `LatestShownProofs` | | theorems about seats, rounds and the page in a game |
| `SessionsProofs`, `PageProofs`, `FanoutProofs`, `KeysProofs` | | theorems about the parts |

Left for later: the reaper over several games, one of them broken (`Sweep`, over
`SeatStore`); a composition of `Seats` and `Rounds`, for the rolls and deals of a
roster that changes.

## Modules

### SeatStore: the hash

The seat half of one game's Redis hash and the scripts that write it. Redis
runs a script or a `MULTI` pipeline atomically, so each is one operator from a
hash to a hash, with the guard as an operator of its own when the script can
refuse.

| Code | Model |
|---|---|
| `order` (a JSON array of pids) | `order`, a set of entries `[at, pid]` numbered from 1; a player who joins twice has two |
| `p:{pid}:name` and the other fields | `seat[p].rec`: `none`, `named`, or `bare` (fields without a name) |
| `p:{pid}:disconnected` | `seat[p].conn`: `none`, `on`, `off` |
| `p:{pid}:disconnected_at_ms` | `seat[p].stamp`: `none`, `fresh`, `past` |
| `p:{pid}:conn_seq` | `seat[p].gen` |
| `pause_deadline_ms` | `deadline`: `none`, `ahead`, `past` |
| the key exists | `key`: `absent`, `game`, or `bare` |

`bare` is what a plain `HSET` leaves behind when it arrives after the game was
deleted (a key with that write's fields) or after the player was dropped (a
player with that write's fields). The code can reach both and later reads fail
on them: `state_msg` raises `KeyError`, `_DROP_LUA` and `_JOIN_LUA` fail on the
missing `order`. The model keeps them, with the exceptions they cause.

### Seats: the handlers

One action per stretch of a handler between two Redis calls, so that everything
that can happen during an `await` interleaves. A handler with several writes has
a program counter in its session (`pc`), a `do_drop` call under way is a record
in `drops`, a sleeping grace task a record in `timers`.

| Code | Actions |
|---|---|
| `websocket_endpoint` up to the loop | `Open` |
| `handle_auth` | `Auth` |
| `handle_create`, `_CREATE_LUA` | `Create` |
| `handle_join`, `_JOIN_LUA` | `Join`, `JoinFails` |
| `handle_reconnect` | `ReconnectRead` (player and token), `ReconnectClaim` (`_CLAIM_CONN_LUA`) |
| `handle_start`, `start_game`, `deal` | `StartRead`, `StartCommit`, `DealRead`, `Deal` |
| `handle_pause` | `PauseRead`, `PauseCommit`; `ResumeCommit`, `ResumeRead`, `ResumeRestamp`, `ResumeDone` |
| `handle_end_game` | `EndRead`, `EndCommit` |
| `handle_leave` | `Leave`, `LeaveDrop` and the `do_drop` actions |
| receive loop ends, `finally` | `Close`, `CloseMark` |
| `drop_player` (grace task) | `GraceTask` |
| `_sweep` | `Reap`, `ReapDrop` |
| `do_drop` | `DropRead`, then `DropGive`, `DropRefused`, `DropFails`, `DropRemoves` or `DropDeletes` |
| `end_if_paused_over` of watchdog and reapers | `EndPaused` |
| an instance dies | `Crash` |

Abstractions, all of data:

* One game; a code is not drawn twice (`born`).
* Time is two-valued. A stamp turns from `fresh` to `past` by itself
  (`GraceElapses`), a deadline from `ahead` to `past` (`PauseElapses`). A grace
  task may wake when its player's stamp is not fresh, or when the stamp was
  renewed after the task was scheduled (`due`), which is what a sleep of a fixed
  length against a rewritten stamp allows.
* A connection carries one intent (create, join or reconnect), as the client
  does; every control may follow it in any order.
* The last snapshot and broadcast of a handler are folded into its last write;
  their only effect on this state is the exception of a `bare` record
  (`AfterPrint`). Names, photos, tokens, telemetry and frames are left out; the
  photo of a signed-in player is part of the record that create or join writes.
* The hash's TTL (six hours, renewed by create, join, drop and deal) does not
  expire within a run.
* Later rounds belong to `Rounds`: of the dealing, only the first deal is here.
* Background `do_drop` calls are not attributed to an instance; a crash loses
  any subset of them.

### SeatLedger: what players may rely on

Four standings per player (absent, present, away, lapsed) and a frozen flag. A
seat is taken in an unfrozen game, removed only when lapsed and unfrozen, or
lost with the whole game. `Seats` refines it through `Standing` and `Ledger`.

### Rounds: roll, win, advance, deal

The round half of the hash of one started game and the handlers and tasks that
write it, again one action per stretch between two Redis calls. A connection's
handler has its place and its locals in `conn[c]`; the `delayed_broadcast` task
of a win, and an advance or a deal that a handler awaits, is a record in
`tasks`.

| Code | Model |
|---|---|
| `started`, `paused`, `round_over`, `round_num`, `target`, `round_advance_pending` | `game` |
| `p:{pid}:dice` and `:locked` | `hand[p]`: what each locked die shows, 0 for a die that is not locked |
| `last_roll_ms` within `MIN_ROLL_INTERVAL` | `recent` (two-valued time: `IntervalElapses`) |
| `p:{pid}:wins` | `wins[p]` |
| `handle_roll` | `RollRead`, then `RollRefused` or `RollPlayer`, `RollWrite`, `ClaimWin` or `ClaimLost`, `CreditWin`, `AnnounceWin` or `SendFails` |
| `handle_start`, `start_game` | `StartRead`, `StartCommit`, and a task that deals |
| `handle_pause` | `PauseRead`, then `PauseCommit`, or `ResumeCommit`, `PopRead`, `PopClear` and a task that advances |
| `delayed_broadcast` of a win | `WaitOver`, then `Defer` or the advance |
| `advance_round` (`broadcast.py`, then `gamestore.py`), `deal` | `AdvanceRead`, `AdvanceCommit`, `Deal` |
| an instance dies | `Crash` |

Abstractions:

* The roster is fixed and the key is not deleted: who comes and goes is `Seats`.
  A roll that arrives after its player was dropped writes a `bare` record; that
  belongs to a composition of the two modules, as do the deals of later rounds
  over a changing roster.
* A connection that closes, or that ends by an exception, comes back as an idle
  one. Its handler does not stop where it is: the receive loop awaits the
  handler, so a socket that closes is noticed after it.
* What an unlocked die shows is rolled away before anyone reads it, so a roll
  chooses which free dice match the target. `Dice` is ten in the code; the model
  does not depend on the number.
* `roll_count`, `has_rolled`, `round_seq`, `total_rolls`, telemetry, metrics and
  the frames of a roll that does not win change nothing here. The acknowledgement
  of a reveal only ends a wait that also ends by itself.
* `won` and `round` record which round a task was created for; no guard reads
  them.

### RoundClock: what players may rely on

A round number, whether it has been won, and its target. `Win` closes an open
round; `Advance` moves a closed one to the next, one target up or down.
`Rounds` implements it with `num`, `over` and `target` read off `game`.

### RollPhase, RollTab, RollClient: one player's page

`RollPhase` is the transition table of `roll-phase.js`. `RollTab` is what the
page does with a frame, a timer or a tap, each handler an operator from the
state of the tab to its next state; `RollClient` says when they run and plays
the server as this player meets it: its own rolls answered at once, those of the
others after their reveal, a broadcast lost or not. A roll of this player that read the
round open is answered although another has won it meanwhile, with ten dice by the same
state frame as with fewer (`ws.py:438-444`).

| Code | Model |
|---|---|
| `rollPhase`, its held and stashed frames | `tab.phase` |
| `requestAnimationFrame` pump, reveal and pop timeouts | `tab.timers` |
| `state.currentSnap`, `myDiceKey`, the dice in the DOM | `tab.cur`, `tab.key`, `tab.faces`, `tab.locked`, `tab.loose` |
| `showFor` with its deferred commit, the intro's wait, `leaveLoading` | `tab.soon`, `tab.intros`, `tab.delays` |
| the two `<dialog>`s of `overlays.js` | `tab.dialogs` |
| `handleState`, `handleRoundWon`, `handleGameEnded`, `handleError` of `net.js` | `HandleState`, `HandleRoundWon`, `HandleGameEnded`, `HandleError` |
| a frame to this player; a broadcast that may be lost | `Deliver`; `Send` |

The dice a player holds in a round are determined by how often the player has
rolled in it, so `<<round, rolls>>` stands for them. Two ghosts say what the
page cannot make good before the next frame. `skipped` holds from a frame that
was handled at once while an older one waited (for the loading screen, the
intro, or in the hand of a roll), from a stash that a later result drops, an
older frame that a reveal puts back, an error that resets a roll holding a
frame, and a broadcast that was lost; the next routed frame with nothing pending
ends it. `cut` holds while the dice on the board are not those that `key` says:
because a reconnect or reset cut a reveal off, because a reveal acted on another
board than it began with, or because `renderMyArea` was called for an older frame
than `renderGame` drew last (`Repaint`, in the error branch of `handleMessage` and
in `unstick`). The last of the three was found by the proof; see *Also seen*. Left out: the players bar, the host's
menu, `roll_done` (the server's wait also ends by itself), a hidden tab, whose
animation frames stop altogether, and where dice land on the table.

### Sessions: the saved session

`localStorage`'s pid, code and token, each written by a different frame, and the
sockets that read and write them: `connectWs`, the intents, `attemptReconnect`
with its hard timeout and its retries, `expireSession`, `leaveGame`, a reload.
A retry captures the pid, the code and the deadline, reads the token when it fires
and compares nothing (`net.js:95-107`); what is asked is only, when a socket
closes, whether the page is still reconnecting (`net.js:132-136`). The server's side is reduced to grant, refuse, resume, drop and end. `leaveGame` on a
socket that is still connecting does nothing, since its `send` throws. `mixed` is
the ghost of an intent made over a session that is still held, or with a loop or
another intent under way, and of the late close of a socket that the page had
replaced: those write three fields from two sources, and the properties are about
everything else (see *Also seen*). The late close was found by the proof: with it
left out of the ghost, `SessionFits` fails, but only with about seven sockets,
more than a run can have.

### Screens: routes and deferred swaps

One record `page`: history entries and position, the active screen, what waits
for its frame (`soon`), fetches by `navToken`, the join sheet and its slide-out,
and how far the socket has a say (`net`). Every `navigate`, `popstate`,
`showScreen`, `leaveLoading` and frame is an action; a commit happens one frame
later. `overtaken` is the ghost of a swap under way when the player moved on or
the socket brought another one (taps that do not bump `navToken`, such as the
game's own screens, included), `rewritten` of the sheet changing the URL of an
entry that is not its own.

### Radar, Places, Roster, Account: the other screens

| Module | Code | Asynchrony |
|---|---|---|
| `Radar` | `nearby-screen.js`, `geo.js`: enter, leave, poll, select, compass | position requests of several entries, polls in flight, permission of the compass, one animation frame and one settle timer |
| `Places` | the places sheet of `lobby-screen.js` | an opening, a background refresh, a debounce and searches in flight, answered in any order |
| `Roster` | the player list of `lobby-screen.js` | rows that collapse, a section that fades, frames in between |
| `Account` | `auth.js`, `signin-screen.js`, `account-sync.js`, `nav-menu.js` | passkey ceremonies, lookups in flight, a back-off, chained microtasks |

Their ghosts: `late` (the opening's own answer, the one not checked against the
box, painted over a search), `unentered` (a refused join showed the radar without
entering it), `switched` (one account took over from another without a
sign-out), `redrawn` (how often one answer drew the menu). The rows of `Roster`
that collapse are a set: each leaves by itself, and the section only asks whether
any is left.

### AudioShare: a code from phone to phone

The frame `playCode` builds (start, letters with separators, check letter, end,
four times), the decoder's run-length, vote and repair, and the Listen button
around it. A tone is its index in `SYMBOLS`; the room may cut it short, swallow
it, let it flicker or shift it. Ghosts count what was disturbed (`noise`), which
letters were taken for others (`wrong`), whether a delimiter was (`broken`), and
how much of a repetition arrived whole.

### Discovery: one game on the radar

Three keys written one after the other (the place fields, the GEO point, the
code in `games:index`) by check-in, check-out, start, drop, end and the sweep,
each cut where it awaits Redis or the places service. A handler that has read
may write after the game has started or gone; a crash (`HandlerDies`) leaves the
rest unwritten. The hash is a set of groups of fields: a late check-in may
re-create it with `place` alone. `calm` is the ghost of a whole undisturbed
sweep.

### Fanout: frames on their way

The state of a game is a version; a frame is the version its snapshot saw. A
handler writes, snapshots and publishes in three steps; every instance delivers
its backlog one send at a time and then removes the players it could not reach.
Sockets break, close, are superseded on the same or another instance.

`handle_roll` writes the dice (`RollWrites`), answers the roller alone (`Reply`) and
leaves the others to a task. What follows depends on the roll:

| Roll | Written | Told to |
|---|---|---|
| less than ten dice (`plain`) | the dice | the roller by `Reply`; the others by `delayed_broadcast`, when `roll_done` arrives or its wait runs out |
| ten dice, `try_finish_round` won (`won`) | the dice, `round_over`, the win | the same; then the task advances the round (`Reopen`, `Deal`) and everyone is told |
| ten dice, `try_finish_round` lost (`late`) | the dice | the roller by `Reply`, nobody else (`ws.py:438-444`): the others see the write with the next frame, at the latest that of the advance |

When a round is won, the handlers that found it open may be anywhere before their
own write (`rolling`): those are the rolls that can be late. The delay of the advance
and its deferral by a pause are in `Rounds`; here it comes some time after the win.

Two ghosts name what the code does not promise. `order` is lost once a client was
shown an older version after a newer one, or a roll that a broadcast follows was
answered on a socket that its player had replaced. `crossed` holds for a player whose
newest connection met an older one on its instance: it entered `connections` while a
delivery to the older socket was under way, which may remove the entry afterwards
(`fanout.py:91`), or the older reconnect entered after it (`ws.py:344`). The next
reconnect ends it. It is set by the entering, whether or not anything is taken:
`Reachable` and `CaughtUp` are about every other player, and a clean-up that took the
entry of one of those would violate them. `Reachable` does not depend on `order`.

### Signup: one player's history

`register_options`, `_pop_challenge`, the `SELECT` of `register_verify`, the
insert with its retry after a `UniqueViolation`, the `UPDATE` of `player_stats`
and the commit, several sign-ups side by side at READ COMMITTED, and the
telemetry writer's upserts. A sign-up is also the id of its account.

### ConnectionCap: the connections of one address

`conn_incr` and `conn_decr`, two calls each, around the life of a socket: count,
verdict, welcome, close. Instances crash, welcomes fail, the key expires.
`leaked` is the ghost of a count nobody will give back, `lapsed` of a key gone
under a connection that counted on it.

### MCParts: one part at a time

The parts above share no state in the code but what each keeps as an input, so
`MCParts` composes them by choosing one (`part`) at the start and letting the
others rest. A run of the composition is the sum of the runs of its parts.

### Proof modules

| Module | Theorems about |
|---|---|
| `SeatsProofs` | `SeatStore` (what each script keeps of a hash and of the generations, as lemmas), `Seats`, and `Seats` as an implementation of `SeatLedger` |
| `RoundsProofs` | `Rounds`, its implementation of `RoundClock`, and sums over a function |
| `RollClientProofs` | `RollPhase`, `RollTab` (as lemmas, one per handler: its types, and what it does to which field) and `RollClient`; the conjuncts of the invariant of the next one |
| `LatestShownProofs` | `RollClient`: what a quiet page shows |
| `SessionsProofs` | `Sessions`, `Roster` |
| `PageProofs` | `Account`, `Radar`, `Places`, `Screens`, `AudioShare` |
| `FanoutProofs` | `Fanout` |
| `KeysProofs` | `ConnectionCap`, `Discovery`, `Signup` |

## Runs

The runs of seats use `MCSeats`, which adds symmetry in the safety runs:
connections are interchangeable and so are instances. Those of rounds use
`MCRounds`, which also compares `TargetForRound` with the wave written out.
Those of one page use `MCRollClient`, the remaining ones `MCParts`.
Deadlock is not checked: a deleted game whose sockets are all closed, a game in
which nobody may begin another roll within the bounds, and a page nobody touches
have nothing left to do, and the system really stops there.

| Run | Instance | Checks | Shows |
|---|---|---|---|
| `seats_safety` | 2 sockets, 1 account, 1 instance, 2 uses of pause, 2 background calls | `TypeOK`, `OneOwner`, `SupersededCloseIsNoop`, `LedgerSpec` | two connections never hold one generation; a superseded close changes nothing; every step is one the ledger allows |
| `seats_live` | 2 sockets, 2 instances, 1 use of pause | `AwayIsSettled`, `HostHandedOver` under `FairSpec` | the sweep settles every away player and frees a paused game although instances crash |
| `seats_stale_close` | 2 sockets, 1 account | `StaleCloseIsNoop` is violated | a second join does not renew the generation |
| `seats_reconnect` | 2 sockets | `ReconnectKeepsSeat` is violated | a drop between the token check and the claim |
| `seats_host` | 3 sockets, 2 uses of pause | `HostSeated` is violated | the heir of a paused game's host is chosen from a stale snapshot |
| `rounds_play` | host and guest with one connection each, 2 dice, rolls in rounds 1 and 2, 2 uses of pause, 1 crash or failed send | `TypeOK`, `Credited`, `ClockSpec`, `LocksKept`, `WonIsAdvanced` under `FairSpec` | each round is won once and advanced once by task or resume; wins add up to the rounds; no lock is lost; a win is advanced or on record |
| `rounds_frozen` | the same, rolls in round 1, no crash | `FrozenAdvancesOnResume` is violated | a resume between the task's read and its record of the deferral |
| `rounds_locks` | the same, no pause, no crash | `WinnerHasTarget` is violated | a roll between the next round's pipeline and its deal |
| `roll_client` | one page, host or guest, 2 dice, 2 rounds, 2 rolls, 1 pause, absence or lost connection, 1 lost broadcast, 1 thing left to be done when a frame arrives | `TypeOK`, `RollHasTimer`, `ButtonBack`, `LatestShown`, `DialogsTrue`, `RollSettles` under `MCSpec` (`FairSpec`, bounded) | a roll keeps the timer that ends it and does end; a quiet page shows the last frame, with a working button and truthful overlays |
| `roll_scoreboard` | the same with 1 round, 1 roll, nothing lost | `ScoreboardInSight` is violated | nothing closes the pause dialog of a guest when the host ends the paused game |
| `parts` | eleven parts, one at a time, bounds below | `PartsTypeOK` and the properties in the next table | |
| `account_menu` | the same | `DegradesSilently` is violated | a failed lookup redraws the menu without end |

What `parts` (a million states) checks of each part:

| Part | Instance | Properties | Shows |
|---|---|---|---|
| `AudioShare` | a code of a repeated letter and two others, 2 disturbed tones | `OneFrameIsEnough`, `CodeIsPlayed` | a repetition heard whole ends the listening; vote and repair make up no code as long as one letter at most was mistaken and every delimiter recognised |
| `Radar` | 2 games around, 2 entries, 2 lists (the first one up to renaming) | `RadarPolls`, `ScopeNorth`, `ScopeMatchesList` | only the screen in view polls and, with a position, it does; no half turn is left over; scope, list and selection are one answer |
| `Places` | 2 queries, 2 openings, 3 edits | `ListMatchesQuery` | the rows are those of what the box says |
| `Roster` | 3 others, 4 frames | `RosterSettles` | rows, section and hint settle on the last frame |
| `Account` | 2 users, 2 headers, 3 submissions, 3 lookups | `HeadersTrue`, `ProfileFits` | no header shows another account; a late lookup of the previous account never fills the cache |
| `Screens` | 3 history entries, 4 moves, 3 frames | `SheetOnLanding`, `UrlShowsScreen`, `RefreshResumes` | the modal sheet is over the landing screen only; view and address agree; a refresh of lobby or board resumes |
| `Sessions` | 3 sockets | `SessionFits`, `InTouch`, `ReconnectingEnds` | the saved triple was granted together; a quiet tab talks on its player's socket; the loop never waits for nothing |
| `Discovery` | 3 handlers at once | `RadarSettles`, `IndexSettles` | one undisturbed sweep undoes what races and crashes left on the radar and in the index |
| `Fanout` | 2 players on 2 instances, 3 sockets, 2 rolls, 2 writes besides the deals | `Reachable`, `CaughtUp`, `LatestCanBeAcked` | a seat's open socket is in the connections, whatever late closes and clean-ups do; when all is sent and a won round has been advanced, everyone shows the newest state, that of a roll that came too late included; a roll's wait can be ended by its own player's answer |
| `Signup` | 1 guest id, 2 names, 3 sign-ups | `HistoryKeepsOwner` | play stays with its player or goes to one claimant |
| `ConnectionCap` | cap 1, 3 connections, 2 instances | `CapIsExact` | never more served than the cap, nobody turned away for a connection that has ended |

**Bounds.** Each socket is used once, so two sockets and an account give: a
player and a rival, one player on two sockets through reconnect, and one account
joining twice. That is what the seat properties distinguish; three players
matter for the handover to a third, which `seats_host` has. `MaxToggles` bounds
the pause control (a pause and a resume is the shortest interesting sequence),
`MaxCalls` the background `do_drop` calls under way at once (two is the least at
which a grace task and a reaper, or two reapers, race for one player). Larger
instances pass too and are left out of the runs for their time only: three
sockets and one instance with two toggles (3.2 million states), three sockets
and two instances (2.1 million), and the proofs' inductive invariant on two
sockets, an account and two instances.

For rounds, two dice are the least with which a roll can lock some and not all.
Rolls begin in rounds 1 and 2, and those under way may finish in later ones, so a
roll can start in one round and land in the next, and a deferral can be left
over. Two uses of pause give a pause and a resume around one win. Checked with TLC
as well: four uses of pause (514 thousand states), and two connections of
the guest (282 thousand).

For one page, a turn is a roll of mine or of the others, so two give a roll of
mine that an opponent's win overtakes, and two rolls of one round. `MaxBurst`
says how much may be left to be done when a frame arrives: one deferred swap and
one frame behind it is where most orders can go wrong. A roll of mine that comes after
another's win does so in the first round only (`MCSpec`), which the second follows; the
fairness is that of `FairSpec`. The repaint of an older
frame (*Also seen*) takes three turns, two events and two things left to be done;
the theorems cover any number.

For the parts: two entries, openings or lookups are the least at which an answer
arrives for one that is no longer the latest, and a third submission or edit the
least at which it arrives after a return. Three frames of a lobby let a player
leave, return and leave while its row collapses; the fourth settles it. Three
sockets are an intent, the attempt after its loss and the one after that, or a
reload in between. Three sign-ups are two that race and one that comes when both
are done. Three connections under a cap of one are one served, one refused and
one that comes while either gives its count back. Two disturbed tones are one
more than the check letter repairs; the listener may begin or give up at any
tone of the melody. In `Fanout` two writes (a reconnect's and a roll's,
a roll's and another's, a win's and a late roll's) are the least that can be published
in the wrong order. Its run (`Frames`) keeps every instance at most one frame behind
(`NotBehind`), and the socket to spare is one player's (`OneReturns`: the players differ in
name only). From a win until its advance is over it has only the players' first
sockets (`OnlyFirst`), so that late rolls, clean-ups and reconnects are each met but not
all at once, and there it follows a behaviour no further once `order` is lost. (Away from
wins it does: `Reachable` and `LatestCanBeAcked` hold without order.) A tab that is
`mixed` is not followed further in `Sessions`, where no property speaks of what comes
after. The theorems about `Fanout` have none of these bounds.

**Fairness.** `FairSpec` of `Seats` assumes that time passes (`GraceElapses`), that a
`do_drop` call under way goes on, that an over-long pause is ended
(`EndPaused`, which every instance's sweep tries), and that a sweep visits each
player (`Reap`, strongly fair: the bound on concurrent calls can close its door
for a moment, the reaper has no such door). `_loop` of `server/reaper.py` runs
on every instance and catches exceptions, which justifies it for one game; a
sweep that raises on another game's record never gets to this one, so the
assumption includes that no other game is broken in that way (a hazard of its
own, planned as `Sweep`). No user action is assumed fair: nobody has to connect,
close a socket or press a button. `FairSpec` of `Rounds` assumes that a handler
that has begun goes on and that tasks are run: the event loop does both, the
wait for a reveal ends after `ROLL_ACK_TIMEOUT` at the latest and the win delay
is a sleep. Nobody has to roll or to resume, and no send or crash has to happen
or not to happen: `WonIsAdvanced` excuses a run in which one did. `FairSpec` of
`RollClient` assumes of the page alone that its pump, reveal and pop timers fire.
That holds in a page that is visible: a hidden tab is given no animation frames,
and its roll goes on when it is shown again. Nothing is assumed of the server or
of the player.

## What is proved

`tlapm` proves, for every set of sockets, accounts and instances and every value
of the bounds, from `SeatStoreAssumption` (`None` is no player, `Socks` is
finite) and `SeatsAssumption` (`None` is no instance, the bounds are naturals):

* `SeatsSafe`: `Spec => [](TypeOK /\ OneOwner)`, and its half `SeatsTyped`,
* `SupersededCloses`: `Spec => SupersededCloseIsNoop`,
* `SeatsKeepLedger`: `Spec => LedgerSpec`.

`OneOwner` is not inductive: nothing in it says that the connections that claim
a seat carry its player, that a session's generation is the one its claim was
handed, or where a generation can be reset. `IInv` adds: a connection without a
game holds generation 0 (`Unseated`); whoever claims a seat carries its player
and is past the claim (`ClaimsHeld`); before `create` there is no trace of the
game, so create starts from nothing (`Unborn`); only a game has players, and
only a started one is paused, so a join cannot meet a paused game
(`PausedStarted`); a leaving connection awaits one `do_drop` call, about its own
player (`CallsAwaited`); an open connection has an instance (`Placed`).
The proof that a
step keeps `IInv` follows `Next`: what each action does to the hash, the
sessions and the calls is stated once per kind of action (`SocketSound`,
`CallSound`, `BackgroundSound` and their companions) and combined in `NextInv`.
`SupersededCloses` follows from `OneOwner`: a generation below another owner's
is below the seat's, so `_MARK_DISC_IF_CURRENT_LUA` refuses it.

`SeatsKeepLedger` sorts every step of `Seats` into a step of the ledger: one that
leaves every standing alone (reads, refusals, the host's writes), one player's
move (a claim, a mark, a stamp), a seat taken, a seat removed, the pause and the
resume, the game deleted, and a crash, which turns the seats whose leave it
forgot back from `lapsed` to `away`. `IInv` decides the cases that are not
evident: a join never meets a paused game (`PausedStarted`), `create` never meets
a seat (`Unborn`), and a drop without a grace is the leaver's own
(`CallsAwaited`), so that what it removes has lapsed.

For `Rounds`, from `RoundsAssumption` (players and connections are finitely many,
each connection has a player, the host is one, `None` is no connection, the
bounds are naturals), for every roster, every set of connections, any number of
dice and any bounds:

* `TargetWave`: the target of every round is a face of a die and consecutive
  targets differ by one,
* `RoundsTyped`: `Spec => []TypeOK`,
* `RoundsKeepClock`: `SoleHost => (Spec => ClockSpec)`,
* `RoundsKeepLocks`: `OneConnEach => (Spec => LocksKept)`,
* `RoundsCreditWins`: `SoleHost => (Spec => []Credited)`.

The clock needs to know that whoever is about to write the next round does so
for a round that was won and that nobody else is about to. `ChargeInv` says who
is in charge of the advance: a connection between the claim of a win and the
task it creates, or one that has taken a deferral off the hash; a task before it
has written the next round; the deferral on record. `OneCharge` says there is at
most one of them, `ChargeOver` that there is one only in a round that was won,
`OnTarget` that the target a task carries is that of the next round, and
`HostResumes` that only the host takes a deferral, which is where `SoleHost`
comes in: of two connections of the host both could read the flag before either
clears it. `ClaimWin` creates a charge only in an open round, so when there is
none (`_FINISH_LUA`); every other step hands it on or drops it; `AdvanceCommit`
uses it up and reopens the round. `LocksKept` needs that a hand about to be
written back still has every die locked in the hash (`CarriesLocks`), which another
connection of the same player could break. `Credited` follows from the clock's
invariant, since only an open round is claimed and only a charge advances; but it
is a sum over all players, and `SumFunction` is a fold, that is, a `CHOOSE` of a
function that satisfies its recursion. `AddsUpExists` shows that such a function
exists, over the subsets of up to n elements for growing n, and `SumGrows` that
one more win makes the sum one more: a least set for which it did not would lose
its counterexample with the element that the fold takes off first.

For a page in a game, from `DiceAssumption`, `NothingAssumption` and `RollBounds`
(there is a die, `Nothing` is no frame, the bounds are naturals):

* `PageTyped`: `Spec => []TypeOK`,
* `TimerKept`: `Spec => []RollHasTimer`,
* `ShowsTheLatest`: `Spec => []LatestShown`,
* `ButtonComesBack`: `Spec => []ButtonBack`,
* `DialogsTell`: `Spec => []DialogsTrue`.

The transition table does not know the timers: the handlers start and stop them,
each for the phase it believes the page is in. `Sound` says that a tab has what
its phase needs (a reveal its frame, a celebration its result, a deferred swap its
snapshot) and the timer that ends it; every handler of `RollTab` is a lemma from a
sound tab to a sound tab, under the phases in which `RollClient` runs it.

The last three speak of a page at rest, and nothing in them says what a page in
the middle of a roll, a reveal or a row of deferred swaps is on its way to. The
invariant (`PageInv /\ RollInv`) says it:

* `Timely`, whatever was lost: all the page holds, in its phase, its queue and its
  intro, is of this game and not after its newest snapshot (`Past`); nothing of a
  board is there before the start (`Unstarted`); a stash is of the round of the
  frame in hand, and a result of a round that has been announced (`InRoll`).
* `Board`, unless `cut`: the dice are those of `key`, or a reveal has these very
  elements in hand and is about to make them so.
* `First`, unless a frame was passed: no swap to the lobby follows one to the board.
* `Aim`, with the socket open and no frame passed: what is left to be done *ends*
  with the last frame. A stash is the last frame; else the frame in hand is, and
  else the screen, the board and the button are those of it as soon as the queue
  is empty but for swaps (`Led`, `Seen`), with the overlays that go with it
  (`Overlays`). While a roll waits for its answer the board is that of the last
  frame, because a frame that brings new dice is that answer.

Each handler of `RollTab` is a lemma about each of the four. The queue is what
makes it long: entries leave it out of order (a swap is committed in the next
frame, a wait of `leaveLoading` when it is over), so `Led` and `Seen` are about the
last entry that is not a swap and the swaps behind it (`Latest`), and `TakeIs` says
what remains of both when an entry is taken from the middle. TLC checked
the conjuncts of `RollInv` as invariants before they were proved: on the instance
of `roll_client`, with a third turn and two things left to be done, and with one
die in one round, three turns and two events. The bounds, `MaxBurst` included, play
no part in the proof.

For the saved session, from `SessionConstants` (a number of sockets):

* `SessionsFit`: `SessionsSpec => []SessionFits`,
* `TouchKept`: `SessionsSpec => []InTouch`,
* `LoopsEnd`: `SessionsSpec => []ReconnectingEnds`.

Three fields, each saved by another frame, are one grant's although frames,
closes, timers and reloads come in any order. The invariant says why, for a tab
that is not `mixed`. Only the page's own socket has anything to say: the others
hold no seat, no frames and are not opening (`Quiet`). What a frame under way on it
will save either completes what the page has or follows the frame that saves the
rest (`OpeningFits`, `TokenFits`, `StateFits`): a welcome comes first, a token
after the pid of the same grant, the state after its token, and nothing but the
end after the state. A retry waits alone (`TimerAlone`), and the loop resumes what
is saved (`LoopFits`). `InTouch` adds `SeatFits` and `HeldFits`: the seat that the
server maps to the socket is the one that is saved, unless the page is about to
hear otherwise. `ReconnectingEnds` needs `Looping` only, which holds in a mixed
tab as well.

For the other parts, from what their modules assume (bounds are naturals;
`CapConstants`: there is an instance; `FanoutConstants`: finitely many players, a
socket for each; `RadarBounds`: finitely many games nearby; `PlacesBounds`: an
empty box is no query; `AccountBounds`: the landing screen has a header;
`SignupConstants`: there is a name, and no guest's id is an account's;
`RosterBounds`: a bound; `AudioConstants`: codes have five letters), for any
number of their actors:

| Theorem | `Spec => []` | The inductive invariant, and why it is needed |
|---|---|---|
| `HeadersKept`, `ProfileKept` | `HeadersTrue`, `ProfileFits` | `AccountInv`: whose name a header shows is signed in *and* has the profile that is loaded or on its way, since a lookup paints every header's photo when it ends |
| `PollsKept`, `NorthKept`, `ListKept` | `RadarPolls`, `ScopeNorth`, `ScopeMatchesList` | `RadarInv`: whoever is in view has a position to come, a timer, or the first poll of this very entry under way (`PollsOn`); a turn's transition is always waited for (`North`); rows, blips and selection come from one list (`Shows`) |
| `NewestQueryKept` | `ListMatchesQuery` | `PlacesInv`: the search of the last number is that of the box unless a newer one is about to be sent (`Searching`); a list that waits, waits for something (`Listed`) |
| `SheetKept` | `SheetOnLanding` | `SheetFits`: an open sheet is over the landing screen, or the swap to it has been asked for; a swap away from it closes the sheet |
| `UrlKept`, `RefreshKept` | `UrlShowsScreen`, `RefreshResumes` | `ViewFits`, by what the page waits for: with a game in hand the address is `/` and the session saved (`Playing`), with one asked for the address leads back to where it was asked from (`Asking`), and else (`Alone`) every swap, wait and fetch that still counts leads to the screen of the address: token and address change together, so a fetch of an older navigation has an older token (`Stale`), and no swap to the loading screen comes after the fetch it waits for (`Loading`) |
| `RosterKept` | `RosterSettles` | `RosterInv`: a section in view with rows has nothing left that could hide it, and one without is hidden or about to be (`SectionFits`), whatever fade was cut short; what the section believes of its rows and the hint is true after every step (`Believes`); the rows are those of the last frame (`RowsOf`) |
| `OneFrameKept` | `OneFrameIsEnough` | `AudioInv`, by how much of a repetition has arrived whole (`Heard`): whatever came before, a segment held long enough has been confirmed (`Confirmed`), the gap has been heard when a start tone is next, and the start tone resets what the decoder collects; from there on it has collected exactly the letters of the frame so far (`HasHeard`), flickers included, and a frame that is whole is valid |
| `ReachableKept` | `Reachable` | `FanoutInv`, `Seated`: the newest socket of a player who is not `crossed`, once it has entered, is mapped and no delivery under way counts on an older one, so that no clean-up to come can take the entry (`Spared`, `NoneDead`) |
| `EveryoneCaughtUp` | `CaughtUp` | `FanoutInv`, `Covered`, in an open round: who has not seen the newest version has it ahead, in a handler that has still to publish (`Newest`), a roll of another or an advance that has (`Carries`), or a frame of this instance's backlog that does not leave the player out. A won round covers nobody, since a late roll may be the newest write; its reopening does, as the deal that follows is newer. `Served`: a handler has a roll from its write to its answer only, and a socket that is yet to come has none; `Bounded`: nothing is newer |
| `LatestKept` | `LatestCanBeAcked` | `Acked`: the entry of the wait that began last is still there, because a wait that ends removes no entry but its own |
| `CapKept` | `CapIsExact` | `CountInv`: the count is no less than those who hold one, and those within the cap are those let in, by the value `INCR` gave them and not by the counter as it is now |
| `RadarKept`, `IndexKept` | `RadarSettles`, `IndexSettles` | `DiscoveryInv`: how far the one sweep under way has got, by what it does next (`SweptUpTo`), and that a game that exists is in the index, without which the sweep would not come by |
| `HistoriesKept` | `HistoryKeepsOwner` | `SignupInv`: a request claims a guest's id or none and its row claims the same (`ClaimsGuest`); rows committed and under way claim different ids (`RowsUnique`); the row it moves holds its own player's play (`MovesOwn`) |

**Only model-checked.** Liveness (`AwayIsSettled`, `HostHandedOver`,
`WonIsAdvanced`, `RollSettles`): fairness and `ENABLED` are beyond the prover.
`CodeIsPlayed` of `AudioShare` holds within the bound on noise only, and so is no
theorem: the check letter is a plain sum, and eight swallowed tones splice two
repetitions into a permutation of the code that passes (TLC shows `ABCDE` heard as
`BCDEA` when eight disturbed tones are allowed). `PartsTypeOK` is the types of
eleven modules; where a theorem needs them, they are part of its invariant. The
findings are counterexamples and need no proof.

## Findings

* **A second join keeps the generation** (`seats_stale_close`). `_JOIN_LUA` does
  not touch `conn_seq`, so a signed-in player's first socket, closing late, still
  marks the player disconnected although a second is connected, against the
  promise at `server/ws.py:719-720`.
* **A drop between the token check and the claim** (`seats_reconnect`).
  `server/ws.py:334-336` relies on the bump below; the bump comes one `await`
  later and, when the drop wins, writes a record without a name.
* **A handover to a player who has gone** (`seats_host`).
  `server/broadcast.py:206-207` wants the game recoverable; the heir comes from a
  snapshot and is written without a condition.
* **A deferral recorded after the resume** (`rounds_frozen`). The win's task reads
  `paused` and writes `round_advance_pending` in two calls. A resume between them
  finds no flag, and the round stays closed in a running game until the host
  pauses and resumes again (`server/broadcast.py:103-108`).
* **A round won with last round's dice** (`rounds_locks`). The pipeline of
  `gamestore.advance_round` opens the next round before `deal` has cleared the
  locks. A roll in between starts with ten locked dice and wins at once, against
  `README.md:39-40`.

* **An overlay over the scoreboard** (`roll_scoreboard`). `handleGameEnded` goes to
  the final scoreboard and closes neither dialog, although `overlays.js:15` says
  only game state closes them: a guest whose host ends a paused game, or ends it
  while a win is celebrated, keeps a modal overlay on top until a refresh.
* **A menu that asks without waiting** (`account_menu`). During the back-off
  `loadProfile` returns a settled promise; `nav-menu.js:224` redraws when it
  settles, finds no profile and asks again: a chain of microtasks with nothing
  in between, against "degrades silently" (`account-sync.js:41-43`).

## Also seen

Behaviours of the models that no run claims to exclude, because the repository
promises nothing so exact or because one run states one property. The properties
that run excuse them, by the ghost named.

Rounds:

* A pause that lands between the win task's read of `paused` and the advance is
  advanced through.
* Two connections of the host can both take one deferral and skip a round.
* A crash or a failed send between `_FINISH_LUA` and the creation of the task
  leaves the round closed, since nothing schedules the advance again.
* `_FINISH_LUA` does not name the round, so a finisher that stalls past the
  advance claims the next one.

Fan-out (`order`, `crossed`):

* A roll that completes ten dice after another has won the round is written, answered
  to its player and not broadcast (`ws.py:438-444`): the others, the winner
  among them, do not see those dice unless another frame comes before the advance, and
  that frame shows the next round's.
* A roll's direct answer carries a snapshot; another handler's older snapshot may
  be published after it, and the roll's own broadcast leaves the roller out: the
  roller is put back to the older state until the next frame.
* `_deliver` removes the players whose sends failed after all sends have been
  awaited, by pid (`fanout.py:91`): a player who reconnected on this instance
  meanwhile loses the new entry, and hears nothing until the next reconnect.
* Two reconnects of one player on one instance: the claim of the connection and
  the entry in `connections` are two steps (`ws.py:343-344`), so the older one
  may put its superseded socket over the newer one's entry. It takes four
  sockets, one more than `parts` has; the theorems cover any number.
* A socket that a reconnect superseded still answers a roll, on itself; the
  broadcast leaves the player's new socket out.
* A failing answer ends the handler before its broadcast: the others do not see
  the roll.
* `ack_events` is registered after an await: a `roll_done` that arrives before
  it is lost, and the reveal waits for its timeout.

Discovery (`Revived`):

* A late check-in after the deletion re-creates the hash with place fields only,
  without a TTL; its blip is one `prune_orphan_geo` never removes, since the key
  exists.
* `_recompute_geo` reads and then adds: a check-out in between leaves the blip of
  a lobby that is checked out, which no sweep removes before the game starts or ends.
* A check-in racing the start leaves place fields in a started game.

Limits (`leaked`, `lapsed`): a crash between `INCR` and `EXPIRE` leaves a rate
limit whose window never ends (`gamestore.py:695`); `conn_decr` deletes the key in
a second call and forgets a connection counted in between; a failing welcome
leaks its count and its pinger; a connection that outlives the key's hour is no
longer counted.

Sign-ups: what a session opened before the sign-up plays afterwards is counted
under the old id and stays there.

Sessions (`mixed`): a create or join over a held session writes its pid into the
saved triple at once, so that a refused join loses the seat that was held; a
retry timer of a loop that was left can read the token of the game joined since,
fail, and wipe it; a ping as the first frame makes an attempt count as live; a
refused socket stays open and its close starts a loop beside the live socket (the
late close that the invariant of `SessionsProofs` had to exclude); a late state
frame of a socket that was given up brings the lobby back without a
session.

One page in a game (`skipped`, `cut`): a frame handled at once overtakes the
loading screen or the intro an older one waits in; a stash is dropped by a
result and an older frame put back by a reveal; the 600 ms of `hidePaused` can
close the dialog of the pause after; a second roll whose first one was given up
may be rejected while an older frame is stashed: `renderMyArea` then draws that
frame's dice but leaves `lastMyDiceKey`, so that the next frame with this key does
not draw its own (the proof of `LatestShown` had to exclude it, and TLC shows it in
23 steps); a guest's enlarged stamp, places sheet or
checkout dialog stays modal when the host starts.

Screens (`overtaken`, `rewritten`): `showFor` and taps of the game's own screens
do not bump `navToken`, so a fetch under way may swap over them; `expireSession`
and a refusal show the landing screen under another URL; Back with the join
sheet open rewrites the URL of another entry; a wait on the loading screen at
boot overtakes a Back.

Other screens: a refused join shows the radar without entering it, so it no
longer polls (`unentered`), and polls answered out of order paint the older list;
the compass turns on when its permission arrives after the screen was left; the
opening of the places sheet paints its own answer over a search (`late`), and an
empty answer leaves the old rows; a header's pill of the previous account
survives an expiry or a sign-in over another (`switched`).

Audio: a tap on Listen while the microphone is being asked for aborts, and
`decodeFromNode` then uses `poller` before its declaration, so "Audio codes aren't
supported" appears where `landing-screen.js:341` says to stay silent; two letters
mistaken in opposite directions pass the check and can give a wrong code, and so
do two repetitions spliced by eight swallowed tones.

## Not modelled

* **Randomness and Roll Trust**: a derivation from a beacon, HMAC and the roll's
  coordinates, and an endpoint that repeats it. There is no state but a cache of
  the last beacon; the arithmetic is that of external functions.
* **Telemetry**: derived data, lossy by design. A full queue drops its oldest
  event, a failed batch is logged and lost, and nothing reconciles either, so there
  is no promise to check. Its writes beside a sign-up are in `Signup`.
* **Discord cards**: best-effort calls to a third party; duplicates are accepted.
* **Places proxy, HTTP routes, widget, QR, assets, configuration, migrations,
  tools**: I/O, read-only pages, constants and schema. The values of the
  configuration appear as `CONSTANTS` or as two-valued time.
* **`rate_allow`'s windows**: an atomic `INCR` compared with a constant; what can
  go wrong with it is named above and repaired by nothing.
* **`login_verify`'s bookkeeping**: a signature counter and two timestamps;
  WebAuthn itself is external.
* Of the client: drawing, animations without state, the static guides, the
  changelog, the hidden tab.
