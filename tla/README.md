# denimcat in TLA+

A verification development of denimcat, a server for small multiplayer board
games. It models the program as it is in `src/`, checks the models with TLC and
proves the central facts with TLAPS.

## 1. The system

Paths are relative to `src/packages/`.

| Component | State | Operations | Correct when |
|---|---|---|---|
| **Room store** `platform/src/rooms` | per game: cached rooms, socket bindings, grace timers, running hydrations | create, peek, join, reconnect by token or by account, leave, disconnect, move, chat, expire a seat, abandon, sweep | owners of seats never change; nothing durable is lost; no seat is reserved for ever; a room disappears only when it may |
| **Room repository** `platform/src/rooms/roomRepository.ts` | one row per room code | get, save, delete, find by account; failures are logged and ignored | a restart gives back what memory held, but for saves that failed |
| **Socket handlers** `platform/src/socket` | none | validate, call the store, answer | every call is answered once |
| **HTTP routes** `server/src/*Routes.ts` | none | sign in, my games, abandon, surveys | only an account's own rooms and answers |
| **Auth** `platform/src/auth` | accounts, magic links, sessions | request link, verify, check session | a link works once and in time; at most five links an hour |
| **Surveys** `platform/src/surveys`, `client/src/components/RecapPanel.tsx`, `client/src/views/NotesView.tsx` | responses, read markers; the form's and the page's state | submit, ask what was answered, list, mark read, ask what is unread | the first answer stays; thanks are earned; read means shown |
| **Mint Condition** `engine-mint-condition` | hands, decks, auction, prize display | bid, pass, take a prize, rewards | prizes are conserved; every auction ends; the game ends |
| **Love Triangles** `engine-love-triangles` | links, display, gems | buy a link, pass | owned links never cross; links and gems are conserved |
| **Detour** `engine-detour` | torus board, hands, pawn | play a card | the seat to move can move; chains of moves end |
| **Client connection** `client/src/state` | seat tokens, connection state | connect, join, leave, act | it gets back to the seat it had |
| **Operator scripts** `server/scripts` | none | delete or end a room behind the server's back | the server's next write and the script's do not lose a room in play |
| Views, broadcasts, listings, shared types, e-mail | | | not modelled |

**How they interact.** A browser opens one socket per game room page. Each
message becomes a call of the room store; the HTTP route for abandoned games
calls the same store. The store finds the room in its cache or reads it from the
repository, changes it in place, saves it, and broadcasts. The game's engine is
a pure function the store calls for a move. Timers in the store expire seats
(two minutes after a disconnect) and sweep idle rooms (every minute). The
machine is stopped when idle and started again on demand (`fly.toml`), so the
rows are often all there is.

**What is hard.** Node runs one callback at a time, but every `await` lets
others in, and the queries of those calls go to a pool of five connections that
serve them in any order (`platform/src/db/client.ts:16`). Queries that fail are
logged and answered as if nothing had been found. Handlers that find a room
uncached share one hydration promise and resume together, holding the same
object even when one of them deletes it. A socket may die, be superseded by
another, or leave twice while its call is under way. Grace timers and bindings
outlive rooms, and codes are used again. On the other side a browser that
connects again does not know whether its last request was served, and the server
not whether the last connection is gone. The hazards are listed, each at its
line and with the properties that cover it, in `PROJECT.json`.

## 2. Plan

Done, in this order: **RoomStore** refined to **SeatOwnership**,
**MintCondition**, **RoomRows** (what RoomStore takes for granted about its
repository), **Accounts**, **Surveys** and **SurveyNotes**, **LoveTriangles**
and **Detour**, and **RoomConnection** (the client against one seat of the
server). Every safety property that TLC checks of them, the refinement included,
is proved as well.

Left:

- RoomConnection over RoomStore itself rather than over one seat of it: two
  tabs, a hydration between a request and its answer.

## 3. Modules

| Module | What it is |
|---|---|
| `RoomStore` | the room store of one game, over any number of codes, seats, sockets and accounts |
| `SeatOwnership` | what the store promises about owners of seats, per durable `roomId` |
| `RoomRows` | one code's row behind the pool of connections: reads, writes, failures, restarts, an operator's scripts |
| `RowFailures` | RoomRows with a record of the saves that failed and of those that a later save made good |
| `RoomConnection` | one browser tab and one seat of the server, over a connection that breaks |
| `Accounts` | magic links, accounts and sessions, query by query |
| `Surveys` | recap panels, the route that takes their answers, the table of answers |
| `SurveyNotes` | the owner's notes pages and home pages, and the mark that says what is read |
| `MintCondition`, `LoveTriangles`, `Detour` | the rules engines of the three games |
| `MCRoomStore`, `MCRoomRows`, ... | instances for TLC: one for each of the modules above but `SeatOwnership` and `RowFailures` |
| `RoomStoreProofs` | types and who holds which room; owners and timers; rows and what is kept; that it implements SeatOwnership |
| `RoomConnectionProofs` | types, what the page shows, whom it asks for a seat |
| `RoomRowsProofs`, `AccountsProofs`, `MintConditionProofs`, `LoveTrianglesProofs`, `DetourProofs` | types and every property of the run of that module |
| `SurveysProofs` | the same of both Surveys and SurveyNotes, which it extends (so the names the two would share start with `Notes` in SurveyNotes) |

How they fit together: RoomStore is the server's memory, with a repository that
is reliable and in order. RoomRows takes that assumption away and looks at one
code. RoomConnection is the other end of RoomStore's sockets, reduced to one
seat whose room stays. RoomStore takes a game to be `playing` or `finished` and
calls a move `ApplyAction`; the engines say what a move is. Accounts is where
the account of a socket (RoomStore's `AccountOf`) comes from. Surveys starts
from a finished room and its owners.

### RoomStore: state

| Variable | In the code |
|---|---|
| `cache` | `ctx.cache`: the live rooms. A seat holds its socket, `Away` (`disconnectedAt` set) or `None` |
| `rows` | the repository's rows. `Snapshot` is what `persist` writes, `Hydrated` what `hydrateRoom` makes of it |
| `binding` | `ctx.socketBindings` |
| `timers` | keys of `ctx.graceTimers` |
| `hydrating`, `waiting` | `ctx.hydrating` and the handlers that await each promise, in arrival order |
| `ready`, `orphan` | handlers a hydration has released and that have not run yet, and the object they hold once it is out of the cache |
| `leaving` | sockets between the save and the end of `leaveSeat` |
| `creating` | `createRoom` calls between finding the code free and storing the room |
| `alive`, `nextId` | open connections; the next `nanoid()` for a room |

### RoomStore: steps

A handler is one step from the moment it has its room to its last `await`: it
runs either on a cached room, at once, or as the head of `ready` (`Runs`).
Handlers of an uncached room queue first (`GetUncached`, and `Disconnect` for a
bound socket), and `HydrateRoom` releases the queue. While the queue is not
empty no other callback runs, because promise reactions run before the next
timer or message. `leaveSeat` has a second step, `FinishLeave`, because it
deletes the binding after its save; `createRoom` has two, because it stores the
room after looking the code up. What a handler does after its last save is
broadcasting and no step of the model.

What is abstracted:

- The game is `playing` or `finished`; a move may end it. The engines have
  modules of their own.
- Tokens: anybody may present the right one (it lives in browser storage and in
  e-mailed links); a wrong one changes nothing and is a refusal.
- `knownEmails`, names, chat texts, the ruleset version and the payload checks.
- Time: `idle` says that the room's sweep threshold has passed since its last
  activity. It is counted only while the room is neither exempt from the sweep
  nor kept for a recap; every step that ends either (the end of the game, a view
  of the recap) is an activity and starts the count again.
- The repository applies writes in call order and does not fail (RoomRows is
  about one that does). A hydration's row is the row at the time it is answered.
- Two `leaveSeat` calls of one socket that overlap end in one `FinishLeave`.
- Clients: from the lobby one role request at a time, unless the connection is
  in `Impatient` (two clicks on seats send two requests).

### RoomRows

| Variable | In the code |
|---|---|
| `cache` | the room of one code in `ctx.cache`: its `roomId`, how often it has changed, whether a script ended it |
| `row` | the row of that code |
| `calls` | queries in flight: `get` for a hydration, `get` for `createRoom`'s look at the code, `save`, `delete` |
| `meant`, `excuses` | observers: what the last write was to leave, and why the row may differ |
| `dropped`, `clashed` | observers: rooms given up, and whether two rooms met under the code |
| `held` | the row as `admin-finish-room.ts` has read it |

The process makes queries (`GetRoom`, `CheckCode`, `ChangeRoom`, `DropRoom`);
any of the first `PoolSize` that are in flight may be the next to be served
(`ServeHydrate`, `ServeCheck`, `ServeWrite`), or lost, before or after it took
effect (`LoseHydrate`, `LoseCheck`, `LoseWrite`). A lost read is an empty
answer, as in `get`. `Restart` empties the memory; queries that were in flight
then are dropped, and one that the database would still have served is a query
served just before. A script is a read and a write of its own. The changes of a
room are numbers, because a row is replaced as a whole. A read is served and
answered in one step.

RowFailures is RoomRows with two observers: `unsaved`, the snapshots whose save
failed and left the row as it was (`SaveFails`), and `caughtUp`, those of them
after which a save of a later snapshot came through (`SaveSucceeds`).

### RoomConnection

| Variable | In the code |
|---|---|
| `seat`, `owner`, `bound` | the server: the live seat with its token and socket, `knownAccounts` of it, the sockets bound to it |
| `saving` | handlers between their save and their answer |
| `unseen` | connections that have broken and whose `disconnect` has yet to come |
| `status`, `stored`, `link` | the hook's status, the token in localStorage, the token in the address |
| `fixed` | whether the role is fixed (hotseat mode) |
| `online`, `sock`, `buffer` | the socket.io client: connected or not, which connection, what it buffers meanwhile |
| `up`, `down` | the requests of each connection on their way, and the replies to the present one |
| `crossed`, `left` | observers: a leave that crossed another request; whether the player ever left |

`Connect` sends what was buffered and the first request, chosen by
`FirstRequest` from the token or the account; `TakeReply` is the handler of each
reply, with the requests it makes in turn; `JoinAs` and `Leave` are clicks;
`Drop` breaks the connection, losing the replies and some of what was sent last.
`StartHandler` and `FinishHandler` are the server's handlers up to and from
their save; those of one connection start in the order of its requests, those of
two connections in any. `OtherJoins` is another account that takes the free
seat. Sockets are numbered by connection. In a tab with a fixed role the hook
keeps the token from a click's reply under a key that the tab does not read
(`joinAs`); the model keeps it as the tab's token. Such a tab gets to a click
only by leaving its seat, which no view does.

### Accounts

| Variable | In the code |
|---|---|
| `accounts`, `links`, `sessions` | the three tables; links and sessions by the request that minted their token |
| `at`, `who`, `arg` | of each request in flight: the query it is at, the account it has in hand, the token it came with |
| `mailed`, `notices` | links sent to their address, and announcements of new accounts to the owner |
| `uncounted` | observer: addresses for which the query behind the cap failed |

A request is a handler that goes from query to query: `CountLinks`,
`GetOrCreateAccount`, `CreateMagicLink`; `ConsumeMagicLink`, `CreateSession`;
`GetSession`, `SetDisplayName`, `SetTurnChimeEnabled`; `DeleteSession`. Each is
one statement of SQL, and may fail before or after it took effect, which the
repository answers alike. Links go through three ages (`LinkAges`): good for
twenty minutes, counted for an hour, neither. Addresses are normalised before
they get here, mail is instant, and tokens are unique.

### Surveys and SurveyNotes

| Variable | In the code |
|---|---|
| Surveys: `room` | the room that has the code: its `roomId`, its owners, whether it is finished |
| `table` | `survey_responses`, under its unique key (room, seat, question) |
| `panel` | the recap panel of each seat: `SubmitState`, the account it was mounted for, the request it made |
| `post` | requests at the route: accepted for which room, which answers are left to insert and which it stored |
| SurveyNotes: `clock`, `readAt` | answers filed so far, which is also the time; the owner's row of `feedback_read_at` |
| `visit`, `ask` | notes pages (`listed`, `shown`, `marking`), and home pages with the two queries each makes |
| `slipped`, `lastRead` | observers: answers no list can have shown; the latest time a mark stood for |

In Surveys a panel asks whether its account has answered (`Mount`, `AnswerMine`,
`ShowForm`), submits (`Submit`), and takes or misses the reply. The route checks
the room (`CheckPost`), inserts the answers in any order (`InsertAnswer`), and a
failure of one rejects the whole request while others are on file
(`CrashOnInsert`). Rooms end, are deleted, and their code is used again. In
SurveyNotes the list is queried, shown, and then marked with the time at which
the mark is taken, not the list's.

`AnswerMine` reads the room and the table in one step, which the code does in
two. The second read is of the room and the seat that the first one found; what
it may see besides is an answer that was stored after the room was deleted.
Answers and marks are stamped by one clock. The code takes the database's for
answers and the process's for marks: the properties of the notes hold up to the
difference between the two.

### MintCondition

The engine is a pure function from a state and a move to a state or an error;
RoomStore's `ApplyAction` is where the server calls it. Here a step is one
accepted move with all that follows from it: an auction that resolves, the drift
of the display, the reveal of the next prize, the cards drawn, the end.

| Variable | In the code |
|---|---|
| `board` | `priceSlots[i].prizes`, `prizeDeck`, `revealedPrize`, `discardPile`, `unlockedUpperSlots` of `GameState` |
| `price` | `priceSlots[i].price`, drawn once |
| `deck`, `hand`, `wonPrizes` | of each `PlayerState` |
| `phase`, `auction`, `winner` | the same; a bid's `amount` is the sum of its cards, and `turnOrder` is seat order from the opener |
| `rulesetVersion` | the ruleset the room is pinned to: v2 differs in `PostAuctionDraw`, `Rewards` and `PlacementSlots` |

`ShiftDisplay`, `AddPrize`, `Reveal` and `Place` are functions on the board, as
in the code, so that a reward is the composition of two drifts, an addition and
a reveal in the order of `chooseAuctionReward` and `afterPrizeChoice`. Hands and
the prizes of a slot are sets because no rule looks at their order. Refused
moves change nothing and are left out, and so is the play-by-play log. The order
of the piles is any the constants allow; nothing in a state depends on who can
see it.

### LoveTriangles

| Variable | In the code |
|---|---|
| `ownedLinks` | `ownedLinks` of each `PlayerState` |
| `table` | `topRow` and `bottomRow` (six slots), `deck`, `discardPile`, and the players' `gems` |
| `activeSeat`, `phase`, `winner` | the same |

A step is `Pass` or `BuyLink` with the refill, the sweep, the fees and the end
that follow. A refill promotes cards (`Promoted`) and then draws (`Drawn`). A
look of the sweep (`SweepOnce`) finds the first card that can no longer be
drawn: it leaves, the owners of lines it crosses are paid, the display is
refilled. The table after n looks is a function of n; as every look but the last
discards a card, as many looks as there are cards end the loop of
`sweepUnplayable`. Crossing is computed from the nodes' coordinates (in
thousandths, so that integers do); the map is a parameter. `ScoreForPlayer` is
the code's search for components and longest loops, its `dfs` a function of the
path it has gone.

### Detour

| Variable | In the code |
|---|---|
| `cells`, `pawnCell` | the board: value and owner of each visible card; where the pawn is |
| `hand`, `deck`, `deckId`, `score` | of each player |
| `activeSeat`, `phase`, `winner` | the same |

A step is `PlayCard`: the placement, the run of the pawn (`ResolveChain`), the
draw and, with the last card, the final scores. The board wraps around and has
any size; a deck's rotation says which direction each value points in. The
loop's state after n turns is a function of n (`Turn` is one of them); as every
turn but the last visits one more cell, `MaxTurns` of them are enough.

## 4. Runs

Twelve runs, eleven of which pass. Bounds are named constants in the guards of
the actions they bound.

| Run | Instance | States |
|---|---|---|
| `play` | one code, 2 seats, two accounts with one connection each, 1 room, 1 waiting handler; fair | 82 000 |
| `races` | 1 seat, 2 rooms on the code, 2 handlers on one hydration | 441 000 |
| `overlap` | 1 seat, 2 rooms, 2 creations that find the code free, a client that does not wait | 222 000 |
| `pool` | 3 connections, 3 rooms, 1 change of each, 4 queries in flight, 1 failure, 1 restart, 1 script | 345 000 |
| `reordered` | 2 connections, 1 room, 3 changes, 2 queries in flight, 1 failure | stops at the violation |
| `tab` | 3 connections, 2 clicks, every way the page may have been loaded; fair | 523 000 |
| `accounts` | 3 requests for links, 2 verifications, 3 calls with a token of which 2 are made, 2 addresses, cap 1, 2 overlapping, 1 failure | 1 041 000 |
| `panels` | 2 seats, 2 accounts, 2 questions, 2 answers to each, 2 requests, 2 rooms, 2 loads, 1 failure | 1 865 000 |
| `notes` | 2 notes pages, 2 home pages, 3 answers, 1 failure | 2 014 000 |
| `game` | 2 seats, 5 prizes, 3 money cards each, 1 in hand, both rulesets | 260 000 |
| `triangles` | 2 seats, 5 nodes of the real map with their 10 lines, 2 shuffles | 43 000 |
| `detour` | 2 seats, board of 2 rows and 3 columns, 4 cards each, 2 in hand | 397 000 |

### The room store: `play`, `races`, `overlap`

`play` asks whether two accounts keep what they own and have seen through
claims, takeovers, moves, expiries, sweeps, abandonment and restarts
(`TakenSeatsAreOwned`, `WriteThrough`, `SharedRoomKeptUntilViewed`,
`UnfinishedRoomOutlivesItsSeats`) and whether every waiting seat and every
waiting handler gets on (`AwaySeatResolved`, `WaitersAnswered`). `races` has
handlers that share a hydration and a code used by two rooms in turn: nothing
but a leave frees the seat of a connected socket
(`ConnectedSeatFreedOnlyByLeave`), and the store implements SeatOwnership
(`OwnershipRefined`). `overlap` has a client that sends two requests without
waiting, and two creations of one code: waiting seats still have their timer
(`AwaySeatHasTimer`), and nothing durable is lost (`DurableFactsKept`).

One code is enough because no operation of the store touches two codes, except
through a socket's binding. Two waiters are enough for one handler to delete the
room another one holds; two rooms, for a timer or a binding of the first to meet
the second. `play` has one waiter to keep fairness affordable; that rows keep up
with memory when handlers share a hydration and one of them deletes the room is
what the theorem of `WriteThrough` adds to it.

**Fairness** (`play`). Released handlers run (weak fairness: promise reactions
are never starved), every read of the repository is answered, every grace timer
fires, every save returns. The last three are strong because a released queue
interrupts them again and again, and a disconnect of the same seat restarts its
timer. Players, time and restarts have no fairness.

**Where the code differs from its comments** (seen in counterexamples of the
same instances; no run is kept for each):

| Comment | What the code does |
|---|---|
| `connected` is the live/away signal | a join that waited for a hydration seats a socket that died meanwhile; nothing frees it |
| the sweep clears grace timers, as abandoning does | it clears none (harmless, as `races` and `overlap` show) |
| checking seats in the sweep would be redundant | a finished room is swept under connected players |
| `abandonRoom` re-verifies `abandonable`, false once finished | it does not look whether the game has finished |
| an abandoned room is deleted outright | a join that shared its hydration writes it back |
| whoever is marked at the end has watched it live | the owner of the seat is marked, also when another account sits there by token |

### The repository: `pool`, `reordered`

`RowCatchesUp`: with no write on its way the row is the room in memory, unless
the last write failed, overtook an earlier one, was made after a read it could
not know of, or a script came after it. `NoRoomOverwritten`: a code that is used
again costs no room that is still played, unless two rooms meet under the code.
They do so when a failed read makes a creation take the code for free, when a
creation and a hydration overlap, or when a script writes back the row it has
read. Three connections let a later write pass an earlier one while a read is in
flight; one of each fault is what a query, its retry by the next change and a
restart in between need.

Deadlock is not checked: rooms, changes, restarts and scripts are bounded and
used up.

`reordered` is expected to fail, and is the project's finding. The comment on
`PostgresRoomRepository` says that a snapshot whose save fails is one "which the
next successful write will catch up on". In the trace the save of the first
change is slow and that of the second fails; the third change, made after that,
is saved and has caught up; then the first save is served on its own connection
and puts the row back to the first change, behind the one that failed. Memory
holds the third, and nothing writes it again until the room changes. One failure
is enough, and it is not what undoes the catching up: saves of one room are
upserts in whatever order the pool serves them. With two queries in flight the
third save can only be made once the second has failed. There are no restarts or
scripts in the run, so nothing else has touched the row.

Seen besides: `admin-delete-room.ts` says that it leaves what `abandonRoom`
leaves, but a room that the server has in memory inserts its row again with its
next save.

### The client: `tab`

`SeatedAsShown`: once nothing is on its way the page shows the player in the
room exactly when the server takes its socket for the seat's, and the token in
the browser is the seat's. `OwnerIsNotAsked`: an account that owns the seat is
put back into it, unless it left, or asked for the seat in a connection that
broke and was served after the next one had heard that it has none.
`ConnectingEnds`: the page does not stay at "connecting".
Three connections give one whose disconnect is noticed late, one whose request
is served late, and the present one; two clicks, a leave and a join.

**Fairness** (`tab`): the client tries to connect, handlers and saves end,
replies arrive. No click, break or end of a grace period is ever certain.
Deadlock is not checked: a tab at rest with no connections or clicks left has
nothing to do.

The properties except, by name, what the code does not exclude: a leave sent
while another request is out (`crossed`: handlers end in the order of their
saves, so the seat may be taken before the leave or after it), a request of an
earlier connection that is served after the present one has its seat and takes
it back, and a tab in hotseat mode whose reply to its join was lost
(`LockedOut`: it has no token, and may not join again). No view calls the hook's
`leaveSeat` at present; the hook offers it.

### Sign-in: `accounts`

`LinkSpentOnce`, `ActsAsMailedAccount`, `AnnouncedOnce`, and
`CapOvershootBounded`: the cap on links is checked before two awaits, so it can
be overshot, by less than the number of requests that overlap. It counts links
on file: one whose insert failed is mailed all the same (and signs nobody in),
and is not counted. Three requests
are two that overlap and one more; a cap of 1 brings every request to it; two
verifications race for one link. The cfg's constraint allows two calls with a
session's token in one behaviour, enough for a check to race with a sign-out.
Deadlock is not checked: requests are used up.

### Feedback: `panels`, `notes`

`panels`: `ThanksAreEarned`, `FirstAnswerStays`, `FormWithheldOnlyIfAnswered`.
The last is by account, because that is what holds: an account with two seats is
refused the form of its second by an answer for its first (RecapPanel.tsx:29-32,
surveyRoutes.ts:137). Also, the panel's "Skip" stays enabled while answers are
being saved. Two requests are a first try and its retry, two rooms a code in use
again.

`notes`: `ReadMeansShown` and `NoFalseAllClear`. Two exceptions to the first are
the code's: an answer filed between the list and the mark is marked though no
list had it, and a list whose query failed is an empty list, after which
everything is marked (NotesView.tsx:36-39). Both are `slipped`. The second
excepts a home page whose request, or query for the latest answer, failed: it
shows no news (`fetchUnreadFeedback`). Three answers are one before, one in
between and one after. Deadlock is not checked in either run: pages and requests
are used up.

### The games: `game`, `triangles`, `detour`

Deadlock is checked in all three: in every phase but the last somebody can move,
and `Over` or `Finished` is the step of a finished game. Together with moves
that always count (`EveryMoveCounts`) this is why a game of Mint Condition ends:
a sequence of passes too brings its end nearer.

`game`: `PrizesConserved`, `PrizesMoveOn`, `PrizesArePaidFor`,
`HighBidderWaits`, `EndsWhenSoldOut`, `EveryMoveCounts`. There are two price
lists, one with a price for every bid from 1 to 6 and one that starts above the
lowest bid, so that bids reach every slot, an empty slot, and no slot. Five
prizes leave two in the pile: enough for a stack in one slot, for a pile that
runs dry between two prizes that age out together, and for an upper slot that is
unlocked by the extra drift. More seats are the proofs' part. The identity of
prizes matters only to the score, so one order of the pile is enough.

A reward is granted whenever the one slot the bid points to is empty, even while
a cheaper prize lies within the bid: `slotIndexForBid` (prizes.ts:119) calls
this intended, and the model has it so, although the name of a test
(prizes.test.ts:346) and the error message speak of any affordable prize.

`triangles`: `CardsConserved`, `DisplaySound` (no lines cross, every card on
display can be drawn, no slot is empty while there are cards, nothing was
discarded for nothing), `GemsAccounted`, and `ScoreIsBestLoop`, which compares
the code's search with a definition over all sets of lines. Five nodes of the
real map have lines that cross and lines that close loops; in one shuffle an
early purchase sweeps the display, in the other a card is drawn late that
crosses two lines. `MaxGems` keeps players from passing for ever, which the
rules allow.

`detour`: `MoverCanMove` (there is no pass: a seat that cannot move would stop
the room), `CardsInOnePlace`, and `PawnFollowsArrows`, which states what a run
of the pawn is on its whole track. Two rows and three columns wrap around in
both directions; with two rows, up and down lead to the same cell.

## 5. Proofs

For all values of the constants, under the assumptions the modules name: at
least one seat, connection or link allowed, finite sets of requests, a map of
finitely many nodes, card piles that hold each card once, and absent values that
differ from what they stand beside. Bounds are any natural numbers. The types of
every module are proved; the runs `tab`, `triangles` and `detour` check theirs
as well.

### RoomStore

- `TypeCorrect`: `Spec => []TypeOK`. `TypeOK` is not inductive: a resumed
  handler writes to the room it holds, so the proof needs that there is one
  (`ReadyHandlersHoldARoom`), that handlers resumed together asked for the same
  code (`HandlersAgree`), and that a room is held outside the cache only by them
  and only while its code is uncached (`OrphanHeld`). Their conjunction is
  `TypeInv`. One lemma per action that moves rooms; handlers share `HeldTyped`
  (what a handler holds), `RunsQueue` (what it leaves of the queue) and
  `MutateTyped` (where its change goes).
- `HandlersHoldARoom`: the part of `TypeInv` a reader may want by itself.
- `SeatsAreOwned`: `Spec => []TakenSeatsAreOwned`, by `OwnedInv`, which adds the
  room outside the cache, since a resumed handler may write it back.
- `AwaySeatsHaveTimers`: `Spec => []AwaySeatHasTimer`, inductive with `TypeInv`.
  The interesting case is a handler whose room was deleted before it ran: it
  clears or starts timers of a code that `OrphanHeld` says is uncached.
- `WritesThrough`: `Spec => []WriteThrough`, by `DurableInv`. A resumed handler
  may hold a room that an abandonment took out of the cache, and write it back:
  `OrphanWriteThrough` says that its row is missing or up to date, and
  `IdsAreOld` that no row has the identity the next room will get. Every handler
  changes its room by `Mutate` and leaves it saved (`Saves`): it persists the
  room, or changes only what a row does not hold. `MutateDurable` shows once
  that this keeps the invariant.
- `DurableFactsNeverLost`: `Spec => DurableFactsKept`, from the same steps: what
  is saved under an unchanged `roomId` is what the row said, grown (`Grows`).
- `SharedRoomsKept` and `UnfinishedRoomsOutlive`: a row disappears only by a
  sweep or an abandonment (`RowDeleted`), both decide on the room in memory, and
  `DurableInv` says that the row agrees with it.
- `HeldSeatsFreedOnlyByLeave`: `Spec => ConnectedSeatFreedOnlyByLeave`. Of the
  calls of a socket only `leaveSeat` empties a seat, and it is the caller's own
  (`CallFreesByLeaving`); the other steps that touch seats see only one whose
  player is away (`OtherStepsFreeNoHeldSeat`).
- `ImplementsSeatOwnership`: `Spec => OwnershipRefined`. The refinement looks at
  the rows of all codes and at the room handlers hold, so the proof needs that
  no two of them have one `roomId` (`UniqueIds`). `Life` is the mapping as a
  function of what it reads, `Evolves` what SeatOwnership lets one room do; each
  action touches one code (`OneRoomStep`), changes the life of that code's room
  as `Evolves` says and leaves the others (`OwnershipStep`).

### RoomConnection

All three from `ConnectionInv`, which is inductive:

- `Counted`: connections count up. Nothing of a connection to come is bound, on
  its way or being saved, and replies are only to the present one.
- `Owned`: a seat with a live record is owned by this account, and a tab with a
  fixed role never asks by account. So a refusal by account means that there is
  no record.
- `Settling`: what holds of an undisturbed connection (`crossed` is false) while
  things are on their way. Either a leave is the only thing out (`LeavesAlone`:
  its request, its handler or its reply), or three facts hold together.
  `Binding`: if the socket is bound the seat is its own, all that is granted on
  the way is that seat with its token, and no refusal by account comes after a
  grant. `Showing`: a bound socket will see its seat or sees it, and a page that
  shows a seat it does not have will be told. `Returning`: an owner that has not
  left and is shown the picker is on its way back.
- `Unclicked`: before the first click, no join but that of a fixed role and no
  leave is anywhere, and no owner has been refused.

`TypesHold` is its first part. `ThePageShowsTheSeat` and `TheOwnerIsNotAsked`
read `Settling` and `Unclicked` at rest, where nothing is on its way. The proof
has one lemma per step; a handler has four outcomes (`Gives`, `Refuses`,
`Frees`, `FreesNothing`, by `HandlerOutcome`), and what happens to other
connections leaves this one settled (`ElsewhereSettled`). The theorems need no
fairness; they are of `Spec`, which the fair specification of the run implies.

### RoomRows

- `RowTypeCorrect`: types, with `OneCheck`: at most one creation looks at the
  code, and it has an id to give (`TypeInv`).
- `RowAlwaysCatchesUp`: by `CaughtUpInv`, which says what holds while writes are
  on their way: if nothing excuses the row, the last write of those in flight
  leaves what was meant, and with none in flight the row is that already. That
  removing a query other than the last write keeps the last write is
  `RestLastWrite`.
- `RoomsNotOverwritten`: by `OneRoomInv`: as long as no two rooms have met,
  every save in flight of a room that is still played is of the room in memory,
  and so is the row.

### Accounts

- `AccountsTypeCorrect`: types need that a handler which writes to a row knows
  whose it is (`HandlerInv`) and which queries a handler of its kind makes
  (`StageInv`).
- `LinksSpentOnce` and `EveryoneActsAsMailed`: together, by `WhoInv`. A link's
  row is of the address its request was for (`LinkInv`); a verification with an
  account in hand has spent its link, and its session is of that account
  (`VerificationInv`); a call with a token acts as whom the token was issued to
  (`CallerInv`).
- `AccountsAnnouncedOnce`: `AnnouncedOnce` is inductive with the types.
- `CapOvershotByLess`: by `CapInv`, which counts with the links of the hour the
  requests that are past the cap and have yet to insert theirs; by cardinalities
  of finite sets.

### Surveys and SurveyNotes

- `SurveysTypeCorrect`, with `SentInv`: a panel that waits has sent a request.
- `AnswersStay`: no insert changes a key that is taken.
- `ThanksEarned`: by `PostInv` (what a request stored is there as it was sent,
  and each question it is done with is answered) and `PanelInv` (a panel thanks
  after its request's answer only).
- `FormsWithheldFromAnswered`: by `FormInv`. Ids of rooms are given in turn and
  an accepted request is of the account that holds its seat (`OwnerInv`),
  whatever is on file was sent by some request (`FileInv`), so a yes that a
  panel has heard has an answer of its account behind it (`HeardInv`).
- `NotesTypeCorrect`; `ReadWasShown`, by `ShownInv`, which adds the marks on
  their way and the pages yet to be marked; `AllClearIsTrue`, by `AllClearInv`:
  no mark is later than `lastRead`, and the latest answer a home page knows of
  is no older than its asking.

### MintCondition

- `GameTypeCorrect`: `Spec => []TypeOK`. `TypeOK` needs `PhaseInv`: a prize is
  revealed exactly while it waits to be placed, and an auction that waits for
  its winner's choice has a winner. That the next turn is a seat's rests on the
  existence of a nearest seat (`NextActiveHasNotPassed`, by the well-foundedness
  of `<` on the naturals).
- `EveryPrizeIsInOnePlace` and `PrizesOnlyMoveOn`: places are numbered in the
  order a prize goes through them (`PlacesOf`). Each operation on the board is a
  map of places that never goes back (`ShiftMovesOn`, `AddMovesOn`,
  `RevealMovesOn`, `PlaceMovesOn`, stated by `Onward` and `Shifted`), such maps
  compose (`OnwardComposes`), and so every move keeps one place for each prize
  and does not bring it back. `PrizesConserved` is inductive with `TypeOK` and
  `PhaseInv`.

- `HighBidderAlwaysWaits`: by `TurnInv`: the highest bidder has not passed, and
  among the seats that have not, it is the last the turn can reach (`Distance`).
- `EndsExactlyWhenSoldOut`: by `OverInv`; by `BareWhenGone`, display, pile and
  revealed prize are bare exactly when every prize is won or discarded.
- `PrizesAreAlwaysPaidFor`: by `PaidInv`. A card is in one hand or pile
  (`CardsApart`); the highest bid's cards are in its seat's hand until the
  auction resolves and nowhere after (`BidInv`).
- `EveryMoveAlwaysCounts`: by `TurnInv` and `StockInv`, that a display never
  goes empty during an auction. A pass then either shrinks the bidders or
  concludes an auction whose display drifts.

### Detour

- `TypesHold`: types are inductive by themselves. That the highest value is
  dealt to some cell, so that the pawn starts on the board, is counting:
  a shuffle fills as many cells as there are values (`Positions`).
- `EveryCardInOnePlace`: `CardsInOnePlace` is inductive with the types; a card
  moves from its hand to the board, and the last of the deck to the hand
  (`CardMoved`).
- `TheMoverCanMove`: by `InTurn`: while the game lasts, the seats before the
  active one have played one card more than the rest, the active one has a card
  left, and a seat with a deck has a hand. `Remaining` counts hand and deck, so
  that the proof rests on cardinalities (`OneCardLess`). That a card held always
  has a cell is `ATargetExists`.
- `ThePawnFollowsTheArrows`: the code's loop is compared with `IsRun`, which
  describes a whole track and computes nothing. Along the loop a track is kept
  that explains its state (`Along`, `AnotherTurn`); since the cells of a track
  are distinct there are at most as many as the board has, and after `MaxTurns`
  turns the loop has ended (`LoopFollowsTrack`). The induction over turns is on
  a set of numbers (`SetInduction`), which the provers can do.

### LoveTriangles

- `TypeCorrect` and `DisplayAlwaysSound`, together, by `GameInv`: types, a sound
  table (`Sound`), and that no line on display or drawn crosses one that is
  drawn. `NoCrossing` is not inductive, because a purchase does not look at the
  lines: it rests on the display being playable, and that on the whole sweep
  having ended. The sweep's bound rests in turn on each card being in one place
  (`OnePlace`): a card that were on the table twice could be discarded twice,
  and the looks run out. Places are numbered, the slots first and the deck after
  them (`Card`, `Places`), so that a refill moves cards from places to places
  (`RefillSound`) and a look adds one to the discards (`LookSound`). The
  induction over looks is on a set of numbers, as in Detour (`SweepLooks`);
  `SweepSound` is its end.
- `CardsStayInOnePlace`: the four cardinalities of `CardsConserved`, from
  `GameInv`.
- `GemsAreAccounted`: by what the discards since the first look pay
  (`PaidSince`): each card a sweep discards is a new one, again by `OnePlace`.
  No fee makes a player poor: a price includes what the buyer pays
  (`PriceType`).
- `ScoreAlwaysBestLoop`: the score is right for any lines (`ScoreIsBest`), so it
  is at any time. Loops as the rules mean them are the closed paths that repeat
  no node (`CycleIsLoop`, `LoopIsCycle`). The code's two recursive searches are
  functions that exist, because each call is about more nodes than its caller
  (`GrowthExists`, `SearchExists`); they find what can be reached
  (`ComponentIsReachable`) and the longest closed path through each node
  (`LongestFrom`). The code searches for loops only in a component with as many
  lines as nodes: a component with a loop has that many (`LoopNeedsLines`), and
  so many lines make a loop (`LinesMakeALoop`). Both take a largest or smallest
  set of nodes where a text book would use induction over graphs.

### Only model-checked

- Liveness (`AwaySeatResolved`, `WaitersAnswered`, `ConnectingEnds`): out of the
  provers' reach.

## 6. Not modelled

- The sign-in state of the page (`authToken.ts`, `App.tsx`, `VerifyView.tsx`).
  Read, but with no model: a late answer of `/auth/session` may save its token
  over a newer one, and an outage of the database while a socket is admitted
  makes the page forget a good token.
- The views of the games, the broadcast of a room (it changes no state), the
  listings (`/my-games`, `findByAccountEmail`, accounts), chat texts and names.
- Payload validation (`validate.ts`) and the play-by-play logs of the engines.
- The wiring of the server and the types it shares with the client: they keep no
  state.
- E-mail, which is sent and not waited for, and the scripts that list or remove
  accounts.
