# Baize: a verification project

Baize is an engine and a server for board and card games. A game is a JSON
definition; the Rust engine (`engine/src`) turns it into a session and applies
actions to it; the server (`server/src`) puts a session into a room and lets
players in over WebSockets; rules that JSON cannot express are written in Felt
and compiled to WebAssembly (`felt/src`). This directory holds TLA+ models of the
parts whose behaviour depends on order, interleaving, failure or a second
definition of the same thing elsewhere, the TLC runs that check them, and TLAPS
proofs about them.

Paths below are relative to `src/`.

## 1. Inventory

| Component | Source | State | Operations | Hard part |
|---|---|---|---|---|
| Turn machinery | `engine/src/transition.rs`, `runtime.rs` | `RuntimeState`: status, result, turn, sequence, event count, claim window, simultaneous buffer, commitments, phase | `apply_action`, `apply_action_for_player`, `apply_claim`, `advance_phase` | order of checks and effects; errors after effects; rounds and windows |
| Boards, zones, components | `engine/src/runtime.rs`, arms of `execute_action` | zones, component table, counters | move, place, reveal, remove, swap, promote, flip, draw, ships | conservation of components, partial effects, two records of a stack |
| Legal moves | `engine/src/moves.rs` | none | `legal_moves` | the rules of a move written a second time |
| End conditions, CEL | `engine/src/end_conditions.rs` | none | `evaluate` | whom "current" means |
| Visibility, fog | `engine/src/visibility.rs`, `runtime.rs` | fog per player and cell | `recompute_fog`, `apply_fog_filter` | a cached record |
| Room | `server/src/room.rs`, `connection.rs`, `protocol.rs` | players, tokens, deadline, ready set, phase; per task: seat, local deadline, expected sequence | join, reconnect, submit, claim, ready, time out, leave | tasks share the room under a mutex but keep copies outside it |
| Connection limits | `server/src/room.rs` | two kinds of atomic counters, a map under a lock | `acquire_ip_slot`, guard drop | check-then-act on atomics, pruning |
| Registry and store | `server/src/room.rs`, `store.rs`, `main.rs` | rooms map, files | `create_room`, `restore_from_store`, `save_room` | capacity race, replaced rooms, crashes between system calls |
| Clients | `client/src/connection.ts`, `elements/baize-game.ts`, `python/baize/client.py` | last sequence seen, state shown, connection | send, retry, check | messages in flight, dropped states |
| Mental poker | `engine/src/mental_poker.rs` | deck, history, phase, dealt cards | shuffle step, deal, verify | order of steps, chain of hashes |
| Felt compiler | `felt/src` | none | parse, check, refuse recursion, generate | three passes that must agree |
| Vault, random requests | `server/src/vault.rs`, `protocol.rs` | hidden decks | roll, draw, shuffle | two records of one deck |
| Rate limiter | `server/src/rate_limiter.rs` | time stamps | `check` | none across tasks |
| Definition, verify, registry of components, perturber | `engine/src` | none or look-up tables | pure functions | data, not behaviour |
| Extensions, WASM hosts | `engine/src/extension.rs`, `server/src/*_host.rs` | handles of one call | host functions | none shared |
| Python engine and tools | `python/baize` | the same session again, betting rounds, pots | as the engine, bet, showdown | sums of chips |

How they interact: a WebSocket request takes a slot (connection limits), finds its
room (registry), and becomes a task (`handle_socket`). The task joins the room under
the room's mutex and then selects over three sources: messages queued for it,
messages from its peer, and a sleep until the claim deadline it knows. A message is
handled under the mutex by `handle_client_message`, which calls the engine; the engine
is sequential and knows nothing of connections. What the engine accepts is broadcast
into the bounded queues of the others, from which their tasks forward it.

What makes each correct:

* Turn machinery: one player holds the turn; rounds and windows end with the call that
  completes them; claims are settled by priority and then by order; a finished game is
  final; the budget holds; errors leave nothing half open.
* Boards: a component is in one place at most; stacks keep their limit; what is offered
  is accepted and loses nothing; fog shows what is in range; the end is attributed to
  the player who acted.
* Room: a seat's sender belongs to its task; readiness is never stale; the deadline
  and the window agree; somebody watches the deadline; the game is changed only
  through the engine.
* Clients: a move is carried out on the state it was made on; whoever keeps checking
  catches up; a refused move can be tried again.
* Connection limits: counters equal the connections they count; limits hold.
* Registry: the capacity holds up to the requests in progress; through any crash no
  definition on disk is torn, and none is forgotten or differs from the room players find
  but for a named reason (overlapping or failed saves, a dropped request, a failed read).
* Mental poker: late and repeated steps change nothing; the deck stays a deck; each card
  is dealt once; honest games verify.
* Felt: a text is read as it was written, recursion is refused exactly, and a call
  returns what the program means.

`PROJECT.json` lists the components with their status, and the hazards at their lines.

## 2. Modules

| Module | Models | Code |
|---|---|---|
| `TurnOrder` | what the turn machinery promises: a holder of the turn, rounds, a call for claims, the end | abstract |
| `GameTurn` | the turn machinery | `transition.rs`, `runtime.rs`, `handle_claim_timeout` |
| `Room` | connections, messages and the timer, over `GameTurn` (EXTENDS) | `connection.rs`, `protocol.rs`, `room.rs` |
| `Session` | clients, sequence numbers, queues, messages in flight | `protocol.rs`, `room.rs`, `connection.ts`, `baize-game.ts`, `client.py` |
| `ConnLimits` | connection slots | `room.rs` |
| `Registry` | rooms and their files, with crashes | `room.rs`, `store.rs`, `main.rs` |
| `Board` | a grid, what actions do to it, moves, fog, the end | `runtime.rs`, `transition.rs`, `moves.rs`, `end_conditions.rs` |
| `Dealer` | what a shuffled deck promises | abstract |
| `MentalPoker` | a session of mental poker | `mental_poker.rs` |
| `CallGraph` | the search for recursion in a call graph | `callgraph.rs` |
| `FeltTree`, `FeltGrammar` | syntax trees; the parser, rule by rule, and the text of a program | `parser.rs`, `ast.rs` |
| `FeltPipeline` | a program is written, compiled and called, over `FeltGrammar` and `CallGraph` | `main.rs`, `callgraph.rs` |
| `FeltCompiler` | type checker and code generator | `checker.rs`, `codegen.rs` |
| `Felt` | what `FeltPipeline` leaves open: recursion through the rules, the stack machine; the meaning of programs | `felt/src` |

`MC...` modules are the instances for TLC; `GameTurnProofs`, `RoomProofs`,
`SessionProofs`, `ConnLimitsProofs`, `RegistryProofs`, `BoardProofs`, `MentalPokerProofs` and
`FeltProofs` hold the theorems.
Some operators are introduced by "A slip:". They are wrong versions of the operator
that follows, used to confirm that a property notices (`mutants` in `PROJECT.json`);
no specification uses them.

### GameTurn

A step is one call of an entry point. `ApplyAction` is `apply_action_for_player` in an
ordinary phase: `execute_action` (`CanExecute`, `EventsOf`, `CommitsAfter`) and then
`finalize_turn`, whose ways out are `FinalizeRefused` (budget, size, unknown rule),
`EndConditionMet`, `OpenWindow` and `PassTurn`, in the order of the code.
`RefuseAction` is an `Err` of `execute_action`. In a simultaneous phase a call is
`SubmitSimultaneous`, or, for the player who was missing, `ResolveRound` or
`AbortRound` (an action of the round is refused). `SubmitClaim`/`LastClaim` are
`apply_claim`, `ClaimTimeout` is the server's loop of `apply_claim` over everybody who
is pending, which runs under one hold of the mutex. Calls that are refused without a
change are stuttering steps.

Abstracted: what actions do to the board (so whether an action is refused for its
contents, whether an end condition holds and whether the serialized state is too big
are nondeterministic; `Board` has the other half), the contents of events and hashes.
Players are the numbers of their positions in the definition. `move_count` always
equals `sequence`. The real counters saturate at 2^64; the budget of 100 000 events
keeps them far from it (`EventBudget` bounds both). A definition's triggers are a
sequence in definition order, because `find_matching_trigger` takes the first.

### Room

A connection is a task: `outside`, `looping` (in its select loop), `leaving` (past the
loop, before the clean-up). One hold of the room's mutex is one step. Between
`looping` and `outside` there are two steps because other tasks run between the end of
the loop and the clean-up, and because nobody tells a task that its seat has been taken
over: the old task stays in its loop (its `recv` of the closed channel just disables
that branch of the select) and can still send moves.

A deadline is not a time but the window it was set for. `Armed` is the local deadline
for the window that is open, `Stale` one for a window that has been resolved since;
when a window is resolved, all armed deadlines become stale in the same step.
Deadlines may fire at any time in any order, also a stale one before an armed one: it
was set earlier. A join that is refused, a rate-limited message and a message refused
by validation change nothing that is modelled; the latter still runs the block after
the handler that copies the deadline (`OtherMessage`).

`Room` describes the release build. With debug assertions, what the run `takeover` and
the configuration `MCRoomSequence.cfg` refute are panics instead.

### Session

`Session` is about numbers and messages, and takes the game as three ways an accepted
move can end (the turn passes and the sequence advances; a claim window opens; the game
ends, in the last two without a new number, as `PassTurn`, `OpenWindow` and
`EndConditionMet` of `GameTurn`). A client is `connection.ts` with the handlers of
`<baize-game>` that keep state: it shows the last state it got (`view`), sends the last
number it was told (`current`), and forgets the number when it connects. `Impatient`
clients also move when the turn is not theirs, which the browser client allows; the
others look first, as an agent does. The task expects at least `expected`, and raises it
before it looks at the rest of the message.

`queue` is the bounded channel of a task and `upward` the messages on the socket. An
entry of the queue is the set of states that it carries: one, or none for a refusal. A
message that does not fit is dropped, and the connection goes on (a comment at
`broadcast` expects the handler to disconnect then; it does not). `Limited` is a message the rate
limiter stops, whose answer does not pass through the queue. `acknowledge_state`
compares hashes; here the number of changes stands for the state.

`told`, `blind`, `seen` are kept for the properties: whether the state shown came over
this connection, who has moved without having seen that it was his turn, and which
state a move was made on.

### ConnLimits

Every `fetch_add` and `fetch_sub` is a step. The map is changed under its write lock:
`TakeLock`, one `Prune` per entry (each loads its counter at its own time), `LookUp`.
`Cancel` is hyper dropping the handler's future at its only await when the peer is
gone while the task waits for the lock; it is external behaviour, and the reason why
`CountersMatchTasks` says `>=` of the total. A guard is dropped also when the room does
not exist; a refusal after the count (`counter` then `total`) and a drop do the same.

### Registry

A request to create a room goes `check` (the capacity, under the read lock), `create`,
`write`, `rename` (`atomic_write`), `insert` (under the write lock). Names and files are
told apart, because a rename moves a name while another task has the file open:
`names[r]` maps the two names of a directory to files, `fd` is what a task has open, and
`WriteTemporary` overwrites from the start of the file it opened, wherever its name is by
then. `SaveFails` is an error of any call: it is logged, and the room created all the
same. `Cancel` is hyper dropping the handler's future when the peer is gone while the
request awaits a lock: the read lock at `room.rs:207`, with nothing done yet, or the write
lock at `room.rs:251`, between the save and the insertion. Calls of the file system are
synchronous, so a request is not dropped between them. `Restart` is a crash at any point
and the start of a new process, which opens the directory or goes on without it
(`persistent` false: nothing is kept until the next start), lists it and restores one room
after the other (`LoadRoom`, then the same steps as a request, with a new save) before it
serves. What of this fails is logged, and the server serves without it: `list_rooms`
(`main.rs:60`, the empty choice of `todo'`), a definition that `exists()` cannot look at
(any smaller choice of `todo'`), `load_room` for one room, also for its `state.json`
(`LoadFails`).

Three variables are history and hold the exceptions of the properties. `disturbed` has the
rooms whose saves overlapped or failed, for which nothing is promised from then on.
`abandoned` has the rooms whose request was dropped at the write lock: the definition is on
disk, but no room is listed, or still the old one, so that neither `NothingForgotten` nor
`DiskAgrees` can hold for them; they leave it when a request inserts the room or the process
starts again, and what is on disk stays whole all the while. `unread` has what the last
start did not list or could not read: it is on disk and has no room until a request for it
or a later start. TLC refutes both properties when these exceptions are taken away.

### Board

`Board` has one grid and the table of components. `MoveOutcome`, `PlaceOutcome`,
`RevealOutcome`, `RemoveOutcome`, `SwapOutcome` and `PromoteOutcome` are the arms of
`execute_action`, with what they have changed when they refuse; `Finish` is what the
caller does with it. `Get`, `Set`, `CanPush`, `Push`, `Pop` are those of `GridStorage` and the
mask: a sparse grid takes positions outside its dimensions, a dense one does not.
`LegalMoves` is `moves.rs` for its primitives and named directions.

`Tracked` excludes one kind of grid from two statements: on a sparse grid with
dimensions, a piece can be placed at a position off the board, where the checks of `Pop`
do not find it: moving it from there leaves it where it is and puts it on the
target as well. `DecidedByMover` is stated for grids with a limit of one: with stacks, a
refused move onto a full stack destroys the piece that moved, which can uncover a piece
of the opponent and complete his line, and nobody is declared the winner because the
conditions are looked at after accepted actions only. Both were found by TLC, the second
with a limit of two and lines in one definition.

### MentalPoker

The arithmetic of SRA is the code's over a small prime; a hash of a deck is the deck.
Steps that players compute stay in `sent` forever, so they arrive in any order, late, and
more than once; players compute steps out of turn and again. `Opened` takes the
encryption of some players off a card, one player after the other, as both
`deal_card_with_keys` and `verify_game` do. `CardHolder` maps the session to `Dealer`.

### Felt

A behaviour writes a program, expression by expression, prints it with the fewest
parentheses, compiles the text, and calls the result; so the set of all programs over a
vocabulary up to a size is checked, each with every kind of argument. `FeltGrammar` has
one rule (`LevelRule`, `RestRule`, `AtomRule`, ...) for each function of the recursive
descent parser that is entered recursively; where the function calls one of them, the rule
calls a constant operator (`ParseLevel`, `ParseRest`, ...). So is what a function calls: `CallsRule`
calls the constant `Calls`. `Felt` declares a RECURSIVE operator for each (`FeltLevel`, ...,
`FeltCalls`), which gives what the rule gives and nothing else, and `MCFelt.cfg` gives it to the constant:
TLC runs the parser, and the theorems hold for anything that the rules are true of.
`FeltPipeline` writes programs, finds cycles (`Cycle`, the depth-first search of `CallGraph`)
and leaves checker, generator and execution to constants; `FeltCompiler` infers types
(`Infer`), assigns locals (`Prescan`) and emits code (`CompileModule`). `Felt`
validates and executes the code like a WebAssembly host, and states what a program means
(`Eval`). `RegularProgram` names the programs for which the two agree. Outside it, the
compiler does something else than `FELT.md` says, and this is what we saw:

* a `let` that shadows a parameter overwrites the parameter's local for the rest of the
  function (`FELT.md:284`);
* the last arm of a match is taken unconditionally, and a last `Some v` binds nothing;
* `Some 0` and `None` are the same number;
* division by zero traps, where the documentation says zero;
* an equation between Booleans, a partial application and a wrong guess of
  `infer_valtype` (it takes what it does not know for a 64-bit number) give modules that
  do not validate;
* arguments of a call beyond the third are dropped;
* the checker compares neither arguments with parameters nor the types of arms, nor does
  it ask whether arms are exhaustive;
* a second binding in one `let` or `where` is never parsed, since the value of the first takes the
  name as an argument, and `(-1)` is read as a section.

## 3. Runs

| Run | Expect | Bounds | Shows |
|---|---|---|---|
| `turns` | pass | 3 players, 5 kinds of action, 4 triggers, one ordinary and one simultaneous phase, 5 events, size check every 2 moves | invariants and action properties of `GameTurn`; it implements `TurnOrder` |
| `room` | pass | 3 connections, 2 named players, actions place (claimable) and pass, 6 events | consistency of lobby, seats and deadlines; `GameTurn` is implemented; armed timers end windows |
| `session` | pass | 2 clients, 2 connections, queue of 1, 3 changes, 2 moves in flight; 196 109 states | moves meet the state they were made on; who keeps checking catches up |
| `limits` | pass | 4 tasks, 2 addresses, 3 connections in all, 2 per address, 5 counters | counters exact, limits hold |
| `registry` | pass | 3 names, 2 requests at a time and 3 in all, 2 definitions, room for 1, 2 crashes; 348 977 states | capacity up to the requests in progress; the disk agrees with the rooms and nothing is forgotten, but for dropped requests and failed calls |
| `board` | pass | 5 definitions, 5 positions, 3 components; 22 573 states | components are in one place; stacks keep limits; offered moves are carried out; fog; who wins |
| `poker` | pass | 2 players, 2 cards, prime 11, 3 keys, 2 steps each | the deck stays a deck, honest games verify, `Dealer` is implemented |
| `felt` | pass | 7 vocabularies, up to 9 words, stack of 3, arguments 1 and 3; 1 052 115 states | text to tree, recursion, value of calls |
| `takeover` | violation | 3 events, 2 connections | `SeatHeldAtDisconnect` |
| `unwatched` | violation | the same | `DeadlineIsWatched` |
| `all_at_once` | violation | one simultaneous phase | `RoundCanGoOn` |
| `retry` | violation | 2 clients that look first, 1 move in flight | `MayTryAgain` |

Why the bounds are enough. *turns*: three players are the fewest with two competing
claimants besides the one who moved, and with an order among the claimants. The four
triggers are one of each kind the code tells apart (both eligibility rules, an unknown one,
one on resign, a default that is also ranked, a claim without a rank). Five events let a
window open, be answered and be followed by another turn, and then exhaust the budget
in every way (one too few, exactly, exceeded by claims). *room*: two players and three
connections give every overlap of an old task, its replacement and a third party; 6
events are enough for two windows after one another. *session*: three changes are a move,
an answer, and a third for a stale message to meet; a queue of one drops the second
message already; two connections let one client come back. *limits*: four tasks on two
addresses allow a race on one counter with a pruner from another address, and one task
beyond the total; five counters are more than can be referenced at once. *registry*: two
requests in progress race for one place and for one temporary file; a second definition
is shorter than the first, so an overwritten file keeps a tail; two crashes interrupt a
restart; three requests are a room, one for it that is dropped, and one that heals it;
with them the names and files never run out. *board*: each definition
reaches one part of the code (capture, lines; stacks of two with a hole in the board;
sparse with and without dimensions; fog), and three pieces are a stack with one on top.
*poker*: two players are the first and the last to shuffle; three keys modulo 11 include
equal ones. *felt*: each vocabulary reaches the operators of one part of the language at
the sizes at which its passes can disagree (nested bindings of one name, three functions
in every call graph).

Deadlock is not checked where play or creation may really stop; it is checked
in `limits`.

Violations are disagreements between the code and its own comments, assertions or
documents; `findings` in `PROJECT.json` quotes them. Further ones of the same kind, each
with its configuration here:

| Configuration | Property | Says | Does |
|---|---|---|---|
| `MCRoomEarly.cfg` | `TimeoutOnTime` | `engine/src/definition.rs:489` | a deadline of an earlier window ends the next one early (`connection.rs:279`) |
| `MCRoomSequence.cfg` | `SequenceAdvances` | assertion at `protocol.rs:519` | a window opened or a game decided keeps the number (`transition.rs:1020`, `1096`) |
| `MCConnLimitsPerIP.cfg` | `GuardsPerAddress` | `DESIGN.md:640` | pruning an entry between its look-up and its count lets one address exceed its limit (`room.rs:161`) |
| `MCRegistryTorn.cfg` | `NeverPartial` | `store.rs:92` | two saves of a room share one temporary file (`store.rs:108`) |
| `MCBoardRefused.cfg` | `RefusedChangesNothing` | `AI-PLAYER-GUIDE.md:395` | a refused move onto a full stack has taken the piece away (`transition.rs:250`) |

Observed as well, without a configuration: the guide promises that "the server rejects
stale sequences" (`AI-PLAYER-GUIDE.md:370`), but numbers have only to rise over a
connection, so after one move made too early a move for an earlier turn can be taken
(`ActsOnWhatItSees` excludes `blind` clients for this reason), and a claim is compared
with no window at all. The Python agent's state is updated by `state_sync` only
(`client.py:192`). The hash of a view that was filtered for a player is never that of the
server's state, so in games with hidden parts every check reports a difference.

Fairness. `Room`: weak fairness of `TimerFires` and `CleanUp` of each task, because tokio
polls a sleep whose time has come and runs a task that can run. It assumes that sending
to a peer's socket ends: a task that blocks in `socket.send` does not poll its timer.
Nobody is assumed to join, send or leave. `Session`: weak fairness of `Forward` (the same
assumption about the socket) and of handling a move or a claim that has arrived (a task
runs); strong fairness of `HandleCheck`, because a check can be stopped by the limiter
but not all of them are when they come at the pace of a client that waits for the answer
before it checks again; weak fairness of `Acknowledge`, an assumption about whoever calls
`acknowledgeState`: no caller is in the repository, so `CatchesUp` is a property of clients
that use it. Changes of the game are not assumed.

## 4. Proofs

Eight modules prove, for every value of the constants that satisfies the named
assumptions, all properties of the runs `turns`, `limits`, `registry`, `board` and `poker`,
all but the liveness properties of `room` and `session`, and of `felt` all but the meaning
of the compiled code: the source is read as it was written, and recursion is refused
exactly.

**GameTurn.** Assumptions: there is at least one player, the phases and triggers are
sequences of the right types, the budget is a number and the check interval positive
(`NumPlayersAssumption`, `KindsAssumption`, `TriggersAssumption`, `PhasesAssumption`,
`BudgetAssumption`).

* `TypeOK` is inductive (`TypeStep`). The work is in the claims: the minimum of a set of
  ranks exists and belongs to a claimant (`LeastExists`, `WinnerIsClaimant`), and the
  answers a timeout adds are a sequence of claims (`WithDefaultsType`).
* `RoundNotComplete` is inductive with `TypeOK`; so is `DecidedIsOver`.
* `WindowAwaitsAnswer` is inductive with `TypeOK`; its first conjunct is kept because the
  claim that leaves nobody pending is the case that resolves.
* `EventBudget` needs `WindowAwaitsAnswer`: the excess over the budget is bounded by the
  answers given so far, and those by the players, because nobody answers twice and the
  player who moved is not asked. It is stated for both states of the window because the
  bound with the window closed is only true after its answers have been counted.
* `ClaimsSettledFairly` is a fact about two definitions of the winner: the code's loops
  (`Winner`) and the statement without loops (`Prevails`).
* `ImplementsTurnOrder`: each way out of `finalize_turn` maps to an action of
  `TurnOrder`, everything else to a stuttering step.

**Room.** No connection is the missing one and a room has at least as many places as
players (`RoomAssumption`: `Players::Range` is validated to have min <= max);
`FreshJoinsAreSafe` assumes a game of named players, where both numbers are equal.
`RoomPlays` shows that each step is a step of the engine or none, so all of `GameTurn`'s
theorems hold in a room (`RoomGamesAreSound`). `RoomStep` reduces the steps to five kinds,
and `RoomTypeOK`, `SubscriberIsSeated`, `AllReadyMeansAll` and `WindowHasDeadline` are then
inductive, each with `RoomTypeOK`. `SubscriberIsSeated` is what makes a clean-up remove one
seat only: a task that is outside has no sender left.

**Session.** At least one client, a queue of at least one message
(`SessionAssumption`). The invariant has three parts: `Types`; `Behind` (nobody is ahead of
the game: the numbers that a client holds, sends or is expected to send are at most the
game's, and one more for the last); and `Meant`, for clients that are connected and not
blind. `Meant` says of every state shown or queued in which the client is to move, and of every
move on its way, that it is about the game as it stands or bears a number that the task
no longer takes (`Fits`, `InTime`). A move that is read raises what the task expects and
so makes all others made on the same state come too late, whether it was accepted or not;
and while a client is to move nothing but its own move changes the game. `blind` is
needed: without it `expected` can stay below an old state's number.

**ConnLimits.** Finite sets of tasks (`LimitsAssumption`). `Exact` compares each counter
with the cardinality of the tasks that have counted on it and not yet uncounted, and
`Limits` is the form of the limits that is inductive: all that were let in and not only
those that have their guard already (`Admitted`), since whoever is let in read a value
below the limit in the same step in which he counted. `CountedKeepsItsEntry` follows from
`Exact`: an entry is pruned when its counter reads zero.

**Registry.** Finite, nonempty requests, `Boot` not one of them (`RegistryAssumption`). The
invariant: `Shape` (types; a file is open while it is written; requests are in progress only
while serving), `Apart` (no file has two names, and who has a file of a room open is
creating that room), `Saved` for each room that is not disturbed (one task at a time has
its hands on the files of a room; the temporary file is empty before it is written and
holds the whole text before it is renamed; what has the name of the definition is whole,
and is what players find or are about to, unless the room is abandoned), `Counted` (rooms listed and tasks past the
check of the capacity are at most `MaxRooms` and the requests but one), and `Remembered`
(what is stored is still to be looked at, expected, listed, unread or abandoned, or there is
no place for it). A dropped request makes its room abandoned in the same step.
A crash keeps them because it keeps the disk, and a temporary file left behind is emptied
by the next `CreateTemporary`.

**Board.** Definitions have limits and dimensions of the right types, dimensions positive
(`BoardAssumption`; `definition.rs:692` validates it). No assumption is made on positions, boards
and kinds of movement, or on how many pieces there are. `Sound` says of a grid that cells
and stacks hold components of the table (`Grids`), that only positions of the mask are
occupied (`OnMask`), that what lies under a top leaves room for one (`Limited`, why
`Push` after removing a top keeps `StackWithinLimit`) and, where the grid keeps track,
that nothing is in two places (`Once`). Each operation of the grid keeps it (`Puts`, `Sets`,
`Pops`, `Pushes`), so each action's outcome is `Lawful`, refused or not.
`OfferedMovesAreCarriedOut` follows from a description of which components each operation
leaves on the board (`OnPop`, `OnPush`, `OnSet`) and from `TargetsAreFree`: whatever the
primitive, a target is on the board and is empty or an enemy's; in particular it is not
the origin. `EndIsTheMovers` needs that a refusal on a grid with a limit of one leaves the
board as it was, and that the table only grows.

**MentalPoker.** The modulus is a prime (`PrimeAssumption`; the code uses a fixed one of
2048 bits), a key has no divisor in common with `Prime - 1` (`KeysAssumption`; it is what
`generate_keypair` tests), and the deck is not larger than the group (`PokerAssumption`).
Nothing else is assumed of the arithmetic. `Bezout` gives inverses: of keys modulo
`Prime - 1`, so that the inverse the code computes exists (`KeyType`), and of numbers
modulo `Prime`, so that factors cancel. `Fermat` is Lagrange's argument: a set that
multiplication by m does not lead out of is divided by the orbits of m (`OrbitSplits`),
so the order of m divides its size (`OrderDivides`), and the group has `Prime - 1`
elements. Then decryption undoes encryption (`KeyInverts`), and taking encryptions off
commutes with putting them on (`OpenedCommutes`), so it does not matter when a player
takes his off (`OpenedByOneMore`).
The invariant `PokerInv`: every step on its way is the deck its player saw, encrypted and
permuted (`StepsHonest`, so a late step that happens to fit is as good as any); the steps
taken are as many as the phase says and lead from the new deck to the one on the table
(`HistoryCounts`, `ChainHolds`); the keys of those who have shuffled open the deck to the
new deck, permuted (`DeckUnderneath`); a card that was dealt is the one that all keys show
at its place (`DealtIsThere`). TLC checked it on the instance of `poker` before it was
proved. `DealsFromOneDeck` needs that different places show different cards: the card
dealt is one that nobody holds. `KeysInAnyOrder` justifies the model's fixed order of
decryption: any list of all players opens a card to the same number.

**Felt.** `RecursionIsFound` is about every finite call graph and every order of
functions and calls. The state of the search is `Sound` while there is no cycle: the path is
a walk, and the functions visited but not on the path call only each other and have no
cycle among them (`Finished`). A function whose calls all lead to finished ones can join
them (`OneMoreFinished`): a cycle through it would have to come back from a set that no
call leaves. `dfs` is defined by how much deeper it may go, and `DfsSearches` shows that
the number of functions is deep enough, since each level visits one more.

`SourceParsed` and `RecursionAlwaysRefused` are about every set of vocabularies, of any
words, arities, functions and sizes (`VocabulariesAssumption` says only that words are of the
language), and whatever checker, generator and host do. Their hypotheses are
`IsParser`, that each parser operator is what its rule says, on the texts of the language's
tokens, and for the second `FindsCalls`, that `Calls` is what `CallsRule` says. They are
hypotheses because the prover takes no RECURSIVE operator; the operators of `Felt` are
their rules literally, and some operators do satisfy the rules, since between two visits of
one rule a token is consumed, and `CallsRule` goes to the parts of an expression.

A text stands somewhere in a source (`Spans`), and what is read there depends on the token
that follows. `Expression` says of a text that wherever it stands it is read as its
tree, if a token follows at which its level ends (`Stops`). There is a lemma for each kind
of expression, from the words up to matches and where clauses, and from them
`NodeText` and `WrittenIsWritten`: if the parts of a node are read as they were written,
so is the node with the parentheses and sections that its text has. No induction over trees is
needed, because the program is written from the leaves up: `SourceInv` says of the
expressions that wait to be combined what the lemmas need (`IsWritten`), and that the functions
written so far are read from the source (`SourceRead`). `CompileFile` then reads the whole.
`Text` prints with the fewest parentheses that `FELT.md:143` asks for, so what is proved is that
the parser's levels put back what the printer left out. A text in which a parenthesis is followed
by a minus sign is not compiled (`Printable`): the parser reads a section there.

`CallsInv` says that an expression that was written calls functions of the program only
(again from the leaves up), and that the verdict was made from the call graph of what was
parsed, which `SourceInv` shows to be the program's. `ReachesBack` links the two ways to
say that a function calls itself: it is in every set that holds what it calls and what
its members call (`Reaches`, what the property says), and there is a walk from it back
to it (what the search finds).

Induction. The induction theorems of the library take an operator as a parameter, which
the provers cannot instantiate. Its theorem that numbers are well founded does not, and
`Least` and `Induction` derive from it that a set of numbers that contains zero, and with
each number the next, contains all. With the set of numbers for which a statement holds, it proves
what recursive functions compute (`PowerDefined` and `OpenedDefined`, `FollowAllDefined` and
`DfsDefined` show first that they exist).

Model-checked only: liveness under fairness (`ArmedTimerEndsWindow`, `CatchesUp`) and
properties with ENABLED (`RoundCanGoOn`) are beyond the prover. `MeaningKept` compares the
meaning of a tree with the execution of nested code that was generated from guessed types, and its
premise `RegularProgram` and both sides are RECURSIVE operators, with which the prover loses its
arithmetic; a proof would need the rules of checker, generator, machine and meaning as
hypotheses, as the parser's are, and their agreement for every kind of expression.

## 5. Not modelled

Zones that are stacks, sets, queues or tracks, draws, counters and ships; end conditions
other than a line and a full board, and CEL; filters of hidden hands; hashes and event
contents; real time; `request_random` and the vault; `update_state`, `append_events`,
`delete_room` and `persist_state`, which nothing calls, and the contents of
`state.json`, which `restore_from_store` loads and does not look at; Felt's lexer, strings, lists, records and type
definitions; the tables and limits of WASM hosts; the Python engine, rendering, game
definitions and schemas. `components` in `PROJECT.json` gives the reason for each.

## 6. Plan

Done: `TurnOrder`, `GameTurn`, `Room`, `Session`, `ConnLimits`, `Registry`, `Board`, `Dealer`,
`MentalPoker`, `CallGraph`, the Felt modules, and the proofs of all of them (of Felt, the
parser and the search for recursion).
Left, in order of importance:

1. `Cards`: stacks, hands and draws beside `Board`, the vault's decks and
   `request_random`: a card is in one place across engine and vault (the draw of a player
   without a zone, `transition.rs:557`, is a hazard without a property so far). In the
   server as it stands only the tests give the vault a deck (`register_deck`,
   `vault.rs:78`), so a running server refuses every draw and shuffle request: the module
   takes the decks as given, as those tests do.
2. A room for a range of players, with spectators (`connection.rs:753`).
3. `Betting`: betting rounds and pots of the Python engine; chips are conserved.
4. `Room` over `Session`: the takeover of a seat with messages still queued.
