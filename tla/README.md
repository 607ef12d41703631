# Verification of monitostr

monitostr is a terminal program that finds the relays of a Nostr user and
monitors them: it keeps one WebSocket session per relay, shows a table of their
states and a log, and answers relays that ask for authentication. This directory
holds TLA+ models of it, the TLC configurations that check them, and proofs that
TLAPS checks. Paths below are relative to the repository.

## The system

| Component | Source | State | Operations |
|---|---|---|---|
| Relay session | `src/net/relay_session.cpp` | `stopped_`, `ws_connected_`, `auth_key_`, `reconnect_attempt_`, the operations under way, the stream | `SetAuthKey`, `Start`, `Stop`, one handler per asynchronous operation, `MarkError`, `ResetTransport`, `ScheduleReconnect`, the NIP-11 fetch |
| Session support | `src/net/relay_session_support.cpp` | none | what a frame means, whether and when to retry |
| Relay statistics | `src/model_relay_stats.cpp` | the table of rows, under a mutex | `EnsureRelay`, `SetStatus`, `IncrementEvent`, `RecordLatency`, `SetSupportedNips`, `Reset`, `Snapshot` |
| Session manager | `src/net/session_manager.cpp` | `sessions_`, without a lock; the pool of the NIP-11 fetches | `Start`, `StopAll`, `UpdateAuthKey`, `HasActiveSessions`, `Shutdown` |
| Program wiring | `src/main.cpp` | the key, the header, the threads | the npub and nsec callbacks, the bootstrap completion, the exit sequence |
| Relay discovery | `src/net/bootstrap_client.cpp` | one worker thread, the seeds, the relays read so far | `ResolveRelaysForPubkey`, `Shutdown` |
| URL parsing | `src/net/relay_target.cpp` | none | `SplitRelayHostAndTarget`, `ParseRelayUrl` |
| UI controller | `src/ui/app.cpp` | mode, input buffers, navigation | one handler per key and mode, the frame |
| Command processor | `src/ui/command_processor.cpp` | none of its own | `ExecuteCommand` |
| Navigation | `src/ui/navigation_controller.cpp` | none of its own | movement, search, panes |
| Renderer | `src/ui/ui_renderer.cpp` | none | windows, scroll bars, layout |
| Log buffer | `include/monitostr/model/log_buffer.hpp` | the last 400 lines, under a mutex | `Push`, `Clear`, `Snapshot` |
| NIP-19 keys | `src/nip19` | none | decoding and encoding of npub and nsec |
| NIP-42 signing | `src/nostr` | an `AuthKey` | deriving a public key, signing an AUTH event |
| Secret memory, strings | `include/monitostr/security`, `include/monitostr/utils` | none | wiping, trimming |

How they interact. Three kinds of threads run: the UI thread (main and the
terminal loop), one io thread (all sessions, each on its own strand, and the
bootstrap completions), and pool threads (one for discovery, two for NIP-11). A
submitted npub or nsec makes main change the header, empty the table and post a
job to the discovery worker. The worker talks to the seeds with blocking calls
and posts the result to the io thread, where the completion calls
`SessionManager::Start`: stop all sessions, clear the vector, start one session
per relay. A key entered while sessions exist is not a new submission; it is
posted to every session. Sessions write the table and the log, the UI reads
snapshots of both. At exit main stops the sessions, the pools and the io thread,
one after the other, and joins each while those that are left go on.

What is hard here. A session is a chain of callbacks any of which may meet a
`Stop` that came between the completion and its handler, a retry timer that is
both expired and cancelled, or a result fetched for an earlier state. A retry
shuts the old TLS stream down in a call that blocks the one io thread. Sessions of
two submissions overlap, share rows of the table by URL, and find the table
emptied while they run. The vector of
sessions is used by two threads. Discovery has to leave a seed that fails half
way, or that talks without end, and must not mix the answers of two queries. Five
kinds of calls block a thread without a deadline, and the exit joins all threads.
A typed key passes through texts, symbols, bytes and hex, by calls each of which
may fail and must then leave nothing behind. The
UI holds indices into data that other threads change. `PROJECT.json` lists each
such place with its line, and the properties that watch over it.

What makes each component correct:

- a session has at most one operation of its chain outstanding, its row tells
  where it is, it retries within its budget and stops trying only for a reason,
  and after `Stop` it only winds down;
- until the user quits the manager loses no running session; it manages one
  submission at a time, and an older one never replaces a newer one; a pushed key
  arrives unless a TLS shutdown never returns;
- discovery returns relays that can be monitored, exactly those the answering
  seed listed, the newer kind of list before the older, and ends unless a call
  of the network never returns;
- the exit ends, and a fetch runs, unless a call of the network never returns;
- what is dialled is the URL that was listed, whole;
- a key has one text, a damaged text is no key, and a call that fails leaves no
  hex, bytes, keypair or context of a key behind;
- the UI shows the selected row and as many lines as fit, goes through all
  matches, keeps no typed secret and never hands a private key to the callback for
  public ones.

## The modules

| Module | Models | Used by |
|---|---|---|
| `RelayStats` | the table of rows: its operations as functions of the table | `RelaySession` |
| `RelaySessionSupport` | `ParseRelayMessageEffect`, `ShouldReconnectAttempt`, `ComputeReconnectDelayMs` | `RelaySession` |
| `RelayTarget` | `SplitRelayHostAndTarget`, `ParseRelayUrl` | `Bootstrap` |
| `RelaySession` | the session, one action per call, completion and handler | |
| `SessionContract` | what a session promises, without the network | `Monitor` |
| `RelaySessionRefinement` | the mapping from `RelaySession` to `SessionContract` | |
| `Monitor` | main, `SessionManager`, the discovery queue, many sessions | |
| `Threads` | `Monitor` with the fetch pool and the steps of the exit | |
| `Bootstrap` | one discovery job | |
| `Nip19` | the bech32 texts of keys: checksum, change of base, hex | `Keys` |
| `Keys` | a typed key from the callback to the signature, with all calls that may fail | |
| `Navigation` | the navigation functions, on the navigation state | `App` |
| `Viewport` | windows and scroll bar thumbs | `App` |
| `App` | keys, modes, commands, frames, with the log and the rows changing | |
| `MC...` | values for TLC; `MCViewport`, `MCDial` and `MCFunctions` check the functions without state | |
| `Induction_proofs` | lemmas: induction and recursion up to a number | `Bootstrap_proofs`, `App_proofs`, `Functions_proofs`, `Keys_proofs` |
| `RelaySession_proofs`, `RelaySessionRefinement_proofs`, `Monitor_proofs`, `Bootstrap_proofs`, `App_proofs`, `Functions_proofs`, `Keys_proofs` | theorems and their proofs; `Monitor_proofs` also has those about `Threads`, `RelaySession_proofs` those about `RelayStats`, `Functions_proofs` those about `Viewport`, `RelaySessionSupport` and `RelayTarget`, `Keys_proofs` those about `Nip19` | |

`SessionContract` is the abstract specification of a session: new, dialling,
live, waiting to retry, or down; halted or not; with a budget; and the row as the
user tells states apart. `RelaySession` is shown to implement it
(`KeepsContract`, a refinement with `PhaseOf` and `ShownOf` as mapping), and
`Monitor` is built from the contract's sessions, so that it can run several of
them beside two threads and the worker.

### State and actions against the code

`RelaySession`. `ops[s]` is the set of operations the session has started and
whose handler has not run. `Complete` ends an operation with success or an error;
the handler is a separate action, so `Stop` can run in between, and cancelling
turns an operation that is still in flight into an error but leaves a completion
that is already queued alone. Each `On...` action is the whole handler, with
everything it calls: `MarkError` includes the decision to retry and the timer.
The one exception is the retry: `OnTimer` runs to the TLS shutdown of
`ResetTransportForReconnect`, a blocking call without a deadline, and `ResetEnds`
goes on from its return. In between (`closing_tls`) the io thread runs nothing,
while the network, the fetch pool and main go on. `Reset` is main emptying the
table, at any time. `socket_open`, `closing`, `auth_writes`, `fetches` and
`posted` are the socket, the closing handshake, AUTH frames being written and
NIP-11 fetches with their results. Handlers of one session run on one strand and
so are single steps. asio runs queued handlers in order; the model lets any
queued handler run next, which includes that order.

`Monitor`. The unlocked code is split where another thread can come between: the
nsec callback into setting the key, `HasActiveSessions` and `UpdateAuthKey`;
`Start` into its result, one step per session stopped, the clearing, and two steps
per session started, `push_back` and `Start`; the `StopAll` of main's exit into
`Exit`, one `ExitStopOne` per session and `ExitClear`. `UpdateAuthKey` is one
step: its loop and those of `StopAll` and `Start` use the vector at the same time,
which is `VectorNotShared`. A call from the UI thread goes through `inbox[s]`, the
strand's queue. A call from the io thread runs at once when that queue is empty and
waits behind it otherwise, a `Start` behind a `Stop` that the exit has posted since
`push_back`. The contract's steps are taken by the io thread between its callbacks;
a retry is `ResetTransport`, in which the io thread blocks, and `ResetEnds`.

`Threads` extends `Monitor`. A fetch is posted where `OnWsHandshake` ends, taken in
order by a free thread of the pool, and returns when the network lets it; its
result goes to the session's strand. `exit` is the line main is at after `StopAll`:
each pool is stopped, then joined, then the io thread. A thread that is stopped
takes nothing more but ends the call it is in. `KeepsMonitor` says that this is
still `Monitor`, where what follows `StopAll` is one step.

`Bootstrap`. `at` names the blocking call the worker is in: dial, request, read,
close, or the check of the eight seconds between two frames. A seed may fail in
every call that throws. `answers` records the events read, with the seed and the
query during which they came; the properties compare the result with it, and no
guard but its bound looks at it. URLs are those of `RelayTarget`: a scheme and the
characters after it, among which only `:`, `/` and `?` are told apart.

`Nip19`. A text is its human-readable part, its symbols as numbers, and its case.
The thirty bits of a checksum are a set of positions, and exclusive or is the
symmetric difference. `CharToValue` also finds the terminating NUL of its charset;
no text has one, because the terminal library makes no character of it.

`Keys`. Each action is the code up to the next call that may fail. `held` names
what the source clears at some return: hex, privkey bytes, keypair, the two random
seeds, the event id, the secp256k1 context, and the decoder's symbols and bytes. A
random source that fails may have written to its buffer or not. `held` does not
name what no code clears by name, such as copies inside streams. When an `AuthKey`
comes about, `std::move` of the array is a copy, and `privkey_bytes` keeps the key:
`held` says so, and the property excepts it. `NotCleared` lists what the
returns leave that do not clear everything: the decoder's on an error, and those for
a random source that fails.

`App`. One action per key and mode. A text is a member of a small set, and a
command a name with an argument. `Render` is the frame: it is where the selection
and the scroll position are limited and where following scrolls to the end.
`LineArrives` and `RowsChange` are the other threads.

## What is checked

All runs are listed in `PROJECT.json`. Deadlock is checked, except in the
runs of `Monitor` and `Threads`: a program that has exited rightly has nothing left
to do.

| Run | Instance | States | Shows |
|---|---|---|---|
| `session_one` | 1 session, 2 keys, 4 kinds of frames, 2 retries, 1 event, 2 AUTH writes, 2 fetches, 2 latencies, beside 1 session on a `ws://` relay; the table emptied at any time | 977,000 | `TypeOK`, `ChainExclusive`, `StatusTracksChain`, `NewStageIsShown`, `AttemptTracksProgress`, `GivesUpForAReason`, `NoWriteAcrossStreams`, `CloseOnlyAfterHandshake`, `StoppedSessionWindsDown`, `NoNipsAfterStop`, `KeepsContract` |
| `session_shared` | 2 sessions on one relay, no key, 1 retry, 1 event; the table emptied at any time | 89,000 | `KeepsContract` when two sessions write one row, and `NoEndlessRetry`, `ScheduledRetryDials`, `DialSettles` |
| `functions` | tables and logs of 0 to 24, windows of 0 to 12; attempts 0 to 12, jitters 0, 1, 125, 249 and 250, in pairs; URLs of 5 characters, of 4 kinds, after the scheme | 17,000 | `SelectedRowShown`, `LogWindowFull`, `ThumbTellsPosition`, `DelayBacksOff`, `UrlPreserved` |
| `keys` | keys of 2 bytes, their texts with 1 or 2 wrong characters, 2 swapped, cut, in mixed case or for the other callback, and 3 to 5 symbols with a right checksum | 18,000 | `DamageIsNoticed`, `OneTextPerKey`, `NothingElseLeft` |
| `exit` | 2 relays, 1 submission, 1 retry, 2 fetch threads, 1 waiting fetch | 453,000 | `KeepsMonitor`, `ExitEnds` |
| `pool` | the same with 2 waiting fetches | 1,027,000 | `QueuedFetchRuns` |
| `monitor` | 1 relay, 1 key pair and 1 other public key, 2 submissions, 1 retry | 270,000 | `TypeOK`, `NothingRunsUnmanaged`, `OneSubmissionManaged`, `SubmissionsAdvance`, `PushedKeyArrives` |
| `bootstrap` | 3 first seeds, 1 well-known seed, 6 URLs of 4 kinds, 3 lists, 2 answers | 11,000 | `TypeOK`, `ResultIsMonitorable`, `ResultIsWhatTheSeedListed`, `NewerListWins`, `TalkingSeedIsLeft` |
| `app` | a log of 3 lines of 2 kinds, panes of 1 and 2 lines, pages of 2, a relay that comes and goes, all kinds of input, 11 commands | 2,218,000 | `TypeOK`, `EveryMatchIsReached`, `NoLingeringInput`, `PrivateKeyGoesToAuth` |

Why the bounds are enough. A retry budget of two has a first, a last and no
further retry. Two AUTH writes are the least that overlap, and two fetches the
least of which one is older. One event is enough to create a row after a reset,
and counters are not compared with anything. Two submissions are the least that
can overtake one another. `MaxInbox` limits the keys that wait on a strand and no
other call, so that a key waits behind a Stop, a Stop behind a key, and a Start
behind both. One retry puts the io thread into a TLS shutdown and
takes it out again, which is all that `Monitor` sees of it. A key of one of two
public keys is entered for what is monitored or for something else.
`MaxFetches` drops a fetch where the code would queue one more; `pool` has as many
waiting fetches as threads, and as many again under way. Two answers are one to
each query, or two to one. A log of three lines is longer than either pane, drops
its oldest line, and has up to three matches. A pane is shorter than a page or as
high as one; in the program a page has 8 lines and the pane 6 to 12, and `end`, with
four lines, also has the pane that is higher. No property of `app` is about the order
of the rows, so one relay that comes and goes is enough. The delay is
constant from the seventh attempt on. Five characters hold every order of two
delimiters and a name on each side. Two bytes are sixteen bits, which leave the
same four bits of padding in their last symbol as the thirty-two bytes of a key;
the theorems about `Keys` hold for every length, the thirty-two bytes of the
program included. Two sessions are as many as the fetch threads, so
that both can be stuck. The proofs need none of these bounds.

Fairness. The io thread runs every handler that is queued, in its turn, which is
what `io_context::run` does, unless the TLS shutdown of a retry holds it up
(`relay_session.cpp:463`, on any session, without a deadline). The handlers are
enabled only while it does not: strong fairness of `IoFree /\ ChainHandlers`, per
session, asks that a session's handlers run although other sessions' shutdowns
come between again and again, and asks nothing once one shutdown lasts for ever.
The timer expires, and the operating system gives up a lookup or a TCP connect:
weak fairness of `Bounded`, which is completion in these three stages only. No
fairness is assumed of the TLS and WebSocket handshakes, of writes, reads, the
closing handshake, the TLS shutdown or a fetch, because the code sets no deadline
on them; `ScheduledRetryDials` and `DialSettles` name the shutdown that never
returns (`IoStuck`) as their exception.

In `Monitor` the UI thread goes on with a callback it is in, and the io thread
delivers the calls on a strand in their turn: strong fairness of `Deliver`, for the
same reason. The discovery worker is not fair, and `PushedKeyArrives` has the same
exception. In `Bootstrap` the worker's own steps and the clock are fair and the
network is not, so `TalkingSeedIsLeft` says: the job ends, or one call never
returns. In `Threads` main goes on with its exit, the io thread ends the `Start` it
is in, and a free fetch thread takes the next fetch; no fetch, job or TLS shutdown
needs to return, so `ExitEnds` and `QueuedFetchRuns` name the calls that may hold
them up.

Each property is also checked to depend on the code: `PROJECT.json` names, for
every property of a run, a wrong form of one definition under which TLC finds it
violated. Those forms stand in the modules beside the definitions they replace,
alone or in groups under a comment that starts with "Seeded bug".

## Disagreements between the code and its documents

Three runs check what a document, a comment or a message says and find it violated.

- `vector_shared`: `copilot-instructions.md:12` wants shared state to be updated
  through `RelayStats` and `LogBuffer` only. `SessionManager::UpdateAuthKey` goes
  through `sessions_` on the UI thread while `Start` refills it on the io thread, and
  so does the `StopAll` of main's exit.
- `emergency`: `bootstrap_client.cpp:338` reports "using emergency fallback set"
  when all seeds fail; the result it posts has no relays.
- `end`: `README.md:121` says `$` goes to the end of the pane. It scrolls to the
  last 8 lines of the whole log and stops following, so that a pane of 6 or 7
  lines hides the last ones.

The models also reach the following. The statement is a definition in the module
named, mostly under "the model refutes"; none has a run of its own, and naming one in a
configuration of that module shows the behaviour.

| Statement | Module | What happens |
|---|---|---|
| `NoDialAfterStop` | `RelaySession` | a lookup that `Stop` cannot cancel goes on to connect |
| `StoppedSettlesDisconnected` | `RelaySession` | the aborted read of a stopped session writes Error over Disconnected |
| `StoppedTerminates` | `RelaySession` | a silent peer keeps a stopped session alive |
| `NewestKeyReachesSessions` | `Monitor` | a key entered during a bootstrap is not the key of the sessions it starts |
| `NsecStartsMonitoring` | `Monitor` | an nsec entered while sessions run does not change what is monitored |
| `HeaderMatchesSessions` | `Monitor` | after a failed bootstrap the old sessions go on under the new header |
| `NoGhostRows` | `Monitor` | old sessions put rows back into the emptied table |
| `RunningIsManaged` | `Monitor` | at exit, a session that `Start` adds between the loop and the `clear` of main's `StopAll`, or whose `Start` waits behind that Stop, runs outside the vector without a Stop |
| `ExitStopsSessions` | `Monitor` | the io thread is stopped before posted Stops run |
| `EventIdIsCleared` | `Keys` | `signer.cpp:210` clears "all sensitive stack buffers before return", and lines 205 and 214 the event id among them; the return at 194 to 199, for a random source that fails, comes after the event id and leaves it |
| `SymbolsAreCleared` | `Keys` | the comment at `bech32_internal.hpp:177` wants the symbols zeroed before returning on error; the returns for a wrong character and a wrong checksum do not |
| `ContactsBeforeFallback` | `Bootstrap` | a list of `ws://` relays only leads to the fallback set, kind 3 is not asked for |
| `TopIsShown` | `App` | `gg` does not leave follow mode |
| `NextMatchIsShown` | `App` | `n` uses an index of the whole log in the filtered pane |
| `CopiesTheHighlighted` | `App` | the selection is an index, and a new row shifts it |

## What is proved

The theorems hold for every number of sessions, relays, keys, lists and frames,
every retry budget and every bound. All safety invariants and action properties
of the runs are proved; `KeepsContract` and `KeepsMonitor`, the two refinements,
are proved as well.

They rest on the assumptions on the constants that the modules declare, which TLC
evaluates in the runs. Most say that bounds are naturals and inputs have their
type. The others: a job of the queue is not the value that stands for no job
(`NoJobAssumption`); a filter is no longer than a search, and the bound on the
scroll position leaves room for the log (`AppAssumption`); the fallback set is not
empty and its relays are secure (`BootstrapAssumption`); the retry budget, six in
the source, is at most seven, from where on the delay stays the same
(`BudgetAssumption`, used for `DelayBacksOff` only); what is typed is described
correctly (`KeysAssumption`); and a fact about the five generators of the checksum,
which is about numbers and not about a constant (`GeneratorAssumption`).

### Sessions (`RelaySession_proofs`)

- `TypeCorrect`: `TypeOK`. It is not inductive alone: a fetch that ends makes a
  result to post, so the proof carries `FetchesBounded`, that fetches and results
  together stay below the bound. The two are `TypeInv`.
- `OneOperation`, `BudgetFollowsProgress`, `WritesStayInTheirStream` and
  `FlagFollowsHandshake`: the invariants `ChainExclusive`,
  `AttemptTracksProgress`, `NoWriteAcrossStreams` and `CloseOnlyAfterHandshake`.
  None is inductive alone. That a handler leaves one operation depends on there
  having been one, and that a dial starts without writes or flag depends on
  every way into a dial having reset the transport. `ChainInv` says for each
  session that it has at most one operation, what is true of the session while it
  waits for it (`OpInv`), and that nothing is under way before `Start`. The proof
  goes by action; the lemmas in front of it say what cancelling, closing and
  `MarkError` do to a set of operations (`CutShort`), and `OthersUntouched` that an
  action leaves other sessions alone.
- `StoppedWindsDown`: the action property `StoppedSessionWindsDown`, on top of
  that invariant and of `StoppedInv`, that a stopped session was started and has no pending timer.
- `RowShowsProgress`, `NewStagesAreShown`, `GivingUpIsExcused` and
  `LateNipsAreDropped`: the invariant `StatusTracksChain` and the action properties
  `NewStageIsShown`, `GivesUpForAReason` and `NoNipsAfterStop`. `LifeInv` says what
  only `Stop` leaves behind (a cancelled timer, a closing handshake) and that
  nothing is fetched for a session that was not started. `RowsInv` says of a running
  session that its row is the last word of its own handlers, because a step writes
  the row of its own relay only (`OwnRowOnly`), or blank since the table was
  emptied: that a row is blank or right is all that survives `Reset`, and that every
  new stage is written, whatever was there, is why it comes back right.
- The operations of the table keep its type, and `NewestKeepsLast`: cutting the
  latency history leaves at most the window with the newest sample last.

`RelaySessionRefinement_proofs`: `SessionKeepsContract`, `Spec => KeepsContract`,
for sessions with relays of their own and sessions that share them. Under
`PhaseOf`, `ShownOf` and the budget, each handler is one step of the contract or a
stutter: `Start` launches, `Stop` halts, a completed stage of a dial advances, the
WebSocket handshake subscribes, `MarkError` fails, the timer redials. The
invariants above say which, since a phase is a function of the one stage a session
waits in (`PhaseFromStages`).

### Program (`Monitor_proofs`)

- `MonitorTypeCorrect`: `TypeOK`, with `KeyAtHand`, that a callback that is between
  its steps has the key it was given.
- `OneSubmission` and `OrderOfSubmissions`: `OneSubmissionManaged` and the action
  property `SubmissionsAdvance`. `OrderInv` is the reason: the queue and the
  completions hold submissions in their order, and what is further on the way from
  the callback to the sessions (queue, worker, completions, `Start`, sessions) is
  older. `OneStart` adds that `Start` fills the vector from one result.
- `NothingIsLost`: `NothingRunsUnmanaged`, until the user quits. Inductive with
  `StopAllInv`: what `StopAll` has passed runs no longer or has a `Stop` on its
  strand. A session whose `Start` is still on its strand counts as one that runs
  (`Runs`), so the `Stop` has to be behind that `Start` (`StopLast`); and the
  session between `push_back` and `Start` is in the vector. At exit the same is not
  true, and `RunningIsManaged` is refuted.
- `ThreadsKeepMonitor`: `ThreadsSpec => KeepsMonitor`. `ExitInv` says that main,
  while it stops and joins, is in no callback, and that a worker that was joined
  stays idle; so the last step of the exit is `Monitor`'s `Shutdown`, and every
  other step a step of `Monitor` or none. `ThreadsLoseNothing` carries `NothingRunsUnmanaged` over.

### Discovery (`Bootstrap_proofs`)

`BootstrapTypeCorrect`, `ResultsAreFit`, `ResultsComeFromOneSeed` and
`ContactsAreSecondChoice`: all four invariants of the run, for any seeds and lists
and any number of answers. What the loops over a list keep of it is proved first
(`KeptFacts`, `DeduplicateFacts`, `FilterFacts`). `QueryInv` is the invariant: what
a running query has collected is exactly what the seed listed in answer to it; the
seed has answered no query that was not sent; kind 3 is asked for only when the
answers to 10002 had no URL that parses; there is no result before a query ends.
`ResultInv` says what a result stands for once there is one.

### User interface (`App_proofs`)

- `AppTypeCorrect`: `TypeOK`, with `TypeInv` adding that the rows are finitely many.
  Rows are shown in their order, so `Sorting` proves that a finite set of numbers
  has an ascending enumeration.
- `TypedTextIsGone` and `NsecGoesToAuth`: `NoLingeringInput` and
  `PrivateKeyGoesToAuth`, key by key.
- `AllMatchesAreReached`: `EveryMatchIsReached`, for logs and queries of any length.
  An ordinal may be left over from a longer list of matches; the first press
  brings it onto the circle of remainders, and `PlacesCover` says that as many
  steps around a circle as it has places visit every place.

### Functions (`Functions_proofs`)

- `SelectionIsOnScreen`, `LogPaneIsFull` and `ThumbsStayInBar`: `SelectedRowShown`,
  `LogWindowFull` and `ThumbTellsPosition`, for tables, logs and windows of any
  size, from what integer division guarantees (`QuotientFacts`).
- `LaterAttemptsWaitLonger`: `DelayBacksOff`. That the recursive `Doubling` is the
  delay without jitter for every attempt is shown with the least counterexample.
- `WholeUrlIsDialed`: `UrlPreserved`, for URLs of every length over every set of
  characters. A set of positions has a first one, a sequence cut there is whole
  again when joined and has no delimiter in front (`CutAtFirst`), and the two
  functions cut there (`SplitKeepsAll`, `PortIsCut`).

### Keys (`Keys_proofs`)

`NothingElseIsLeft`: the action property `NothingElseLeft`, for every text and every
public key function. It rests on `HeldInv`, which says for each call that may come
next which buffers can be in use, next to those of a key that is set already.

`KeysAndTextsMatch` and `NoDamageIsTaken`: `OneTextPerKey` and `DamageIsNoticed`,
for keys of every length and every text a user can type. The inductive invariant,
`TextInv`, says that everything that came of a text (the private key under way, the
`AuthKey`, the header, the monitored pubkey) is what `DecodeBech32_32Bytes` gives
for that text, so that the stages in between change nothing. What remains is about
the functions, and each is proved for sequences of every length:

- Hex: `HexRoundTrip`.
- `ConvertBits`: `EncodedIsDecoded` and `DecodedIsEncoded`, that the two
  directions are inverse to one another. The loop is a sequence of states, one
  after each value (`Stages`). The first theorem lets the state of the way back
  follow that of the way there: behind each byte it has read the same bits, for
  each of the five numbers of bits that can be left over. The second theorem adds
  that a state and the bytes that are out determine the symbols (`NarrowBack`), and
  that the bits left over are zeros, which is why they have to be looked at.
- The checksum: `ChecksumFits`, that behind any symbols exactly the six fit that
  `CreateChecksum` makes, and `WrongSymbols`, that two texts that both fit do not
  differ in up to six symbols in a row, nor in two that are less than 58 apart.
  `Step` is linear (`StepDifference`), so the difference of two checksums depends
  on the differences of the symbols alone. The five low bits of the generators
  are independent (`Generators`), so no step loses a difference, and six symbols
  behind no difference lie side by side in the last one (`Packed`). That a second
  wrong symbol within 57 does not make up for a first is a fact about the five
  numbers in `kBech32Gen` that only enumeration shows: it is
  `GeneratorAssumption`, a formula without constants, which TLC evaluates in full
  in `keys`. Three wrong symbols far from one another are not covered, neither by
  the property nor by the theorem.
- `DecodeIs`: the texts that are taken are those of `IsTaken`.

`KeysAssumption` says what the two flags of an entry stand for: `encoded`, that the
text is that of `payload`, in either case; `damaged`, that it is what such a text
has turned into (`IsDamaged`).

### Induction over data (`Induction_proofs`)

The library's induction rules take an operator as a parameter, which the provers
here cannot instantiate. `InductionUpTo` says the same of a set, `RecursionUpTo`
that a step function can be iterated up to every bound; both follow from the
well-foundedness of the naturals. A loop of the program is modelled as a function
of the number of elements it has seen, written with LET. To use it, a proof shows
with `RecursionUpTo` that there is such a function, and then what it computes with
`InductionUpTo`. This is why `FindLogMatches` and `Kept` are such functions:
nothing can be proved here about the `SelectSeq` of the standard module.

### Only model-checked

- Liveness under fairness, which is out of the prover's reach: `NoEndlessRetry`,
  `ScheduledRetryDials`, `DialSettles`, `PushedKeyArrives`, `TalkingSeedIsLeft`,
  `ExitEnds`, `QueuedFetchRuns`.
- `GeneratorAssumption`, the one fact about numbers under `NoDamageIsTaken`.

## What is not modelled

- What secp256k1 and SHA-256 compute, and the JSON of an AUTH event. `Keys` takes
  the public key of a private one as a function (`PubkeyOf`), and `Monitor` the
  owner of a key (`OwnerOf`).
- That cleared memory is overwritten: `Keys` and `App` say what is cleared and when.
- The charset of bech32, which is a numbering of the symbols.
- The overloads of the signer that take hex, which the program does not call.
- The text of frames, REQs, log lines, the NIP-11 documents, colours and columns.
- The characters of a URL that are no delimiters. In `RelaySession` a URL is only
  secure, insecure or invalid.
- The C++ memory model: a concurrent use of `sessions_` is reported as such
  (`VectorNotShared`), not continued with torn values.
- Fetches beyond `MaxFetches`, in `RelaySession` and in `Threads`: they are not
  followed any more.
- The TLS library, and what a second handshake on one SSL object does. That the
  shutdown of a retry may last for ever is modelled.

## Plan

Done, in this order: `RelayStats`, `RelaySessionSupport`, `RelaySession` with its
runs and proofs; `SessionContract` and the refinement; `Monitor`; `Bootstrap`;
`Navigation`, `Viewport`, `App`; `RelayTarget`, `Threads`, `Nip19`, `Keys`; then the
proofs about the table of rows, the refinement, `Monitor`, `Threads`, `App`,
`Bootstrap` and the functions; then those about `Nip19` and `Keys`.

Next:

1. `Monitor` with the job of `Bootstrap` in place of its arbitrary results, by an
   abstract specification that both implement.
2. The status line and the details of a row (`Aggregate`, `SummarizeSelectedRelay`,
   `FormatNips`), against the table they are made from.
