----------------------------- MODULE RelaySession -----------------------------
(***************************************************************************)
(* net::RelaySession: one connection to one relay, from DNS resolution to  *)
(* the subscription, with its reconnects.                                  *)
(*                                                                         *)
(* A session is a chain of asynchronous operations: a handler starts the   *)
(* next operation and returns, the operation completes with success or an  *)
(* error, and the io thread later runs the handler of that completion.     *)
(* Stop can run in between, and then meets a completion that is already    *)
(* queued.  ops[s] holds a session's started operations; an operation is   *)
(* "inflight" until it completes "ok" or "error", and leaves ops[s] when   *)
(* its handler runs.  The reconnect timer is one of them: "ok" is an       *)
(* expiry, "error" a cancelled wait.                                       *)
(*                                                                         *)
(* All handlers of a session run on its strand and all strands on one io   *)
(* thread, so a handler is one action; but for the retry, in which the io  *)
(* thread waits for the TLS shutdown of the old stream, and only the       *)
(* network and the other threads go on.  asio runs queued handlers first   *)
(* come first served; here any queued handler may run next, which includes *)
(* that order.                                                             *)
(*                                                                         *)
(* SessionManager calls SetAuthKey at any time, Start once, and Stop at    *)
(* any time, also before Start and again.  main empties the table on its   *)
(* own thread.                                                             *)
(***************************************************************************)
EXTENDS RelayStats, RelaySessionSupport

CONSTANTS
  Sessions,
  UrlOf,           \* the relay of each session: relay_url_
  UrlClass,        \* what ParseRelayUrl says of a URL
  Keys, NoKey,     \* NIP-42 keys, and the null auth_key_
  Payloads,        \* frames a relay may send
  SampleMs,        \* times from REQ to EOSE
  MaxEvents,       \* bound: EVENT frames a relay sends
  MaxAuthWrites,   \* bound: AUTH challenges unanswered at one time
  MaxFetches       \* bound: NIP-11 fetches followed at one time

ASSUME SessionAssumption ==
  /\ UrlOf \in [Sessions -> Urls]
  /\ UrlClass \in [Urls -> {"invalid", "insecure", "secure"}]
  /\ NoKey \notin Keys
  /\ Payloads \subseteq Payload
  /\ SampleMs \subseteq Nat
  /\ MaxEvents \in Nat /\ MaxAuthWrites \in Nat /\ MaxFetches \in Nat

VARIABLES
  started,       \* Start has run
  stopped,       \* stopped_
  ws_connected,  \* ws_connected_
  auth_key,      \* auth_key_
  attempt,       \* reconnect_attempt_
  ops,           \* operations whose handler has not ended
  socket_open,   \* the TCP socket under ws_
  closing,       \* an async_close whose handler has not run
  auth_writes,   \* AUTH frames being written
  fetches,       \* NIP-11 fetches in the background pool
  posted,        \* NIP-11 results on their way back to the strand
  closing_tls,   \* the session whose TLS shutdown the io thread is in, if any
  stats          \* shared_stats_

control == <<started, stopped, closing_tls>>
side  == <<auth_key, auth_writes, fetches, posted>>
vars  == <<started, stopped, ws_connected, auth_key, attempt, ops, socket_open,
           closing, auth_writes, fetches, posted, closing_tls, stats>>

SocketStages == {"connect", "tls_handshake", "ws_handshake", "write_req", "read"}
Stages == SocketStages \cup {"resolve", "timer"}

Op(stage, state) == [stage |-> stage, state |-> state]
Operations == [stage : Stages, state : {"inflight", "ok", "error"}]

\* The types of a session's members: the retry counter never leaves its budget.
TypeOK ==
  /\ started \in [Sessions -> BOOLEAN]
  /\ stopped \in [Sessions -> BOOLEAN]
  /\ ws_connected \in [Sessions -> BOOLEAN]
  /\ auth_key \in [Sessions -> Keys \cup {NoKey}]
  /\ attempt \in [Sessions -> 0..kMaxReconnectAttempts]
  /\ ops \in [Sessions -> SUBSET Operations]
  /\ socket_open \in [Sessions -> BOOLEAN]
  /\ closing \in [Sessions -> BOOLEAN]
  /\ auth_writes \in [Sessions -> 0..MaxAuthWrites]
  /\ fetches \in [Sessions -> 0..MaxFetches]
  /\ posted \in [Sessions -> 0..MaxFetches]
  /\ closing_tls \in {{}} \cup {{s} : s \in Sessions}
  /\ IsTable(stats)

Init ==
  /\ started = [s \in Sessions |-> FALSE]
  /\ stopped = [s \in Sessions |-> FALSE]
  /\ ws_connected = [s \in Sessions |-> FALSE]
  /\ auth_key = [s \in Sessions |-> NoKey]
  /\ attempt = [s \in Sessions |-> 0]
  /\ ops = [s \in Sessions |-> {}]
  /\ socket_open = [s \in Sessions |-> FALSE]
  /\ closing = [s \in Sessions |-> FALSE]
  /\ auth_writes = [s \in Sessions |-> 0]
  /\ fetches = [s \in Sessions |-> 0]
  /\ posted = [s \in Sessions |-> 0]
  /\ closing_tls = {}
  /\ stats = EmptyTable

-----------------------------------------------------------------------------
(* Steps the handlers share.                                               *)

Set(f, s, v) == [f EXCEPT ![s] = v]

ShowStatus(s, status) == stats' = SetStatus(stats, UrlOf[s], status, "none")

\* The handler of `done` returns after starting `next`, or without going on.
GoOn(s, done, next) == ops' = Set(ops, s, (ops[s] \ {done}) \cup {Op(next, "inflight")})
Finish(s, done)     == ops' = Set(ops, s, ops[s] \ {done})

\* What closing the socket does to the operations that wait for it.
Aborted(operations) ==
  {IF o.state = "inflight" /\ o.stage \in SocketStages THEN Op(o.stage, "error") ELSE o :
     o \in operations}

Cancel(operations, stage) ==
  {IF o = Op(stage, "inflight") THEN Op(stage, "error") ELSE o : o \in operations}

CancelTimer(operations) == Cancel(operations, "timer")

\* resolver_.cancel() reaches a lookup that has not begun, not one under way.
CancelResolve(operations) == {operations, Cancel(operations, "resolve")}

\* Seeded bug: the attempt is not counted.
MarkErrorUncounted(s, done, where) ==
  /\ stats' = SetStatus(stats, UrlOf[s], "Error", where)
  /\ IF ShouldReconnectAttempt(stopped[s], attempt[s], where) THEN GoOn(s, done, "timer")
     ELSE Finish(s, done)
  /\ UNCHANGED attempt

\* MarkError, ShouldReconnect and ScheduleReconnect.
MarkError(s, done, where) ==
  /\ stats' = SetStatus(stats, UrlOf[s], "Error", where)
  /\ IF ShouldReconnectAttempt(stopped[s], attempt[s], where)
     THEN attempt' = Set(attempt, s, attempt[s] + 1) /\ GoOn(s, done, "timer")
     ELSE UNCHANGED attempt /\ Finish(s, done)

-----------------------------------------------------------------------------
(* Calls of SessionManager.                                                *)

SetAuthKey(s, key) ==
  /\ auth_key' = Set(auth_key, s, key)
  /\ UNCHANGED <<control, ws_connected, attempt, ops, socket_open, closing,
                 auth_writes, fetches, posted, stats>>

Start(s) ==
  LET u     == UrlOf[s]
      table == EnsureRelay(stats, u)
  IN
  /\ ~started[s]
  /\ started' = Set(started, s, TRUE)
  /\ stopped' = Set(stopped, s, FALSE)
  /\ \/ /\ UrlClass[u] = "invalid"
        /\ stats' = SetStatus(table, u, "Error", "invalid relay URL")
        /\ ops' = Set(ops, s, CancelTimer(ops[s]))
     \/ /\ UrlClass[u] = "insecure"
        /\ stats' = SetStatus(table, u, "Error", "unsupported ws:// relay URL")
        /\ ops' = Set(ops, s, CancelTimer(ops[s]))
     \/ /\ UrlClass[u] = "secure"
        /\ stats' = SetStatus(table, u, "Resolving", "none")
        /\ ops' = Set(ops, s, CancelTimer(ops[s]) \cup {Op("resolve", "inflight")})
  /\ UNCHANGED <<ws_connected, attempt, socket_open, closing, closing_tls, side>>

\* An open WebSocket is closed by a handshake with the relay, whose handler is
\* Closed; the socket of any other session is closed on the spot, also under a
\* closing handshake when Stop comes again.
Stop(s) ==
  /\ stopped' = Set(stopped, s, TRUE)
  /\ ws_connected' = Set(ws_connected, s, FALSE)
  /\ \E left \in CancelResolve(CancelTimer(ops[s])) :
       \/ /\ ws_connected[s]
          /\ ops' = Set(ops, s, left)
          /\ closing' = Set(closing, s, TRUE)
          /\ UNCHANGED <<socket_open, auth_writes, stats>>
       \/ /\ ~ws_connected[s]
          /\ ops' = Set(ops, s, Aborted(left))
          /\ socket_open' = Set(socket_open, s, FALSE)
          /\ auth_writes' = Set(auth_writes, s, 0)
          /\ ShowStatus(s, "Disconnected")
          /\ UNCHANGED closing
  /\ UNCHANGED <<started, attempt, auth_key, fetches, posted, closing_tls>>

\* main's Reset of the table, when the user submits an npub.
Reset ==
  /\ stats' = EmptyTable
  /\ UNCHANGED <<control, ws_connected, attempt, ops, socket_open, closing, side>>

-----------------------------------------------------------------------------
(* The network and the clock: operations complete.  On a closed socket they *)
(* can only fail.                                                          *)

Complete(s, o, state) ==
  /\ o \in ops[s] /\ o.state = "inflight"
  /\ o.stage = "timer" => state = "ok"
  /\ o.stage \in SocketStages /\ state = "ok" => socket_open[s]
  /\ ops' = Set(ops, s, (ops[s] \ {o}) \cup {Op(o.stage, state)})
  /\ UNCHANGED <<control, ws_connected, attempt, socket_open, closing, side, stats>>

\* The handler of an AUTH write only logs.
AuthWritten(s) ==
  /\ auth_writes[s] > 0
  /\ auth_writes' = Set(auth_writes, s, auth_writes[s] - 1)
  /\ UNCHANGED <<control, ws_connected, attempt, ops, socket_open, closing, auth_key,
                 fetches, posted, stats>>

\* The closing handshake ends, well or not; then the stream is unusable.
Closed(s) ==
  /\ closing[s]
  /\ closing' = Set(closing, s, FALSE)
  /\ socket_open' = Set(socket_open, s, FALSE)
  /\ ops' = Set(ops, s, Aborted(ops[s]))
  /\ auth_writes' = Set(auth_writes, s, 0)
  /\ ShowStatus(s, "Disconnected")
  /\ UNCHANGED <<control, ws_connected, attempt, auth_key, fetches, posted>>

\* FetchRelaySupportedNips returns in the pool, with a list or without.
FetchDone(s) ==
  /\ fetches[s] > 0
  /\ fetches' = Set(fetches, s, fetches[s] - 1)
  /\ \/ posted' = Set(posted, s, posted[s] + 1)
     \/ UNCHANGED posted
  /\ UNCHANGED <<control, ws_connected, attempt, ops, socket_open, closing, auth_key,
                 auth_writes, stats>>

\* Seeded bug: the result is applied to a stopped session too.
ApplyNipsAlways(s, nips) ==
  /\ posted[s] > 0
  /\ posted' = Set(posted, s, posted[s] - 1)
  /\ stats' = SetSupportedNips(stats, UrlOf[s], nips)
  /\ UNCHANGED <<control, ws_connected, attempt, ops, socket_open, closing, auth_key,
                 auth_writes, fetches>>

ApplyNips(s, nips) ==
  /\ posted[s] > 0
  /\ posted' = Set(posted, s, posted[s] - 1)
  /\ stats' = IF stopped[s] THEN stats ELSE SetSupportedNips(stats, UrlOf[s], nips)
  /\ UNCHANGED <<control, ws_connected, attempt, ops, socket_open, closing, auth_key,
                 auth_writes, fetches>>

-----------------------------------------------------------------------------
(* The handlers of the chain.                                              *)

\* The handler of stage `where` runs with an error code.
OnError(s, where) ==
  /\ where # "timer"
  /\ Op(where, "error") \in ops[s]
  /\ MarkError(s, Op(where, "error"), where)
  /\ UNCHANGED <<control, ws_connected, socket_open, closing, side>>

\* async_connect opens the socket.
OnResolve(s) ==
  /\ Op("resolve", "ok") \in ops[s]
  /\ ShowStatus(s, "Connecting")
  /\ GoOn(s, Op("resolve", "ok"), "connect")
  /\ socket_open' = Set(socket_open, s, TRUE)
  /\ UNCHANGED <<control, ws_connected, attempt, closing, side>>

\* Seeded bugs: no return after the set_sni error; another connect after it.
OnConnectFallsThrough(s) ==
  /\ Op("connect", "ok") \in ops[s]
  /\ ShowStatus(s, "TlsHandshake")
  /\ \/ GoOn(s, Op("connect", "ok"), "tls_handshake") /\ UNCHANGED attempt
     \/ /\ ShouldReconnectAttempt(stopped[s], attempt[s], "connect")
        /\ ops' = Set(ops, s, (ops[s] \ {Op("connect", "ok")}) \cup
                               {Op("timer", "inflight"), Op("tls_handshake", "inflight")})
        /\ attempt' = Set(attempt, s, attempt[s] + 1)
  /\ UNCHANGED <<control, ws_connected, socket_open, closing, side>>

OnConnectAgain(s) ==
  /\ Op("connect", "ok") \in ops[s]
  /\ \/ GoOn(s, Op("connect", "ok"), "connect") /\ ShowStatus(s, "Connecting")
     \/ GoOn(s, Op("connect", "ok"), "tls_handshake") /\ ShowStatus(s, "TlsHandshake")
  /\ UNCHANGED <<control, ws_connected, attempt, socket_open, closing, side>>

OnConnect(s) ==
  /\ Op("connect", "ok") \in ops[s]
  /\ \/ MarkError(s, Op("connect", "ok"), "set_sni")
     \/ /\ ShowStatus(s, "TlsHandshake")
        /\ GoOn(s, Op("connect", "ok"), "tls_handshake")
        /\ UNCHANGED attempt
  /\ UNCHANGED <<control, ws_connected, socket_open, closing, side>>

\* Seeded bug: the status is not updated.
OnTlsHandshakeSilent(s) ==
  /\ Op("tls_handshake", "ok") \in ops[s]
  /\ GoOn(s, Op("tls_handshake", "ok"), "ws_handshake")
  /\ UNCHANGED <<control, ws_connected, attempt, socket_open, closing, side, stats>>

OnTlsHandshake(s) ==
  /\ Op("tls_handshake", "ok") \in ops[s]
  /\ ShowStatus(s, "WsHandshake")
  /\ GoOn(s, Op("tls_handshake", "ok"), "ws_handshake")
  /\ UNCHANGED <<control, ws_connected, attempt, socket_open, closing, side>>

OnWsHandshake(s) ==
  /\ Op("ws_handshake", "ok") \in ops[s]
  /\ attempt' = Set(attempt, s, 0)
  /\ ws_connected' = Set(ws_connected, s, TRUE)
  /\ ShowStatus(s, "Subscribed")
  /\ fetches' = IF fetches[s] + posted[s] < MaxFetches THEN Set(fetches, s, fetches[s] + 1)
                ELSE fetches
  /\ GoOn(s, Op("ws_handshake", "ok"), "write_req")
  /\ UNCHANGED <<control, socket_open, closing, auth_key, auth_writes, posted>>

OnWriteReq(s) ==
  /\ Op("write_req", "ok") \in ops[s]
  /\ GoOn(s, Op("write_req", "ok"), "read")
  /\ UNCHANGED <<control, ws_connected, attempt, socket_open, closing, side, stats>>

\* Signing may fail, and then nothing is written.
OnAuthChallenge(s) ==
  /\ UNCHANGED stats
  /\ \/ UNCHANGED auth_writes
     \/ /\ auth_key[s] # NoKey
        /\ auth_writes[s] < MaxAuthWrites
        /\ auth_writes' = Set(auth_writes, s, auth_writes[s] + 1)

HandleMessage(s, effect) ==
  \/ effect = "AuthChallenge" /\ OnAuthChallenge(s)
  \/ /\ effect = "EventCount"
     /\ RowOf(stats, UrlOf[s]).events_count < MaxEvents
     /\ stats' = IncrementEvent(stats, UrlOf[s])
     /\ UNCHANGED auth_writes
  \/ /\ effect = "EndOfStoredEvents"
     /\ \E ms \in SampleMs : stats' = RecordLatency(stats, UrlOf[s], ms)
     /\ UNCHANGED auth_writes
  \/ effect = "Ignore" /\ UNCHANGED <<stats, auth_writes>>

\* Seeded bug: stopped_ is not looked at.
ReadOnAlways(s) == GoOn(s, Op("read", "ok"), "read")

\* OnRead goes on to DoRead unless the session was stopped.
ReadOn(s) ==
  IF stopped[s] THEN Finish(s, Op("read", "ok")) ELSE GoOn(s, Op("read", "ok"), "read")

OnRead(s, payload) ==
  /\ Op("read", "ok") \in ops[s]
  /\ HandleMessage(s, ParseRelayMessageEffect(payload))
  /\ ReadOn(s)
  /\ UNCHANGED <<control, ws_connected, attempt, socket_open, closing, auth_key, fetches, posted>>

\* Seeded bug: ws_connected_ is left set.
ResetTransportKeepsFlag(s) ==
  /\ \E left \in CancelResolve(ops[s]) : ops' = Set(ops, s, left)
  /\ closing_tls' = {s}
  /\ UNCHANGED ws_connected

\* ResetTransportForReconnect, as far as the TLS shutdown.
ResetTransport(s) ==
  /\ ws_connected' = Set(ws_connected, s, FALSE)
  /\ \E left \in CancelResolve(ops[s]) : ops' = Set(ops, s, left)
  /\ closing_tls' = {s}

OnTimer(s, state) ==
  /\ state \in {"ok", "error"}
  /\ Op("timer", state) \in ops[s]
  /\ IF state = "error" \/ stopped[s]
     THEN Finish(s, Op("timer", state)) /\ UNCHANGED <<ws_connected, closing_tls>>
     ELSE ResetTransport(s)
  /\ UNCHANGED <<started, stopped, attempt, socket_open, closing, side, stats>>

\* What is left of the old stream's operations.
Remains(s) == Aborted(ops[s]) \ {Op("timer", "ok")}

\* Seeded bugs: the old stream is left open; no StartResolve follows.
ResetEndsStreamOpen(s) ==
  /\ closing_tls = {s}
  /\ closing_tls' = {}
  /\ ops' = Set(ops, s, (ops[s] \ {Op("timer", "ok")}) \cup {Op("resolve", "inflight")})
  /\ ShowStatus(s, "Resolving")
  /\ UNCHANGED <<started, stopped, ws_connected, attempt, socket_open, closing, side>>

ResetEndsWithoutDial(s) ==
  /\ closing_tls = {s}
  /\ closing_tls' = {}
  /\ socket_open' = Set(socket_open, s, FALSE)
  /\ auth_writes' = Set(auth_writes, s, 0)
  /\ ops' = Set(ops, s, Remains(s))
  /\ ShowStatus(s, "Resolving")
  /\ UNCHANGED <<started, stopped, ws_connected, attempt, closing, auth_key, fetches, posted>>

\* The TLS shutdown returns: the socket is closed and the relay dialled again.
ResetEnds(s) ==
  /\ closing_tls = {s}
  /\ closing_tls' = {}
  /\ socket_open' = Set(socket_open, s, FALSE)
  /\ auth_writes' = Set(auth_writes, s, 0)
  /\ ops' = Set(ops, s, Remains(s) \cup {Op("resolve", "inflight")})
  /\ ShowStatus(s, "Resolving")
  /\ UNCHANGED <<started, stopped, ws_connected, attempt, closing, auth_key, fetches, posted>>

-----------------------------------------------------------------------------

\* The io thread is not held up in a TLS shutdown.
IoFree == closing_tls = {}

Calls(s) == (\E key \in Keys : SetAuthKey(s, key)) \/ Start(s) \/ Stop(s)

Network(s) ==
  \/ \E o \in ops[s], state \in {"ok", "error"} : Complete(s, o, state)
  \/ AuthWritten(s)
  \/ FetchDone(s)

\* What the io thread runs: every handler that is queued.
Handlers(s) ==
  \/ \E where \in Stages : OnError(s, where)
  \/ OnResolve(s)
  \/ OnConnect(s)
  \/ OnTlsHandshake(s)
  \/ OnWsHandshake(s)
  \/ OnWriteReq(s)
  \/ \E payload \in Payloads : OnRead(s, payload)
  \/ \E state \in {"ok", "error"} : OnTimer(s, state)
  \/ \E nips \in NipSets : ApplyNips(s, nips)
  \/ Closed(s)

IoThread(s) == IoFree /\ (Calls(s) \/ Handlers(s))

Next == Reset \/ \E s \in Sessions : Network(s) \/ IoThread(s) \/ ResetEnds(s)

Spec == Init /\ [][Next]_vars

(* Fairness.  Unless a TLS shutdown holds it for ever, the io thread runs   *)
(* every queued handler, in its turn, though others may hold it up again and *)
(* again: hence strong fairness.  A timer expires, and the operating system *)
(* bounds a lookup and a TCP connect.  Nothing bounds the later stages, nor *)
(* the TLS shutdown: the session sets no deadline on them, so a relay that  *)
(* stays silent leaves them under way for ever.                             *)

\* The handlers that may run because an operation of the chain has completed.
ChainHandlers(s) ==
  \/ \E where \in Stages : OnError(s, where)
  \/ OnResolve(s) \/ OnConnect(s) \/ OnTlsHandshake(s) \/ OnWsHandshake(s) \/ OnWriteReq(s)
  \/ \E payload \in Payloads : OnRead(s, payload)
  \/ \E state \in {"ok", "error"} : OnTimer(s, state)

Bounded(s) ==
  \E o \in ops[s], state \in {"ok", "error"} :
    o.stage \in {"timer", "resolve", "connect"} /\ Complete(s, o, state)

Fairness ==
  \A s \in Sessions : SF_vars(IoFree /\ ChainHandlers(s)) /\ WF_vars(Bounded(s))

FairSpec == Spec /\ Fairness

-----------------------------------------------------------------------------
(* Properties.                                                             *)

DialStages == {"resolve", "connect", "tls_handshake", "ws_handshake"}

Running(s) == started[s] /\ ~stopped[s]

OneSessionPerUrl == \A s, t \in Sessions : UrlOf[s] = UrlOf[t] => s = t

\* A session never has two operations of its chain outstanding: no handler
\* starts a second read, a second dial or a retry beside a live stream.
ChainExclusive == \A s \in Sessions : \A o1, o2 \in ops[s] : o1 = o2

StatusOf(stage) ==
  CASE stage = "resolve"               -> "Resolving"
    [] stage = "connect"               -> "Connecting"
    [] stage = "tls_handshake"         -> "TlsHandshake"
    [] stage = "ws_handshake"          -> "WsHandshake"
    [] stage \in {"write_req", "read"} -> "Subscribed"
    [] stage = "timer"                 -> "Error"

\* The row of a session's relay shows the operation it waits for, or Error when
\* it waits for none.
ShowsStage(s) ==
  /\ UrlOf[s] \in DOMAIN stats
  /\ \A o \in ops[s] : stats[UrlOf[s]].status = StatusOf(o.stage)
  /\ ops[s] = {} => stats[UrlOf[s]].status = "Error"

\* Reset took the row, and nothing but counters and capabilities has come back.
RowBlank(s) == UrlOf[s] \in DOMAIN stats => stats[UrlOf[s]].status = "Disconnected"

\* The row the user sees tells where a running session really is, or nothing: a
\* status left over from an earlier stage is never shown.
StatusTracksChain ==
  OneSessionPerUrl => \A s \in Sessions : Running(s) => ShowsStage(s) \/ RowBlank(s)

\* What the row of a session ought to say.
Due(s) == IF ops[s] = {} THEN {"Error"} ELSE {StatusOf(o.stage) : o \in ops[s]}

\* A session that starts or gets to another stage shows it, whatever was in the
\* row: a row that a new submission took away comes back with the next stage.
NewStageIsShown ==
  [][OneSessionPerUrl =>
       \A s \in Sessions :
         Running(s)' /\ (~started[s] \/ Due(s)' # Due(s)) => ShowsStage(s)']_vars

\* The retry budget is spent by failures and restored by a subscription only:
\* a live stream has its whole budget, a waiting retry has used some of it.
AttemptTracksProgress ==
  \A s \in Sessions : \A o \in ops[s] :
    /\ o.stage \in {"write_req", "read"} => attempt[s] = 0
    /\ o.stage = "timer" => attempt[s] > 0

\* A running session is left without an operation for one of three reasons: its
\* URL cannot be monitored, its budget is spent, or what failed (the WebSocket
\* handshake, or set_sni after the connect) is not mended by a retry.
GivesUpForAReason ==
  [][\A s \in Sessions :
       Running(s)' /\ ops'[s] = {} /\ (~started[s] \/ ops[s] # {}) =>
         \/ ~started[s] /\ UrlClass[UrlOf[s]] # "secure"
         \/ started[s] /\ attempt[s] = kMaxReconnectAttempts
         \/ ops[s] \in {{Op("ws_handshake", "error")}, {Op("connect", "ok")}}]_vars

\* No AUTH frame of an earlier stream is still being written while a new
\* stream is dialled or its REQ is written.
NoWriteAcrossStreams ==
  \A s \in Sessions : \A o \in ops[s] :
    o.stage \in DialStages \cup {"write_req"} => auth_writes[s] = 0

\* Stop takes the WebSocket branch only for a stream whose handshake is over:
\* ws_connected_ is never left over from an earlier stream during a dial.
CloseOnlyAfterHandshake ==
  \A s \in Sessions : ws_connected[s] => \A o \in ops[s] : o.stage \notin DialStages

Rank(stage) ==
  CASE stage = "resolve"       -> 1
    [] stage = "connect"       -> 2
    [] stage = "tls_handshake" -> 3
    [] stage = "ws_handshake"  -> 4
    [] stage = "write_req"     -> 5
    [] stage = "read"          -> 6
    [] stage = "timer"         -> 7

\* `later` may be outstanding where `earlier` was.
WindsDown(earlier, later) ==
  \/ later = earlier
  \/ later.stage = earlier.stage /\ earlier.state = "inflight"
  \/ Rank(later.stage) > Rank(earlier.stage) /\ later.stage # "timer"

\* After Stop a session only winds down: it starts no retry, reads at most one
\* more frame, and every handler that still runs leaves the chain closer to
\* its end.
StoppedSessionWindsDown ==
  [][\A s \in Sessions : stopped[s] /\ stopped'[s] =>
       \A later \in ops'[s] :
         /\ \E earlier \in ops[s] : WindsDown(earlier, later)
         /\ later # Op("timer", "inflight")]_vars

\* Capabilities fetched for a session that has since been stopped are dropped.
NoNipsAfterStop ==
  [][OneSessionPerUrl =>
       \A s \in Sessions : stopped[s] =>
         RowOf(stats', UrlOf[s]).supported_nips \subseteq RowOf(stats, UrlOf[s]).supported_nips]_vars

\* A session does not retry for ever without a subscription in between.
NoEndlessRetry ==
  \A s \in Sessions :
    ([]<>(Op("timer", "inflight") \in ops[s])) => []<>(Op("write_req", "inflight") \in ops[s])

\* The io thread is in a TLS shutdown that never returns.
IoStuck == <>[](closing_tls # {})

\* A retry that was scheduled and announced in the log dials, unless the session
\* is stopped or one relay, this or another, never answers a TLS shutdown.
ScheduledRetryDials ==
  \/ IoStuck
  \/ \A s \in Sessions :
       Op("timer", "inflight") \in ops[s] ~> (stopped[s] \/ Op("resolve", "inflight") \in ops[s])

\* A lookup or a TCP connect leads to a TLS handshake, to a retry, to giving up
\* or to Stop: the session is not stuck before it has a connection, unless one
\* relay never answers a TLS shutdown.
DialSettles ==
  \/ IoStuck
  \/ \A s \in Sessions :
       (\E o \in ops[s] : o.stage \in {"resolve", "connect"}) ~>
         (stopped[s] \/ ops[s] = {} \/ \E o \in ops[s] : o.stage \in {"tls_handshake", "timer"})

-----------------------------------------------------------------------------
(* What comments and tests say, and the model refutes.                      *)

\* relay_session.cpp:201, "Cancel any pending TCP-layer operation (resolve,
\* connect, TLS handshake)": a stopped session starts no connection.
NoDialAfterStop ==
  [][\A s \in Sessions : stopped[s] /\ ops'[s] # ops[s] =>
       Op("connect", "inflight") \notin ops'[s]]_vars

\* The lifecycle test waits for Disconnected after Stop: a stopped session
\* with nothing left to do shows Disconnected.
StoppedSettlesDisconnected ==
  \A s \in Sessions : started[s] /\ stopped[s] /\ ops[s] = {} /\ ~closing[s] => RowBlank(s)

\* session_manager.cpp:63, the handlers of a stopped session "complete", and
\* the session terminates, as long as the io_context runs.
StoppedTerminates ==
  \A s \in Sessions : stopped[s] ~> (ops[s] = {} /\ ~closing[s])

=============================================================================
