-------------------------- MODULE RelaySession_proofs --------------------------
(***************************************************************************)
(* Proofs about RelaySession for any number of sessions, relays, keys and  *)
(* frames, any retry budget and any bound.                                 *)
(***************************************************************************)
EXTENDS RelaySession, SequenceTheorems, TLAPS

-----------------------------------------------------------------------------
(* The table of rows: what its methods keep, change and bound.              *)

\* operator[] yields a row, and a table with a new row is a table.
LEMMA RowOfType ==
  ASSUME NEW table, NEW u, IsTable(table)
  PROVE  RowOf(table, u) \in RelayStat
<1>1. NewStat \in RelayStat
  BY DEF NewStat, RelayStat, RelayStatus, LastErrors
<1> QED BY <1>1 DEF RowOf, IsTable

\* A table with a new or another row is a table.
LEMMA PutRowType ==
  ASSUME NEW table, NEW u \in Urls, NEW r \in RelayStat, IsTable(table)
  PROVE  IsTable(PutRow(table, u, r))
BY DEF PutRow, IsTable

\* Reset leaves a table.
LEMMA EmptyTableType == IsTable(EmptyTable)
BY DEF EmptyTable, IsTable

\* EnsureRelay leaves a table.
LEMMA EnsureRelayType ==
  ASSUME NEW table, NEW u \in Urls, IsTable(table)
  PROVE  IsTable(EnsureRelay(table, u))
BY RowOfType, PutRowType DEF EnsureRelay

\* SetStatus leaves a table.
LEMMA SetStatusType ==
  ASSUME NEW table, NEW u \in Urls, IsTable(table),
         NEW status \in RelayStatus, NEW error \in LastErrors
  PROVE  IsTable(SetStatus(table, u, status, error))
<1> DEFINE r == [RowOf(table, u) EXCEPT !.status = status, !.last_error = error,
                                        !.connected_at = (status = "Subscribed")]
<1>1. RowOf(table, u) \in RelayStat
  BY RowOfType
<1>2. r \in RelayStat
  BY <1>1 DEF RelayStat
<1> QED BY <1>2, PutRowType DEF SetStatus

\* IncrementEvent leaves a table.
LEMMA IncrementEventType ==
  ASSUME NEW table, NEW u \in Urls, IsTable(table)
  PROVE  IsTable(IncrementEvent(table, u))
<1>1. RowOf(table, u) \in RelayStat
  BY RowOfType
<1>2. [RowOf(table, u) EXCEPT !.events_count = @ + 1] \in RelayStat
  BY <1>1 DEF RelayStat
<1> QED BY <1>2, PutRowType DEF IncrementEvent

\* SetSupportedNips leaves a table.
LEMMA SetSupportedNipsType ==
  ASSUME NEW table, NEW u \in Urls, NEW nips \in NipSets, IsTable(table)
  PROVE  IsTable(SetSupportedNips(table, u, nips))
<1>1. RowOf(table, u) \in RelayStat
  BY RowOfType
<1>2. [RowOf(table, u) EXCEPT !.supported_nips = nips] \in RelayStat
  BY <1>1 DEF RelayStat
<1> QED BY <1>2, PutRowType DEF SetSupportedNips

\* Trimming a history keeps its newest samples, never more than the window.
THEOREM NewestKeepsLast ==
  ASSUME NEW history \in Seq(Nat)
  PROVE  /\ Newest(history) \in Seq(Nat)
         /\ Len(Newest(history)) <= kLatencyHistoryWindow
         /\ history # << >> => Newest(history)[Len(Newest(history))] = history[Len(history)]
<1> USE WindowAssumption
<1>1. CASE Len(history) <= kLatencyHistoryWindow
  BY <1>1 DEF Newest
<1>2. CASE Len(history) > kLatencyHistoryWindow
  <2> DEFINE first == Len(history) - kLatencyHistoryWindow + 1
  <2>1. first \in 1..Len(history) /\ Len(history) \in Nat
    BY <1>2
  <2>2. Newest(history) = SubSeq(history, first, Len(history))
    BY <1>2 DEF Newest
  <2>3. /\ SubSeq(history, first, Len(history)) \in Seq(Nat)
        /\ Len(SubSeq(history, first, Len(history))) = kLatencyHistoryWindow
        /\ \A i \in 1..kLatencyHistoryWindow :
             SubSeq(history, first, Len(history))[i] = history[first + i - 1]
    BY <2>1
  <2> QED BY <2>1, <2>2, <2>3
<1> QED BY <1>1, <1>2

\* RecordLatency leaves a table, its history cut to the window or not.
LEMMA RecordLatencyType ==
  ASSUME NEW table, NEW u \in Urls, NEW ms \in Nat, IsTable(table)
  PROVE  IsTable(RecordLatency(table, u, ms))
<1> DEFINE old == RowOf(table, u).latency_history_ms
<1>1. RowOf(table, u) \in RelayStat
  BY RowOfType
<1>2. old \in Seq(Nat) /\ Append(old, ms) \in Seq(Nat)
  BY <1>1 DEF RelayStat
<1>3. Newest(Append(old, ms)) \in Seq(Nat)
  BY <1>2, NewestKeepsLast
<1>4. [RowOf(table, u) EXCEPT !.latency_history_ms = Newest(Append(@, ms))] \in RelayStat
  BY <1>1, <1>3 DEF RelayStat
<1> QED BY <1>4, PutRowType DEF RecordLatency

-----------------------------------------------------------------------------
(* What the methods do to the row they are called for, and to the others.   *)

\* Every row but the one of u is the same in both tables.
OtherRowsKept(table, after, u) ==
  \A v : v # u => /\ v \in DOMAIN after <=> v \in DOMAIN table
                  /\ RowOf(after, v) = RowOf(table, v)

\* Writing a row writes that row, and no other.
LEMMA PutRowFacts ==
  ASSUME NEW table, NEW u, NEW r
  PROVE  /\ u \in DOMAIN PutRow(table, u, r)
         /\ PutRow(table, u, r)[u] = r
         /\ RowOf(PutRow(table, u, r), u) = r
         /\ OtherRowsKept(table, PutRow(table, u, r), u)
BY DEF PutRow, RowOf, OtherRowsKept

\* SetStatus shows the status and the error it is given, and keeps the capabilities.
LEMMA SetStatusFacts ==
  ASSUME NEW table, NEW u, IsTable(table), NEW status, NEW error
  PROVE  /\ u \in DOMAIN SetStatus(table, u, status, error)
         /\ SetStatus(table, u, status, error)[u].status = status
         /\ SetStatus(table, u, status, error)[u].last_error = error
         /\ RowOf(SetStatus(table, u, status, error), u).supported_nips
              = RowOf(table, u).supported_nips
         /\ OtherRowsKept(table, SetStatus(table, u, status, error), u)
<1> DEFINE r == [RowOf(table, u) EXCEPT !.status = status, !.last_error = error,
                                        !.connected_at = (status = "Subscribed")]
<1>1. RowOf(table, u) \in RelayStat
  BY RowOfType
<1>2. /\ r.status = status /\ r.last_error = error
      /\ r.supported_nips = RowOf(table, u).supported_nips
  BY <1>1 DEF RelayStat
<1> HIDE DEF r
<1>3. SetStatus(table, u, status, error) = PutRow(table, u, r)
  BY DEF SetStatus, r
<1> QED BY <1>2, <1>3, PutRowFacts

\* The same of the table that SetStatus leaves.
LEMMA SetStatusShows ==
  ASSUME NEW table, NEW u, IsTable(table), NEW status, NEW error, NEW after,
         after = SetStatus(table, u, status, error)
  PROVE  u \in DOMAIN after /\ after[u].status = status
<1> DEFINE r == [RowOf(table, u) EXCEPT !.status = status, !.last_error = error,
                                        !.connected_at = (status = "Subscribed")]
<1>1. RowOf(table, u) \in RelayStat
  BY RowOfType
<1>2. r.status = status
  BY <1>1 DEF RelayStat
<1> HIDE DEF r
<1>3. after = PutRow(table, u, r)
  BY DEF SetStatus, r
<1> QED BY <1>2, <1>3, PutRowFacts

\* EnsureRelay keeps every row there is.
LEMMA EnsureRelayFacts ==
  ASSUME NEW table, NEW u
  PROVE  /\ RowOf(EnsureRelay(table, u), u) = RowOf(table, u)
         /\ OtherRowsKept(table, EnsureRelay(table, u), u)
BY PutRowFacts DEF EnsureRelay

\* Counting an event or a latency changes neither the status nor the error nor the
\* capabilities of the row.
LEMMA CountFacts ==
  ASSUME NEW table, NEW u, IsTable(table), NEW after,
         after = IncrementEvent(table, u) \/ \E ms : after = RecordLatency(table, u, ms)
  PROVE  /\ u \in DOMAIN after
         /\ after[u].status = RowOf(table, u).status
         /\ after[u].last_error = RowOf(table, u).last_error
         /\ RowOf(after, u).supported_nips = RowOf(table, u).supported_nips
         /\ OtherRowsKept(table, after, u)
<1>1. RowOf(table, u) \in RelayStat
  BY RowOfType
<1> DEFINE Same(r) == /\ r.status = RowOf(table, u).status
                      /\ r.last_error = RowOf(table, u).last_error
                      /\ r.supported_nips = RowOf(table, u).supported_nips
<1>2. \E r : after = PutRow(table, u, r) /\ Same(r)
  <2> DEFINE counted == [RowOf(table, u) EXCEPT !.events_count = @ + 1]
             timed(h) == [RowOf(table, u) EXCEPT !.latency_history_ms = h]
  <2>1. Same(counted) /\ \A h : Same(timed(h))
    BY <1>1 DEF RelayStat
  <2> HIDE DEF Same
  <2>2. CASE after = IncrementEvent(table, u)
    BY <2>1, <2>2 DEF IncrementEvent
  <2>3. ASSUME NEW ms, after = RecordLatency(table, u, ms)
        PROVE  \E r : after = PutRow(table, u, r) /\ Same(r)
    <3>1. after = PutRow(table, u, timed(Newest(Append(RowOf(table, u).latency_history_ms, ms))))
      BY <2>3 DEF RecordLatency
    <3> QED BY <2>1, <3>1
  <2> QED BY <2>2, <2>3
<1> QED BY <1>2, PutRowFacts

\* SetSupportedNips changes neither the status nor the error of the row.
LEMMA SetSupportedNipsFacts ==
  ASSUME NEW table, NEW u, IsTable(table), NEW nips, NEW after,
         after = SetSupportedNips(table, u, nips)
  PROVE  /\ u \in DOMAIN after
         /\ after[u].status = RowOf(table, u).status
         /\ after[u].last_error = RowOf(table, u).last_error
         /\ OtherRowsKept(table, after, u)
<1> DEFINE r == [RowOf(table, u) EXCEPT !.supported_nips = nips]
<1>1. RowOf(table, u) \in RelayStat
  BY RowOfType
<1>2. r.status = RowOf(table, u).status /\ r.last_error = RowOf(table, u).last_error
  BY <1>1 DEF RelayStat
<1> HIDE DEF r
<1>3. after = PutRow(table, u, r)
  BY DEF SetSupportedNips, r
<1> QED BY <1>2, <1>3, PutRowFacts

-----------------------------------------------------------------------------
(* What cancelling and closing do to a set of outstanding operations.      *)

AtMostOne(operations) == \A o1, o2 \in operations : o1 = o2

\* Every operation of `after` is one of `before`, or one of them cut short.
CutShort(before, after) ==
  \A p \in after : \E o \in before :
    p.stage = o.stage /\ (p = o \/ (o.state = "inflight" /\ p.state = "error"))

\* An operation is a record with the stage and the state it was made of.
LEMMA OpType ==
  ASSUME NEW stage \in Stages, NEW state \in {"inflight", "ok", "error"}
  PROVE  /\ Op(stage, state) \in Operations
         /\ Op(stage, state).stage = stage
         /\ Op(stage, state).state = state
BY DEF Op, Operations

\* Closing the socket adds no operation, and leaves none that waits for it in flight.
LEMMA AbortedFacts ==
  ASSUME NEW operations \in SUBSET Operations
  PROVE  /\ Aborted(operations) \in SUBSET Operations
         /\ CutShort(operations, Aborted(operations))
         /\ AtMostOne(operations) => AtMostOne(Aborted(operations))
         /\ operations = {} => Aborted(operations) = {}
         /\ \A p \in Aborted(operations) :
              p.stage \in SocketStages => p.state # "inflight"
BY DEF Aborted, CutShort, AtMostOne, Op, Operations, Stages, SocketStages

\* Cancelling a stage adds no operation, and leaves none of that stage in flight.
LEMMA CancelFacts ==
  ASSUME NEW operations \in SUBSET Operations, NEW stage \in Stages
  PROVE  /\ Cancel(operations, stage) \in SUBSET Operations
         /\ CutShort(operations, Cancel(operations, stage))
         /\ AtMostOne(operations) => AtMostOne(Cancel(operations, stage))
         /\ operations = {} => Cancel(operations, stage) = {}
         /\ Op(stage, "inflight") \notin Cancel(operations, stage)
BY DEF Cancel, CutShort, AtMostOne, Op, Operations

\* reconnect_timer_.cancel() leaves no pending wait.
LEMMA CancelTimerFacts ==
  ASSUME NEW operations \in SUBSET Operations
  PROVE  /\ CancelTimer(operations) \in SUBSET Operations
         /\ CutShort(operations, CancelTimer(operations))
         /\ AtMostOne(operations) => AtMostOne(CancelTimer(operations))
         /\ operations = {} => CancelTimer(operations) = {}
         /\ Op("timer", "inflight") \notin CancelTimer(operations)
BY CancelFacts DEF CancelTimer, Stages

\* resolver_.cancel() adds no operation, whether it reaches the lookup or not.
LEMMA CancelResolveFacts ==
  ASSUME NEW operations \in SUBSET Operations, NEW left \in CancelResolve(operations)
  PROVE  /\ left \in SUBSET Operations
         /\ CutShort(operations, left)
         /\ AtMostOne(operations) => AtMostOne(left)
         /\ operations = {} => left = {}
<1>1. left = operations \/ left = Cancel(operations, "resolve")
  BY DEF CancelResolve
<1>2. CutShort(operations, operations)
  BY DEF CutShort
<1> QED BY <1>1, <1>2, CancelFacts DEF Stages

\* Operations cut short twice are cut short.
LEMMA CutShortComposes ==
  ASSUME NEW X \in SUBSET Operations, NEW Y \in SUBSET Operations, NEW Z \in SUBSET Operations,
         CutShort(X, Y), CutShort(Y, Z)
  PROVE  CutShort(X, Z)
BY DEF CutShort

-----------------------------------------------------------------------------
(* Type correctness.  A NIP-11 result is counted once, as a fetch or as a   *)
(* result on its way, so that the two stay below the bound together.       *)

FetchesBounded == \A s \in Sessions : fetches[s] + posted[s] <= MaxFetches

TypeInv == TypeOK /\ FetchesBounded

\* Setting one session's value keeps a function's type.
LEMMA SetType ==
  ASSUME NEW D, NEW f \in [Sessions -> D], NEW s \in Sessions, NEW v \in D
  PROVE  Set(f, s, v) \in [Sessions -> D]
BY DEF Set

\* Setting one session's value changes that value and no other.
LEMMA SetValue ==
  ASSUME NEW D, NEW f \in [Sessions -> D], NEW s \in Sessions, NEW v
  PROVE  /\ Set(f, s, v)[s] = v
         /\ \A t \in Sessions : t # s => Set(f, s, v)[t] = f[t]
BY DEF Set

\* The relay of a session is one of the relays.
LEMMA UrlOfType == \A s \in Sessions : UrlOf[s] \in Urls
BY SessionAssumption

\* A handler that starts the next operation keeps the type of ops.
LEMMA GoOnType ==
  ASSUME TypeOK, NEW s \in Sessions, NEW done, NEW next \in Stages, GoOn(s, done, next)
  PROVE  ops' \in [Sessions -> SUBSET Operations]
<1>1. (ops[s] \ {done}) \cup {Op(next, "inflight")} \in SUBSET Operations
  BY OpType DEF TypeOK
<1> QED BY <1>1, SetType DEF GoOn, TypeOK

\* A handler that goes on with nothing keeps the type of ops.
LEMMA FinishType ==
  ASSUME TypeOK, NEW s \in Sessions, NEW done, Finish(s, done)
  PROVE  ops' \in [Sessions -> SUBSET Operations]
<1>1. ops[s] \ {done} \in SUBSET Operations
  BY DEF TypeOK
<1> QED BY <1>1, SetType DEF Finish, TypeOK

\* Showing a status keeps the table a table.
LEMMA ShowStatusType ==
  ASSUME TypeOK, NEW s \in Sessions, NEW status \in RelayStatus, ShowStatus(s, status)
  PROVE  IsTable(stats')
BY UrlOfType, SetStatusType DEF ShowStatus, TypeOK, LastErrors

\* MarkError keeps the types; the retry counter stays within the budget because a retry
\* is scheduled only below it.
LEMMA MarkErrorType ==
  ASSUME TypeOK, NEW s \in Sessions, NEW done, NEW where \in LastErrors,
         MarkError(s, done, where)
  PROVE  /\ ops' \in [Sessions -> SUBSET Operations]
         /\ attempt' \in [Sessions -> 0..kMaxReconnectAttempts]
         /\ IsTable(stats')
<1>1. IsTable(stats')
  BY UrlOfType, SetStatusType DEF MarkError, TypeOK, RelayStatus
<1>2. CASE ShouldReconnectAttempt(stopped[s], attempt[s], where)
  <2>1. attempt[s] + 1 \in 0..kMaxReconnectAttempts
    BY <1>2, AttemptsAssumption DEF ShouldReconnectAttempt, TypeOK
  <2>2. attempt' = Set(attempt, s, attempt[s] + 1) /\ GoOn(s, done, "timer")
    BY <1>2 DEF MarkError
  <2> QED BY <1>1, <2>1, <2>2, SetType, GoOnType DEF Stages, TypeOK
<1>3. CASE ~ShouldReconnectAttempt(stopped[s], attempt[s], where)
  BY <1>1, <1>3, FinishType DEF MarkError, TypeOK
<1> QED BY <1>2, <1>3

\* The type invariant holds initially,
LEMMA TypeInvInit == Init => TypeInv
<1> SUFFICES ASSUME Init PROVE TypeInv
  OBVIOUS
<1>1. 0 \in 0..kMaxReconnectAttempts /\ 0 \in 0..MaxAuthWrites /\ 0 \in 0..MaxFetches
  BY AttemptsAssumption, SessionAssumption
<1>2. TypeOK
  BY <1>1, EmptyTableType DEF Init, TypeOK
<1>3. FetchesBounded
  BY SessionAssumption DEF Init, FetchesBounded
<1> QED BY <1>2, <1>3 DEF TypeInv

\* the calls of SessionManager preserve it,
LEMMA TypeInvCalls ==
  ASSUME TypeInv, NEW s \in Sessions, Calls(s)
  PROVE  TypeInv'
<1> USE DEF TypeInv, FetchesBounded
<1>1. ASSUME NEW key \in Keys, SetAuthKey(s, key) PROVE TypeInv'
  <2>1. auth_key' \in [Sessions -> Keys \cup {NoKey}]
    BY <1>1 DEF SetAuthKey, Set, TypeOK
  <2> QED BY <1>1, <2>1 DEF SetAuthKey, TypeOK, control
<1>2. ASSUME Start(s) PROVE TypeInv'
  <2> DEFINE u == UrlOf[s]
             table == EnsureRelay(stats, u)
  <2>1. u \in Urls /\ UrlClass[u] \in {"invalid", "insecure", "secure"}
    BY UrlOfType, SessionAssumption
  <2>2. IsTable(table)
    BY <2>1, EnsureRelayType DEF TypeOK
  <2>3. \A status \in RelayStatus, error \in LastErrors : IsTable(SetStatus(table, u, status, error))
    BY <2>1, <2>2, SetStatusType
  <2>4. IsTable(stats')
    BY <1>2, <2>1, <2>3 DEF Start, RelayStatus, LastErrors
  <2>5. /\ CancelTimer(ops[s]) \in SUBSET Operations
        /\ CancelTimer(ops[s]) \cup {Op("resolve", "inflight")} \in SUBSET Operations
    BY CancelTimerFacts, OpType DEF TypeOK, Stages
  <2>6. ops' \in [Sessions -> SUBSET Operations]
    <3>1. PICK X \in SUBSET Operations : ops' = Set(ops, s, X)
      BY <1>2, <2>5 DEF Start
    <3> QED BY <3>1 DEF Set, TypeOK
  <2>7. started' \in [Sessions -> BOOLEAN] /\ stopped' \in [Sessions -> BOOLEAN]
    BY <1>2 DEF Start, Set, TypeOK
  <2>8. UNCHANGED <<ws_connected, attempt, socket_open, closing, auth_key, auth_writes, fetches, posted,
                    closing_tls>>
    BY <1>2 DEF Start, side
  <2> QED BY <2>4, <2>6, <2>7, <2>8 DEF TypeOK
<1>3. ASSUME Stop(s) PROVE TypeInv'
  <2>1. PICK left \in CancelResolve(CancelTimer(ops[s])) :
          \/ /\ ws_connected[s]
             /\ ops' = Set(ops, s, left)
             /\ closing' = Set(closing, s, TRUE)
             /\ UNCHANGED <<socket_open, auth_writes, stats>>
          \/ /\ ~ws_connected[s]
             /\ ops' = Set(ops, s, Aborted(left))
             /\ socket_open' = Set(socket_open, s, FALSE)
             /\ auth_writes' = Set(auth_writes, s, 0)
             /\ ShowStatus(s, "Disconnected")
             /\ UNCHANGED closing
    BY <1>3 DEF Stop
  <2>2. CancelTimer(ops[s]) \in SUBSET Operations
    BY CancelTimerFacts DEF TypeOK
  <2>3. left \in SUBSET Operations /\ Aborted(left) \in SUBSET Operations
    BY <2>2, CancelResolveFacts, AbortedFacts
  <2>4. ops' \in [Sessions -> SUBSET Operations]
    BY <2>1, <2>3 DEF Set, TypeOK
  <2>5. 0 \in 0..MaxAuthWrites
    BY SessionAssumption
  <2>6. auth_writes' \in [Sessions -> 0..MaxAuthWrites]
    BY <2>1, <2>5 DEF Set, TypeOK
  <2>7. IsTable(stats')
    BY <2>1, ShowStatusType DEF TypeOK, RelayStatus
  <2>8. socket_open' \in [Sessions -> BOOLEAN] /\ closing' \in [Sessions -> BOOLEAN]
    BY <2>1 DEF Set, TypeOK
  <2> QED BY <1>3, <2>4, <2>6, <2>7, <2>8 DEF Set, Stop, TypeOK
<1> QED BY <1>1, <1>2, <1>3 DEF Calls

\* completions and the NIP-11 pool preserve it,
LEMMA TypeInvNetwork ==
  ASSUME TypeInv, NEW s \in Sessions, Network(s)
  PROVE  TypeInv'
<1> USE DEF TypeInv, FetchesBounded
<1>1. ASSUME NEW o \in ops[s], NEW state \in {"ok", "error"}, Complete(s, o, state)
      PROVE  TypeInv'
  <2>1. o \in Operations /\ Op(o.stage, state) \in Operations
    BY OpType DEF TypeOK, Operations
  <2>2. (ops[s] \ {o}) \cup {Op(o.stage, state)} \in SUBSET Operations
    BY <2>1 DEF TypeOK
  <2> QED BY <1>1, <2>2 DEF Set, Complete, TypeOK, control, side
<1>2. ASSUME AuthWritten(s) PROVE TypeInv'
  <2>1. auth_writes[s] - 1 \in 0..MaxAuthWrites
    BY <1>2, SessionAssumption DEF AuthWritten, TypeOK
  <2> QED BY <1>2, <2>1 DEF Set, AuthWritten, TypeOK, control
<1>4. ASSUME FetchDone(s) PROVE TypeInv'
  <2>1. /\ fetches[s] \in 0..MaxFetches /\ posted[s] \in 0..MaxFetches
        /\ fetches[s] > 0 /\ fetches[s] + posted[s] <= MaxFetches
    BY <1>4 DEF FetchDone, TypeOK
  <2>2. /\ fetches[s] - 1 \in 0..MaxFetches /\ posted[s] + 1 \in 0..MaxFetches
        /\ (fetches[s] - 1) + (posted[s] + 1) <= MaxFetches
        /\ (fetches[s] - 1) + posted[s] <= MaxFetches
    BY <2>1, SessionAssumption
  <2>3. /\ fetches' \in [Sessions -> 0..MaxFetches] /\ posted' \in [Sessions -> 0..MaxFetches]
    BY <1>4, <2>2 DEF Set, FetchDone, TypeOK
  <2>4. FetchesBounded'
    BY <1>4, <2>2 DEF Set, FetchDone, TypeOK
  <2> QED BY <1>4, <2>3, <2>4 DEF FetchDone, TypeOK, control
<1> QED BY <1>1, <1>2, <1>4 DEF Network

\* the handlers of the io thread preserve it,
LEMMA TypeInvHandlers ==
  ASSUME TypeInv, NEW s \in Sessions, Handlers(s)
  PROVE  TypeInv'
<1> USE DEF TypeInv, FetchesBounded
<1>1. ASSUME NEW where \in Stages, OnError(s, where) PROVE TypeInv'
  <2>1. where \in LastErrors
    BY <1>1 DEF OnError, Stages, SocketStages, LastErrors
  <2> QED BY <1>1, <2>1, MarkErrorType DEF OnError, TypeOK, control, side
<1>2. ASSUME OnResolve(s) PROVE TypeInv'
  <2>1. IsTable(stats') /\ ops' \in [Sessions -> SUBSET Operations]
    BY <1>2, ShowStatusType, GoOnType DEF OnResolve, RelayStatus, Stages, SocketStages
  <2> QED BY <1>2, <2>1 DEF OnResolve, Set, TypeOK, control, side
<1>3. ASSUME OnConnect(s) PROVE TypeInv'
  <2>1. CASE MarkError(s, Op("connect", "ok"), "set_sni")
    BY <1>3, <2>1, MarkErrorType DEF OnConnect, TypeOK, control, side, LastErrors
  <2>2. CASE /\ ShowStatus(s, "TlsHandshake")
             /\ GoOn(s, Op("connect", "ok"), "tls_handshake")
             /\ UNCHANGED attempt
    <3>1. IsTable(stats') /\ ops' \in [Sessions -> SUBSET Operations]
      BY <2>2, ShowStatusType, GoOnType DEF RelayStatus, Stages, SocketStages
    <3> QED BY <1>3, <2>2, <3>1 DEF OnConnect, TypeOK, control, side
  <2> QED BY <1>3, <2>1, <2>2 DEF OnConnect
<1>4. ASSUME OnTlsHandshake(s) PROVE TypeInv'
  <2>1. IsTable(stats') /\ ops' \in [Sessions -> SUBSET Operations]
    BY <1>4, ShowStatusType, GoOnType DEF OnTlsHandshake, RelayStatus, Stages, SocketStages
  <2> QED BY <1>4, <2>1 DEF OnTlsHandshake, TypeOK, control, side
<1>5. ASSUME OnWsHandshake(s) PROVE TypeInv'
  <2>1. IsTable(stats') /\ ops' \in [Sessions -> SUBSET Operations]
    BY <1>5, ShowStatusType, GoOnType DEF OnWsHandshake, RelayStatus, Stages, SocketStages
  <2>2. attempt' \in [Sessions -> 0..kMaxReconnectAttempts]
    BY <1>5, AttemptsAssumption DEF OnWsHandshake, Set, TypeOK
  <2>3. ws_connected' \in [Sessions -> BOOLEAN]
    BY <1>5 DEF OnWsHandshake, Set, TypeOK
  <2>4. fetches[s] + posted[s] < MaxFetches => fetches[s] + 1 \in 0..MaxFetches
    BY SessionAssumption DEF TypeOK
  <2>5. fetches' \in [Sessions -> 0..MaxFetches]
    BY <1>5, <2>4 DEF OnWsHandshake, Set, TypeOK
  <2>6. FetchesBounded'
    BY <1>5, SessionAssumption DEF OnWsHandshake, Set, TypeOK
  <2> QED BY <1>5, <2>1, <2>2, <2>3, <2>5, <2>6 DEF OnWsHandshake, TypeOK, control
<1>6. ASSUME OnWriteReq(s) PROVE TypeInv'
  <2>1. ops' \in [Sessions -> SUBSET Operations]
    BY <1>6, GoOnType DEF OnWriteReq, Stages, SocketStages
  <2> QED BY <1>6, <2>1 DEF OnWriteReq, TypeOK, control, side
<1>7. ASSUME NEW payload \in Payloads, OnRead(s, payload) PROVE TypeInv'
  <2>1. ops' \in [Sessions -> SUBSET Operations]
    BY <1>7, GoOnType, FinishType DEF OnRead, ReadOn, Stages, SocketStages
  <2> DEFINE effect == ParseRelayMessageEffect(payload)
  <2>2. HandleMessage(s, effect)
    BY <1>7 DEF OnRead
  <2>3. IsTable(stats')
    BY <2>2, UrlOfType, IncrementEventType, RecordLatencyType, SessionAssumption
    DEF HandleMessage, OnAuthChallenge, TypeOK
  <2>4. auth_writes' \in [Sessions -> 0..MaxAuthWrites]
    BY <2>2, SessionAssumption DEF HandleMessage, OnAuthChallenge, Set, TypeOK
  <2> QED BY <1>7, <2>1, <2>3, <2>4 DEF OnRead, TypeOK, control
<1>8. ASSUME NEW state \in {"ok", "error"}, OnTimer(s, state) PROVE TypeInv'
  <2> DEFINE fired == Op("timer", state)
  <2>1. CASE state = "error" \/ stopped[s]
    BY <1>8, <2>1, FinishType DEF OnTimer, TypeOK, side
  <2>2. CASE ~(state = "error" \/ stopped[s])
    <3>1. ResetTransport(s)
      BY <1>8, <2>2 DEF OnTimer
    <3>2. ops[s] \in SUBSET Operations
      BY DEF TypeOK
    <3>3. PICK left \in CancelResolve(ops[s]) : ops' = Set(ops, s, left)
      BY <3>1 DEF ResetTransport
    <3>4. left \in SUBSET Operations
      BY <3>2, CancelResolveFacts
    <3>5. ops' \in [Sessions -> SUBSET Operations]
      BY <3>3, <3>4 DEF Set, TypeOK
    <3>6. ws_connected' \in [Sessions -> BOOLEAN]
      BY <3>1 DEF ResetTransport, Set, TypeOK
    <3>7. closing_tls' \in {{}} \cup {{t} : t \in Sessions}
      BY <3>1 DEF ResetTransport
    <3> QED BY <1>8, <3>5, <3>6, <3>7 DEF OnTimer, TypeOK, side
  <2> QED BY <2>1, <2>2
<1>9. ASSUME NEW nips \in NipSets, ApplyNips(s, nips) PROVE TypeInv'
  <2>1. IsTable(stats')
    BY <1>9, UrlOfType, SetSupportedNipsType DEF ApplyNips, TypeOK
  <2>2. posted[s] - 1 \in 0..MaxFetches /\ fetches[s] + (posted[s] - 1) <= MaxFetches
    BY <1>9, SessionAssumption DEF ApplyNips, TypeOK
  <2>3. posted' \in [Sessions -> 0..MaxFetches]
    BY <1>9, <2>2 DEF ApplyNips, Set, TypeOK
  <2>4. FetchesBounded'
    BY <1>9, <2>2 DEF ApplyNips, Set, TypeOK
  <2> QED BY <1>9, <2>1, <2>3, <2>4 DEF ApplyNips, TypeOK, control
<1>10. ASSUME Closed(s) PROVE TypeInv'
  <2>1. Aborted(ops[s]) \in SUBSET Operations
    BY AbortedFacts DEF TypeOK
  <2>2. 0 \in 0..MaxAuthWrites
    BY SessionAssumption
  <2>3. IsTable(stats')
    BY <1>10, ShowStatusType DEF Closed, RelayStatus
  <2> QED BY <1>10, <2>1, <2>2, <2>3 DEF Set, Closed, TypeOK, control
<1> QED BY <1>1, <1>2, <1>3, <1>4, <1>5, <1>6, <1>7, <1>8, <1>9, <1>10 DEF Handlers

\* so does the dial that follows the TLS shutdown,
LEMMA TypeInvResetEnds ==
  ASSUME TypeInv, NEW s \in Sessions, ResetEnds(s)
  PROVE  TypeInv'
<1>1. Aborted(ops[s]) \in SUBSET Operations
  BY AbortedFacts DEF TypeInv, TypeOK
<1>2. Remains(s) \cup {Op("resolve", "inflight")} \in SUBSET Operations
  BY <1>1, OpType DEF Remains, Stages
<1>3. ops' \in [Sessions -> SUBSET Operations]
  BY <1>2 DEF ResetEnds, Set, TypeInv, TypeOK
<1>4. IsTable(stats')
  BY ShowStatusType DEF ResetEnds, TypeInv, RelayStatus
<1>5. socket_open' \in [Sessions -> BOOLEAN] /\ auth_writes' \in [Sessions -> 0..MaxAuthWrites]
  BY SessionAssumption DEF ResetEnds, Set, TypeInv, TypeOK
<1> QED BY <1>3, <1>4, <1>5 DEF ResetEnds, TypeInv, TypeOK, FetchesBounded

\* A step of session s.
Step(s) == Calls(s) \/ Network(s) \/ Handlers(s) \/ ResetEnds(s)

\* Every step but Reset is a step of one session.
LEMMA NextCases == Next => Reset \/ \E s \in Sessions : Step(s)
BY DEF Next, IoThread, Step

\* and so does every step.
LEMMA TypeInvNext == TypeInv /\ [Next]_vars => TypeInv'
<1> SUFFICES ASSUME TypeInv, [Next]_vars PROVE TypeInv'
  OBVIOUS
<1>1. CASE Reset
  BY <1>1, EmptyTableType DEF Reset, TypeInv, FetchesBounded, TypeOK, control, side
<1>2. CASE UNCHANGED vars
  BY <1>2 DEF TypeInv, FetchesBounded, TypeOK, vars
<1>3. ASSUME NEW s \in Sessions, Step(s) PROVE TypeInv'
  BY <1>3, TypeInvCalls, TypeInvNetwork, TypeInvHandlers, TypeInvResetEnds DEF Step
<1> QED BY <1>1, <1>2, <1>3, NextCases

\* Every reachable state of every instance is well typed; in particular the
\* retry counter never leaves 0..kMaxReconnectAttempts.
THEOREM TypeCorrect == Spec => []TypeOK
<1>1. TypeInv => TypeOK
  BY DEF TypeInv
<1> QED BY TypeInvInit, TypeInvNext, <1>1, PTL DEF Spec

-----------------------------------------------------------------------------
(* The chain of operations.  The invariant says of each session that it has *)
(* at most one outstanding operation, what that operation implies about the *)
(* retry counter, the AUTH writes and ws_connected_, and that nothing has   *)
(* happened before Start.  None of the four properties below is inductive   *)
(* without the first.  TlsInv says whose TLS shutdown the io thread is in:  *)
(* that of a session whose timer fired, which nothing stops meanwhile.      *)

OpInv(s, o) ==
  /\ o.stage \in {"write_req", "read"} => attempt[s] = 0
  /\ o.stage = "timer" => attempt[s] > 0
  /\ o.stage \in DialStages \cup {"write_req"} => auth_writes[s] = 0
  /\ o.stage \in DialStages => ~ws_connected[s]

SessionInv(s) ==
  /\ AtMostOne(ops[s])
  /\ \A o \in ops[s] : OpInv(s, o)
  /\ ~started[s] => ops[s] = {} /\ ~ws_connected[s] /\ auth_writes[s] = 0

TlsInv ==
  \A s \in closing_tls : Op("timer", "ok") \in ops[s] /\ ~stopped[s] /\ ~ws_connected[s]

ChainInv == TlsInv /\ \A s \in Sessions : SessionInv(s)

\* Every member of session t that an invariant mentions.
Untouched(t) ==
  /\ ops'[t] = ops[t] /\ attempt'[t] = attempt[t] /\ auth_writes'[t] = auth_writes[t]
  /\ ws_connected'[t] = ws_connected[t] /\ started'[t] = started[t]
  /\ stopped'[t] = stopped[t] /\ closing'[t] = closing[t]
  /\ fetches'[t] = fetches[t] /\ posted'[t] = posted[t]

\* A handler of the only operation that starts another leaves that one alone.
LEMMA GoOnChain ==
  ASSUME TypeOK, NEW s \in Sessions, NEW done \in ops[s], NEW next \in Stages,
         AtMostOne(ops[s]), GoOn(s, done, next)
  PROVE  ops'[s] = {Op(next, "inflight")}
BY DEF GoOn, Set, AtMostOne, TypeOK

\* A handler of the only operation that starts no other leaves none.
LEMMA FinishChain ==
  ASSUME TypeOK, NEW s \in Sessions, NEW done \in ops[s],
         AtMostOne(ops[s]), Finish(s, done)
  PROVE  ops'[s] = {}
BY DEF Finish, Set, AtMostOne, TypeOK

\* A step of one session leaves the others as they are.
LEMMA OthersUntouched ==
  ASSUME TypeInv, NEW s \in Sessions, Step(s), NEW t \in Sessions, t # s
  PROVE  Untouched(t)
<1> USE DEF TypeInv, TypeOK, Untouched, Set, control, side
<1>1. CASE Calls(s)
  BY <1>1 DEF Calls, SetAuthKey, Start, Stop
<1>2. CASE Network(s)
  BY <1>2 DEF Network, Complete, AuthWritten, FetchDone
<1>3. CASE Handlers(s)
  <2>1. ASSUME NEW where \in Stages, OnError(s, where) PROVE Untouched(t)
    BY <2>1 DEF OnError, MarkError, GoOn, Finish
  <2>2. CASE OnResolve(s) \/ OnTlsHandshake(s) \/ OnWriteReq(s)
    BY <2>2 DEF OnResolve, OnTlsHandshake, OnWriteReq, GoOn
  <2>3. CASE OnConnect(s)
    BY <2>3 DEF OnConnect, MarkError, GoOn, Finish
  <2>4. CASE OnWsHandshake(s)
    BY <2>4 DEF OnWsHandshake, GoOn
  <2>5. ASSUME NEW payload \in Payloads, OnRead(s, payload) PROVE Untouched(t)
    BY <2>5 DEF OnRead, ReadOn, HandleMessage, OnAuthChallenge, GoOn, Finish
  <2>6. ASSUME NEW state \in {"ok", "error"}, OnTimer(s, state) PROVE Untouched(t)
    BY <2>6 DEF OnTimer, ResetTransport, Finish
  <2>7. ASSUME NEW nips \in NipSets, ApplyNips(s, nips) PROVE Untouched(t)
    BY <2>7 DEF ApplyNips
  <2>8. CASE Closed(s)
    BY <2>8 DEF Closed
  <2> QED BY <1>3, <2>1, <2>2, <2>3, <2>4, <2>5, <2>6, <2>7, <2>8 DEF Handlers
<1>4. CASE ResetEnds(s)
  BY <1>4 DEF ResetEnds
<1> QED BY <1>1, <1>2, <1>3, <1>4 DEF Step

\* Cutting operations short preserves the invariant of a session.
LEMMA CutShortInv ==
  ASSUME TypeInv, NEW s \in Sessions, SessionInv(s), AtMostOne(ops'[s]),
         CutShort(ops[s], ops'[s]), ops[s] = {} => ops'[s] = {},
         attempt'[s] = attempt[s], started'[s] = started[s],
         auth_writes'[s] \in {0, auth_writes[s]},
         ws_connected'[s] \in {FALSE, ws_connected[s]}
  PROVE  SessionInv(s)'
BY DEF SessionInv, OpInv, CutShort

\* A handler leaves the chain empty, or with one operation the invariant allows.
LEMMA EndChain ==
  ASSUME TypeInv, NEW s \in Sessions, SessionInv(s), ops[s] # {},
         started'[s] = started[s], ops'[s] = {}
  PROVE  SessionInv(s)'
BY DEF SessionInv, AtMostOne

\* The same for a handler that leaves one operation the invariant allows.
LEMMA NextInChain ==
  ASSUME TypeInv, NEW s \in Sessions, SessionInv(s), ops[s] # {}, NEW o,
         started'[s] = started[s], ops'[s] = {o}, OpInv(s, o)'
  PROVE  SessionInv(s)'
<1>1. started'[s] = TRUE
  BY DEF SessionInv, TypeInv, TypeOK
<1>2. AtMostOne(ops[s])' /\ \A p \in ops'[s] : OpInv(s, p)'
  BY DEF AtMostOne
<1> QED BY <1>1, <1>2 DEF SessionInv

\* A failed step ends the chain, or leaves one timer with part of the budget spent.
LEMMA MarkErrorChain ==
  ASSUME TypeInv, NEW s \in Sessions, SessionInv(s), NEW done \in ops[s], NEW where,
         MarkError(s, done, where), started'[s] = started[s]
  PROVE  SessionInv(s)'
<1>1. AtMostOne(ops[s]) /\ ops[s] # {} /\ TypeOK
  BY DEF SessionInv, TypeInv
<1>2. CASE ShouldReconnectAttempt(stopped[s], attempt[s], where)
  <2>1. ops'[s] = {Op("timer", "inflight")}
    BY <1>1, <1>2, GoOnChain DEF MarkError, Stages
  <2>2. attempt'[s] > 0
    BY <1>1, <1>2, AttemptsAssumption DEF MarkError, Set, TypeOK
  <2>3. OpInv(s, Op("timer", "inflight"))'
    BY <2>2 DEF OpInv, Op, DialStages
  <2> QED BY <1>1, <2>1, <2>3, NextInChain
<1>3. CASE ~ShouldReconnectAttempt(stopped[s], attempt[s], where)
  <2>1. ops'[s] = {}
    BY <1>1, <1>3, FinishChain DEF MarkError
  <2> QED BY <1>1, <2>1, EndChain
<1> QED BY <1>2, <1>3

\* The calls of SessionManager preserve the session's invariant,
LEMMA CallsChain ==
  ASSUME TypeInv, NEW s \in Sessions, SessionInv(s), Calls(s)
  PROVE  SessionInv(s)'
<1> USE DEF TypeInv
<1>1. ASSUME NEW key \in Keys, SetAuthKey(s, key) PROVE SessionInv(s)'
  BY <1>1 DEF SetAuthKey, control, SessionInv, OpInv
<1>2. ASSUME Start(s) PROVE SessionInv(s)'
  <2>1. /\ ops[s] = {} /\ ~ws_connected[s] /\ auth_writes[s] = 0
        /\ started'[s] = TRUE /\ ws_connected' = ws_connected /\ auth_writes' = auth_writes
    BY <1>2 DEF Start, SessionInv, Set, side, TypeOK
  <2>2. CancelTimer(ops[s]) = {}
    BY <2>1, CancelTimerFacts
  <2>3. ops'[s] = {} \/ ops'[s] = {Op("resolve", "inflight")}
    <3>1. ops \in [Sessions -> SUBSET Operations]
      BY DEF TypeInv, TypeOK
    <3>2. \/ ops' = Set(ops, s, CancelTimer(ops[s]))
          \/ ops' = Set(ops, s, CancelTimer(ops[s]) \cup {Op("resolve", "inflight")})
      BY <1>2 DEF Start
    <3>3. \/ ops' = Set(ops, s, {})
          \/ ops' = Set(ops, s, {Op("resolve", "inflight")})
      BY <2>2, <3>2
    <3> QED BY <3>1, <3>3 DEF Set
  <2>4. \A o \in ops'[s] : o = Op("resolve", "inflight")
    BY <2>3
  <2>5. OpInv(s, Op("resolve", "inflight"))'
    BY <2>1 DEF OpInv, Op, DialStages
  <2>6. AtMostOne(ops[s])'
    BY <2>4 DEF AtMostOne
  <2> QED BY <2>1, <2>4, <2>5, <2>6 DEF SessionInv
<1>3. ASSUME Stop(s) PROVE SessionInv(s)'
  <2>1. /\ ws_connected'[s] = FALSE /\ started'[s] = started[s] /\ attempt'[s] = attempt[s]
        /\ auth_writes'[s] \in {0, auth_writes[s]}
    BY <1>3 DEF Stop, Set, TypeOK
  <2>2. PICK left \in CancelResolve(CancelTimer(ops[s])) :
          ops' = Set(ops, s, left) \/ ops' = Set(ops, s, Aborted(left))
    BY <1>3 DEF Stop
  <2> DEFINE after == CancelTimer(ops[s])
  <2>3. ops[s] \in SUBSET Operations /\ AtMostOne(ops[s])
    BY DEF TypeOK, SessionInv
  <2>4. /\ after \in SUBSET Operations /\ CutShort(ops[s], after)
        /\ AtMostOne(after) /\ (ops[s] = {} => after = {})
    BY <2>3, CancelTimerFacts
  <2>5. /\ left \in SUBSET Operations /\ CutShort(after, left)
        /\ AtMostOne(left) /\ (after = {} => left = {})
    BY <2>2, <2>4, CancelResolveFacts
  <2>6. /\ Aborted(left) \in SUBSET Operations /\ CutShort(left, Aborted(left))
        /\ AtMostOne(Aborted(left)) /\ (left = {} => Aborted(left) = {})
    BY <2>5, AbortedFacts
  <2>7. CutShort(ops[s], left)
    BY <2>3, <2>4, <2>5, CutShortComposes
  <2>8. CutShort(ops[s], Aborted(left))
    BY <2>3, <2>5, <2>6, <2>7, CutShortComposes
  <2>9. ops'[s] = left \/ ops'[s] = Aborted(left)
    BY <2>2 DEF Set, TypeOK
  <2>10. AtMostOne(ops'[s]) /\ CutShort(ops[s], ops'[s]) /\ (ops[s] = {} => ops'[s] = {})
    BY <2>4, <2>5, <2>6, <2>7, <2>8, <2>9
  <2> QED BY <2>1, <2>10, CutShortInv
<1> QED BY <1>1, <1>2, <1>3 DEF Calls

\* completions preserve it,
LEMMA NetworkChain ==
  ASSUME TypeInv, NEW s \in Sessions, SessionInv(s), Network(s)
  PROVE  SessionInv(s)'
<1> USE DEF TypeInv
<1>1. ASSUME NEW o \in ops[s], NEW state \in {"ok", "error"}, Complete(s, o, state)
      PROVE  SessionInv(s)'
  <2> DEFINE p == Op(o.stage, state)
  <2>1. ops'[s] = {p} /\ p.stage = o.stage
    BY <1>1 DEF Complete, Set, SessionInv, AtMostOne, TypeOK, Op
  <2>2. OpInv(s, o)
    BY DEF SessionInv
  <2>3. OpInv(s, p)'
    BY <1>1, <2>1, <2>2 DEF Complete, side, OpInv
  <2>4. started'[s] = started[s]
    BY <1>1 DEF Complete, control
  <2> HIDE DEF p
  <2> QED BY <1>1, <2>1, <2>3, <2>4, NextInChain
<1>2. ASSUME AuthWritten(s) PROVE SessionInv(s)'
  <2>1. /\ auth_writes[s] > 0 /\ auth_writes'[s] = auth_writes[s] - 1
        /\ ops' = ops /\ attempt' = attempt /\ ws_connected' = ws_connected /\ started' = started
    BY <1>2 DEF AuthWritten, Set, control, TypeOK
  <2>2. auth_writes[s] # 0
    BY <2>1, SessionAssumption DEF TypeOK
  <2> QED BY <2>1, <2>2 DEF SessionInv, OpInv
<1>3. ASSUME FetchDone(s) PROVE SessionInv(s)'
  BY <1>3 DEF FetchDone, control, SessionInv, OpInv
<1> QED BY <1>1, <1>2, <1>3 DEF Network

\* A handler that starts `next` after success, and does nothing else to the
\* chain, keeps the invariant when the invariant allows `next`.
LEMMA HandlerChain ==
  ASSUME TypeInv, NEW s \in Sessions, SessionInv(s), NEW done \in ops[s], NEW next \in Stages,
         GoOn(s, done, next), started' = started, OpInv(s, Op(next, "inflight"))'
  PROVE  SessionInv(s)'
<1>1. ops'[s] = {Op(next, "inflight")} /\ ops[s] # {}
  BY GoOnChain DEF SessionInv, TypeInv
<1>2. started'[s] = started[s]
  OBVIOUS
<1> QED BY <1>1, <1>2, NextInChain

\* The timer that fires for a running session stays at hand until the TLS shutdown
\* returns,
LEMMA TimerWaits ==
  ASSUME TypeInv, NEW s \in Sessions, SessionInv(s), NEW state \in {"ok", "error"},
         OnTimer(s, state), ~(state = "error" \/ stopped[s])
  PROVE  /\ ops[s] = {Op("timer", "ok")} /\ ops'[s] = {Op("timer", "ok")}
         /\ ws_connected'[s] = FALSE /\ closing_tls' = {s}
<1> USE DEF TypeInv
<1>1. ops[s] = {Op("timer", "ok")} /\ ResetTransport(s)
  BY DEF OnTimer, SessionInv, AtMostOne
<1>2. Op("timer", "ok") # Op("resolve", "inflight")
  BY DEF Op
<1>3. Cancel(ops[s], "resolve") = {Op("timer", "ok")}
  BY <1>1, <1>2 DEF Cancel
<1>4. ops' = Set(ops, s, {Op("timer", "ok")})
  BY <1>1, <1>3 DEF ResetTransport, CancelResolve
<1> QED BY <1>1, <1>4 DEF ResetTransport, Set, TypeOK

\* and is replaced by one operation, a new lookup.
LEMMA ResetResolves ==
  ASSUME TypeInv, TlsInv, NEW s \in Sessions, SessionInv(s), ResetEnds(s)
  PROVE  /\ ops'[s] = {Op("resolve", "inflight")}
         /\ ops[s] = {Op("timer", "ok")} /\ ~stopped[s] /\ started[s]
<1> USE DEF TypeInv
<1>1. Op("timer", "ok") \in ops[s] /\ ~stopped[s]
  BY DEF ResetEnds, TlsInv
<1>2. ops[s] = {Op("timer", "ok")} /\ started[s]
  BY <1>1 DEF SessionInv, AtMostOne
<1>3. Op("timer", "ok").state # "inflight"
  BY DEF Op
<1>4. Remains(s) = {}
  BY <1>2, <1>3 DEF Remains, Aborted
<1>5. ops' = Set(ops, s, {Op("resolve", "inflight")})
  BY <1>4 DEF ResetEnds
<1> QED BY <1>1, <1>2, <1>5 DEF Set, TypeOK

\* and so do the handlers: each takes over from the only operation there is.
LEMMA HandlersChain ==
  ASSUME TypeInv, NEW s \in Sessions, SessionInv(s), Handlers(s)
  PROVE  SessionInv(s)'
<1> USE DEF TypeInv
<1>1. ASSUME NEW where \in Stages, OnError(s, where) PROVE SessionInv(s)'
  <2>1. /\ Op(where, "error") \in ops[s] /\ MarkError(s, Op(where, "error"), where)
        /\ started'[s] = started[s]
    BY <1>1 DEF OnError, control
  <2> QED BY <2>1, MarkErrorChain
<1>2. ASSUME OnResolve(s) PROVE SessionInv(s)'
  <2>1. OpInv(s, Op("resolve", "ok")) /\ UNCHANGED <<attempt, auth_writes, ws_connected, started>>
    BY <1>2 DEF OnResolve, SessionInv, control, side
  <2>2. OpInv(s, Op("connect", "inflight"))'
    BY <2>1 DEF OpInv, Op, DialStages
  <2> QED BY <1>2, <2>1, <2>2, HandlerChain DEF OnResolve, Stages, SocketStages
<1>3. ASSUME OnConnect(s) PROVE SessionInv(s)'
  <2>1. Op("connect", "ok") \in ops[s] /\ UNCHANGED <<auth_writes, ws_connected, started>>
    BY <1>3 DEF OnConnect, control, side
  <2>2. CASE MarkError(s, Op("connect", "ok"), "set_sni")
    BY <2>1, <2>2, MarkErrorChain
  <2>3. ASSUME GoOn(s, Op("connect", "ok"), "tls_handshake"), UNCHANGED attempt
        PROVE  SessionInv(s)'
    <3>1. OpInv(s, Op("connect", "ok"))
      BY <2>1 DEF SessionInv
    <3>2. OpInv(s, Op("tls_handshake", "inflight"))'
      BY <2>1, <2>3, <3>1 DEF OpInv, Op, DialStages
    <3> QED BY <2>1, <2>3, <3>2, HandlerChain DEF Stages, SocketStages
  <2> QED BY <1>3, <2>2, <2>3 DEF OnConnect
<1>4. ASSUME OnTlsHandshake(s) PROVE SessionInv(s)'
  <2>1. /\ OpInv(s, Op("tls_handshake", "ok"))
        /\ UNCHANGED <<attempt, auth_writes, ws_connected, started>>
    BY <1>4 DEF OnTlsHandshake, SessionInv, control, side
  <2>2. OpInv(s, Op("ws_handshake", "inflight"))'
    BY <2>1 DEF OpInv, Op, DialStages
  <2> QED BY <1>4, <2>1, <2>2, HandlerChain DEF OnTlsHandshake, Stages, SocketStages
<1>5. ASSUME OnWsHandshake(s) PROVE SessionInv(s)'
  <2>1. /\ OpInv(s, Op("ws_handshake", "ok"))
        /\ attempt'[s] = 0 /\ UNCHANGED <<auth_writes, started>>
    BY <1>5 DEF OnWsHandshake, SessionInv, control, Set, TypeOK
  <2>2. auth_writes[s] = 0
    BY <2>1 DEF OpInv, Op, DialStages
  <2>3. OpInv(s, Op("write_req", "inflight"))'
    BY <2>1, <2>2 DEF OpInv, Op, DialStages
  <2> QED BY <1>5, <2>1, <2>3, HandlerChain DEF OnWsHandshake, Stages, SocketStages
<1>6. ASSUME OnWriteReq(s) PROVE SessionInv(s)'
  <2>1. /\ OpInv(s, Op("write_req", "ok"))
        /\ UNCHANGED <<attempt, auth_writes, ws_connected, started>>
    BY <1>6 DEF OnWriteReq, SessionInv, control, side
  <2>2. OpInv(s, Op("read", "inflight"))'
    BY <2>1 DEF OpInv, Op, DialStages
  <2> QED BY <1>6, <2>1, <2>2, HandlerChain DEF OnWriteReq, Stages, SocketStages
<1>7. ASSUME NEW payload \in Payloads, OnRead(s, payload) PROVE SessionInv(s)'
  <2>1. /\ Op("read", "ok") \in ops[s] /\ OpInv(s, Op("read", "ok")) /\ ReadOn(s)
        /\ UNCHANGED <<attempt, ws_connected, started>>
    BY <1>7 DEF OnRead, SessionInv, control
  <2>2. CASE stopped[s]
    <3>1. ops'[s] = {} /\ ops[s] # {} /\ started'[s] = started[s]
      BY <2>1, <2>2, FinishChain DEF ReadOn, SessionInv
    <3> QED BY <3>1, EndChain
  <2>3. CASE ~stopped[s]
    <3>1. OpInv(s, Op("read", "inflight"))'
      BY <2>1 DEF OpInv, Op, DialStages
    <3> QED BY <2>1, <2>3, <3>1, HandlerChain DEF ReadOn, Stages, SocketStages
  <2> QED BY <2>2, <2>3
<1>8. ASSUME NEW state \in {"ok", "error"}, OnTimer(s, state) PROVE SessionInv(s)'
  <2> DEFINE fired == Op("timer", state)
             left  == ops[s] \ {fired}
  <2>1. fired \in ops[s] /\ UNCHANGED <<attempt, started>>
    BY <1>8 DEF OnTimer
  <2>2. left = {} /\ ops[s] # {} /\ started'[s] = started[s]
    BY <2>1 DEF SessionInv, AtMostOne
  <2>3. CASE state = "error" \/ stopped[s]
    <3>1. ops'[s] = {}
      BY <1>8, <2>1, <2>3, FinishChain DEF OnTimer, SessionInv
    <3> QED BY <2>2, <3>1, EndChain
  <2>4. CASE ~(state = "error" \/ stopped[s])
    <3>1. ops'[s] = ops[s] /\ ws_connected'[s] = FALSE /\ UNCHANGED auth_writes
      BY <1>8, <2>4, TimerWaits DEF OnTimer, side
    <3> QED BY <2>1, <3>1 DEF SessionInv, OpInv
  <2> QED BY <2>3, <2>4
<1>9. ASSUME NEW nips \in NipSets, ApplyNips(s, nips) PROVE SessionInv(s)'
  BY <1>9 DEF ApplyNips, control, SessionInv, OpInv
<1>10. ASSUME Closed(s) PROVE SessionInv(s)'
  <2>1. ops'[s] = Aborted(ops[s])
    BY <1>10 DEF Closed, Set, TypeOK
  <2>2. ops[s] \in SUBSET Operations /\ AtMostOne(ops[s])
    BY DEF TypeOK, SessionInv
  <2>3. AtMostOne(ops'[s]) /\ CutShort(ops[s], ops'[s]) /\ (ops[s] = {} => ops'[s] = {})
    BY <2>1, <2>2, AbortedFacts
  <2>4. /\ attempt' = attempt /\ started' = started /\ ws_connected' = ws_connected
        /\ auth_writes'[s] = 0
    BY <1>10 DEF Closed, control, Set, TypeOK
  <2> QED BY <2>3, <2>4, CutShortInv
<1> QED BY <1>1, <1>2, <1>3, <1>4, <1>5, <1>6, <1>7, <1>8, <1>9, <1>10 DEF Handlers

\* The dial after the TLS shutdown preserves it too,
LEMMA ResetEndsChain ==
  ASSUME TypeInv, TlsInv, NEW s \in Sessions, SessionInv(s), ResetEnds(s)
  PROVE  SessionInv(s)'
<1>1. ops'[s] = {Op("resolve", "inflight")} /\ ops[s] # {}
  BY ResetResolves
<1>2. /\ auth_writes'[s] = 0 /\ ws_connected' = ws_connected /\ attempt' = attempt
      /\ started'[s] = started[s]
  BY DEF ResetEnds, Set, TypeInv, TypeOK
<1>3. ~ws_connected'[s]
  BY <1>2 DEF ResetEnds, TlsInv
<1>4. OpInv(s, Op("resolve", "inflight"))'
  BY <1>2, <1>3 DEF OpInv, Op, DialStages
<1> QED BY <1>1, <1>2, <1>4, NextInChain

\* The chain invariant holds initially,
LEMMA ChainInvInit == Init => ChainInv
BY DEF Init, ChainInv, TlsInv, SessionInv, AtMostOne, OpInv

\* only the retry puts a session into the TLS shutdown, and while it is there no
\* handler and no call can come between,
LEMMA TlsInvNext == TypeInv /\ ChainInv /\ [Next]_vars => TlsInv'
<1> SUFFICES ASSUME TypeInv, ChainInv, [Next]_vars PROVE TlsInv'
  OBVIOUS
<1>1. CASE UNCHANGED vars
  BY <1>1 DEF vars, ChainInv, TlsInv
<1>2. CASE Reset
  BY <1>2 DEF Reset, control, ChainInv, TlsInv
<1>3. ASSUME NEW s \in Sessions, Network(s) PROVE TlsInv'
  <2>1. UNCHANGED <<stopped, ws_connected, closing_tls>>
    BY <1>3 DEF Network, Complete, AuthWritten, FetchDone, control
  <2>2. ASSUME NEW t \in Sessions, t \in closing_tls PROVE Op("timer", "ok") \in ops'[t]
    <3>1. Op("timer", "ok") \in ops[t] /\ AtMostOne(ops[t]) /\ Op("timer", "ok").state = "ok"
      BY <2>2 DEF ChainInv, TlsInv, SessionInv, Op
    <3>2. CASE t # s
      BY <1>3, <3>1, <3>2, OthersUntouched DEF Untouched, Step
    <3>3. CASE t = s
      BY <1>3, <3>1, <3>3 DEF Network, Complete, AuthWritten, FetchDone, AtMostOne
    <3> QED BY <3>2, <3>3
  <2>3. closing_tls \subseteq Sessions
    BY DEF TypeInv, TypeOK
  <2> QED BY <2>1, <2>2, <2>3 DEF ChainInv, TlsInv
<1>4. ASSUME NEW s \in Sessions, IoThread(s) PROVE TlsInv'
  <2>1. closing_tls = {}
    BY <1>4 DEF IoThread, IoFree
  <2>2. ASSUME NEW state \in {"ok", "error"}, OnTimer(s, state) PROVE TlsInv'
    <3>1. CASE state = "error" \/ stopped[s]
      BY <2>1, <2>2, <3>1 DEF OnTimer, TlsInv
    <3>2. CASE ~(state = "error" \/ stopped[s])
      <4>1. /\ ops'[s] = {Op("timer", "ok")} /\ ws_connected'[s] = FALSE /\ closing_tls' = {s}
        BY <2>2, <3>2, TimerWaits DEF ChainInv
      <4>2. ~stopped'[s]
        BY <2>2, <3>2 DEF OnTimer
      <4> QED BY <4>1, <4>2 DEF TlsInv
    <3> QED BY <3>1, <3>2
  <2>3. ASSUME UNCHANGED closing_tls PROVE TlsInv'
    BY <2>1, <2>3 DEF TlsInv
  <2>4. CASE Calls(s)
    BY <2>3, <2>4 DEF Calls, SetAuthKey, Start, Stop, control
  <2>5. CASE Handlers(s)
    BY <2>2, <2>3, <2>5 DEF Handlers, OnError, OnResolve, OnConnect, OnTlsHandshake,
       OnWsHandshake, OnWriteReq, OnRead, ApplyNips, Closed, control
  <2> QED BY <1>4, <2>4, <2>5 DEF IoThread
<1>5. ASSUME NEW s \in Sessions, ResetEnds(s) PROVE TlsInv'
  BY <1>5 DEF ResetEnds, TlsInv
<1> QED BY <1>1, <1>2, <1>3, <1>4, <1>5 DEF Next

\* and every step of any session preserves it for all of them,
LEMMA ChainInvNext == TypeInv /\ ChainInv /\ [Next]_vars => ChainInv'
<1> SUFFICES ASSUME TypeInv, ChainInv, [Next]_vars, NEW t \in Sessions PROVE SessionInv(t)'
  BY TlsInvNext DEF ChainInv
<1>1. SessionInv(t) /\ TlsInv
  BY DEF ChainInv
<1>2. CASE Reset
  BY <1>1, <1>2 DEF Reset, control, side, SessionInv, OpInv
<1>3. CASE UNCHANGED vars
  BY <1>1, <1>3 DEF vars, SessionInv, OpInv
<1>4. ASSUME NEW s \in Sessions, Step(s) PROVE SessionInv(t)'
  <2>1. CASE t = s
    BY <1>1, <1>4, <2>1, CallsChain, NetworkChain, HandlersChain, ResetEndsChain DEF Step
  <2>2. CASE t # s
    BY <1>1, <1>4, <2>2, OthersUntouched DEF Untouched, SessionInv, OpInv
  <2> QED BY <2>1, <2>2
<1> QED BY <1>2, <1>3, <1>4, NextCases

\* and so it always holds.
LEMMA ChainInvariant == Spec => [](TypeInv /\ ChainInv)
BY TypeInvInit, ChainInvInit, TypeInvNext, ChainInvNext, PTL DEF Spec

\* No handler ever starts a second operation beside one that is outstanding:
\* no second read, no retry beside a live stream, no two dials.
THEOREM OneOperation == Spec => []ChainExclusive
<1>1. ChainInv => ChainExclusive
  BY DEF ChainInv, SessionInv, AtMostOne, ChainExclusive
<1> QED BY ChainInvariant, <1>1, PTL

\* A live stream has its whole retry budget and a waiting retry has spent some.
THEOREM BudgetFollowsProgress == Spec => []AttemptTracksProgress
<1>1. ChainInv => AttemptTracksProgress
  BY DEF ChainInv, SessionInv, OpInv, AttemptTracksProgress
<1> QED BY ChainInvariant, <1>1, PTL

\* No AUTH write of an earlier stream reaches the next one.
THEOREM WritesStayInTheirStream == Spec => []NoWriteAcrossStreams
<1>1. ChainInv => NoWriteAcrossStreams
  BY DEF ChainInv, SessionInv, OpInv, NoWriteAcrossStreams
<1> QED BY ChainInvariant, <1>1, PTL

\* ws_connected_ is never set while a stream is dialled, so Stop closes by
\* WebSocket handshake only a stream that has been shaken hands on.
THEOREM FlagFollowsHandshake == Spec => []CloseOnlyAfterHandshake
<1>1. ChainInv => CloseOnlyAfterHandshake
  BY DEF ChainInv, SessionInv, OpInv, CloseOnlyAfterHandshake
<1> QED BY ChainInvariant, <1>1, PTL

-----------------------------------------------------------------------------
(* A stopped session winds down.  The step property needs an invariant: a   *)
(* stopped session has no timer pending.                                   *)

StoppedInv == \A s \in Sessions : stopped[s] => Op("timer", "inflight") \notin ops[s]

\* What StoppedSessionWindsDown says of one session.
Winds(s) ==
  stopped[s] /\ stopped'[s] =>
    \A later \in ops'[s] :
      /\ \E earlier \in ops[s] : WindsDown(earlier, later)
      /\ later # Op("timer", "inflight")

\* Operations cut short wind down, and none of them becomes a pending timer.
LEMMA CutShortWinds ==
  ASSUME NEW before \in SUBSET Operations, NEW after, CutShort(before, after),
         Op("timer", "inflight") \notin before
  PROVE  \A later \in after :
           /\ \E earlier \in before : WindsDown(earlier, later)
           /\ later # Op("timer", "inflight")
<1> SUFFICES ASSUME NEW later \in after
             PROVE  /\ \E earlier \in before : WindsDown(earlier, later)
                    /\ later # Op("timer", "inflight")
  OBVIOUS
<1>1. PICK o \in before :
        later.stage = o.stage /\ (later = o \/ (o.state = "inflight" /\ later.state = "error"))
  BY DEF CutShort
<1>2. WindsDown(o, later)
  BY <1>1 DEF WindsDown
<1>3. later # Op("timer", "inflight")
  BY <1>1 DEF Op
<1> QED BY <1>2, <1>3

\* A handler that replaces the operation it has handled by a later stage.
LEMMA GoOnWinds ==
  ASSUME TypeInv, NEW s \in Sessions, SessionInv(s), NEW stage \in Stages, NEW next \in Stages,
         Op(stage, "ok") \in ops[s], GoOn(s, Op(stage, "ok"), next),
         Rank(next) > Rank(stage), next # "timer"
  PROVE  Winds(s)
<1>1. ops'[s] = {Op(next, "inflight")}
  BY GoOnChain DEF SessionInv, TypeInv
<1>2. WindsDown(Op(stage, "ok"), Op(next, "inflight"))
  BY OpType DEF WindsDown
<1>3. Op(next, "inflight") # Op("timer", "inflight")
  BY DEF Op
<1> QED BY <1>1, <1>2, <1>3 DEF Winds

\* A handler that starts nothing winds the chain down.
LEMMA FinishWinds ==
  ASSUME TypeInv, NEW s \in Sessions, SessionInv(s), NEW done \in ops[s], Finish(s, done)
  PROVE  Winds(s)
<1>1. ops'[s] = {}
  BY FinishChain DEF SessionInv, TypeInv
<1> QED BY <1>1 DEF Winds

\* A failed step of a stopped session schedules no retry.
LEMMA MarkErrorWinds ==
  ASSUME TypeInv, NEW s \in Sessions, SessionInv(s), NEW done \in ops[s], NEW where,
         MarkError(s, done, where)
  PROVE  Winds(s)
<1>1. stopped[s] => Finish(s, done)
  BY DEF MarkError, ShouldReconnectAttempt
<1>2. CASE stopped[s]
  BY <1>1, <1>2, FinishWinds
<1>3. CASE ~stopped[s]
  BY <1>3 DEF Winds
<1> QED BY <1>2, <1>3

\* Stop cuts operations short,
LEMMA StopCuts ==
  ASSUME TypeInv, NEW s \in Sessions, Stop(s)
  PROVE  CutShort(ops[s], ops'[s])
<1> DEFINE after == CancelTimer(ops[s])
<1>1. PICK left \in CancelResolve(after) :
        ops' = Set(ops, s, left) \/ ops' = Set(ops, s, Aborted(left))
  BY DEF Stop
<1>2. ops[s] \in SUBSET Operations
  BY DEF TypeInv, TypeOK
<1>3. after \in SUBSET Operations /\ CutShort(ops[s], after)
  BY <1>2, CancelTimerFacts
<1>4. left \in SUBSET Operations /\ CutShort(after, left)
  BY <1>1, <1>3, CancelResolveFacts
<1>5. Aborted(left) \in SUBSET Operations /\ CutShort(left, Aborted(left))
  BY <1>4, AbortedFacts
<1>6. CutShort(ops[s], left)
  BY <1>2, <1>3, <1>4, CutShortComposes
<1>7. CutShort(ops[s], Aborted(left))
  BY <1>2, <1>4, <1>5, <1>6, CutShortComposes
<1>8. ops'[s] = left \/ ops'[s] = Aborted(left)
  BY <1>1 DEF Set, TypeInv, TypeOK
<1> QED BY <1>6, <1>7, <1>8

\* and leaves no pending timer.
LEMMA StopWinds ==
  ASSUME TypeInv, NEW s \in Sessions, Stop(s)
  PROVE  Op("timer", "inflight") \notin ops'[s]
<1>1. PICK left \in CancelResolve(CancelTimer(ops[s])) :
        ops' = Set(ops, s, left) \/ ops' = Set(ops, s, Aborted(left))
  BY DEF Stop
<1>2. ops[s] \in SUBSET Operations
  BY DEF TypeInv, TypeOK
<1>3. /\ CancelTimer(ops[s]) \in SUBSET Operations
      /\ Op("timer", "inflight") \notin CancelTimer(ops[s])
  BY <1>2, CancelTimerFacts
<1>4. left \in SUBSET Operations /\ Op("timer", "inflight") \notin left
  BY <1>1, <1>3, CancelResolveFacts, CutShortWinds
<1>5. Op("timer", "inflight") \notin Aborted(left)
  BY <1>4, AbortedFacts, CutShortWinds
<1> QED BY <1>1, <1>4, <1>5 DEF Set, TypeInv, TypeOK

\* Every step of a session satisfies Winds, and keeps its own part of StoppedInv.
LEMMA StepWinds ==
  ASSUME TypeInv, ChainInv, StoppedInv, NEW s \in Sessions, Step(s)
  PROVE  /\ Winds(s)
         /\ stopped'[s] => Op("timer", "inflight") \notin ops'[s]
<1> USE DEF TypeInv
<1>0. SessionInv(s) /\ ops[s] \in SUBSET Operations
  BY DEF ChainInv, TypeOK
<1> DEFINE Goal == /\ Winds(s)
                   /\ stopped'[s] => Op("timer", "inflight") \notin ops'[s]
\* A step that leaves stopped_ alone needs Winds only.
<1>1. ASSUME UNCHANGED stopped, Winds(s) PROVE Goal
  BY <1>1 DEF Winds, StoppedInv
<1>2. ASSUME UNCHANGED stopped, UNCHANGED ops PROVE Goal
  <2>1. \A o : WindsDown(o, o)
    BY DEF WindsDown
  <2>2. Winds(s)
    BY <1>2, <2>1 DEF Winds, StoppedInv
  <2> QED BY <1>1, <1>2, <2>2
<1> SUFFICES Goal
  OBVIOUS
<1> HIDE DEF Goal
<1>3. CASE Calls(s)
  <2>1. ASSUME NEW key \in Keys, SetAuthKey(s, key) PROVE Goal
    BY <1>2, <2>1 DEF SetAuthKey, control
  <2>2. ASSUME Start(s) PROVE Goal
    <3>1. stopped'[s] = FALSE
      BY <2>2 DEF Start, Set, TypeOK
    <3> QED BY <3>1 DEF Goal, Winds
  <2>3. ASSUME Stop(s) PROVE Goal
    <3>1. Op("timer", "inflight") \notin ops'[s] /\ CutShort(ops[s], ops'[s])
      BY <2>3, StopCuts, StopWinds
    <3>2. Winds(s)
      BY <1>0, <3>1, CutShortWinds DEF Winds, StoppedInv
    <3> QED BY <3>1, <3>2 DEF Goal
  <2> QED BY <1>3, <2>1, <2>2, <2>3 DEF Calls
<1>4. CASE Network(s)
  <2>1. ASSUME NEW o \in ops[s], NEW state \in {"ok", "error"}, Complete(s, o, state) PROVE Goal
    <3> DEFINE p == Op(o.stage, state)
    <3>1. /\ ops'[s] = {p} /\ p.stage = o.stage /\ p.state = state
          /\ o.state = "inflight" /\ UNCHANGED stopped
      BY <1>0, <2>1 DEF Complete, control, Set, SessionInv, AtMostOne, TypeOK, Op
    <3>2. WindsDown(o, p) /\ p # Op("timer", "inflight")
      BY <3>1 DEF WindsDown, Op
    <3>3. Winds(s)
      BY <3>1, <3>2 DEF Winds
    <3> QED BY <1>1, <3>1, <3>3
  <2>2. ASSUME AuthWritten(s) PROVE Goal
    BY <1>2, <2>2 DEF AuthWritten, control
  <2>3. ASSUME FetchDone(s) PROVE Goal
    BY <1>2, <2>3 DEF FetchDone, control
  <2> QED BY <1>4, <2>1, <2>2, <2>3 DEF Network
<1>5. CASE Handlers(s)
  <2>1. ASSUME NEW where \in Stages, OnError(s, where) PROVE Goal
    <3>1. Winds(s) /\ UNCHANGED stopped
      BY <1>0, <2>1, MarkErrorWinds DEF OnError, control
    <3> QED BY <1>1, <3>1
  <2>2. ASSUME OnResolve(s) PROVE Goal
    <3>1. Winds(s) /\ UNCHANGED stopped
      BY <1>0, <2>2, GoOnWinds DEF OnResolve, control, Rank, Stages, SocketStages
    <3> QED BY <1>1, <3>1
  <2>3. ASSUME OnConnect(s) PROVE Goal
    <3>1. CASE MarkError(s, Op("connect", "ok"), "set_sni")
      <4>1. Winds(s) /\ UNCHANGED stopped
        BY <1>0, <2>3, <3>1, MarkErrorWinds DEF OnConnect, control
      <4> QED BY <1>1, <4>1
    <3>2. ASSUME GoOn(s, Op("connect", "ok"), "tls_handshake") PROVE Goal
      <4>1. Winds(s) /\ UNCHANGED stopped
        BY <1>0, <2>3, <3>2, GoOnWinds DEF OnConnect, control, Rank, Stages, SocketStages
      <4> QED BY <1>1, <4>1
    <3> QED BY <2>3, <3>1, <3>2 DEF OnConnect
  <2>4. ASSUME OnTlsHandshake(s) PROVE Goal
    <3>1. Winds(s) /\ UNCHANGED stopped
      BY <1>0, <2>4, GoOnWinds DEF OnTlsHandshake, control, Rank, Stages, SocketStages
    <3> QED BY <1>1, <3>1
  <2>5. ASSUME OnWsHandshake(s) PROVE Goal
    <3>1. Winds(s) /\ UNCHANGED stopped
      BY <1>0, <2>5, GoOnWinds DEF OnWsHandshake, control, Rank, Stages, SocketStages
    <3> QED BY <1>1, <3>1
  <2>6. ASSUME OnWriteReq(s) PROVE Goal
    <3>1. Winds(s) /\ UNCHANGED stopped
      BY <1>0, <2>6, GoOnWinds DEF OnWriteReq, control, Rank, Stages, SocketStages
    <3> QED BY <1>1, <3>1
  <2>7. ASSUME NEW payload \in Payloads, OnRead(s, payload) PROVE Goal
    <3>1. Op("read", "ok") \in ops[s] /\ ReadOn(s) /\ UNCHANGED stopped
      BY <2>7 DEF OnRead, control
    <3>2. stopped[s] => Winds(s)
      BY <1>0, <3>1, FinishWinds DEF ReadOn
    <3>3. Winds(s)
      BY <3>2 DEF Winds
    <3> QED BY <1>1, <3>1, <3>3
  <2>8. ASSUME NEW state \in {"ok", "error"}, OnTimer(s, state) PROVE Goal
    <3>1. Op("timer", state) \in ops[s] /\ UNCHANGED stopped
      BY <2>8 DEF OnTimer
    <3>2. stopped[s] => Finish(s, Op("timer", state))
      BY <2>8 DEF OnTimer
    <3>3. Winds(s)
      BY <1>0, <3>1, <3>2, FinishWinds DEF Winds
    <3> QED BY <1>1, <3>1, <3>3
  <2>9. ASSUME NEW nips \in NipSets, ApplyNips(s, nips) PROVE Goal
    BY <1>2, <2>9 DEF ApplyNips, control
  <2>10. ASSUME Closed(s) PROVE Goal
    <3>1. ops'[s] = Aborted(ops[s]) /\ UNCHANGED stopped
      BY <2>10 DEF Closed, control, Set, TypeOK
    <3>2. CutShort(ops[s], ops'[s])
      BY <1>0, <3>1, AbortedFacts
    <3>3. Winds(s)
      BY <1>0, <3>2, CutShortWinds DEF Winds, StoppedInv
    <3> QED BY <1>1, <3>1, <3>3
  <2> QED BY <1>5, <2>1, <2>2, <2>3, <2>4, <2>5, <2>6, <2>7, <2>8, <2>9, <2>10 DEF Handlers
<1>6. CASE ResetEnds(s)
  <2>1. ~stopped[s] /\ UNCHANGED stopped
    BY <1>0, <1>6, ResetResolves DEF ChainInv, ResetEnds
  <2> QED BY <2>1 DEF Goal, Winds
<1> QED BY <1>3, <1>4, <1>5, <1>6 DEF Step

\* Every step preserves that a stopped session has no timer pending.
LEMMA StoppedInvNext ==
  TypeInv /\ ChainInv /\ StoppedInv /\ [Next]_vars =>
    StoppedInv' /\ [\A s \in Sessions : Winds(s)]_vars
<1> SUFFICES ASSUME TypeInv, ChainInv, StoppedInv, [Next]_vars
             PROVE  StoppedInv' /\ [\A s \in Sessions : Winds(s)]_vars
  OBVIOUS
<1>0. \A o : WindsDown(o, o)
  BY DEF WindsDown
<1>1. CASE Reset
  <2>1. UNCHANGED <<ops, stopped>>
    BY <1>1 DEF Reset, control
  <2> QED BY <1>0, <2>1 DEF StoppedInv, Winds
<1>2. CASE UNCHANGED vars
  BY <1>2 DEF StoppedInv, vars
<1>3. ASSUME NEW s \in Sessions, Step(s)
      PROVE  StoppedInv' /\ [\A t \in Sessions : Winds(t)]_vars
  <2>1. ASSUME NEW t \in Sessions
        PROVE  /\ Winds(t)
               /\ stopped'[t] => Op("timer", "inflight") \notin ops'[t]
    <3>1. CASE t = s
      BY <1>3, <3>1, StepWinds
    <3>2. CASE t # s
      <4>1. ops'[t] = ops[t] /\ stopped'[t] = stopped[t]
        BY <1>3, <3>2, OthersUntouched DEF Untouched
      <4> QED BY <1>0, <4>1 DEF StoppedInv, Winds
    <3> QED BY <3>1, <3>2
  <2> QED BY <2>1 DEF StoppedInv
<1> QED BY <1>1, <1>2, <1>3, NextCases

\* Once stopped, a session only winds down: no retry, at most one more frame,
\* and every step takes it closer to its end.
THEOREM StoppedWindsDown == Spec => StoppedSessionWindsDown
<1>1. Init => StoppedInv
  BY DEF Init, StoppedInv
<1>2. [\A s \in Sessions : Winds(s)]_vars =>
        [\A s \in Sessions : stopped[s] /\ stopped'[s] =>
           \A later \in ops'[s] :
             /\ \E earlier \in ops[s] : WindsDown(earlier, later)
             /\ later # Op("timer", "inflight")]_vars
  BY DEF Winds
<1> QED
  BY TypeInvInit, ChainInvInit, TypeInvNext, ChainInvNext, StoppedInvNext, <1>1, <1>2, PTL
  DEF Spec, StoppedSessionWindsDown

-----------------------------------------------------------------------------
(* The life of a session around its chain.  Only Stop leaves a cancelled    *)
(* timer or a closing handshake behind; a stream that is subscribed and not *)
(* stopped is one that Stop will close by handshake; and nothing is fetched *)
(* for a session that was never started.                                    *)

LifeInv(s) ==
  /\ closing[s] => started[s] /\ stopped[s]
  /\ Op("timer", "error") \in ops[s] => stopped[s]
  /\ ~stopped[s] => \A o \in ops[s] : o.stage \in {"write_req", "read"} => ws_connected[s]
  /\ fetches[s] > 0 \/ posted[s] > 0 => started[s]

AllLife == \A s \in Sessions : LifeInv(s)

\* The next operation of a session that keeps its control, and is subscribed if it must be.
LEMMA GoOnLife ==
  ASSUME TypeInv, NEW s \in Sessions, SessionInv(s), LifeInv(s),
         NEW done \in ops[s], NEW next \in Stages, GoOn(s, done, next),
         UNCHANGED <<started, stopped, closing>>,
         next \in {"write_req", "read"} => stopped[s] \/ ws_connected'[s],
         fetches'[s] > 0 \/ posted'[s] > 0 => started[s]
  PROVE  LifeInv(s)'
<1>1. ops'[s] = {Op(next, "inflight")}
  BY GoOnChain DEF SessionInv, TypeInv
<1>2. /\ Op("timer", "error") # Op(next, "inflight")
      /\ Op(next, "inflight").stage = next
  BY DEF Op
<1> QED BY <1>1, <1>2 DEF LifeInv

\* A session that ends its chain and keeps its control.
LEMMA FinishLife ==
  ASSUME TypeInv, NEW s \in Sessions, SessionInv(s), LifeInv(s),
         NEW done \in ops[s], Finish(s, done), UNCHANGED <<started, stopped, closing>>,
         fetches'[s] > 0 \/ posted'[s] > 0 => started[s]
  PROVE  LifeInv(s)'
<1>1. ops'[s] = {}
  BY FinishChain DEF SessionInv, TypeInv
<1> QED BY <1>1 DEF LifeInv

\* A failed step retries or ends.
LEMMA MarkErrorLife ==
  ASSUME TypeInv, NEW s \in Sessions, SessionInv(s), LifeInv(s),
         NEW done \in ops[s], NEW where, MarkError(s, done, where),
         UNCHANGED <<started, stopped, closing, fetches, posted>>
  PROVE  LifeInv(s)'
<1>1. fetches'[s] > 0 \/ posted'[s] > 0 => started[s]
  BY DEF LifeInv
<1>2. GoOn(s, done, "timer") \/ Finish(s, done)
  BY DEF MarkError
<1> QED BY <1>1, <1>2, GoOnLife, FinishLife DEF Stages

\* A session that was stopped, after the step.
LEMMA StoppedLife ==
  ASSUME TypeInv, NEW s \in Sessions, LifeInv(s), stopped'[s],
         closing'[s] => started'[s],
         fetches'[s] > 0 \/ posted'[s] > 0 => started'[s]
  PROVE  LifeInv(s)'
BY DEF LifeInv

\* A step that leaves the chain alone and fetches for started sessions only.
LEMMA SameLife ==
  ASSUME TypeInv, NEW s \in Sessions, LifeInv(s), UNCHANGED <<started, stopped, ops, closing, ws_connected>>,
         fetches'[s] > 0 \/ posted'[s] > 0 => started[s]
  PROVE  LifeInv(s)'
BY DEF LifeInv

\* The calls of SessionManager preserve it,
LEMMA CallsLife ==
  ASSUME TypeInv, NEW s \in Sessions, SessionInv(s), LifeInv(s), Calls(s)
  PROVE  LifeInv(s)'
<1> USE DEF TypeInv
<1>1. ASSUME NEW key \in Keys, SetAuthKey(s, key) PROVE LifeInv(s)'
  <2>1. UNCHANGED <<started, stopped, ops, closing, ws_connected, fetches, posted>>
    BY <1>1 DEF SetAuthKey, control
  <2> QED BY <2>1, SameLife DEF LifeInv
<1>2. ASSUME Start(s) PROVE LifeInv(s)'
  <2>1. /\ ops[s] = {} /\ started'[s] = TRUE /\ stopped'[s] = FALSE /\ closing'[s] = closing[s]
        /\ ~started[s]
    BY <1>2 DEF Start, SessionInv, Set, TypeOK
  <2>2. ~closing[s]
    BY <2>1 DEF LifeInv
  <2>3. CancelTimer(ops[s]) = {}
    BY <2>1, CancelTimerFacts
  <2>4. ops'[s] = {} \/ ops'[s] = {Op("resolve", "inflight")}
    <3>1. ops \in [Sessions -> SUBSET Operations]
      BY DEF TypeInv, TypeOK
    <3>2. \/ ops' = Set(ops, s, CancelTimer(ops[s]))
          \/ ops' = Set(ops, s, CancelTimer(ops[s]) \cup {Op("resolve", "inflight")})
      BY <1>2 DEF Start
    <3>3. \/ ops' = Set(ops, s, {})
          \/ ops' = Set(ops, s, {Op("resolve", "inflight")})
      BY <2>3, <3>2
    <3> QED BY <3>1, <3>3 DEF Set
  <2>5. \A o \in ops'[s] : o.stage = "resolve" /\ o.state = "inflight"
    BY <2>4 DEF Op
  <2>6. Op("timer", "error") \notin ops'[s]
    BY <2>5 DEF Op
  <2> QED BY <2>1, <2>2, <2>5, <2>6 DEF LifeInv
<1>3. ASSUME Stop(s) PROVE LifeInv(s)'
  <2>1. stopped'[s] /\ UNCHANGED <<started, fetches, posted>>
    BY <1>3 DEF Stop, Set, TypeOK
  <2>2. closing'[s] => started'[s]
    BY <1>3 DEF Stop, Set, SessionInv, LifeInv, TypeOK
  <2> QED BY <2>1, <2>2, StoppedLife DEF LifeInv
<1> QED BY <1>1, <1>2, <1>3 DEF Calls

\* completions and the NIP-11 pool preserve it,
LEMMA NetworkLife ==
  ASSUME TypeInv, NEW s \in Sessions, SessionInv(s), LifeInv(s), Network(s)
  PROVE  LifeInv(s)'
<1> USE DEF TypeInv
<1>1. ASSUME NEW o \in ops[s], NEW state \in {"ok", "error"}, Complete(s, o, state)
      PROVE  LifeInv(s)'
  <2> DEFINE p == Op(o.stage, state)
  <2>1. /\ ops'[s] = {p} /\ p.stage = o.stage /\ p.state = state
        /\ UNCHANGED <<started, stopped, closing, ws_connected, fetches, posted>>
    BY <1>1 DEF Complete, control, Set, SessionInv, AtMostOne, TypeOK, Op, side
  <2>2. p # Op("timer", "error")
    BY <1>1, <2>1 DEF Complete, Op
  <2> HIDE DEF p
  <2> QED BY <2>1, <2>2 DEF LifeInv
<1>2. ASSUME AuthWritten(s) PROVE LifeInv(s)'
  <2>1. UNCHANGED <<started, stopped, ops, closing, ws_connected, fetches, posted>>
    BY <1>2 DEF AuthWritten, control
  <2> QED BY <2>1, SameLife DEF LifeInv
<1>3. ASSUME FetchDone(s) PROVE LifeInv(s)'
  <2>1. started[s] /\ UNCHANGED <<started, stopped, ops, closing, ws_connected>>
    BY <1>3 DEF FetchDone, control, LifeInv
  <2> QED BY <2>1, SameLife
<1> QED BY <1>1, <1>2, <1>3 DEF Network

\* and so do the handlers.
LEMMA HandlersLife ==
  ASSUME TypeInv, NEW s \in Sessions, SessionInv(s), LifeInv(s), Handlers(s)
  PROVE  LifeInv(s)'
<1> USE DEF TypeInv
\* Only a started session has an operation whose handler runs.
<1>0. ops[s] # {} => started[s]
  BY DEF SessionInv
<1>1. ASSUME NEW where \in Stages, OnError(s, where) PROVE LifeInv(s)'
  BY <1>1, MarkErrorLife DEF OnError, control, side
<1>2. ASSUME OnResolve(s) PROVE LifeInv(s)'
  BY <1>0, <1>2, GoOnLife DEF OnResolve, control, side, LifeInv, Stages, SocketStages
<1>3. ASSUME OnConnect(s) PROVE LifeInv(s)'
  <2>1. CASE MarkError(s, Op("connect", "ok"), "set_sni")
    BY <1>3, <2>1, MarkErrorLife DEF OnConnect, control, side
  <2>2. CASE GoOn(s, Op("connect", "ok"), "tls_handshake")
    BY <1>0, <1>3, <2>2, GoOnLife DEF OnConnect, control, side, LifeInv, Stages, SocketStages
  <2> QED BY <1>3, <2>1, <2>2 DEF OnConnect
<1>4. ASSUME OnTlsHandshake(s) PROVE LifeInv(s)'
  BY <1>0, <1>4, GoOnLife DEF OnTlsHandshake, control, side, LifeInv, Stages, SocketStages
<1>5. ASSUME OnWsHandshake(s) PROVE LifeInv(s)'
  <2>1. ws_connected'[s]
    BY <1>5 DEF OnWsHandshake, Set, TypeOK
  <2> QED BY <1>0, <1>5, <2>1, GoOnLife DEF OnWsHandshake, control, Stages, SocketStages
<1>6. ASSUME OnWriteReq(s) PROVE LifeInv(s)'
  <2>1. stopped[s] \/ ws_connected'[s]
    BY <1>6 DEF OnWriteReq, LifeInv, Op
  <2> QED BY <1>0, <1>6, <2>1, GoOnLife DEF OnWriteReq, control, side, LifeInv, Stages, SocketStages
<1>7. ASSUME NEW payload \in Payloads, OnRead(s, payload) PROVE LifeInv(s)'
  <2>1. Op("read", "ok") \in ops[s] /\ UNCHANGED <<started, stopped, closing>> /\ started[s]
    BY <1>0, <1>7 DEF OnRead, control
  <2>2. stopped[s] \/ ws_connected'[s]
    BY <1>7 DEF OnRead, LifeInv, Op
  <2>3. Finish(s, Op("read", "ok")) \/ GoOn(s, Op("read", "ok"), "read")
    BY <1>7 DEF OnRead, ReadOn
  <2> QED BY <2>1, <2>2, <2>3, GoOnLife, FinishLife DEF Stages, SocketStages
<1>8. ASSUME NEW state \in {"ok", "error"}, OnTimer(s, state) PROVE LifeInv(s)'
  <2> DEFINE fired == Op("timer", state)
  <2>1. fired \in ops[s] /\ UNCHANGED <<started, stopped, closing>> /\ started[s]
    BY <1>0, <1>8 DEF OnTimer
  <2>2. CASE state = "error" \/ stopped[s]
    BY <1>8, <2>1, <2>2, FinishLife DEF OnTimer, side
  <2>3. CASE ~(state = "error" \/ stopped[s])
    <3>1. ops'[s] = {Op("timer", "ok")}
      BY <1>8, <2>3, TimerWaits
    <3>2. \A o \in ops'[s] : o.stage = "timer" /\ o.state = "ok"
      BY <3>1 DEF Op
    <3>3. Op("timer", "error") \notin ops'[s]
      BY <3>2 DEF Op
    <3>4. UNCHANGED <<fetches, posted>>
      BY <1>8 DEF OnTimer, side
    <3> QED BY <2>1, <3>2, <3>3, <3>4 DEF LifeInv
  <2> QED BY <2>2, <2>3
<1>9. ASSUME NEW nips \in NipSets, ApplyNips(s, nips) PROVE LifeInv(s)'
  <2>1. started[s] /\ UNCHANGED <<started, stopped, ops, closing, ws_connected>>
    BY <1>9 DEF ApplyNips, control, LifeInv
  <2> QED BY <2>1, SameLife
<1>10. ASSUME Closed(s) PROVE LifeInv(s)'
  <2>1. stopped'[s] /\ started'[s]
    BY <1>10 DEF Closed, LifeInv, control
  <2> QED BY <2>1, StoppedLife
<1> QED BY <1>1, <1>2, <1>3, <1>4, <1>5, <1>6, <1>7, <1>8, <1>9, <1>10 DEF Handlers

\* The dial after the TLS shutdown is of a session that runs.
LEMMA ResetEndsLife ==
  ASSUME TypeInv, TlsInv, NEW s \in Sessions, SessionInv(s), LifeInv(s), ResetEnds(s)
  PROVE  LifeInv(s)'
<1>1. ops'[s] = {Op("resolve", "inflight")} /\ started[s]
  BY ResetResolves
<1>2. UNCHANGED <<started, stopped, closing, fetches, posted>>
  BY DEF ResetEnds
<1>3. \A o \in ops'[s] : o.stage = "resolve" /\ o.state = "inflight"
  BY <1>1 DEF Op
<1>4. Op("timer", "error") \notin ops'[s]
  BY <1>3 DEF Op
<1> QED BY <1>1, <1>2, <1>3, <1>4 DEF LifeInv

\* Initially nothing has happened,
LEMMA LifeInit == Init => AllLife
<1>1. ~(0 > 0)
  OBVIOUS
<1> QED BY <1>1 DEF Init, AllLife, LifeInv

\* and every step keeps the life of every session in order.
LEMMA LifeNext == TypeInv /\ ChainInv /\ AllLife /\ [Next]_vars => AllLife'
<1> SUFFICES ASSUME TypeInv, ChainInv, AllLife, [Next]_vars, NEW t \in Sessions
             PROVE  LifeInv(t)'
  BY DEF AllLife
<1>1. SessionInv(t) /\ TlsInv /\ LifeInv(t)
  BY DEF ChainInv, AllLife
<1>2. CASE Reset
  BY <1>1, <1>2 DEF Reset, control, side, LifeInv
<1>3. CASE UNCHANGED vars
  BY <1>1, <1>3 DEF vars, LifeInv
<1>4. ASSUME NEW s \in Sessions, Step(s) PROVE LifeInv(t)'
  <2>1. CASE t = s
    BY <1>1, <1>4, <2>1, CallsLife, NetworkLife, HandlersLife, ResetEndsLife DEF Step
  <2>2. CASE t # s
    BY <1>1, <1>4, <2>2, OthersUntouched DEF Untouched, LifeInv
  <2> QED BY <2>1, <2>2
<1> QED BY <1>2, <1>3, <1>4, NextCases

-----------------------------------------------------------------------------
(* The row of a relay.  A session writes the row of its own relay only, so  *)
(* when every relay has one session the row of a running session is the     *)
(* last word of its own handlers, unless Reset has taken it since.          *)

RowInv(s) == Running(s) => ShowsStage(s) \/ RowBlank(s)

RowsInv == OneSessionPerUrl => \A s \in Sessions : RowInv(s)

\* What NewStageIsShown says of one session.
NewStage(s) == Running(s)' /\ (~started[s] \/ Due(s)' # Due(s)) => ShowsStage(s)'

\* What a step does to the row of a session, for both properties.
RowStep(s) == RowInv(s)' /\ NewStage(s)

\* A step of a session writes no row but that of its relay.
LEMMA OwnRowOnly ==
  ASSUME TypeInv, NEW s \in Sessions, Step(s)
  PROVE  OtherRowsKept(stats, stats', UrlOf[s])
<1> DEFINE u == UrlOf[s]
           Kept == OtherRowsKept(stats, stats', u)
<1>1. IsTable(stats) /\ u \in Urls
  BY UrlOfType DEF TypeInv, TypeOK
<1>2. ASSUME UNCHANGED stats PROVE Kept
  BY <1>2 DEF OtherRowsKept
<1>3. ASSUME NEW status, NEW error, stats' = SetStatus(stats, u, status, error) PROVE Kept
  BY <1>1, <1>3, SetStatusFacts
<1>4. ASSUME NEW status, ShowStatus(s, status) PROVE Kept
  BY <1>3, <1>4 DEF ShowStatus
<1>5. ASSUME NEW done, NEW where, MarkError(s, done, where) PROVE Kept
  BY <1>3, <1>5 DEF MarkError
<1> SUFFICES Kept
  OBVIOUS
<1> HIDE DEF Kept
<1>6. CASE Calls(s)
  <2>1. ASSUME NEW key \in Keys, SetAuthKey(s, key) PROVE Kept
    BY <1>2, <2>1 DEF SetAuthKey
  <2>2. ASSUME Start(s) PROVE Kept
    <3>1. IsTable(EnsureRelay(stats, u)) /\ OtherRowsKept(stats, EnsureRelay(stats, u), u)
      BY <1>1, EnsureRelayType, EnsureRelayFacts
    <3>2. PICK status, error : stats' = SetStatus(EnsureRelay(stats, u), u, status, error)
      BY <2>2 DEF Start
    <3>3. OtherRowsKept(EnsureRelay(stats, u), stats', u)
      BY <3>1, <3>2, SetStatusFacts
    <3> QED BY <3>1, <3>3 DEF OtherRowsKept, Kept
  <2>3. ASSUME Stop(s) PROVE Kept
    BY <1>2, <1>4, <2>3 DEF Stop
  <2> QED BY <1>6, <2>1, <2>2, <2>3 DEF Calls
<1>7. CASE Network(s)
  BY <1>2, <1>7 DEF Network, Complete, AuthWritten, FetchDone
<1>8. CASE Handlers(s)
  <2>1. ASSUME NEW where \in Stages, OnError(s, where) PROVE Kept
    BY <1>5, <2>1 DEF OnError
  <2>2. CASE OnResolve(s) \/ OnConnect(s) \/ OnTlsHandshake(s) \/ OnWsHandshake(s)
    BY <1>4, <1>5, <2>2 DEF OnResolve, OnConnect, OnTlsHandshake, OnWsHandshake
  <2>3. CASE OnWriteReq(s)
    BY <1>2, <2>3 DEF OnWriteReq
  <2>4. ASSUME NEW payload \in Payloads, OnRead(s, payload) PROVE Kept
    <3>1. \/ UNCHANGED stats
          \/ stats' = IncrementEvent(stats, u)
          \/ \E ms : stats' = RecordLatency(stats, u, ms)
      BY <2>4 DEF OnRead, HandleMessage, OnAuthChallenge
    <3> QED BY <1>1, <1>2, <3>1, CountFacts DEF Kept
  <2>5. ASSUME NEW state \in {"ok", "error"}, OnTimer(s, state) PROVE Kept
    BY <1>2, <2>5 DEF OnTimer
  <2>6. ASSUME NEW nips \in NipSets, ApplyNips(s, nips) PROVE Kept
    <3>1. stats' = stats \/ stats' = SetSupportedNips(stats, u, nips)
      BY <2>6 DEF ApplyNips
    <3> QED BY <1>1, <1>2, <3>1, SetSupportedNipsFacts DEF Kept
  <2>7. CASE Closed(s)
    BY <1>4, <2>7 DEF Closed
  <2> QED BY <1>8, <2>1, <2>2, <2>3, <2>4, <2>5, <2>6, <2>7 DEF Handlers
<1>9. CASE ResetEnds(s)
  BY <1>4, <1>9 DEF ResetEnds
<1> QED BY <1>6, <1>7, <1>8, <1>9 DEF Step

\* ShowStatus leaves the status in the row.
LEMMA ShowStatusRow ==
  ASSUME TypeInv, NEW s \in Sessions, NEW status, ShowStatus(s, status)
  PROVE  UrlOf[s] \in DOMAIN stats' /\ stats'[UrlOf[s]].status = status
<1>1. PICK error : stats' = SetStatus(stats, UrlOf[s], status, error)
  BY DEF ShowStatus
<1>2. IsTable(stats)
  BY DEF TypeInv, TypeOK
<1> QED BY <1>1, <1>2, SetStatusFacts

\* A row shows a session's stage when it says what is due.
LEMMA ShowsDue ==
  ASSUME NEW s
  PROVE  ShowsStage(s) <=> /\ UrlOf[s] \in DOMAIN stats
                           /\ \A status \in Due(s) : stats[UrlOf[s]].status = status
BY DEF ShowsStage, Due

\* A step that shows the stage.
LEMMA StageRow ==
  ASSUME NEW s, ShowsStage(s)'
  PROVE  RowStep(s)
BY DEF RowStep, RowInv, NewStage

\* A session that does not run after the step.
LEMMA NotRunningRow ==
  ASSUME NEW s, stopped'[s]
  PROVE  RowStep(s)
BY DEF RowStep, RowInv, NewStage, Running

\* The rows stay: a status is kept, and a row that was not there comes with none.
RowsStay(u) ==
  /\ u \in DOMAIN stats => u \in DOMAIN stats' /\ stats'[u].status = stats[u].status
  /\ u \notin DOMAIN stats /\ u \in DOMAIN stats' => stats'[u].status = "Disconnected"

\* A step that keeps the stage and the status of the row.
LEMMA SameRow ==
  ASSUME NEW s, RowInv(s), started'[s] = started[s], stopped'[s] = stopped[s],
         Due(s)' = Due(s), RowsStay(UrlOf[s])
  PROVE  RowStep(s)
<1>1. NewStage(s)
  BY DEF NewStage, Running
<1>2. CASE ~Running(s)
  BY <1>1, <1>2 DEF RowStep, RowInv, Running
<1>3. CASE RowBlank(s)
  <2>1. RowBlank(s)'
    BY <1>3 DEF RowBlank, RowsStay
  <2> QED BY <1>1, <2>1 DEF RowStep, RowInv
<1>4. CASE ShowsStage(s)
  <2>1. UrlOf[s] \in DOMAIN stats /\ \A status \in Due(s) : stats[UrlOf[s]].status = status
    BY <1>4, ShowsDue
  <2>2. /\ UrlOf[s] \in DOMAIN stats'
        /\ \A status \in Due(s)' : stats'[UrlOf[s]].status = status
    BY <2>1 DEF RowsStay
  <2>3. ShowsStage(s)'
    BY <2>2 DEF ShowsStage, Due
  <2> QED BY <2>3, StageRow
<1> QED BY <1>2, <1>3, <1>4 DEF RowInv

\* Showing the status of the only operation shows the stage.
LEMMA OneShown ==
  ASSUME TypeInv, NEW s \in Sessions, NEW next, NEW state, ops'[s] = {Op(next, state)},
         UrlOf[s] \in DOMAIN stats', stats'[UrlOf[s]].status = StatusOf(next)
  PROVE  ShowsStage(s)'
<1>1. \A o \in ops'[s] : o.stage = next
  BY DEF Op
<1>2. ops'[s] # {}
  OBVIOUS
<1> QED BY <1>1, <1>2 DEF ShowsStage

\* A handler that shows the stage it goes on to.
LEMMA GoOnRow ==
  ASSUME TypeInv, NEW s \in Sessions, SessionInv(s), NEW done \in ops[s], NEW next \in Stages,
         GoOn(s, done, next), ShowStatus(s, StatusOf(next))
  PROVE  RowStep(s)
<1>1. ops'[s] = {Op(next, "inflight")}
  BY GoOnChain DEF SessionInv, TypeInv
<1>2. UrlOf[s] \in DOMAIN stats' /\ stats'[UrlOf[s]].status = StatusOf(next)
  BY ShowStatusRow
<1> QED BY <1>1, <1>2, OneShown, StageRow

\* A failed step shows Error, whether a retry follows or not.
LEMMA MarkErrorRow ==
  ASSUME TypeInv, NEW s \in Sessions, SessionInv(s), NEW done \in ops[s], NEW where,
         MarkError(s, done, where)
  PROVE  RowStep(s)
<1> DEFINE u == UrlOf[s]
<1>1. IsTable(stats) /\ stats' = SetStatus(stats, u, "Error", where)
  BY DEF MarkError, TypeInv, TypeOK
<1>2. u \in DOMAIN stats' /\ stats'[u].status = "Error"
  BY <1>1, SetStatusFacts
<1>3. CASE ShouldReconnectAttempt(stopped[s], attempt[s], where)
  <2>1. ops'[s] = {Op("timer", "inflight")}
    BY <1>3, GoOnChain DEF MarkError, SessionInv, TypeInv, Stages
  <2>2. StatusOf("timer") = "Error"
    BY DEF StatusOf
  <2> QED BY <1>2, <2>1, <2>2, OneShown, StageRow
<1>4. CASE ~ShouldReconnectAttempt(stopped[s], attempt[s], where)
  <2>1. ops'[s] = {}
    BY <1>4, FinishChain DEF MarkError, SessionInv, TypeInv
  <2>2. ShowsStage(s)'
    BY <1>2, <2>1 DEF ShowsStage
  <2> QED BY <2>2, StageRow
<1> QED BY <1>3, <1>4

\* The calls of SessionManager leave the row of the session right,
LEMMA CallsRow ==
  ASSUME TypeInv, NEW s \in Sessions, SessionInv(s), RowInv(s), Calls(s)
  PROVE  RowStep(s)
<1>1. ASSUME NEW key \in Keys, SetAuthKey(s, key) PROVE RowStep(s)
  <2>1. UNCHANGED <<started, stopped, ops, stats>>
    BY <1>1 DEF SetAuthKey, control
  <2> QED BY <2>1, SameRow DEF Due, RowsStay
<1>2. ASSUME Start(s) PROVE RowStep(s)
  <2> DEFINE u == UrlOf[s]
             table == EnsureRelay(stats, u)
  <2>1. ASSUME NEW status, NEW error, stats' = SetStatus(table, u, status, error)
        PROVE  u \in DOMAIN stats' /\ stats'[u].status = status
    <3>1. IsTable(table)
      BY UrlOfType, EnsureRelayType DEF TypeInv, TypeOK
    <3> HIDE DEF table
    <3> QED BY <2>1, <3>1, SetStatusShows
  <2>2. CancelTimer(ops[s]) = {}
    BY <1>2, CancelTimerFacts DEF Start, SessionInv
  <2>3. CASE /\ \E error : stats' = SetStatus(table, u, "Error", error)
             /\ ops' = Set(ops, s, CancelTimer(ops[s]))
    <3>1. ops'[s] = {}
      BY <2>2, <2>3 DEF Set, TypeInv, TypeOK
    <3>2. u \in DOMAIN stats' /\ stats'[u].status = "Error"
      BY <2>1, <2>3
    <3>3. ShowsStage(s)'
      BY <3>1, <3>2 DEF ShowsStage
    <3> QED BY <3>3, StageRow
  <2>4. CASE /\ stats' = SetStatus(table, u, "Resolving", "none")
             /\ ops' = Set(ops, s, CancelTimer(ops[s]) \cup {Op("resolve", "inflight")})
    <3>1. ops'[s] = {Op("resolve", "inflight")}
      BY <2>2, <2>4 DEF Set, TypeInv, TypeOK
    <3>2. u \in DOMAIN stats' /\ stats'[u].status = "Resolving"
      BY <2>1, <2>4
    <3>3. StatusOf("resolve") = "Resolving"
      BY DEF StatusOf
    <3> QED BY <3>1, <3>2, <3>3, OneShown, StageRow
  <2> QED BY <1>2, <2>3, <2>4 DEF Start
<1>3. ASSUME Stop(s) PROVE RowStep(s)
  BY <1>3, NotRunningRow DEF Stop, Set, TypeInv, TypeOK
<1> QED BY <1>1, <1>2, <1>3 DEF Calls

\* completions leave it alone,
LEMMA NetworkRow ==
  ASSUME TypeInv, NEW s \in Sessions, SessionInv(s), RowInv(s), Network(s)
  PROVE  RowStep(s)
<1>0. UNCHANGED <<started, stopped, stats>>
  BY DEF Network, Complete, AuthWritten, FetchDone, control
<1>1. RowsStay(UrlOf[s])
  BY <1>0 DEF RowsStay
<1>2. ASSUME NEW o \in ops[s], NEW state \in {"ok", "error"}, Complete(s, o, state)
      PROVE  Due(s)' = Due(s)
  <2> DEFINE p == Op(o.stage, state)
  <2>1. ops'[s] = {p} /\ p.stage = o.stage
    BY <1>2 DEF Complete, Set, SessionInv, AtMostOne, TypeInv, TypeOK, Op
  <2>2. ops[s] = {o}
    BY DEF SessionInv, AtMostOne
  <2> HIDE DEF p
  <2>3. Due(s) = {StatusOf(o.stage)}
    BY <2>2 DEF Due
  <2>4. Due(s)' = {StatusOf(p.stage)}
    BY <2>1 DEF Due
  <2> QED BY <2>1, <2>3, <2>4
<1>3. ASSUME UNCHANGED ops PROVE Due(s)' = Due(s)
  BY <1>3 DEF Due
<1>4. Due(s)' = Due(s)
  BY <1>2, <1>3 DEF Network, AuthWritten, FetchDone
<1> QED BY <1>0, <1>1, <1>4, SameRow

\* Counting an event or a latency, and applying capabilities, keep the status.
LEMMA CountRow ==
  ASSUME TypeInv, NEW u \in Urls,
         \/ UNCHANGED stats
         \/ stats' = IncrementEvent(stats, u)
         \/ \E ms : stats' = RecordLatency(stats, u, ms)
         \/ \E nips : stats' = SetSupportedNips(stats, u, nips)
  PROVE  RowsStay(u)
<1>1. IsTable(stats)
  BY DEF TypeInv, TypeOK
<1>2. CASE UNCHANGED stats
  BY <1>2 DEF RowsStay
<1>3. CASE ~UNCHANGED stats
  <2>1. u \in DOMAIN stats' /\ stats'[u].status = RowOf(stats, u).status
    <3>1. PICK table, after : table = stats /\ after = stats'
      OBVIOUS
    <3>2. IsTable(table)
      BY <1>1, <3>1
    <3>3. \/ after = IncrementEvent(table, u)
          \/ \E ms : after = RecordLatency(table, u, ms)
          \/ \E nips : after = SetSupportedNips(table, u, nips)
      BY <1>3, <3>1
    <3>4. u \in DOMAIN after /\ after[u].status = RowOf(table, u).status
      BY ONLY <3>2, <3>3, CountFacts, SetSupportedNipsFacts
    <3> QED BY <3>1, <3>4
  <2>2. NewStat.status = "Disconnected"
    BY DEF NewStat
  <2> QED BY <2>1, <2>2 DEF RowsStay, RowOf
<1> QED BY <1>2, <1>3

\* the handlers show what they start,
LEMMA HandlersRow ==
  ASSUME TypeInv, NEW s \in Sessions, SessionInv(s), LifeInv(s), RowInv(s), Handlers(s)
  PROVE  RowStep(s)
<1>1. ASSUME NEW where \in Stages, OnError(s, where) PROVE RowStep(s)
  BY <1>1, MarkErrorRow DEF OnError
<1>2. ASSUME OnResolve(s) PROVE RowStep(s)
  <2>1. StatusOf("connect") = "Connecting"
    BY DEF StatusOf
  <2> QED BY <1>2, <2>1, GoOnRow DEF OnResolve, Stages, SocketStages
<1>3. ASSUME OnConnect(s) PROVE RowStep(s)
  <2>1. StatusOf("tls_handshake") = "TlsHandshake"
    BY DEF StatusOf
  <2>2. CASE MarkError(s, Op("connect", "ok"), "set_sni")
    BY <1>3, <2>2, MarkErrorRow DEF OnConnect
  <2>3. CASE /\ ShowStatus(s, "TlsHandshake")
             /\ GoOn(s, Op("connect", "ok"), "tls_handshake")
    BY <1>3, <2>1, <2>3, GoOnRow DEF OnConnect, Stages, SocketStages
  <2> QED BY <1>3, <2>2, <2>3 DEF OnConnect
<1>4. ASSUME OnTlsHandshake(s) PROVE RowStep(s)
  <2>1. StatusOf("ws_handshake") = "WsHandshake"
    BY DEF StatusOf
  <2> QED BY <1>4, <2>1, GoOnRow DEF OnTlsHandshake, Stages, SocketStages
<1>5. ASSUME OnWsHandshake(s) PROVE RowStep(s)
  <2>1. StatusOf("write_req") = "Subscribed"
    BY DEF StatusOf
  <2> QED BY <1>5, <2>1, GoOnRow DEF OnWsHandshake, Stages, SocketStages
\* A handler that goes on to a read keeps the status that is due.
<1>6. ASSUME NEW stage \in {"write_req", "read"}, Op(stage, "ok") \in ops[s],
             GoOn(s, Op(stage, "ok"), "read")
      PROVE  Due(s)' = Due(s)
  <2>1. ops'[s] = {Op("read", "inflight")}
    BY <1>6, GoOnChain DEF SessionInv, TypeInv, Stages, SocketStages
  <2>2. ops[s] = {Op(stage, "ok")}
    BY <1>6 DEF SessionInv, AtMostOne
  <2>3. Due(s)' = {StatusOf("read")}
    BY <2>1 DEF Due, Op
  <2>4. Due(s) = {StatusOf(stage)}
    BY <2>2 DEF Due, Op
  <2>5. StatusOf("read") = "Subscribed" /\ StatusOf(stage) = "Subscribed"
    BY <1>6 DEF StatusOf
  <2> QED BY <2>3, <2>4, <2>5
<1>7. ASSUME OnWriteReq(s) PROVE RowStep(s)
  <2>1. UNCHANGED <<started, stopped, stats>> /\ Due(s)' = Due(s)
    BY <1>6, <1>7 DEF OnWriteReq, control
  <2> QED BY <2>1, SameRow DEF RowsStay
<1>8. ASSUME NEW payload \in Payloads, OnRead(s, payload) PROVE RowStep(s)
  <2>1. Op("read", "ok") \in ops[s] /\ UNCHANGED <<started, stopped>>
    BY <1>8 DEF OnRead, control
  <2>2. CASE stopped[s]
    BY <2>1, <2>2, NotRunningRow
  <2>3. CASE ~stopped[s]
    <3>1. Due(s)' = Due(s)
      BY <1>6, <1>8, <2>1, <2>3 DEF OnRead, ReadOn
    <3>2. RowsStay(UrlOf[s])
      BY <1>8, UrlOfType, CountRow DEF OnRead, HandleMessage, OnAuthChallenge
    <3> QED BY <2>1, <3>1, <3>2, SameRow
  <2> QED BY <2>2, <2>3
<1>9. ASSUME NEW state \in {"ok", "error"}, OnTimer(s, state) PROVE RowStep(s)
  <2>1. UNCHANGED <<started, stopped, stats>>
    BY <1>9 DEF OnTimer
  <2>2. CASE state = "error" \/ stopped[s]
    <3>1. stopped'[s]
      BY <1>9, <2>1, <2>2 DEF OnTimer, LifeInv
    <3> QED BY <3>1, NotRunningRow
  <2>3. CASE ~(state = "error" \/ stopped[s])
    <3>1. Due(s)' = Due(s)
      BY <1>9, <2>3, TimerWaits DEF Due
    <3> QED BY <2>1, <3>1, SameRow DEF RowsStay
  <2> QED BY <2>2, <2>3
<1>10. ASSUME NEW nips \in NipSets, ApplyNips(s, nips) PROVE RowStep(s)
  <2>1. UNCHANGED <<started, stopped, ops>>
    BY <1>10 DEF ApplyNips, control
  <2>2. RowsStay(UrlOf[s])
    BY <1>10, UrlOfType, CountRow DEF ApplyNips
  <2> QED BY <2>1, <2>2, SameRow DEF Due
<1>11. ASSUME Closed(s) PROVE RowStep(s)
  <2>1. stopped'[s]
    BY <1>11 DEF Closed, LifeInv, control
  <2> QED BY <2>1, NotRunningRow
<1> QED BY <1>1, <1>2, <1>3, <1>4, <1>5, <1>7, <1>8, <1>9, <1>10, <1>11 DEF Handlers

\* and the dial after the TLS shutdown shows itself.
LEMMA ResetEndsRow ==
  ASSUME TypeInv, TlsInv, NEW s \in Sessions, SessionInv(s), ResetEnds(s)
  PROVE  RowStep(s)
<1>1. ops'[s] = {Op("resolve", "inflight")} /\ StatusOf("resolve") = "Resolving"
  BY ResetResolves DEF StatusOf
<1>2. UrlOf[s] \in DOMAIN stats' /\ stats'[UrlOf[s]].status = "Resolving"
  BY ShowStatusRow DEF ResetEnds
<1> QED BY <1>1, <1>2, OneShown, StageRow

\* No session runs initially,
LEMMA RowsInit == Init => RowsInv
BY DEF Init, RowsInv, RowInv, Running

\* and no step of any session, nor Reset, makes the row of a running one wrong.
LEMMA RowsNext ==
  TypeInv /\ ChainInv /\ AllLife /\ RowsInv /\ [Next]_vars =>
    RowsInv' /\ [OneSessionPerUrl => \A s \in Sessions : NewStage(s)]_vars
<1> SUFFICES ASSUME TypeInv, ChainInv, AllLife, RowsInv, [Next]_vars, OneSessionPerUrl,
                    NEW t \in Sessions
             PROVE  RowStep(t)
  BY DEF RowsInv, OneSessionPerUrl, RowStep
<1>1. SessionInv(t) /\ TlsInv /\ LifeInv(t) /\ RowInv(t)
  BY DEF ChainInv, AllLife, RowsInv
<1>2. CASE Reset
  <2>1. UNCHANGED <<started, stopped, ops>> /\ stats' = EmptyTable
    BY <1>2 DEF Reset, control
  <2>2. RowBlank(t)'
    BY <2>1 DEF RowBlank, EmptyTable
  <2>3. NewStage(t)
    BY <2>1 DEF NewStage, Running, Due
  <2> QED BY <2>2, <2>3 DEF RowStep, RowInv
<1>3. CASE UNCHANGED vars
  BY <1>1, <1>3, SameRow DEF vars, Due, RowsStay
<1>4. ASSUME NEW s \in Sessions, Step(s) PROVE RowStep(t)
  <2>1. CASE t = s
    BY <1>1, <1>4, <2>1, CallsRow, NetworkRow, HandlersRow, ResetEndsRow DEF Step
  <2>2. CASE t # s
    <3>1. UrlOf[t] # UrlOf[s]
      BY <2>2 DEF OneSessionPerUrl
    <3>2. OtherRowsKept(stats, stats', UrlOf[s])
      BY <1>4, OwnRowOnly
    <3>3. RowsStay(UrlOf[t])
      BY <3>1, <3>2 DEF OtherRowsKept, RowOf, RowsStay
    <3>4. /\ ops'[t] = ops[t] /\ started'[t] = started[t] /\ stopped'[t] = stopped[t]
      BY <1>4, <2>2, OthersUntouched DEF Untouched
    <3>5. Due(t)' = Due(t)
      BY <3>4 DEF Due
    <3> QED BY <1>1, <3>3, <3>4, <3>5, SameRow
  <2> QED BY <2>1, <2>2
<1> QED BY <1>2, <1>3, <1>4, NextCases

\* All that the properties below need always holds.
LEMMA RowsInvariant == Spec => [](TypeInv /\ ChainInv /\ AllLife /\ RowsInv)
<1>1. TypeInv /\ ChainInv /\ AllLife /\ RowsInv /\ [Next]_vars => RowsInv'
  BY RowsNext
<1> QED
  BY TypeInvInit, ChainInvInit, LifeInit, RowsInit, TypeInvNext, ChainInvNext, LifeNext, <1>1, PTL
  DEF Spec

\* The row of a running session shows the operation it waits for, or Error when it
\* waits for none, unless Reset has taken the row and no new stage has come since.
THEOREM RowShowsProgress == Spec => []StatusTracksChain
<1>1. RowsInv => StatusTracksChain
  BY DEF RowsInv, RowInv, StatusTracksChain
<1> QED BY RowsInvariant, <1>1, PTL

\* Every new stage of a running session is shown in the step that starts it, also when
\* Reset has taken the row before.
THEOREM NewStagesAreShown == Spec => NewStageIsShown
<1>1. TypeInv /\ ChainInv /\ AllLife /\ RowsInv /\ [Next]_vars =>
        [OneSessionPerUrl =>
           \A s \in Sessions :
             Running(s)' /\ (~started[s] \/ Due(s)' # Due(s)) => ShowsStage(s)']_vars
  BY RowsNext DEF NewStage
<1> QED BY RowsInvariant, <1>1, PTL DEF Spec, NewStageIsShown

-----------------------------------------------------------------------------
(* Giving up.                                                              *)

\* What GivesUpForAReason says of one session.
GivesUp(s) ==
  Running(s)' /\ ops'[s] = {} /\ (~started[s] \/ ops[s] # {}) =>
    \/ ~started[s] /\ UrlClass[UrlOf[s]] # "secure"
    \/ started[s] /\ attempt[s] = kMaxReconnectAttempts
    \/ ops[s] \in {{Op("ws_handshake", "error")}, {Op("connect", "ok")}}

\* A failed step that no retry follows.
LEMMA MarkErrorGivesUp ==
  ASSUME TypeInv, NEW s \in Sessions, SessionInv(s), NEW done \in ops[s],
         NEW where \in (Stages \ {"timer"}) \cup {"set_sni"}, MarkError(s, done, where),
         where = "ws_handshake" => done = Op("ws_handshake", "error"),
         where = "set_sni" => done = Op("connect", "ok"),
         UNCHANGED stopped
  PROVE  GivesUp(s)
<1>1. ops[s] = {done} /\ started[s]
  BY DEF SessionInv, AtMostOne
<1>2. CASE ShouldReconnectAttempt(stopped[s], attempt[s], where)
  <2>1. ops'[s] = {Op("timer", "inflight")}
    BY <1>2, GoOnChain DEF MarkError, SessionInv, TypeInv, Stages
  <2> QED BY <2>1 DEF GivesUp
<1>3. CASE ~ShouldReconnectAttempt(stopped[s], attempt[s], where)
  <2>1. \/ stopped[s]
        \/ attempt[s] = kMaxReconnectAttempts
        \/ where \in {"ws_handshake", "set_sni"}
    BY <1>3, AttemptsAssumption
    DEF ShouldReconnectAttempt, Stages, SocketStages, TypeInv, TypeOK
  <2> QED BY <1>1, <2>1 DEF GivesUp, Running
<1> QED BY <1>2, <1>3

\* A step that leaves the session with an operation, or as it was without one.
LEMMA KeepsGoing ==
  ASSUME NEW s, ops'[s] # {} \/ (ops[s] = {} /\ started[s])
  PROVE  GivesUp(s)
BY DEF GivesUp

\* Every step of a session that leaves it without an operation has its reason.
LEMMA StepGivesUp ==
  ASSUME TypeInv, ChainInv, AllLife, NEW s \in Sessions, Step(s)
  PROVE  GivesUp(s)
<1>1. SessionInv(s) /\ TlsInv /\ LifeInv(s) /\ TypeOK
  BY DEF ChainInv, AllLife, TypeInv
<1>2. ASSUME stopped'[s] PROVE GivesUp(s)
  BY <1>2 DEF GivesUp, Running
<1>3. ASSUME UNCHANGED <<started, ops>> PROVE GivesUp(s)
  BY <1>3 DEF GivesUp, Running
<1>4. ASSUME NEW done \in ops[s], NEW next \in Stages, GoOn(s, done, next) PROVE GivesUp(s)
  <2>1. ops'[s] = {Op(next, "inflight")}
    BY <1>1, <1>4, GoOnChain DEF SessionInv
  <2> QED BY <2>1, KeepsGoing
<1>5. CASE Calls(s)
  <2>1. ASSUME Start(s) PROVE GivesUp(s)
    <3>1. CASE UrlClass[UrlOf[s]] = "secure"
      <4>1. ops' = Set(ops, s, CancelTimer(ops[s]) \cup {Op("resolve", "inflight")})
        BY <2>1, <3>1 DEF Start
      <4>2. ops'[s] # {}
        BY <1>1, <4>1 DEF Set, TypeOK
      <4> QED BY <4>2, KeepsGoing
    <3>2. CASE UrlClass[UrlOf[s]] # "secure"
      BY <2>1, <3>2 DEF Start, GivesUp
    <3> QED BY <3>1, <3>2
  <2>2. ASSUME Stop(s) PROVE GivesUp(s)
    BY <1>1, <1>2, <2>2 DEF Stop, Set, TypeOK
  <2>3. ASSUME NEW key \in Keys, SetAuthKey(s, key) PROVE GivesUp(s)
    BY <1>3, <2>3 DEF SetAuthKey, control
  <2> QED BY <1>5, <2>1, <2>2, <2>3 DEF Calls
<1>6. CASE Network(s)
  <2>1. ASSUME NEW o \in ops[s], NEW state \in {"ok", "error"}, Complete(s, o, state)
        PROVE  GivesUp(s)
    <3>1. ops'[s] # {}
      BY <1>1, <2>1 DEF Complete, Set, TypeOK
    <3> QED BY <3>1, KeepsGoing
  <2> QED BY <1>3, <1>6, <2>1 DEF Network, AuthWritten, FetchDone, control
<1>7. CASE Handlers(s)
  <2>1. ASSUME NEW where \in Stages, OnError(s, where) PROVE GivesUp(s)
    BY <1>1, <2>1, MarkErrorGivesUp DEF OnError, control, Stages, SocketStages
  <2>2. ASSUME OnConnect(s) PROVE GivesUp(s)
    <3>1. CASE MarkError(s, Op("connect", "ok"), "set_sni")
      BY <1>1, <2>2, <3>1, MarkErrorGivesUp DEF OnConnect, control
    <3>2. CASE GoOn(s, Op("connect", "ok"), "tls_handshake")
      BY <1>4, <2>2, <3>2 DEF OnConnect, Stages, SocketStages
    <3> QED BY <2>2, <3>1, <3>2 DEF OnConnect
  <2>3. CASE OnResolve(s) \/ OnTlsHandshake(s) \/ OnWsHandshake(s) \/ OnWriteReq(s)
    BY <1>4, <2>3 DEF OnResolve, OnTlsHandshake, OnWsHandshake, OnWriteReq, Stages, SocketStages
  <2>4. ASSUME NEW payload \in Payloads, OnRead(s, payload) PROVE GivesUp(s)
    BY <1>2, <1>4, <2>4 DEF OnRead, ReadOn, control, Stages, SocketStages
  <2>5. ASSUME NEW state \in {"ok", "error"}, OnTimer(s, state) PROVE GivesUp(s)
    <3>1. CASE state = "error" \/ stopped[s]
      BY <1>1, <1>2, <2>5, <3>1 DEF OnTimer, LifeInv
    <3>2. CASE ~(state = "error" \/ stopped[s])
      <4>1. ops'[s] = {Op("timer", "ok")}
        BY <1>1, <2>5, <3>2, TimerWaits
      <4> QED BY <4>1, KeepsGoing
    <3> QED BY <3>1, <3>2
  <2>6. ASSUME NEW nips \in NipSets, ApplyNips(s, nips) PROVE GivesUp(s)
    BY <1>3, <2>6 DEF ApplyNips, control
  <2>7. ASSUME Closed(s) PROVE GivesUp(s)
    BY <1>1, <1>2, <2>7 DEF Closed, LifeInv, control
  <2> QED BY <1>7, <2>1, <2>2, <2>3, <2>4, <2>5, <2>6, <2>7 DEF Handlers
<1>8. CASE ResetEnds(s)
  BY <1>1, <1>8, ResetResolves, KeepsGoing
<1> QED BY <1>5, <1>6, <1>7, <1>8 DEF Step

\* A step that leaves a running session without an operation has one of the three reasons.
THEOREM GivingUpIsExcused == Spec => GivesUpForAReason
<1>1. ASSUME TypeInv, ChainInv, AllLife, [Next]_vars, NEW t \in Sessions PROVE GivesUp(t)
  <2>1. CASE Reset \/ UNCHANGED vars
    BY <2>1 DEF Reset, control, vars, GivesUp, Running
  <2>2. ASSUME NEW s \in Sessions, Step(s) PROVE GivesUp(t)
    <3>1. CASE t = s
      BY <1>1, <2>2, <3>1, StepGivesUp
    <3>2. CASE t # s
      BY <1>1, <2>2, <3>2, OthersUntouched DEF Untouched, GivesUp, Running
    <3> QED BY <3>1, <3>2
  <2> QED BY <1>1, <2>1, <2>2, NextCases
<1>2. TypeInv /\ ChainInv /\ AllLife /\ [Next]_vars =>
        [\A s \in Sessions :
           Running(s)' /\ ops'[s] = {} /\ (~started[s] \/ ops[s] # {}) =>
             \/ ~started[s] /\ UrlClass[UrlOf[s]] # "secure"
             \/ started[s] /\ attempt[s] = kMaxReconnectAttempts
             \/ ops[s] \in {{Op("ws_handshake", "error")}, {Op("connect", "ok")}}]_vars
  BY <1>1 DEF GivesUp
<1> QED BY RowsInvariant, <1>2, PTL DEF Spec, GivesUpForAReason

-----------------------------------------------------------------------------
(* Late capabilities.                                                      *)

\* What NoNipsAfterStop says of one session.
KeepsNips(s) ==
  stopped[s] =>
    RowOf(stats', UrlOf[s]).supported_nips \subseteq RowOf(stats, UrlOf[s]).supported_nips

\* A step of a stopped session adds no capabilities.
LEMMA StoppedKeepsNips ==
  ASSUME TypeInv, NEW s \in Sessions, Step(s)
  PROVE  KeepsNips(s)
<1> DEFINE u == UrlOf[s]
<1>1. IsTable(stats)
  BY DEF TypeInv, TypeOK
<1>2. ASSUME UNCHANGED stats PROVE KeepsNips(s)
  BY <1>2 DEF KeepsNips
<1>3. ASSUME NEW status, NEW error, stats' = SetStatus(stats, u, status, error)
      PROVE  KeepsNips(s)
  BY <1>1, <1>3, SetStatusFacts DEF KeepsNips
<1>4. ASSUME NEW status, ShowStatus(s, status) PROVE KeepsNips(s)
  BY <1>3, <1>4 DEF ShowStatus
<1>5. ASSUME NEW done, NEW where, MarkError(s, done, where) PROVE KeepsNips(s)
  BY <1>3, <1>5 DEF MarkError
<1>6. CASE Calls(s)
  <2>1. ASSUME Start(s) PROVE KeepsNips(s)
    <3>1. IsTable(EnsureRelay(stats, u)) /\ RowOf(EnsureRelay(stats, u), u) = RowOf(stats, u)
      BY <1>1, UrlOfType, EnsureRelayType, EnsureRelayFacts
    <3>2. PICK status, error : stats' = SetStatus(EnsureRelay(stats, u), u, status, error)
      BY <2>1 DEF Start
    <3> QED BY <3>1, <3>2, SetStatusFacts DEF KeepsNips
  <2> QED BY <1>2, <1>4, <1>6, <2>1 DEF Calls, SetAuthKey, Stop
<1>7. CASE Network(s)
  BY <1>2, <1>7 DEF Network, Complete, AuthWritten, FetchDone
<1>8. CASE Handlers(s)
  <2>1. ASSUME NEW where \in Stages, OnError(s, where) PROVE KeepsNips(s)
    BY <1>5, <2>1 DEF OnError
  <2>2. CASE OnResolve(s) \/ OnConnect(s) \/ OnTlsHandshake(s) \/ OnWsHandshake(s)
    BY <1>4, <1>5, <2>2 DEF OnResolve, OnConnect, OnTlsHandshake, OnWsHandshake
  <2>3. CASE OnWriteReq(s)
    BY <1>2, <2>3 DEF OnWriteReq
  <2>4. ASSUME NEW payload \in Payloads, OnRead(s, payload) PROVE KeepsNips(s)
    <3>1. \/ UNCHANGED stats
          \/ stats' = IncrementEvent(stats, u)
          \/ \E ms : stats' = RecordLatency(stats, u, ms)
      BY <2>4 DEF OnRead, HandleMessage, OnAuthChallenge
    <3> QED BY <1>1, <1>2, <3>1, CountFacts DEF KeepsNips
  <2>5. ASSUME NEW state \in {"ok", "error"}, OnTimer(s, state) PROVE KeepsNips(s)
    BY <1>2, <2>5 DEF OnTimer
  <2>6. ASSUME NEW nips \in NipSets, ApplyNips(s, nips) PROVE KeepsNips(s)
    BY <2>6 DEF ApplyNips, KeepsNips
  <2>7. CASE Closed(s)
    BY <1>4, <2>7 DEF Closed
  <2> QED BY <1>8, <2>1, <2>2, <2>3, <2>4, <2>5, <2>6, <2>7 DEF Handlers
<1>9. CASE ResetEnds(s)
  BY <1>4, <1>9 DEF ResetEnds
<1> QED BY <1>6, <1>7, <1>8, <1>9 DEF Step

\* Capabilities that arrive for a stopped session are dropped, also when they were
\* fetched before Stop and are applied after it: its row gains none.
THEOREM LateNipsAreDropped == Spec => NoNipsAfterStop
<1>1. ASSUME TypeInv, [Next]_vars, OneSessionPerUrl, NEW t \in Sessions
      PROVE  KeepsNips(t)
  <2>1. CASE Reset
    <3>1. RowOf(stats', UrlOf[t]).supported_nips = {}
      BY <2>1 DEF Reset, EmptyTable, RowOf, NewStat
    <3> QED BY <3>1 DEF KeepsNips
  <2>2. CASE UNCHANGED vars
    BY <2>2 DEF vars, KeepsNips
  <2>3. ASSUME NEW s \in Sessions, Step(s) PROVE KeepsNips(t)
    <3>1. CASE t = s
      BY <1>1, <2>3, <3>1, StoppedKeepsNips
    <3>2. CASE t # s
      <4>1. UrlOf[t] # UrlOf[s]
        BY <1>1, <3>2 DEF OneSessionPerUrl
      <4> QED BY <1>1, <2>3, <4>1, OwnRowOnly DEF OtherRowsKept, KeepsNips
    <3> QED BY <3>1, <3>2
  <2> QED BY <1>1, <2>1, <2>2, <2>3, NextCases
<1>2. TypeInv /\ [Next]_vars =>
        [OneSessionPerUrl =>
           \A s \in Sessions : stopped[s] =>
             RowOf(stats', UrlOf[s]).supported_nips
               \subseteq RowOf(stats, UrlOf[s]).supported_nips]_vars
  BY <1>1 DEF KeepsNips
<1> QED BY RowsInvariant, <1>2, PTL DEF Spec, NoNipsAfterStop

=============================================================================
