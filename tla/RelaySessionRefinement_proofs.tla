--------------------- MODULE RelaySessionRefinement_proofs ---------------------
(***************************************************************************)
(* RelaySession implements SessionContract, for any number of sessions and *)
(* relays, whether sessions share a relay or not.  Every step of a session *)
(* maps to a step of the contract or to a stutter: the invariants of       *)
(* RelaySession_proofs say which.                                          *)
(***************************************************************************)
EXTENDS RelaySessionRefinement, RelaySession_proofs

-----------------------------------------------------------------------------
(* The phase of a session is a function of the stages it waits in.          *)

StagesOf(operations) == {o.stage : o \in operations}

PhaseFor(begun, stages) ==
  IF ~begun THEN "new"
  ELSE IF stages \cap DialStages # {} THEN "dialing"
  ELSE IF stages \cap {"write_req", "read"} # {} THEN "live"
  ELSE IF "timer" \in stages THEN "backoff"
  ELSE "down"

\* PhaseOf looks at the stages only, before and after a step.
LEMMA PhaseFromStages ==
  ASSUME NEW s \in Sessions
  PROVE  /\ PhaseOf(s) = PhaseFor(started[s], StagesOf(ops[s]))
         /\ PhaseOf(s)' = PhaseFor(started'[s], StagesOf(ops'[s]))
<1>1. \A X, S : (\E o \in X : o.stage \in S) <=> StagesOf(X) \cap S # {}
  BY DEF StagesOf
<1>2. \A X : (\E o \in X : o.stage \in {"timer"}) <=> "timer" \in StagesOf(X)
  BY DEF StagesOf
<1>3. \A S : Waits(s, S) <=> StagesOf(ops[s]) \cap S # {}
  BY <1>1 DEF Waits
<1>4. Waits(s, {"timer"}) <=> "timer" \in StagesOf(ops[s])
  BY <1>2 DEF Waits
<1>5. PhaseOf(s) = PhaseFor(started[s], StagesOf(ops[s]))
  BY <1>3, <1>4 DEF PhaseOf, PhaseFor
<1>6. \A S : Waits(s, S)' <=> StagesOf(ops'[s]) \cap S # {}
  BY <1>1 DEF Waits
<1>7. Waits(s, {"timer"})' <=> "timer" \in StagesOf(ops'[s])
  BY <1>2 DEF Waits
<1>8. PhaseOf(s)' = PhaseFor(started'[s], StagesOf(ops'[s]))
  BY <1>6, <1>7 DEF PhaseOf, PhaseFor
<1> QED BY <1>5, <1>8

\* The phases of a session with one operation, with none, and not started.
LEMMA PhaseForFacts ==
  /\ \A stages : PhaseFor(FALSE, stages) = "new"
  /\ PhaseFor(TRUE, {}) = "down"
  /\ \A stage \in DialStages : PhaseFor(TRUE, {stage}) = "dialing"
  /\ \A stage \in {"write_req", "read"} : PhaseFor(TRUE, {stage}) = "live"
  /\ PhaseFor(TRUE, {"timer"}) = "backoff"
  /\ \A stages : PhaseFor(TRUE, stages) # "new"
BY DEF PhaseFor, DialStages

\* A set with one operation has one stage.
LEMMA OneStage ==
  /\ StagesOf({}) = {}
  /\ \A o : StagesOf({o}) = {o.stage}
  /\ \A stage, state : StagesOf({Op(stage, state)}) = {stage}
BY DEF StagesOf, Op

\* Closing and cancelling change no stage.
LEMMA StagesKept ==
  ASSUME NEW operations
  PROVE  /\ StagesOf(Aborted(operations)) = StagesOf(operations)
         /\ \A stage : StagesOf(Cancel(operations, stage)) = StagesOf(operations)
         /\ StagesOf(CancelTimer(operations)) = StagesOf(operations)
         /\ \A left \in CancelResolve(operations) : StagesOf(left) = StagesOf(operations)
<1>1. StagesOf(Aborted(operations)) = StagesOf(operations)
  <2> DEFINE cut(o) == IF o.state = "inflight" /\ o.stage \in SocketStages
                       THEN Op(o.stage, "error") ELSE o
  <2>1. \A o : cut(o).stage = o.stage
    BY DEF Op
  <2>2. Aborted(operations) = {cut(o) : o \in operations}
    BY DEF Aborted
  <2> HIDE DEF cut
  <2> QED BY <2>1, <2>2 DEF StagesOf
<1>2. ASSUME NEW stage PROVE StagesOf(Cancel(operations, stage)) = StagesOf(operations)
  <2> DEFINE cut(o) == IF o = Op(stage, "inflight") THEN Op(stage, "error") ELSE o
  <2>1. \A o : cut(o).stage = o.stage
    BY DEF Op
  <2>2. Cancel(operations, stage) = {cut(o) : o \in operations}
    BY DEF Cancel
  <2> HIDE DEF cut
  <2> QED BY <2>1, <2>2 DEF StagesOf
<1> QED BY <1>1, <1>2 DEF CancelTimer, CancelResolve

-----------------------------------------------------------------------------
(* What the user is shown of a row.                                         *)

\* The statuses as the contract names them.
LEMMA CoarseFacts ==
  /\ Coarse("Disconnected") = "disconnected"
  /\ Coarse("Subscribed") = "subscribed"
  /\ Coarse("Error") = "error"
  /\ \A status \in {"Resolving", "Connecting", "TlsHandshake", "WsHandshake"} :
       Coarse(status) = "dialing"
  /\ \A status : Coarse(status) # "absent"
BY DEF Coarse

\* A row with a status is shown as that status.
LEMMA ShownRow ==
  ASSUME NEW u, NEW status, u \in DOMAIN stats', stats'[u].status = status
  PROVE  ShownOf(u)' = Coarse(status)
BY DEF ShownOf

\* A row that keeps its status, or is new, is shown as the contract's Touch shows it.
LEMMA TouchedRow ==
  ASSUME NEW u, u \in DOMAIN stats', stats'[u].status = RowOf(stats, u).status
  PROVE  ShownOf(u)' = IF ShownOf(u) = "absent" THEN "disconnected" ELSE ShownOf(u)
<1>1. CASE u \in DOMAIN stats
  BY <1>1, CoarseFacts DEF ShownOf, RowOf
<1>2. CASE u \notin DOMAIN stats
  <2>1. stats'[u].status = "Disconnected" /\ ShownOf(u) = "absent"
    BY <1>2 DEF ShownOf, RowOf, NewStat
  <2> QED BY <2>1, ShownRow, CoarseFacts
<1> QED BY <1>1, <1>2

-----------------------------------------------------------------------------
(* From a step of one session to the contract's functions of all sessions.  *)

\* Nothing the contract sees of other sessions and other relays changes.
OthersKept(s) ==
  /\ \A t \in Sessions : t # s => PhaseOf(t)' = PhaseOf(t) /\ attempt'[t] = attempt[t]
  /\ \A u \in Urls : u # UrlOf[s] => ShownOf(u)' = ShownOf(u)

\* No step of a session changes it.
LEMMA StepKeepsOthers ==
  ASSUME TypeInv, NEW s \in Sessions, Step(s)
  PROVE  OthersKept(s)
<1>1. ASSUME NEW t \in Sessions, t # s
      PROVE  PhaseOf(t)' = PhaseOf(t) /\ attempt'[t] = attempt[t]
  BY <1>1, OthersUntouched DEF Untouched, PhaseOf, Waits
<1>2. ASSUME NEW u \in Urls, u # UrlOf[s] PROVE ShownOf(u)' = ShownOf(u)
  BY <1>2, OwnRowOnly DEF OtherRowsKept, ShownOf, RowOf
<1> QED BY <1>1, <1>2 DEF OthersKept

\* The phase of one session changes, or of none.
LEMMA PhaseMoves ==
  ASSUME NEW s \in Sessions, OthersKept(s)
  PROVE  /\ \A p : PhaseOf(s)' = p => Contract!Enter(s, p)
         /\ PhaseOf(s)' = PhaseOf(s) =>
              [t \in Sessions |-> PhaseOf(t)]' = [t \in Sessions |-> PhaseOf(t)]
BY DEF OthersKept, Contract!Enter

\* The row of one relay changes, or none.
LEMMA ShownMoves ==
  ASSUME NEW s \in Sessions, OthersKept(s)
  PROVE  /\ \A v : ShownOf(UrlOf[s])' = v => Contract!Show(s, v)
         /\ ShownOf(UrlOf[s])' = ShownOf(UrlOf[s]) =>
              [u \in Urls |-> ShownOf(u)]' = [u \in Urls |-> ShownOf(u)]
BY UrlOfType DEF OthersKept, Contract!Show

\* The budget of one session changes, or of none.
LEMMA BudgetMoves ==
  ASSUME NEW s \in Sessions, OthersKept(s)
  PROVE  /\ \A n : kMaxReconnectAttempts - attempt'[s] = n =>
              [t \in Sessions |-> kMaxReconnectAttempts - attempt[t]]' =
                [[t \in Sessions |-> kMaxReconnectAttempts - attempt[t]] EXCEPT ![s] = n]
         /\ attempt'[s] = attempt[s] =>
              [t \in Sessions |-> kMaxReconnectAttempts - attempt[t]]' =
                [t \in Sessions |-> kMaxReconnectAttempts - attempt[t]]
BY DEF OthersKept

\* A step that keeps what the contract sees of its session is a stutter.
LEMMA Stutters ==
  ASSUME NEW s \in Sessions, OthersKept(s), PhaseOf(s)' = PhaseOf(s),
         ShownOf(UrlOf[s])' = ShownOf(UrlOf[s]), attempt'[s] = attempt[s],
         UNCHANGED <<stopped, closing>>
  PROVE  UNCHANGED Contract!vars
BY PhaseMoves, ShownMoves, BudgetMoves DEF Contract!vars

\* Counting something on a relay touches its row.
LEMMA TouchShows ==
  ASSUME NEW s \in Sessions, OthersKept(s), UrlOf[s] \in DOMAIN stats',
         stats'[UrlOf[s]].status = RowOf(stats, UrlOf[s]).status
  PROVE  Contract!Touch(s)
<1> DEFINE u == UrlOf[s]
<1>1. ShownOf(u)' = IF ShownOf(u) = "absent" THEN "disconnected" ELSE ShownOf(u)
  BY TouchedRow
<1>2. Contract!Show(s, IF ShownOf(u) = "absent" THEN "disconnected" ELSE ShownOf(u))
  BY <1>1, ShownMoves
<1>3. [v \in Urls |-> ShownOf(v)][u] = ShownOf(u)
  BY UrlOfType
<1> QED BY <1>2, <1>3 DEF Contract!Touch

\* What a handler of the chain starts from: the stage of the operation it has handled.
LEMMA HandledPhase ==
  ASSUME TypeInv, NEW s \in Sessions, SessionInv(s), NEW stage, NEW state,
         Op(stage, state) \in ops[s]
  PROVE  started[s] = TRUE /\ PhaseOf(s) = PhaseFor(TRUE, {stage})
<1>1. started[s] = TRUE
  BY DEF SessionInv, TypeInv, TypeOK
<1>2. ops[s] = {Op(stage, state)}
  BY DEF SessionInv, AtMostOne
<1>3. StagesOf(ops[s]) = {stage}
  BY <1>2, OneStage
<1> QED BY <1>1, <1>3, PhaseFromStages

\* A handler that starts the next operation.
LEMMA GoOnPhase ==
  ASSUME TypeInv, NEW s \in Sessions, SessionInv(s), NEW done \in ops[s], NEW next \in Stages,
         GoOn(s, done, next), UNCHANGED <<started, stopped>>
  PROVE  PhaseOf(s)' = PhaseFor(TRUE, {next})
<1>1. started'[s] = TRUE
  BY DEF control, SessionInv, TypeInv, TypeOK
<1>2. ops'[s] = {Op(next, "inflight")}
  BY GoOnChain DEF SessionInv, TypeInv
<1>3. StagesOf(ops'[s]) = {next}
  BY <1>2, OneStage
<1> QED BY <1>1, <1>3, PhaseFromStages

\* A handler that starts nothing.
LEMMA FinishPhase ==
  ASSUME TypeInv, NEW s \in Sessions, SessionInv(s), NEW done \in ops[s],
         Finish(s, done), UNCHANGED <<started, stopped>>
  PROVE  PhaseOf(s)' = "down"
<1>1. started'[s] = TRUE
  BY DEF control, SessionInv, TypeInv, TypeOK
<1>2. ops'[s] = {}
  BY FinishChain DEF SessionInv, TypeInv
<1>3. StagesOf(ops'[s]) = {}
  BY <1>2, OneStage
<1> QED BY <1>1, <1>3, PhaseFromStages, PhaseForFacts

\* A session whose only operation is a new lookup is dialling.
LEMMA LookupDials ==
  ASSUME NEW s \in Sessions, started'[s] = TRUE, ops'[s] = {Op("resolve", "inflight")}
  PROVE  PhaseOf(s)' = "dialing"
<1>1. StagesOf(ops'[s]) = {"resolve"}
  BY OneStage
<1>2. "resolve" \in DialStages
  BY DEF DialStages
<1>3. PhaseOf(s)' = PhaseFor(TRUE, {"resolve"})
  BY <1>1, PhaseFromStages
<1> QED BY <1>2, <1>3, PhaseForFacts

\* A step that keeps the stages keeps the phase.
LEMMA SamePhase ==
  ASSUME NEW s \in Sessions, started'[s] = started[s], StagesOf(ops'[s]) = StagesOf(ops[s])
  PROVE  PhaseOf(s)' = PhaseOf(s)
BY PhaseFromStages

\* What SetStatus shows.
LEMMA ShowStatusShown ==
  ASSUME TypeInv, NEW s \in Sessions, NEW status, ShowStatus(s, status)
  PROVE  ShownOf(UrlOf[s])' = Coarse(status)
BY ShowStatusRow, ShownRow

\* The new session is dialling, or is down at once because its URL cannot be monitored.
LEMMA StartLaunches ==
  ASSUME TypeInv, NEW s \in Sessions, SessionInv(s), Start(s), OthersKept(s)
  PROVE  Contract!Launch(s)
<1> DEFINE u == UrlOf[s]
           table == EnsureRelay(stats, u)
<1>1. started[s] = FALSE /\ started'[s] = TRUE /\ ops[s] = {}
  BY DEF Start, SessionInv, Set, TypeInv, TypeOK
<1>2. PhaseOf(s) = "new"
  BY <1>1, PhaseFromStages, PhaseForFacts
<1>3. stopped' = [stopped EXCEPT ![s] = FALSE] /\ UNCHANGED <<attempt, closing>>
  BY DEF Start, Set
<1>4. UNCHANGED [t \in Sessions |-> kMaxReconnectAttempts - attempt[t]]
  BY <1>3
<1>5. ASSUME NEW status, NEW error, stats' = SetStatus(table, u, status, error)
      PROVE  ShownOf(u)' = Coarse(status)
  <2>1. IsTable(table)
    BY UrlOfType, EnsureRelayType DEF TypeInv, TypeOK
  <2> HIDE DEF table
  <2>2. u \in DOMAIN stats' /\ stats'[u].status = status
    BY <1>5, <2>1, SetStatusShows
  <2> QED BY <2>2, ShownRow
<1>6. CancelTimer(ops[s]) = {}
  BY <1>1, CancelTimerFacts
<1>7. CASE /\ \E error : stats' = SetStatus(table, u, "Error", error)
           /\ ops' = Set(ops, s, CancelTimer(ops[s]))
  <2>1. ops'[s] = {}
    BY <1>6, <1>7 DEF Set, TypeInv, TypeOK
  <2>2. PhaseOf(s)' = "down"
    <3>1. PhaseOf(s)' = PhaseFor(started'[s], StagesOf(ops'[s]))
      BY PhaseFromStages
    <3>2. PhaseOf(s)' = PhaseFor(TRUE, {})
      BY <1>1, <2>1, <3>1, OneStage
    <3> QED BY ONLY <3>2, PhaseForFacts
  <2>3. ShownOf(u)' = "error"
    BY <1>5, <1>7, CoarseFacts
  <2>4. Contract!Enter(s, "down") /\ Contract!Show(s, "error")
    BY <2>2, <2>3, PhaseMoves, ShownMoves
  <2> QED BY <1>2, <1>3, <1>4, <2>4 DEF Contract!Launch
<1>8. CASE /\ stats' = SetStatus(table, u, "Resolving", "none")
           /\ ops' = Set(ops, s, CancelTimer(ops[s]) \cup {Op("resolve", "inflight")})
  <2>1. ops'[s] = {Op("resolve", "inflight")}
    BY <1>6, <1>8 DEF Set, TypeInv, TypeOK
  <2>2. PhaseOf(s)' = "dialing"
    BY <1>1, <2>1, LookupDials
  <2>3. ShownOf(u)' = "dialing"
    BY <1>5, <1>8, CoarseFacts
  <2>4. Contract!Enter(s, "dialing") /\ Contract!Show(s, "dialing")
    BY <2>2, <2>3, PhaseMoves, ShownMoves
  <2> QED BY <1>2, <1>3, <1>4, <2>4 DEF Contract!Launch
<1> QED BY <1>7, <1>8 DEF Start

\* Stop changes no phase; it closes by handshake what is not being dialled, and on the
\* spot what is not live.
LEMMA StopHalts ==
  ASSUME TypeInv, NEW s \in Sessions, SessionInv(s), LifeInv(s), Stop(s), OthersKept(s)
  PROVE  Contract!Halt(s)
<1>1. stopped' = [stopped EXCEPT ![s] = TRUE] /\ UNCHANGED <<started, attempt>>
  BY DEF Stop, Set
<1>4. PICK left \in CancelResolve(CancelTimer(ops[s])) :
        \/ /\ ws_connected[s]
           /\ ops' = Set(ops, s, left)
           /\ closing' = Set(closing, s, TRUE)
           /\ UNCHANGED stats
        \/ /\ ~ws_connected[s]
           /\ ops' = Set(ops, s, Aborted(left))
           /\ ShowStatus(s, "Disconnected")
           /\ UNCHANGED closing
  BY DEF Stop
<1>5. ops'[s] = left \/ ops'[s] = Aborted(left)
  BY <1>4 DEF Set, TypeInv, TypeOK
<1>6. StagesOf(ops'[s]) = StagesOf(ops[s])
  BY <1>5, StagesKept
<1>7. UNCHANGED [t \in Sessions |-> PhaseOf(t)]
  BY <1>1, <1>6, SamePhase, PhaseMoves
<1>8. UNCHANGED [t \in Sessions |-> kMaxReconnectAttempts - attempt[t]]
  BY <1>1
<1>9. CASE ws_connected[s]
  <2>1. PhaseOf(s) \notin {"new", "dialing"}
    BY <1>9 DEF SessionInv, OpInv, PhaseOf, Waits
  <2>2. closing' = [closing EXCEPT ![s] = TRUE] /\ stats' = stats
    BY <1>4, <1>9 DEF Set
  <2>3. UNCHANGED [u \in Urls |-> ShownOf(u)]
    BY <2>2 DEF ShownOf
  <2> QED BY <1>1, <1>7, <1>8, <2>1, <2>2, <2>3 DEF Contract!Halt
<1>10. CASE ~ws_connected[s]
  <2>1. PhaseOf(s) # "live" \/ stopped[s]
    BY <1>10 DEF LifeInv, PhaseOf, Waits
  <2>2. ShownOf(UrlOf[s])' = "disconnected" /\ UNCHANGED closing
    BY <1>4, <1>10, ShowStatusShown, CoarseFacts
  <2>3. Contract!Show(s, "disconnected")
    BY <2>2, ShownMoves
  <2> QED BY <1>1, <1>7, <1>8, <2>1, <2>2, <2>3 DEF Contract!Halt
<1> QED BY <1>9, <1>10

\* The end of the closing handshake shows Disconnected, and changes no phase.
LEMMA ClosedEnds ==
  ASSUME TypeInv, NEW s \in Sessions, SessionInv(s), Closed(s), OthersKept(s)
  PROVE  Contract!CloseEnds(s)
<1>1. /\ closing[s] /\ closing' = [closing EXCEPT ![s] = FALSE]
      /\ UNCHANGED <<started, stopped, attempt>> /\ ShowStatus(s, "Disconnected")
  BY DEF Closed, Set, control
<1>2. ops'[s] = Aborted(ops[s])
  BY DEF Closed, Set, TypeInv, TypeOK
<1>3. UNCHANGED [t \in Sessions |-> PhaseOf(t)]
  BY <1>1, <1>2, StagesKept, SamePhase, PhaseMoves
<1>4. UNCHANGED [t \in Sessions |-> kMaxReconnectAttempts - attempt[t]]
  BY <1>1
<1>5. Contract!Show(s, "disconnected")
  BY <1>1, ShowStatusShown, CoarseFacts, ShownMoves
<1> QED BY <1>1, <1>3, <1>4, <1>5 DEF Contract!CloseEnds

\* A failed step fails in the contract too: it costs an attempt or ends the session.
LEMMA MarkErrorFails ==
  ASSUME TypeInv, NEW s \in Sessions, SessionInv(s), NEW stage \in Stages \ {"timer"}, NEW state,
         Op(stage, state) \in ops[s], NEW where, MarkError(s, Op(stage, state), where),
         UNCHANGED <<started, stopped, closing>>, OthersKept(s)
  PROVE  Contract!Fail(s)
<1>1. PhaseOf(s) \in {"dialing", "live"}
  BY HandledPhase, PhaseForFacts DEF Stages, SocketStages, DialStages
<1>2. Contract!Show(s, "error")
  <2>1. IsTable(stats) /\ stats' = SetStatus(stats, UrlOf[s], "Error", where)
    BY DEF MarkError, TypeInv, TypeOK
  <2>2. ShownOf(UrlOf[s])' = "error"
    BY <2>1, SetStatusFacts, ShownRow, CoarseFacts
  <2> QED BY <2>2, ShownMoves
<1>3. UNCHANGED <<stopped, closing>>
  BY DEF control
<1>4. CASE ShouldReconnectAttempt(stopped[s], attempt[s], where)
  <2>1. ~stopped[s] /\ attempt[s] \in 0..kMaxReconnectAttempts /\ attempt[s] < kMaxReconnectAttempts
    BY <1>4 DEF ShouldReconnectAttempt, TypeInv, TypeOK
  <2>2. attempt'[s] = attempt[s] + 1 /\ GoOn(s, Op(stage, state), "timer")
    BY <1>4 DEF MarkError, Set, TypeInv, TypeOK
  <2>3. Contract!Enter(s, "backoff")
    BY <2>2, GoOnPhase, PhaseForFacts, PhaseMoves DEF Stages
  <2>4. /\ kMaxReconnectAttempts - attempt[s] > 0
        /\ kMaxReconnectAttempts - attempt'[s] = (kMaxReconnectAttempts - attempt[s]) - 1
    BY <2>1, <2>2, AttemptsAssumption
  <2>5. [t \in Sessions |-> kMaxReconnectAttempts - attempt[t]]' =
          [[t \in Sessions |-> kMaxReconnectAttempts - attempt[t]] EXCEPT
             ![s] = (kMaxReconnectAttempts - attempt[s]) - 1]
    BY <2>4, BudgetMoves
  <2> QED BY <1>1, <1>2, <1>3, <2>1, <2>3, <2>4, <2>5 DEF Contract!Fail
<1>5. CASE ~ShouldReconnectAttempt(stopped[s], attempt[s], where)
  <2>1. attempt' = attempt /\ Finish(s, Op(stage, state))
    BY <1>5 DEF MarkError
  <2>2. Contract!Enter(s, "down")
    BY <2>1, FinishPhase, PhaseMoves
  <2>3. UNCHANGED [t \in Sessions |-> kMaxReconnectAttempts - attempt[t]]
    BY <2>1
  <2> QED BY <1>1, <1>2, <1>3, <2>2, <2>3 DEF Contract!Fail
<1> QED BY <1>4, <1>5

\* A dial that gets to its next stage.
LEMMA DialAdvances ==
  ASSUME TypeInv, NEW s \in Sessions, SessionInv(s), NEW stage \in DialStages,
         NEW next \in DialStages, Op(stage, "ok") \in ops[s], GoOn(s, Op(stage, "ok"), next),
         NEW status \in {"Resolving", "Connecting", "TlsHandshake", "WsHandshake"},
         ShowStatus(s, status), UNCHANGED <<started, stopped, closing, attempt>>, OthersKept(s)
  PROVE  Contract!Advance(s)
<1>1. PhaseOf(s) = "dialing"
  BY HandledPhase, PhaseForFacts
<1>2. next \in Stages
  BY DEF DialStages, Stages, SocketStages
<1>3. PhaseOf(s)' = "dialing"
  BY <1>2, GoOnPhase, PhaseForFacts
<1>4. UNCHANGED [t \in Sessions |-> PhaseOf(t)]
  BY <1>1, <1>3, PhaseMoves
<1>5. Contract!Show(s, "dialing")
  BY ShowStatusShown, CoarseFacts, ShownMoves
<1>6. UNCHANGED [t \in Sessions |-> kMaxReconnectAttempts - attempt[t]]
  OBVIOUS
<1> QED BY <1>1, <1>4, <1>5, <1>6 DEF Contract!Advance, control

\* The end of the WebSocket handshake subscribes and restores the budget.
LEMMA HandshakeSubscribes ==
  ASSUME TypeInv, NEW s \in Sessions, SessionInv(s), OnWsHandshake(s), OthersKept(s)
  PROVE  Contract!Subscribe(s)
<1>1. /\ Op("ws_handshake", "ok") \in ops[s] /\ GoOn(s, Op("ws_handshake", "ok"), "write_req")
      /\ ShowStatus(s, "Subscribed") /\ UNCHANGED <<started, stopped>> /\ UNCHANGED <<stopped, closing>>
  BY DEF OnWsHandshake, control
<1>2. PhaseOf(s) = "dialing"
  BY <1>1, HandledPhase, PhaseForFacts DEF DialStages
<1>3. Contract!Enter(s, "live")
  BY <1>1, GoOnPhase, PhaseForFacts, PhaseMoves DEF Stages, SocketStages
<1>4. Contract!Show(s, "subscribed")
  BY <1>1, ShowStatusShown, CoarseFacts, ShownMoves
<1>5. attempt'[s] = 0
  BY DEF OnWsHandshake, Set, TypeInv, TypeOK
<1>6. kMaxReconnectAttempts - attempt'[s] = kMaxReconnectAttempts
  BY <1>5, AttemptsAssumption
<1>7. [t \in Sessions |-> kMaxReconnectAttempts - attempt[t]]' =
        [[t \in Sessions |-> kMaxReconnectAttempts - attempt[t]] EXCEPT
           ![s] = kMaxReconnectAttempts]
  BY <1>6, BudgetMoves
<1> QED BY <1>1, <1>2, <1>3, <1>4, <1>7 DEF Contract!Subscribe

\* A frame may count something; the frame a stopped session reads is its last.
LEMMA ReadFrames ==
  ASSUME TypeInv, NEW s \in Sessions, SessionInv(s), NEW payload \in Payloads,
         OnRead(s, payload), OthersKept(s)
  PROVE  Contract!Frame(s)
<1>1. Op("read", "ok") \in ops[s] /\ ReadOn(s) /\ UNCHANGED <<started, stopped>> /\ UNCHANGED <<stopped, closing>>
  BY DEF OnRead, control
<1>2. PhaseOf(s) = "live"
  BY <1>1, HandledPhase, PhaseForFacts
<1>3. IF stopped[s] THEN Contract!Enter(s, "down")
                    ELSE UNCHANGED [t \in Sessions |-> PhaseOf(t)]
  <2>1. CASE stopped[s]
    <3>1. Contract!Enter(s, "down")
      BY <1>1, <2>1, FinishPhase, PhaseMoves DEF ReadOn
    <3> QED BY <2>1, <3>1
  <2>2. CASE ~stopped[s]
    <3>1. PhaseOf(s)' = "live"
      BY <1>1, <2>2, GoOnPhase, PhaseForFacts DEF ReadOn, Stages, SocketStages
    <3>2. UNCHANGED [t \in Sessions |-> PhaseOf(t)]
      BY <1>2, <3>1, PhaseMoves
    <3> QED BY <2>2, <3>2
  <2> QED BY <2>1, <2>2
<1>4. Contract!Touch(s) \/ UNCHANGED [u \in Urls |-> ShownOf(u)]
  <2>1. \/ UNCHANGED stats
        \/ stats' = IncrementEvent(stats, UrlOf[s])
        \/ \E ms : stats' = RecordLatency(stats, UrlOf[s], ms)
    BY DEF OnRead, HandleMessage, OnAuthChallenge
  <2>2. CASE UNCHANGED stats
    BY <2>2 DEF ShownOf
  <2>3. CASE ~UNCHANGED stats
    BY <2>1, <2>3, TouchShows, CountFacts DEF TypeInv, TypeOK
  <2> QED BY <2>2, <2>3
<1>5. UNCHANGED [t \in Sessions |-> kMaxReconnectAttempts - attempt[t]]
  BY DEF OnRead
<1> QED BY <1>1, <1>2, <1>3, <1>4, <1>5 DEF Contract!Frame

\* A timer that expires ends a stopped session; the contract does not see a running one
\* go into the TLS shutdown,
LEMMA TimerEnds ==
  ASSUME TypeInv, NEW s \in Sessions, SessionInv(s), LifeInv(s), NEW state \in {"ok", "error"},
         OnTimer(s, state), OthersKept(s)
  PROVE  Contract!Redial(s) \/ UNCHANGED Contract!vars
<1>1. Op("timer", state) \in ops[s] /\ UNCHANGED <<started, stopped, closing, attempt, stats>>
  BY DEF OnTimer
<1>2. PhaseOf(s) = "backoff"
  BY <1>1, HandledPhase, PhaseForFacts
<1>3. CASE state = "error" \/ stopped[s]
  <2>1. stopped[s]
    BY <1>1, <1>3 DEF LifeInv
  <2>2. Finish(s, Op("timer", state))
    BY <1>3 DEF OnTimer
  <2>3. Contract!Enter(s, "down")
    BY <1>1, <2>2, FinishPhase, PhaseMoves
  <2>4. UNCHANGED [u \in Urls |-> ShownOf(u)]
    BY <1>1 DEF ShownOf
  <2>5. UNCHANGED [t \in Sessions |-> kMaxReconnectAttempts - attempt[t]]
    BY <1>1
  <2> QED BY <1>1, <1>2, <2>1, <2>3, <2>4, <2>5 DEF Contract!Redial
<1>4. CASE ~(state = "error" \/ stopped[s])
  <2>1. ops'[s] = ops[s]
    BY <1>4, TimerWaits
  <2>2. PhaseOf(s)' = PhaseOf(s) /\ ShownOf(UrlOf[s])' = ShownOf(UrlOf[s])
    BY <1>1, <2>1, SamePhase DEF ShownOf
  <2> QED BY <1>1, <2>2, Stutters
<1> QED BY <1>3, <1>4

\* and starts a new dial when the TLS shutdown returns.
LEMMA ResetRedials ==
  ASSUME TypeInv, TlsInv, NEW s \in Sessions, SessionInv(s), ResetEnds(s), OthersKept(s)
  PROVE  Contract!Redial(s)
<1>1. /\ ops'[s] = {Op("resolve", "inflight")} /\ ~stopped[s]
      /\ started[s] /\ Op("timer", "ok") \in ops[s]
  BY ResetResolves
<1>2. UNCHANGED <<started, stopped, closing, attempt>> /\ ShowStatus(s, "Resolving")
  BY DEF ResetEnds
<1>3. PhaseOf(s) = "backoff" /\ started[s] = TRUE
  BY <1>1, HandledPhase, PhaseForFacts
<1>4. PhaseOf(s)' = "dialing"
  BY <1>1, <1>2, <1>3, LookupDials
<1>5. ShownOf(UrlOf[s])' = "dialing"
  BY <1>2, ShowStatusShown, CoarseFacts
<1>6. Contract!Enter(s, "dialing") /\ Contract!Show(s, "dialing")
  BY <1>4, <1>5, PhaseMoves, ShownMoves
<1>7. UNCHANGED [t \in Sessions |-> kMaxReconnectAttempts - attempt[t]]
  BY <1>2
<1> QED BY <1>1, <1>2, <1>3, <1>6, <1>7 DEF Contract!Redial

\* Fetched capabilities are applied to a session that was not stopped; what is dropped
\* is a stutter.
LEMMA NipsApply ==
  ASSUME TypeInv, NEW s \in Sessions, LifeInv(s), NEW nips \in NipSets,
         ApplyNips(s, nips), OthersKept(s)
  PROVE  Contract!Capabilities(s) \/ UNCHANGED Contract!vars
<1>1. UNCHANGED <<started, stopped, closing, attempt, ops>>
  BY DEF ApplyNips, control
<1>2. started[s] = TRUE
  BY DEF ApplyNips, LifeInv, TypeInv, TypeOK
<1>3. PhaseOf(s)' = PhaseOf(s) /\ PhaseOf(s) # "new"
  BY <1>1, <1>2, PhaseFromStages, PhaseForFacts
<1>4. CASE stopped[s]
  <2>1. ShownOf(UrlOf[s])' = ShownOf(UrlOf[s])
    BY <1>4 DEF ApplyNips, ShownOf
  <2> QED BY <1>1, <1>3, <2>1, Stutters
<1>5. CASE ~stopped[s]
  <2>1. stats' = SetSupportedNips(stats, UrlOf[s], nips)
    BY <1>5 DEF ApplyNips
  <2>2. Contract!Touch(s)
    BY <2>1, TouchShows, SetSupportedNipsFacts DEF TypeInv, TypeOK
  <2>3. UNCHANGED [t \in Sessions |-> PhaseOf(t)]
    BY <1>3, PhaseMoves
  <2>4. UNCHANGED [t \in Sessions |-> kMaxReconnectAttempts - attempt[t]]
    BY <1>1
  <2> QED BY <1>1, <1>3, <1>5, <2>2, <2>3, <2>4 DEF Contract!Capabilities
<1> QED BY <1>4, <1>5

-----------------------------------------------------------------------------

\* Every step of RelaySession is a step of the contract, or one the contract does not see.
LEMMA StepRefines ==
  ASSUME TypeInv, TlsInv, NEW s \in Sessions, SessionInv(s), LifeInv(s), Step(s)
  PROVE  Contract!Next \/ UNCHANGED Contract!vars
<1> DEFINE Goal == Contract!Next \/ UNCHANGED Contract!vars
<1>0. OthersKept(s)
  BY StepKeepsOthers
<1>1. ASSUME \/ Contract!Launch(s) \/ Contract!Halt(s) \/ Contract!Advance(s)
             \/ Contract!Subscribe(s) \/ Contract!Frame(s) \/ Contract!Capabilities(s)
             \/ Contract!Fail(s) \/ Contract!Redial(s) \/ Contract!CloseEnds(s)
             \/ UNCHANGED Contract!vars
      PROVE  Goal
  BY <1>1 DEF Contract!Next, Contract!SessionStep
\* A step that keeps the stages of the chain, the control and the row is a stutter.
<1>2. ASSUME UNCHANGED <<started, stopped, attempt, closing, stats>>, StagesOf(ops'[s]) = StagesOf(ops[s])
      PROVE  Goal
  <2>1. PhaseOf(s)' = PhaseOf(s) /\ ShownOf(UrlOf[s])' = ShownOf(UrlOf[s])
    BY <1>2, SamePhase DEF ShownOf
  <2> QED BY <1>0, <1>1, <1>2, <2>1, Stutters
<1> SUFFICES Goal
  OBVIOUS
<1> HIDE DEF Goal
<1>3. CASE Calls(s)
  <2>1. ASSUME NEW key \in Keys, SetAuthKey(s, key) PROVE Goal
    BY <1>2, <2>1 DEF SetAuthKey, control
  <2>2. ASSUME Start(s) PROVE Goal
    BY <1>0, <1>1, <2>2, StartLaunches
  <2>3. ASSUME Stop(s) PROVE Goal
    BY <1>0, <1>1, <2>3, StopHalts
  <2> QED BY <1>3, <2>1, <2>2, <2>3 DEF Calls
<1>4. CASE Network(s)
  <2>1. ASSUME NEW o \in ops[s], NEW state \in {"ok", "error"}, Complete(s, o, state) PROVE Goal
    <3>1. ops[s] = {o} /\ ops'[s] = {Op(o.stage, state)}
      BY <2>1 DEF Complete, control, Set, SessionInv, AtMostOne, TypeInv, TypeOK
    <3>2. StagesOf(ops'[s]) = StagesOf(ops[s])
      BY <3>1, OneStage
    <3> QED BY <1>2, <2>1, <3>2 DEF Complete, control
  <2>2. ASSUME AuthWritten(s) PROVE Goal
    BY <1>2, <2>2 DEF AuthWritten, control
  <2>3. ASSUME FetchDone(s) PROVE Goal
    BY <1>2, <2>3 DEF FetchDone, control
  <2> QED BY <1>4, <2>1, <2>2, <2>3 DEF Network
<1>5. CASE Handlers(s)
  <2>1. ASSUME NEW where \in Stages, OnError(s, where) PROVE Goal
    <3>1. Contract!Fail(s)
      BY <1>0, <2>1, MarkErrorFails DEF OnError, control
    <3> QED BY <1>1, <3>1
  <2>2. ASSUME OnResolve(s) PROVE Goal
    <3>1. Contract!Advance(s)
      BY <1>0, <2>2, DialAdvances DEF OnResolve, control, DialStages
    <3> QED BY <1>1, <3>1
  <2>3. ASSUME OnConnect(s) PROVE Goal
    <3>1. CASE MarkError(s, Op("connect", "ok"), "set_sni")
      <4>1. Contract!Fail(s)
        BY <1>0, <2>3, <3>1, MarkErrorFails DEF OnConnect, control, Stages, SocketStages
      <4> QED BY <1>1, <4>1
    <3>2. ASSUME ShowStatus(s, "TlsHandshake"), GoOn(s, Op("connect", "ok"), "tls_handshake"),
                 UNCHANGED attempt
          PROVE  Goal
      <4>1. Contract!Advance(s)
        BY <1>0, <2>3, <3>2, DialAdvances DEF OnConnect, control, DialStages
      <4> QED BY <1>1, <4>1
    <3> QED BY <2>3, <3>1, <3>2 DEF OnConnect
  <2>4. ASSUME OnTlsHandshake(s) PROVE Goal
    <3>1. Contract!Advance(s)
      BY <1>0, <2>4, DialAdvances DEF OnTlsHandshake, control, DialStages
    <3> QED BY <1>1, <3>1
  <2>5. ASSUME OnWsHandshake(s) PROVE Goal
    BY <1>0, <1>1, <2>5, HandshakeSubscribes
  <2>6. ASSUME OnWriteReq(s) PROVE Goal
    <3>1. PhaseOf(s) = "live"
      BY <2>6, HandledPhase, PhaseForFacts DEF OnWriteReq
    <3>2. PhaseOf(s)' = "live"
      BY <2>6, GoOnPhase, PhaseForFacts DEF OnWriteReq, control, Stages, SocketStages
    <3>3. UNCHANGED <<started, stopped, attempt, closing, stats>>
      BY <2>6 DEF OnWriteReq, control
    <3>4. ShownOf(UrlOf[s])' = ShownOf(UrlOf[s])
      BY <3>3 DEF ShownOf
    <3> QED BY <1>0, <1>1, <3>1, <3>2, <3>3, <3>4, Stutters
  <2>7. ASSUME NEW payload \in Payloads, OnRead(s, payload) PROVE Goal
    BY <1>0, <1>1, <2>7, ReadFrames
  <2>8. ASSUME NEW state \in {"ok", "error"}, OnTimer(s, state) PROVE Goal
    BY <1>0, <1>1, <2>8, TimerEnds
  <2>9. ASSUME NEW nips \in NipSets, ApplyNips(s, nips) PROVE Goal
    BY <1>0, <1>1, <2>9, NipsApply
  <2>10. ASSUME Closed(s) PROVE Goal
    BY <1>0, <1>1, <2>10, ClosedEnds
  <2> QED BY <1>5, <2>1, <2>2, <2>3, <2>4, <2>5, <2>6, <2>7, <2>8, <2>9, <2>10 DEF Handlers
<1>6. CASE ResetEnds(s)
  BY <1>0, <1>1, <1>6, ResetRedials
<1> QED BY <1>3, <1>4, <1>5, <1>6 DEF Step

\* Reset clears the table in the contract too.
LEMMA ResetClears ==
  ASSUME Reset
  PROVE  Contract!Clear
<1>1. UNCHANGED <<started, stopped, ops, attempt, closing>> /\ stats' = EmptyTable
  BY DEF Reset, control
<1>2. \A u \in Urls : ShownOf(u)' = "absent"
  BY <1>1 DEF ShownOf, EmptyTable
<1>3. UNCHANGED [t \in Sessions |-> PhaseOf(t)]
  BY <1>1 DEF PhaseOf, Waits
<1>4. UNCHANGED [t \in Sessions |-> kMaxReconnectAttempts - attempt[t]]
  BY <1>1
<1> QED BY <1>1, <1>2, <1>3, <1>4 DEF Contract!Clear

\* The initial states of RelaySession are the contract's.
LEMMA InitRefines == Init => Contract!Init
<1> SUFFICES ASSUME Init PROVE Contract!Init
  OBVIOUS
<1>1. [s \in Sessions |-> PhaseOf(s)] = [s \in Sessions |-> "new"]
  BY DEF Init, PhaseOf
<1>2. [s \in Sessions |-> kMaxReconnectAttempts - attempt[s]]
        = [s \in Sessions |-> kMaxReconnectAttempts]
  BY AttemptsAssumption DEF Init
<1>3. [u \in Urls |-> ShownOf(u)] = [u \in Urls |-> "absent"]
  BY DEF Init, ShownOf, EmptyTable
<1> QED BY <1>1, <1>2, <1>3 DEF Init, Contract!Init

\* A session keeps its contract whatever the network does and whenever it is stopped:
\* the code that starts and stops sessions may reason with SessionContract.
THEOREM SessionKeepsContract == Spec => KeepsContract
<1>1. ASSUME TypeInv, ChainInv, AllLife, [Next]_vars
      PROVE  [Contract!Next]_(Contract!vars)
  <2>1. ASSUME NEW s \in Sessions, Step(s) PROVE [Contract!Next]_(Contract!vars)
    BY <1>1, <2>1, StepRefines DEF ChainInv, AllLife
  <2>2. CASE Reset
    BY <2>2, ResetClears DEF Contract!Next
  <2>3. CASE UNCHANGED vars
    BY <2>3 DEF vars, Contract!vars, PhaseOf, Waits, ShownOf
  <2> QED BY <1>1, <2>1, <2>2, <2>3, NextCases
<1> QED BY RowsInvariant, InitRefines, <1>1, PTL DEF Spec, KeepsContract, Contract!Spec

=============================================================================
