----------------------------- MODULE Monitor_proofs -----------------------------
(***************************************************************************)
(* Proofs about Monitor for any relays, keys and pubkeys, any number of    *)
(* submissions and any bound on the queues of the strands; and, in the     *)
(* second half, that Threads implements it, for any pool.                  *)
(***************************************************************************)
EXTENDS Threads, SequenceTheorems, TLAPS

-----------------------------------------------------------------------------
(* Sequences, as queues.                                                   *)

\* Appending keeps what was there and adds the new element at the end.
LEMMA AppendFacts ==
  ASSUME NEW T, NEW q \in Seq(T), NEW e \in T
  PROVE  /\ Append(q, e) \in Seq(T)
         /\ Len(q) \in Nat /\ Len(Append(q, e)) = Len(q) + 1
         /\ \A i \in 1..Len(q) : Append(q, e)[i] = q[i]
         /\ Append(q, e)[Len(q) + 1] = e
BY AppendProperties, LenProperties

\* Taking the first element keeps the others, one place further to the front.
LEMMA TailFacts ==
  ASSUME NEW T, NEW q \in Seq(T), q # << >>
  PROVE  /\ Head(q) \in T /\ Head(q) = q[1]
         /\ Tail(q) \in Seq(T)
         /\ Len(q) \in Nat \ {0} /\ Len(Tail(q)) = Len(q) - 1
         /\ \A i \in 1..Len(Tail(q)) : Tail(q)[i] = q[i + 1]
BY HeadTailProperties, LenProperties, EmptySeq

-----------------------------------------------------------------------------
(* Type correctness.  The key that a callback goes on with is the one the   *)
(* user has entered, never "no key"; and StopAll is in no call of Start.    *)

KeyAtHand == ui \in {"has_sessions", "update_keys"} => auth_key \in Keys

NoCallYet == io.at = "stop_all" => io.session = None

TypeInv == TypeOK /\ KeyAtHand /\ NoCallYet

\* A TLS shutdown leaves the io thread outside Start.
LEMMA ResetFacts ==
  ASSUME NEW s, ResetTransport(s) \/ ResetEnds(s)
  PROVE  io'.urls = {} /\ io'.at \in {"idle", "reset"} /\ UNCHANGED <<sessions, inbox>>
<1>1. CASE ResetTransport(s)
  BY <1>1 DEF ResetTransport, Idle
<1>2. CASE ResetEnds(s)
  BY <1>2 DEF ResetEnds, Idle
<1> QED BY <1>1, <1>2

\* UrlOf names the relay of a session.
LEMMA UrlOfType == \A s \in Sessions : UrlOf[s] = s.url /\ s.url \in Urls
BY DEF Sessions, UrlOf

\* The start of a session keeps the types of the contract,
LEMMA LaunchType ==
  ASSUME S!TypeOK, NEW s \in Sessions, S!Launch(s)
  PROVE  S!TypeOK'
BY UrlOfType DEF S!TypeOK, S!Phases, S!Shown, S!Launch, S!Enter, S!Show

\* so does its halt,
LEMMA HaltType ==
  ASSUME S!TypeOK, NEW s \in Sessions, S!Halt(s)
  PROVE  S!TypeOK'
BY UrlOfType DEF S!TypeOK, S!Phases, S!Shown, S!Halt, S!Show

\* and so does everything it does between the two.
LEMMA SessionStepType ==
  ASSUME S!TypeOK, NEW s \in Sessions, S!SessionStep(s)
  PROVE  S!TypeOK'
<1> USE UrlOfType, MonitorAssumption DEF S!TypeOK, S!Phases, S!Shown, S!Enter, S!Show, S!Touch
<1>1. CASE S!Advance(s) BY <1>1 DEF S!Advance
<1>2. CASE S!Subscribe(s) BY <1>2 DEF S!Subscribe
<1>3. CASE S!Frame(s) BY <1>3 DEF S!Frame
<1>4. CASE S!Capabilities(s) BY <1>4 DEF S!Capabilities
<1>5. CASE S!Fail(s) BY <1>5 DEF S!Fail
<1>6. CASE S!Redial(s) BY <1>6 DEF S!Redial
<1>7. CASE S!CloseEnds(s) BY <1>7 DEF S!CloseEnds
<1> QED BY <1>1, <1>2, <1>3, <1>4, <1>5, <1>6, <1>7 DEF S!SessionStep

\* The handlers that Monitor runs are those of the contract.
LEMMA MovesAreSteps ==
  ASSUME NEW s, SessionMoves(s) \/ S!Subscribe(s) \/ S!Capabilities(s)
  PROVE  S!SessionStep(s)
BY DEF SessionMoves, S!SessionStep

\* The io thread's record keeps its type when one field is set.
IoType == [at : IoSteps, todo : SUBSET Sessions, urls : SUBSET Sessions, key : Keys \cup {None},
           session : Sessions \cup {None}]

\* Posting a call keeps the queues of the strands queues of calls.
LEMMA PostType ==
  ASSUME inbox \in [Sessions -> Seq(Calls)], NEW targets, NEW call \in Calls, Post(targets, call)
  PROVE  inbox' \in [Sessions -> Seq(Calls)]
<1>1. \A s \in Sessions : Append(inbox[s], call) \in Seq(Calls)
  BY AppendFacts
<1> QED BY <1>1 DEF Post

\* StartMonitoring makes a job of the next number.
LEMMA StartMonitoringType ==
  ASSUME TypeOK, NEW pubkey \in Pubkeys, StartMonitoring(pubkey)
  PROVE  /\ submits' \in 0..MaxSubmits /\ submits + 1 \in 1..MaxSubmits
         /\ header' \in Pubkeys
         /\ queue' \in Seq(Jobs)
         /\ S!TypeOK'
<1>1. submits + 1 \in 1..MaxSubmits
  BY MonitorAssumption DEF TypeOK, StartMonitoring
<1>2. [submit |-> submits + 1, pubkey |-> pubkey, key |-> auth_key] \in Jobs
  BY <1>1 DEF TypeOK, Jobs
<1>3. queue' \in Seq(Jobs)
  BY <1>2, AppendFacts DEF TypeOK, StartMonitoring
<1>4. S!TypeOK'
  BY DEF TypeOK, StartMonitoring, S!Clear, S!TypeOK, S!Shown
<1> QED BY <1>1, <1>3, <1>4, MonitorAssumption DEF StartMonitoring

\* The UI thread keeps the types,
LEMMA UiType ==
  ASSUME TypeInv, UiStep
  PROVE  TypeInv'
<1> USE DEF TypeInv, KeyAtHand, NoCallYet
<1>1. ASSUME NEW pubkey \in Pubkeys, NpubSubmit(pubkey) PROVE TypeInv'
  <2>1. StartMonitoring(pubkey) /\ UNCHANGED <<ui, auth_key>>
    BY <1>1 DEF NpubSubmit
  <2> QED BY <2>1, StartMonitoringType DEF StartMonitoring, TypeOK, managerVars
<1>2. ASSUME NEW key \in Keys, NsecSubmit(key) PROVE TypeInv'
  <2>1. S!TypeOK'
    BY <1>2 DEF NsecSubmit, TypeOK, S!TypeOK, sessionVars
  <2> QED BY <1>2, <2>1 DEF NsecSubmit, TypeOK, workVars, managerVars
<1>3. ASSUME HasActiveSessions PROVE TypeInv'
  <2>1. CASE sessions # {} /\ UNCHANGED <<header, submits, exit_todo, workVars, managerVars, sessionVars>>
    <3>1. S!TypeOK'
      BY <2>1 DEF TypeOK, S!TypeOK, sessionVars
    <3>2. ui' \in {"idle", "update_keys"} /\ auth_key' = auth_key /\ auth_key \in Keys
      BY <1>3 DEF HasActiveSessions
    <3> QED BY <2>1, <3>1, <3>2 DEF TypeOK, workVars, managerVars
  <2>2. CASE ui' = "idle" /\ StartMonitoring(OwnerOf[auth_key])
    <3>1. OwnerOf[auth_key] \in Pubkeys /\ UNCHANGED auth_key
      BY <1>3, MonitorAssumption DEF HasActiveSessions
    <3> QED BY <2>2, <3>1, StartMonitoringType DEF StartMonitoring, TypeOK, managerVars
  <2> QED BY <1>3, <2>1, <2>2 DEF HasActiveSessions
<1>4. ASSUME UpdateAuthKey PROVE TypeInv'
  <2>1. inbox' \in [Sessions -> Seq(Calls)]
    BY <1>4, PostType DEF UpdateAuthKey, TypeOK, Calls
  <2>2. S!TypeOK'
    BY <1>4 DEF UpdateAuthKey, TypeOK, S!TypeOK, sessionVars
  <2> QED BY <1>4, <2>1, <2>2 DEF UpdateAuthKey, TypeOK, workVars
<1>5. ASSUME Exit PROVE TypeInv'
  <2>1. S!TypeOK'
    BY <1>5 DEF Exit, TypeOK, S!TypeOK, sessionVars
  <2> QED BY <1>5, <2>1 DEF Exit, TypeOK, workVars, managerVars
<1>6. ASSUME NEW s \in Sessions, ExitStopOne(s) PROVE TypeInv'
  <2>1. inbox' \in [Sessions -> Seq(Calls)]
    BY <1>6, PostType DEF ExitStopOne, TypeOK, Calls
  <2>2. S!TypeOK'
    BY <1>6 DEF ExitStopOne, TypeOK, S!TypeOK, sessionVars
  <2> QED BY <1>6, <2>1, <2>2 DEF ExitStopOne, TypeOK, workVars
<1>7. ASSUME ExitClear PROVE TypeInv'
  <2>1. S!TypeOK'
    BY <1>7 DEF ExitClear, TypeOK, S!TypeOK, sessionVars
  <2> QED BY <1>7, <2>1 DEF ExitClear, TypeOK, workVars
<1>8. ASSUME Shutdown PROVE TypeInv'
  <2>1. S!TypeOK'
    BY <1>8 DEF Shutdown, TypeOK, S!TypeOK, sessionVars
  <2>2. queue' \in Seq(Jobs)
    BY <1>8 DEF Shutdown
  <2>3. io' \in IoType /\ io'.at # "stop_all"
    BY <1>8 DEF Shutdown, TypeOK, IoSteps, IoType
  <2> QED BY <1>8, <2>1, <2>2, <2>3 DEF Shutdown, TypeOK, IoType
<1> QED BY <1>1, <1>2, <1>3, <1>4, <1>5, <1>6, <1>7, <1>8 DEF UiStep

\* so does the discovery worker,
LEMMA WorkerType ==
  ASSUME TypeInv, WorkerStep
  PROVE  TypeInv'
<1> USE DEF TypeInv, KeyAtHand, NoCallYet
<1>1. ASSUME TakeJob PROVE TypeInv'
  <2>1. Head(queue) \in Jobs /\ Tail(queue) \in Seq(Jobs)
    BY <1>1, TailFacts DEF TakeJob, TypeOK
  <2>2. S!TypeOK'
    BY <1>1 DEF TakeJob, TypeOK, S!TypeOK, sessionVars
  <2> QED BY <1>1, <2>1, <2>2 DEF TakeJob, TypeOK, uiVars, managerVars
<1>2. ASSUME NEW urls \in SUBSET Urls, PostCompletion(urls) PROVE TypeInv'
  <2>1. [job |-> working, urls |-> urls] \in Results
    BY <1>2 DEF PostCompletion, TypeOK, Results
  <2>2. completions' \in Seq(Results)
    BY <1>2, <2>1, AppendFacts DEF PostCompletion, TypeOK
  <2>3. S!TypeOK'
    BY <1>2 DEF PostCompletion, TypeOK, S!TypeOK, sessionVars
  <2> QED BY <1>2, <2>2, <2>3 DEF PostCompletion, TypeOK, uiVars
<1> QED BY <1>1, <1>2 DEF WorkerStep

\* The sessions that a completion starts.
LEMMA CompletionSessions ==
  ASSUME NEW result \in Results
  PROVE  {[submit |-> result.job.submit, url |-> u] : u \in result.urls} \in SUBSET Sessions
BY DEF Results, Jobs, Sessions

\* so does the io thread,
LEMMA IoStepType ==
  ASSUME TypeInv, IoStep
  PROVE  TypeInv'
<1> USE DEF TypeInv, KeyAtHand, NoCallYet
<1>1. ASSUME RunCompletion PROVE TypeInv'
  <2>1. Head(completions) \in Results /\ Tail(completions) \in Seq(Results)
    BY <1>1, TailFacts DEF RunCompletion, TypeOK
  <2>2. Head(completions).job.key \in Keys \cup {None}
    BY <2>1 DEF Results, Jobs
  <2>3. io' \in IoType /\ io'.session = None
    BY <1>1, <2>1, <2>2, CompletionSessions DEF RunCompletion, TypeOK, Idle, IoSteps, IoType
  <2>4. S!TypeOK'
    BY <1>1 DEF RunCompletion, TypeOK, S!TypeOK, sessionVars
  <2> QED BY <1>1, <2>1, <2>3, <2>4 DEF RunCompletion, TypeOK, uiVars, workVars, IoType
<1>2. ASSUME ClearSessions PROVE TypeInv'
  <2>1. S!TypeOK'
    BY <1>2 DEF ClearSessions, TypeOK, S!TypeOK, sessionVars
  <2> QED BY <1>2, <2>1 DEF ClearSessions, TypeOK, uiVars, workVars, IoSteps
<1>3. ASSUME NEW s \in Sessions, StopOne(s) PROVE TypeInv'
  <2>1. S!TypeOK' /\ inbox' \in [Sessions -> Seq(Calls)]
    <3>1. CASE inbox[s] = << >>
      BY <1>3, <3>1, HaltType DEF StopOne, TypeOK
    <3>2. CASE inbox[s] # << >>
      <4>1. Post({s}, "stop") /\ UNCHANGED sessionVars
        BY <1>3, <3>2 DEF StopOne
      <4>2. inbox' \in [Sessions -> Seq(Calls)]
        BY <4>1, PostType DEF TypeOK, Calls
      <4> QED BY <4>1, <4>2 DEF TypeOK, S!TypeOK, sessionVars
    <3> QED BY <3>1, <3>2
  <2>2. io' \in IoType /\ io'.session = io.session
    BY <1>3 DEF StopOne, TypeOK, IoType
  <2> QED BY <1>3, <2>1, <2>2 DEF StopOne, TypeOK, uiVars, workVars, IoType
<1>4. ASSUME NEW s \in Sessions, PushOne(s) PROVE TypeInv'
  <2>1. S!TypeOK'
    BY <1>4 DEF PushOne, TypeOK, S!TypeOK, sessionVars
  <2>2. io' \in IoType /\ io'.at = "start_each"
    BY <1>4 DEF PushOne, TypeOK, IoType
  <2>3. session_key' \in [Sessions -> Keys \cup {None}] /\ sessions' \subseteq Sessions
    BY <1>4 DEF PushOne, TypeOK
  <2> QED BY <1>4, <2>1, <2>2, <2>3 DEF PushOne, TypeOK, uiVars, workVars, IoType
<1>5. ASSUME NEW s \in Sessions, StartOne(s) PROVE TypeInv'
  <2>1. S!TypeOK' /\ inbox' \in [Sessions -> Seq(Calls)]
    <3>1. CASE inbox[s] = << >>
      BY <1>5, <3>1, LaunchType DEF StartOne, TypeOK
    <3>2. CASE inbox[s] # << >>
      <4>1. Post({s}, "start") /\ UNCHANGED sessionVars
        BY <1>5, <3>2 DEF StartOne
      <4>2. inbox' \in [Sessions -> Seq(Calls)]
        BY <4>1, PostType DEF TypeOK, Calls
      <4> QED BY <4>1, <4>2 DEF TypeOK, S!TypeOK, sessionVars
    <3> QED BY <3>1, <3>2
  <2>2. io' \in IoType /\ io'.at # "stop_all"
    BY <1>5 DEF StartOne, TypeOK, Idle, IoSteps, IoType
  <2> QED BY <1>5, <2>1, <2>2 DEF StartOne, TypeOK, uiVars, workVars, IoType
<1>6. ASSUME NEW s \in Sessions, Deliver(s) PROVE TypeInv'
  <2>1. Head(inbox[s]) \in Calls /\ Tail(inbox[s]) \in Seq(Calls)
    BY <1>6, TailFacts DEF Deliver, TypeOK
  <2>2. inbox' \in [Sessions -> Seq(Calls)]
    BY <1>6, <2>1 DEF Deliver, TypeOK
  <2>3. session_key' \in [Sessions -> Keys \cup {None}]
    BY <1>6 DEF Deliver, TypeOK
  <2>4. S!TypeOK'
    <3>1. CASE S!Halt(s)
      BY <3>1, HaltType DEF TypeOK
    <3>2. CASE S!Launch(s)
      BY <3>2, LaunchType DEF TypeOK
    <3>3. CASE UNCHANGED sessionVars
      BY <3>3 DEF TypeOK, S!TypeOK, sessionVars
    <3> QED BY <1>6, <3>1, <3>2, <3>3 DEF Deliver
  <2> QED BY <1>6, <2>2, <2>3, <2>4 DEF Deliver, TypeOK, uiVars, workVars
<1>7. ASSUME NEW s \in Sessions, RunSession(s) PROVE TypeInv'
  <2>1. S!TypeOK'
    BY <1>7, MovesAreSteps, SessionStepType DEF RunSession, TypeOK
  <2> QED BY <1>7, <2>1 DEF RunSession, TypeOK, uiVars, workVars, managerVars
<1>8. ASSUME NEW s \in Sessions, ResetTransport(s) PROVE TypeInv'
  <2>1. S!TypeOK'
    BY <1>8 DEF ResetTransport, TypeOK, S!TypeOK, sessionVars
  <2>2. io' \in IoType /\ io'.at = "reset"
    BY <1>8 DEF ResetTransport, Idle, IoSteps, IoType
  <2> QED BY <1>8, <2>1, <2>2 DEF ResetTransport, TypeOK, uiVars, workVars, IoType
<1>9. ASSUME NEW s \in Sessions, ResetEnds(s) PROVE TypeInv'
  <2>1. S!TypeOK'
    BY <1>9, SessionStepType DEF ResetEnds, TypeOK, S!SessionStep
  <2>2. io' \in IoType /\ io'.at = "idle"
    BY <1>9 DEF ResetEnds, Idle, IoSteps, IoType
  <2> QED BY <1>9, <2>1, <2>2 DEF ResetEnds, TypeOK, uiVars, workVars, IoType
<1> QED BY <1>1, <1>2, <1>3, <1>4, <1>5, <1>6, <1>7, <1>8, <1>9 DEF IoStep

\* and the initial states have them.
LEMMA TypeInit == Init => TypeInv
<1> SUFFICES ASSUME Init PROVE TypeInv
  OBVIOUS
<1>1. S!TypeOK
  BY MonitorAssumption, UrlOfType DEF Init, S!Init, S!TypeOK, S!Phases, S!Shown
<1>2. /\ << >> \in Seq(Jobs) /\ << >> \in Seq(Results) /\ << >> \in Seq(Calls)
      /\ 0 \in 0..MaxSubmits
  BY MonitorAssumption
<1> QED BY <1>1, <1>2 DEF Init, TypeInv, TypeOK, KeyAtHand, NoCallYet, Idle, IoSteps

\* Every step keeps the types.
LEMMA TypeNext == TypeInv /\ [Next]_vars => TypeInv'
<1> SUFFICES ASSUME TypeInv, [Next]_vars PROVE TypeInv'
  OBVIOUS
<1>1. CASE Next
  BY <1>1, UiType, WorkerType, IoStepType DEF Next
<1>2. CASE UNCHANGED vars
  BY <1>2 DEF TypeInv, TypeOK, KeyAtHand, NoCallYet, S!TypeOK, vars, uiVars, workVars, managerVars, sessionVars
<1> QED BY <1>1, <1>2

\* Every reachable state of the program is well typed: no callback goes on with
\* a key that was never entered, and no submission has a number out of range.
THEOREM MonitorTypeCorrect == Spec => []TypeOK
<1>1. TypeInv => TypeOK
  BY DEF TypeInv
<1> QED BY TypeInit, TypeNext, <1>1, PTL DEF Spec

-----------------------------------------------------------------------------
(* The order of submissions.                                               *)

\* Where a submission is on its way from the callback to the sessions.
Queued    == {queue[i].submit : i \in 1..Len(queue)}
Worked    == IF working = None THEN {} ELSE {working.submit}
Completed == {completions[i].job.submit : i \in 1..Len(completions)}
Starting  == {s.submit : s \in io.urls}

\* A Start waits on the strand of s.
StartWaits(s) == \E i \in 1..Len(inbox[s]) : inbox[s][i] = "start"

\* SessionManager::Start has come to the session.
Begun(s) ==
  phase[s] # "new" \/ StartWaits(s) \/ (io.at = "start_each" /\ io.session = s)

Launched  == {s.submit : s \in {t \in Sessions : Begun(t)}}

Precedes(A, B) == \A a \in A, b \in B : a < b

\* Both queues hold submissions in their order, and what has come further is older.
OrderInv ==
  /\ \A i, j \in 1..Len(queue) : i < j => queue[i].submit < queue[j].submit
  /\ \A i, j \in 1..Len(completions) :
       i < j => completions[i].job.submit < completions[j].job.submit
  /\ Precedes(Worked, Queued)
  /\ Precedes(Completed, Worked \cup Queued)
  /\ Precedes(Launched \cup Starting, Completed \cup Worked \cup Queued)
  /\ \A m \in Launched, n \in Starting : m <= n
  /\ \A n \in Launched \cup Starting \cup Completed \cup Worked \cup Queued : n <= submits

\* A session that has been started stays so, whatever it does;
LEMMA SessionStepKeeps ==
  ASSUME S!TypeOK, NEW s \in Sessions, S!SessionStep(s)
  PROVE  /\ \A t \in Sessions : phase'[t] = "new" <=> phase[t] = "new"
         /\ halted' = halted
<1> USE DEF S!TypeOK, S!Enter
<1>1. CASE S!Advance(s) BY <1>1 DEF S!Advance
<1>2. CASE S!Subscribe(s) BY <1>2 DEF S!Subscribe
<1>3. CASE S!Frame(s) BY <1>3 DEF S!Frame
<1>4. CASE S!Capabilities(s) BY <1>4 DEF S!Capabilities
<1>5. CASE S!Fail(s) BY <1>5 DEF S!Fail
<1>6. CASE S!Redial(s) BY <1>6 DEF S!Redial
<1>7. CASE S!CloseEnds(s) BY <1>7 DEF S!CloseEnds
<1> QED BY <1>1, <1>2, <1>3, <1>4, <1>5, <1>6, <1>7 DEF S!SessionStep

\* its halt only marks it,
LEMMA HaltKeeps ==
  ASSUME S!TypeOK, NEW s \in Sessions, S!Halt(s)
  PROVE  /\ phase' = phase
         /\ halted'[s] /\ \A t \in Sessions : t # s => halted'[t] = halted[t]
BY DEF S!TypeOK, S!Halt

\* and its start starts no other.
LEMMA LaunchKeeps ==
  ASSUME S!TypeOK, NEW s \in Sessions, S!Launch(s)
  PROVE  /\ phase[s] = "new" /\ phase'[s] # "new"
         /\ ~halted'[s]
         /\ \A t \in Sessions : t # s => phase'[t] = phase[t] /\ halted'[t] = halted[t]
BY DEF S!TypeOK, S!Launch, S!Enter

\* A posted call other than Start makes no Start wait, and makes none vanish; a
\* posted Start waits.
LEMMA PostStarts ==
  ASSUME TypeOK, NEW targets, NEW call \in Calls, Post(targets, call), NEW t \in Sessions
  PROVE  /\ StartWaits(t)' => StartWaits(t) \/ (call = "start" /\ t \in targets)
         /\ StartWaits(t) => StartWaits(t)'
         /\ call = "start" /\ t \in targets => StartWaits(t)'
<1>1. inbox[t] \in Seq(Calls)
  BY DEF TypeOK
<1>2. CASE t \in targets
  <2>1. inbox'[t] = Append(inbox[t], call)
    BY <1>2 DEF Post
  <2>2. /\ Len(inbox[t]) \in Nat /\ Len(inbox'[t]) = Len(inbox[t]) + 1
        /\ \A i \in 1..Len(inbox[t]) : inbox'[t][i] = inbox[t][i]
        /\ inbox'[t][Len(inbox[t]) + 1] = call
    BY <1>1, <2>1, AppendFacts
  <2>3. \A i \in 1..Len(inbox'[t]) : i \in 1..Len(inbox[t]) \/ i = Len(inbox[t]) + 1
    BY <2>2
  <2>4. Len(inbox[t]) + 1 \in 1..Len(inbox'[t]) /\ 1..Len(inbox[t]) \subseteq 1..Len(inbox'[t])
    BY <2>2
  <2> QED BY <1>2, <2>2, <2>3, <2>4 DEF StartWaits
<1>3. CASE t \notin targets
  BY <1>3 DEF Post, StartWaits
<1> QED BY <1>2, <1>3

\* Running the oldest call of a strand makes no Start wait.
LEMMA DeliverStarts ==
  ASSUME TypeOK, NEW s \in Sessions, Deliver(s), NEW t \in Sessions, StartWaits(t)'
  PROVE  StartWaits(t)
<1>1. CASE t # s
  <2>1. inbox'[t] = inbox[t]
    BY <1>1 DEF Deliver, TypeOK
  <2> QED BY <2>1 DEF StartWaits
<1>2. CASE t = s
  <2>1. inbox[s] \in Seq(Calls) /\ inbox[s] # << >> /\ inbox'[s] = Tail(inbox[s])
    BY DEF Deliver, TypeOK
  <2>2. /\ Len(inbox[s]) \in Nat \ {0} /\ Len(inbox'[s]) = Len(inbox[s]) - 1
        /\ \A i \in 1..Len(inbox'[s]) : inbox'[s][i] = inbox[s][i + 1]
    BY <2>1, TailFacts
  <2>3. PICK i \in 1..Len(inbox'[s]) : inbox'[s][i] = "start"
    BY <1>2 DEF StartWaits
  <2>4. i + 1 \in 1..Len(inbox[s]) /\ inbox[s][i + 1] = "start"
    BY <2>2, <2>3
  <2> QED BY <1>2, <2>4 DEF StartWaits
<1> QED BY <1>1, <1>2

\* A Start that is delivered has been waiting.
LEMMA DeliveredStart ==
  ASSUME TypeOK, NEW s \in Sessions, inbox[s] # << >>, Head(inbox[s]) = "start"
  PROVE  StartWaits(s)
<1>1. Head(inbox[s]) = inbox[s][1] /\ Len(inbox[s]) \in Nat \ {0}
  BY TailFacts DEF TypeOK
<1> QED BY <1>1 DEF StartWaits

\* The numbers of submissions are numbers.
LEMMA SubmitTypes ==
  ASSUME TypeInv
  PROVE  /\ submits \in Nat
         /\ \A n \in Launched \cup Starting \cup Completed \cup Worked \cup Queued : n \in Nat
<1> USE DEF TypeInv, TypeOK
<1>1. 1..MaxSubmits \subseteq Nat /\ 0..MaxSubmits \subseteq Nat
  BY MonitorAssumption
<1>2. \A s \in Sessions : s.submit \in Nat
  BY <1>1 DEF Sessions
<1>3. \A i \in 1..Len(completions) : completions[i] \in Results
  BY ElementOfSeq
<1>4. \A i \in 1..Len(queue) : queue[i] \in Jobs
  BY ElementOfSeq
<1>5. \A job \in Jobs : job.submit \in Nat
  BY <1>1 DEF Jobs
<1>6. \A n \in Launched \cup Starting : n \in Nat
  BY <1>2 DEF Launched, Starting
<1>7. \A n \in Completed : n \in Nat
  BY <1>3, <1>5 DEF Completed, Results
<1>8. \A n \in Worked \cup Queued : n \in Nat
  BY <1>4, <1>5 DEF Worked, Queued
<1> QED BY <1>1, <1>6, <1>7, <1>8

\* A step of OrderInv that moves no submission.
LEMMA OrderKept ==
  ASSUME TypeInv, OrderInv, UNCHANGED <<queue, working, completions, submits>>,
         Starting' \subseteq Starting, Launched' \subseteq Launched
  PROVE  OrderInv'
<1>1. Queued' = Queued /\ Worked' = Worked /\ Completed' = Completed
  BY DEF Queued, Worked, Completed
<1> QED BY <1>1 DEF OrderInv, Precedes

\* A new submission has the highest number.
LEMMA OrderSubmit ==
  ASSUME TypeInv, OrderInv, NEW pubkey \in Pubkeys, StartMonitoring(pubkey)
  PROVE  OrderInv'
<1> DEFINE job == [submit |-> submits + 1, pubkey |-> pubkey, key |-> auth_key]
<1>1. job \in Jobs /\ queue' = Append(queue, job) /\ submits' = submits + 1
  BY StartMonitoringType DEF TypeInv, TypeOK, StartMonitoring, Jobs
<1>2. /\ Len(queue) \in Nat /\ Len(queue') = Len(queue) + 1
      /\ \A i \in 1..Len(queue) : queue'[i] = queue[i]
      /\ queue'[Len(queue) + 1] = job
  BY <1>1, AppendFacts DEF TypeInv, TypeOK
<1>3. UNCHANGED <<working, completions, io, inbox, phase>>
  BY DEF StartMonitoring, S!Clear, managerVars
<1>4. Worked' = Worked /\ Completed' = Completed /\ Starting' = Starting /\ Launched' = Launched
  BY <1>3 DEF Worked, Completed, Starting, Launched, Begun, StartWaits
<1>5. Queued' = Queued \cup {submits + 1}
  <2>1. \A i \in 1..Len(queue) + 1 : i \in 1..Len(queue) \/ i = Len(queue) + 1
    BY <1>2
  <2>2. job.submit = submits + 1
    OBVIOUS
  <2> HIDE DEF job
  <2> QED BY <1>2, <2>1, <2>2 DEF Queued
<1>6. \A i, j \in 1..Len(queue') : i < j => queue'[i].submit < queue'[j].submit
  <2> SUFFICES ASSUME NEW i \in 1..Len(queue'), NEW j \in 1..Len(queue'), i < j
               PROVE  queue'[i].submit < queue'[j].submit
    OBVIOUS
  <2>1. i \in 1..Len(queue) /\ queue'[i] = queue[i] /\ queue[i].submit \in Queued
    BY <1>2 DEF Queued
  <2>2. CASE j \in 1..Len(queue)
    BY <1>2, <2>1, <2>2 DEF OrderInv
  <2>3. CASE j = Len(queue) + 1
    <3>1. queue'[j].submit = submits + 1
      BY <1>2, <2>3
    <3>2. queue[i].submit <= submits /\ queue[i].submit \in Nat /\ submits \in Nat
      BY <2>1, SubmitTypes DEF OrderInv
    <3> QED BY <2>1, <3>1, <3>2
  <2> QED BY <1>2, <2>2, <2>3
<1>7. \A n \in Launched \cup Starting \cup Completed \cup Worked \cup Queued :
        n < submits + 1 /\ n <= submits + 1
  BY SubmitTypes DEF OrderInv
<1>8. submits + 1 <= submits + 1
  BY SubmitTypes
<1> HIDE DEF job
<1> QED BY <1>1, <1>3, <1>4, <1>5, <1>6, <1>7, <1>8 DEF OrderInv, Precedes

\* The worker takes the oldest job,
LEMMA OrderTake ==
  ASSUME TypeInv, OrderInv, TakeJob
  PROVE  OrderInv'
<1>1. /\ Head(queue) \in Jobs /\ Head(queue) = queue[1]
      /\ Len(queue) \in Nat \ {0} /\ Len(queue') = Len(queue) - 1
      /\ \A i \in 1..Len(queue') : queue'[i] = queue[i + 1]
  BY TailFacts DEF TakeJob, TypeInv, TypeOK
<1>2. \A i \in 1..Len(queue') : i + 1 \in 1..Len(queue)
  BY <1>1
<1>3. UNCHANGED <<completions, io, inbox, phase, submits>>
  BY DEF TakeJob, uiVars, managerVars, sessionVars
<1>4. Completed' = Completed /\ Starting' = Starting /\ Launched' = Launched
  BY <1>3 DEF Completed, Starting, Launched, Begun, StartWaits
<1>5. Queued' \subseteq Queued
  BY <1>1, <1>2 DEF Queued
<1>6. Worked = {} /\ Worked' = {queue[1].submit}
  BY <1>1, NoJobAssumption DEF TakeJob, Worked
<1>7. queue[1].submit \in Queued
  BY <1>1 DEF Queued
<1>8. \A i \in 1..Len(queue') : queue[1].submit < queue'[i].submit
  <2> TAKE i \in 1..Len(queue')
  <2>1. 1 \in 1..Len(queue) /\ i + 1 \in 1..Len(queue) /\ 1 < i + 1
    BY <1>1, <1>2
  <2> QED BY <1>1, <2>1 DEF OrderInv
<1>9. Precedes(Worked', Queued')
  BY <1>6, <1>8 DEF Precedes, Queued
<1>10. \A i, j \in 1..Len(queue') : i < j => queue'[i].submit < queue'[j].submit
  <2> TAKE i, j \in 1..Len(queue')
  <2> HAVE i < j
  <2>1. i + 1 \in 1..Len(queue) /\ j + 1 \in 1..Len(queue) /\ i + 1 < j + 1
    BY <1>1, <1>2
  <2>2. queue[i + 1].submit < queue[j + 1].submit
    BY <2>1 DEF OrderInv
  <2> QED BY <1>1, <2>2
<1> QED BY <1>3, <1>4, <1>5, <1>6, <1>7, <1>9, <1>10 DEF OrderInv, Precedes

\* and posts its result behind the older ones.
LEMMA OrderPost ==
  ASSUME TypeInv, OrderInv, NEW urls \in SUBSET Urls, PostCompletion(urls)
  PROVE  OrderInv'
<1> DEFINE result == [job |-> working, urls |-> urls]
<1>1. /\ result \in Results /\ completions' = Append(completions, result)
      /\ Worked = {working.submit} /\ Worked' = {}
  BY DEF PostCompletion, TypeInv, TypeOK, Results, Worked
<1>2. /\ Len(completions) \in Nat /\ Len(completions') = Len(completions) + 1
      /\ \A i \in 1..Len(completions) : completions'[i] = completions[i]
      /\ completions'[Len(completions) + 1] = result
  BY <1>1, AppendFacts DEF TypeInv, TypeOK
<1>3. UNCHANGED <<queue, io, inbox, phase, submits>>
  BY DEF PostCompletion, uiVars, sessionVars
<1>4. Queued' = Queued /\ Starting' = Starting /\ Launched' = Launched
  BY <1>3 DEF Queued, Starting, Launched, Begun, StartWaits
<1>5. result.job.submit = working.submit
  OBVIOUS
<1> HIDE DEF result
<1>6. \A i \in 1..Len(completions') : i \in 1..Len(completions) \/ i = Len(completions) + 1
  BY <1>2
<1>7. Completed' = Completed \cup Worked
  BY <1>1, <1>2, <1>5, <1>6 DEF Completed
<1>8. \A i, j \in 1..Len(completions') :
        i < j => completions'[i].job.submit < completions'[j].job.submit
  <2> SUFFICES ASSUME NEW i \in 1..Len(completions'), NEW j \in 1..Len(completions'), i < j
               PROVE  completions'[i].job.submit < completions'[j].job.submit
    OBVIOUS
  <2>1. i \in 1..Len(completions) /\ completions'[i] = completions[i]
        /\ completions[i].job.submit \in Completed
    BY <1>2 DEF Completed
  <2>2. CASE j \in 1..Len(completions)
    BY <1>2, <2>1, <2>2 DEF OrderInv
  <2>3. CASE j = Len(completions) + 1
    BY <1>1, <1>2, <1>5, <2>1, <2>3 DEF OrderInv, Precedes
  <2> QED BY <1>6, <2>2, <2>3
<1> QED BY <1>1, <1>3, <1>4, <1>7, <1>8 DEF OrderInv, Precedes

\* The io thread starts the oldest result,
LEMMA OrderRun ==
  ASSUME TypeInv, OrderInv, RunCompletion
  PROVE  OrderInv'
<1> DEFINE first == completions[1].job.submit
<1>1. /\ Head(completions) = completions[1]
      /\ Len(completions) \in Nat \ {0} /\ Len(completions') = Len(completions) - 1
      /\ \A i \in 1..Len(completions') : completions'[i] = completions[i + 1]
  BY TailFacts DEF RunCompletion, TypeInv, TypeOK
<1>2. \A i \in 1..Len(completions') : i + 1 \in 1..Len(completions)
  BY <1>1
<1>3. UNCHANGED <<queue, working, inbox, phase, submits>> /\ io'.at # "start_each"
  BY DEF RunCompletion, Idle, uiVars, workVars, sessionVars
<1>4. Queued' = Queued /\ Worked' = Worked /\ Launched' \subseteq Launched
  BY <1>3 DEF Queued, Worked, Launched, Begun, StartWaits
<1>5. Completed' \subseteq Completed /\ first \in Completed
  BY <1>1, <1>2 DEF Completed
<1>6. Starting' \subseteq {first}
  BY <1>1 DEF RunCompletion, Starting, Idle
<1>7. \A i \in 1..Len(completions') : first < completions'[i].job.submit
  <2> TAKE i \in 1..Len(completions')
  <2>1. 1 \in 1..Len(completions) /\ i + 1 \in 1..Len(completions) /\ 1 < i + 1
    BY <1>1, <1>2
  <2> QED BY <1>1, <2>1 DEF OrderInv
<1>8. Precedes({first}, Completed')
  BY <1>7 DEF Precedes, Completed
<1>9. \A i, j \in 1..Len(completions') :
        i < j => completions'[i].job.submit < completions'[j].job.submit
  BY <1>1, <1>2 DEF OrderInv
<1>10. \A m \in Launched : m <= first
  BY <1>5, SubmitTypes DEF OrderInv, Precedes
<1> HIDE DEF first
<1> QED BY <1>3, <1>4, <1>5, <1>6, <1>8, <1>9, <1>10 DEF OrderInv, Precedes

\* and one relay of it after the other: what has been begun is not newer than
\* what is still to come, as all of it has one number.
LEMMA OrderPush ==
  ASSUME TypeInv, OrderInv, \A t, u \in io.urls : t.submit = u.submit,
         NEW s \in Sessions, PushOne(s)
  PROVE  OrderInv'
<1>1. s \in io.urls /\ UNCHANGED <<queue, working, completions, submits, inbox, phase>>
  BY DEF PushOne, uiVars, workVars, sessionVars
<1>2. Queued' = Queued /\ Worked' = Worked /\ Completed' = Completed
  BY <1>1 DEF Queued, Worked, Completed
<1>3. Starting' \subseteq Starting /\ s.submit \in Starting
  BY <1>1 DEF PushOne, Starting, TypeInv, TypeOK
<1>4. Launched' \subseteq Launched \cup {s.submit}
  <2>1. io'.session = s
    BY DEF PushOne, TypeInv, TypeOK
  <2>2. \A t \in Sessions : Begun(t)' => Begun(t) \/ t = s
    BY <1>1, <2>1 DEF Begun, StartWaits
  <2> QED BY <2>2 DEF Launched
<1>5. \A n \in Starting : n = s.submit /\ s.submit <= n
  BY <1>1, <1>3, SubmitTypes DEF Starting
<1>6. \A m \in Launched', n \in Starting' : m <= n
  BY <1>3, <1>4, <1>5 DEF OrderInv
<1> QED BY <1>1, <1>2, <1>3, <1>4, <1>6 DEF OrderInv, Precedes

\* No other step begins a session: neither those of the UI thread and the worker
LEMMA BegunUi ==
  ASSUME TypeInv, UiStep \/ WorkerStep
  PROVE  Launched' \subseteq Launched
<1> SUFFICES ASSUME NEW t \in Sessions, Begun(t)' PROVE Begun(t)
  BY DEF Launched
<1> USE DEF TypeInv
<1>1. phase' = phase /\ (io'.at = "start_each" => io' = io)
  BY DEF UiStep, NpubSubmit, NsecSubmit, HasActiveSessions, UpdateAuthKey, Exit, ExitStopOne,
         ExitClear, Shutdown, StartMonitoring, S!Clear, WorkerStep, TakeJob, PostCompletion,
         managerVars, sessionVars, TypeOK
<1>2. CASE StartWaits(t)'
  <2>1. CASE UpdateAuthKey
    <3>1. auth_key \in Calls /\ auth_key # "start" /\ Post(sessions, auth_key)
      BY <2>1, MonitorAssumption DEF UpdateAuthKey, KeyAtHand, Calls
    <3> QED BY <1>2, <3>1, PostStarts DEF Begun
  <2>2. ASSUME NEW s \in Sessions, ExitStopOne(s) PROVE Begun(t)
    <3>1. "stop" \in Calls /\ Post({s}, "stop")
      BY <2>2 DEF ExitStopOne, Calls
    <3> QED BY <1>2, <3>1, PostStarts DEF Begun
  <2>3. CASE inbox' = inbox
    BY <1>2, <2>3 DEF Begun, StartWaits
  <2> QED BY <2>1, <2>2, <2>3
    DEF UiStep, NpubSubmit, NsecSubmit, HasActiveSessions, Exit, ExitClear, Shutdown,
        StartMonitoring, WorkerStep, TakeJob, PostCompletion, managerVars
<1> QED BY <1>1, <1>2 DEF Begun

\* nor those of the io thread.
LEMMA BegunIo ==
  ASSUME TypeInv,
         \/ ClearSessions
         \/ \E s \in Sessions : \/ StopOne(s) \/ StartOne(s) \/ Deliver(s) \/ RunSession(s)
                               \/ ResetTransport(s) \/ ResetEnds(s)
  PROVE  Launched' \subseteq Launched
<1> SUFFICES ASSUME NEW t \in Sessions, Begun(t)' PROVE Begun(t)
  BY DEF Launched
<1> USE DEF TypeInv
<1>1. CASE ClearSessions
  <2>1. io.session = None /\ io'.session = io.session /\ UNCHANGED <<inbox, phase>>
    BY <1>1 DEF ClearSessions, NoCallYet, sessionVars, TypeOK
  <2> QED BY <2>1, NoJobAssumption DEF Begun, StartWaits
<1>2. ASSUME NEW s \in Sessions, StopOne(s) PROVE Begun(t)
  <2>1. io'.at # "start_each"
    BY <1>2 DEF StopOne, TypeOK
  <2>2. CASE inbox[s] = << >>
    <3>1. inbox' = inbox /\ phase' = phase
      BY <1>2, <2>2, HaltKeeps DEF StopOne, TypeOK
    <3> QED BY <2>1, <3>1 DEF Begun, StartWaits
  <2>3. CASE inbox[s] # << >>
    <3>1. "stop" \in Calls /\ Post({s}, "stop") /\ phase' = phase
      BY <1>2, <2>3 DEF StopOne, Calls, sessionVars
    <3>2. StartWaits(t)' => StartWaits(t)
      BY <3>1, PostStarts
    <3> QED BY <2>1, <3>1, <3>2 DEF Begun
  <2> QED BY <2>2, <2>3
<1>3. ASSUME NEW s \in Sessions, StartOne(s) PROVE Begun(t)
  <2>1. Begun(s)
    BY <1>3 DEF StartOne, Begun
  <2>2. io'.at = "start_each" => io'.session = None
    BY <1>3 DEF StartOne, Idle, TypeOK
  <2>3. ASSUME t # s PROVE Begun(t)
    <3>1. CASE inbox[s] = << >>
      <4>1. inbox' = inbox /\ phase'[t] = phase[t]
        BY <1>3, <2>3, <3>1, LaunchKeeps DEF StartOne, TypeOK
      <4> QED BY <2>2, <4>1, NoJobAssumption DEF Begun, StartWaits
    <3>2. CASE inbox[s] # << >>
      <4>1. "start" \in Calls /\ Post({s}, "start") /\ phase' = phase
        BY <1>3, <3>2 DEF StartOne, Calls, sessionVars
      <4>2. StartWaits(t)' => StartWaits(t)
        BY <2>3, <4>1, PostStarts
      <4> QED BY <2>2, <4>1, <4>2, NoJobAssumption DEF Begun
    <3> QED BY <3>1, <3>2
  <2> QED BY <2>1, <2>3
<1>4. ASSUME NEW s \in Sessions, Deliver(s) PROVE Begun(t)
  <2>1. io' = io /\ (StartWaits(t)' => StartWaits(t))
    BY <1>4, DeliverStarts DEF Deliver
  <2>2. CASE UNCHANGED phase
    BY <2>1, <2>2 DEF Begun
  <2>3. CASE Head(inbox[s]) = "start" /\ S!Launch(s)
    <3>1. StartWaits(s)
      BY <1>4, <2>3, DeliveredStart DEF Deliver
    <3>2. t # s => phase'[t] = phase[t]
      BY <2>3, LaunchKeeps DEF TypeOK
    <3> QED BY <2>1, <3>1, <3>2 DEF Begun
  <2>4. S!Halt(s) => UNCHANGED phase
    BY HaltKeeps DEF TypeOK
  <2> QED BY <1>4, <2>2, <2>3, <2>4 DEF Deliver, sessionVars
<1>5. ASSUME NEW s \in Sessions, RunSession(s) \/ ResetEnds(s) PROVE Begun(t)
  <2>1. S!SessionStep(s)
    BY <1>5, MovesAreSteps DEF RunSession, ResetEnds, S!SessionStep
  <2>2. phase'[t] = "new" <=> phase[t] = "new"
    BY <2>1, SessionStepKeeps DEF TypeOK
  <2>3. inbox' = inbox /\ (io'.at = "start_each" => io' = io)
    BY <1>5 DEF RunSession, ResetEnds, Idle, managerVars
  <2> QED BY <2>2, <2>3 DEF Begun, StartWaits
<1>6. ASSUME NEW s \in Sessions, ResetTransport(s) PROVE Begun(t)
  <2>1. UNCHANGED <<inbox, phase>> /\ io'.at # "start_each"
    BY <1>6 DEF ResetTransport, Idle, sessionVars
  <2> QED BY <2>1 DEF Begun, StartWaits
<1> QED BY <1>1, <1>2, <1>3, <1>4, <1>5, <1>6

\* What SessionManager::Start is about to start belongs together, and to what
\* it has started.
OneStart ==
  /\ \A s, t \in io.urls : s.submit = t.submit
  /\ io.at = "start_each" => \A s \in sessions, t \in io.urls : s.submit = t.submit


\* A step that starts nothing and manages no more keeps OneStart.
LEMMA OneStartKept ==
  ASSUME OneStart, io'.urls \subseteq io.urls, io'.at = "start_each" => io.at = "start_each",
         sessions' \subseteq sessions
  PROVE  OneStart'
BY DEF OneStart

\* The steps of the io thread inside SessionManager::Start and around it.
LEMMA OneStartIo ==
  ASSUME TypeInv, OneStart, IoStep
  PROVE  OneStart'
<1>1. CASE RunCompletion
  <2>1. io'.at # "start_each"
    BY <1>1 DEF RunCompletion, Idle
  <2>2. \A s, t \in io'.urls : s.submit = t.submit
    BY <1>1 DEF RunCompletion, Idle
  <2> QED BY <2>1, <2>2 DEF OneStart
<1>2. CASE ClearSessions
  BY <1>2 DEF ClearSessions, OneStart, TypeInv, TypeOK
<1>3. ASSUME NEW s \in Sessions, StopOne(s) PROVE OneStart'
  <2>1. io'.urls = io.urls /\ io'.at = io.at /\ sessions' = sessions
    BY <1>3 DEF StopOne, TypeInv, TypeOK
  <2> QED BY <2>1, OneStartKept
<1>4. ASSUME NEW s \in Sessions, PushOne(s) PROVE OneStart'
  <2>1. io'.urls \subseteq io.urls /\ s \in io.urls /\ io.at = "start_each"
    BY <1>4 DEF PushOne, TypeInv, TypeOK
  <2>2. sessions' = sessions \cup {s}
    BY <1>4 DEF PushOne
  <2> QED BY <2>1, <2>2 DEF OneStart
<1>5. ASSUME NEW s \in Sessions, StartOne(s) PROVE OneStart'
  <2>1. io'.urls \subseteq io.urls /\ io.at = "start_each" /\ sessions' = sessions
    BY <1>5 DEF StartOne, Idle, TypeInv, TypeOK
  <2> QED BY <2>1, OneStartKept
<1>6. ASSUME NEW s \in Sessions,
             Deliver(s) \/ RunSession(s) \/ ResetTransport(s) \/ ResetEnds(s)
      PROVE  OneStart'
  <2>1. sessions' = sessions /\ (io' = io \/ (io'.urls = {} /\ io'.at # "start_each"))
    BY <1>6, ResetFacts DEF Deliver, RunSession, managerVars
  <2> QED BY <2>1, OneStartKept
<1> QED BY <1>1, <1>2, <1>3, <1>4, <1>5, <1>6 DEF IoStep

-----------------------------------------------------------------------------
(* The invariant of the order, as a whole.                                 *)

ManagerInv == OrderInv /\ OneStart /\ OneSubmissionManaged

\* It holds initially,
LEMMA ManagerInit == Init => ManagerInv
<1> SUFFICES ASSUME Init PROVE ManagerInv
  OBVIOUS
<1>1. Queued = {} /\ Worked = {} /\ Completed = {} /\ Starting = {} /\ Launched = {}
  BY DEF Init, S!Init, Idle, Queued, Worked, Completed, Starting, Launched, Begun, StartWaits
<1>2. OrderInv
  BY <1>1 DEF Init, OrderInv, Precedes
<1>3. OneStart /\ OneSubmissionManaged
  BY DEF Init, Idle, OneStart, OneSubmissionManaged
<1> QED BY <1>2, <1>3 DEF ManagerInv

\* the UI thread and the worker preserve it,
LEMMA ManagerUi ==
  ASSUME TypeInv, ManagerInv, UiStep \/ WorkerStep
  PROVE  ManagerInv'
<1> USE DEF ManagerInv
<1>1. io'.urls \subseteq io.urls /\ (io'.at = "start_each" => io.at = "start_each")
  BY DEF UiStep, NpubSubmit, NsecSubmit, HasActiveSessions, UpdateAuthKey, Exit, ExitStopOne,
         ExitClear, Shutdown, StartMonitoring, WorkerStep, TakeJob, PostCompletion, managerVars,
         TypeInv, TypeOK
<1>2. sessions' \subseteq sessions
  BY DEF UiStep, NpubSubmit, NsecSubmit, HasActiveSessions, UpdateAuthKey, Exit, ExitStopOne,
         ExitClear, Shutdown, StartMonitoring, WorkerStep, TakeJob, PostCompletion, managerVars
<1>3. OneStart' /\ OneSubmissionManaged'
  BY <1>1, <1>2, OneStartKept DEF OneSubmissionManaged
<1>4. OrderInv'
  <2>1. ASSUME NEW pubkey \in Pubkeys, StartMonitoring(pubkey) PROVE OrderInv'
    BY <2>1, OrderSubmit
  <2>2. ASSUME UNCHANGED <<queue, working, completions, submits>> PROVE OrderInv'
    <3>1. Starting' \subseteq Starting /\ Launched' \subseteq Launched
      BY <1>1, BegunUi DEF Starting
    <3> QED BY <2>2, <3>1, OrderKept
  <2>3. ASSUME NEW pubkey \in Pubkeys, NpubSubmit(pubkey) PROVE OrderInv'
    BY <2>1, <2>3 DEF NpubSubmit
  <2>4. ASSUME NEW key \in Keys, NsecSubmit(key) PROVE OrderInv'
    BY <2>2, <2>4 DEF NsecSubmit, workVars, managerVars
  <2>5. CASE HasActiveSessions
    <3>1. OwnerOf[auth_key] \in Pubkeys
      BY <2>5, MonitorAssumption DEF HasActiveSessions, TypeInv, KeyAtHand
    <3> QED BY <2>1, <2>2, <2>5, <3>1 DEF HasActiveSessions, workVars, managerVars
  <2>6. CASE UpdateAuthKey \/ Exit \/ ExitClear \/ \E s \in Sessions : ExitStopOne(s)
    BY <2>2, <2>6 DEF UpdateAuthKey, Exit, ExitStopOne, ExitClear, workVars, managerVars
  <2>7. CASE Shutdown
    <3>1. queue' = << >> /\ UNCHANGED <<working, completions, submits>>
      BY <2>7 DEF Shutdown
    <3>2. Queued' = {} /\ Worked' = Worked /\ Completed' = Completed
          /\ Launched' \subseteq Launched /\ Starting' \subseteq Starting
      BY <1>1, <3>1, BegunUi DEF Queued, Worked, Completed, Starting
    <3> QED BY <3>1, <3>2 DEF OrderInv, Precedes
  <2>8. CASE TakeJob
    BY <2>8, OrderTake
  <2>9. ASSUME NEW urls \in SUBSET Urls, PostCompletion(urls) PROVE OrderInv'
    BY <2>9, OrderPost
  <2> QED BY <2>3, <2>4, <2>5, <2>6, <2>7, <2>8, <2>9 DEF UiStep, WorkerStep
<1> QED BY <1>3, <1>4

\* and so does the io thread.
LEMMA ManagerIo ==
  ASSUME TypeInv, ManagerInv, IoStep
  PROVE  ManagerInv'
<1> USE DEF ManagerInv
<1>1. OneStart'
  BY OneStartIo
<1>2. OneSubmissionManaged'
  <2>1. ASSUME NEW s \in Sessions, PushOne(s) PROVE OneSubmissionManaged'
    BY <2>1 DEF PushOne, OneSubmissionManaged, OneStart
  <2>2. ASSUME sessions' \subseteq sessions PROVE OneSubmissionManaged'
    BY <2>2 DEF OneSubmissionManaged
  <2> QED BY <2>1, <2>2
    DEF IoStep, RunCompletion, ClearSessions, StopOne, StartOne, Deliver, RunSession,
        ResetTransport, ResetEnds, managerVars
<1>3. OrderInv'
  <2>1. CASE RunCompletion
    BY <2>1, OrderRun
  <2>2. ASSUME NEW s \in Sessions, PushOne(s) PROVE OrderInv'
    BY <2>2, OrderPush DEF OneStart
  <2>3. ASSUME \/ ClearSessions
               \/ \E s \in Sessions : \/ StopOne(s) \/ StartOne(s) \/ Deliver(s) \/ RunSession(s)
                                     \/ ResetTransport(s) \/ ResetEnds(s)
        PROVE  OrderInv'
    <3>1. UNCHANGED <<queue, working, completions, submits>>
      BY <2>3 DEF ClearSessions, StopOne, StartOne, Deliver, RunSession, ResetTransport, ResetEnds,
                  uiVars, workVars, managerVars
    <3>2. io'.urls \subseteq io.urls
      <4>1. CASE ClearSessions
        BY <4>1 DEF ClearSessions, TypeInv, TypeOK
      <4>2. ASSUME NEW s \in Sessions, StopOne(s) PROVE io'.urls \subseteq io.urls
        BY <4>2 DEF StopOne, TypeInv, TypeOK
      <4>3. ASSUME NEW s \in Sessions, StartOne(s) PROVE io'.urls \subseteq io.urls
        BY <4>3 DEF StartOne, Idle, TypeInv, TypeOK
      <4>4. ASSUME NEW s \in Sessions, Deliver(s) \/ RunSession(s) PROVE io' = io
        BY <4>4 DEF Deliver, RunSession, managerVars
      <4> QED BY <2>3, <4>1, <4>2, <4>3, <4>4, ResetFacts
    <3>3. Launched' \subseteq Launched
      BY <2>3, BegunIo
    <3>4. Starting' \subseteq Starting
      BY <3>2 DEF Starting
    <3> QED BY <3>1, <3>3, <3>4, OrderKept
  <2> QED BY <2>1, <2>2, <2>3 DEF IoStep
<1> QED BY <1>1, <1>2, <1>3

\* Every step preserves it.
LEMMA ManagerNext == TypeInv /\ ManagerInv /\ [Next]_vars => ManagerInv'
<1> SUFFICES ASSUME TypeInv, ManagerInv, [Next]_vars PROVE ManagerInv'
  OBVIOUS
<1>1. CASE Next
  BY <1>1, ManagerUi, ManagerIo DEF Next
<1>2. CASE UNCHANGED vars
  <2>1. Starting' \subseteq Starting /\ Launched' \subseteq Launched
    BY <1>2 DEF vars, managerVars, sessionVars, Starting, Launched, Begun, StartWaits
  <2>2. OrderInv'
    BY <1>2, <2>1, OrderKept DEF ManagerInv, vars, uiVars, workVars, managerVars
  <2> QED BY <1>2, <2>2 DEF ManagerInv, OneStart, OneSubmissionManaged, vars, managerVars
<1> QED BY <1>1, <1>2

\* The sessions that are managed together belong to one submission, however
\* submissions, their completions and exits interleave.
THEOREM OneSubmission == Spec => []OneSubmissionManaged
<1>1. ManagerInv => OneSubmissionManaged
  BY DEF ManagerInv
<1> QED BY TypeInit, TypeNext, ManagerInit, ManagerNext, <1>1, PTL DEF Spec

\* A step that adds a session to sessions_ is PushOne.
LEMMA OnlyStartAdds ==
  ASSUME TypeInv, ManagerInv, Next, NEW s \in sessions' \ sessions,
         NEW t \in Sessions, phase[t] # "new"
  PROVE  t.submit <= s.submit
<1>1. PICK r \in Sessions : PushOne(r)
  BY DEF Next, UiStep, NpubSubmit, NsecSubmit, HasActiveSessions, UpdateAuthKey, Exit, ExitStopOne,
         ExitClear, Shutdown, StartMonitoring, WorkerStep, TakeJob, PostCompletion, IoStep,
         RunCompletion, ClearSessions, StopOne, StartOne, Deliver, RunSession, ResetTransport,
         ResetEnds, managerVars
<1>2. s = r /\ s \in io.urls
  BY <1>1 DEF PushOne
<1>3. t.submit \in Launched /\ s.submit \in Starting
  BY <1>2 DEF Launched, Begun, Starting
<1> QED BY <1>3 DEF ManagerInv, OrderInv

\* No submission that was overtaken by a later one ever replaces its sessions:
\* the worker, the completions and Start keep the order of the callbacks.
THEOREM OrderOfSubmissions == Spec => SubmissionsAdvance
<1>1. TypeInv /\ ManagerInv /\ [Next]_vars =>
        [\A s \in sessions' \ sessions : \A t \in Sessions :
           phase[t] # "new" => t.submit <= s.submit]_vars
  BY OnlyStartAdds
<1> QED
  BY TypeInit, TypeNext, ManagerInit, ManagerNext, <1>1, PTL DEF Spec, SubmissionsAdvance

-----------------------------------------------------------------------------
(* No session runs unmanaged before the user quits.  A session whose Start   *)
(* is still on its strand counts as running: a Stop that is to stop it must *)
(* be queued behind that Start.                                            *)

\* A Stop waits on the strand of s, and no Start behind it.
StopLast(s) ==
  \E i \in 1..Len(inbox[s]) :
    /\ inbox[s][i] = "stop"
    /\ \A j \in 1..Len(inbox[s]) : i < j => inbox[s][j] # "start"

\* The session runs, or will.
Runs(s) == (phase[s] # "new" /\ ~halted[s]) \/ StartWaits(s)

Quitting == ui \in {"stop_all", "shutdown", "exited"}

\* Between the first Stop of StopAll and the clearing of sessions_, what StopAll
\* has passed runs no longer or has its Stop; and the session that is between
\* push_back and Start is in sessions_.
StopAllInv ==
  /\ \A s \in Sessions : Runs(s) => s \in sessions \/ StopLast(s)
  /\ io.at = "stop_all" => \A s \in sessions : s \in io.todo \/ ~Runs(s) \/ StopLast(s)
  /\ io.at = "start_each" /\ io.session # None => io.session \in sessions

UnmanagedInv == ~Quitting => StopAllInv

\* A posted Stop is the last on the strand of every target, and only a posted
\* Start takes that away.
LEMMA PostStops ==
  ASSUME TypeOK, NEW targets, NEW call \in Calls, Post(targets, call), NEW t \in Sessions
  PROVE  /\ call = "stop" /\ t \in targets => StopLast(t)'
         /\ StopLast(t) /\ (call # "start" \/ t \notin targets) => StopLast(t)'
<1>1. inbox[t] \in Seq(Calls)
  BY DEF TypeOK
<1>2. CASE t \in targets
  <2>1. inbox'[t] = Append(inbox[t], call)
    BY <1>2 DEF Post
  <2>2. /\ Len(inbox[t]) \in Nat /\ Len(inbox'[t]) = Len(inbox[t]) + 1
        /\ \A i \in 1..Len(inbox[t]) : inbox'[t][i] = inbox[t][i]
        /\ inbox'[t][Len(inbox[t]) + 1] = call
    BY <1>1, <2>1, AppendFacts
  <2>3. \A i \in 1..Len(inbox'[t]) : i \in 1..Len(inbox[t]) \/ i = Len(inbox[t]) + 1
    BY <2>2
  <2>4. Len(inbox[t]) + 1 \in 1..Len(inbox'[t]) /\ 1..Len(inbox[t]) \subseteq 1..Len(inbox'[t])
    BY <2>2
  <2>5. ASSUME call = "stop" PROVE StopLast(t)'
    <3>1. \A j \in 1..Len(inbox'[t]) : ~(Len(inbox[t]) + 1 < j)
      BY <2>2
    <3> QED BY <2>2, <2>4, <2>5, <3>1 DEF StopLast
  <2>6. ASSUME StopLast(t), call # "start" PROVE StopLast(t)'
    <3>1. PICK i \in 1..Len(inbox[t]) :
            /\ inbox[t][i] = "stop"
            /\ \A j \in 1..Len(inbox[t]) : i < j => inbox[t][j] # "start"
      BY <2>6 DEF StopLast
    <3>2. i \in 1..Len(inbox'[t]) /\ inbox'[t][i] = "stop"
      BY <2>2, <2>4, <3>1
    <3>3. \A j \in 1..Len(inbox'[t]) : i < j => inbox'[t][j] # "start"
      BY <2>2, <2>3, <2>6, <3>1
    <3> QED BY <3>2, <3>3 DEF StopLast
  <2> QED BY <1>2, <2>5, <2>6
<1>3. CASE t \notin targets
  BY <1>3 DEF Post, StopLast
<1> QED BY <1>2, <1>3

\* The strand after the oldest call has run: a Stop that was the last still is,
\* unless it was that call, and then no Start waits.
LEMMA DeliverStops ==
  ASSUME TypeOK, NEW s \in Sessions, Deliver(s), StopLast(s)
  PROVE  /\ StopLast(s)' \/ Head(inbox[s]) = "stop"
         /\ StopLast(s)' \/ ~StartWaits(s)'
<1>1. inbox[s] \in Seq(Calls) /\ inbox[s] # << >> /\ inbox'[s] = Tail(inbox[s])
  BY DEF Deliver, TypeOK
<1>2. /\ Head(inbox[s]) = inbox[s][1] /\ Len(inbox[s]) \in Nat \ {0}
      /\ Len(inbox'[s]) = Len(inbox[s]) - 1
      /\ \A i \in 1..Len(inbox'[s]) : inbox'[s][i] = inbox[s][i + 1]
  BY <1>1, TailFacts
<1>3. PICK i \in 1..Len(inbox[s]) :
        /\ inbox[s][i] = "stop"
        /\ \A j \in 1..Len(inbox[s]) : i < j => inbox[s][j] # "start"
  BY DEF StopLast
<1>4. \A j \in 1..Len(inbox'[s]) : j + 1 \in 1..Len(inbox[s])
  BY <1>2
<1>5. CASE i = 1
  <2>1. \A j \in 1..Len(inbox'[s]) : inbox'[s][j] # "start"
    <3> TAKE j \in 1..Len(inbox'[s])
    <3>1. i < j + 1 /\ j + 1 \in 1..Len(inbox[s])
      BY <1>2, <1>4, <1>5
    <3> QED BY <1>2, <1>3, <3>1
  <2> QED BY <1>2, <1>3, <1>5, <2>1 DEF StartWaits
<1>6. CASE i # 1
  <2>1. i - 1 \in 1..Len(inbox'[s]) /\ (i - 1) + 1 = i
    BY <1>2, <1>3, <1>6
  <2>2. inbox'[s][i - 1] = "stop"
    BY <1>2, <1>3, <2>1
  <2>3. \A j \in 1..Len(inbox'[s]) : i - 1 < j => inbox'[s][j] # "start"
    <3> TAKE j \in 1..Len(inbox'[s])
    <3> HAVE i - 1 < j
    <3>1. i < j + 1 /\ j + 1 \in 1..Len(inbox[s])
      BY <1>2, <1>4, <2>1
    <3> QED BY <1>2, <1>3, <3>1
  <2> QED BY <2>1, <2>2, <2>3 DEF StopLast
<1> QED BY <1>5, <1>6

\* A step that lets nothing run that did not, drives out no Stop, and takes
\* nothing out of sessions_ or of io.todo.
LEMMA UnmanagedKept ==
  ASSUME TypeInv, StopAllInv,
         \A t \in Sessions : Runs(t)' => Runs(t),
         \A t \in Sessions : StopLast(t) => StopLast(t)' \/ ~Runs(t)',
         sessions' = sessions,
         io'.at = "stop_all" => io.at = "stop_all" /\ io'.todo = io.todo,
         io'.at = "start_each" => io.at = "start_each" /\ io'.session = io.session
  PROVE  StopAllInv'
<1>1. \A t \in Sessions : Runs(t)' => t \in sessions' \/ StopLast(t)'
  BY DEF StopAllInv
<1>2. io'.at = "stop_all" => \A t \in sessions' : t \in io'.todo \/ ~Runs(t)' \/ StopLast(t)'
  <2> SUFFICES ASSUME io'.at = "stop_all", NEW t \in sessions
               PROVE  t \in io'.todo \/ ~Runs(t)' \/ StopLast(t)'
    OBVIOUS
  <2>1. t \in Sessions
    BY DEF TypeInv, TypeOK
  <2> QED BY <2>1 DEF StopAllInv
<1>3. io'.at = "start_each" /\ io'.session # None => io'.session \in sessions'
  BY DEF StopAllInv
<1> QED BY <1>1, <1>2, <1>3 DEF StopAllInv

\* The UI thread and the worker preserve the invariant,
LEMMA UnmanagedUi ==
  ASSUME TypeInv, UnmanagedInv, UiStep \/ WorkerStep
  PROVE  UnmanagedInv'
<1>1. CASE Exit \/ ExitClear \/ Shutdown \/ \E s \in Sessions : ExitStopOne(s)
  <2>1. Quitting'
    BY <1>1 DEF Exit, ExitStopOne, ExitClear, Shutdown, Quitting
  <2> QED BY <2>1 DEF UnmanagedInv
<1>2. CASE UpdateAuthKey
  <2>1. /\ auth_key \in Calls /\ auth_key \notin {"start", "stop"} /\ Post(sessions, auth_key)
        /\ UNCHANGED <<io, sessions, phase, halted>> /\ ~Quitting
    BY <1>2, MonitorAssumption
    DEF UpdateAuthKey, TypeInv, KeyAtHand, Calls, Quitting, sessionVars
  <2>2. \A t \in Sessions : (Runs(t)' => Runs(t)) /\ (StopLast(t) => StopLast(t)')
    BY <2>1, PostStops, PostStarts DEF TypeInv, Runs
  <2> QED BY <2>1, <2>2, UnmanagedKept DEF UnmanagedInv
<1>3. CASE UNCHANGED <<io, sessions, inbox, phase, halted>> /\ (Quitting => Quitting')
  <2>1. \A t \in Sessions : (Runs(t)' => Runs(t)) /\ (StopLast(t) => StopLast(t)')
    BY <1>3 DEF Runs, StartWaits, StopLast
  <2> QED BY <1>3, <2>1, UnmanagedKept DEF UnmanagedInv
<1> QED BY <1>1, <1>2, <1>3
  DEF UiStep, NpubSubmit, NsecSubmit, HasActiveSessions, StartMonitoring, S!Clear, WorkerStep,
      TakeJob, PostCompletion, managerVars, sessionVars, uiVars, Quitting

\* and so do StopAll and Start on the io thread,
LEMMA UnmanagedStart ==
  ASSUME TypeInv, StopAllInv,
         RunCompletion \/ ClearSessions \/ \E s \in Sessions : StopOne(s) \/ PushOne(s) \/ StartOne(s)
  PROVE  StopAllInv'
<1> USE DEF TypeInv
<1>1. CASE RunCompletion
  <2>1. UNCHANGED <<sessions, inbox, phase, halted>> /\ io'.at # "start_each"
        /\ (io'.at = "stop_all" => io'.todo = sessions)
    BY <1>1 DEF RunCompletion, Idle, sessionVars
  <2> QED BY <2>1 DEF StopAllInv, Runs, StartWaits, StopLast
<1>2. CASE ClearSessions
  <2>1. /\ io.at = "stop_all" /\ io.todo = {} /\ sessions' = {} /\ io'.at = "start_each"
        /\ io'.session = None /\ UNCHANGED <<inbox, phase, halted>>
    BY <1>2 DEF ClearSessions, NoCallYet, sessionVars, TypeOK
  <2>2. \A t \in sessions : ~Runs(t) \/ StopLast(t)
    BY <2>1 DEF StopAllInv
  <2>3. \A t \in Sessions : Runs(t) => StopLast(t)
    BY <2>2 DEF StopAllInv
  <2>4. \A t \in Sessions : (Runs(t)' <=> Runs(t)) /\ (StopLast(t)' <=> StopLast(t))
    BY <2>1 DEF Runs, StartWaits, StopLast
  <2> QED BY <2>1, <2>3, <2>4 DEF StopAllInv
<1>3. ASSUME NEW s \in Sessions, StopOne(s) PROVE StopAllInv'
  <2>1. io'.at = io.at /\ io.at = "stop_all" /\ io'.todo = io.todo \ {s} /\ sessions' = sessions
    BY <1>3 DEF StopOne, TypeOK
  <2>2. /\ \A t \in Sessions : (Runs(t)' => Runs(t)) /\ (StopLast(t) => StopLast(t)')
        /\ ~Runs(s)' \/ StopLast(s)'
    <3>1. CASE inbox[s] = << >>
      <4>1. S!Halt(s) /\ inbox' = inbox
        BY <1>3, <3>1 DEF StopOne
      <4>2. phase' = phase /\ halted'[s] /\ \A t \in Sessions : t # s => halted'[t] = halted[t]
        BY <4>1, HaltKeeps DEF TypeOK
      <4>3. ~StartWaits(s)'
        BY <3>1, <4>1 DEF StartWaits
      <4> QED BY <4>1, <4>2, <4>3 DEF Runs, StartWaits, StopLast
    <3>2. CASE inbox[s] # << >>
      <4>1. Post({s}, "stop") /\ UNCHANGED <<phase, halted>> /\ "stop" \in Calls
        BY <1>3, <3>2 DEF StopOne, Calls, sessionVars
      <4>2. \A t \in Sessions : (StartWaits(t)' => StartWaits(t)) /\ (StopLast(t) => StopLast(t)')
        BY <4>1, PostStops, PostStarts
      <4>3. StopLast(s)'
        BY <4>1, PostStops
      <4> QED BY <4>1, <4>2, <4>3 DEF Runs
    <3> QED BY <3>1, <3>2
  <2>3. \A t \in Sessions : Runs(t)' => t \in sessions' \/ StopLast(t)'
    BY <2>1, <2>2 DEF StopAllInv
  <2>4. \A t \in sessions' : t \in io'.todo \/ ~Runs(t)' \/ StopLast(t)'
    <3> SUFFICES ASSUME NEW t \in sessions PROVE t \in io'.todo \/ ~Runs(t)' \/ StopLast(t)'
      BY <2>1
    <3>1. t \in Sessions
      BY DEF TypeOK
    <3> QED BY <2>1, <2>2, <3>1 DEF StopAllInv
  <2> QED BY <2>1, <2>3, <2>4 DEF StopAllInv
<1>4. ASSUME NEW s \in Sessions, PushOne(s) PROVE StopAllInv'
  <2>1. /\ sessions' = sessions \cup {s} /\ io'.at = "start_each" /\ io'.session = s
        /\ UNCHANGED <<inbox, phase, halted>>
    BY <1>4 DEF PushOne, TypeOK, sessionVars
  <2>2. \A t \in Sessions : (Runs(t)' <=> Runs(t)) /\ (StopLast(t)' <=> StopLast(t))
    BY <2>1 DEF Runs, StartWaits, StopLast
  <2> QED BY <2>1, <2>2 DEF StopAllInv
<1>5. ASSUME NEW s \in Sessions, StartOne(s) PROVE StopAllInv'
  <2>1. s \in sessions /\ sessions' = sessions
    BY <1>5, NoJobAssumption DEF StartOne, StopAllInv
  <2>2. io'.at # "stop_all" /\ (io'.at = "start_each" => io'.session = None)
    BY <1>5 DEF StartOne, Idle, TypeOK
  <2>3. \A t \in Sessions : t # s => (Runs(t)' => Runs(t)) /\ (StopLast(t) => StopLast(t)')
    <3>1. CASE inbox[s] = << >>
      <4>1. inbox' = inbox /\ S!Launch(s)
        BY <1>5, <3>1 DEF StartOne
      <4>2. \A t \in Sessions : t # s => phase'[t] = phase[t] /\ halted'[t] = halted[t]
        BY <4>1, LaunchKeeps DEF TypeOK
      <4> QED BY <4>1, <4>2 DEF Runs, StartWaits, StopLast
    <3>2. CASE inbox[s] # << >>
      <4>1. Post({s}, "start") /\ UNCHANGED <<phase, halted>> /\ "start" \in Calls
        BY <1>5, <3>2 DEF StartOne, Calls, sessionVars
      <4>2. \A t \in Sessions :
              t # s => (StartWaits(t)' => StartWaits(t)) /\ (StopLast(t) => StopLast(t)')
        BY <4>1, PostStops, PostStarts
      <4> QED BY <4>1, <4>2 DEF Runs
    <3> QED BY <3>1, <3>2
  <2> QED BY <2>1, <2>2, <2>3 DEF StopAllInv
<1> QED BY <1>1, <1>2, <1>3, <1>4, <1>5

\* a call from a strand,
LEMMA UnmanagedDeliver ==
  ASSUME TypeInv, StopAllInv, NEW s \in Sessions, Deliver(s)
  PROVE  StopAllInv'
<1> USE DEF TypeInv
<1>1. io' = io /\ io.at = "idle" /\ sessions' = sessions
  BY DEF Deliver
<1>2. ASSUME NEW t \in Sessions, t # s PROVE (Runs(t)' => Runs(t)) /\ (StopLast(t) => StopLast(t)')
  <2>1. inbox'[t] = inbox[t]
    BY <1>2 DEF Deliver, TypeOK
  <2>2. phase'[t] = phase[t] /\ halted'[t] = halted[t]
    BY <1>2, HaltKeeps, LaunchKeeps DEF Deliver, TypeOK, sessionVars
  <2> QED BY <2>1, <2>2 DEF Runs, StartWaits, StopLast
<1>3. ASSUME Runs(s)' PROVE s \in sessions \/ StopLast(s)'
  <2>1. CASE Head(inbox[s]) = "stop"
    <3>1. halted'[s]
      BY <2>1, HaltKeeps, MonitorAssumption DEF Deliver, TypeOK
    <3>2. StartWaits(s)'
      BY <1>3, <3>1 DEF Runs
    <3>3. s \in sessions \/ StopLast(s)
      BY <3>2, DeliverStarts DEF StopAllInv, Runs
    <3> QED BY <3>2, <3>3, DeliverStops
  <2>2. CASE Head(inbox[s]) # "stop"
    <3>1. Runs(s)
      <4>1. CASE Head(inbox[s]) = "start"
        BY <4>1, DeliveredStart DEF Deliver, Runs
      <4>2. CASE Head(inbox[s]) # "start"
        <5>1. UNCHANGED <<phase, halted>>
          BY <2>2, <4>2 DEF Deliver, sessionVars
        <5> QED BY <1>3, <5>1, DeliverStarts DEF Runs
      <4> QED BY <4>1, <4>2
    <3>2. s \in sessions \/ StopLast(s)
      BY <3>1 DEF StopAllInv
    <3> QED BY <2>2, <3>2, DeliverStops
  <2> QED BY <2>1, <2>2
<1> QED BY <1>1, <1>2, <1>3 DEF StopAllInv

\* and the handlers of a session.
LEMMA UnmanagedIo ==
  ASSUME TypeInv, UnmanagedInv, IoStep
  PROVE  UnmanagedInv'
<1>1. Quitting' <=> Quitting
  BY DEF IoStep, RunCompletion, ClearSessions, StopOne, PushOne, StartOne, Deliver, RunSession,
         ResetTransport, ResetEnds, uiVars, Quitting
<1>2. SUFFICES ASSUME StopAllInv PROVE StopAllInv'
  BY <1>1 DEF UnmanagedInv
<1>3. ASSUME NEW s \in Sessions, RunSession(s) \/ ResetTransport(s) \/ ResetEnds(s)
      PROVE  StopAllInv'
  <2>1. S!SessionStep(s) \/ UNCHANGED sessionVars
    BY <1>3, MovesAreSteps DEF RunSession, ResetTransport, ResetEnds, S!SessionStep
  <2>2. /\ \A t \in Sessions : phase[t] = "new" => phase'[t] = "new"
        /\ halted' = halted
    BY <2>1, SessionStepKeeps DEF TypeInv, TypeOK, sessionVars
  <2>3. UNCHANGED <<sessions, inbox>> /\ (io' = io \/ io'.at \in {"idle", "reset"})
    BY <1>3, ResetFacts DEF RunSession, managerVars
  <2>4. \A t \in Sessions : (Runs(t)' => Runs(t)) /\ (StopLast(t) => StopLast(t)')
    BY <2>2, <2>3 DEF Runs, StartWaits, StopLast
  <2> QED BY <1>2, <2>3, <2>4, UnmanagedKept
<1> QED BY <1>2, <1>3, UnmanagedStart, UnmanagedDeliver DEF IoStep

\* Every step preserves it.
LEMMA UnmanagedNext == TypeInv /\ UnmanagedInv /\ [Next]_vars => UnmanagedInv'
<1> SUFFICES ASSUME TypeInv, UnmanagedInv, [Next]_vars PROVE UnmanagedInv'
  OBVIOUS
<1>1. CASE Next
  BY <1>1, UnmanagedUi, UnmanagedIo DEF Next
<1>2. CASE UNCHANGED vars
  BY <1>2 DEF vars, uiVars, managerVars, sessionVars, UnmanagedInv, Quitting, StopAllInv, Runs,
              StartWaits, StopLast
<1> QED BY <1>1, <1>2

\* Until the user quits SessionManager loses no running session, although the UI
\* thread pushes keys in the middle of StopAll and between push_back and Start:
\* whatever runs is in sessions_, or has a Stop on its strand.
THEOREM NothingIsLost == Spec => []NothingRunsUnmanaged
<1>1. Init => UnmanagedInv
  BY DEF Init, S!Init, Idle, UnmanagedInv, StopAllInv, Runs, StartWaits
<1>2. UnmanagedInv => NothingRunsUnmanaged
  BY DEF UnmanagedInv, Quitting, StopAllInv, Runs, StopLast, Stopping, NothingRunsUnmanaged,
         RunningIsManaged
<1> QED BY TypeInit, TypeNext, UnmanagedNext, <1>1, <1>2, PTL DEF Spec

-----------------------------------------------------------------------------
(* Threads implements Monitor: the stops and joins of the exit are the     *)
(* single step Shutdown, and everything the other threads do while main    *)
(* waits is a step of Monitor or none.  First, the steps of the exit, in    *)
(* order.                                                                  *)

Exiting == {"stop_pool", "join_pool", "stop_worker", "join_worker", "stop_io", "join_io"}

\* The tuple of the steps, one by one.
LEMMA ExitStepsFacts ==
  /\ DOMAIN ExitSteps = 1..8
  /\ ExitSteps[1] = "running"     /\ ExitSteps[2] = "stop_pool"
  /\ ExitSteps[3] = "join_pool"   /\ ExitSteps[4] = "stop_worker"
  /\ ExitSteps[5] = "join_worker" /\ ExitSteps[6] = "stop_io"
  /\ ExitSteps[7] = "join_io"     /\ ExitSteps[8] = "returned"
BY DEF ExitSteps

\* Main is past stop_worker while it joins the worker and in every later step.
LEMMA PastStopWorker ==
  exit \in {"join_worker", "stop_io", "join_io", "returned"} => Past("stop_worker")
<1>1. 4 \in DOMAIN ExitSteps /\ 5 \in DOMAIN ExitSteps /\ 6 \in DOMAIN ExitSteps
      /\ 7 \in DOMAIN ExitSteps /\ 8 \in DOMAIN ExitSteps
  BY ExitStepsFacts
<1>2. 4 < 5 /\ 4 < 6 /\ 4 < 7 /\ 4 < 8
  OBVIOUS
<1> QED BY <1>1, <1>2, ExitStepsFacts DEF Past

-----------------------------------------------------------------------------
(* What the refinement needs.  While main exits the UI thread is in no      *)
(* callback; and the worker that was joined stays idle, because it was      *)
(* stopped before.                                                         *)

ExitInv ==
  /\ exit \in Exiting => ui = "shutdown"
  /\ exit \in {"stop_io", "join_io", "returned"} => working = None

\* Nothing has happened initially.
LEMMA ExitInit == ThreadsInit => ExitInv
BY DEF ThreadsInit, Init, ExitInv, Exiting

\* A callback of the UI thread runs only before the exit.
LEMMA CallbackKeeps ==
  ASSUME ExitInv, UiCallback
  PROVE  ExitInv' /\ Next
<1>1. exit \notin Exiting /\ exit' = exit
  BY DEF UiCallback, ExitInv, NpubSubmit, NsecSubmit, HasActiveSessions, UpdateAuthKey
<1>2. UNCHANGED working
  BY DEF UiCallback, NpubSubmit, NsecSubmit, HasActiveSessions, UpdateAuthKey, StartMonitoring,
         workVars
<1>3. Next
  BY DEF UiCallback, Next, UiStep
<1> QED BY <1>1, <1>2, <1>3 DEF ExitInv

\* Main's exit is Monitor's, or a step that Monitor does not see.
LEMMA ExitKeeps ==
  ASSUME ExitInv, StopAllRuns \/ MainExits
  PROVE  ExitInv' /\ (Next \/ UNCHANGED vars)
<1>1. CASE StopAllRuns
  <2>1. exit' = exit /\ ui # "shutdown" /\ UNCHANGED working
    BY <1>1 DEF StopAllRuns, Exit, ExitStopOne, workVars
  <2>2. Next
    BY <1>1 DEF StopAllRuns, Next, UiStep
  <2> QED BY <2>1, <2>2 DEF ExitInv
<1>2. CASE StopAllEnds
  <2>1. exit' = "stop_pool" /\ ui' = "shutdown"
    BY <1>2 DEF StopAllEnds, ExitClear
  <2>2. Next
    BY <1>2 DEF StopAllEnds, Next, UiStep
  <2> QED BY <2>1, <2>2 DEF ExitInv
<1>3. CASE StopPool \/ JoinPool \/ StopWorker \/ JoinWorker \/ StopIo
  <2>1. UNCHANGED vars /\ exit \in Exiting /\ exit' \in Exiting
    BY <1>3 DEF StopPool, JoinPool, StopWorker, JoinWorker, StopIo, ExitTo, Exiting
  <2>2. exit' \in {"stop_io", "join_io", "returned"} => working = None
    BY <1>3 DEF StopPool, JoinPool, StopWorker, JoinWorker, StopIo, ExitTo, ExitInv
  <2>3. UNCHANGED <<ui, working>>
    BY <2>1 DEF vars, uiVars, workVars
  <2> QED BY <2>1, <2>2, <2>3 DEF ExitInv
<1>4. CASE JoinIo
  <2>1. ui = "shutdown" /\ working = None /\ io.at = "idle"
    BY <1>4 DEF JoinIo, ExitInv, Exiting
  <2>2. Shutdown
    BY <1>4, <2>1 DEF JoinIo, Shutdown
  <2>3. exit' = "returned" /\ working' = None
    BY <1>4, <2>1 DEF JoinIo
  <2>4. ExitInv'
    BY <2>3 DEF ExitInv, Exiting
  <2> QED BY <2>2, <2>4 DEF Next, UiStep
<1> QED BY <1>1, <1>2, <1>3, <1>4 DEF MainExits

\* The worker takes a job only before it is stopped, and may end one after that.
LEMMA JobKeeps ==
  ASSUME ExitInv, JobTaken \/ JobEnds
  PROVE  ExitInv' /\ Next
<1>1. UNCHANGED <<ui, exit>>
  BY DEF JobTaken, JobEnds, TakeJob, PostCompletion, uiVars
<1>2. CASE JobTaken
  <2>1. exit \notin {"stop_io", "join_io", "returned"}
    BY <1>2, PastStopWorker DEF JobTaken
  <2> QED BY <1>1, <1>2, <2>1 DEF ExitInv, JobTaken, Next, WorkerStep
<1>3. CASE JobEnds
  <2>1. working' = None
    BY <1>3 DEF JobEnds, PostCompletion
  <2> QED BY <1>1, <1>3, <2>1 DEF ExitInv, JobEnds, Next, WorkerStep
<1> QED BY <1>2, <1>3

\* Completions, queued calls, Start and the TLS shutdown are Monitor's own steps.
LEMMA ManagerKeeps ==
  ASSUME ExitInv,
         \/ CompletionRuns \/ StartGoesOn
         \/ \E s \in Sessions : CallDelivered(s) \/ TimerExpires(s) \/ DialsAgain(s)
  PROVE  ExitInv' /\ Next
<1>1. UNCHANGED <<ui, working, exit>>
  BY DEF CompletionRuns, StartGoesOn, CallDelivered, TimerExpires, DialsAgain, RunCompletion,
         ClearSessions, StopOne, PushOne, StartOne, Deliver, ResetTransport, ResetEnds, uiVars,
         workVars
<1>2. Next
  BY DEF CompletionRuns, StartGoesOn, CallDelivered, TimerExpires, DialsAgain, Next, IoStep
<1> QED BY <1>1, <1>2 DEF ExitInv

\* A handler of a session is a step of the session.
LEMMA SessionKeeps ==
  ASSUME ExitInv, NEW s \in Sessions, SubscribeAndFetch(s) \/ ApplyNips(s) \/ HandlerRuns(s)
  PROVE  ExitInv' /\ (Next \/ UNCHANGED vars)
<1>1. UNCHANGED <<ui, working, exit>> /\ io.at = "idle" /\ UNCHANGED <<uiVars, workVars, managerVars>>
  BY DEF SubscribeAndFetch, ApplyNips, HandlerRuns, uiVars, workVars
<1>2. ASSUME SessionMoves(s) \/ S!Subscribe(s) \/ S!Capabilities(s) PROVE Next
  BY <1>1, <1>2 DEF RunSession, Next, IoStep
<1>3. ASSUME UNCHANGED sessionVars PROVE UNCHANGED vars
  BY <1>1, <1>3 DEF vars
<1>4. ExitInv'
  BY <1>1 DEF ExitInv
<1> QED BY <1>2, <1>3, <1>4 DEF SubscribeAndFetch, ApplyNips, HandlerRuns

\* Every step keeps the invariant, and is a step of Monitor or one it does not see.
LEMMA ThreadsStep ==
  ExitInv /\ [ThreadsNext]_threadsVars => ExitInv' /\ [Next]_vars
<1> SUFFICES ASSUME ExitInv, [ThreadsNext]_threadsVars PROVE ExitInv' /\ (Next \/ UNCHANGED vars)
  OBVIOUS
<1>1. CASE UiCallback \/ StopAllRuns \/ MainExits \/ JobTaken \/ JobEnds
  BY <1>1, CallbackKeeps, ExitKeeps, JobKeeps
<1>2. CASE \/ CompletionRuns \/ StartGoesOn
           \/ \E s \in Sessions : CallDelivered(s) \/ TimerExpires(s) \/ DialsAgain(s)
  BY <1>2, ManagerKeeps
<1>3. ASSUME NEW s \in Sessions, SubscribeAndFetch(s) \/ ApplyNips(s) \/ HandlerRuns(s)
      PROVE  ExitInv' /\ (Next \/ UNCHANGED vars)
  BY <1>3, SessionKeeps
<1>4. ASSUME NEW t \in Fetchers, TakeFetch(t) \/ FetchReturns(t)
      PROVE  ExitInv' /\ UNCHANGED vars
  <2>1. UNCHANGED vars /\ UNCHANGED exit
    BY <1>4 DEF TakeFetch, FetchReturns
  <2>2. UNCHANGED <<ui, working>>
    BY <2>1 DEF vars, uiVars, workVars
  <2> QED BY <2>1, <2>2 DEF ExitInv
<1>5. CASE UNCHANGED threadsVars
  <2>1. UNCHANGED vars /\ UNCHANGED exit
    BY <1>5 DEF threadsVars
  <2>2. UNCHANGED <<ui, working>>
    BY <2>1 DEF vars, uiVars, workVars
  <2> QED BY <2>1, <2>2 DEF ExitInv
<1> QED BY <1>1, <1>2, <1>3, <1>4, <1>5 DEF ThreadsNext

\* The exit taken apart is still the one step Monitor makes of it: when main returns no
\* job, no handler and no callback is under way, however the threads interleave.
THEOREM ThreadsKeepMonitor == ThreadsSpec => KeepsMonitor
<1>1. ThreadsInit => Init
  BY DEF ThreadsInit
<1> QED BY ExitInit, ThreadsStep, <1>1, PTL DEF ThreadsSpec, KeepsMonitor, Spec

\* So what is proved of Monitor holds of the threads: no session is lost by them either.
COROLLARY ThreadsLoseNothing == ThreadsSpec => []NothingRunsUnmanaged
BY ThreadsKeepMonitor, NothingIsLost, PTL DEF KeepsMonitor

=============================================================================
