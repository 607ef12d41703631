------------------------------- MODULE Monitor -------------------------------
(***************************************************************************)
(* The program around the sessions: main's two submit callbacks and its    *)
(* exit on the UI thread, the bootstrap worker, and SessionManager, whose  *)
(* Start runs in a bootstrap completion on the io thread.  The sessions    *)
(* are those of SessionContract; a session is named by the submission it   *)
(* was started for and its relay.                                          *)
(*                                                                         *)
(* The UI thread and the io thread both use sessions_, without a lock.  A  *)
(* call on a session from the io thread runs at once unless calls from the *)
(* UI thread are queued on the session's strand, behind which it waits in  *)
(* inbox[s].  StopAll, on either thread, and the loop of Start take one    *)
(* session per step, and push_back and Start are steps of their own;       *)
(* UpdateAuthKey is one step.  A loop's range is fixed when it begins; what *)
(* the C++ memory model says of the vector is the property VectorNotShared. *)
(*                                                                         *)
(* The io thread makes one blocking call: the TLS shutdown of a session    *)
(* that dials again, which has no deadline.                                *)
(***************************************************************************)
EXTENDS Integers, Sequences, FiniteSets

CONSTANTS
  Urls, Pubkeys, Keys,
  OwnerOf,       \* the public key derived from a private one
  None,          \* no key, no pubkey, no job
  Budget,        \* kMaxReconnectAttempts
  MaxSubmits,    \* bound: bootstraps started
  MaxInbox       \* bound: calls on one strand when the UI thread pushes a key

ASSUME MonitorAssumption ==
  /\ OwnerOf \in [Keys -> Pubkeys]
  /\ None \notin Keys \cup Pubkeys
  /\ Keys \cap {"start", "stop"} = {}
  /\ Budget \in Nat /\ MaxSubmits \in Nat /\ MaxInbox \in Nat \ {0}

Sessions == [submit : 1..MaxSubmits, url : Urls]
UrlOf    == [s \in Sessions |-> s.url]

Jobs == [submit : 1..MaxSubmits, pubkey : Pubkeys, key : Keys \cup {None}]

ASSUME NoJobAssumption == None \notin Jobs \cup Sessions

VARIABLES
  \* the UI thread
  ui,            \* where it is in a callback or in main's exit
  header,        \* hex_pubkey of the header context
  auth_key,      \* main's auth_key
  submits,       \* bootstraps started
  exit_todo,     \* sessions that StopAll, called by main's exit, has yet to stop
  \* the bootstrap worker
  queue,         \* jobs posted to worker_pool_
  working,       \* the job it works on
  \* the io thread
  completions,   \* results posted to io_context
  io,            \* where it is in SessionManager::Start or in a TLS shutdown
  sessions,      \* sessions_, as a set
  inbox,         \* calls waiting on each session's strand
  session_key,   \* auth_key_ of each session
  \* the sessions
  phase, halted, budget, closing, shown

S == INSTANCE SessionContract

sessionVars == <<phase, halted, budget, closing, shown>>
uiVars      == <<ui, header, auth_key, submits, exit_todo>>
workVars    == <<queue, working>>
managerVars == <<completions, io, sessions, inbox, session_key>>
vars        == <<uiVars, workVars, managerVars, sessionVars>>

IoSteps == {"idle", "stop_all", "start_each", "reset", "stopped"}

\* What can wait on a strand.
Calls == Keys \cup {"start", "stop"}

Results == [job : Jobs, urls : SUBSET Urls]

\* The types of main's, the worker's and SessionManager's state.
TypeOK ==
  /\ S!TypeOK
  /\ ui \in {"idle", "has_sessions", "update_keys", "stop_all", "shutdown", "exited"}
  /\ header \in Pubkeys \cup {None}
  /\ auth_key \in Keys \cup {None}
  /\ submits \in 0..MaxSubmits
  /\ exit_todo \subseteq Sessions
  /\ queue \in Seq(Jobs)
  /\ working \in Jobs \cup {None}
  /\ completions \in Seq(Results)
  /\ io \in [at : IoSteps, todo : SUBSET Sessions, urls : SUBSET Sessions, key : Keys \cup {None},
             session : Sessions \cup {None}]
  /\ sessions \subseteq Sessions
  /\ inbox \in [Sessions -> Seq(Calls)]
  /\ session_key \in [Sessions -> Keys \cup {None}]

Idle == [at |-> "idle", todo |-> {}, urls |-> {}, key |-> None, session |-> None]

Init ==
  /\ S!Init
  /\ ui = "idle" /\ header = None /\ auth_key = None /\ submits = 0 /\ exit_todo = {}
  /\ queue = << >> /\ working = None
  /\ completions = << >> /\ io = Idle /\ sessions = {}
  /\ inbox = [s \in Sessions |-> << >>]
  /\ session_key = [s \in Sessions |-> None]

-----------------------------------------------------------------------------
(* The UI thread.                                                          *)

\* SetHeaderContext, Reset, the snapshot of auth_key, ResolveRelaysForPubkey.
StartMonitoring(pubkey) ==
  /\ submits < MaxSubmits
  /\ submits' = submits + 1
  /\ header' = pubkey
  /\ S!Clear
  /\ queue' = Append(queue, [submit |-> submits + 1, pubkey |-> pubkey, key |-> auth_key])
  /\ UNCHANGED <<working, exit_todo, managerVars>>

\* An npub that does not decode is logged and changes nothing.
NpubSubmit(pubkey) ==
  /\ ui = "idle"
  /\ StartMonitoring(pubkey)
  /\ UNCHANGED <<ui, auth_key>>

\* The nsec callback up to HasActiveSessions.
NsecSubmit(key) ==
  /\ ui = "idle"
  /\ submits < MaxSubmits \/ sessions # {}
  /\ auth_key' = key
  /\ ui' = "has_sessions"
  /\ UNCHANGED <<header, submits, exit_todo, workVars, managerVars, sessionVars>>

\* Seeded bug: the header shows the private key, not the public one.
HasActiveSessionsRaw ==
  /\ ui = "has_sessions"
  /\ \/ /\ sessions # {}
        /\ ui' = "update_keys"
        /\ UNCHANGED <<header, submits, exit_todo, workVars, managerVars, sessionVars>>
     \/ /\ sessions = {}
        /\ ui' = "idle"
        /\ StartMonitoring(auth_key)
  /\ UNCHANGED auth_key

HasActiveSessions ==
  /\ ui = "has_sessions"
  /\ \/ /\ sessions # {}
        /\ ui' = "update_keys"
        /\ UNCHANGED <<header, submits, exit_todo, workVars, managerVars, sessionVars>>
     \/ /\ sessions = {}
        /\ ui' = "idle"
        /\ StartMonitoring(OwnerOf[auth_key])
  /\ UNCHANGED auth_key

\* A call from another thread, or behind such a call, is queued on the strand.
Post(targets, call) ==
  inbox' = [s \in Sessions |-> IF s \in targets THEN Append(inbox[s], call) ELSE inbox[s]]

\* Seeded bug: sessions that are not connected are passed over.
UpdateAuthKeyLiveOnly ==
  /\ ui = "update_keys"
  /\ \A s \in sessions : Len(inbox[s]) < MaxInbox
  /\ Post({s \in sessions : phase[s] = "live"}, auth_key)
  /\ ui' = "idle"
  /\ UNCHANGED <<header, auth_key, submits, exit_todo, workVars, completions, io, sessions,
                 session_key, sessionVars>>

UpdateAuthKey ==
  /\ ui = "update_keys"
  /\ \A s \in sessions : Len(inbox[s]) < MaxInbox
  /\ Post(sessions, auth_key)
  /\ ui' = "idle"
  /\ UNCHANGED <<header, auth_key, submits, exit_todo, workVars, completions, io, sessions,
                 session_key, sessionVars>>

\* Run has returned: main calls StopAll,
Exit ==
  /\ ui = "idle"
  /\ ui' = "stop_all"
  /\ exit_todo' = sessions
  /\ UNCHANGED <<header, auth_key, submits, workVars, managerVars, sessionVars>>

\* which posts Stop to one session after the other
ExitStopOne(s) ==
  /\ ui = "stop_all"
  /\ s \in exit_todo
  /\ exit_todo' = exit_todo \ {s}
  /\ Post({s}, "stop")
  /\ UNCHANGED <<ui, header, auth_key, submits, workVars, completions, io, sessions, session_key,
                 sessionVars>>

\* and clears sessions_, whatever the io thread has put there meanwhile.
ExitClear ==
  /\ ui = "stop_all"
  /\ exit_todo = {}
  /\ sessions' = {}
  /\ ui' = "shutdown"
  /\ UNCHANGED <<header, auth_key, submits, exit_todo, workVars, completions, io, inbox,
                 session_key, sessionVars>>

\* bootstrap.Shutdown drops the queued jobs and waits for the running one;
\* then the io thread is stopped and joined.
Shutdown ==
  /\ ui = "shutdown"
  /\ working = None
  /\ io.at = "idle"
  /\ queue' = << >>
  /\ io' = [io EXCEPT !.at = "stopped"]
  /\ ui' = "exited"
  /\ UNCHANGED <<header, auth_key, submits, exit_todo, working, completions, sessions, inbox,
                 session_key, sessionVars>>

-----------------------------------------------------------------------------
(* The bootstrap worker: one thread, jobs in the order they were posted.   *)

\* Seeded bug: last in, first out.
TakeJobNewest ==
  /\ working = None
  /\ queue # << >>
  /\ working' = queue[Len(queue)]
  /\ queue' = SubSeq(queue, 1, Len(queue) - 1)
  /\ UNCHANGED <<uiVars, managerVars, sessionVars>>

TakeJob ==
  /\ working = None
  /\ queue # << >>
  /\ working' = Head(queue)
  /\ queue' = Tail(queue)
  /\ UNCHANGED <<uiVars, managerVars, sessionVars>>

\* Relays found, or the fallback set; none when every seed has failed.
PostCompletion(urls) ==
  /\ working # None
  /\ completions' = Append(completions, [job |-> working, urls |-> urls])
  /\ working' = None
  /\ UNCHANGED <<uiVars, queue, io, sessions, inbox, session_key, sessionVars>>

-----------------------------------------------------------------------------
(* The io thread: the completion callback and SessionManager::Start.  While *)
(* it is in Start it runs no other handler.                                *)

\* Seeded bug: no StopAll before the sessions are replaced.
RunCompletionNoStop ==
  /\ io.at = "idle"
  /\ completions # << >>
  /\ LET result == Head(completions) IN
       io' = IF result.urls = {} THEN Idle
             ELSE [at   |-> "stop_all",
                   todo |-> {},
                   urls |-> {[submit |-> result.job.submit, url |-> u] : u \in result.urls},
                   key  |-> result.job.key,
                   session |-> None]
  /\ completions' = Tail(completions)
  /\ UNCHANGED <<uiVars, workVars, sessions, inbox, session_key, sessionVars>>

RunCompletion ==
  /\ io.at = "idle"
  /\ completions # << >>
  /\ LET result == Head(completions) IN
       io' = IF result.urls = {} THEN Idle
             ELSE [at   |-> "stop_all",
                   todo |-> sessions,
                   urls |-> {[submit |-> result.job.submit, url |-> u] : u \in result.urls},
                   key  |-> result.job.key,
                   session |-> None]
  /\ completions' = Tail(completions)
  /\ UNCHANGED <<uiVars, workVars, sessions, inbox, session_key, sessionVars>>

\* One session of StopAll.
StopOne(s) ==
  /\ io.at = "stop_all"
  /\ s \in io.todo
  /\ io' = [io EXCEPT !.todo = @ \ {s}]
  /\ IF inbox[s] = << >> THEN S!Halt(s) /\ UNCHANGED inbox
     ELSE Post({s}, "stop") /\ UNCHANGED sessionVars
  /\ UNCHANGED <<uiVars, workVars, completions, sessions, session_key>>

\* Seeded bug: sessions_ is not cleared.
ClearSessionsNot ==
  /\ io.at = "stop_all"
  /\ io.todo = {}
  /\ io' = [io EXCEPT !.at = "start_each"]
  /\ UNCHANGED <<uiVars, workVars, completions, sessions, inbox, session_key, sessionVars>>

ClearSessions ==
  /\ io.at = "stop_all"
  /\ io.todo = {}
  /\ sessions' = {}
  /\ io' = [io EXCEPT !.at = "start_each"]
  /\ UNCHANGED <<uiVars, workVars, completions, inbox, session_key, sessionVars>>

\* One relay of Start: SetAuthKey and push_back,
PushOne(s) ==
  /\ io.at = "start_each" /\ io.session = None
  /\ s \in io.urls
  /\ session_key' = [session_key EXCEPT ![s] = io.key]
  /\ sessions' = sessions \cup {s}
  /\ io' = [io EXCEPT !.urls = @ \ {s}, !.session = s]
  /\ UNCHANGED <<uiVars, workVars, completions, inbox, sessionVars>>

\* and Start, which waits behind what the UI thread has posted in between.
StartOne(s) ==
  /\ io.at = "start_each" /\ io.session = s
  /\ io' = IF io.urls = {} THEN Idle ELSE [io EXCEPT !.session = None]
  /\ IF inbox[s] = << >> THEN S!Launch(s) /\ UNCHANGED inbox
     ELSE Post({s}, "start") /\ UNCHANGED sessionVars
  /\ UNCHANGED <<uiVars, workVars, completions, sessions, session_key>>

\* A posted call runs on the session's strand.
Deliver(s) ==
  /\ io.at = "idle"
  /\ inbox[s] # << >>
  /\ inbox' = [inbox EXCEPT ![s] = Tail(@)]
  /\ LET call == Head(inbox[s]) IN
       \/ call = "stop"  /\ S!Halt(s)   /\ UNCHANGED session_key
       \/ call = "start" /\ S!Launch(s) /\ UNCHANGED session_key
       \/ call \in Keys  /\ session_key' = [session_key EXCEPT ![s] = call] /\ UNCHANGED sessionVars
  /\ UNCHANGED <<uiVars, workVars, completions, io, sessions>>

\* Handlers of a session that do not block, but for the end of a handshake and a
\* list of capabilities.
SessionMoves(s) ==
  \/ S!Advance(s) \/ S!Frame(s) \/ S!Fail(s) \/ S!CloseEnds(s)
  \/ halted[s] /\ S!Redial(s)

RunSession(s) ==
  /\ io.at = "idle"
  /\ SessionMoves(s) \/ S!Subscribe(s) \/ S!Capabilities(s)
  /\ UNCHANGED <<uiVars, workVars, managerVars>>

\* The retry timer has expired: ResetTransportForReconnect says goodbye to the
\* old stream and waits for the answer.
ResetTransport(s) ==
  /\ io.at = "idle"
  /\ phase[s] = "backoff" /\ ~halted[s]
  /\ io' = [Idle EXCEPT !.at = "reset", !.session = s]
  /\ UNCHANGED <<uiVars, workVars, completions, sessions, inbox, session_key, sessionVars>>

\* The answer has come, or the connection has broken: the new dial.
ResetEnds(s) ==
  /\ io.at = "reset" /\ io.session = s
  /\ io' = Idle
  /\ S!Redial(s)
  /\ UNCHANGED <<uiVars, workVars, completions, sessions, inbox, session_key>>

-----------------------------------------------------------------------------

UiStep ==
  \/ \E pubkey \in Pubkeys : NpubSubmit(pubkey)
  \/ \E key \in Keys : NsecSubmit(key)
  \/ HasActiveSessions
  \/ UpdateAuthKey
  \/ Exit
  \/ \E s \in Sessions : ExitStopOne(s)
  \/ ExitClear
  \/ Shutdown

WorkerStep == TakeJob \/ \E urls \in SUBSET Urls : PostCompletion(urls)

IoStep ==
  \/ RunCompletion
  \/ ClearSessions
  \/ \E s \in Sessions : StopOne(s) \/ PushOne(s) \/ StartOne(s) \/ Deliver(s)
                          \/ RunSession(s) \/ ResetTransport(s) \/ ResetEnds(s)

Next == UiStep \/ WorkerStep \/ IoStep

Spec == Init /\ [][Next]_vars

-----------------------------------------------------------------------------
(* Fairness: a callback that the UI thread is in goes on, and an io thread  *)
(* that comes back for more runs the calls queued on the strands, each in   *)
(* its turn.  Nothing is assumed of what comes from the network: a job of   *)
(* the worker and a TLS shutdown need not end.                              *)

Fairness == WF_vars(HasActiveSessions) /\ WF_vars(UpdateAuthKey)
            /\ \A s \in Sessions : SF_vars(Deliver(s))

FairSpec == Spec /\ Fairness

-----------------------------------------------------------------------------
(* Properties.                                                             *)

Stopping(s) == \E i \in 1..Len(inbox[s]) : inbox[s][i] = "stop"

\* No bootstrap is under way and Start is not running.
Settled ==
  queue = << >> /\ working = None /\ completions = << >> /\ io.at \in {"idle", "reset"}

\* A session that runs is in sessions_, or its Stop is on the way.
RunningIsManaged ==
  \A s \in Sessions : phase[s] # "new" /\ ~halted[s] => s \in sessions \/ Stopping(s)

\* Until the user quits, SessionManager loses no session, although the UI thread
\* pushes keys in the middle of StopAll and of Start.
NothingRunsUnmanaged == ui \notin {"stop_all", "shutdown", "exited"} => RunningIsManaged

\* The sessions that are managed together belong to one submission.
OneSubmissionManaged == \A s, t \in sessions : s.submit = t.submit

\* A submission that is overtaken by a later one never replaces its sessions.
SubmissionsAdvance ==
  [][\A s \in sessions' \ sessions : \A t \in Sessions :
       phase[t] # "new" => t.submit <= s.submit]_vars

\* The io thread stays in a TLS shutdown for ever.
IoStuck == <>[](io.at = "reset")

\* A key pushed while no bootstrap is under way reaches every running session,
\* unless the user submits something else or quits first, or a relay that does
\* not answer a TLS shutdown holds the io thread.
PushedKeyArrives ==
  \/ IoStuck
  \/ (ui = "update_keys" /\ Settled) ~>
       \/ \A s \in sessions : session_key[s] = auth_key
       \/ ~Settled \/ ui \in {"has_sessions", "stop_all", "shutdown", "exited"}

-----------------------------------------------------------------------------
(* What comments and documents say, and the model refutes.                  *)

\* main.cpp:175, "push the new key to them without restarting.  Each session
\* will use it on the next AUTH challenge": at rest, the sessions of the last
\* submission have it.
NewestKeyReachesSessions ==
  Settled /\ ui = "idle" =>
    \A s \in sessions :
      s.submit = submits /\ inbox[s] = << >> => session_key[s] = auth_key

\* README.md:158, "Entering nsec1... in Insert mode starts monitoring immediately
\* after deriving the matching npub": what is monitored after the callback is the
\* owner of the key.  The callback is the one :auth uses and cannot tell them apart.
NsecStartsMonitoring == [][HasActiveSessions => header' = OwnerOf[auth_key]]_vars

\* copilot-instructions.md:12, "update shared state through RelayStats and
\* LogBuffer only": sessions_ is not used by both threads at a time.
VectorNotShared ==
  ~(ui \in {"update_keys", "stop_all"} /\ io.at \in {"stop_all", "start_each"})

\* README.md:3, the relays "for a given npub": at rest the sessions are those
\* of the npub in the header.
HeaderMatchesSessions == Settled => \A s \in sessions : s.submit = submits

\* README.md:3 again: at rest, with the last submission monitored and nothing
\* left of earlier sessions, the table has rows of monitored relays only.
NoGhostRows ==
  /\ Settled /\ ui = "idle"
  /\ \E s \in sessions : s.submit = submits
  /\ (\A s \in Sessions \ sessions : phase[s] \in {"new", "down"} /\ ~closing[s])
  => \A u \in Urls : shown[u] # "absent" => \E s \in sessions : s.url = u

\* session_manager.cpp:63, "The io_context must continue running for sessions
\* to fully terminate": every session has been stopped when the io thread is.
ExitStopsSessions == ui = "exited" => \A s \in Sessions : phase[s] # "new" => halted[s]

=============================================================================
