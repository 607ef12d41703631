------------------------------- MODULE Threads -------------------------------
(***************************************************************************)
(* Monitor with its threads taken apart: the pool that fetches the NIP-11  *)
(* documents of the sessions, and main's exit, which stops and joins one   *)
(* thread after the other while those not yet stopped go on.               *)
(*                                                                         *)
(* A live session posts one fetch to background_pool_, whose threads take  *)
(* the fetches in order and block in each; a result is posted back to the  *)
(* session's strand.  A thread of a pool that is stopped takes nothing     *)
(* more, and ends after the call it is in, which nothing limits; so does   *)
(* the io thread after the handler it is in.                               *)
(***************************************************************************)
EXTENDS Monitor

CONSTANTS
  Fetchers,     \* background_threads of SessionManager: 2 in the source
  MaxFetches    \* bound: fetches waiting in the pool

ASSUME ThreadsAssumption == MaxFetches \in Nat

VARIABLES
  exit,         \* where main is after Run
  fetches,      \* fetches posted to background_pool_, oldest first
  fetching,     \* what each of its threads is in
  posted        \* sessions whose result waits on their strand

poolVars    == <<fetches, fetching, posted>>
threadsVars == <<vars, exit, poolVars>>

ExitSteps == <<"running", "stop_pool", "join_pool", "stop_worker", "join_worker",
               "stop_io", "join_io", "returned">>

\* Whether main has come past a step of its exit.
Past(step) ==
  \E i, j \in DOMAIN ExitSteps : i < j /\ ExitSteps[i] = step /\ ExitSteps[j] = exit

ThreadsInit ==
  /\ Init
  /\ exit = "running"
  /\ fetches = << >> /\ fetching = [t \in Fetchers |-> None] /\ posted = {}

-----------------------------------------------------------------------------
(* The pool.                                                               *)

\* Seeded bug: the pool is joined without having been stopped.
PoolStoppedNever == FALSE
PoolStopped      == Past("stop_pool")

\* Seeded bug: the newest fetch is taken first.
TakeFetchNewest(t) ==
  /\ ~PoolStopped
  /\ fetching[t] = None /\ fetches # << >>
  /\ fetching' = [fetching EXCEPT ![t] = fetches[Len(fetches)]]
  /\ fetches' = SubSeq(fetches, 1, Len(fetches) - 1)
  /\ UNCHANGED <<vars, exit, posted>>

TakeFetch(t) ==
  /\ ~PoolStopped
  /\ fetching[t] = None /\ fetches # << >>
  /\ fetching' = [fetching EXCEPT ![t] = Head(fetches)]
  /\ fetches' = Tail(fetches)
  /\ UNCHANGED <<vars, exit, posted>>

\* FetchRelaySupportedNips returns, with a list or without.
FetchReturns(t) ==
  /\ fetching[t] # None
  /\ fetching' = [fetching EXCEPT ![t] = None]
  /\ posted' \in {posted, posted \cup {fetching[t]}}
  /\ UNCHANGED <<vars, exit, fetches>>

-----------------------------------------------------------------------------
(* The io thread.  It takes nothing more after io_context.stop, but ends    *)
(* the handler it is in.                                                   *)

IoRuns == ~Past("stop_io")

\* The end of OnWsHandshake, with the fetch it posts to the pool.
SubscribeAndFetch(s) ==
  /\ IoRuns /\ io.at = "idle"
  /\ S!Subscribe(s)
  /\ fetches' = IF Len(fetches) < MaxFetches THEN Append(fetches, s) ELSE fetches
  /\ UNCHANGED <<uiVars, workVars, managerVars, exit, fetching, posted>>

ApplyNips(s) ==
  /\ IoRuns /\ io.at = "idle"
  /\ s \in posted
  /\ posted' = posted \ {s}
  /\ IF halted[s] THEN UNCHANGED sessionVars ELSE S!Capabilities(s)
  /\ UNCHANGED <<uiVars, workVars, managerVars, exit, fetches, fetching>>

HandlerRuns(s) ==
  /\ IoRuns /\ io.at = "idle"
  /\ SessionMoves(s)
  /\ UNCHANGED <<uiVars, workVars, managerVars, exit, poolVars>>

CompletionRuns == IoRuns /\ RunCompletion /\ UNCHANGED <<exit, poolVars>>

CallDelivered(s) == IoRuns /\ Deliver(s) /\ UNCHANGED <<exit, poolVars>>

TimerExpires(s) == IoRuns /\ ResetTransport(s) /\ UNCHANGED <<exit, poolVars>>

DialsAgain(s) == ResetEnds(s) /\ UNCHANGED <<exit, poolVars>>

\* The rest of SessionManager::Start, once it has begun.
StartGoesOn ==
  /\ \/ ClearSessions
     \/ \E s \in Sessions : StopOne(s) \/ PushOne(s) \/ StartOne(s)
  /\ UNCHANGED <<exit, poolVars>>

-----------------------------------------------------------------------------
(* The discovery worker.                                                   *)

JobTaken   == ~Past("stop_worker") /\ TakeJob /\ UNCHANGED <<exit, poolVars>>
JobEnds    == (\E urls \in SUBSET Urls : PostCompletion(urls)) /\ UNCHANGED <<exit, poolVars>>

-----------------------------------------------------------------------------
(* The UI thread.                                                          *)

UiCallback ==
  /\ \/ \E pubkey \in Pubkeys : NpubSubmit(pubkey)
     \/ \E key \in Keys : NsecSubmit(key)
     \/ HasActiveSessions
     \/ UpdateAuthKey
  /\ UNCHANGED <<exit, poolVars>>

ExitTo(step) == exit' = step /\ UNCHANGED <<vars, poolVars>>

\* Run has returned: StopAll, then Shutdown of SessionManager.
StopAllRuns ==
  /\ \/ Exit \/ \E s \in Sessions : ExitStopOne(s)
  /\ UNCHANGED <<exit, poolVars>>

StopAllEnds == ExitClear /\ exit' = "stop_pool" /\ UNCHANGED poolVars

StopPool   == exit = "stop_pool" /\ ExitTo("join_pool")
JoinPool   == exit = "join_pool" /\ (\A t \in Fetchers : fetching[t] = None) /\ ExitTo("stop_worker")
StopWorker == exit = "stop_worker" /\ ExitTo("join_worker")

\* Seeded bug: the worker is stopped and not waited for.
JoinWorkerNot == exit = "join_worker" /\ ExitTo("stop_io")
JoinWorker    == exit = "join_worker" /\ working = None /\ ExitTo("stop_io")

StopIo == exit = "stop_io" /\ ExitTo("join_io")

\* main returns; what is still queued is destroyed unrun.
JoinIo ==
  /\ exit = "join_io"
  /\ io.at = "idle"
  /\ exit' = "returned"
  /\ ui' = "exited"
  /\ io' = [io EXCEPT !.at = "stopped"]
  /\ queue' = << >>
  /\ UNCHANGED <<header, auth_key, submits, exit_todo, working, completions, sessions, inbox,
                 session_key, sessionVars, poolVars>>

MainExits ==
  \/ ui = "stop_all" /\ StopAllRuns
  \/ StopAllEnds
  \/ StopPool \/ JoinPool \/ StopWorker \/ JoinWorker \/ StopIo \/ JoinIo

-----------------------------------------------------------------------------

ThreadsNext ==
  \/ UiCallback \/ StopAllRuns \/ MainExits
  \/ JobTaken \/ JobEnds
  \/ CompletionRuns \/ StartGoesOn
  \/ \E s \in Sessions : CallDelivered(s) \/ SubscribeAndFetch(s) \/ ApplyNips(s) \/ HandlerRuns(s)
                          \/ TimerExpires(s) \/ DialsAgain(s)
  \/ \E t \in Fetchers : TakeFetch(t) \/ FetchReturns(t)

ThreadsSpec == ThreadsInit /\ [][ThreadsNext]_threadsVars

(* main goes on with its exit, a handler of the io thread comes to its end, *)
(* and a free thread of the pool takes the next fetch.  Nothing is assumed  *)
(* of the network: neither a fetch nor a job nor a TLS shutdown needs to end. *)
ThreadsFairness ==
  /\ WF_threadsVars(MainExits)
  /\ WF_threadsVars(StartGoesOn)
  /\ \A t \in Fetchers : WF_threadsVars(TakeFetch(t))

FairThreadsSpec == ThreadsSpec /\ ThreadsFairness

-----------------------------------------------------------------------------
(* Properties.                                                             *)

\* A thread of the pool is in a call that never returns.
Stuck(t) == <>[](fetching[t] # None)

\* The program ends once the user quits, unless a call of the network that was
\* under way never returns: nothing that is started, retried or posted while
\* main waits can hold it, and no two joins wait for one another.
ExitEnds ==
  <>[](ui \in {"stop_all", "shutdown"}) =>
    \/ \E t \in Fetchers : Stuck(t)
    \/ <>[](working # None)
    \/ IoStuck

Waiting(s) == \E i \in DOMAIN fetches : fetches[i] = s

\* Relays that do not answer hold up the fetches of the others only when they
\* hold all threads of the pool.
QueuedFetchRuns ==
  \A s \in Sessions :
    \/ []<>(~Waiting(s) \/ ui # "idle" \/ \E t \in Fetchers : fetching[t] = s)
    \/ \A t \in Fetchers : Stuck(t)

\* Taken apart, the exit is still the one step Monitor makes of it: when main
\* returns no job, no handler and no callback is under way.
KeepsMonitor == Spec

=============================================================================
