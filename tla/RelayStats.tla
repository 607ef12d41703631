------------------------------ MODULE RelayStats ------------------------------
(***************************************************************************)
(* model::RelayStats: the table of per-relay rows that every session       *)
(* writes and the UI reads.  Each method holds the mutex from its first to *)
(* its last statement, so a method is one operator from the old value of   *)
(* the table to the new one; the modules of the sessions own the variable. *)
(*                                                                         *)
(* The table is a function whose domain is the set of relays that have a   *)
(* row.  A row's latency_ms is the last element of its latency history and *)
(* its connected_at is kept as "is it set".                                *)
(***************************************************************************)
EXTENDS Integers, Sequences, FiniteSets

CONSTANTS Urls,                   \* relay URLs
          NipSets,                \* contents of supported_nips, without duplicates
          kLatencyHistoryWindow   \* latency samples kept per relay

ASSUME WindowAssumption == kLatencyHistoryWindow \in Nat \ {0}

RelayStatus == {"Disconnected", "Resolving", "Connecting", "TlsHandshake",
                "WsHandshake", "Subscribed", "Error"}

\* What failed: the text before the ':' of a row's last_error.
LastErrors == {"none", "invalid relay URL", "unsupported ws:// relay URL", "resolve",
               "connect", "set_sni", "tls_handshake", "ws_handshake", "write_req", "read"}

RelayStat == [status : RelayStatus, last_error : LastErrors, connected_at : BOOLEAN,
              events_count : Nat, latency_history_ms : Seq(Nat),
              supported_nips : NipSets \cup {{}}]

NewStat == [status |-> "Disconnected", last_error |-> "none", connected_at |-> FALSE,
            events_count |-> 0, latency_history_ms |-> << >>, supported_nips |-> {}]

IsTable(table) ==
  /\ table = [u \in DOMAIN table |-> table[u]]
  /\ DOMAIN table \subseteq Urls
  /\ \A u \in DOMAIN table : table[u] \in RelayStat

-----------------------------------------------------------------------------

\* What Reset leaves.
EmptyTable == [u \in {} |-> NewStat]

\* by_relay_[u], which makes a row when there is none, and the table with row r at u.
RowOf(table, u) == IF u \in DOMAIN table THEN table[u] ELSE NewStat

PutRow(table, u, r) == [v \in DOMAIN table \cup {u} |-> IF v = u THEN r ELSE table[v]]

EnsureRelay(table, u) == PutRow(table, u, RowOf(table, u))

\* Seeded bug: a row that is not there is not written.
SetStatusFound(table, u, status, error) ==
  IF u \in DOMAIN table
  THEN PutRow(table, u, [RowOf(table, u) EXCEPT !.status = status, !.last_error = error,
                                                !.connected_at = (status = "Subscribed")])
  ELSE table

SetStatus(table, u, status, error) ==
  PutRow(table, u, [RowOf(table, u) EXCEPT !.status = status, !.last_error = error,
                                           !.connected_at = (status = "Subscribed")])

\* The newest kLatencyHistoryWindow samples of a history.
Newest(history) ==
  IF Len(history) <= kLatencyHistoryWindow THEN history
  ELSE SubSeq(history, Len(history) - kLatencyHistoryWindow + 1, Len(history))

RecordLatency(table, u, ms) ==
  PutRow(table, u, [RowOf(table, u) EXCEPT !.latency_history_ms = Newest(Append(@, ms))])

IncrementEvent(table, u) ==
  PutRow(table, u, [RowOf(table, u) EXCEPT !.events_count = @ + 1])

SetSupportedNips(table, u, nips) ==
  PutRow(table, u, [RowOf(table, u) EXCEPT !.supported_nips = nips])

=============================================================================
