--------------------------- MODULE SignalDelivery ---------------------------
(***************************************************************************)
(* What leaves a deep run and what a connected client learns of it: the     *)
(* persistence loop of funnel/deep.ts, the alert loop of index.ts with      *)
(* alerts/index.ts, and the event stream of apps/web/app/api/sse/route.ts.  *)
(*                                                                         *)
(* A run is named by its generatedAt, the instant it started, which all of  *)
(* its signals carry; no two runs share it.  There is at most one run a     *)
(* day, so an instant is also a day.  The trading date of a signal is that  *)
(* of the last bar of its history, the run's day or, for a symbol that was  *)
(* not traded or published, an earlier one: the row of a symbol and a date  *)
(* may be written by several runs.  Runs do not overlap and an alert's      *)
(* cooldown (15 min) is over when the next run comes, so its key is left    *)
(* out.  A poll of the stream reads at most 200 rows, twenty runs, and the  *)
(* limit is left out.  The messages the worker publishes have a type that   *)
(* the relay does not forward, so that clients learn of signals from the    *)
(* polls alone.                                                             *)
(***************************************************************************)
EXTENDS Integers, FiniteSets

CONSTANTS Symbols,     \* symbols of the watchlist
          Categories,  \* categories of a signal
          Findings,    \* what a run may find of a symbol: its category and the days since its last bar
          Clients,     \* connections of the event stream
          MaxPolls,    \* bound of the model: polls of a connection in progress at once
          MaxTime      \* bound of the model: instants

ASSUME DeliveryAssumption ==
  /\ Findings \subseteq [symbol : Symbols, category : Categories, lag : Nat]
  /\ MaxPolls \in Nat \ {0}
  /\ MaxTime \in Nat \ {0}

VARIABLES now,        \* environment: the clock
          run,        \* instant of the run in progress, 0 when there is none
          step,       \* what the worker does next
          left,       \* symbols whose signals are still to be persisted
          active,     \* activeWatchlist: the run's signals still to be looked at
          alert,      \* the signal whose alert is logged and not yet published
          rows,       \* table signal, unique by symbol and date
          logged,     \* table alert_log: its idempotency keys
          published,  \* history: signals announced on idx:signals
          opened,     \* instant each connection was opened, or Closed
          cursor,     \* lastSeenGeneratedAt
          results,    \* rows selected by the polls in progress
          sent        \* history: signals that signal_update events announced

worker == <<run, step, left, active, alert>>
tables == <<rows, logged>>
stream == <<opened, cursor, results, sent>>
vars   == <<now, worker, tables, published, stream>>

Times   == 0 .. MaxTime
Closed  == -1
Signals == Times \X Symbols
Rows    == [symbol : Symbols, date : Times, at : Times, category : Categories]

Persisted(sig) == \E row \in rows : row.at = sig[1] /\ row.symbol = sig[2]

\* The signal of a run.
Row(f, t) == [symbol |-> f.symbol, date |-> t - f.lag, at |-> t, category |-> f.category]

\* idempotencyKeyFor
Key(row) == <<row.symbol, row.date, row.category>>

\* The table may hold the signals of a run before the first one modelled.
Init ==
  /\ now = 0
  /\ run = 0 /\ step = "idle" /\ left = {} /\ active = {} /\ alert = {}
  /\ rows \in SUBSET {Row(f, 0) : f \in {g \in Findings : g.lag = 0}}
  /\ \A r \in rows, q \in rows : r.symbol = q.symbol => r = q
  /\ logged = {} /\ published = {}
  /\ opened = [c \in Clients |-> Closed] /\ cursor = [c \in Clients |-> 0]
  /\ results = [c \in Clients |-> {}] /\ sent = [c \in Clients |-> {}]

-----------------------------------------------------------------------------
(* The worker.                                                             *)

\* runDeepFunnel starts and, some fetches later, has its watchlist.
StartRun ==
  /\ step = "idle" /\ now > 0 /\ \A row \in rows : row.at < now
  /\ run' = now /\ step' = "persist"
  /\ left' \in SUBSET Symbols
  /\ UNCHANGED <<now, active, alert, tables, published, stream>>

\* Upsert on symbol and date.
Upsert(row) ==
  {other \in rows : other.symbol # row.symbol \/ other.date # row.date} \cup {row}

\* insertSignal of the next candidate, dated by the last bar of its history.
Persist(s) ==
  /\ step = "persist" /\ s \in left
  /\ \E f \in Findings :
       /\ f.symbol = s /\ f.lag <= run
       /\ rows' = Upsert(Row(f, run))
       /\ active' = active \cup {Row(f, run)}
  /\ left' = left \ {s}
  /\ UNCHANGED <<now, run, step, alert, logged, published, stream>>

\* All signals are persisted before the first alert.
BeginAlerts ==
  /\ step = "persist" /\ left = {}
  /\ step' = "alerts"
  /\ UNCHANGED <<now, run, left, active, alert, tables, published, stream>>

\* The SELECT of the previous category, with LIMIT 1 and no order, meets any row of the
\* symbol, the one just persisted included.
Previous(row) == {other \in rows : other.symbol = row.symbol}

\* MUTANT: a signal is alerted on whenever its cooldown is over.
MutAlerted(row) == FALSE

Alerted(row) == Key(row) \in logged

\* The category differs and was not alerted on for that date: the alert is logged.
LogAlert(row) ==
  /\ step = "alerts" /\ row \in active
  /\ \E previous \in Previous(row) : previous.category # row.category
  /\ ~Alerted(row)
  /\ logged' = logged \cup {Key(row)} /\ alert' = {row}
  /\ step' = "publish" /\ active' = active \ {row}
  /\ UNCHANGED <<now, run, left, rows, published, stream>>

NoAlert(row) ==
  /\ step = "alerts" /\ row \in active
  /\ \/ \E previous \in Previous(row) : previous.category = row.category
     \/ Alerted(row)
  /\ active' = active \ {row}
  /\ UNCHANGED <<now, run, step, left, alert, tables, published, stream>>

\* The alert that was logged is published.
Publish ==
  /\ step = "publish"
  /\ published' = published \cup alert
  /\ step' = "alerts" /\ alert' = {}
  /\ UNCHANGED <<now, run, left, active, tables, stream>>

Finish ==
  /\ step = "alerts" /\ active = {}
  /\ step' = "idle" /\ run' = 0
  /\ UNCHANGED <<now, left, active, alert, tables, published, stream>>

\* An error of Postgres or Redis, or a crash, ends the run.
Abort ==
  /\ step # "idle"
  /\ step' = "idle" /\ run' = 0 /\ left' = {} /\ active' = {} /\ alert' = {}
  /\ UNCHANGED <<now, tables, published, stream>>

-----------------------------------------------------------------------------
(* The event stream.                                                       *)

Open(c) ==
  /\ opened[c] = Closed
  /\ opened' = [opened EXCEPT ![c] = now]
  /\ cursor' = [cursor EXCEPT ![c] = now]
  /\ UNCHANGED <<now, worker, tables, published, results, sent>>

\* Of a row the stream needs the instant and the symbol.
Unseen(c) == {sig \in Signals : Persisted(sig) /\ sig[1] > cursor[c]}

\* The SELECT of a poll; setInterval does not wait for the poll before.
Select(c) ==
  /\ opened[c] # Closed /\ Cardinality(results[c]) < MaxPolls
  /\ Unseen(c) # {}
  /\ results' = [results EXCEPT ![c] = @ \cup {Unseen(c)}]
  /\ UNCHANGED <<now, worker, tables, published, opened, cursor, sent>>

\* MUTANT: the newest of the rows read, whatever the cursor has become meanwhile.
MutNewestRow(t, c, result) ==
  /\ t \in {sig[1] : sig \in result}
  /\ \A sig \in result : sig[1] <= t

\* MUTANT: the cursor is set to the instant of the poll.
MutNewestNow(t, c, result) == t = now

IsNewest(t, c, result) ==
  /\ t \in {cursor[c]} \cup {sig[1] : sig \in result}
  /\ t >= cursor[c] /\ \A sig \in result : sig[1] <= t

\* MUTANT: an update carries no more than its symbol.
MutUpdates(result) == {sig[2] : sig \in result}

\* One signal_update per symbol, that of its newest row.
Updates(result) ==
  {sig \in result : \A other \in result : other[2] = sig[2] => other[1] <= sig[1]}

\* Rows arrive: the cursor moves and the updates go out.
Announce(c) ==
  /\ \E result \in results[c], t \in Times :
       /\ IsNewest(t, c, result)
       /\ cursor' = [cursor EXCEPT ![c] = t]
       /\ sent' = [sent EXCEPT ![c] = @ \cup Updates(result)]
       /\ results' = [results EXCEPT ![c] = @ \ {result}]
  /\ UNCHANGED <<now, worker, tables, published, opened>>

\* The SELECT fails; the error is logged and the next poll tries again.
PollFails(c) ==
  /\ \E result \in results[c] : results' = [results EXCEPT ![c] = @ \ {result}]
  /\ UNCHANGED <<now, worker, tables, published, opened, cursor, sent>>

\* The client disconnects; it opens a new connection later.
Close(c) ==
  /\ opened[c] # Closed
  /\ opened' = [opened EXCEPT ![c] = Closed]
  /\ cursor' = [cursor EXCEPT ![c] = 0]
  /\ results' = [results EXCEPT ![c] = {}]
  /\ sent' = [sent EXCEPT ![c] = {}]
  /\ UNCHANGED <<now, worker, tables, published>>

Tick ==
  /\ now < MaxTime /\ now' = now + 1
  /\ UNCHANGED <<worker, tables, published, stream>>

Work ==
  \/ StartRun \/ BeginAlerts \/ Publish \/ Finish \/ Abort
  \/ \E s \in Symbols : Persist(s)
  \/ \E row \in active : LogAlert(row) \/ NoAlert(row)

Poll(c) == Select(c) \/ Announce(c) \/ PollFails(c)

Next == Work \/ Tick \/ \E c \in Clients : Open(c) \/ Poll(c) \/ Close(c)

\* setInterval keeps polling, and a database that is asked again and again answers in
\* the end; runs, clients and the clock owe nothing.
Fairness == \A c \in Clients : WF_vars(Select(c)) /\ SF_vars(Announce(c))

Spec     == Init /\ [][Next]_vars
FairSpec == Spec /\ Fairness

-----------------------------------------------------------------------------
(* Properties.                                                             *)

\* Shape of the state.
TypeOK ==
  /\ now \in Times /\ run \in Times
  /\ step \in {"idle", "persist", "alerts", "publish"} /\ left \subseteq Symbols
  /\ rows \subseteq Rows /\ active \subseteq Rows /\ alert \subseteq Rows
  /\ logged \subseteq Symbols \X Times \X Categories /\ published \subseteq Rows
  /\ opened \in [Clients -> Times \cup {Closed}] /\ cursor \in [Clients -> Times]
  /\ results \in [Clients -> SUBSET SUBSET Signals]
  /\ sent \in [Clients -> SUBSET Signals]

\* The signals that a connection opened before their run should learn of.
Due(c, sig) == opened[c] # Closed /\ opened[c] < sig[1] /\ Persisted(sig)

Learned(c, t) == \E sig \in sent[c] : sig[1] >= t

\* A connection's cursor passes no run it was open for without an update of that run
\* or a newer one, upon which the client reads all signals anew, however polls overlap
\* and their answers overtake each other.
PassesOnlyAnnounced ==
  \A c \in Clients, sig \in Signals :
    Due(c, sig) /\ sig[1] <= cursor[c] => Learned(c, sig[1])

\* Overlapping polls never move the cursor of an open connection back.
CursorNeverRegresses ==
  [][\A c \in Clients : opened[c] # Closed /\ opened'[c] = opened[c] => cursor'[c] >= cursor[c]]_vars

\* Every run that persists a signal reaches the connections opened before it,
\* though a run may stop half-way and polls may fail.
RunIsAnnounced ==
  \A c \in Clients, t \in Times :
    (\E s \in Symbols : Due(c, <<t, s>>))
      ~> opened[c] = Closed \/ Learned(c, t)

\* A category of a symbol and a date is announced at most once, though several runs may
\* write that date, with other categories in between, and stop before, between and after
\* the log and the message.
AlertedOnce ==
  \A p \in published, q \in published : Key(p) = Key(q) => p = q

=============================================================================
