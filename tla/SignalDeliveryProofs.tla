------------------------- MODULE SignalDeliveryProofs -------------------------
(***************************************************************************)
(* Proofs about SignalDelivery, for every set of symbols, categories and    *)
(* connections and every number of overlapping polls and instants.          *)
(***************************************************************************)
EXTENDS SignalDelivery, TLAPS

\* The cursor stands where the connection was opened or at an update that went out.
CursorsAreAnnounced ==
  \A c \in Clients :
    /\ cursor[c] >= opened[c]
    /\ opened[c] # Closed /\ cursor[c] > opened[c] => Learned(c, cursor[c])

\* What is announced, or about to be, is logged.
AlertsAreLogged == \A row \in published \cup alert : Key(row) \in logged

\* The alert about to be published is one, of a key that no message had before.
AlertIsNew ==
  /\ \A row \in alert, other \in alert : row = other
  /\ \A row \in alert, p \in published : Key(p) # Key(row)

IInv == TypeOK /\ CursorsAreAnnounced /\ AlertsAreLogged /\ AlertIsNew /\ AlertedOnce

-----------------------------------------------------------------------------
(* Lemmas.                                                                 *)

LEMMA TimeFacts == MaxTime \in Nat /\ Closed = -1 /\ 0 \in Times /\ Times \subseteq Nat
BY DeliveryAssumption DEF DeliveryAssumption, Times, Closed

LEMMA InstantsAreIntegers ==
  ASSUME TypeOK, NEW c \in Clients PROVE cursor[c] \in Int /\ opened[c] \in Int
<1>1. cursor[c] \in Times /\ (opened[c] \in Times \/ opened[c] = -1)
  BY TimeFacts DEF TypeOK
<1>2. \A t \in Times : t \in Int
  BY TimeFacts
<1> QED BY <1>1, <1>2

LEMMA SignalParts ==
  ASSUME NEW sig \in Signals
  PROVE  sig[1] \in Times /\ sig[1] \in Int /\ sig[2] \in Symbols /\ sig = <<sig[1], sig[2]>>
<1>1. PICK t \in Times, s \in Symbols : sig = <<t, s>>
  BY SMTT(30) DEF Signals
<1>2. t \in Int
  BY TimeFacts
<1> QED BY <1>1, <1>2

\* What a run finds of a symbol makes a row.
LEMMA RowFacts ==
  ASSUME NEW f \in Findings, NEW t \in Times, f.lag <= t
  PROVE  Row(f, t) \in Rows
<1>1. f.symbol \in Symbols /\ f.category \in Categories /\ f.lag \in Nat
  BY DeliveryAssumption DEF DeliveryAssumption
<1>2. t - f.lag \in Times
  BY <1>1, TimeFacts DEF Times
<1> QED BY <1>1, <1>2 DEF Row, Rows

LEMMA KeyFacts ==
  ASSUME NEW row \in Rows PROVE Key(row) \in Symbols \X Times \X Categories
BY DEF Rows, Key

\* The newest row that is read goes out.
LEMMA NewestIsUpdated ==
  ASSUME NEW c \in Clients, NEW result \in SUBSET Signals, NEW t \in Times,
         IsNewest(t, c, result), t # cursor[c]
  PROVE  \E sig \in Updates(result) : sig[1] = t
<1>1. PICK sig \in result : sig[1] = t
  BY DEF IsNewest
<1>2. \A other \in result : other[1] <= sig[1]
  BY <1>1 DEF IsNewest
<1> QED BY <1>1, <1>2 DEF Updates

-----------------------------------------------------------------------------
(* The invariant is inductive.                                             *)

LEMMA InitHolds == Init => IInv
<1> SUFFICES ASSUME Init PROVE IInv
  OBVIOUS
<1>1. rows \subseteq Rows
  <2> SUFFICES ASSUME NEW row \in rows PROVE row \in Rows
    OBVIOUS
  <2>1. PICK f \in Findings : f.lag = 0 /\ row = Row(f, 0)
    BY DEF Init
  <2> QED BY <2>1, RowFacts, TimeFacts
<1>2. TypeOK
  BY <1>1, TimeFacts DEF Init, TypeOK
<1>3. CursorsAreAnnounced
  BY TimeFacts DEF Init, CursorsAreAnnounced
<1>4. AlertsAreLogged /\ AlertIsNew /\ AlertedOnce
  BY DEF Init, AlertsAreLogged, AlertIsNew, AlertedOnce
<1> QED BY <1>2, <1>3, <1>4 DEF IInv

\* The worker leaves the stream alone.
LEMMA WorkKeepsStream ==
  ASSUME IInv, UNCHANGED stream PROVE CursorsAreAnnounced'
BY DEF IInv, CursorsAreAnnounced, Learned, stream

\* The steps of the worker that log and announce nothing.
LEMMA WorkKeeps ==
  ASSUME IInv,
         \/ StartRun \/ BeginAlerts \/ Finish \/ Abort
         \/ \E s \in Symbols : Persist(s)
         \/ \E row \in active : NoAlert(row)
  PROVE  IInv'
<1> USE DEF IInv
<1>1. UNCHANGED <<now, logged, published, stream>> /\ alert' \in {alert, {}}
  BY DEF StartRun, BeginAlerts, Finish, Abort, Persist, NoAlert, tables
<1>2. run' \in Times /\ step' \in {"idle", "persist", "alerts", "publish"} /\ left' \subseteq Symbols
  BY TimeFacts DEF StartRun, BeginAlerts, Finish, Abort, Persist, NoAlert, TypeOK
<1>3. rows' \subseteq Rows /\ active' \subseteq Rows
  <2>1. CASE StartRun \/ BeginAlerts \/ Finish \/ Abort \/ \E row \in active : NoAlert(row)
    BY <2>1 DEF StartRun, BeginAlerts, Finish, Abort, NoAlert, tables, TypeOK
  <2>2. ASSUME NEW s \in Symbols, Persist(s) PROVE rows' \subseteq Rows /\ active' \subseteq Rows
    <3>1. PICK f \in Findings : /\ f.lag <= run /\ rows' = Upsert(Row(f, run))
                                /\ active' = active \cup {Row(f, run)}
      BY <2>2 DEF Persist
    <3>2. Row(f, run) \in Rows
      BY <3>1, RowFacts DEF TypeOK
    <3> QED BY <3>1, <3>2 DEF Upsert, TypeOK
  <2> QED BY <2>1, <2>2
<1>4. TypeOK'
  BY <1>1, <1>2, <1>3 DEF TypeOK, stream
<1>5. AlertsAreLogged' /\ AlertIsNew' /\ AlertedOnce'
  BY <1>1 DEF AlertsAreLogged, AlertIsNew, AlertedOnce
<1> QED BY <1>1, <1>4, <1>5, WorkKeepsStream

\* Only what was never logged, and so never announced, becomes an alert.
LEMMA LogKeeps == ASSUME IInv, NEW row \in active, LogAlert(row) PROVE IInv'
<1> USE DEF IInv
<1>1. /\ logged' = logged \cup {Key(row)} /\ alert' = {row} /\ step' = "publish"
      /\ active' = active \ {row} /\ UNCHANGED <<now, run, left, rows, published, stream>>
      /\ Key(row) \notin logged
  BY DEF LogAlert, Alerted
<1>2. row \in Rows /\ Key(row) \in Symbols \X Times \X Categories
  BY KeyFacts DEF TypeOK
<1>3. TypeOK'
  BY <1>1, <1>2 DEF TypeOK, stream
<1>4. AlertsAreLogged'
  BY <1>1 DEF AlertsAreLogged
<1>5. AlertIsNew'
  BY <1>1 DEF AlertIsNew, AlertsAreLogged
<1>6. AlertedOnce'
  BY <1>1 DEF AlertedOnce
<1> QED BY <1>1, <1>3, <1>4, <1>5, <1>6, WorkKeepsStream

LEMMA PublishKeeps == ASSUME IInv, Publish PROVE IInv'
<1> USE DEF IInv
<1>1. /\ published' = published \cup alert /\ alert' = {} /\ step' = "alerts"
      /\ UNCHANGED <<now, run, left, active, rows, logged, stream>>
  BY DEF Publish, tables
<1>2. TypeOK'
  BY <1>1 DEF TypeOK, stream
<1>3. AlertsAreLogged' /\ AlertIsNew'
  BY <1>1 DEF AlertsAreLogged, AlertIsNew
<1>4. AlertedOnce'
  <2> SUFFICES ASSUME NEW p \in published \cup alert, NEW q \in published \cup alert, Key(p) = Key(q)
               PROVE  p = q
    BY <1>1 DEF AlertedOnce
  <2>1. CASE p \in published /\ q \in published
    BY <2>1 DEF AlertedOnce
  <2>2. CASE p \in alert \/ q \in alert
    BY <2>2 DEF AlertIsNew
  <2> QED BY <2>1, <2>2
<1> QED BY <1>1, <1>2, <1>3, <1>4, WorkKeepsStream

\* The stream leaves the worker and its tables alone.
LEMMA StreamKeeps ==
  ASSUME IInv, NEW c \in Clients, Open(c) \/ Select(c) \/ PollFails(c) \/ Close(c) PROVE IInv'
<1> USE DEF IInv
<1>1. UNCHANGED <<now, worker, tables, published>>
  BY DEF Open, Select, PollFails, Close
<1>2. Closed \in Times \cup {Closed} /\ 0 \in Times
  BY TimeFacts
<1>3. opened' \in [Clients -> Times \cup {Closed}] /\ cursor' \in [Clients -> Times]
      /\ sent' \in [Clients -> SUBSET Signals]
  BY <1>2 DEF Open, Select, PollFails, Close, TypeOK
<1>4. results' \in [Clients -> SUBSET SUBSET Signals]
  <2>1. Unseen(c) \in SUBSET Signals
    BY DEF Unseen
  <2>2. results \in [Clients -> SUBSET SUBSET Signals]
    BY DEF TypeOK
  <2>3. CASE Select(c)
    BY <2>1, <2>2, <2>3 DEF Select
  <2>4. CASE PollFails(c)
    BY <2>2, <2>4 DEF PollFails
  <2>5. CASE Open(c) \/ Close(c)
    BY <2>2, <2>5 DEF Open, Close
  <2> QED BY <2>3, <2>4, <2>5
<1>5. TypeOK'
  BY <1>1, <1>3, <1>4 DEF TypeOK, worker, tables
<1>6. AlertsAreLogged' /\ AlertIsNew' /\ AlertedOnce'
  BY <1>1 DEF AlertsAreLogged, AlertIsNew, AlertedOnce, worker, tables
<1>7. CursorsAreAnnounced'
  <2>1. CASE Open(c) \/ Close(c)
    <3>1. \A d \in Clients : d # c =>
            cursor'[d] = cursor[d] /\ opened'[d] = opened[d] /\ sent'[d] = sent[d]
      BY <2>1 DEF Open, Close, TypeOK
    <3>2. cursor'[c] >= opened'[c] /\ (cursor'[c] = opened'[c] \/ opened'[c] = Closed)
      BY <2>1, TimeFacts DEF Open, Close, TypeOK
    <3>3. cursor'[c] \in Int /\ opened'[c] \in Int
      <4>1. cursor'[c] \in Times /\ (opened'[c] \in Times \/ opened'[c] = -1)
        BY <1>3, TimeFacts
      <4>2. \A t \in Times : t \in Int
        BY TimeFacts
      <4> QED BY <4>1, <4>2
    <3>4. ASSUME NEW d \in Clients
          PROVE  /\ cursor'[d] >= opened'[d]
                 /\ opened'[d] # Closed /\ cursor'[d] > opened'[d] => Learned(d, cursor[d])'
      <4>1. CASE d = c
        BY <3>2, <3>3, <4>1
      <4>2. CASE d # c
        BY <3>1, <4>2 DEF CursorsAreAnnounced, Learned
      <4> QED BY <4>1, <4>2
    <3> QED BY <3>4 DEF CursorsAreAnnounced
  <2>2. CASE Select(c) \/ PollFails(c)
    BY <2>2 DEF Select, PollFails, CursorsAreAnnounced, Learned
  <2> QED BY <2>1, <2>2
<1> QED BY <1>5, <1>6, <1>7

LEMMA AnnounceKeeps == ASSUME IInv, NEW c \in Clients, Announce(c) PROVE IInv'
<1> USE DEF IInv
<1>1. PICK result \in results[c], t \in Times :
        /\ IsNewest(t, c, result)
        /\ cursor' = [cursor EXCEPT ![c] = t]
        /\ sent' = [sent EXCEPT ![c] = @ \cup Updates(result)]
        /\ results' = [results EXCEPT ![c] = @ \ {result}]
  BY DEF Announce
<1>2. UNCHANGED <<now, worker, tables, published, opened>>
  BY DEF Announce
<1>3. result \in SUBSET Signals /\ Updates(result) \subseteq Signals
  BY DEF TypeOK, Updates
<1>4. cursor' \in [Clients -> Times] /\ sent' \in [Clients -> SUBSET Signals]
      /\ results' \in [Clients -> SUBSET SUBSET Signals]
  BY <1>1, <1>3 DEF TypeOK
<1>5. TypeOK'
  BY <1>2, <1>4 DEF TypeOK, worker, tables
<1>6. AlertsAreLogged' /\ AlertIsNew' /\ AlertedOnce'
  BY <1>2 DEF AlertsAreLogged, AlertIsNew, AlertedOnce, worker, tables
<1>7. /\ cursor'[c] = t /\ sent'[c] = sent[c] \cup Updates(result)
      /\ \A d \in Clients : d # c => cursor'[d] = cursor[d] /\ sent'[d] = sent[d]
  BY <1>1 DEF TypeOK
<1>8. t >= cursor[c] /\ t \in Int /\ cursor[c] \in Int /\ opened[c] \in Int
  BY <1>1, TimeFacts, InstantsAreIntegers DEF IsNewest
<1>9. cursor'[c] >= opened'[c]
  BY <1>2, <1>7, <1>8 DEF CursorsAreAnnounced
<1>10. opened[c] # Closed /\ t > opened[c] => Learned(c, t)'
  <2>1. CASE t = cursor[c]
    BY <1>7, <2>1 DEF CursorsAreAnnounced, Learned
  <2>2. CASE t # cursor[c]
    <3>1. PICK sig \in Updates(result) : sig[1] = t
      BY <1>1, <1>3, <2>2, NewestIsUpdated
    <3> QED BY <1>7, <1>8, <3>1 DEF Learned
  <2> QED BY <2>1, <2>2
<1>11. CursorsAreAnnounced'
  BY <1>2, <1>7, <1>9, <1>10 DEF CursorsAreAnnounced, Learned
<1> QED BY <1>5, <1>6, <1>11

LEMMA TickKeeps == ASSUME IInv, Tick PROVE IInv'
<1> USE DEF IInv
<1>1. now' \in Times /\ UNCHANGED <<worker, tables, published, stream>>
  BY DeliveryAssumption DEF DeliveryAssumption, Tick, TypeOK, Times
<1>2. TypeOK'
  BY <1>1 DEF TypeOK, worker, tables, stream
<1>3. AlertsAreLogged' /\ AlertIsNew' /\ AlertedOnce'
  BY <1>1 DEF AlertsAreLogged, AlertIsNew, AlertedOnce, worker, tables
<1> QED BY <1>1, <1>2, <1>3, WorkKeepsStream

LEMMA NextKeeps == IInv /\ [Next]_vars => IInv'
<1> SUFFICES ASSUME IInv, [Next]_vars PROVE IInv'
  OBVIOUS
<1>1. CASE Work
  BY <1>1, WorkKeeps, LogKeeps, PublishKeeps DEF Work
<1>2. CASE Tick
  BY <1>2, TickKeeps
<1>3. ASSUME NEW c \in Clients, Open(c) \/ Poll(c) \/ Close(c) PROVE IInv'
  BY <1>3, StreamKeeps, AnnounceKeeps DEF Poll
<1>4. CASE UNCHANGED vars
  BY <1>4 DEF vars, worker, tables, stream, IInv, TypeOK, CursorsAreAnnounced, Learned,
    AlertsAreLogged, AlertIsNew, AlertedOnce
<1> QED BY <1>1, <1>2, <1>3, <1>4 DEF Next

-----------------------------------------------------------------------------
(* The theorems.                                                           *)

\* The invariant the other theorems follow from.
THEOREM InductiveInvariant == Spec => []IInv
BY InitHolds, NextKeeps, PTL DEF Spec

\* Every reachable state of runs, alerts and streams is well typed.
THEOREM TypeCorrect == Spec => []TypeOK
<1>1. IInv => TypeOK
  BY DEF IInv
<1> QED BY <1>1, InductiveInvariant, PTL

\* A cursor passes no run its connection was open for without an update as new.
THEOREM StreamSkipsNoRun == Spec => []PassesOnlyAnnounced
<1>1. IInv => PassesOnlyAnnounced
  <2> SUFFICES ASSUME IInv, NEW c \in Clients, NEW sig \in Signals,
                      Due(c, sig), sig[1] <= cursor[c]
               PROVE  Learned(c, sig[1])
    BY DEF PassesOnlyAnnounced
  <2>1. opened[c] # Closed /\ opened[c] < sig[1] /\ sig[1] \in Int
        /\ cursor[c] \in Int /\ opened[c] \in Int
    <3>1. sig[1] \in Int
      BY SignalParts
    <3>2. cursor[c] \in Int /\ opened[c] \in Int
      BY InstantsAreIntegers DEF IInv
    <3> QED BY <3>1, <3>2 DEF Due
  <2>2. PICK update \in sent[c] : update[1] >= cursor[c]
    BY <2>1 DEF IInv, CursorsAreAnnounced, Learned
  <2>3. update[1] \in Int
    <3>1. update \in Signals
      BY DEF IInv, TypeOK
    <3> QED BY <3>1, SignalParts
  <2> QED BY <2>1, <2>2, <2>3 DEF Learned
<1> QED BY <1>1, InductiveInvariant, PTL

\* A category of a symbol and a date is announced at most once, whatever runs write that
\* date again and wherever they stop.
THEOREM AlertsAreSingle == Spec => []AlertedOnce
<1>1. IInv => AlertedOnce
  BY DEF IInv
<1> QED BY <1>1, InductiveInvariant, PTL

\* Overlapping polls never move the cursor of an open connection back.
THEOREM CursorMovesForward == Spec => CursorNeverRegresses
<1> DEFINE Forward(c) == opened[c] # Closed /\ opened'[c] = opened[c] => cursor'[c] >= cursor[c]
<1>1. ASSUME TypeOK, [Next]_vars, NEW c \in Clients PROVE Forward(c)
  <2>1. cursor[c] \in Int
    BY <1>1, InstantsAreIntegers
  <2>2. CASE cursor' = cursor
    BY <2>1, <2>2
  <2>3. ASSUME NEW d \in Clients, Open(d) \/ Close(d) PROVE Forward(c)
    <3>1. CASE d = c
      BY <1>1, <2>3, <3>1, TimeFacts DEF Open, Close, TypeOK
    <3>2. CASE d # c
      BY <1>1, <2>1, <2>3, <3>2 DEF Open, Close, TypeOK
    <3> QED BY <3>1, <3>2
  <2>4. ASSUME NEW d \in Clients, Announce(d) PROVE Forward(c)
    <3>1. PICK result \in results[d], t \in Times :
            IsNewest(t, d, result) /\ cursor' = [cursor EXCEPT ![d] = t]
      BY <2>4 DEF Announce
    <3>2. t >= cursor[d]
      BY <3>1 DEF IsNewest
    <3> QED BY <1>1, <2>1, <3>1, <3>2 DEF TypeOK
  <2>5. \/ cursor' = cursor
        \/ \E d \in Clients : Open(d) \/ Close(d) \/ Announce(d)
    BY <1>1 DEF Next, Work, Poll, vars, stream, StartRun, Persist, BeginAlerts, LogAlert,
      NoAlert, Publish, Finish, Abort, Tick, Select, PollFails
  <2> QED BY <2>2, <2>3, <2>4, <2>5
<1>2. TypeOK /\ [Next]_vars => [\A c \in Clients : Forward(c)]_vars
  BY <1>1
<1> QED BY <1>2, TypeCorrect, PTL DEF Spec, CursorNeverRegresses

=============================================================================
